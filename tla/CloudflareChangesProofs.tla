----------------------- MODULE CloudflareChangesProofs -----------------------
(* Proofs about CloudflareChanges for any number of changes and of restarts:  *)
(* type correctness, that nothing is sent twice or after it was said not to   *)
(* be, and that the command's changes wait one at a time.                     *)
EXTENDS CloudflareChanges, FiniteSetTheorems, SequenceTheorems, TLAPS

-----------------------------------------------------------------------------
(* The inductive invariant.                                                   *)

Answered == {c \in Changes : cf[c] = "done"}

\* A listed change is answered, so the next number is one the team's rows have.
ListedAreAnswered ==
    /\ Len(filed) <= Cardinality(Answered)
    /\ \A c \in Changes : cf[c] \in {"filing", "listing"} => number[c] \in Numbers

\* A change goes to the chat or to the team, once its proposal has come so far.
ChatOrTeam ==
    /\ \A c \in Changes : rec[c].status # "none" =>
           cf[c] \in {"waiting", "done"} /\ \A n \in Numbers : row[n].of # c
    /\ \A n \in Numbers : row[n].of # None => cf[row[n].of] \in {"listing", "done"}
    /\ \A m, n \in Numbers : row[m].of # None /\ row[m].of = row[n].of => m = n

Declined == {"rejected", "expired"}

\* Where the fiber is, the record's status is one of these.
StatusesAt(pc) ==
    CASE pc = "none" -> {"none", "awaiting"} \cup Declined
      [] pc \in {"admit", "approve"} -> {"awaiting"} \cup Declined
      [] pc \in {"identity", "begin"} -> {"approved"}
      [] pc \in {"send", "answer"} -> {"executing"}
      [] pc = "interrupted" -> {"awaiting", "approved", "executing"} \cup Declined
      [] OTHER -> Terminal

FiberMatchesRecord == \A c \in Changes : rec[c].status \in StatusesAt(fiber[c])

SentByFiber(c) ==
    \/ rec[c].status = "executing" /\ fiber[c] \in {"answer", "interrupted"}
    \/ rec[c].status \in {"succeeded", "failed", "indeterminate"} /\ fiber[c] = "done"

SentByAdmin(c) == \E n \in Numbers : row[n].of = c /\ row[n].status \in {"answer", "done"}

SentIsKnown ==
    \A c \in Changes : sent[c] # 0 => sent[c] = 1 /\ (SentByFiber(c) \/ SentByAdmin(c))

NeverGoes(c) ==
    \/ rec[c].status \in {"unsent"} \cup Declined
    \/ rec[c].status = "none" /\ \A n \in Numbers : row[n].of # c

HeardUnsentIsOver ==
    \A c \in Changes : heard[c] = "unsent" => cf[c] = "done" /\ NeverGoes(c)

SendingInv == ChatOrTeam /\ FiberMatchesRecord /\ SentIsKnown /\ HeardUnsentIsOver

-----------------------------------------------------------------------------
(* Types.                                                                     *)

Record == [status : Statuses, wait : {"held", "overdue", "left"}]
Row == [of : Changes \cup {None},
        status : {"none", "pending", "claimed", "answer", "done", "unsent", "rejected", "expired"}]

\* What the statements on the records write are records.
LEMMA RecordTypes ==
    ASSUME TypeOK
    PROVE  /\ \A cs \in SUBSET Changes : Leave(cs) \in [Changes -> Record]
           /\ LeaveOverdue \in [Changes -> Record]
           /\ WithdrawHeld \in [Changes -> Record]
           /\ \A r \in [Changes -> Record], c \in Changes, s \in Statuses :
                  Status(r, c, s) \in [Changes -> Record]
<1>1. \A c \in Changes : rec[c] \in Record
  BY DEF TypeOK, Record
<1>2. ASSUME NEW cs \in SUBSET Changes PROVE Leave(cs) \in [Changes -> Record]
  BY <1>1 DEF Leave, Record
<1>3. LeaveOverdue \in [Changes -> Record]
  BY <1>2 DEF LeaveOverdue
<1>4. WithdrawHeld \in [Changes -> Record]
  BY <1>1 DEF WithdrawHeld, Record, Statuses
<1>5. ASSUME NEW r \in [Changes -> Record], NEW c \in Changes, NEW s \in Statuses
      PROVE  Status(r, c, s) \in [Changes -> Record]
  BY <1>5 DEF Status, Record
<1>6. QED
  BY <1>2, <1>3, <1>4, <1>5

CfStates == InAgent \cup {"idle", "waiting", "queued", "done"}
Answers == {"nothing", "applied", "failed", "unsent", "unknown", "inChat", "filed", "notFiled",
            "broken"}
FiberStates == FiberRuns \cup {"none", "admit", "interrupted", "done"}

\* The proxy's handling of a request goes on until it is answered, once.
CfGoesOn ==
    /\ cf' \in [Changes -> CfStates] /\ heard' \in [Changes -> Answers]
    /\ \A c \in Changes :
           /\ cf[c] = "done" => cf'[c] = "done" /\ heard'[c] = heard[c]
           /\ cf'[c] = "filing" => cf[c] = "filing" \/ Propose(c)
           /\ cf'[c] = "listing" => cf[c] \in {"filing", "listing"}
           /\ cf[c] = "listing" => cf'[c] \in {"listing", "done"}
           /\ cf[c] = "waiting" => cf'[c] \in {"waiting", "done"}

LEMMA CfStep == TypeOK /\ [Next]_vars => CfGoesOn
<1> SUFFICES ASSUME TypeOK, [Next]_vars PROVE CfGoesOn
  OBVIOUS
<1>1. cf \in [Changes -> CfStates] /\ heard \in [Changes -> Answers]
  BY DEF TypeOK, CfStates, Answers
<1>2. CASE UNCHANGED proxy
  BY <1>1, <1>2 DEF CfGoesOn, proxy
<1>3. ASSUME NEW c \in Changes, NEW answer \in Answers, cf[c] # "done", Done(c, answer)
      PROVE  CfGoesOn
  BY <1>1, <1>3 DEF CfGoesOn, Done, CfStates
<1>4. ASSUME NEW c \in Changes, NEW pc \in {"proposing", "digest", "waiting", "queued"},
             cf[c] \notin {"waiting", "listing", "done"}, Goes(c, pc)
      PROVE  CfGoesOn
  BY <1>1, <1>4 DEF CfGoesOn, Goes, CfStates, InAgent
<1>5. ASSUME NEW c \in Changes, CfAsks(c) PROVE CfGoesOn
  BY <1>4, <1>5 DEF CfAsks
<1>6. ASSUME NEW c \in Changes, Propose(c) PROVE CfGoesOn
  <2>1. CASE Goes(c, "filing")
    BY <1>1, <1>6, <2>1 DEF CfGoesOn, Goes, CfStates, InAgent, Propose
  <2>2. CASE Goes(c, "digest")
    BY <1>4, <1>6, <2>2 DEF Propose
  <2>3. CASE Done(c, "unsent")
    BY <1>3, <1>6, <2>3 DEF Propose, Answers
  <2>4. QED
    BY <1>6, <2>1, <2>2, <2>3 DEF Propose
<1>7. ASSUME NEW c \in Changes, Create(c) PROVE CfGoesOn
  BY <1>4, <1>7 DEF Create
<1>8. ASSUME NEW c \in Changes, Poll(c) PROVE CfGoesOn
  <2>1. Answer(rec'[c]) \in Answers
    BY DEF Answer, Answers
  <2>2. QED
    BY <1>2, <1>3, <1>8, <2>1 DEF Poll
<1>9. ASSUME NEW c \in Changes, AskAgain(c) PROVE CfGoesOn
  BY <1>3, <1>4, <1>9 DEF AskAgain, Answers
<1>10. ASSUME NEW c \in Changes, GivesUp(c) PROVE CfGoesOn
  BY <1>3, <1>10 DEF GivesUp, Answers
<1>11. ASSUME NEW c \in Changes, File(c) PROVE CfGoesOn
  <2>1. CASE Goes(c, "listing")
    BY <1>1, <1>11, <2>1 DEF CfGoesOn, Goes, CfStates, InAgent, File
  <2>2. CASE Done(c, "notFiled")
    BY <1>3, <1>11, <2>2 DEF File, Answers
  <2>3. QED
    BY <1>11, <2>1, <2>2 DEF File
<1>12. ASSUME NEW c \in Changes, NotFiled(c) \/ List(c) PROVE CfGoesOn
  BY <1>3, <1>12 DEF NotFiled, List, Answers
<1>13. CASE Restart
  BY <1>1, <1>13 DEF CfGoesOn, Restart, CfStates, Answers, InAgent
<1>14. ASSUME NEW c \in Changes, Lapses(c) \/ NotAskedFor15s(c) \/ Decides(c) \/ Runs(c)
       PROVE  CfGoesOn
  <2>1. UNCHANGED proxy
    BY <1>14 DEF Lapses, NotAskedFor15s, Decides, Approve, StartFiber, Reject, Runs, FiberApproves,
                 FiberReadsIdentity, FiberBegins, FiberSends, FiberCompletes, Recovers, FiberGoes
  <2>2. QED
    BY <1>2, <2>1
<1>15. ASSUME NEW n \in Numbers, Claim(n) \/ AdminSends(n) \/ FinishApproval(n) \/ RowNotApproved(n)
       PROVE  CfGoesOn
  BY <1>2, <1>15 DEF Claim, AdminSends, FinishApproval, RowNotApproved, RowBecomes
<1>16. CASE Settle \/ Demoted \/ \E how \in {"finished", "stopped"} : CommandEnds(how)
  BY <1>2, <1>16 DEF Settle, Demoted, CommandEnds
<1>17. CASE UNCHANGED vars
  BY <1>2, <1>17 DEF vars, proxy
<1>18. QED
  BY <1>5, <1>6, <1>7, <1>8, <1>9, <1>10, <1>11, <1>12, <1>13, <1>14, <1>15, <1>16, <1>17
  DEF Next, Proxies

\* The changes answered only become more, and are never more than there are.
AnsweredGoesOn ==
    /\ Cardinality(Changes) \in Nat
    /\ Cardinality(Answered) \in Nat /\ Cardinality(Answered)' \in Nat
    /\ Cardinality(Answered) <= Cardinality(Answered)'
    /\ Cardinality(Answered)' <= Cardinality(Changes)
    /\ \A c \in Changes : cf[c] # "done" => Cardinality(Answered) < Cardinality(Changes)
    /\ \A c \in Changes : cf[c] # "done" /\ cf'[c] = "done"
           => Cardinality(Answered) < Cardinality(Answered)'

LEMMA AnsweredCounts == CfGoesOn => AnsweredGoesOn
<1> SUFFICES ASSUME CfGoesOn
             PROVE  AnsweredGoesOn
  OBVIOUS
<1>1. Answered \subseteq Answered' /\ Answered' \subseteq Changes
  BY DEF Answered, CfGoesOn
<1>2. IsFiniteSet(Changes) /\ Cardinality(Changes) \in Nat
  BY ChangesConstants, FS_CardinalityType
<1>3. /\ IsFiniteSet(Answered') /\ Cardinality(Answered)' \in Nat
      /\ Cardinality(Answered)' <= Cardinality(Changes)
  BY <1>1, <1>2, FS_Subset, FS_CardinalityType
<1>4. /\ IsFiniteSet(Answered) /\ Cardinality(Answered) \in Nat
      /\ Cardinality(Answered) <= Cardinality(Answered)'
      /\ (Cardinality(Answered)' = Cardinality(Answered) => Answered' = Answered)
  BY <1>1, <1>3, FS_Subset, FS_CardinalityType
<1>5. /\ Cardinality(Answered) <= Cardinality(Changes)
      /\ (Cardinality(Changes) = Cardinality(Answered) => Changes = Answered)
  BY <1>1, <1>2, FS_Subset
<1>6. (\E c \in Changes : cf[c] # "done") => Answered # Changes
  BY DEF Answered
<1>7. (\E c \in Changes : cf[c] # "done" /\ cf'[c] = "done") => Answered # Answered'
  BY DEF Answered
<1>8. ASSUME NEW i \in Nat, NEW j \in Nat, i <= j, i # j PROVE i < j
  BY <1>8
<1>9. ASSUME NEW c \in Changes, cf[c] # "done" PROVE Cardinality(Answered) < Cardinality(Changes)
  BY <1>2, <1>4, <1>5, <1>6, <1>8, <1>9
<1>10. ASSUME NEW c \in Changes, cf[c] # "done", cf'[c] = "done"
       PROVE  Cardinality(Answered) < Cardinality(Answered)'
  BY <1>3, <1>4, <1>7, <1>8, <1>10
<1>11. QED
  BY <1>2, <1>3, <1>4, <1>9, <1>10 DEF AnsweredGoesOn

NumbersAreTyped ==
    /\ number \in [Changes -> Numbers \cup {0}]
    /\ filed \in Seq(Changes) /\ Len(filed) <= Cardinality(Changes)

\* A filing takes the next number, and its listing is also its answer.
LEMMA ListedStep ==
    TypeOK /\ ListedAreAnswered /\ [Next]_vars => NumbersAreTyped' /\ ListedAreAnswered'
<1> SUFFICES ASSUME TypeOK, ListedAreAnswered, [Next]_vars
             PROVE  NumbersAreTyped' /\ ListedAreAnswered'
  OBVIOUS
<1>1. CfGoesOn
  BY CfStep
<1>2. NumbersAreTyped
  BY DEF TypeOK, NumbersAreTyped
<1>3. Len(filed) \in Nat
  BY <1>2, LenProperties DEF NumbersAreTyped
<1>a. AnsweredGoesOn
  BY <1>1, AnsweredCounts
<1>b. /\ Len(filed) <= Cardinality(Answered)' /\ Len(filed) <= Cardinality(Answered)
      /\ 0 <= Cardinality(Answered)' /\ 0 <= Cardinality(Changes)
  BY <1>3, <1>a DEF AnsweredGoesOn, ListedAreAnswered
<1>4. CASE UNCHANGED <<number, filed>> /\ \A c \in Changes : cf'[c] = "filing" => cf[c] = "filing"
  <2>1. Len(filed') <= Cardinality(Answered)'
    BY <1>4, <1>b
  <2>2. \A c \in Changes : cf'[c] \in {"filing", "listing"} => number'[c] \in Numbers
    BY <1>1, <1>4 DEF CfGoesOn, ListedAreAnswered
  <2>3. QED
    BY <1>2, <1>4, <2>1, <2>2 DEF NumbersAreTyped, ListedAreAnswered, Numbers
<1>5. CASE UNCHANGED number /\ filed' = <<>>
           /\ \A c \in Changes : cf'[c] = "filing" => cf[c] = "filing"
  <2>1. filed' \in Seq(Changes) /\ Len(filed') = 0
    BY <1>5, EmptySeq
  <2>2. Len(filed') <= Cardinality(Answered)' /\ Len(filed') <= Cardinality(Changes)
    BY <1>b, <2>1
  <2>3. \A c \in Changes : cf'[c] \in {"filing", "listing"} => number'[c] \in Numbers
    BY <1>1, <1>5 DEF CfGoesOn, ListedAreAnswered
  <2>4. QED
    BY <1>2, <1>5, <2>1, <2>2, <2>3 DEF NumbersAreTyped, ListedAreAnswered, Numbers
<1>6. ASSUME NEW c \in Changes, Propose(c) PROVE NumbersAreTyped' /\ ListedAreAnswered'
  <2>1. /\ Len(filed) < Cardinality(Changes) /\ Cardinality(Changes) \in Nat
        /\ Len(filed) <= Cardinality(Answered)'
    BY <1>3, <1>6, <1>a, <1>b DEF AnsweredGoesOn, Propose
  <2>2. Len(filed) + 1 \in Numbers
    BY <1>3, <2>1 DEF Numbers
  <2>3. number' \in [Changes -> Numbers \cup {0}] /\ UNCHANGED filed
    BY <1>2, <1>6, <2>2 DEF Propose, NumbersAreTyped, CommandSame
  <2>4. \A d \in Changes : d # c => cf'[d] = cf[d] /\ number'[d] = number[d]
    BY <1>2, <1>6 DEF Propose, Goes, Done, TypeOK, NumbersAreTyped
  <2>5. cf'[c] \in {"filing", "listing"} => number'[c] \in Numbers
    BY <1>2, <1>6, <2>2 DEF Propose, Goes, Done, TypeOK, NumbersAreTyped
  <2>6. \A d \in Changes : cf'[d] \in {"filing", "listing"} => number'[d] \in Numbers
    BY <2>4, <2>5 DEF ListedAreAnswered
  <2>7. QED
    BY <1>2, <2>1, <2>3, <2>6 DEF NumbersAreTyped, ListedAreAnswered, Numbers
<1>7. ASSUME NEW c \in Changes, List(c) PROVE NumbersAreTyped' /\ ListedAreAnswered'
  <2>1. cf[c] = "listing" /\ cf' = [cf EXCEPT ![c] = "done"] /\ cf'[c] = "done"
    BY <1>7 DEF List, Done, TypeOK
  <2>2. Cardinality(Answered) < Cardinality(Answered)'
    BY <1>a, <2>1 DEF AnsweredGoesOn
  <2>3. filed' \in Seq(Changes) /\ Len(filed') \in {1, Len(filed) + 1}
    BY <1>2, <1>7 DEF List, NumbersAreTyped
  <2>4. Len(filed') <= Cardinality(Answered)' /\ Len(filed') <= Cardinality(Changes)
    <3>1. ASSUME NEW before \in Nat, NEW after \in Nat, NEW all \in Nat, NEW len \in Nat,
                 len <= before, before < after, after <= all
          PROVE  1 <= after /\ len + 1 <= after /\ 1 <= all /\ len + 1 <= all
      BY <3>1
    <3>2. /\ Cardinality(Answered) \in Nat /\ Cardinality(Answered)' \in Nat
          /\ Cardinality(Changes) \in Nat /\ Cardinality(Answered)' <= Cardinality(Changes)
      BY <1>a DEF AnsweredGoesOn
    <3>3. /\ 1 <= Cardinality(Answered)' /\ Len(filed) + 1 <= Cardinality(Answered)'
          /\ 1 <= Cardinality(Changes) /\ Len(filed) + 1 <= Cardinality(Changes)
      BY <1>3, <1>b, <2>2, <3>1, <3>2
    <3>4. QED
      BY <2>3, <3>3
  <2>5. number' = [number EXCEPT ![c] = 0]
    BY <1>7 DEF List
  <2>6. \A d \in Changes : cf'[d] \in {"filing", "listing"} => number'[d] \in Numbers
    BY <1>2, <2>1, <2>5 DEF ListedAreAnswered, NumbersAreTyped, TypeOK
  <2>7. QED
    BY <1>2, <2>3, <2>4, <2>5, <2>6 DEF NumbersAreTyped, ListedAreAnswered, Numbers
<1>8. CASE \E c \in Changes : Propose(c) \/ List(c)
  BY <1>6, <1>7, <1>8
<1>9. ASSUME ~\E c \in Changes : Propose(c) \/ List(c)
      PROVE  UNCHANGED number /\ (UNCHANGED filed \/ filed' = <<>>)
  BY <1>9 DEF Next, Proxies, CfAsks, Lapses, NotAskedFor15s, GivesUp, Decides, Runs, CommandEnds, Settle,
     Demoted, Restart, Claim, AdminSends, FinishApproval, RowNotApproved, Create, Poll, AskAgain,
     File, NotFiled, Approve, StartFiber, Reject, FiberApproves, FiberReadsIdentity, FiberBegins,
     FiberSends, FiberCompletes, Recovers, FiberGoes, RowBecomes, team, vars
<1>10. QED
  BY <1>1, <1>4, <1>5, <1>8, <1>9 DEF CfGoesOn

RecordsAreTyped ==
    rec \in [Changes -> Record] /\ asked \in SUBSET Changes /\ fiber \in [Changes -> FiberStates]

LEMMA RecordsStep == TypeOK /\ [Next]_vars => RecordsAreTyped'
<1> SUFFICES ASSUME TypeOK, [Next]_vars PROVE RecordsAreTyped'
  OBVIOUS
<1>1. rec \in [Changes -> Record] /\ asked \in SUBSET Changes /\ fiber \in [Changes -> FiberStates]
  BY DEF TypeOK, Record, FiberStates
<1>2. /\ \A cs \in SUBSET Changes : Leave(cs) \in [Changes -> Record]
      /\ LeaveOverdue \in [Changes -> Record] /\ WithdrawHeld \in [Changes -> Record]
      /\ \A r \in [Changes -> Record], c \in Changes, s \in Statuses :
             Status(r, c, s) \in [Changes -> Record]
  BY RecordTypes
<1>3. CASE UNCHANGED held
  BY <1>1, <1>3 DEF RecordsAreTyped, held
<1>4. ASSUME NEW c \in Changes,
             CfAsks(c) \/ Propose(c) \/ AskAgain(c) \/ File(c) \/ NotFiled(c) \/ List(c)
      PROVE  UNCHANGED held
  BY <1>4 DEF CfAsks, Propose, AskAgain, File, NotFiled, List
<1>5. ASSUME NEW n \in Numbers, Claim(n) \/ AdminSends(n) \/ FinishApproval(n) \/ RowNotApproved(n)
      PROVE  UNCHANGED held
  BY <1>5 DEF Claim, AdminSends, FinishApproval, RowNotApproved, RowBecomes
<1>6. CASE Demoted \/ \E how \in {"finished", "stopped"} : CommandEnds(how)
  BY <1>3, <1>6 DEF Demoted, CommandEnds
<1>7. CASE Settle
  BY <1>1, <1>2, <1>7 DEF Settle, RecordsAreTyped
<1>8. ASSUME NEW c \in Changes, Lapses(c) PROVE RecordsAreTyped'
  BY <1>1, <1>8 DEF Lapses, RecordsAreTyped, Record
<1>9. ASSUME NEW c \in Changes, NotAskedFor15s(c) PROVE RecordsAreTyped'
  BY <1>1, <1>9 DEF NotAskedFor15s, RecordsAreTyped
<1>10. ASSUME NEW c \in Changes, Create(c) PROVE RecordsAreTyped'
  BY <1>1, <1>2, <1>10 DEF Create, RecordsAreTyped, Statuses
<1>11. ASSUME NEW c \in Changes, Poll(c) PROVE RecordsAreTyped'
  BY <1>1, <1>2, <1>11 DEF Poll, RecordsAreTyped
<1>12. ASSUME NEW c \in Changes, GivesUp(c) PROVE RecordsAreTyped'
  BY <1>1, <1>2, <1>12 DEF GivesUp, RecordsAreTyped
<1>13. ASSUME NEW c \in Changes, Decides(c) PROVE RecordsAreTyped'
  <2>1. CASE Approve(c)
    BY <1>1, <1>2, <2>1 DEF Approve, RecordsAreTyped, FiberStates
  <2>2. CASE StartFiber(c)
    BY <1>1, <1>2, <2>2 DEF StartFiber, RecordsAreTyped, FiberStates, FiberRuns
  <2>3. CASE Reject(c)
    <3>1. "rejected" \in Statuses
      BY DEF Statuses
    <3>2. Status(LeaveOverdue, c, "rejected") \in [Changes -> Record]
      BY <1>2, <3>1
    <3>3. QED
      BY <1>1, <2>3, <3>2 DEF Reject, RecordsAreTyped
  <2>4. QED
    BY <1>13, <2>1, <2>2, <2>3 DEF Decides
<1>14. ASSUME NEW c \in Changes, NEW pc \in FiberStates, rec' \in [Changes -> Record],
              fiber' = [fiber EXCEPT ![c] = pc], asked' = asked
       PROVE  RecordsAreTyped'
  BY <1>1, <1>14 DEF RecordsAreTyped
<1>15. ASSUME NEW c \in Changes, Runs(c) PROVE RecordsAreTyped'
  <2>1. rec' \in [Changes -> Record]
    <3>1. \A s \in {"approved", "executing", "unsent", "succeeded", "failed", "indeterminate"} :
              Status(rec, c, s) \in [Changes -> Record]
              /\ Status(LeaveOverdue, c, s) \in [Changes -> Record]
      BY <1>1, <1>2 DEF Statuses
    <3>2. CASE FiberApproves(c) \/ FiberBegins(c) \/ Recovers(c)
      BY <1>2, <3>1, <3>2 DEF FiberApproves, FiberBegins, Recovers
    <3>3. CASE FiberReadsIdentity(c) \/ FiberSends(c)
      BY <1>1, <3>1, <3>3 DEF FiberReadsIdentity, FiberSends
    <3>4. CASE FiberCompletes(c)
      BY <1>1, <3>1, <3>4 DEF FiberCompletes
    <3>5. QED
      BY <1>15, <3>2, <3>3, <3>4 DEF Runs
  <2>2. \E pc \in FiberStates : fiber' = [fiber EXCEPT ![c] = pc] /\ asked' = asked
    BY <1>15 DEF Runs, FiberApproves, FiberReadsIdentity, FiberBegins, FiberSends,
       FiberCompletes, Recovers, FiberGoes, FiberStates, FiberRuns
  <2>3. QED
    BY <1>14, <2>1, <2>2
<1>16. CASE Restart
  BY <1>1, <1>16 DEF Restart, RecordsAreTyped, FiberStates
<1>17. CASE UNCHANGED vars
  BY <1>3, <1>17 DEF vars, held
<1>18. QED
  BY <1>3, <1>4, <1>5, <1>6, <1>7, <1>8, <1>9, <1>10, <1>11, <1>12, <1>13, <1>15, <1>16, <1>17
  DEF Next, Proxies

RowsAreTyped ==
    /\ row \in [Numbers -> Row]
    /\ \A n \in Numbers : (row[n].of = None) = (row[n].status = "none")

RowMoves ==
    {<<"pending", "claimed">>, <<"pending", "rejected">>, <<"pending", "expired">>,
     <<"claimed", "unsent">>, <<"claimed", "answer">>, <<"answer", "done">>}

\* Only a filing says whose a row is, and only where the row is nobody's.
RowsGoOn ==
    \/ UNCHANGED row
    \/ \E c \in Changes :
           /\ cf[c] = "filing" /\ File(c) /\ row[number[c]].of = None
           /\ row' = [row EXCEPT ![number[c]] = [of |-> c, status |-> "pending"]]
    \/ \E n \in Numbers, s \in {"claimed", "answer", "done", "unsent", "rejected", "expired"} :
           RowBecomes(n, s) /\ <<row[n].status, s>> \in RowMoves

LEMMA RowsStep == [Next]_vars => RowsGoOn
<1> SUFFICES ASSUME [Next]_vars PROVE RowsGoOn
  OBVIOUS
<1>1. ASSUME NEW c \in Changes, File(c) PROVE RowsGoOn
  BY <1>1 DEF File, RowsGoOn
<1>2. ASSUME NEW n \in Numbers, Claim(n) \/ AdminSends(n) \/ FinishApproval(n) \/ RowNotApproved(n)
      PROVE  RowsGoOn
  BY <1>2 DEF Claim, AdminSends, FinishApproval, RowNotApproved, MayClaim, RowsGoOn, RowMoves
<1>3. CASE UNCHANGED row
  BY <1>3 DEF RowsGoOn
<1>4. ASSUME NEW c \in Changes,
             \/ CfAsks(c) \/ Lapses(c) \/ NotAskedFor15s(c) \/ GivesUp(c) \/ Decides(c) \/ Runs(c)
             \/ Propose(c) \/ Create(c) \/ Poll(c) \/ AskAgain(c) \/ NotFiled(c) \/ List(c)
      PROVE  UNCHANGED row
  BY <1>4 DEF CfAsks, Lapses, NotAskedFor15s, GivesUp, Decides, Runs, Propose, Create, Poll, AskAgain,
     NotFiled, List, Approve, StartFiber, Reject, FiberApproves, FiberReadsIdentity, FiberBegins,
     FiberSends, FiberCompletes, Recovers, FiberGoes, team
<1>5. CASE Settle \/ Demoted \/ Restart \/ (\E how \in {"finished", "stopped"} : CommandEnds(how))
           \/ UNCHANGED vars
  BY <1>3, <1>5 DEF Settle, Demoted, Restart, CommandEnds, team, vars
<1>6. QED
  BY <1>1, <1>2, <1>3, <1>4, <1>5 DEF Next, Proxies

LEMMA RowTypesStep ==
    TypeOK /\ ListedAreAnswered /\ [Next]_vars => RowsAreTyped'
<1> SUFFICES ASSUME TypeOK, ListedAreAnswered, [Next]_vars PROVE RowsAreTyped'
  OBVIOUS
<1>1. RowsAreTyped
  BY DEF TypeOK, RowsAreTyped, Row
<1>2. None \notin Changes
  BY ChangesConstants
<1>3. ASSUME NEW c \in Changes, cf[c] = "filing",
             row' = [row EXCEPT ![number[c]] = [of |-> c, status |-> "pending"]]
      PROVE  RowsAreTyped'
  <2>1. number[c] \in Numbers
    BY <1>3 DEF ListedAreAnswered
  <2>2. QED
    BY <1>1, <1>2, <1>3, <2>1 DEF RowsAreTyped, Row
<1>4. ASSUME NEW n \in Numbers, NEW s \in {"claimed", "answer", "done", "unsent", "rejected", "expired"},
             RowBecomes(n, s), <<row[n].status, s>> \in RowMoves
      PROVE  RowsAreTyped'
  BY <1>1, <1>4 DEF RowsAreTyped, Row, RowBecomes, RowMoves
<1>5. RowsGoOn
  BY RowsStep
<1>6. QED
  BY <1>1, <1>3, <1>4, <1>5 DEF RowsGoOn, RowsAreTyped, Numbers

RestIsTyped ==
    /\ admin \in BOOLEAN /\ cmd \in {"running", "finished", "stopped", "settled"}
    /\ sent \in [Changes -> Nat] /\ restarts \in 0..MaxRestarts

LEMMA RestStep == TypeOK /\ [Next]_vars => RestIsTyped'
<1> SUFFICES ASSUME TypeOK, [Next]_vars PROVE RestIsTyped'
  OBVIOUS
<1>1. RestIsTyped
  BY DEF TypeOK, RestIsTyped
<1>2. MaxRestarts \in Nat
  BY ChangesConstants
<1>3. CASE CommandSame
  BY <1>1, <1>3 DEF CommandSame, RestIsTyped
<1>4. ASSUME NEW c \in Changes, sent' = [sent EXCEPT ![c] = @ + 1], UNCHANGED <<admin, cmd, restarts>>
      PROVE  RestIsTyped'
  BY <1>1, <1>4 DEF RestIsTyped
<1>5. ASSUME NEW c \in Changes,
             \/ CfAsks(c) \/ Lapses(c) \/ NotAskedFor15s(c) \/ Proxies(c) \/ GivesUp(c) \/ Decides(c)
             \/ FiberApproves(c) \/ FiberReadsIdentity(c) \/ FiberBegins(c) \/ FiberCompletes(c)
             \/ Recovers(c)
      PROVE  CommandSame
  BY <1>5 DEF CfAsks, Lapses, NotAskedFor15s, GivesUp, Decides, Proxies, Propose, Create, Poll,
     AskAgain, File, NotFiled, List, Approve, StartFiber, Reject, FiberApproves, FiberReadsIdentity,
     FiberBegins, FiberCompletes, Recovers, FiberGoes
<1>6. ASSUME NEW c \in Changes, FiberSends(c) PROVE RestIsTyped'
  BY <1>3, <1>4, <1>6 DEF FiberSends, FiberGoes
<1>7. ASSUME NEW n \in Numbers, AdminSends(n) PROVE RestIsTyped'
  <2>1. row[n].of \in Changes
    BY <1>7 DEF AdminSends, TypeOK
  <2>2. QED
    BY <1>3, <1>4, <1>7, <2>1 DEF AdminSends
<1>8. ASSUME NEW n \in Numbers, Claim(n) \/ FinishApproval(n) \/ RowNotApproved(n)
      PROVE  CommandSame
  BY <1>8 DEF Claim, FinishApproval, RowNotApproved
<1>9. CASE Settle \/ Demoted \/ \E how \in {"finished", "stopped"} : CommandEnds(how)
  BY <1>1, <1>9 DEF Settle, Demoted, CommandEnds, RestIsTyped
<1>10. CASE Restart
  BY <1>1, <1>2, <1>10 DEF Restart, RestIsTyped
<1>11. CASE UNCHANGED vars
  BY <1>3, <1>11 DEF vars, CommandSame
<1>12. QED
  BY <1>3, <1>5, <1>6, <1>7, <1>8, <1>9, <1>10, <1>11 DEF Next, Runs

TypeInv == TypeOK /\ ListedAreAnswered

LEMMA TypeInit == Init => TypeInv
<1> SUFFICES ASSUME Init PROVE TypeInv
  OBVIOUS
<1>1. IsFiniteSet(Changes) /\ Cardinality(Changes) \in Nat
  BY ChangesConstants, FS_CardinalityType
<1>2. Answered = {}
  BY DEF Init, Answered
<1>3. Cardinality(Answered) = 0
  BY <1>2, FS_EmptySet
<1>4. filed \in Seq(Changes) /\ Len(filed) = 0
  BY DEF Init
<1>5. ListedAreAnswered
  BY <1>3, <1>4 DEF Init, ListedAreAnswered
<1>6. row \in [Numbers -> [of : Changes \cup {None},
                           status : {"none", "pending", "claimed", "answer", "done",
                                     "unsent", "rejected", "expired"}]]
      /\ \A n \in Numbers : (row[n].of = None) = (row[n].status = "none")
  BY DEF Init, NoRow
<1>7. rec \in [Changes -> [status : Statuses, wait : {"held", "overdue", "left"}]]
  BY DEF Init, NoRecord, Statuses
<1>8. number \in [Changes -> Numbers \cup {0}] /\ sent \in [Changes -> Nat]
  BY DEF Init
<1>9. restarts \in 0..MaxRestarts
  BY ChangesConstants DEF Init
<1>10. TypeOK
  BY <1>1, <1>4, <1>6, <1>7, <1>8, <1>9 DEF Init, TypeOK
<1>11. QED
  BY <1>5, <1>10 DEF TypeInv

LEMMA TypeStep == TypeInv /\ [Next]_vars => TypeInv'
<1> SUFFICES ASSUME TypeInv, [Next]_vars PROVE TypeInv'
  OBVIOUS
<1>1. TypeOK /\ ListedAreAnswered
  BY DEF TypeInv
<1>2. CfGoesOn
  BY <1>1, CfStep
<1>3. NumbersAreTyped' /\ ListedAreAnswered'
  BY <1>1, ListedStep
<1>4. RecordsAreTyped' /\ RowsAreTyped' /\ RestIsTyped'
  BY <1>1, RecordsStep, RowTypesStep, RestStep
<1>5. TypeOK'
  BY <1>2, <1>3, <1>4
  DEF TypeOK, CfGoesOn, NumbersAreTyped, RecordsAreTyped, RowsAreTyped, RestIsTyped, Record, Row,
      CfStates, Answers, FiberStates, Numbers
<1>6. QED
  BY <1>3, <1>5 DEF TypeInv

(* The state has its types, for any number of changes asked for at once: a    *)
(* change number the agent hands out is always one a row can have, because a  *)
(* change that is listed in the command is answered for good.                 *)
THEOREM TypeCorrect == Spec => []TypeOK
<1>1. TypeInv => TypeOK
  BY DEF TypeInv
<1>2. QED
  BY <1>1, TypeInit, TypeStep, PTL DEF Spec

-----------------------------------------------------------------------------
(* What a step does to one change's record, fiber, handling and rows.         *)

\* What a handler writes besides the statement of its own change.
LEMMA RecordWrites ==
    ASSUME TypeOK
    PROVE  /\ \A cs \in SUBSET Changes, d \in Changes :
                  /\ Leave(cs)[d].status = rec[d].status
                  /\ Leave(cs)[d].wait \in {rec[d].wait, "left"}
           /\ \A d \in Changes :
                  /\ LeaveOverdue[d].status = rec[d].status
                  /\ LeaveOverdue[d].wait \in {rec[d].wait, "left"}
           /\ \A c, d \in Changes, s \in Statuses :
                  /\ Status(rec, c, s)[d].status = IF d = c THEN s ELSE rec[d].status
                  /\ Status(rec, c, s)[d].wait = rec[d].wait
                  /\ Status(LeaveOverdue, c, s)[d].status = IF d = c THEN s ELSE rec[d].status
                  /\ Status(LeaveOverdue, c, s)[d].wait = LeaveOverdue[d].wait
           /\ \A d \in Changes :
                  /\ \/ WithdrawHeld[d].status = rec[d].status
                     \/ rec[d].status = "awaiting" /\ WithdrawHeld[d].status = "expired"
                  /\ WithdrawHeld[d].wait = rec[d].wait
<1>1. rec \in [Changes -> Record] /\ LeaveOverdue \in [Changes -> Record]
  BY RecordTypes DEF TypeOK, Record
<1>2. ASSUME NEW cs \in SUBSET Changes, NEW d \in Changes
      PROVE  Leave(cs)[d].status = rec[d].status /\ Leave(cs)[d].wait \in {rec[d].wait, "left"}
  BY <1>1 DEF Leave, Record
<1>3. ASSUME NEW d \in Changes
      PROVE  /\ LeaveOverdue[d].status = rec[d].status
             /\ LeaveOverdue[d].wait \in {rec[d].wait, "left"}
  BY <1>2 DEF LeaveOverdue
<1>4. ASSUME NEW r \in [Changes -> Record], NEW c \in Changes, NEW d \in Changes, NEW s \in Statuses
      PROVE  /\ Status(r, c, s)[d].status = IF d = c THEN s ELSE r[d].status
             /\ Status(r, c, s)[d].wait = r[d].wait
  BY <1>4 DEF Status, Record
<1>5. ASSUME NEW d \in Changes
      PROVE  /\ \/ WithdrawHeld[d].status = rec[d].status
                \/ rec[d].status = "awaiting" /\ WithdrawHeld[d].status = "expired"
             /\ WithdrawHeld[d].wait = rec[d].wait
  BY <1>1 DEF WithdrawHeld, Held, Record
<1>6. ASSUME NEW c \in Changes, NEW d \in Changes, NEW s \in Statuses
      PROVE  /\ Status(rec, c, s)[d].status = IF d = c THEN s ELSE rec[d].status
             /\ Status(rec, c, s)[d].wait = rec[d].wait
             /\ Status(LeaveOverdue, c, s)[d].status = IF d = c THEN s ELSE rec[d].status
             /\ Status(LeaveOverdue, c, s)[d].wait = LeaveOverdue[d].wait
  BY <1>1, <1>3, <1>4
<1>7. QED
  BY <1>2, <1>3, <1>5, <1>6

FiberStays(c) == fiber'[c] = fiber[c]
StatusStays(c) == rec'[c].status = rec[c].status
StatusMoves(c, s, t) == rec[c].status = s /\ rec'[c].status = t
FiberMoves(c, pc, qc) == fiber[c] = pc /\ fiber'[c] = qc

\* The steps of the fiber that leave the record as it is.
FiberOnly(c) ==
    \/ FiberMoves(c, "none", "admit") /\ rec[c].status = "awaiting"
    \/ FiberMoves(c, "admit", "approve")
    \/ FiberMoves(c, "approve", "done") /\ rec[c].status # "awaiting"
    \/ FiberMoves(c, "identity", "begin")
    \/ FiberMoves(c, "begin", "done") /\ rec[c].status # "approved"
    \/ FiberMoves(c, "send", "answer")
    \/ FiberMoves(c, "answer", "done") /\ rec[c].status # "executing"
    \/ FiberMoves(c, "interrupted", "done")
           /\ rec[c].status \notin {"awaiting", "approved", "executing"}
    \/ FiberMoves(c, "admit", "none")
    \/ fiber[c] \in FiberRuns /\ fiber'[c] = "interrupted"

\* Those that move both.
FiberAndRecord(c) ==
    \/ FiberMoves(c, "approve", "identity") /\ StatusMoves(c, "awaiting", "approved")
    \/ FiberMoves(c, "begin", "send") /\ StatusMoves(c, "approved", "executing")
    \/ fiber[c] \in {"identity", "send"} /\ fiber'[c] = "done" /\ rec'[c].status = "unsent"
    \/ FiberMoves(c, "answer", "done") /\ rec[c].status = "executing"
           /\ rec'[c].status \in {"succeeded", "failed", "indeterminate"}
    \/ FiberMoves(c, "interrupted", "done") /\ rec[c].status \in {"awaiting", "approved", "executing"}
           /\ rec'[c].status = "indeterminate"

Moves(c) ==
    \/ FiberStays(c) /\ StatusStays(c)
    \/ FiberStays(c) /\ StatusMoves(c, "none", "awaiting") /\ cf[c] = "digest" /\ cf'[c] = "waiting"
    \/ FiberStays(c) /\ rec[c].status = "awaiting" /\ rec'[c].status \in Declined
    \/ FiberOnly(c) /\ StatusStays(c)
    \/ FiberAndRecord(c)

LEMMA MovesStep == TypeOK /\ ChatOrTeam /\ [Next]_vars => \A c \in Changes : Moves(c)
<1> SUFFICES ASSUME TypeOK, ChatOrTeam, [Next]_vars PROVE \A c \in Changes : Moves(c)
  OBVIOUS
<1>1. fiber \in [Changes -> FiberStates] /\ cf \in [Changes -> CfStates]
      /\ rec \in [Changes -> Record]
  BY DEF TypeOK, FiberStates, CfStates, Record
<1>2. \A d \in Changes :
          /\ \A cs \in SUBSET Changes : Leave(cs)[d].status = rec[d].status
          /\ LeaveOverdue[d].status = rec[d].status
          /\ \/ WithdrawHeld[d].status = rec[d].status
             \/ rec[d].status = "awaiting" /\ WithdrawHeld[d].status = "expired"
  BY RecordWrites
<1>3. \A c, d \in Changes, s \in {"awaiting", "approved", "executing", "unsent", "rejected",
                                  "succeeded", "failed", "indeterminate"} :
          /\ Status(rec, c, s)[d].status = IF d = c THEN s ELSE rec[d].status
          /\ Status(LeaveOverdue, c, s)[d].status = IF d = c THEN s ELSE rec[d].status
  BY RecordWrites DEF Statuses
<1>4. ASSUME UNCHANGED fiber, \A d \in Changes : StatusStays(d)
      PROVE  \A c \in Changes : Moves(c)
  BY <1>4 DEF Moves, FiberStays
<1>5. CASE UNCHANGED held \/ UNCHANGED vars
  BY <1>4, <1>5 DEF held, vars, StatusStays
<1>6. ASSUME NEW c \in Changes,
             CfAsks(c) \/ Propose(c) \/ AskAgain(c) \/ File(c) \/ NotFiled(c) \/ List(c)
      PROVE  UNCHANGED held
  BY <1>6 DEF CfAsks, Propose, AskAgain, File, NotFiled, List
<1>7. ASSUME NEW n \in Numbers, Claim(n) \/ AdminSends(n) \/ FinishApproval(n) \/ RowNotApproved(n)
      PROVE  UNCHANGED held
  BY <1>7 DEF Claim, AdminSends, FinishApproval, RowNotApproved, RowBecomes
<1>8. CASE Demoted \/ \E how \in {"finished", "stopped"} : CommandEnds(how)
  BY <1>5, <1>8 DEF Demoted, CommandEnds
<1>9. CASE Settle
  <2>1. UNCHANGED fiber /\ rec' \in {WithdrawHeld, Leave(Changes)}
    BY <1>9 DEF Settle
  <2>2. ASSUME NEW d \in Changes
        PROVE  StatusStays(d) \/ (rec[d].status = "awaiting" /\ rec'[d].status \in Declined)
    BY <1>2, <2>1 DEF StatusStays, Declined
  <2>3. QED
    BY <2>1, <2>2 DEF Moves, FiberStays
<1>10. ASSUME NEW c \in Changes, Lapses(c) \/ NotAskedFor15s(c) PROVE \A d \in Changes : Moves(d)
  <2>1. UNCHANGED fiber /\ \A d \in Changes : StatusStays(d)
    BY <1>1, <1>10 DEF Lapses, NotAskedFor15s, StatusStays, Record
  <2>2. QED
    BY <1>4, <2>1
<1>11. ASSUME NEW c \in Changes, Poll(c) \/ GivesUp(c) PROVE \A d \in Changes : Moves(d)
  <2>1. UNCHANGED fiber /\ \/ rec' \in {rec, LeaveOverdue} \/ rec' = Leave({c})
    BY <1>11 DEF Poll, GivesUp
  <2>2. \A d \in Changes : StatusStays(d)
    BY <1>2, <2>1 DEF StatusStays
  <2>3. QED
    BY <1>4, <2>1, <2>2
<1>12. ASSUME NEW c \in Changes, Create(c) PROVE \A d \in Changes : Moves(d)
  <2>1. UNCHANGED fiber /\ cf[c] = "digest" /\ rec[c].status = "none"
    BY <1>1, <1>12 DEF Create, ChatOrTeam
  <2>2. CASE rec' = LeaveOverdue
    BY <1>2, <1>4, <2>1, <2>2 DEF StatusStays
  <2>3. CASE rec' = Status(LeaveOverdue, c, "awaiting") /\ Goes(c, "waiting")
    BY <1>1, <1>3, <2>1, <2>3 DEF Moves, FiberStays, StatusStays, StatusMoves, Goes
  <2>4. QED
    BY <1>12, <2>2, <2>3 DEF Create
<1>13. ASSUME NEW c \in Changes, Moves(c),
              \A d \in Changes : d # c => rec'[d].status = rec[d].status /\ fiber'[d] = fiber[d]
       PROVE  \A d \in Changes : Moves(d)
  BY <1>13 DEF Moves, FiberStays, StatusStays
<1>14. ASSUME NEW c \in Changes, Decides(c) PROVE \A d \in Changes : Moves(d)
  <2>1. CASE Approve(c)
    BY <1>1, <1>2, <1>13, <2>1 DEF Approve, Moves, FiberOnly, FiberMoves, StatusStays
  <2>2. CASE StartFiber(c)
    BY <1>1, <1>2, <1>13, <2>2 DEF StartFiber, Moves, FiberOnly, FiberMoves, StatusStays
  <2>3. CASE Reject(c)
    <3>1. UNCHANGED fiber /\ rec[c].status = "awaiting" /\ rec' = Status(LeaveOverdue, c, "rejected")
      BY <2>3 DEF Reject
    <3>2. rec'[c].status = "rejected" /\ \A d \in Changes : d # c => rec'[d].status = rec[d].status
      BY <1>3, <3>1
    <3>3. QED
      BY <1>13, <3>1, <3>2 DEF Moves, FiberStays, Declined
  <2>4. QED
    BY <1>14, <2>1, <2>2, <2>3 DEF Decides
<1>15. ASSUME NEW c \in Changes, NEW pc, fiber' = [fiber EXCEPT ![c] = pc]
       PROVE  fiber'[c] = pc /\ \A d \in Changes : d # c => fiber'[d] = fiber[d]
  BY <1>1, <1>15
<1>16. ASSUME NEW c \in Changes, NEW pc, fiber' = [fiber EXCEPT ![c] = pc],
              rec' \in {rec, LeaveOverdue}, fiber'[c] = pc => FiberOnly(c)
       PROVE  \A d \in Changes : Moves(d)
  <2>1. fiber'[c] = pc /\ \A d \in Changes : d # c => fiber'[d] = fiber[d]
    BY <1>15, <1>16
  <2>2. \A d \in Changes : rec'[d].status = rec[d].status
    BY <1>2, <1>16
  <2>3. QED
    BY <1>13, <1>16, <2>1, <2>2 DEF Moves, StatusStays
<1>17. ASSUME NEW c \in Changes, NEW pc, fiber' = [fiber EXCEPT ![c] = pc],
              NEW s \in {"approved", "executing", "unsent", "succeeded", "failed", "indeterminate"},
              rec' \in {Status(rec, c, s), Status(LeaveOverdue, c, s)},
              fiber'[c] = pc /\ rec'[c].status = s => FiberAndRecord(c)
       PROVE  \A d \in Changes : Moves(d)
  <2>1. fiber'[c] = pc /\ \A d \in Changes : d # c => fiber'[d] = fiber[d]
    BY <1>15, <1>17
  <2>2. rec'[c].status = s /\ \A d \in Changes : d # c => rec'[d].status = rec[d].status
    BY <1>3, <1>17
  <2>3. QED
    BY <1>13, <1>17, <2>1, <2>2 DEF Moves
<1>18. ASSUME NEW c \in Changes, Runs(c) PROVE \A d \in Changes : Moves(d)
  <2>1. CASE FiberApproves(c)
    BY <1>16, <1>17, <2>1
    DEF FiberApproves, FiberGoes, FiberOnly, FiberAndRecord, FiberMoves, StatusMoves
  <2>2. CASE FiberReadsIdentity(c)
    BY <1>16, <1>17, <2>2 DEF FiberReadsIdentity, FiberGoes, FiberOnly, FiberAndRecord, FiberMoves
  <2>3. CASE FiberBegins(c)
    BY <1>16, <1>17, <2>3
    DEF FiberBegins, FiberGoes, FiberOnly, FiberAndRecord, FiberMoves, StatusMoves
  <2>4. CASE FiberSends(c)
    BY <1>16, <1>17, <2>4 DEF FiberSends, FiberGoes, FiberOnly, FiberAndRecord, FiberMoves
  <2>5. CASE FiberCompletes(c)
    BY <1>16, <1>17, <2>5 DEF FiberCompletes, FiberGoes, FiberOnly, FiberAndRecord, FiberMoves
  <2>6. CASE Recovers(c)
    BY <1>16, <1>17, <2>6 DEF Recovers, FiberGoes, FiberOnly, FiberAndRecord, FiberMoves
  <2>7. QED
    BY <1>18, <2>1, <2>2, <2>3, <2>4, <2>5, <2>6 DEF Runs
<1>19. CASE Restart
  BY <1>1, <1>19 DEF Restart, Moves, FiberStays, FiberOnly, FiberMoves, StatusStays
<1>20. QED
  BY <1>5, <1>6, <1>7, <1>8, <1>9, <1>10, <1>11, <1>12, <1>14, <1>18, <1>19 DEF Next, Proxies

\* Cloudflare is sent a change by its own fiber, or by the admin's request for its row.
SentGoesOn(c) ==
    \/ sent'[c] = sent[c]
    \/ sent'[c] = sent[c] + 1 /\ FiberMoves(c, "send", "answer") /\ UNCHANGED <<rec, row>>
    \/ sent'[c] = sent[c] + 1 /\ UNCHANGED held
       /\ \E n \in Numbers : row[n].of = c /\ row[n].status = "claimed" /\ RowBecomes(n, "answer")

LEMMA SentStep == TypeOK /\ [Next]_vars => \A c \in Changes : SentGoesOn(c)
<1> SUFFICES ASSUME TypeOK, [Next]_vars PROVE \A c \in Changes : SentGoesOn(c)
  OBVIOUS
<1>1. sent \in [Changes -> Nat] /\ fiber \in [Changes -> FiberStates]
  BY DEF TypeOK, FiberStates
<1>2. CASE UNCHANGED sent
  BY <1>2 DEF SentGoesOn
<1>3. ASSUME NEW c \in Changes, FiberSends(c), sent' # sent PROVE \A d \in Changes : SentGoesOn(d)
  <2>1. /\ fiber[c] = "send" /\ fiber' = [fiber EXCEPT ![c] = "answer"]
        /\ sent' = [sent EXCEPT ![c] = @ + 1] /\ UNCHANGED <<rec, row>>
    BY <1>3 DEF FiberSends, FiberGoes, CommandSame, team
  <2>2. QED
    BY <1>1, <2>1 DEF SentGoesOn, FiberMoves
<1>4. ASSUME NEW n \in Numbers, AdminSends(n), sent' # sent PROVE \A d \in Changes : SentGoesOn(d)
  <2>1. /\ row[n].status = "claimed" /\ RowBecomes(n, "answer") /\ UNCHANGED held
        /\ sent' = [sent EXCEPT ![row[n].of] = @ + 1]
    BY <1>4 DEF AdminSends, RowBecomes, CommandSame
  <2>2. QED
    BY <1>1, <2>1 DEF SentGoesOn
<1>5. ASSUME NEW c \in Changes,
             \/ CfAsks(c) \/ Lapses(c) \/ NotAskedFor15s(c) \/ Proxies(c) \/ GivesUp(c) \/ Decides(c)
             \/ FiberApproves(c) \/ FiberReadsIdentity(c) \/ FiberBegins(c) \/ FiberCompletes(c)
             \/ Recovers(c)
      PROVE  UNCHANGED sent
  BY <1>5 DEF CfAsks, Lapses, NotAskedFor15s, GivesUp, Decides, Proxies, Propose, Create, Poll,
     AskAgain, File, NotFiled, List, Approve, StartFiber, Reject, FiberApproves, FiberReadsIdentity,
     FiberBegins, FiberCompletes, Recovers, FiberGoes, CommandSame
<1>6. ASSUME NEW n \in Numbers, Claim(n) \/ FinishApproval(n) \/ RowNotApproved(n)
      PROVE  UNCHANGED sent
  BY <1>6 DEF Claim, FinishApproval, RowNotApproved, CommandSame
<1>7. CASE \/ Settle \/ Demoted \/ Restart \/ UNCHANGED vars
           \/ \E how \in {"finished", "stopped"} : CommandEnds(how)
  BY <1>2, <1>7 DEF Settle, Demoted, Restart, CommandEnds, vars
<1>8. QED
  BY <1>2, <1>3, <1>4, <1>5, <1>6, <1>7 DEF Next, Runs

\* `cf` hears that nothing was sent of a change that is over, or that never was recorded or filed.
HeardGoesOn(c) ==
    heard'[c] = "unsent" =>
        \/ heard[c] = "unsent"
        \/ cf'[c] = "done" /\ \/ rec'[c].status \in {"unsent"} \cup Declined
                              \/ cf[c] \in {"proposing", "queued"} /\ UNCHANGED <<rec, row>>

LEMMA HeardStep == TypeOK /\ [Next]_vars => \A c \in Changes : HeardGoesOn(c)
<1> SUFFICES ASSUME TypeOK, [Next]_vars PROVE \A c \in Changes : HeardGoesOn(c)
  OBVIOUS
<1>1. heard \in [Changes -> Answers] /\ cf \in [Changes -> CfStates]
  BY DEF TypeOK, Answers, CfStates
<1>2. CASE UNCHANGED heard
  BY <1>2 DEF HeardGoesOn
<1>3. ASSUME NEW c \in Changes, NEW answer, Done(c, answer),
             answer = "unsent" => \/ rec'[c].status \in {"unsent"} \cup Declined
                                  \/ cf[c] \in {"proposing", "queued"} /\ UNCHANGED <<rec, row>>
      PROVE  \A d \in Changes : HeardGoesOn(d)
  BY <1>1, <1>3 DEF Done, HeardGoesOn
<1>4. ASSUME NEW c \in Changes, Propose(c) PROVE \A d \in Changes : HeardGoesOn(d)
  BY <1>2, <1>3, <1>4 DEF Propose, Goes, held
<1>5. ASSUME NEW c \in Changes, Poll(c) PROVE \A d \in Changes : HeardGoesOn(d)
  <2>1. Answer(rec'[c]) = "unsent" => rec'[c].status \in {"unsent"} \cup Declined
    BY DEF Answer, Declined
  <2>2. UNCHANGED heard \/ Done(c, Answer(rec'[c]))
    BY <1>5 DEF Poll, proxy
  <2>3. QED
    BY <1>2, <1>3, <2>1, <2>2
<1>6. ASSUME NEW c \in Changes, AskAgain(c) PROVE \A d \in Changes : HeardGoesOn(d)
  BY <1>2, <1>3, <1>6 DEF AskAgain, Goes, held, team
<1>7. ASSUME NEW c \in Changes, GivesUp(c) PROVE \A d \in Changes : HeardGoesOn(d)
  BY <1>3, <1>7 DEF GivesUp, team
<1>8. ASSUME NEW c \in Changes, File(c) \/ NotFiled(c) \/ List(c)
      PROVE  \A d \in Changes : HeardGoesOn(d)
  BY <1>2, <1>3, <1>8 DEF File, NotFiled, List, Goes
<1>9. CASE Restart
  BY <1>1, <1>9 DEF Restart, HeardGoesOn
<1>10. ASSUME NEW c \in Changes,
             \/ CfAsks(c) \/ Lapses(c) \/ NotAskedFor15s(c) \/ Create(c) \/ Decides(c) \/ Runs(c)
      PROVE  UNCHANGED heard
  BY <1>10 DEF CfAsks, Lapses, NotAskedFor15s, Create, Goes, Decides, Approve, StartFiber, Reject, Runs,
     FiberApproves, FiberReadsIdentity, FiberBegins, FiberSends, FiberCompletes, Recovers,
     FiberGoes, proxy
<1>11. ASSUME NEW n \in Numbers, Claim(n) \/ AdminSends(n) \/ FinishApproval(n) \/ RowNotApproved(n)
       PROVE  UNCHANGED heard
  BY <1>11 DEF Claim, AdminSends, FinishApproval, RowNotApproved, RowBecomes, proxy
<1>12. CASE \/ Settle \/ Demoted \/ UNCHANGED vars
            \/ \E how \in {"finished", "stopped"} : CommandEnds(how)
  BY <1>2, <1>12 DEF Settle, Demoted, CommandEnds, vars, proxy
<1>13. QED
  BY <1>2, <1>4, <1>5, <1>6, <1>7, <1>8, <1>9, <1>10, <1>11, <1>12 DEF Next, Proxies

\* How the rows of one change stand after a step.
RowsOfGoOn ==
    /\ \A n \in Numbers : row'[n].of = row[n].of
           \/ /\ row[n].of = None /\ row'[n].of \in Changes
              /\ cf[row'[n].of] = "filing" /\ cf'[row'[n].of] \in {"listing", "done"}
              /\ \A m \in Numbers : m # n => row'[m].of = row[m].of
    /\ \A n \in Numbers : row[n].status \in {"answer", "done"} =>
           row'[n].of = row[n].of /\ row'[n].status \in {"answer", "done"}

LEMMA RowsOfStep == TypeInv /\ RowsGoOn => RowsOfGoOn
<1> SUFFICES ASSUME TypeInv, RowsGoOn PROVE RowsOfGoOn
  OBVIOUS
<1>1. RowsAreTyped
  BY DEF TypeInv, TypeOK, RowsAreTyped, Row
<1>2. CASE UNCHANGED row
  BY <1>2 DEF RowsOfGoOn
<1>3. ASSUME NEW c \in Changes, cf[c] = "filing", File(c), row[number[c]].of = None,
             row' = [row EXCEPT ![number[c]] = [of |-> c, status |-> "pending"]]
      PROVE  RowsOfGoOn
  <2>1. number[c] \in Numbers
    BY <1>3 DEF TypeInv, ListedAreAnswered
  <2>2. cf'[c] \in {"listing", "done"}
    BY <1>3 DEF File, Goes, Done, TypeInv, TypeOK
  <2>3. row[number[c]].status = "none"
    BY <1>1, <1>3, <2>1 DEF RowsAreTyped
  <2>4. QED
    BY <1>1, <1>3, <2>1, <2>2, <2>3 DEF RowsOfGoOn, RowsAreTyped, Row
<1>4. ASSUME NEW n \in Numbers, NEW s \in {"claimed", "answer", "done", "unsent", "rejected", "expired"},
             RowBecomes(n, s), <<row[n].status, s>> \in RowMoves
      PROVE  RowsOfGoOn
  BY <1>1, <1>4 DEF RowsOfGoOn, RowsAreTyped, Row, RowBecomes, RowMoves
<1>5. QED
  BY <1>2, <1>3, <1>4 DEF RowsGoOn

-----------------------------------------------------------------------------
(* Nothing is sent twice, or after it was said that it was not.               *)

LEMMA ChatOrTeamStep ==
    ASSUME TypeInv, ChatOrTeam, FiberMatchesRecord, CfGoesOn, RowsOfGoOn, \A c \in Changes : Moves(c)
    PROVE  ChatOrTeam'
<1>1. None \notin Changes /\ \A n \in Numbers : row[n].of \in Changes \cup {None}
  BY ChangesConstants DEF TypeInv, TypeOK
<1>2. ASSUME NEW c \in Changes, rec'[c].status # "none"
      PROVE  cf'[c] \in {"waiting", "done"} /\ \A n \in Numbers : row'[n].of # c
  <2>1. rec[c].status # "none" \/ (cf[c] = "digest" /\ cf'[c] = "waiting")
    BY <1>2 DEF Moves, StatusStays, StatusMoves, FiberAndRecord, FiberMoves, FiberMatchesRecord,
       StatusesAt
  <2>2. cf'[c] \in {"waiting", "done"} /\ cf[c] \in {"waiting", "done", "digest"}
    BY <2>1 DEF ChatOrTeam, CfGoesOn
  <2>3. \A n \in Numbers : row[n].of # c
    BY <1>1, <2>1 DEF ChatOrTeam
  <2>4. QED
    BY <2>2, <2>3 DEF RowsOfGoOn
<1>3. ASSUME NEW n \in Numbers, row'[n].of # None PROVE cf'[row'[n].of] \in {"listing", "done"}
  BY <1>1, <1>3 DEF ChatOrTeam, CfGoesOn, RowsOfGoOn
<1>4. ASSUME NEW m \in Numbers, NEW n \in Numbers, row'[m].of # None, row'[m].of = row'[n].of
      PROVE  m = n
  BY <1>1, <1>4 DEF ChatOrTeam, RowsOfGoOn
<1>5. QED
  BY <1>2, <1>3, <1>4 DEF ChatOrTeam, Numbers

LEMMA FiberMatchesStep ==
    ASSUME FiberMatchesRecord, \A c \in Changes : Moves(c), NEW c \in Changes
    PROVE  rec'[c].status \in StatusesAt(fiber'[c])
<1>1. rec[c].status \in StatusesAt(fiber[c]) /\ Moves(c)
  BY DEF FiberMatchesRecord
<1>2. CASE FiberStays(c) /\ StatusStays(c)
  BY <1>1, <1>2 DEF FiberStays, StatusStays
<1>3. CASE FiberStays(c) /\ StatusMoves(c, "none", "awaiting")
  BY <1>1, <1>3 DEF FiberStays, StatusMoves, StatusesAt, Declined, Terminal
<1>4. CASE FiberStays(c) /\ rec[c].status = "awaiting" /\ rec'[c].status \in Declined
  BY <1>1, <1>4 DEF FiberStays, StatusesAt, Declined, Terminal
<1>5. CASE FiberOnly(c) /\ StatusStays(c)
  BY <1>1, <1>5 DEF FiberOnly, FiberMoves, StatusStays, StatusesAt, Declined, Terminal, FiberRuns
<1>6. CASE FiberAndRecord(c)
  BY <1>1, <1>6 DEF FiberAndRecord, FiberMoves, StatusMoves, StatusesAt, Declined, Terminal
<1>7. QED
  BY <1>1, <1>2, <1>3, <1>4, <1>5, <1>6 DEF Moves

LEMMA NeverGoesStep ==
    ASSUME FiberMatchesRecord, RowsOfGoOn, \A c \in Changes : Moves(c),
           NEW c \in Changes, cf[c] = "done", NeverGoes(c)
    PROVE  NeverGoes(c)'
<1>1. rec[c].status \in StatusesAt(fiber[c]) /\ Moves(c)
  BY DEF FiberMatchesRecord
<1>2. CASE rec[c].status \in {"unsent"} \cup Declined
  <2>1. rec'[c].status = rec[c].status
    BY <1>1, <1>2 DEF Moves, FiberStays, StatusStays, StatusMoves, FiberAndRecord, FiberMoves, StatusesAt,
       Declined
  <2>2. QED
    BY <1>2, <2>1 DEF NeverGoes
<1>3. CASE rec[c].status = "none" /\ \A n \in Numbers : row[n].of # c
  <2>1. rec'[c].status = "none"
    BY <1>1, <1>3 DEF Moves, FiberStays, StatusStays, StatusMoves, FiberAndRecord, FiberMoves, StatusesAt,
       Declined
  <2>2. \A n \in Numbers : row'[n].of # c
    BY <1>3 DEF RowsOfGoOn
  <2>3. QED
    BY <2>1, <2>2 DEF NeverGoes, Numbers
<1>4. QED
  BY <1>2, <1>3 DEF NeverGoes

LEMMA HeardUnsentStep ==
    ASSUME TypeInv, SendingInv, CfGoesOn, RowsOfGoOn, \A c \in Changes : Moves(c),
           \A c \in Changes : HeardGoesOn(c)
    PROVE  HeardUnsentIsOver'
<1> SUFFICES ASSUME NEW c \in Changes, heard'[c] = "unsent"
             PROVE  cf'[c] = "done" /\ NeverGoes(c)'
  BY DEF HeardUnsentIsOver
<1>1. CASE heard[c] = "unsent"
  BY <1>1, NeverGoesStep DEF SendingInv, HeardUnsentIsOver, CfGoesOn
<1>2. CASE cf'[c] = "done" /\ rec'[c].status \in {"unsent"} \cup Declined
  BY <1>2 DEF NeverGoes
<1>3. CASE cf'[c] = "done" /\ cf[c] \in {"proposing", "queued"} /\ UNCHANGED <<rec, row>>
  <2>1. rec[c].status = "none"
    BY <1>3 DEF SendingInv, ChatOrTeam
  <2>2. None \notin Changes /\ \A n \in Numbers : row[n].of # c
    BY <1>3, ChangesConstants DEF SendingInv, ChatOrTeam
  <2>3. QED
    BY <1>3, <2>1, <2>2 DEF NeverGoes, Numbers
<1>4. QED
  BY <1>1, <1>2, <1>3 DEF HeardGoesOn

\* A change that was not sent, and has no row that was, or the fiber would not be sending it.
LEMMA SentIsKnownStep ==
    ASSUME TypeInv, SendingInv, RowsOfGoOn, \A c \in Changes : Moves(c),
           NEW c \in Changes, SentGoesOn(c), sent'[c] # 0
    PROVE  sent'[c] = 1 /\ (SentByFiber(c)' \/ SentByAdmin(c)')
<1>1. rec[c].status \in StatusesAt(fiber[c]) /\ Moves(c) /\ sent[c] \in Nat
  BY DEF SendingInv, FiberMatchesRecord, TypeInv, TypeOK
<1>2. sent[c] # 0 => sent[c] = 1 /\ (SentByFiber(c) \/ SentByAdmin(c))
  BY DEF SendingInv, SentIsKnown
<1>3. SentByFiber(c) => SentByFiber(c)'
  BY <1>1 DEF SentByFiber, Moves, FiberStays, StatusStays, StatusMoves, FiberOnly, FiberAndRecord,
     FiberMoves, StatusesAt, Declined, FiberRuns
<1>4. SentByAdmin(c) => SentByAdmin(c)'
  BY DEF SentByAdmin, RowsOfGoOn, Numbers
<1>5. CASE sent'[c] = sent[c]
  BY <1>2, <1>3, <1>4, <1>5
<1>6. CASE sent'[c] = sent[c] + 1 /\ FiberMoves(c, "send", "answer") /\ UNCHANGED <<rec, row>>
  <2>1. rec[c].status = "executing"
    BY <1>1, <1>6 DEF FiberMoves, StatusesAt
  <2>2. ~SentByFiber(c)
    BY <1>6, <2>1 DEF SentByFiber, FiberMoves
  <2>3. ~SentByAdmin(c)
    BY <2>1 DEF SentByAdmin, SendingInv, ChatOrTeam
  <2>4. sent'[c] = 1
    BY <1>1, <1>2, <1>6, <2>2, <2>3
  <2>5. SentByFiber(c)'
    BY <1>6, <2>1 DEF SentByFiber, FiberMoves
  <2>6. QED
    BY <2>4, <2>5
<1>7. CASE sent'[c] = sent[c] + 1 /\ UNCHANGED held
           /\ \E n \in Numbers : row[n].of = c /\ row[n].status = "claimed" /\ RowBecomes(n, "answer")
  <2>1. PICK n \in Numbers : row[n].of = c /\ row[n].status = "claimed" /\ RowBecomes(n, "answer")
    BY <1>7
  <2>2. c # None
    BY ChangesConstants
  <2>3. rec[c].status = "none"
    BY <2>1, <2>2 DEF SendingInv, ChatOrTeam
  <2>4. ~SentByFiber(c)
    BY <2>3 DEF SentByFiber
  <2>5. ~SentByAdmin(c)
    BY <2>1, <2>2 DEF SentByAdmin, SendingInv, ChatOrTeam
  <2>6. sent'[c] = 1
    BY <1>1, <1>2, <1>7, <2>4, <2>5
  <2>7. row'[n].of = c /\ row'[n].status = "answer"
    BY <2>1 DEF RowBecomes, TypeInv, TypeOK
  <2>8. SentByAdmin(c)'
    BY <2>7 DEF SentByAdmin, Numbers
  <2>9. QED
    BY <2>6, <2>8
<1>8. QED
  BY <1>5, <1>6, <1>7 DEF SentGoesOn

LEMMA SendingInit == Init => SendingInv
<1> SUFFICES ASSUME Init PROVE SendingInv
  OBVIOUS
<1>1. \A c \in Changes : rec[c].status = "none" /\ fiber[c] = "none" /\ sent[c] = 0
                         /\ heard[c] = "nothing"
  BY DEF Init, NoRecord
<1>2. \A n \in Numbers : row[n].of = None
  BY DEF Init, NoRow
<1>3. ChatOrTeam
  BY <1>1, <1>2 DEF ChatOrTeam
<1>4. QED
  BY <1>1, <1>3 DEF SendingInv, FiberMatchesRecord, StatusesAt, SentIsKnown, HeardUnsentIsOver

LEMMA SendingStep == TypeInv /\ SendingInv /\ [Next]_vars => SendingInv'
<1> SUFFICES ASSUME TypeInv, SendingInv, [Next]_vars PROVE SendingInv'
  OBVIOUS
<1>1. TypeOK /\ ChatOrTeam /\ FiberMatchesRecord
  BY DEF TypeInv, SendingInv
<1>2. CfGoesOn /\ \A c \in Changes : Moves(c)
  BY <1>1, CfStep, MovesStep
<1>3. \A c \in Changes : SentGoesOn(c) /\ HeardGoesOn(c)
  BY <1>1, SentStep, HeardStep
<1>4. RowsOfGoOn
  BY RowsStep, RowsOfStep
<1>5. ChatOrTeam'
  BY <1>1, <1>2, <1>4, ChatOrTeamStep
<1>6. FiberMatchesRecord'
  BY <1>1, <1>2, FiberMatchesStep DEF FiberMatchesRecord
<1>7. SentIsKnown'
  BY <1>2, <1>3, <1>4, SentIsKnownStep DEF SentIsKnown
<1>8. HeardUnsentIsOver'
  BY <1>2, <1>3, <1>4, HeardUnsentStep
<1>9. QED
  BY <1>5, <1>6, <1>7, <1>8 DEF SendingInv

LEMMA SendingAlways == Spec => [](TypeInv /\ SendingInv)
  BY TypeInit, TypeStep, SendingInit, SendingStep, PTL DEF Spec

(* Nothing was sent, and nothing is, of a change that `cf` or a person was    *)
(* told was not: whoever declines, withdraws or refuses it, whichever of the  *)
(* fiber and an admin might send it, and over any number of restarts.         *)
THEOREM NothingSentHolds == Spec => []NothingSentIsTrue
<1>1. TypeInv /\ SendingInv => NothingSentIsTrue
  <2> SUFFICES ASSUME TypeInv, SendingInv PROVE NothingSentIsTrue
    OBVIOUS
  <2>1. ASSUME NEW c \in Changes, NeverGoes(c) PROVE sent[c] = 0
    <3>1. ~SentByFiber(c)
      BY <2>1 DEF NeverGoes, SentByFiber, Declined
    <3>2. ~SentByAdmin(c)
      BY <2>1 DEF NeverGoes, SentByAdmin, SendingInv, ChatOrTeam, Declined
    <3>3. QED
      BY <3>1, <3>2 DEF SendingInv, SentIsKnown
  <2>2. ASSUME NEW c \in Changes,
               rec[c].status \in {"unsent", "rejected", "expired"} \/ heard[c] = "unsent"
        PROVE  sent[c] = 0
    BY <2>1, <2>2 DEF NeverGoes, Declined, SendingInv, HeardUnsentIsOver
  <2>3. ASSUME NEW n \in Numbers, row[n].status \in {"unsent", "rejected", "expired"}
        PROVE  sent[row[n].of] = 0
    <3>1. row[n].of \in Changes /\ row[n].of # None
      BY <2>3 DEF TypeInv, TypeOK
    <3>2. ~SentByFiber(row[n].of)
      BY <3>1 DEF SentByFiber, SendingInv, ChatOrTeam
    <3>3. ~SentByAdmin(row[n].of)
      BY <2>3, <3>1 DEF SentByAdmin, SendingInv, ChatOrTeam
    <3>4. QED
      BY <3>1, <3>2, <3>3 DEF SendingInv, SentIsKnown
  <2>4. QED
    BY <2>2, <2>3 DEF NothingSentIsTrue
<1>2. QED
  BY <1>1, SendingAlways, PTL

(* Cloudflare is sent each change at most once, and one that was sent is in   *)
(* the hands of its fiber or on a row an admin claimed.                       *)
THEOREM SentOnceHolds == Spec => []SentOnce
<1>1. TypeInv /\ SendingInv => SentOnce
  <2> SUFFICES ASSUME TypeInv, SendingInv, NEW c \in Changes
               PROVE  /\ sent[c] <= 1
                      /\ sent[c] = 1 =>
                           \/ fiber[c] \in {"answer", "interrupted", "done"}
                           \/ \E n \in Numbers : row[n].of = c /\ row[n].status \in {"answer", "done"}
    BY DEF SentOnce
  <2>1. sent[c] \in Nat
    BY DEF TypeInv, TypeOK
  <2>2. QED
    BY <2>1 DEF SendingInv, SentIsKnown, SentByFiber, SentByAdmin
<1>2. QED
  BY <1>1, SendingAlways, PTL

-----------------------------------------------------------------------------
(* The command's changes wait one at a time.                                  *)

InCommand(r) == Waits(r) /\ r.wait # "left"

\* Only the transaction that found nothing unsettled makes a change wait in the command.
LEMMA InCommandStep ==
    TypeOK /\ [Next]_vars =>
        \/ \A d \in Changes : InCommand(rec'[d]) => InCommand(rec[d])
        \/ \E c \in Changes : \A d \in Changes : InCommand(rec'[d]) => d = c
<1> SUFFICES ASSUME TypeOK, [Next]_vars
             PROVE  \/ \A d \in Changes : InCommand(rec'[d]) => InCommand(rec[d])
                    \/ \E c \in Changes : \A d \in Changes : InCommand(rec'[d]) => d = c
  OBVIOUS
<1> DEFINE Less(r) == \A d \in Changes : InCommand(r[d]) => InCommand(rec[d])
<1>1. rec \in [Changes -> Record]
  BY DEF TypeOK, Record
<1>2. /\ \A cs \in SUBSET Changes : Less(Leave(cs))
      /\ Less(LeaveOverdue) /\ Less(WithdrawHeld)
  BY RecordWrites DEF InCommand, Waits
<1>3. ASSUME NEW c \in Changes,
             NEW s \in {"approved", "executing", "unsent", "rejected", "succeeded", "failed", "indeterminate"},
             s \in {"approved", "executing"} => rec[c].status \in {"awaiting", "approved"}
      PROVE  Less(Status(rec, c, s)) /\ Less(Status(LeaveOverdue, c, s))
  <2>1. s \in Statuses
    BY DEF Statuses
  <2>2. QED
    BY <1>3, <2>1, RecordWrites DEF InCommand, Waits
<1>4. ASSUME NEW c \in Changes, Create(c), ~Unsettled
      PROVE  \E b \in Changes : \A d \in Changes : InCommand(rec'[d]) => d = b
  <2>1. rec' = Status(LeaveOverdue, c, "awaiting")
    BY <1>4 DEF Create
  <2>2. ASSUME NEW d \in Changes, d # c PROVE ~InCommand(rec'[d])
    BY <1>4, <2>1, <2>2, RecordWrites DEF Unsettled, InCommand, Waits, Statuses
  <2>3. QED
    BY <2>2
<1>5. ASSUME NEW c \in Changes, Create(c), Unsettled PROVE Less(rec')
  BY <1>2, <1>5 DEF Create
<1>6. ASSUME NEW c \in Changes, Decides(c) PROVE Less(rec')
  BY <1>2, <1>3, <1>6 DEF Decides, Approve, StartFiber, Reject
<1>7. ASSUME NEW c \in Changes, Runs(c) PROVE Less(rec')
  BY <1>2, <1>3, <1>7 DEF Runs, FiberApproves, FiberReadsIdentity, FiberBegins, FiberSends, FiberCompletes,
     Recovers
<1>8. ASSUME NEW c \in Changes, Poll(c) \/ GivesUp(c) PROVE Less(rec')
  BY <1>2, <1>8 DEF Poll, GivesUp
<1>9. ASSUME NEW c \in Changes, Lapses(c) PROVE Less(rec')
  BY <1>1, <1>9 DEF Lapses, Held, InCommand, Waits, Record
<1>10. CASE Settle
  BY <1>2, <1>10 DEF Settle
<1>11. ASSUME NEW c \in Changes,
              \/ CfAsks(c) \/ NotAskedFor15s(c) \/ Propose(c) \/ AskAgain(c)
              \/ File(c) \/ NotFiled(c) \/ List(c)
       PROVE  UNCHANGED rec
  BY <1>11 DEF CfAsks, NotAskedFor15s, Propose, AskAgain, File, NotFiled, List, held
<1>12. ASSUME NEW n \in Numbers, Claim(n) \/ AdminSends(n) \/ FinishApproval(n) \/ RowNotApproved(n)
       PROVE  UNCHANGED rec
  BY <1>12 DEF Claim, AdminSends, FinishApproval, RowNotApproved, RowBecomes, held
<1>13. CASE \/ Demoted \/ Restart \/ UNCHANGED vars
            \/ \E how \in {"finished", "stopped"} : CommandEnds(how)
  BY <1>13 DEF Demoted, Restart, CommandEnds, vars, held
<1>14. CASE UNCHANGED rec
  BY <1>14
<1>15. QED
  BY <1>4, <1>5, <1>6, <1>7, <1>8, <1>9, <1>10, <1>11, <1>12, <1>13, <1>14 DEF Next, Proxies

(* Of the changes the command still waits for, at most one is undecided or    *)
(* being sent, however many `cf` asks for at once and however many are left   *)
(* in the chat.                                                               *)
THEOREM OneAtATimeHolds == Spec => []OneAtATime
<1> DEFINE One == \A c, d \in Changes : InCommand(rec[c]) /\ InCommand(rec[d]) => c = d
<1>1. One => OneAtATime
  BY DEF InCommand, OneAtATime
<1>2. Init => One
  BY DEF Init, NoRecord, InCommand, Waits
<1>3. TypeInv /\ One /\ [Next]_vars => One'
  BY InCommandStep DEF TypeInv
<1>4. QED
  BY <1>1, <1>2, <1>3, TypeInit, TypeStep, PTL DEF Spec
=============================================================================
