------------------------ MODULE DeploymentsLiveProofs ------------------------
(* Proofs about what the project's Worker serves, for any number of commits,  *)
(* builders, claims, failures and restarts: while whoever can send renewed    *)
(* its lease in time, a deploy never goes over that of a commit claimed after *)
(* it that superseded the rest, and what is said to be published is live, or  *)
(* was replaced by a later one.                                               *)
EXTENDS DeploymentsProofs

-----------------------------------------------------------------------------
(* The inductive invariant.                                                   *)

\* Claims, jobs, runs and what is live are of what was claimed.
Supersedable == {"supersede", "again", "add"}
ClaimsHaveRows ==
    \A b \in Builders : claim[b].pc \in Supersedable => claim[b].commit \in ToSet(order)
LinesHaveRows ==
    \A b \in Builders, c \in Commits : c \in ToSet(line[b]) => c \in ToSet(order)
RunsHaveJobs ==
    \A b \in Builders : run[b].pc # "idle" => run[b].commit \in ToSet(line[b])
LiveHasRow == live # 0 => live \in ToSet(order)
SweptHaveRows == \A c \in swept : c \in ToSet(order)

PlacesInv ==
    ClaimsHaveRows /\ LinesHaveRows /\ RunsHaveJobs /\ LiveHasRow /\ SweptHaveRows

\* Nothing was done yet with a commit that is about to supersede the rest.
Untouched(b, c) ==
    /\ live # c /\ row[c].state # "succeeded"
    /\ \A a \in Builders : /\ c \notin ToSet(line[a])
                           /\ a # b /\ claim[a].pc \in Supersedable => claim[a].commit # c

Unstarted ==
    \A b \in Builders, c \in Commits :
        claim[b].pc = "supersede" /\ claim[b].commit = c /\ row[c].by = b => Untouched(b, c)

Finished(d) == row[d].state \notin Unfinished

\* What superseded the rest left nothing older unfinished.
SweptIsOver == \A c \in swept \cap Main, d \in Main : CameAfter(c, d) => Finished(d)

LiveOrLater(c) == live = c \/ CameAfter(live, c)

\* A deploy that sent its requests went live.
Sent(b) ==
    run[b].pc # "idle" /\ (run[b].sent \/ (run[b].pc = "end" /\ run[b].ends = "succeeded"))

Went(c) ==
    \/ live = c \/ row[c].state = "succeeded"
    \/ \E b \in Builders : Sent(b) /\ run[b].commit = c

\* Once it went live it or a later one stays, and no older one can send any more.
SweptWent ==
    \A c \in swept \cap Main : Went(c) =>
        LiveOrLater(c) /\ \A d \in Main : CameAfter(c, d) => ~HoldsTheDeploy(d)

LiveInv == PlacesInv /\ Unstarted /\ SweptIsOver /\ SweptWent

-----------------------------------------------------------------------------
(* The order of the rows.                                                     *)

LEMMA OrderIs ==
    ASSUME TypeOK
    PROVE  /\ order \in Seq(Commits) /\ Len(order) \in Nat /\ DOMAIN order = 1..Len(order)
           /\ \A i \in 1..Len(order) : order[i] \in Commits
           /\ \A i, j \in 1..Len(order) : order[i] = order[j] => i = j
           /\ \A c : c \in ToSet(order) <=> \E i \in 1..Len(order) : order[i] = c
           /\ \A c \in Commits : (row[c].state = "none") = (c \notin ToSet(order))
<1>1. order \in Seq(Commits) /\ IsInjective(order)
      /\ \A c \in Commits : (row[c].state = "none") = (c \notin ToSet(order))
  BY Types
<1>2. Len(order) \in Nat /\ DOMAIN order = 1..Len(order) /\ \A i \in 1..Len(order) : order[i] \in Commits
  BY <1>1
<1>3. \A i, j \in 1..Len(order) : order[i] = order[j] => i = j
  BY <1>1, <1>2 DEF IsInjective
<1>4. \A c : c \in ToSet(order) <=> \E i \in 1..Len(order) : order[i] = c
  BY <1>2 DEF ToSet
<1>5. QED
  BY <1>1, <1>2, <1>3, <1>4

\* The rows are strictly ordered.
LEMMA CameAfterIsOrder ==
    ASSUME TypeOK
    PROVE  /\ \A c, d : CameAfter(c, d) => c # d /\ ~CameAfter(d, c)
                                           /\ c \in ToSet(order) /\ d \in ToSet(order)
           /\ \A c, d, e : CameAfter(c, d) /\ CameAfter(d, e) => CameAfter(c, e)
           /\ \A c, d \in ToSet(order) : c = d \/ CameAfter(c, d) \/ CameAfter(d, c)
<1>1. /\ Len(order) \in Nat /\ DOMAIN order = 1..Len(order)
      /\ \A i, j \in 1..Len(order) : order[i] = order[j] => i = j
      /\ \A c : c \in ToSet(order) <=> \E i \in 1..Len(order) : order[i] = c
  BY OrderIs
<1>2. \A c, d : CameAfter(c, d) <=> \E i, j \in 1..Len(order) : order[i] = d /\ order[j] = c /\ i < j
  BY <1>1 DEF CameAfter
<1>3. ASSUME NEW c, NEW d, CameAfter(c, d)
      PROVE  c # d /\ ~CameAfter(d, c) /\ c \in ToSet(order) /\ d \in ToSet(order)
  BY <1>1, <1>2, <1>3
<1>4. ASSUME NEW c, NEW d, NEW e, CameAfter(c, d), CameAfter(d, e) PROVE CameAfter(c, e)
  <2>1. PICK i, j \in 1..Len(order) : order[i] = d /\ order[j] = c /\ i < j
    BY <1>2, <1>4
  <2>2. PICK k, l \in 1..Len(order) : order[k] = e /\ order[l] = d /\ k < l
    BY <1>2, <1>4
  <2>3. l = i /\ k < j
    BY <1>1, <2>1, <2>2
  <2>4. QED
    BY <1>2, <2>1, <2>2, <2>3
<1>5. ASSUME NEW c \in ToSet(order), NEW d \in ToSet(order), c # d
      PROVE  CameAfter(c, d) \/ CameAfter(d, c)
  <2>1. PICK i \in 1..Len(order) : order[i] = c
    BY <1>1
  <2>2. PICK j \in 1..Len(order) : order[j] = d
    BY <1>1
  <2>3. i < j \/ j < i
    BY <1>5, <2>1, <2>2
  <2>4. QED
    BY <1>2, <2>1, <2>2, <2>3
<1>6. QED
  BY <1>3, <1>4, <1>5

\* The first claim of a commit puts its row behind all others.
LEMMA OrderStep ==
    ASSUME TypeOK, JobsInv, [Next]_vars
    PROVE  /\ \/ order' = order
              \/ \E b \in Builders, e \in Commits :
                    ClaimsFirst(b, e) /\ e \notin ToSet(order)
           /\ Len(order) <= Len(order') /\ Len(order') \in Nat
           /\ \A i \in 1..Len(order) : order'[i] = order[i]
           /\ \A c : c \in ToSet(order) => c \in ToSet(order)'
<1>1. \/ order' = order
      \/ \E b \in Builders, e \in Commits : ClaimsFirst(b, e)
  BY RowMoves DEF TakesUp
<1>2. CASE order' = order
  BY <1>2, OrderIs
<1>3. ASSUME NEW b \in Builders, NEW e \in Commits, ClaimsFirst(b, e)
      PROVE  /\ e \notin ToSet(order)
             /\ Len(order) <= Len(order') /\ Len(order') \in Nat
             /\ \A i \in 1..Len(order) : order'[i] = order[i]
             /\ \A c : c \in ToSet(order) => c \in ToSet(order)'
  <2>1. e \notin ToSet(order) /\ order' = Append(order, e)
    BY <1>3, OrderIs DEF ClaimsFirst
  <2>2. order' \in Seq(Commits) /\ Len(order') = Len(order) + 1
        /\ \A i \in 1..Len(order) : order'[i] = order[i]
    BY <2>1, OrderIs, AppendProperties
  <2>3. IsInjective(order) /\ \A i \in 1..Len(order) : order[i] # e
    BY <2>1, OrderIs, Types
  <2>4. ToSet(order') = ToSet(order) \cup {e}
    BY <2>1, <2>3, OrderIs, AppendIs
  <2>5. QED
    BY <2>1, <2>2, <2>4, OrderIs
<1>4. QED
  BY <1>1, <1>2, <1>3

LEMMA CameAfterStep ==
    ASSUME TypeOK, JobsInv, [Next]_vars, NEW c, NEW d
    PROVE  /\ CameAfter(c, d) => CameAfter(c, d)'
           /\ CameAfter(c, d)' =>
                \/ CameAfter(c, d)
                \/ \E b \in Builders : ClaimsFirst(b, c) /\ c \notin ToSet(order) /\ c \in Commits
<1>1. /\ Len(order) \in Nat /\ DOMAIN order = 1..Len(order) /\ order \in Seq(Commits)
      /\ \A e : e \in ToSet(order) <=> \E i \in 1..Len(order) : order[i] = e
  BY OrderIs
<1>2. order' \in Seq(Commits) /\ Len(order') \in Nat /\ DOMAIN order' = 1..Len(order')
      /\ Len(order) <= Len(order') /\ \A i \in 1..Len(order) : order'[i] = order[i]
  BY RowsStep, OrderStep
<1>3. CameAfter(c, d) => CameAfter(c, d)'
  BY <1>1, <1>2 DEF CameAfter
<1>4. ASSUME CameAfter(c, d)', ~CameAfter(c, d)
      PROVE  \E b \in Builders : ClaimsFirst(b, c) /\ c \notin ToSet(order) /\ c \in Commits
  <2>1. order' # order
    BY <1>4 DEF CameAfter
  <2>2. PICK b \in Builders, e \in Commits : ClaimsFirst(b, e) /\ e \notin ToSet(order)
    BY <2>1, OrderStep
  <2>3. /\ Len(order') = Len(order) + 1 /\ order'[Len(order) + 1] = e
    BY <1>1, <2>2, AppendProperties DEF ClaimsFirst
  <2>4. PICK i, j \in 1..Len(order') : order'[i] = d /\ order'[j] = c /\ i < j
    BY <1>2, <1>4 DEF CameAfter
  <2>5. CASE j = Len(order) + 1
    BY <2>2, <2>3, <2>4, <2>5
  <2>6. CASE j # Len(order) + 1
    <3>1. i \in 1..Len(order) /\ j \in 1..Len(order)
      BY <1>1, <2>3, <2>4, <2>6
    <3>2. QED
      BY <1>1, <1>2, <1>4, <2>4, <3>1 DEF CameAfter
  <2>7. QED
    BY <2>5, <2>6
<1>5. QED
  BY <1>3, <1>4

-----------------------------------------------------------------------------
(* What a step does to claims, lines, runs and what is live.                  *)

\* The claim of c by builder b, which it was not before.
NewClaim(b, c) ==
    /\ claim[b].pc = "none"
    /\ \/ claim'[b].pc \in {"insert", "check"}
       \/ claim'[b].pc = "again" /\ row[c].state = "failed" /\ row' = Queued(b, c)

\* The claim of c by builder b goes on.
ClaimGoesOn(b, c) ==
    /\ claim[b].commit = c
    /\ \/ claim[b].pc = "check" /\ claim'[b].pc = "insert"
       \/ claim[b].pc = "insert" /\ claim'[b].pc = "supersede" /\ ClaimsFirst(b, c)
       \/ /\ claim[b].pc = "insert" /\ claim'[b].pc = "add"
          /\ row[c].state # "none" /\ row' = Queued(b, c)
       \/ claim[b].pc = "supersede" /\ claim'[b].pc = "add"
       \/ claim[b].pc = "again" /\ claim'[b].pc = "add"

LEMMA ClaimMoves ==
    ASSUME TypeOK, JobsInv, [Next]_vars, NEW b \in Builders
    PROVE  \/ claim'[b] = claim[b] \/ claim'[b] = NoClaim
           \/ \E c \in Commits : claim'[b].commit = c /\ (NewClaim(b, c) \/ ClaimGoesOn(b, c))
<1>1. claim \in [Builders -> ClaimType] /\ claim[b] \in ClaimType
  BY Types
<1>2. ASSUME NEW a \in Builders, BuilderStep(a)
      PROVE  claim'[b] = claim[b] \/ claim'[b] = NoClaim
  <2>1. claim' = claim \/ claim' = [claim EXCEPT ![a] = NoClaim]
    BY <1>2 DEF BuilderStep, Start, ContainerGone, NotDeployable, Report, Yield, Request, Heartbeat,
                WorkDone, WorkFails, EndReport, Done, Restart
  <2>2. QED
    BY <1>1, <2>1
<1>3. ASSUME NEW a \in Builders, a # b, ClaimStep(a) PROVE claim'[b] = claim[b]
  BY <1>1, <1>3 DEF ClaimStep, Push, ReadHead, CheckNewer, Insert, Supersede, Retry, ClaimAgain,
                    AddJob, ClaimLost
<1>4. ASSUME ClaimStep(b)
      PROVE  \/ claim'[b] = NoClaim
             \/ \E c \in Commits : claim'[b].commit = c /\ (NewClaim(b, c) \/ ClaimGoesOn(b, c))
  <2>1. CASE Push(b)
    <3>1. PICK c \in Commits : c = pushed + 1
      BY <2>1 DEF Push
    <3>2. claim'[b] = [pc |-> "insert", commit |-> c, since |-> Len(order)]
      BY <1>1, <2>1, <3>1 DEF Push
    <3>3. QED
      BY <2>1, <3>1, <3>2 DEF Push, NewClaim
  <2>2. CASE ReadHead(b)
    <3>1. PICK c \in Main :
            claim' = [claim EXCEPT ![b] = [pc |-> "check", commit |-> c, since |-> Len(order)]]
      BY <2>2 DEF ReadHead
    <3>2. claim'[b] = [pc |-> "check", commit |-> c, since |-> Len(order)]
      BY <1>1, <3>1
    <3>3. QED
      BY <2>2, <3>1, <3>2, Constants DEF ReadHead, NewClaim
  <2>3. CASE Retry(b)
    <3>1. PICK c \in Commits :
            /\ row[c].state = "failed" /\ row' = Queued(b, c)
            /\ claim' = [claim EXCEPT ![b] = [pc |-> "again", commit |-> c, since |-> Len(order)]]
      BY <2>3 DEF Retry
    <3>2. claim'[b] = [pc |-> "again", commit |-> c, since |-> Len(order)]
      BY <1>1, <3>1
    <3>3. QED
      BY <2>3, <3>1, <3>2 DEF Retry, NewClaim
  <2>4. CASE CheckNewer(b) \/ Insert(b) \/ Supersede(b) \/ ClaimAgain(b)
    <3>1. PICK c \in Commits : c = claim[b].commit
      BY <2>4 DEF JobsInv, ClaimsNameCommits, CheckNewer, Insert, Supersede, ClaimAgain
    <3>2. ASSUME NEW pc, claim' = [claim EXCEPT ![b].pc = pc]
          PROVE  claim'[b].pc = pc /\ claim'[b].commit = c
      BY <1>1, <3>1, <3>2 DEF ClaimType
    <3>3. CASE CheckNewer(b)
      <4>1. claim'[b] = NoClaim \/ claim' = [claim EXCEPT ![b].pc = "insert"]
        BY <1>1, <3>3 DEF CheckNewer
      <4>2. QED
        BY <3>1, <3>2, <3>3, <4>1 DEF CheckNewer, ClaimGoesOn
    <3>4. CASE Insert(b)
      <4>1. CASE row[c].state = "none" /\ claim' = [claim EXCEPT ![b].pc = "supersede"]
                 /\ row' = Queued(b, c) /\ order' = Append(order, c)
        BY <3>1, <3>2, <3>4, <4>1 DEF Insert, ClaimGoesOn, ClaimsFirst
      <4>2. CASE TakesOver(b, c) /\ claim' = [claim EXCEPT ![b].pc = "add"]
        <5>1. row[c].state # "none" /\ row' = Queued(b, c)
          BY <4>2 DEF TakesOver, RanOut
        <5>2. QED
          BY <3>1, <3>2, <3>4, <4>2, <5>1 DEF Insert, ClaimGoesOn
      <4>3. CASE claim' = [claim EXCEPT ![b] = NoClaim]
        BY <1>1, <4>3
      <4>4. QED
        BY <3>1, <3>4, <4>1, <4>2, <4>3 DEF Insert
    <3>5. CASE Supersede(b) \/ ClaimAgain(b)
      BY <3>1, <3>2, <3>5 DEF Supersede, ClaimAgain, ClaimGoesOn
    <3>6. QED
      BY <2>4, <3>3, <3>4, <3>5
  <2>5. CASE AddJob(b) \/ ClaimLost(b)
    BY <1>1, <2>5 DEF AddJob, ClaimLost
  <2>6. QED
    BY <1>4, <2>1, <2>2, <2>3, <2>4, <2>5 DEF ClaimStep
<1>5. QED
  BY <1>2, <1>3, <1>4, Shapes DEF StepShapes, Tick, vars

\* A commit counts as having superseded the rest in the step in which it did.
LEMMA SweptMoves ==
    ASSUME TypeOK, JobsInv, [Next]_vars
    PROVE  \/ swept' = swept
           \/ \E b \in Builders, c \in Commits :
                 /\ claim[b].pc = "supersede" /\ claim[b].commit = c /\ row[c].by = b
                 /\ swept' = swept \cup {c} /\ row' = Supersedes(c)
                 /\ order' = order /\ live' = live /\ run' = run
<1>1. ASSUME NEW b \in Builders, BuilderStep(b) PROVE swept' = swept
  BY <1>1 DEF BuilderStep, Start, ContainerGone, NotDeployable, Report, Yield, Request, Heartbeat,
              WorkDone, WorkFails, EndReport, Done, Restart
<1>2. ASSUME NEW b \in Builders, ClaimStep(b) PROVE swept' = swept \/ Supersede(b)
  BY <1>2 DEF ClaimStep, Push, ReadHead, CheckNewer, Insert, Supersede, Retry, ClaimAgain, AddJob,
              ClaimLost
<1>3. ASSUME NEW b \in Builders, Supersede(b), swept' # swept
      PROVE  \E c \in Commits :
                /\ claim[b].pc = "supersede" /\ claim[b].commit = c /\ row[c].by = b
                /\ swept' = swept \cup {c} /\ row' = Supersedes(c)
                /\ order' = order /\ live' = live /\ run' = run
  BY <1>3 DEF Supersede, JobsInv, ClaimsNameCommits
<1>4. QED
  BY <1>1, <1>2, <1>3, Shapes DEF StepShapes, Tick, vars

\* A job comes into a line by a claim's answer and leaves it when it is done.
LEMMA LineMoves ==
    ASSUME TypeOK, JobsInv, [Next]_vars, NEW b \in Builders, NEW c \in Commits
    PROVE  /\ c \in ToSet(line'[b]) =>
                c \in ToSet(line[b]) \/ (AddJob(b) /\ claim[b].commit = c)
           /\ c \in ToSet(line[b]) =>
                c \in ToSet(line'[b]) \/ (Done(b) /\ run[b].commit = c)
<1>1. line \in [Builders -> Seq(Commits)] /\ line[b] \in Seq(Commits) /\ IsInjective(line[b])
  BY Types
<1>2. ASSUME NEW a \in Builders, a # b, AddJob(a) \/ Done(a) PROVE line'[b] = line[b]
  BY <1>1, <1>2 DEF AddJob, Done
<1>3. CASE AddJob(b)
  <2>1. PICK e \in Commits : e = claim[b].commit
    BY <1>3 DEF JobsInv, ClaimsNameCommits, AddJob
  <2> DEFINE s == RemoveFirst(line[b], e)
  <2>2. s \in Seq(Commits) /\ IsInjective(s) /\ (\A j \in 1..Len(s) : s[j] # e)
        /\ ToSet(s) = ToSet(line[b]) \ {e}
    BY <1>1, RemoveFirstIs
  <2>3. line'[b] = Append(s, e)
    BY <1>1, <1>3, <2>1 DEF AddJob
  <2> HIDE DEF s
  <2>4. ToSet(line'[b]) = (ToSet(line[b]) \ {e}) \cup {e}
    BY <2>2, <2>3, AppendIs
  <2>5. QED
    BY <1>3, <2>1, <2>4
<1>4. CASE Done(b)
  <2>1. line'[b] = RemoveFirst(line[b], run[b].commit)
    BY <1>1, <1>4 DEF Done
  <2>2. ToSet(line'[b]) = ToSet(line[b]) \ {run[b].commit}
    BY <1>1, <2>1, RemoveFirstIs
  <2>3. QED
    BY <1>4, <2>2
<1>5. CASE ~ \E a \in Builders : AddJob(a) \/ Done(a)
  <2>1. ASSUME NEW a \in Builders, BuilderStep(a) PROVE line' = line
    BY <1>5, <2>1 DEF BuilderStep, Start, ContainerGone, NotDeployable, Report, Yield, Request,
                      Heartbeat, WorkDone, WorkFails, EndReport, Restart
  <2>2. ASSUME NEW a \in Builders, ClaimStep(a) PROVE line' = line
    BY <1>5, <2>2 DEF ClaimStep, Push, ReadHead, CheckNewer, Insert, Supersede, Retry, ClaimAgain, ClaimLost
  <2>3. line' = line
    BY <2>1, <2>2, Shapes DEF StepShapes, Tick, vars
  <2>4. QED
    BY <2>3
<1>6. QED
  BY <1>2, <1>3, <1>4, <1>5

\* What is live changes by a deploy's request only, which writes no row.
LEMMA LiveMoves ==
    ASSUME TypeOK, JobsInv, [Next]_vars
    PROVE  \/ live' = live
           \/ \E b \in Builders, c \in Main : /\ Sends(b) /\ HasToken(b) /\ run[b].commit = c
                                              /\ live' = c
                                              /\ row' = row /\ order' = order
<1>1. ASSUME NEW b \in Builders, BuilderStep(b), live' # live PROVE Request(b)
  BY <1>1 DEF BuilderStep, Start, ContainerGone, NotDeployable, Report, Yield, Heartbeat, WorkDone,
              WorkFails, EndReport, Done, Restart
<1>2. ASSUME NEW b \in Builders, ClaimStep(b) PROVE live' = live
  BY <1>2 DEF ClaimStep, Push, ReadHead, CheckNewer, Insert, Supersede, Retry, ClaimAgain, AddJob,
              ClaimLost
<1>3. ASSUME NEW b \in Builders, Request(b), live' # live
      PROVE  \E c \in Main : /\ Sends(b) /\ HasToken(b) /\ run[b].commit = c /\ live' = c
                             /\ row' = row /\ order' = order
  BY <1>3 DEF Request
<1>4. QED
  BY <1>1, <1>2, <1>3, Shapes DEF StepShapes, Tick, vars

\* A run that sent is of a request's, now or before.
LEMMA SentMoves ==
    ASSUME TypeOK, JobsInv, [Next]_vars, NEW b \in Builders, Sent(b)', NEW c \in Main,
           run'[b].commit = c
    PROVE  (Sent(b) /\ run[b].commit = c) \/ live' = c
<1>1. /\ run \in [Builders -> RunType] /\ run[b] \in RunType
  BY Types
<1>2. Idle.sent = FALSE /\ Idle.pc = "idle"
  BY DEF Idle
<1>3. CASE run'[b] = run[b]
  BY <1>3 DEF Sent
<1>4. CASE Tick
  <2> DEFINE token == IF run[b].token > 0 THEN run[b].token - 1 ELSE 0
             age == IF run[b].age < LeaseUnits THEN run[b].age + 1 ELSE run[b].age
             r == [run[b] EXCEPT !.beat = run[b].beat + 1, !.age = age, !.token = token]
  <2>1. r.sent = run[b].sent /\ r.pc = run[b].pc /\ r.ends = run[b].ends /\ r.commit = run[b].commit
    BY <1>1 DEF RunType
  <2>2. run'[b] = run[b] \/ run'[b] = r
    BY <1>4 DEF Tick
  <2> HIDE DEF r
  <2>3. QED
    BY <1>3, <2>1, <2>2 DEF Sent
<1>5. ASSUME NEW e \in Endings, run' = Ends(b, e)
      PROVE  e = "succeeded" /\ run'[b].commit = run[b].commit
  <2>1. run'[b] = [Idle EXCEPT !.pc = "end", !.commit = run[b].commit, !.ends = e]
    BY <1>1, <1>5 DEF Ends
  <2>2. run'[b].sent = FALSE /\ run'[b].ends = e /\ run'[b].commit = run[b].commit
    BY <2>1 DEF Idle
  <2>3. QED
    BY <2>2 DEF Sent
<1>6. ASSUME run' = [run EXCEPT ![b] = Idle] PROVE FALSE
  BY <1>1, <1>2, <1>6 DEF Sent
<1>7. ASSUME run' = Over(b) PROVE FALSE
  <2>1. run'[b] = [Idle EXCEPT !.pc = "done", !.commit = run[b].commit]
    BY <1>1, <1>7 DEF Over
  <2>2. run'[b].sent = FALSE /\ run'[b].pc = "done"
    BY <2>1 DEF Idle
  <2>3. QED
    BY <2>2 DEF Sent
<1>8. ASSUME Start(b) PROVE FALSE
  <2>1. PICK d, step, pc : run'[b] = [Idle EXCEPT !.commit = d, !.step = step, !.pc = pc]
    BY <1>1, <1>8 DEF Start
  <2>2. run'[b].sent = FALSE /\ run'[b].ends = "failed"
    BY <2>1 DEF Idle
  <2>3. QED
    BY <2>2 DEF Sent
<1>9. CASE Report(b) \/ Yield(b)
  <2>1. ASSUME NEW pc \in {"work", "yield"}, run' = Goes(b, pc)
        PROVE  Sent(b) /\ run[b].commit = c
    <3>1. run'[b] = [run[b] EXCEPT !.pc = pc]
      BY <1>1, <2>1 DEF Goes
    <3>2. run'[b].sent = run[b].sent /\ run'[b].pc = pc /\ run'[b].commit = run[b].commit
      BY <1>1, <3>1 DEF RunType
    <3>3. run[b].pc # "idle"
      BY <1>9 DEF Report, Yield
    <3>4. QED
      BY <2>1, <3>2, <3>3 DEF Sent
  <2>2. \/ run' = Goes(b, "work") \/ run' = Goes(b, "yield") \/ run' = Ends(b, "failed")
        \/ run' = [run EXCEPT ![b] = Idle]
    BY <1>9 DEF Report, Yield, Advances
  <2>3. QED
    BY <1>5, <1>6, <2>1, <2>2 DEF Endings
<1>10. CASE Heartbeat(b)
  <2>1. \/ run' = Ends(b, "failed") \/ run'[b] = [run[b] EXCEPT !.beat = 0]
        \/ run'[b] = [run[b] EXCEPT !.beat = 0, !.age = 0]
    BY <1>1, <1>10 DEF Heartbeat
  <2>2. CASE \/ run'[b] = [run[b] EXCEPT !.beat = 0]
             \/ run'[b] = [run[b] EXCEPT !.beat = 0, !.age = 0]
    <3>1. /\ run'[b].sent = run[b].sent /\ run'[b].pc = run[b].pc
          /\ run'[b].ends = run[b].ends /\ run'[b].commit = run[b].commit
      BY <1>1, <2>2 DEF RunType
    <3>2. QED
      BY <3>1 DEF Sent
  <2>3. QED
    BY <1>5, <2>1, <2>2 DEF Endings
<1>11. CASE Request(b)
  <2>1. PICK token : run'[b] = [run[b] EXCEPT !.sent = (run[b].step = "deploy"), !.token = token]
    BY <1>1, <1>11 DEF Request
  <2>2. /\ run'[b].sent = (run[b].step = "deploy") /\ run'[b].pc = run[b].pc
        /\ run'[b].commit = run[b].commit
    BY <1>1, <2>1 DEF RunType
  <2>3. run[b].pc = "work" /\ run[b].step = "deploy" /\ run[b].commit = c
    BY <1>11, <2>2 DEF Sent, Request, Sends
  <2>4. QED
    BY <1>11, <2>3 DEF Request
<1>12. CASE WorkDone(b)
  <2>1. run[b].pc = "work" /\ run[b].sent /\ run' = Ends(b, "succeeded")
    BY <1>6, <1>12 DEF WorkDone, Advances
  <2>2. QED
    BY <1>5, <2>1 DEF Sent, Endings
<1>13. CASE NotDeployable(b) \/ WorkFails(b)
  BY <1>5, <1>13 DEF NotDeployable, WorkFails, Endings
<1>14. CASE EndReport(b)
  BY <1>5, <1>7, <1>14 DEF EndReport, Endings
<1>15. CASE ContainerGone(b) \/ Done(b) \/ Restart(b)
  BY <1>6, <1>15 DEF ContainerGone, Done, Restart
<1>16. QED
  BY <1>3, <1>4, <1>8, <1>9, <1>10, <1>11, <1>12, <1>13, <1>14, <1>15, RunsFollow DEF BuilderStep

-----------------------------------------------------------------------------
(* Claims, jobs and runs stay of what was claimed.                            *)

LEMMA HaveRowsStep ==
    ASSUME TypeOK, JobsInv, PlacesInv, [Next]_vars
    PROVE  ClaimsHaveRows' /\ LinesHaveRows' /\ LiveHasRow' /\ SweptHaveRows'
<1>1. \A c : c \in ToSet(order) => c \in ToSet(order)'
  BY OrderStep
<1>2. \A c \in Commits : /\ (row[c].state = "none") = (c \notin ToSet(order))
                         /\ (row'[c].state = "none") = (c \notin ToSet(order'))
  BY OrderIs, RowsStep
<1>3. ASSUME NEW b \in Builders, claim'[b].pc \in Supersedable
      PROVE  claim'[b].commit \in ToSet(order)'
  <2>1. CASE claim'[b] = claim[b]
    BY <1>1, <1>3, <2>1 DEF PlacesInv, ClaimsHaveRows
  <2>2. CASE claim'[b] = NoClaim
    BY <1>3, <2>2 DEF NoClaim, Supersedable
  <2>3. ASSUME NEW c \in Commits, claim'[b].commit = c, NewClaim(b, c)
        PROVE  c \in ToSet(order)'
    BY <1>1, <1>2, <1>3, <2>3 DEF NewClaim, Supersedable
  <2>4. ASSUME NEW c \in Commits, claim'[b].commit = c, ClaimGoesOn(b, c)
        PROVE  c \in ToSet(order)'
    <3>1. CASE ClaimsFirst(b, c)
      <4>1. row'[c].state = "queued"
        BY <3>1, QueuedIs DEF ClaimsFirst
      <4>2. QED
        BY <1>2, <4>1
    <3>2. CASE ~ClaimsFirst(b, c)
      BY <1>1, <1>2, <1>3, <2>4, <3>2 DEF ClaimGoesOn, PlacesInv, ClaimsHaveRows, Supersedable
    <3>3. QED
      BY <3>1, <3>2
  <2>5. QED
    BY <2>1, <2>2, <2>3, <2>4, ClaimMoves
<1>4. ASSUME NEW b \in Builders, NEW c \in Commits, c \in ToSet(line'[b])
      PROVE  c \in ToSet(order)'
  <2>1. c \in ToSet(line[b]) \/ (claim[b].pc = "add" /\ claim[b].commit = c)
    BY <1>4, LineMoves DEF AddJob
  <2>2. QED
    BY <1>1, <2>1 DEF PlacesInv, ClaimsHaveRows, LinesHaveRows, Supersedable
<1>5. LiveHasRow'
  <2>1. CASE live' = live
    BY <1>1, <2>1 DEF PlacesInv, LiveHasRow
  <2>2. ASSUME NEW b \in Builders, NEW c \in Main, Sends(b), run[b].commit = c, live' = c
        PROVE  c \in ToSet(order)'
    <3>1. c \in Commits /\ c \in ToSet(line[b])
      BY <2>2, Constants DEF Sends, PlacesInv, RunsHaveJobs
    <3>2. QED
      BY <1>1, <3>1 DEF PlacesInv, LinesHaveRows
  <2>3. QED
    BY <2>1, <2>2, LiveMoves DEF LiveHasRow
<1>6. SweptHaveRows'
  <2>1. ASSUME NEW c \in swept' PROVE c \in ToSet(order)'
    <3>1. c \in ToSet(order)
      BY <2>1, SweptMoves DEF PlacesInv, SweptHaveRows, ClaimsHaveRows, Supersedable
    <3>2. QED
      BY <1>1, <3>1
  <2>2. QED
    BY <2>1 DEF SweptHaveRows
<1>7. QED
  BY <1>3, <1>4, <1>5, <1>6 DEF ClaimsHaveRows, LinesHaveRows

LEMMA RunsHaveJobsStep ==
    ASSUME TypeOK, JobsInv, RunsHaveJobs, [Next]_vars
    PROVE  RunsHaveJobs'
<1> SUFFICES ASSUME NEW b \in Builders, run'[b].pc # "idle"
             PROVE  run'[b].commit \in ToSet(line'[b])
  BY DEF RunsHaveJobs
<1>1. PICK c \in Commits : run'[b].commit = c
  BY RunsStep DEF RunsNameCommits
<1>2. run \in [Builders -> RunType] /\ line[b] \in Seq(Commits)
  BY Types
<1>3. ~Done(b)
  BY <1>2, IdleIs DEF Done
<1>4. c \in ToSet(line[b])
  <2>1. CASE run[b].pc # "idle"
    <3>1. run[b].commit = c
      BY <1>1, <2>1, RunsFollow, AgedRuns DEF Follows
    <3>2. QED
      BY <2>1, <3>1 DEF RunsHaveJobs
  <2>2. CASE run[b].pc = "idle"
    <3>1. ~(run'[b] = run[b]) /\ ~Tick
      BY <2>2, AgedRuns
    <3>2. BuilderStep(b)
      BY <3>1, RunsFollow
    <3>3. Start(b)
      BY <1>2, <2>2, <3>2, IdleIs DEF BuilderStep, ContainerGone, NotDeployable, Report, Yield,
         Request, Sends, Heartbeat, WorkDone, WorkFails, EndReport, Done, Restart
    <3>4. line[b] # <<>> /\ \E step, pc :
             run'[b] = [Idle EXCEPT !.commit = Head(line[b]), !.step = step, !.pc = pc]
      BY <1>2, <3>3 DEF Start
    <3>5. c = Head(line[b])
      BY <1>1, <3>4 DEF Idle
    <3>6. Head(line[b]) = line[b][1] /\ 1 \in DOMAIN line[b]
      BY <1>2, <3>4, HeadTailProperties
    <3>7. QED
      BY <3>5, <3>6 DEF ToSet
  <2>3. QED
    BY <2>1, <2>2
<1>5. QED
  BY <1>1, <1>3, <1>4, LineMoves

LEMMA PlacesStep ==
    ASSUME TypeOK, JobsInv, PlacesInv, [Next]_vars
    PROVE  PlacesInv'
  BY HaveRowsStep, RunsHaveJobsStep DEF PlacesInv

-----------------------------------------------------------------------------
(* What a step does to one row.                                               *)

LEMMA RowBecomes ==
    ASSUME TypeOK, JobsInv, [Next]_vars, NEW c \in Commits
    PROVE  \/ row'[c].state = row[c].state /\ row'[c].lease <= row[c].lease
           \/ /\ row'[c].state = "queued" /\ row'[c].lease = 0
              /\ \E b \in Builders : ClaimsFirst(b, c) \/ TakesUp(b, c)
           \/ /\ row[c].state \in Unfinished
              /\ \E b \in Builders : Reports(b, row'[c].state) /\ run[b].commit = c
           \/ /\ row[c].state \in Unfinished /\ row'[c].state = "superseded"
              /\ row'[c].lease = IF row[c].state = "deploying" THEN row[c].lease ELSE 0
<1>1. row[c] \in RowType /\ row[c].lease \in Nat /\ row[c].lease <= row[c].lease
  BY Types, Constants DEF RowType
<1>2. CASE row'[c] = row[c]
  BY <1>1, <1>2
<1>3. ASSUME NEW b \in Builders, NEW state \in Reportable, Reports(b, state), row'[c] # row[c]
      PROVE  \/ row'[c].state = row[c].state /\ row'[c].lease <= row[c].lease
             \/ row[c].state \in Unfinished /\ row'[c].state = state /\ run[b].commit = c
  <2>1. PICK d \in Commits : d = run[b].commit
    BY <1>3 DEF Reports, JobsInv, RunsNameCommits
  <2>2. c = d /\ row' = Reported(b, c, state)
    BY <1>3, <2>1, ReportedIs DEF Reports
  <2>3. CASE Outcome(b, c, state) = "recorded"
    <3>1. row[c].state \in Unfinished
      BY <2>3 DEF Outcome
    <3>2. QED
      BY <2>1, <2>2, <2>3, <3>1, ReportedIs
  <2>4. CASE Outcome(b, c, state) # "recorded"
    BY <1>1, <1>3, <2>2, <2>4, ReportedIs
  <2>5. QED
    BY <2>3, <2>4
<1>4. ASSUME NEW b \in Builders, NEW d \in Commits, ClaimsFirst(b, d) \/ TakesUp(b, d),
             row'[c] # row[c]
      PROVE  d = c /\ row'[c].state = "queued" /\ row'[c].lease = 0
  BY <1>4, QueuedIs DEF ClaimsFirst, TakesUp
<1>5. ASSUME NEW d \in Commits, row' = Supersedes(d), row'[c] # row[c]
      PROVE  /\ row[c].state \in Unfinished /\ row'[c].state = "superseded"
             /\ row'[c].lease = IF row[c].state = "deploying" THEN row[c].lease ELSE 0
  BY <1>5, SupersedesIs
<1>6. CASE Ages
  BY <1>1, <1>6, AgesIs
<1>7. QED
  BY <1>2, <1>3, <1>4, <1>5, <1>6, RowMoves

\* What is over stays over: only the newest row is tried again.
LEMMA FinishedStays ==
    ASSUME TypeOK, JobsInv, [Next]_vars, NEW c \in Main, NEW d \in Main, CameAfter(c, d), Finished(d)
    PROVE  Finished(d)' /\ (~HoldsTheDeploy(d) => ~HoldsTheDeploy(d)')
<1>1. c \in Commits /\ d \in Commits
  BY Constants
<1>2. row[d].state # "none" /\ ~IsNewest(d)
  BY <1>1, CameAfterIsOrder, OrderIs DEF IsNewest, SameBranch
<1>3. ~RanOut(d) /\ row[d].state # "queued"
  BY DEF RanOut, Finished, Unfinished
<1>4. row'[d].state = row[d].state /\ row'[d].lease <= row[d].lease
  BY <1>1, <1>2, <1>3, RowBecomes DEF Finished, ClaimsFirst, TakesUp
<1>5. row[d].lease \in Nat /\ row'[d].lease \in Nat
  BY <1>1, Types, RowsStep, Constants DEF RowType
<1>6. QED
  BY <1>4, <1>5 DEF Finished, HoldsTheDeploy

-----------------------------------------------------------------------------
(* What is about to supersede the rest is untouched.                          *)

LEMMA OwnerMoves ==
    ASSUME TypeOK, JobsInv, [Next]_vars, NEW c \in Commits
    PROVE  \/ row'[c].by = row[c].by
           \/ \E b \in Builders : /\ row' = Queued(b, c) /\ row'[c].by = b
                                  /\ ClaimsFirst(b, c) \/ TakesUp(b, c)
<1>1. ASSUME NEW b \in Builders, NEW state \in Reportable, Reports(b, state)
      PROVE  row'[c].by = row[c].by
  <2>1. PICK d \in Commits : d = run[b].commit
    BY <1>1 DEF Reports, JobsInv, RunsNameCommits
  <2>2. row' = Reported(b, d, state)
    BY <1>1, <2>1 DEF Reports
  <2>3. row[d] \in RowType /\ row \in [Commits -> RowType]
    BY Types
  <2>4. CASE c # d
    BY <1>1, <2>2, <2>4, ReportedIs
  <2>5. CASE c = d
    BY <2>2, <2>3, <2>5 DEF Reported, RowType
  <2>6. QED
    BY <2>4, <2>5
<1>2. ASSUME NEW b \in Builders, NEW d \in Commits, ClaimsFirst(b, d) \/ TakesUp(b, d)
      PROVE  \/ row'[c].by = row[c].by
             \/ row' = Queued(b, c) /\ row'[c].by = b /\ d = c
  <2>1. row' = Queued(b, d) /\ row \in [Commits -> RowType]
    BY <1>2, Types DEF ClaimsFirst, TakesUp
  <2>2. QED
    BY <2>1 DEF Queued
<1>3. ASSUME NEW d \in Commits, row' = Supersedes(d) PROVE row'[c].by = row[c].by
  BY <1>3, SupersedesIs
<1>4. QED
  BY <1>1, <1>2, <1>3, RowMoves, AgesIs

\* A commit that has no row yet was not worked at by anybody.
LEMMA RowlessIsUntouched ==
    ASSUME TypeOK, PlacesInv, NEW b \in Builders, NEW c \in Commits, c \notin ToSet(order)
    PROVE  Untouched(b, c)
<1>1. live # c
  BY Constants DEF PlacesInv, LiveHasRow
<1>2. row[c].state = "none"
  BY OrderIs
<1>3. QED
  BY <1>1, <1>2 DEF Untouched, PlacesInv, LinesHaveRows, ClaimsHaveRows

\* Who is about to supersede the rest was before, or makes the commit's row now.
LEMMA WasUntouched ==
    ASSUME TypeOK, JobsInv, PlacesInv, Unstarted, [Next]_vars, NEW b \in Builders, NEW c \in Commits,
           claim'[b].pc = "supersede", claim'[b].commit = c, row'[c].by = b
    PROVE  Untouched(b, c)
<1>1. claim'[b] # NoClaim /\ claim \in [Builders -> ClaimType] /\ claim[b] \in ClaimType
  BY Types DEF NoClaim
<1>2. ASSUME ClaimsFirst(b, c) PROVE Untouched(b, c)
  BY <1>2, OrderIs, RowlessIsUntouched DEF ClaimsFirst
<1>3. CASE claim'[b] # claim[b]
  BY <1>1, <1>2, <1>3, ClaimMoves DEF NewClaim, ClaimGoesOn
<1>4. CASE claim'[b] = claim[b]
  <2>1. claim[b].pc = "supersede" /\ claim[b].commit = c
    BY <1>4
  <2>2. ASSUME ClaimStep(b) PROVE FALSE
    <3>1. claim' = [claim EXCEPT ![b].pc = "add"] \/ claim' = [claim EXCEPT ![b] = NoClaim]
      BY <2>1, <2>2 DEF ClaimStep, Push, ReadHead, CheckNewer, Insert, Supersede, Retry,
                        ClaimAgain, AddJob, ClaimLost
    <3>2. [claim[b] EXCEPT !.pc = "add"].pc = "add"
      BY <1>1 DEF ClaimType
    <3>3. QED
      BY <1>1, <1>4, <2>1, <3>1, <3>2
  <2>3. row[c].by = b \/ ClaimsFirst(b, c)
    BY <2>2, OwnerMoves DEF TakesUp
  <2>4. QED
    BY <1>2, <2>1, <2>3 DEF Unstarted
<1>5. QED
  BY <1>3, <1>4

LEMMA UnstartedStep ==
    ASSUME TypeOK, JobsInv, PlacesInv, Unstarted, [Next]_vars
    PROVE  Unstarted'
<1> SUFFICES ASSUME NEW b \in Builders, NEW c \in Commits, claim'[b].pc = "supersede",
                    claim'[b].commit = c, row'[c].by = b
             PROVE  Untouched(b, c)'
  BY DEF Unstarted
<1>1. Untouched(b, c)
  BY WasUntouched
<1>2. ASSUME NEW a \in Builders, run[a].pc # "idle", run[a].commit = c PROVE FALSE
  BY <1>1, <1>2 DEF Untouched, PlacesInv, RunsHaveJobs
<1>3. live' # c
  BY <1>1, <1>2, LiveMoves DEF Untouched, Sends
<1>4. row'[c].state # "succeeded"
  BY <1>1, <1>2, RowBecomes DEF Untouched, Reports
<1>5. ASSUME NEW a \in Builders PROVE c \notin ToSet(line'[a])
  <2>1. ASSUME AddJob(a), claim[a].commit = c PROVE FALSE
    <3>1. claim[a].pc = "add" /\ claim'[a] = NoClaim
      BY <2>1, Types DEF AddJob
    <3>2. a # b
      BY <3>1 DEF NoClaim
    <3>3. QED
      BY <1>1, <2>1, <3>1, <3>2 DEF Untouched, Supersedable
  <2>2. QED
    BY <1>1, <2>1, LineMoves DEF Untouched
<1>6. ASSUME NEW a \in Builders, a # b, claim'[a].pc \in Supersedable, claim'[a].commit = c
      PROVE  FALSE
  <2>1. row' # Queued(a, c)
    BY <1>6, Types DEF Queued
  <2>2. claim'[a] # claim[a] /\ claim'[a] # NoClaim
    BY <1>1, <1>6 DEF Untouched, NoClaim, Supersedable
  <2>3. NewClaim(a, c) \/ ClaimGoesOn(a, c)
    BY <1>6, <2>2, ClaimMoves
  <2>4. claim[a].pc \in Supersedable /\ claim[a].commit = c
    BY <1>6, <2>1, <2>3 DEF NewClaim, ClaimGoesOn, ClaimsFirst, Supersedable
  <2>5. QED
    BY <1>1, <1>6, <2>4 DEF Untouched
<1>7. QED
  BY <1>3, <1>4, <1>5, <1>6 DEF Untouched

-----------------------------------------------------------------------------
(* What superseded the rest, and what went live of it.                        *)

LEMMA SweptIsOverStep ==
    ASSUME TypeOK, JobsInv, PlacesInv, SweptIsOver, [Next]_vars
    PROVE  SweptIsOver'
<1> SUFFICES ASSUME NEW c \in swept' \cap Main, NEW d \in Main, CameAfter(c, d)'
             PROVE  Finished(d)'
  BY DEF SweptIsOver
<1>1. c \in Commits /\ d \in Commits /\ SameBranch(c, d)
  BY Constants DEF SameBranch
<1>2. CASE c \in swept
  <2>1. c \in ToSet(order)
    BY <1>2 DEF PlacesInv, SweptHaveRows
  <2>2. CameAfter(c, d)
    BY <2>1, CameAfterStep
  <2>3. QED
    BY <1>2, <2>2, FinishedStays DEF SweptIsOver
<1>3. CASE row' = Supersedes(c) /\ order' = order
  <2>1. CameAfter(c, d) /\ c # d
    BY <1>3, CameAfterIsOrder DEF CameAfter
  <2>2. row[d] \in RowType
    BY <1>1, Types
  <2>3. row'[d].state = IF row[d].state \in Unfinished THEN "superseded" ELSE row[d].state
    BY <1>1, <1>3, <2>1, <2>2 DEF Supersedes, RowType
  <2>4. QED
    BY <2>3 DEF Finished, Unfinished
<1>4. QED
  BY <1>2, <1>3, SweptMoves

\* A deploy goes live only while it holds the project's deploy.
LEMMA LiveHolds ==
    ASSUME TypeOK, JobsInv, DeploysInv, RenewedInTime, PlacesInv, [Next]_vars,
           NEW c \in Main, live' = c, live # c
    PROVE  row' = row /\ order' = order /\ HoldsTheDeploy(c) /\ c \in ToSet(order)
<1>1. PICK b \in Builders : /\ Sends(b) /\ HasToken(b) /\ run[b].commit = c
                            /\ row' = row /\ order' = order
  BY LiveMoves
<1>2. c \in Commits /\ HoldsTheDeploy(c)
  BY <1>1, SenderHoldsTheDeploy DEF RenewedInTime
<1>3. QED
  BY <1>1, <1>2, OrderIs DEF HoldsTheDeploy

\* What goes live when it or a later one should be live is not older.
LEMMA GoesForward ==
    ASSUME TypeOK, JobsInv, DeploysInv, RenewedInTime, PlacesInv, [Next]_vars,
           NEW c \in Main, c \in ToSet(order), \A d \in Main : CameAfter(c, d) => ~HoldsTheDeploy(d),
           NEW m \in Main, live' = m, live # m
    PROVE  m = c \/ CameAfter(m, c)
  BY LiveHolds, CameAfterIsOrder

LEMMA SweptWentStep ==
    ASSUME TypeOK, JobsInv, DeploysInv, RenewedInTime, LiveInv, [Next]_vars
    PROVE  SweptWent'
<1> SUFFICES ASSUME NEW c \in swept' \cap Main, Went(c)'
             PROVE  LiveOrLater(c)' /\ \A d \in Main : CameAfter(c, d)' => ~HoldsTheDeploy(d)'
  BY DEF SweptWent
<1>1. c \in Commits /\ Main \subseteq Commits /\ 0 \notin Commits
  BY Constants
<1>2. PlacesInv /\ Unstarted /\ SweptIsOver /\ SweptWent
  BY DEF LiveInv
<1>3. PICK m \in Main \cup {0} : m = live'
  BY RestStep
<1>4. ASSUME live' = c, live # c
      PROVE  LiveOrLater(c)' /\ \A d \in Main : CameAfter(c, d)' => ~HoldsTheDeploy(d)'
  <2>1. row' = row /\ order' = order /\ HoldsTheDeploy(c)
    BY <1>2, <1>4, LiveHolds
  <2>2. ASSUME NEW d \in Main, CameAfter(c, d)' PROVE ~HoldsTheDeploy(d)'
    <3>1. d # c /\ d \in Commits
      BY <1>1, <2>1, <2>2, CameAfterIsOrder DEF CameAfter
    <3>2. ~HoldsTheDeploy(d)
      BY <1>1, <2>1, <3>1 DEF DeploysInv, OneHolds
    <3>3. QED
      BY <2>1, <3>2 DEF HoldsTheDeploy
  <2>3. QED
    BY <1>4, <2>2 DEF LiveOrLater
<1>5. CASE c \in swept
  <2>1. c \in ToSet(order)
    BY <1>2, <1>5 DEF PlacesInv, SweptHaveRows
  <2>2. CASE Went(c)
    <3>1. LiveOrLater(c) /\ \A d \in Main : CameAfter(c, d) => ~HoldsTheDeploy(d)
      BY <1>2, <1>5, <2>2 DEF SweptWent
    <3>2. m = c \/ CameAfter(m, c)
      <4>1. CASE live = m
        BY <3>1, <4>1 DEF LiveOrLater
      <4>2. CASE live # m
        <5>1. m \in Main
          BY <1>3, <4>2, LiveMoves
        <5>2. QED
          BY <1>2, <1>3, <2>1, <3>1, <4>2, <5>1, GoesForward
      <4>3. QED
        BY <4>1, <4>2
    <3>3. LiveOrLater(c)'
      <4>1. m = c \/ CameAfter(m, c)'
        BY <3>2, CameAfterStep
      <4>2. QED
        BY <1>3, <4>1 DEF LiveOrLater
    <3>4. ASSUME NEW d \in Main, CameAfter(c, d)' PROVE ~HoldsTheDeploy(d)'
      <4>1. CameAfter(c, d)
        BY <2>1, <3>4, CameAfterStep
      <4>2. QED
        BY <1>2, <1>5, <3>1, <4>1, FinishedStays DEF SweptIsOver
    <3>5. QED
      BY <3>3, <3>4
  <2>3. CASE ~Went(c)
    <3>1. live' = c /\ live # c
      <4>1. live # c /\ row[c].state # "succeeded"
            /\ \A b \in Builders : ~(Sent(b) /\ run[b].commit = c)
        BY <2>3 DEF Went
      <4>2. row'[c].state # "succeeded"
        <5>1. ASSUME NEW b \in Builders, Reports(b, "succeeded"), run[b].commit = c PROVE FALSE
          BY <4>1, <5>1 DEF Reports, Sent
        <5>2. QED
          BY <1>1, <4>1, <5>1, RowBecomes
      <4>3. ASSUME NEW b \in Builders, Sent(b)', run'[b].commit = c PROVE live' = c
        BY <4>1, <4>3, SentMoves
      <4>4. QED
        BY <4>1, <4>2, <4>3 DEF Went
    <3>2. QED
      BY <1>4, <3>1
  <2>4. QED
    BY <2>2, <2>3
<1>6. CASE c \notin swept
  <2>1. PICK b \in Builders : /\ claim[b].pc = "supersede" /\ claim[b].commit = c /\ row[c].by = b
                              /\ row' = Supersedes(c) /\ live' = live /\ run' = run
    BY <1>6, SweptMoves
  <2>2. Untouched(b, c)
    BY <1>1, <1>2, <2>1 DEF Unstarted
  <2>3. live' # c /\ row'[c].state # "succeeded"
    <3>1. row'[c].state # "succeeded"
      BY <1>1, <2>1, <2>2, SupersedesIs DEF Untouched
    <3>2. QED
      BY <2>1, <2>2, <3>1 DEF Untouched
  <2>4. ASSUME NEW a \in Builders, Sent(a)', run'[a].commit = c PROVE FALSE
    <3>1. run[a].pc # "idle" /\ run[a].commit = c
      BY <2>1, <2>4 DEF Sent
    <3>2. QED
      BY <1>2, <2>2, <3>1 DEF Untouched, PlacesInv, RunsHaveJobs
  <2>5. QED
    BY <2>3, <2>4 DEF Went
<1>7. QED
  BY <1>5, <1>6

LEMMA LiveInit == Init => LiveInv
<1> SUFFICES ASSUME Init PROVE LiveInv
  OBVIOUS
<1>1. order = <<>> /\ live = 0 /\ swept = {}
  BY DEF Init
<1>2. \A b \in Builders : claim[b] = NoClaim /\ line[b] = <<>> /\ run[b] = Idle
  BY DEF Init
<1>3. NoClaim.pc = "none" /\ Idle.pc = "idle"
  BY DEF NoClaim, Idle
<1>4. PlacesInv
  <2>1. ClaimsHaveRows /\ RunsHaveJobs
    BY <1>2, <1>3 DEF ClaimsHaveRows, RunsHaveJobs, Supersedable
  <2>2. LinesHaveRows
    BY <1>2 DEF LinesHaveRows, ToSet
  <2>3. LiveHasRow /\ SweptHaveRows
    BY <1>1 DEF LiveHasRow, SweptHaveRows
  <2>4. QED
    BY <2>1, <2>2, <2>3 DEF PlacesInv
<1>5. Unstarted /\ SweptIsOver /\ SweptWent
  BY <1>1, <1>2, <1>3 DEF Unstarted, SweptIsOver, SweptWent
<1>6. QED
  BY <1>4, <1>5 DEF LiveInv

LEMMA LiveStep ==
    ASSUME AllInv, LiveInv, RenewedInTime, [Next]_vars
    PROVE  AllInv' /\ LiveInv'
<1>1. TypeOK /\ JobsInv /\ DeploysInv /\ PlacesInv /\ Unstarted /\ SweptIsOver
  BY DEF AllInv, LiveInv
<1>2. PlacesInv' /\ Unstarted' /\ SweptIsOver'
  BY <1>1, PlacesStep, UnstartedStep, SweptIsOverStep
<1>3. SweptWent'
  BY <1>1, SweptWentStep
<1>4. QED
  BY <1>2, <1>3, AllStep DEF LiveInv

-----------------------------------------------------------------------------
(* The theorems.                                                              *)

LEMMA LiveInvariant == Spec /\ []RenewedInTime => [](AllInv /\ LiveInv)
<1>1. Init => AllInv /\ LiveInv
  BY InitTypes, LiveInit DEF AllInv
<1>2. AllInv /\ LiveInv /\ RenewedInTime /\ [Next]_vars => (AllInv /\ LiveInv)'
  BY LiveStep
<1>3. QED
  BY <1>1, <1>2, PTL DEF Spec

(* A commit of main whose claim superseded the rest and whose deployment is   *)
(* said to have succeeded is what the project's Worker serves, or a commit    *)
(* claimed after it is: a report of success (runtime-deployments.ts) never    *)
(* stands for a deploy that an older one undid or that never went out, for    *)
(* any number of commits, builders, retries, takeovers, lost claims and       *)
(* restarts, while whoever can send renewed its lease within its length.      *)
THEOREM PublishedLive == Spec /\ []RenewedInTime => []PublishedIsLive
<1>1. AllInv /\ LiveInv => PublishedIsLive
  <2> SUFFICES ASSUME LiveInv, NEW c \in Main \cap swept, row[c].state = "succeeded"
               PROVE  live = c \/ CameAfter(live, c)
    BY DEF PublishedIsLive
  <2>1. QED
    BY DEF LiveInv, SweptWent, Went, LiveOrLater
<1>2. QED
  BY <1>1, LiveInvariant, PTL

(* A deploy's requests never put a commit over one that was claimed after it  *)
(* and superseded the rest, while whoever can send renewed its lease within   *)
(* its length: who sends then holds the project's deploy, and whatever is     *)
(* older than what superseded the rest is finished for good and holds         *)
(* nothing once the newer one held it.                                        *)
THEOREM LiveForward == Spec /\ []RenewedInTime => LiveNeverGoesBack
<1>1. ASSUME AllInv, LiveInv, RenewedInTime, [Next]_vars
      PROVE  [live' # live => live = 0 \/ live \notin swept \/ CameAfter(live', live)]_vars
  <2>1. TypeOK /\ JobsInv /\ DeploysInv /\ PlacesInv /\ SweptWent
    BY <1>1 DEF AllInv, LiveInv
  <2>2. ASSUME live' # live, live # 0, live \in swept PROVE CameAfter(live', live)
    <3>1. PICK c \in Main : c = live
      BY <2>1, <2>2, Types
    <3>2. PICK m \in Main : live' = m
      BY <1>1, <2>1, <2>2, LiveMoves
    <3>3. c \in ToSet(order) /\ \A d \in Main : CameAfter(c, d) => ~HoldsTheDeploy(d)
      BY <2>1, <2>2, <3>1 DEF PlacesInv, LiveHasRow, SweptWent, Went
    <3>4. m = c \/ CameAfter(m, c)
      BY <1>1, <2>1, <2>2, <3>1, <3>2, <3>3, GoesForward
    <3>5. QED
      BY <2>2, <3>1, <3>2, <3>4
  <2>3. QED
    BY <2>2
<1>2. QED
  BY <1>1, LiveInvariant, PTL DEF Spec, LiveNeverGoesBack
=============================================================================
