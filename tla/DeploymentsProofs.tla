-------------------------- MODULE DeploymentsProofs --------------------------
(* Proofs about Deployments for any number of commits and builders and any    *)
(* lengths of leases, heartbeats and tokens: types, and that one deploy of    *)
(* the project runs at a time.                                                *)
EXTENDS Deployments, SequenceTheorems, TLAPS

-----------------------------------------------------------------------------
(* The inductive invariant.                                                   *)

ClaimsNameCommits ==
    \A b \in Builders : claim[b].pc # "none" => claim[b].commit \in Commits

RunsNameCommits ==
    \A b \in Builders : run[b].pc # "idle" => run[b].commit \in Commits

\* A job runs outside the call that works at it once its builder restarted.
Attends(b, c) == run[b].pc # "idle" /\ run[b].commit = c

RestartsAreFaults ==
    \A b \in Builders, c \in Commits :
        job[b][c].running /\ ~Attends(b, c) => job[b][c].restarts < faults

\* A job that is about to wait once more may.
YieldsAreLeft ==
    \A b \in Builders : run[b].pc = "yield" => job[b][run[b].commit].waits < MaxBusyWaits

JobsInv == ClaimsNameCommits /\ RunsNameCommits /\ RestartsAreFaults /\ YieldsAreLeft

HoldsTheDeploy(c) == row[c].state \in {"deploying", "superseded"} /\ row[c].lease > 0

\* The project's deploy is held by one commit, a superseded one until it stops.
OneHolds == \A c, d \in Commits : HoldsTheDeploy(c) /\ HoldsTheDeploy(d) => c = d

AgesAtWork == \A b \in Builders : run[b].pc # "work" => run[b].age = 0

\* A sender's row is its own under a lease that only time has worn, until it runs out.
SendersHold ==
    \A b \in Builders : Sends(b) /\ run[b].age < LeaseUnits =>
        LET r == row[run[b].commit] IN
        /\ r.state \in {"deploying", "superseded"} /\ r.by = b
        /\ r.lease + run[b].age >= LeaseUnits

DeploysInv == OneHolds /\ AgesAtWork /\ SendersHold

-----------------------------------------------------------------------------
(* Sequences without repetition.                                              *)

LEMMA RemoveAtIs ==
    ASSUME NEW S, NEW s \in Seq(S), NEW i \in 1..Len(s)
    PROVE  /\ RemoveAt(s, i) \in Seq(S) /\ Len(RemoveAt(s, i)) = Len(s) - 1
           /\ \A j \in 1..(Len(s) - 1) : RemoveAt(s, i)[j] = IF j < i THEN s[j] ELSE s[j + 1]
<1> DEFINE front == SubSeq(s, 1, i - 1)
           back == SubSeq(s, i + 1, Len(s))
<1>1. \A j \in 1..Len(s) : s[j] \in S
  OBVIOUS
<1>2. /\ front \in Seq(S) /\ Len(front) = i - 1
      /\ \A j \in 1..(i - 1) : front[j] = s[j]
  BY <1>1, SubSeqProperties
<1>3. /\ back \in Seq(S) /\ Len(back) = Len(s) - i
      /\ \A j \in 1..(Len(s) - i) : back[j] = s[i + j]
  BY <1>1, SubSeqProperties
<1> HIDE DEF front, back
<1>4. /\ front \o back \in Seq(S) /\ Len(front \o back) = Len(s) - 1
      /\ \A j \in 1..(Len(s) - 1) : (front \o back)[j] = IF j <= i - 1 THEN front[j] ELSE back[j - (i - 1)]
  BY <1>2, <1>3, ConcatProperties
<1>5. RemoveAt(s, i) = front \o back
  BY DEF RemoveAt, front, back
<1>6. ASSUME NEW j \in 1..(Len(s) - 1) PROVE (front \o back)[j] = IF j < i THEN s[j] ELSE s[j + 1]
  <2>1. CASE j < i
    BY <2>1, <1>2, <1>4
  <2>2. CASE ~(j < i)
    <3>1. j - (i - 1) \in 1..(Len(s) - i) /\ i + (j - (i - 1)) = j + 1
      BY <2>2
    <3>2. QED
      BY <2>2, <3>1, <1>3, <1>4
  <2>3. QED
    BY <2>1, <2>2
<1>7. QED
  BY <1>4, <1>5, <1>6

LEMMA RemoveFirstIs ==
    ASSUME NEW S, NEW s \in Seq(S), IsInjective(s), NEW e
    PROVE  /\ RemoveFirst(s, e) \in Seq(S) /\ IsInjective(RemoveFirst(s, e))
           /\ \A j \in 1..Len(RemoveFirst(s, e)) : RemoveFirst(s, e)[j] # e
           /\ ToSet(RemoveFirst(s, e)) = ToSet(s) \ {e}
<1>1. CASE ~ \E i \in 1..Len(s) : s[i] = e
  BY <1>1 DEF RemoveFirst, ToSet
<1>2. CASE \E i \in 1..Len(s) : s[i] = e
  <2>1. PICK i \in 1..Len(s) : s[i] = e
    BY <1>2
  <2>2. {j \in 1..Len(s) : s[j] = e} = {i}
    BY <2>1 DEF IsInjective
  <2>3. Min({i}) = i
    BY DEF Min
  <2>4. SelectInSeq(s, LAMBDA v : v = e) = i
    BY <2>2, <2>3 DEF SelectInSeq
  <2>5. RemoveFirst(s, e) = RemoveAt(s, i)
    BY <1>2, <2>4 DEF RemoveFirst
  <2>6. \A j, k \in 1..Len(s) : s[j] = s[k] => j = k
    BY DEF IsInjective
  <2>7. RemoveAt(s, i) \in Seq(S) /\ Len(RemoveAt(s, i)) = Len(s) - 1
    BY RemoveAtIs
  <2>8. DOMAIN RemoveAt(s, i) = 1..(Len(s) - 1)
    BY <2>7
  <2>9. ASSUME NEW j \in 1..(Len(s) - 1)
        PROVE  \E k \in 1..Len(s) \ {i} :
                  RemoveAt(s, i)[j] = s[k] /\ k = IF j < i THEN j ELSE j + 1
    BY RemoveAtIs
  <2>10. \A j, k \in 1..(Len(s) - 1) : RemoveAt(s, i)[j] = RemoveAt(s, i)[k] => j = k
    BY <2>6, <2>9
  <2>11. \A j \in 1..(Len(s) - 1) : RemoveAt(s, i)[j] # e
    BY <2>1, <2>6, <2>9
  <2>12. ASSUME NEW k \in 1..Len(s) \ {i} PROVE \E j \in 1..(Len(s) - 1) : RemoveAt(s, i)[j] = s[k]
    <3>1. CASE k < i
      <4>1. k \in 1..(Len(s) - 1)
        BY <3>1
      <4>2. QED
        BY <3>1, <4>1, RemoveAtIs
    <3>2. CASE k > i
      <4>1. k - 1 \in 1..(Len(s) - 1) /\ ~(k - 1 < i) /\ (k - 1) + 1 = k
        BY <3>2
      <4>2. RemoveAt(s, i)[k - 1] = s[k]
        BY <4>1, RemoveAtIs
      <4>3. QED
        BY <4>1, <4>2
    <3>3. QED
      BY <3>1, <3>2
  <2>13. ToSet(RemoveAt(s, i)) = {RemoveAt(s, i)[j] : j \in 1..(Len(s) - 1)}
    BY <2>8 DEF ToSet
  <2>14. ToSet(s) = {s[k] : k \in 1..Len(s)}
    BY DEF ToSet
  <2>15. ToSet(RemoveAt(s, i)) = ToSet(s) \ {e}
    <3>1. ASSUME NEW x \in ToSet(RemoveAt(s, i)) PROVE x \in ToSet(s) \ {e}
      BY <2>9, <2>11, <2>13, <2>14, <3>1
    <3>2. ASSUME NEW x \in ToSet(s) \ {e} PROVE x \in ToSet(RemoveAt(s, i))
      BY <2>1, <2>12, <2>13, <2>14, <3>2
    <3>3. QED
      BY <3>1, <3>2
  <2>16. QED
    BY <2>5, <2>7, <2>8, <2>10, <2>11, <2>15 DEF IsInjective
<1>3. QED
  BY <1>1, <1>2

LEMMA AppendIs ==
    ASSUME NEW S, NEW s \in Seq(S), IsInjective(s), NEW e \in S, \A j \in 1..Len(s) : s[j] # e
    PROVE  /\ Append(s, e) \in Seq(S) /\ IsInjective(Append(s, e)) /\ Len(Append(s, e)) = Len(s) + 1
           /\ ToSet(Append(s, e)) = ToSet(s) \cup {e}
<1>1. /\ Append(s, e) \in Seq(S) /\ Len(Append(s, e)) = Len(s) + 1
      /\ \A i \in 1..Len(s) : Append(s, e)[i] = s[i]
      /\ Append(s, e)[Len(s) + 1] = e
  BY AppendProperties
<1>2. DOMAIN Append(s, e) = 1..(Len(s) + 1) /\ DOMAIN s = 1..Len(s)
  BY <1>1
<1>3. \A i, j \in 1..Len(s) : s[i] = s[j] => i = j
  BY DEF IsInjective
<1>4. \A i \in 1..(Len(s) + 1) : i \in 1..Len(s) \/ i = Len(s) + 1
  OBVIOUS
<1>5. IsInjective(Append(s, e))
  BY <1>1, <1>2, <1>3, <1>4 DEF IsInjective
<1>6. ToSet(Append(s, e)) = ToSet(s) \cup {e}
  BY <1>1, <1>2, <1>4 DEF ToSet
<1>7. QED
  BY <1>1, <1>5, <1>6

-----------------------------------------------------------------------------
(* Types.                                                                     *)

RowType == [state : States, by : Builders \cup {None}, lease : 0..LeaseUnits]
ClaimPhases == {"none", "check", "insert", "supersede", "again", "add"}
ClaimType == [pc : ClaimPhases, commit : Commits \cup {0}, since : Nat]
JobType == [step : Steps, running : BOOLEAN, restarts : Nat, waits : 0..MaxBusyWaits]
RunPhases == {"idle", "report", "yield", "work", "end", "done"}
RunType == [pc : RunPhases, commit : Commits \cup {0}, step : Steps, ends : Endings,
            beat : 0..HeartbeatUnits, age : 0..LeaseUnits,
            token : 0..TokenUnits, sent : BOOLEAN]

LEMMA Constants ==
    /\ NumCommits \in Nat /\ Main \subseteq Commits /\ 0 \notin Commits
    /\ LeaseUnits \in Nat \ {0} /\ HeartbeatUnits \in Nat \ {0} /\ TokenUnits \in Nat \ {0}
    /\ MaxRestarts \in Nat /\ MaxBusyWaits \in Nat /\ MaxAsks \in Nat /\ MaxFaults \in Nat
    /\ None \notin Builders
  BY DeploymentConstants DEF Commits

LEMMA Types ==
    ASSUME TypeOK
    PROVE  /\ pushed \in 0..NumCommits /\ asks \in 0..MaxAsks /\ faults \in 0..MaxFaults
           /\ row \in [Commits -> RowType] /\ \A c \in Commits : row[c] \in RowType
           /\ order \in Seq(Commits) /\ IsInjective(order)
           /\ \A c \in Commits : (row[c].state = "none") = (c \notin ToSet(order))
           /\ live \in Main \cup {0} /\ swept \subseteq Commits
           /\ claim \in [Builders -> ClaimType]
           /\ \A b \in Builders : claim[b] \in ClaimType /\ claim[b].since \in 0..Len(order)
           /\ line \in [Builders -> Seq(Commits)]
           /\ \A b \in Builders : line[b] \in Seq(Commits) /\ IsInjective(line[b])
           /\ job \in [Builders -> [Commits -> JobType]]
           /\ \A b \in Builders, c \in Commits : /\ job[b] \in [Commits -> JobType]
                                                 /\ job[b][c] \in JobType
                                                 /\ job[b][c].restarts <= faults
           /\ run \in [Builders -> RunType] /\ \A b \in Builders : run[b] \in RunType
<1>1. Len(order) \in Nat
  BY DEF TypeOK
<1>2. \A b \in Builders : claim[b] \in ClaimType /\ claim[b].since \in 0..Len(order)
  BY <1>1 DEF TypeOK, ClaimType, ClaimPhases
<1>3. claim \in [Builders -> ClaimType]
  BY <1>2 DEF TypeOK
<1>4. faults \in Nat
  BY Constants DEF TypeOK
<1>5. \A b \in Builders, c \in Commits : job[b][c] \in JobType /\ job[b][c].restarts <= faults
  BY <1>4 DEF TypeOK, JobType
<1>6. \A b \in Builders : job[b] \in [Commits -> JobType]
  BY <1>5 DEF TypeOK
<1>7. job \in [Builders -> [Commits -> JobType]]
  BY <1>6 DEF TypeOK
<1>8. QED
  BY <1>2, <1>3, <1>5, <1>6, <1>7 DEF TypeOK, RowType, RunType, RunPhases

\* The other way, to establish TypeOK from its parts.
LEMMA TypeOKFromParts ==
    ASSUME pushed' \in 0..NumCommits, asks' \in 0..MaxAsks, faults' \in 0..MaxFaults,
           row' \in [Commits -> RowType],
           order' \in Seq(Commits), IsInjective(order'),
           \A c \in Commits : (row'[c].state = "none") = (c \notin ToSet(order')),
           live' \in Main \cup {0}, swept' \subseteq Commits,
           claim' \in [Builders -> ClaimType],
           \A b \in Builders : claim'[b].since <= Len(order'),
           line' \in [Builders -> Seq(Commits)], \A b \in Builders : IsInjective(line'[b]),
           job' \in [Builders -> [Commits -> JobType]],
           \A b \in Builders, c \in Commits : job'[b][c].restarts <= faults',
           run' \in [Builders -> RunType]
    PROVE  TypeOK'
<1> DEFINE CT == [pc : {"none", "check", "insert", "supersede", "again", "add"},
                  commit : Commits \cup {0}, since : 0..Len(order')]
           JT == [step : Steps, running : BOOLEAN, restarts : 0..faults', waits : 0..MaxBusyWaits]
<1>1. Len(order') \in Nat
  OBVIOUS
<1>2. \A b \in Builders : claim'[b] \in CT
  BY <1>1 DEF ClaimType, ClaimPhases
<1>3. claim' \in [Builders -> CT]
  BY <1>2
<1>4. faults' \in Nat
  BY Constants
<1>5. \A b \in Builders, c \in Commits : job'[b][c] \in JT
  BY <1>4 DEF JobType
<1>6. \A b \in Builders : job'[b] \in [Commits -> JT]
  BY <1>5
<1>7. job' \in [Builders -> [Commits -> JT]]
  BY <1>6
<1>8. QED
  BY <1>3, <1>7 DEF TypeOK, RowType, RunType, RunPhases

-----------------------------------------------------------------------------
(* What the statements do to the rows.                                        *)

Reportable == {"building", "deploying"} \cup Endings

LEMMA QueuedIs ==
    ASSUME TypeOK, NEW b \in Builders, NEW c \in Commits
    PROVE  /\ Queued(b, c) \in [Commits -> RowType]
           /\ Queued(b, c)[c].state = "queued" /\ Queued(b, c)[c].lease = 0
           /\ \A d \in Commits \ {c} : Queued(b, c)[d] = row[d]
<1>1. [state |-> "queued", by |-> b, lease |-> 0] \in RowType
  BY Constants DEF RowType, States
<1>2. Queued(b, c)[c] = [state |-> "queued", by |-> b, lease |-> 0]
  BY Types DEF Queued
<1>3. QED
  BY <1>1, <1>2, Types DEF Queued

LEMMA SupersedesIs ==
    ASSUME TypeOK, NEW c \in Commits
    PROVE  /\ Supersedes(c) \in [Commits -> RowType]
           /\ \A d \in Commits :
                 \/ Supersedes(c)[d] = row[d]
                 \/ /\ row[d].state \in Unfinished /\ Supersedes(c)[d].state = "superseded"
                    /\ Supersedes(c)[d].by = row[d].by
                    /\ Supersedes(c)[d].lease =
                          IF row[d].state = "deploying" THEN row[d].lease ELSE 0
<1>1. ASSUME NEW d \in Commits
      PROVE  /\ Supersedes(c)[d] \in RowType
             /\ \/ Supersedes(c)[d] = row[d]
                \/ /\ row[d].state \in Unfinished /\ Supersedes(c)[d].state = "superseded"
                   /\ Supersedes(c)[d].by = row[d].by
                   /\ Supersedes(c)[d].lease =
                         IF row[d].state = "deploying" THEN row[d].lease ELSE 0
  <2>1. row[d] \in RowType
    BY Types
  <2>2. CASE d # c /\ SameBranch(c, d) /\ row[d].state \in Unfinished
    <3> DEFINE left == IF row[d].state = "deploying" THEN row[d].lease ELSE 0
    <3>1. Supersedes(c)[d] = [row[d] EXCEPT !.state = "superseded", !.lease = left]
      BY <2>2 DEF Supersedes
    <3>2. left \in 0..LeaseUnits
      BY <2>1, Constants DEF RowType
    <3>3. QED
      BY <2>1, <2>2, <3>1, <3>2 DEF RowType, States
  <2>3. CASE ~(d # c /\ SameBranch(c, d) /\ row[d].state \in Unfinished)
    BY <2>1, <2>3 DEF Supersedes
  <2>4. QED
    BY <2>2, <2>3
<1>2. Supersedes(c) \in [Commits -> RowType]
  BY <1>1 DEF Supersedes
<1>3. QED
  BY <1>1, <1>2

LEMMA ReportedIs ==
    ASSUME TypeOK, NEW b \in Builders, NEW c \in Commits, NEW state \in Reportable
    PROVE  /\ Reported(b, c, state) \in [Commits -> RowType]
           /\ \A d \in Commits \ {c} : Reported(b, c, state)[d] = row[d]
           /\ LET r == Reported(b, c, state)[c] IN
              \/ /\ Outcome(b, c, state) = "recorded"
                 /\ r.state = state /\ r.by = row[c].by
                 /\ r.lease = IF state \in Unfinished THEN LeaseUnits ELSE 0
              \/ /\ Outcome(b, c, state) = "superseded" /\ state \notin Unfinished
                 /\ row[c].by = b /\ r.state = row[c].state /\ r.lease = 0
              \/ Outcome(b, c, state) # "recorded" /\ r = row[c]
<1>1. row \in [Commits -> RowType] /\ row[c] \in RowType
  BY Types
<1>2. CASE Outcome(b, c, state) = "recorded"
  <2> DEFINE lease == IF state \in Unfinished THEN LeaseUnits ELSE 0
             r == [row[c] EXCEPT !.state = state, !.lease = lease]
  <2>1. Reported(b, c, state) = [row EXCEPT ![c] = r]
    BY <1>1, <1>2 DEF Reported, RowType
  <2>2. lease \in 0..LeaseUnits
    BY Constants
  <2>3. state \in States
    BY DEF States, Reportable, Endings
  <2>4. lease = IF state \in Unfinished THEN LeaseUnits ELSE 0
    OBVIOUS
  <2> HIDE DEF lease
  <2>5. r \in RowType /\ r.state = state /\ r.by = row[c].by /\ r.lease = lease
    BY <1>1, <2>2, <2>3 DEF RowType
  <2> HIDE DEF r
  <2>6. QED
    BY <1>1, <1>2, <2>1, <2>4, <2>5
<1>3. CASE Outcome(b, c, state) = "superseded" /\ state \notin Unfinished /\ row[c].by = b
  <2> DEFINE r == [row[c] EXCEPT !.lease = 0]
  <2>1. Reported(b, c, state) = [row EXCEPT ![c] = r]
    BY <1>1, <1>3 DEF Reported, RowType
  <2>2. r \in RowType /\ r.state = row[c].state /\ r.lease = 0
    BY <1>1, Constants DEF RowType
  <2> HIDE DEF r
  <2>3. QED
    BY <1>1, <1>3, <2>1, <2>2
<1>4. CASE ~(Outcome(b, c, state) = "recorded")
           /\ ~(Outcome(b, c, state) = "superseded" /\ state \notin Unfinished /\ row[c].by = b)
  BY <1>1, <1>4 DEF Reported
<1>5. QED
  BY <1>2, <1>3, <1>4

-----------------------------------------------------------------------------
(* What a builder's step does to its run.                                     *)

\* The run r follows run[b]: it names the same commit while there is one, works at
\* the step it reported, and has an age only at work.
Follows(b, r) ==
    /\ r \in RunType
    /\ r.pc # "idle" => r.commit \in Commits
    /\ r.pc # "idle" /\ run[b].pc # "idle" => r.commit = run[b].commit
    /\ r.pc = "work" => run[b].pc \in {"report", "work"} /\ r.step = run[b].step
    /\ r.pc # "work" /\ (run[b].pc # "work" => run[b].age = 0) => r.age = 0
    /\ r.pc = "yield" => run[b].pc \in {"report", "yield"}

LEMMA IdleIs == Idle \in RunType /\ Idle.pc = "idle" /\ Idle.age = 0
  BY Constants DEF Idle, RunType, RunPhases, Steps, Endings

LEMMA IdleFollows ==
    ASSUME NEW b \in Builders
    PROVE  Follows(b, Idle) /\ Idle.pc = "idle"
  BY IdleIs DEF Follows

LEMMA EndsFollows ==
    ASSUME TypeOK, RunsNameCommits, NEW b \in Builders, run[b].pc # "idle", NEW e \in Endings
    PROVE  LET r == [Idle EXCEPT !.pc = "end", !.commit = run[b].commit, !.ends = e]
               d == [Idle EXCEPT !.pc = "done", !.commit = run[b].commit]
           IN  /\ Follows(b, r) /\ r.pc = "end" /\ Ends(b, e) = [run EXCEPT ![b] = r]
               /\ Follows(b, d) /\ d.pc = "done" /\ Over(b) = [run EXCEPT ![b] = d]
<1> DEFINE r == [Idle EXCEPT !.pc = "end", !.commit = run[b].commit, !.ends = e]
           d == [Idle EXCEPT !.pc = "done", !.commit = run[b].commit]
<1>1. run[b].commit \in Commits
  BY DEF RunsNameCommits
<1>2. r \in RunType /\ r.pc = "end" /\ r.commit = run[b].commit /\ r.age = 0
  BY <1>1, IdleIs DEF RunType, RunPhases
<1>3. d \in RunType /\ d.pc = "done" /\ d.commit = run[b].commit /\ d.age = 0
  BY <1>1, IdleIs DEF RunType, RunPhases
<1>4. Ends(b, e) = [run EXCEPT ![b] = r] /\ Over(b) = [run EXCEPT ![b] = d]
  BY DEF Ends, Over
<1> HIDE DEF r, d
<1>5. Follows(b, r) /\ Follows(b, d)
  BY <1>1, <1>2, <1>3 DEF Follows
<1>6. QED
  BY <1>2, <1>3, <1>4, <1>5 DEF r, d

LEMMA StartFollows ==
    ASSUME NEW b \in Builders, run[b].pc = "idle", NEW r,
           \E c \in Commits, step \in Steps, pc \in {"end", "report"} :
               r = [Idle EXCEPT !.commit = c, !.step = step, !.pc = pc]
    PROVE  Follows(b, r) /\ r.pc \in {"end", "report"}
<1>1. r \in RunType /\ r.pc \in {"end", "report"} /\ r.commit \in Commits /\ r.age = 0
  BY IdleIs DEF RunType, RunPhases
<1>2. QED
  BY <1>1 DEF Follows

LEMMA GoesFollows ==
    ASSUME TypeOK, RunsNameCommits, NEW b \in Builders, run[b].pc = "report",
           NEW pc \in {"work", "yield"}
    PROVE  LET r == [run[b] EXCEPT !.pc = pc]
           IN  /\ Follows(b, r) /\ r.pc = pc /\ Goes(b, pc) = [run EXCEPT ![b] = r]
               /\ r.commit = run[b].commit /\ r.step = run[b].step /\ r.age = run[b].age
<1>1. run[b].commit \in Commits /\ run \in [Builders -> RunType] /\ run[b] \in RunType
  BY Types DEF RunsNameCommits
<1>2. QED
  BY <1>1, Constants DEF Follows, RunType, RunPhases, Goes

LEMMA SendFollows ==
    ASSUME TypeOK, RunsNameCommits, NEW b \in Builders, run[b].pc = "work",
           NEW sent \in BOOLEAN, NEW token \in 0..TokenUnits
    PROVE  LET r == [run[b] EXCEPT !.sent = sent, !.token = token]
           IN  /\ Follows(b, r) /\ r.pc = "work" /\ r.commit = run[b].commit
               /\ r.step = run[b].step /\ r.age = run[b].age
<1> DEFINE r == [run[b] EXCEPT !.sent = sent, !.token = token]
<1>1. run[b].commit \in Commits /\ run[b] \in RunType
  BY Types DEF RunsNameCommits
<1>2. /\ r \in RunType /\ r.pc = "work" /\ r.commit = run[b].commit
      /\ r.step = run[b].step /\ r.age = run[b].age
  BY <1>1 DEF RunType
<1> HIDE DEF r
<1>3. Follows(b, r)
  BY <1>1, <1>2 DEF Follows
<1>4. QED
  BY <1>2, <1>3 DEF r

LEMMA BeatFollows ==
    ASSUME TypeOK, RunsNameCommits, NEW b \in Builders, run[b].pc = "work",
           NEW age \in 0..LeaseUnits
    PROVE  LET r == [run[b] EXCEPT !.beat = 0, !.age = age]
           IN  /\ Follows(b, r) /\ r.pc = "work" /\ r.commit = run[b].commit
               /\ r.step = run[b].step /\ r.age = age
<1> DEFINE r == [run[b] EXCEPT !.beat = 0, !.age = age]
<1>1. run[b].commit \in Commits /\ run[b] \in RunType
  BY Types DEF RunsNameCommits
<1>2. 0 \in 0..HeartbeatUnits
  BY Constants
<1>3. /\ r \in RunType /\ r.pc = "work" /\ r.commit = run[b].commit
      /\ r.step = run[b].step /\ r.age = age
  BY <1>1, <1>2 DEF RunType
<1> HIDE DEF r
<1>4. Follows(b, r)
  BY <1>1, <1>3 DEF Follows
<1>5. QED
  BY <1>3, <1>4 DEF r

\* A run that ends, idles or starts: whatever else the step does.
Stops(b) == \E r : Follows(b, r) /\ r.pc \notin {"work", "yield"} /\ run' = [run EXCEPT ![b] = r]

LEMMA RunMoves ==
    ASSUME TypeOK, RunsNameCommits, NEW b \in Builders, BuilderStep(b)
    PROVE  \/ Stops(b)
           \/ Report(b) /\ \E r : /\ Follows(b, r) /\ r.pc \in {"work", "yield"}
                                  /\ run' = [run EXCEPT ![b] = r]
                                  /\ r.commit = run[b].commit /\ r.age = run[b].age
                                  /\ r.step = run[b].step
                                  /\ r.pc = "work" => Outcome(b, run[b].commit, StateOf(run[b].step)) = "recorded"
                                  /\ UNCHANGED job
                                  /\ r.pc = "yield" => job[b][run[b].commit].waits < MaxBusyWaits
           \/ Request(b) /\ \E r : /\ Follows(b, r) /\ r.pc = "work"
                                   /\ run' = [run EXCEPT ![b] = r]
                                   /\ r.commit = run[b].commit /\ r.age = run[b].age
                                   /\ r.step = run[b].step
           \/ Heartbeat(b) /\ \E r : /\ Follows(b, r) /\ r.pc = "work"
                                     /\ run' = [run EXCEPT ![b] = r]
                                     /\ r.commit = run[b].commit /\ r.step = run[b].step
                                     /\ \/ r.age = run[b].age
                                        \/ /\ r.age = 0
                                           /\ row' = Reported(b, run[b].commit, StateOf(run[b].step))
                                           /\ Outcome(b, run[b].commit, StateOf(run[b].step)) = "recorded"
<1>1. /\ run \in [Builders -> RunType] /\ run[b] \in RunType
      /\ \A c \in Commits : job[b][c] \in JobType
  BY Types
<1>2. ASSUME run' = [run EXCEPT ![b] = Idle] PROVE Stops(b)
  BY <1>2, IdleFollows DEF Stops
<1>3. ASSUME NEW e \in Endings, run[b].pc # "idle", run' = Ends(b, e) PROVE Stops(b)
  <2> DEFINE r == [Idle EXCEPT !.pc = "end", !.commit = run[b].commit, !.ends = e]
  <2>1. Follows(b, r) /\ r.pc = "end" /\ run' = [run EXCEPT ![b] = r]
    BY <1>3, EndsFollows
  <2> HIDE DEF r
  <2>2. QED
    BY <2>1 DEF Stops
<1>4. ASSUME run[b].pc # "idle", run' = Over(b) PROVE Stops(b)
  <2> DEFINE d == [Idle EXCEPT !.pc = "done", !.commit = run[b].commit]
  <2>1. "failed" \in Endings
    BY DEF Endings
  <2>2. Follows(b, d) /\ d.pc = "done" /\ run' = [run EXCEPT ![b] = d]
    BY <1>4, <2>1, EndsFollows
  <2> HIDE DEF d
  <2>3. QED
    BY <2>2 DEF Stops
<1>5. CASE Start(b)
  <2> DEFINE c == Head(line[b])
             j == IF job[b][c].running
                  THEN [job[b][c] EXCEPT !.restarts = @ + 1, !.step = "prepare"]
                  ELSE [job[b][c] EXCEPT !.running = TRUE]
             pc == IF j.restarts > MaxRestarts THEN "end" ELSE "report"
  <2>1. c \in Commits
    BY <1>5, Types, HeadTailProperties DEF Start
  <2>2. job[b][c] \in JobType
    BY <1>1, <2>1
  <2>3. j.step \in Steps /\ pc \in {"end", "report"}
    BY <2>2 DEF JobType, Steps
  <2>4. run[b].pc = "idle" /\ run' = [run EXCEPT ![b] = [Idle EXCEPT
                  !.commit = c, !.step = j.step, !.pc = pc]]
    BY <1>5 DEF Start
  <2> DEFINE r == [Idle EXCEPT !.commit = c, !.step = j.step, !.pc = pc]
  <2>5. \E d \in Commits, step \in Steps, phase \in {"end", "report"} :
            r = [Idle EXCEPT !.commit = d, !.step = step, !.pc = phase]
    BY <2>1, <2>3
  <2>6. run[b].pc = "idle" /\ run' = [run EXCEPT ![b] = r]
    BY <2>4
  <2> HIDE DEF r
  <2>7. QED
    BY <2>5, <2>6, StartFollows DEF Stops
<1>6. CASE ContainerGone(b) \/ Done(b) \/ Restart(b)
  BY <1>2, <1>6 DEF ContainerGone, Done, Restart
<1>7. CASE NotDeployable(b) \/ WorkFails(b)
  BY <1>3, <1>7 DEF NotDeployable, WorkFails, Endings
<1>8. CASE WorkDone(b)
  BY <1>2, <1>3, <1>8 DEF WorkDone, Endings, Advances
<1>9. CASE Yield(b)
  BY <1>2, <1>3, <1>9 DEF Yield, Endings
<1>10. CASE EndReport(b)
  BY <1>3, <1>4, <1>10 DEF EndReport, Endings
<1>11. CASE Report(b)
  <2> DEFINE outcome == Outcome(b, run[b].commit, StateOf(run[b].step))
  <2>1. run[b].pc = "report"
    BY <1>11 DEF Report
  <2>2. CASE outcome = "recorded" /\ run[b].step = "hold"
    BY <1>2, <1>11, <2>2 DEF Report, Advances
  <2>3. CASE outcome = "recorded" /\ run[b].step # "hold"
    BY <1>11, <2>1, <2>3, GoesFollows DEF Report
  <2>4. CASE outcome = "busy" /\ run[b].step = "hold" /\ job[b][run[b].commit].waits >= MaxBusyWaits
    BY <1>3, <1>11, <2>1, <2>4 DEF Report, Endings
  <2>5. CASE outcome = "busy" /\ run[b].step = "hold" /\ ~(job[b][run[b].commit].waits >= MaxBusyWaits)
    <3>1. run' = Goes(b, "yield") /\ job' = job
      BY <1>11, <2>5 DEF Report
    <3>2. job[b][run[b].commit].waits < MaxBusyWaits
      <4>1. run[b].commit \in Commits
        BY <2>1 DEF RunsNameCommits
      <4>2. QED
        BY <4>1, <1>1, <2>5, Constants DEF JobType
    <3>3. QED
      BY <1>11, <2>1, <3>1, <3>2, GoesFollows
  <2>6. CASE outcome # "recorded" /\ ~(outcome = "busy" /\ run[b].step = "hold")
    BY <1>3, <1>11, <2>1, <2>6 DEF Report, Endings
  <2>7. QED
    BY <2>2, <2>3, <2>4, <2>5, <2>6
<1>12. CASE Request(b)
  <2> DEFINE sent == (run[b].step = "deploy")
             token == IF run[b].token > 0 THEN run[b].token ELSE TokenUnits
  <2>1. run[b].pc = "work" /\ run' = [run EXCEPT ![b] = [run[b] EXCEPT !.sent = sent, !.token = token]]
    BY <1>1, <1>12 DEF Request, Sends, RunType
  <2>2. sent \in BOOLEAN /\ token \in 0..TokenUnits
    BY <1>1, Constants DEF RunType
  <2> HIDE DEF sent, token
  <2> DEFINE r == [run[b] EXCEPT !.sent = sent, !.token = token]
  <2>3. /\ Follows(b, r) /\ r.pc = "work" /\ r.commit = run[b].commit
        /\ r.step = run[b].step /\ r.age = run[b].age
    BY <2>1, <2>2, SendFollows
  <2>4. run' = [run EXCEPT ![b] = r]
    BY <2>1
  <2> HIDE DEF r
  <2>5. QED
    BY <1>12, <2>3, <2>4
<1>13. CASE Heartbeat(b)
  <2>1. run[b].pc = "work" /\ 0 \in 0..TokenUnits
    BY <1>13, Constants DEF Heartbeat
  <2>2. CASE run' = Ends(b, "failed")
    BY <1>3, <2>1, <2>2 DEF Endings
  <2>3. CASE run' = [run EXCEPT ![b].beat = 0]
    <3> DEFINE h == [run[b] EXCEPT !.beat = 0, !.age = run[b].age]
    <3>1. run' = [run EXCEPT ![b] = h] /\ run[b].age \in 0..LeaseUnits
      BY <1>1, <2>3 DEF RunType
    <3>2. /\ Follows(b, h) /\ h.pc = "work" /\ h.commit = run[b].commit
          /\ h.step = run[b].step /\ h.age = run[b].age
      BY <2>1, <3>1, BeatFollows
    <3> HIDE DEF h
    <3>3. QED
      BY <1>13, <3>1, <3>2
  <2>4. CASE /\ run' = [run EXCEPT ![b].beat = 0, ![b].age = 0]
             /\ row' = Reported(b, run[b].commit, StateOf(run[b].step))
             /\ Outcome(b, run[b].commit, StateOf(run[b].step)) = "recorded"
    <3> DEFINE h == [run[b] EXCEPT !.beat = 0, !.age = 0]
    <3>1. run' = [run EXCEPT ![b] = h] /\ 0 \in 0..LeaseUnits
      <4>1. run' = [run EXCEPT ![b] = h]
        BY <1>1, <2>4 DEF RunType
      <4>2. 0 \in 0..LeaseUnits
        BY Constants
      <4>3. QED
        BY <4>1, <4>2
    <3>2. /\ Follows(b, h) /\ h.pc = "work" /\ h.commit = run[b].commit
          /\ h.step = run[b].step /\ h.age = 0
      BY <2>1, <3>1, BeatFollows
    <3> HIDE DEF h
    <3>3. QED
      BY <1>13, <2>4, <3>1, <3>2
  <2>5. QED
    BY <1>13, <2>2, <2>3, <2>4 DEF Heartbeat
<1>14. QED
  BY <1>5, <1>6, <1>7, <1>8, <1>9, <1>10, <1>11, <1>12, <1>13 DEF BuilderStep

-----------------------------------------------------------------------------
(* What a step does to the rows.                                              *)

StepShapes ==
    \/ \E b \in Builders : BuilderStep(b)
    \/ \E b \in Builders : ClaimStep(b)
    \/ Tick \/ UNCHANGED vars

LEMMA Shapes == ASSUME [Next]_vars PROVE StepShapes
  BY DEF Next, StepShapes

LEMMA FaultsGrow ==
    ASSUME TypeOK, [Next]_vars
    PROVE  faults' \in 0..MaxFaults /\ faults <= faults'
<1>1. faults \in 0..MaxFaults /\ MaxFaults \in Nat
  BY Types, Constants
<1>2. faults' = faults \/ (faults < MaxFaults /\ faults' = faults + 1)
  <2>1. ASSUME NEW b \in Builders, BuilderStep(b)
        PROVE  faults' = faults \/ Fault
    BY <2>1 DEF BuilderStep, Start, ContainerGone, NotDeployable, Report, Yield, Request, Heartbeat,
                WorkDone, WorkFails, EndReport, Done, Restart
  <2>2. ASSUME NEW b \in Builders, ClaimStep(b)
        PROVE  faults' = faults \/ Fault
    BY <2>2 DEF ClaimStep, Push, ReadHead, CheckNewer, Insert, Supersede, Retry, ClaimAgain, AddJob, ClaimLost
  <2>3. QED
    BY <2>1, <2>2, Shapes DEF StepShapes, Tick, vars, Fault
<1>3. QED
  BY <1>1, <1>2

Reports(b, state) ==
    /\ run[b].pc # "idle" /\ state \in Reportable
    /\ state = "succeeded" => run[b].pc = "end" /\ run[b].ends = "succeeded"
    /\ row' = Reported(b, run[b].commit, state)

Ages == row' = [c \in Commits |-> [row[c] EXCEPT !.lease = IF @ > 0 THEN @ - 1 ELSE 0]]

ClaimsFirst(b, c) ==
    row[c].state = "none" /\ row' = Queued(b, c) /\ order' = Append(order, c)

\* A row that ran out or is queued is taken over, a failed one tried again.
TakesUp(b, c) ==
    /\ RanOut(c) \/ row[c].state \in {"queued", "failed"}
    /\ row[c].state = "failed" => IsNewest(c)
    /\ row' = Queued(b, c) /\ order' = order /\ ClaimStep(b)

LEMMA RowMoves ==
    ASSUME TypeOK, JobsInv, [Next]_vars
    PROVE  \/ row' = row /\ order' = order
           \/ \E b \in Builders, state \in Reportable :
                 Reports(b, state) /\ BuilderStep(b) /\ order' = order
           \/ \E b \in Builders, c \in Commits : ClaimsFirst(b, c) \/ TakesUp(b, c)
           \/ \E c \in Commits : row' = Supersedes(c) /\ order' = order
           \/ Ages /\ Tick /\ order' = order
<1>1. ASSUME NEW b \in Builders, BuilderStep(b)
      PROVE  /\ order' = order
             /\ row' = row \/ \E state \in Reportable : Reports(b, state)
  <2>1. /\ StateOf(run[b].step) \in Reportable /\ "building" \in Reportable
        /\ StateOf(run[b].step) # "succeeded"
    BY DEF StateOf, Reportable
  <2>2. run[b].ends \in Reportable
    BY <1>1, Types DEF RunType, Reportable
  <2>3. CASE Report(b) \/ Heartbeat(b)
    BY <2>1, <2>3 DEF Report, Heartbeat, Reports
  <2>4. CASE Yield(b)
    BY <2>1, <2>4 DEF Yield, Reports
  <2>5. CASE EndReport(b)
    BY <2>2, <2>5 DEF EndReport, Reports
  <2>6. CASE ~(Report(b) \/ Heartbeat(b)) /\ ~Yield(b) /\ ~EndReport(b)
    BY <1>1, <2>6 DEF BuilderStep, Start, ContainerGone, NotDeployable, Request, WorkDone,
                      WorkFails, Done, Restart
  <2>7. QED
    BY <2>3, <2>4, <2>5, <2>6
<1>2. ASSUME NEW b \in Builders, ClaimStep(b)
      PROVE  \/ row' = row /\ order' = order
             \/ \E c \in Commits : ClaimsFirst(b, c) \/ TakesUp(b, c)
             \/ \E c \in Commits : row' = Supersedes(c) /\ order' = order
  <2>1. CASE Insert(b)
    <3>1. claim[b].commit \in Commits
      BY <2>1 DEF JobsInv, ClaimsNameCommits, Insert
    <3>2. QED
      BY <1>2, <2>1, <3>1 DEF Insert, ClaimsFirst, TakesUp, TakesOver, LeavesAlone, RanOut
  <2>2. CASE Supersede(b)
    <3>1. claim[b].commit \in Commits
      BY <2>2 DEF JobsInv, ClaimsNameCommits, Supersede
    <3>2. QED
      BY <2>2, <3>1 DEF Supersede
  <2>3. CASE Retry(b)
    BY <1>2, <2>3 DEF Retry, TakesUp
  <2>4. CASE ClaimAgain(b)
    <3>1. claim[b].commit \in Commits
      BY <2>4 DEF JobsInv, ClaimsNameCommits, ClaimAgain
    <3>2. QED
      BY <1>2, <2>4, <3>1 DEF ClaimAgain, TakesUp, TakesOver, LeavesAlone, RanOut
  <2>5. CASE Push(b) \/ ReadHead(b) \/ CheckNewer(b) \/ AddJob(b) \/ ClaimLost(b)
    BY <2>5 DEF Push, ReadHead, CheckNewer, AddJob, ClaimLost
  <2>6. QED
    BY <1>2, <2>1, <2>2, <2>3, <2>4, <2>5 DEF ClaimStep
<1>3. QED
  BY <1>1, <1>2, Shapes DEF StepShapes, Tick, Ages, vars

LEMMA AgesIs ==
    ASSUME TypeOK, Ages
    PROVE  /\ row' \in [Commits -> RowType]
           /\ \A c \in Commits : /\ row'[c].state = row[c].state /\ row'[c].by = row[c].by
                                 /\ row'[c].lease = IF row[c].lease > 0 THEN row[c].lease - 1 ELSE 0
<1>1. ASSUME NEW c \in Commits
      PROVE  /\ row'[c] \in RowType
             /\ row'[c].state = row[c].state /\ row'[c].by = row[c].by
             /\ row'[c].lease = IF row[c].lease > 0 THEN row[c].lease - 1 ELSE 0
  <2> DEFINE left == IF row[c].lease > 0 THEN row[c].lease - 1 ELSE 0
  <2>1. row[c] \in RowType
    BY Types
  <2>2. row'[c] = [row[c] EXCEPT !.lease = left]
    BY DEF Ages
  <2>3. left \in 0..LeaseUnits
    BY <2>1, Constants DEF RowType
  <2> HIDE DEF left
  <2>4. row'[c] \in RowType /\ row'[c].state = row[c].state /\ row'[c].by = row[c].by /\ row'[c].lease = left
    BY <2>1, <2>2, <2>3 DEF RowType
  <2>5. QED
    BY <2>4 DEF left
<1>2. QED
  BY <1>1 DEF Ages

\* A commit has a row once it was claimed, and keeps it.
LEMMA RowsStep ==
    ASSUME TypeOK, JobsInv, [Next]_vars
    PROVE  /\ row' \in [Commits -> RowType]
           /\ order' \in Seq(Commits) /\ IsInjective(order') /\ Len(order) <= Len(order')
           /\ \A c \in Commits : (row'[c].state = "none") = (c \notin ToSet(order'))
<1>1. /\ row \in [Commits -> RowType] /\ order \in Seq(Commits) /\ IsInjective(order)
      /\ Len(order) \in Nat
      /\ \A c \in Commits : (row[c].state = "none") = (c \notin ToSet(order))
  BY Types
<1>2. ASSUME NEW b \in Builders, NEW c \in Commits, ClaimsFirst(b, c)
      PROVE  /\ row' \in [Commits -> RowType]
             /\ order' \in Seq(Commits) /\ IsInjective(order') /\ Len(order) <= Len(order')
             /\ \A d \in Commits : (row'[d].state = "none") = (d \notin ToSet(order'))
  <2>1. row' = Queued(b, c) /\ order' = Append(order, c) /\ row[c].state = "none"
    BY <1>2 DEF ClaimsFirst
  <2>2. \A i \in 1..Len(order) : order[i] # c
    <3>1. c \notin ToSet(order)
      BY <1>1, <2>1
    <3>2. QED
      BY <1>1, <3>1 DEF ToSet
  <2>3. /\ order' \in Seq(Commits) /\ IsInjective(order') /\ Len(order') = Len(order) + 1
        /\ ToSet(order') = ToSet(order) \cup {c}
    BY <1>1, <2>1, <2>2, AppendIs
  <2>4. /\ row' \in [Commits -> RowType] /\ row'[c].state = "queued"
        /\ \A d \in Commits \ {c} : row'[d] = row[d]
    BY <2>1, QueuedIs
  <2>5. QED
    BY <1>1, <2>3, <2>4
<1>3. ASSUME order' = order, row' \in [Commits -> RowType],
             \A c \in Commits : row'[c].state = "none" <=> row[c].state = "none"
      PROVE  /\ Len(order) <= Len(order')
             /\ \A c \in Commits : (row'[c].state = "none") = (c \notin ToSet(order'))
  BY <1>1, <1>3
<1>4. ASSUME NEW b \in Builders, NEW state \in Reportable, Reports(b, state)
      PROVE  /\ row' \in [Commits -> RowType]
             /\ \A c \in Commits : row'[c].state = "none" <=> row[c].state = "none"
  <2>1. PICK c \in Commits : c = run[b].commit
    BY <1>4 DEF Reports, JobsInv, RunsNameCommits
  <2>2. row' = Reported(b, c, state)
    BY <1>4, <2>1 DEF Reports
  <2>3. /\ row' \in [Commits -> RowType]
        /\ \A d \in Commits \ {c} : row'[d] = row[d]
        /\ \/ row'[c].state = row[c].state
           \/ Outcome(b, c, state) = "recorded" /\ row'[c].state = state
    BY <1>4, <2>2, ReportedIs
  <2>4. ASSUME Outcome(b, c, state) = "recorded", row'[c].state = state
        PROVE  row[c].state # "none" /\ row'[c].state # "none"
    BY <2>4 DEF Outcome, Unfinished, Reportable, Endings
  <2>5. QED
    BY <2>3, <2>4
<1>5. ASSUME NEW b \in Builders, NEW c \in Commits, TakesUp(b, c)
      PROVE  /\ row' \in [Commits -> RowType]
             /\ \A d \in Commits : row'[d].state = "none" <=> row[d].state = "none"
  <2>1. row[c].state # "none" /\ row' = Queued(b, c)
    BY <1>5 DEF TakesUp, RanOut
  <2>2. /\ row' \in [Commits -> RowType] /\ row'[c].state = "queued"
        /\ \A d \in Commits \ {c} : row'[d] = row[d]
    BY <2>1, QueuedIs
  <2>3. QED
    BY <2>1, <2>2
<1>6. ASSUME NEW c \in Commits, row' = Supersedes(c)
      PROVE  /\ row' \in [Commits -> RowType]
             /\ \A d \in Commits : row'[d].state = "none" <=> row[d].state = "none"
  <2>1. /\ row' \in [Commits -> RowType]
        /\ \A d \in Commits : \/ row'[d] = row[d]
                              \/ row[d].state \in Unfinished /\ row'[d].state = "superseded"
    BY <1>6, SupersedesIs
  <2>2. QED
    BY <2>1 DEF Unfinished
<1>7. QED
  <2>1. CASE \E b \in Builders, c \in Commits : ClaimsFirst(b, c)
    BY <1>2, <2>1
  <2>2. CASE ~ \E b \in Builders, c \in Commits : ClaimsFirst(b, c)
    <3>1. order' = order
      BY <2>2, RowMoves DEF TakesUp
    <3>2. /\ row' \in [Commits -> RowType]
          /\ \A d \in Commits : row'[d].state = "none" <=> row[d].state = "none"
      BY <1>1, <1>4, <1>5, <1>6, <2>2, RowMoves, AgesIs
    <3>3. QED
      BY <1>1, <1>3, <3>1, <3>2
  <2>3. QED
    BY <2>1, <2>2

-----------------------------------------------------------------------------
(* What a step does to the claims, lines and jobs.                            *)

LEMMA ClaimsStep ==
    ASSUME TypeOK, JobsInv, [Next]_vars
    PROVE  /\ claim' \in [Builders -> ClaimType] /\ ClaimsNameCommits'
           /\ \A b \in Builders : claim'[b].since <= Len(order')
<1>1. /\ claim \in [Builders -> ClaimType] /\ Len(order) \in Nat /\ Len(order') \in Nat
      /\ Len(order) <= Len(order')
      /\ \A b \in Builders : claim[b] \in ClaimType /\ claim[b].since <= Len(order)
  BY Types, RowsStep
<1> DEFINE Good(r) == /\ r \in ClaimType /\ r.since <= Len(order)
                      /\ r.pc # "none" => r.commit \in Commits
<1>2. \A b \in Builders : Good(claim[b])
  BY <1>1 DEF JobsInv, ClaimsNameCommits
<1>3. ASSUME NEW b \in Builders, NEW r, Good(r), claim' = [claim EXCEPT ![b] = r]
      PROVE  \A a \in Builders : Good(claim'[a])
  BY <1>1, <1>2, <1>3
<1>4. Good(NoClaim)
  BY <1>1, Constants DEF NoClaim, ClaimType, ClaimPhases
<1>5. ASSUME NEW b \in Builders, NEW pc \in ClaimPhases, claim[b].pc # "none"
      PROVE  Good([claim[b] EXCEPT !.pc = pc])
  <2>1. claim[b].commit \in Commits /\ claim[b] \in ClaimType /\ claim[b].since <= Len(order)
    BY <1>1, <1>5 DEF JobsInv, ClaimsNameCommits
  <2> DEFINE r == [claim[b] EXCEPT !.pc = pc]
  <2>2. r \in ClaimType /\ r.since = claim[b].since /\ r.commit = claim[b].commit
    BY <2>1 DEF ClaimType
  <2> HIDE DEF r
  <2>3. Good(r)
    BY <1>1, <2>1, <2>2
  <2>4. QED
    BY <2>3 DEF r
<1>6. ASSUME NEW pc \in ClaimPhases, NEW c \in Commits
      PROVE  Good([pc |-> pc, commit |-> c, since |-> Len(order)])
  BY <1>1 DEF ClaimType
<1>7. {"check", "insert", "supersede", "again", "add"} \subseteq ClaimPhases
  BY DEF ClaimPhases
<1>8. ASSUME claim' = claim PROVE \A a \in Builders : Good(claim'[a])
  BY <1>2, <1>8
<1> HIDE DEF Good
<1>9. ASSUME NEW b \in Builders, ClaimStep(b) PROVE \A a \in Builders : Good(claim'[a])
  <2>1. ASSUME NEW pc \in {"check", "insert", "supersede", "again", "add"}, claim[b].pc # "none",
               claim' = [claim EXCEPT ![b].pc = pc]
        PROVE  \A a \in Builders : Good(claim'[a])
    <3>1. claim' = [claim EXCEPT ![b] = [claim[b] EXCEPT !.pc = pc]]
      BY <2>1, <1>1 DEF ClaimType
    <3>2. QED
      BY <1>3, <1>5, <1>7, <2>1, <3>1
  <2>2. CASE Push(b)
    <3>1. pushed + 1 \in Commits
      BY <2>2 DEF Push
    <3>2. Good([pc |-> "insert", commit |-> pushed + 1, since |-> Len(order)])
      BY <1>6, <1>7, <3>1
    <3>3. QED
      BY <1>3, <2>2, <3>2 DEF Push
  <2>3. CASE ReadHead(b)
    <3>1. PICK c \in Main :
            claim' = [claim EXCEPT ![b] = [pc |-> "check", commit |-> c, since |-> Len(order)]]
      BY <2>3 DEF ReadHead
    <3>2. Good([pc |-> "check", commit |-> c, since |-> Len(order)])
      BY <1>6, <1>7, Constants
    <3>3. QED
      BY <1>3, <3>1, <3>2
  <2>4. CASE CheckNewer(b)
    <3>1. Good([claim[b] EXCEPT !.pc = "insert"])
      BY <1>5, <1>7, <2>4 DEF CheckNewer
    <3>2. \/ claim' = [claim EXCEPT ![b] = NoClaim]
          \/ claim' = [claim EXCEPT ![b] = [claim[b] EXCEPT !.pc = "insert"]]
      BY <2>4 DEF CheckNewer
    <3>3. QED
      BY <1>3, <1>4, <3>1, <3>2
  <2>5. CASE Insert(b)
    BY <1>3, <1>4, <2>1, <2>5 DEF Insert
  <2>6. CASE Supersede(b) \/ ClaimAgain(b)
    BY <2>1, <2>6 DEF Supersede, ClaimAgain
  <2>7. CASE Retry(b)
    <3>1. PICK c \in Commits :
            claim' = [claim EXCEPT ![b] = [pc |-> "again", commit |-> c, since |-> Len(order)]]
      BY <2>7 DEF Retry
    <3>2. Good([pc |-> "again", commit |-> c, since |-> Len(order)])
      BY <1>6, <1>7
    <3>3. QED
      BY <1>3, <3>1, <3>2
  <2>8. CASE AddJob(b) \/ ClaimLost(b)
    BY <1>3, <1>4, <2>8 DEF AddJob, ClaimLost
  <2>9. QED
    BY <1>9, <2>2, <2>3, <2>4, <2>5, <2>6, <2>7, <2>8 DEF ClaimStep
<1>10. ASSUME NEW b \in Builders, BuilderStep(b) PROVE \A a \in Builders : Good(claim'[a])
  <2>1. claim' = claim \/ claim' = [claim EXCEPT ![b] = NoClaim]
    BY <1>10 DEF BuilderStep, Start, ContainerGone, NotDeployable, Report, Yield, Request, Heartbeat,
                 WorkDone, WorkFails, EndReport, Done, Restart
  <2>2. QED
    BY <1>3, <1>4, <1>8, <2>1
<1>11. \A a \in Builders : Good(claim'[a])
  BY <1>8, <1>9, <1>10, Shapes DEF StepShapes, Tick, vars
<1>12. claim' = [a \in Builders |-> claim'[a]]
  <2>1. ASSUME NEW b \in Builders, ClaimStep(b) PROVE \E r : claim' = [claim EXCEPT ![b] = r]
    BY <2>1, <1>1 DEF ClaimStep, Push, ReadHead, CheckNewer, Insert, Supersede, Retry, ClaimAgain, AddJob,
                      ClaimLost, ClaimType
  <2>2. ASSUME NEW b \in Builders, BuilderStep(b)
        PROVE  claim' = claim \/ claim' = [claim EXCEPT ![b] = NoClaim]
    BY <2>2 DEF BuilderStep, Start, ContainerGone, NotDeployable, Report, Yield, Request, Heartbeat,
                WorkDone, WorkFails, EndReport, Done, Restart
  <2>3. QED
    BY <1>1, <2>1, <2>2, Shapes DEF StepShapes, Tick, vars
<1>13. QED
  BY <1>1, <1>11, <1>12 DEF Good, ClaimsNameCommits, ClaimType

LEMMA LinesStep ==
    ASSUME TypeOK, JobsInv, [Next]_vars
    PROVE  line' \in [Builders -> Seq(Commits)] /\ \A b \in Builders : IsInjective(line'[b])
<1>1. /\ line \in [Builders -> Seq(Commits)]
      /\ \A b \in Builders : line[b] \in Seq(Commits) /\ IsInjective(line[b])
  BY Types
<1>2. ASSUME NEW b \in Builders, NEW s \in Seq(Commits), IsInjective(s),
             line' = [line EXCEPT ![b] = s]
      PROVE  line' \in [Builders -> Seq(Commits)] /\ \A a \in Builders : IsInjective(line'[a])
  BY <1>1, <1>2
<1>3. ASSUME NEW b \in Builders, AddJob(b)
      PROVE  line' \in [Builders -> Seq(Commits)] /\ \A a \in Builders : IsInjective(line'[a])
  <2>1. PICK c \in Commits : c = claim[b].commit
    BY <1>3 DEF JobsInv, ClaimsNameCommits, AddJob
  <2> DEFINE s == RemoveFirst(line[b], c)
  <2>2. s \in Seq(Commits) /\ IsInjective(s) /\ \A j \in 1..Len(s) : s[j] # c
    BY <1>1, RemoveFirstIs
  <2>3. line' = [line EXCEPT ![b] = Append(s, c)]
    BY <1>3, <2>1 DEF AddJob
  <2> HIDE DEF s
  <2>4. Append(s, c) \in Seq(Commits) /\ IsInjective(Append(s, c))
    BY <2>2, AppendIs
  <2>5. QED
    BY <1>2, <2>3, <2>4
<1>4. ASSUME NEW b \in Builders, Done(b)
      PROVE  line' \in [Builders -> Seq(Commits)] /\ \A a \in Builders : IsInjective(line'[a])
  <2> DEFINE s == RemoveFirst(line[b], run[b].commit)
  <2>1. s \in Seq(Commits) /\ IsInjective(s)
    BY <1>1, RemoveFirstIs
  <2>2. line' = [line EXCEPT ![b] = s]
    BY <1>4 DEF Done
  <2> HIDE DEF s
  <2>3. QED
    BY <1>2, <2>1, <2>2
<1>5. CASE ~ \E b \in Builders : AddJob(b) \/ Done(b)
  <2>1. ASSUME NEW b \in Builders, BuilderStep(b) PROVE line' = line
    BY <1>5, <2>1 DEF BuilderStep, Start, ContainerGone, NotDeployable, Report, Yield, Request,
                      Heartbeat, WorkDone, WorkFails, EndReport, Restart
  <2>2. ASSUME NEW b \in Builders, ClaimStep(b) PROVE line' = line
    BY <1>5, <2>2 DEF ClaimStep, Push, ReadHead, CheckNewer, Insert, Supersede, Retry, ClaimAgain, ClaimLost
  <2>3. QED
    BY <1>1, <2>1, <2>2, Shapes DEF StepShapes, Tick, vars
<1>6. QED
  BY <1>3, <1>4, <1>5

LEMMA AgedRuns ==
    ASSUME TypeOK, Tick, NEW b \in Builders
    PROVE  \/ run[b].pc # "work" /\ run'[b] = run[b]
           \/ /\ run[b].pc = "work" /\ run'[b] \in RunType
              /\ run'[b].pc = "work" /\ run'[b].commit = run[b].commit
              /\ run'[b].step = run[b].step
              /\ run'[b].age = IF run[b].age < LeaseUnits THEN run[b].age + 1 ELSE run[b].age
<1>1. run[b] \in RunType
  BY Types
<1>2. CASE run[b].pc # "work"
  BY <1>2 DEF Tick
<1>3. CASE run[b].pc = "work"
  <2> DEFINE token == IF run[b].token > 0 THEN run[b].token - 1 ELSE 0
             beat == run[b].beat + 1
             age == IF run[b].age < LeaseUnits THEN run[b].age + 1 ELSE run[b].age
  <2>1. run'[b] = [run[b] EXCEPT !.beat = beat, !.age = age, !.token = token]
    BY <1>3 DEF Tick
  <2>2. beat \in 0..HeartbeatUnits /\ token \in 0..TokenUnits /\ age \in 0..LeaseUnits
    <3>1. run[b].beat < HeartbeatUnits
      BY <1>3 DEF Tick
    <3>2. /\ run[b].beat \in 0..HeartbeatUnits /\ run[b].token \in 0..TokenUnits
          /\ run[b].age \in 0..LeaseUnits
      BY <1>1 DEF RunType
    <3>3. QED
      BY <3>1, <3>2, Constants
  <2> HIDE DEF token, beat, age
  <2> DEFINE r == [run[b] EXCEPT !.beat = beat, !.age = age, !.token = token]
  <2>3. /\ r \in RunType /\ r.pc = "work" /\ r.commit = run[b].commit
        /\ r.step = run[b].step /\ r.age = age
    BY <1>1, <1>3, <2>2 DEF RunType
  <2>4. QED
    BY <1>3, <2>1, <2>3 DEF age
<1>4. QED
  BY <1>2, <1>3

\* Each run follows the one before it; another builder's step leaves it alone.
LEMMA RunsFollow ==
    ASSUME TypeOK, JobsInv, [Next]_vars, NEW b \in Builders
    PROVE  \/ run'[b] = run[b]
           \/ BuilderStep(b) /\ Follows(b, run'[b]) /\ \E r : run' = [run EXCEPT ![b] = r]
           \/ Tick
<1>1. run \in [Builders -> RunType] /\ RunsNameCommits
  BY Types DEF JobsInv
<1>2. ASSUME NEW a \in Builders, BuilderStep(a)
      PROVE  \E r : Follows(a, r) /\ run' = [run EXCEPT ![a] = r]
  <2>1. CASE Stops(a)
    BY <2>1 DEF Stops
  <2>2. CASE ~Stops(a)
    BY <1>1, <1>2, <2>2, RunMoves
  <2>3. QED
    BY <2>1, <2>2
<1>3. ASSUME NEW a \in Builders, ClaimStep(a) PROVE run' = run
  BY <1>3 DEF ClaimStep, Push, ReadHead, CheckNewer, Insert, Supersede, Retry, ClaimAgain, AddJob, ClaimLost
<1>4. CASE \E a \in Builders : BuilderStep(a)
  <2>1. PICK a \in Builders : BuilderStep(a)
    BY <1>4
  <2>2. PICK r : Follows(a, r) /\ run' = [run EXCEPT ![a] = r]
    BY <1>2, <2>1
  <2>3. CASE a = b
    <3>1. run'[b] = r
      BY <1>1, <2>2, <2>3
    <3>2. QED
      BY <2>1, <2>2, <2>3, <3>1
  <2>4. CASE a # b
    BY <1>1, <2>2, <2>4
  <2>5. QED
    BY <2>3, <2>4
<1>5. QED
  BY <1>3, <1>4, Shapes DEF StepShapes, vars

LEMMA RunsStep ==
    ASSUME TypeOK, JobsInv, [Next]_vars
    PROVE  run' \in [Builders -> RunType] /\ RunsNameCommits' /\ (AgesAtWork => AgesAtWork')
<1>1. run \in [Builders -> RunType] /\ RunsNameCommits
  BY Types DEF JobsInv
<1>2. ASSUME NEW b \in Builders
      PROVE  /\ run'[b] \in RunType
             /\ run'[b].pc # "idle" => run'[b].commit \in Commits
             /\ AgesAtWork => (run'[b].pc # "work" => run'[b].age = 0)
  <2>1. CASE run'[b] = run[b]
    BY <1>1, <2>1 DEF RunsNameCommits, AgesAtWork
  <2>2. CASE Follows(b, run'[b])
    BY <2>2 DEF Follows, AgesAtWork
  <2>3. CASE Tick
    <3>1. CASE run'[b].pc = "work" /\ run[b].pc = "work" /\ run'[b].commit = run[b].commit
      BY <1>1, <2>3, <3>1, AgedRuns DEF RunsNameCommits
    <3>2. QED
      BY <2>1, <2>3, <3>1, AgedRuns
  <2>4. QED
    BY <2>1, <2>2, <2>3, RunsFollow
<1>3. run' = [b \in Builders |-> run'[b]]
  <2>1. CASE Tick
    BY <2>1 DEF Tick
  <2>2. CASE \E b \in Builders : \E r : run' = [run EXCEPT ![b] = r]
    BY <1>1, <2>2
  <2>3. CASE \E b \in Builders : ClaimStep(b)
    BY <1>1, <2>3 DEF ClaimStep, Push, ReadHead, CheckNewer, Insert, Supersede, Retry, ClaimAgain, AddJob, ClaimLost
  <2>4. CASE \E b \in Builders : BuilderStep(b)
    <3>1. PICK b \in Builders : BuilderStep(b)
      BY <2>4
    <3>2. \E r : run' = [run EXCEPT ![b] = r]
      <4>1. CASE Stops(b)
        BY <4>1 DEF Stops
      <4>2. CASE ~Stops(b)
        BY <1>1, <3>1, <4>2, RunMoves
      <4>3. QED
        BY <4>1, <4>2
    <3>3. QED
      BY <2>2, <3>2
  <2>5. QED
    BY <1>1, <2>1, <2>3, <2>4, Shapes DEF StepShapes, vars
<1>4. QED
  BY <1>2, <1>3 DEF RunsNameCommits, AgesAtWork

LEMMA AttendsStep ==
    ASSUME TypeOK, JobsInv, [Next]_vars, NEW b \in Builders, NEW c \in Commits, Attends(b, c)
    PROVE  \/ Attends(b, c)'
           \/ BuilderStep(b) /\ run'[b].pc = "idle" /\ run[b].commit = c
<1>1. run[b].pc # "idle" /\ run[b].commit = c
  BY DEF Attends
<1>2. CASE run'[b] = run[b]
  BY <1>1, <1>2 DEF Attends
<1>3. CASE BuilderStep(b) /\ Follows(b, run'[b])
  BY <1>1, <1>3 DEF Attends, Follows
<1>4. CASE Tick
  BY <1>1, <1>4, AgedRuns DEF Attends
<1>5. QED
  BY <1>2, <1>3, <1>4, RunsFollow

\* What a job may become: its restarts are failures that happened, and if nobody works
\* at it while it runs, one more may follow.
JobFits(b, c, j) ==
    /\ j \in JobType /\ j.restarts <= faults'
    /\ j.running /\ ~Attends(b, c)' => j.restarts < faults'

LEMMA NewJobFits ==
    ASSUME TypeOK, [Next]_vars, NEW b \in Builders, NEW c \in Commits
    PROVE  JobFits(b, c, NewJob) /\ NewJob.waits = 0
  BY FaultsGrow, Constants DEF JobFits, NewJob, JobType, Steps

\* A job put aside counts a restart only with a failure.
LEMMA StoppedJobFits ==
    ASSUME TypeOK, [Next]_vars, NEW b \in Builders, NEW c \in Commits, NEW step \in Steps,
           NEW waits \in 0..MaxBusyWaits
    PROVE  /\ JobFits(b, c, [job[b][c] EXCEPT !.running = FALSE, !.step = step])
           /\ JobFits(b, c, [job[b][c] EXCEPT !.running = FALSE, !.waits = waits])
           /\ faults' = faults + 1 =>
                JobFits(b, c, [job[b][c] EXCEPT !.running = FALSE, !.step = step,
                                                !.restarts = @ + 1])
<1>1. job[b][c] \in JobType /\ job[b][c].restarts <= faults
  BY Types
<1>2. job[b][c].restarts <= faults' /\ faults \in Nat /\ faults' \in Nat
  BY <1>1, FaultsGrow, Types, Constants DEF JobType
<1> DEFINE j == [job[b][c] EXCEPT !.running = FALSE, !.step = step]
           k == [job[b][c] EXCEPT !.running = FALSE, !.waits = waits]
           n == job[b][c].restarts + 1
           l == [job[b][c] EXCEPT !.running = FALSE, !.step = step, !.restarts = n]
<1>3. j \in JobType /\ j.running = FALSE /\ j.restarts = job[b][c].restarts
  BY <1>1 DEF JobType
<1>4. k \in JobType /\ k.running = FALSE /\ k.restarts = job[b][c].restarts
  BY <1>1 DEF JobType
<1>5. n \in Nat /\ (faults' = faults + 1 => n <= faults')
  BY <1>1, <1>2 DEF JobType
<1> HIDE DEF n
<1>6. l \in JobType /\ l.running = FALSE /\ l.restarts = n
  BY <1>1, <1>5 DEF JobType
<1> HIDE DEF j, k, l
<1>7. JobFits(b, c, j) /\ JobFits(b, c, k) /\ (faults' = faults + 1 => JobFits(b, c, l))
  BY <1>2, <1>3, <1>4, <1>5, <1>6 DEF JobFits
<1>8. QED
  BY <1>7 DEF j, k, l, n

\* A job that starts, or that is found running and starts over.
LEMMA StartedJobFits ==
    ASSUME TypeOK, JobsInv, [Next]_vars, NEW b \in Builders, NEW c \in Commits,
           run[b].pc = "idle", Attends(b, c)'
    PROVE  JobFits(b, c, IF job[b][c].running
                         THEN [job[b][c] EXCEPT !.restarts = @ + 1, !.step = "prepare"]
                         ELSE [job[b][c] EXCEPT !.running = TRUE])
<1>1. job[b][c] \in JobType /\ job[b][c].restarts <= faults
  BY Types
<1>2. faults \in Nat /\ faults' \in Nat /\ faults <= faults'
  BY FaultsGrow, Types, Constants
<1>3. CASE job[b][c].running
  <2> DEFINE n == job[b][c].restarts + 1
             j == [job[b][c] EXCEPT !.restarts = n, !.step = "prepare"]
  <2>1. job[b][c].restarts < faults
    BY <1>3 DEF JobsInv, RestartsAreFaults, Attends
  <2>2. n \in Nat /\ n <= faults'
    BY <1>1, <1>2, <2>1 DEF JobType
  <2>3. "prepare" \in Steps
    BY DEF Steps
  <2> HIDE DEF n
  <2>4. j \in JobType /\ j.restarts = n
    BY <1>1, <2>2, <2>3 DEF JobType
  <2> HIDE DEF j
  <2>5. JobFits(b, c, j)
    BY <2>2, <2>4 DEF JobFits
  <2>6. QED
    BY <1>3, <2>5 DEF j, n
<1>4. CASE ~job[b][c].running
  <2> DEFINE j == [job[b][c] EXCEPT !.running = TRUE]
  <2>1. j \in JobType /\ j.restarts = job[b][c].restarts
    BY <1>1 DEF JobType
  <2> HIDE DEF j
  <2>2. JobFits(b, c, j)
    BY <1>1, <1>2, <2>1 DEF JobFits, JobType
  <2>3. QED
    BY <1>4, <2>2 DEF j
<1>5. QED
  BY <1>3, <1>4

Replaces(b, c, j) == job' = [job EXCEPT ![b] = [job[b] EXCEPT ![c] = j]]

\* One job of a builder's changes, to one that fits; it was the attended one if any.
Changes(b, c) ==
    \E j \in JobType :
        /\ Replaces(b, c, j) /\ JobFits(b, c, j)
        /\ \/ run' = run /\ j.waits = 0
           \/ run'[b].pc # "yield" /\ \A d \in Commits \ {c} : ~Attends(b, d)

LEMMA BuilderChanges ==
    ASSUME TypeOK, JobsInv, [Next]_vars, NEW b \in Builders, BuilderStep(b)
    PROVE  \/ /\ job' = job
              /\ run'[b].pc # "idle" \/ faults' = faults + 1
           \/ \E c \in Commits : Changes(b, c)
<1>1. /\ job \in [Builders -> [Commits -> JobType]] /\ run \in [Builders -> RunType]
      /\ run[b] \in RunType
      /\ \A c \in Commits : job[b][c] \in JobType
      /\ \A c \in Commits : ~Attends(b, c) \/ c = run[b].commit
  BY Types DEF Attends
<1>2. ASSUME NEW c \in Commits, c = run[b].commit \/ run[b].pc = "idle",
             NEW j \in JobType, JobFits(b, c, j), Replaces(b, c, j), run'[b].pc # "yield"
      PROVE  \E d \in Commits : Changes(b, d)
  BY <1>1, <1>2 DEF Changes, Attends
<1>3. ASSUME NEW c \in Commits, c = run[b].commit, NEW j, JobFits(b, c, j), Replaces(b, c, j),
             run' = [run EXCEPT ![b] = Idle]
      PROVE  \E d \in Commits : Changes(b, d)
  <2>1. run'[b].pc # "yield" /\ j \in JobType
    BY <1>1, <1>3, IdleIs DEF JobFits
  <2>2. QED
    BY <1>2, <1>3, <2>1
<1>4. run[b].pc # "idle" => run[b].commit \in Commits
  BY DEF JobsInv, RunsNameCommits
<1>5. ASSUME Advances(b), run[b].pc # "idle" PROVE \E d \in Commits : Changes(b, d)
  <2>1. PICK c \in Commits : c = run[b].commit
    BY <1>4, <1>5
  <2>2. PICK step \in Steps : step = StepAfter(run[b].step)
    BY DEF StepAfter, Steps
  <2>3. Replaces(b, c, [job[b][c] EXCEPT !.running = FALSE, !.step = step])
    <3>1. job' = [job EXCEPT ![b][c].running = FALSE, ![b][c].step = step]
      BY <1>5, <2>1, <2>2 DEF Advances
    <3>2. QED
      BY <1>1, <3>1 DEF Replaces, JobType
  <2>4. JobFits(b, c, [job[b][c] EXCEPT !.running = FALSE, !.step = step])
    <3>1. MaxBusyWaits \in 0..MaxBusyWaits
      BY Constants
    <3>2. QED
      BY <3>1, StoppedJobFits
  <2>5. run' = [run EXCEPT ![b] = Idle]
    BY <1>5 DEF Advances
  <2>6. QED
    BY <1>3, <2>1, <2>3, <2>4, <2>5
<1>6. CASE Start(b)
  <2>1. PICK c \in Commits : c = Head(line[b])
    BY <1>6, Types, HeadTailProperties DEF Start
  <2> DEFINE j == IF job[b][c].running
                  THEN [job[b][c] EXCEPT !.restarts = @ + 1, !.step = "prepare"]
                  ELSE [job[b][c] EXCEPT !.running = TRUE]
             pc == IF j.restarts > MaxRestarts THEN "end" ELSE "report"
             r == [Idle EXCEPT !.commit = c, !.step = j.step, !.pc = pc]
  <2>2. run[b].pc = "idle" /\ job' = [job EXCEPT ![b][c] = j] /\ run' = [run EXCEPT ![b] = r]
    BY <1>6, <2>1 DEF Start
  <2>3. r.pc \in {"end", "report"} /\ r.commit = c
    BY IdleIs DEF RunType
  <2> HIDE DEF r
  <2>4. run'[b].pc \in {"end", "report"} /\ run'[b].commit = c
    BY <1>1, <2>2, <2>3
  <2>5. Attends(b, c)'
    BY <2>4 DEF Attends
  <2>6. JobFits(b, c, j)
    BY <2>2, <2>5, StartedJobFits
  <2>7. Replaces(b, c, j)
    BY <1>1, <2>2 DEF Replaces
  <2> HIDE DEF j
  <2>8. QED
    BY <1>2, <2>2, <2>4, <2>6, <2>7 DEF JobFits
<1>7. CASE ContainerGone(b)
  <2>1. PICK c \in Commits : c = run[b].commit
    BY <1>4, <1>7 DEF ContainerGone
  <2>2. Replaces(b, c, [job[b][c] EXCEPT !.running = FALSE, !.step = "prepare", !.restarts = @ + 1])
    BY <1>1, <1>7, <2>1 DEF ContainerGone, Replaces, JobType
  <2>3. faults' = faults + 1 /\ run' = [run EXCEPT ![b] = Idle] /\ "prepare" \in Steps
    BY <1>7 DEF ContainerGone, Fault, Steps
  <2>4. MaxBusyWaits \in 0..MaxBusyWaits
    BY Constants
  <2>5. JobFits(b, c, [job[b][c] EXCEPT !.running = FALSE, !.step = "prepare", !.restarts = @ + 1])
    BY <2>3, <2>4, StoppedJobFits
  <2>6. QED
    BY <1>3, <2>1, <2>2, <2>3, <2>5
<1>8. CASE Done(b)
  <2>1. PICK c \in Commits : c = run[b].commit
    BY <1>4, <1>8 DEF Done
  <2>2. Replaces(b, c, NewJob)
    BY <1>1, <1>8, <2>1 DEF Done, Replaces
  <2>3. JobFits(b, c, NewJob)
    BY NewJobFits
  <2>4. run' = [run EXCEPT ![b] = Idle]
    BY <1>8 DEF Done
  <2>5. QED
    BY <1>3, <2>1, <2>2, <2>3, <2>4
<1>9. CASE Yield(b) /\ Outcome(b, run[b].commit, "building") = "recorded"
  <2>1. PICK c \in Commits : c = run[b].commit
    BY <1>4, <1>9 DEF Yield
  <2>2. job[b][c].waits < MaxBusyWaits
    BY <1>9, <2>1 DEF Yield, JobsInv, YieldsAreLeft
  <2>3. PICK waits \in 0..MaxBusyWaits : waits = job[b][c].waits + 1
    BY <1>1, <2>2, Constants DEF JobType
  <2>4. Replaces(b, c, [job[b][c] EXCEPT !.running = FALSE, !.waits = waits])
    <3>1. job' = [job EXCEPT ![b][c].running = FALSE, ![b][c].waits = @ + 1]
      BY <1>9, <2>1 DEF Yield
    <3>2. job' = [job EXCEPT ![b][c].running = FALSE, ![b][c].waits = waits]
      BY <1>1, <2>3, <3>1 DEF JobType
    <3>3. QED
      BY <1>1, <3>2 DEF Replaces, JobType
  <2>5. "prepare" \in Steps
    BY DEF Steps
  <2>6. JobFits(b, c, [job[b][c] EXCEPT !.running = FALSE, !.waits = waits])
    BY <2>5, StoppedJobFits
  <2>7. run' = [run EXCEPT ![b] = Idle]
    BY <1>9 DEF Yield
  <2>8. QED
    BY <1>3, <2>1, <2>4, <2>6, <2>7
<1>10. CASE Restart(b)
  BY <1>10 DEF Restart, Fault
<1>11. CASE Report(b) /\ Advances(b)
  BY <1>5, <1>11 DEF Report
<1>12. CASE WorkDone(b) /\ run[b].step # "deploy"
  BY <1>5, <1>12 DEF WorkDone
<1>13. CASE \/ Yield(b) /\ Outcome(b, run[b].commit, "building") # "recorded"
            \/ WorkDone(b) /\ run[b].step = "deploy"
            \/ NotDeployable(b) \/ WorkFails(b)
  <2>1. job' = job /\ \E e \in Endings : run' = Ends(b, e)
    BY <1>13 DEF Yield, WorkDone, NotDeployable, WorkFails, Endings
  <2>2. PICK e \in Endings : run' = Ends(b, e)
    BY <2>1
  <2>3. [Idle EXCEPT !.pc = "end", !.commit = run[b].commit, !.ends = e].pc = "end"
    BY IdleIs DEF RunType
  <2>4. QED
    BY <1>1, <2>1, <2>2, <2>3 DEF Ends
<1>14. CASE EndReport(b)
  <2>1. job' = job /\ (run' = Over(b) \/ run' = Ends(b, "failed"))
    BY <1>14 DEF EndReport
  <2>2. /\ [Idle EXCEPT !.pc = "end", !.commit = run[b].commit, !.ends = "failed"].pc = "end"
        /\ [Idle EXCEPT !.pc = "done", !.commit = run[b].commit].pc = "done"
    BY IdleIs DEF RunType
  <2>3. QED
    BY <1>1, <2>1, <2>2 DEF Ends, Over
<1>15. CASE Request(b)
  BY <1>1, <1>15 DEF Request, Sends, RunType
<1>16. CASE Heartbeat(b)
  <2>1. job' = job /\ \/ run' = Ends(b, "failed")
                      \/ run' = [run EXCEPT ![b].beat = 0]
                      \/ run' = [run EXCEPT ![b].beat = 0, ![b].age = 0]
    BY <1>16 DEF Heartbeat
  <2>2. [Idle EXCEPT !.pc = "end", !.commit = run[b].commit, !.ends = "failed"].pc = "end"
    BY IdleIs DEF RunType
  <2>3. run[b].pc = "work"
    BY <1>16 DEF Heartbeat
  <2>4. QED
    BY <1>1, <2>1, <2>2, <2>3 DEF Ends, RunType
<1>17. CASE Report(b) /\ ~Advances(b)
  <2>1. job' = job /\ \/ run' = Ends(b, "failed")
                      \/ \E pc \in {"work", "yield"} : run' = Goes(b, pc)
    BY <1>17 DEF Report
  <2>2. [Idle EXCEPT !.pc = "end", !.commit = run[b].commit, !.ends = "failed"].pc = "end"
    BY IdleIs DEF RunType
  <2>3. QED
    BY <1>1, <2>1, <2>2 DEF Ends, Goes, RunType
<1>18. QED
  BY <1>6, <1>7, <1>8, <1>9, <1>10, <1>11, <1>12, <1>13, <1>14, <1>15, <1>16, <1>17 DEF BuilderStep

LEMMA JobMoves ==
    ASSUME TypeOK, JobsInv, [Next]_vars
    PROVE  \/ /\ job' = job
              /\ \A b \in Builders, c \in Commits :
                    Attends(b, c) => Attends(b, c)' \/ faults' = faults + 1
           \/ \E b \in Builders, c \in Commits :
                 /\ Changes(b, c)
                 /\ \A a \in Builders \ {b}, d \in Commits : Attends(a, d) => Attends(a, d)'
<1>1. CASE \E b \in Builders : BuilderStep(b)
  <2>1. PICK b \in Builders : BuilderStep(b)
    BY <1>1
  <2>2. run \in [Builders -> RunType] /\ \E r : run' = [run EXCEPT ![b] = r]
    <3>1. CASE Stops(b)
      BY <3>1, Types DEF Stops
    <3>2. CASE ~Stops(b)
      BY <2>1, <3>2, RunMoves, Types DEF JobsInv
    <3>3. QED
      BY <3>1, <3>2
  <2>3. \A a \in Builders \ {b} : run'[a] = run[a]
    BY <2>2
  <2>4. ASSUME NEW a \in Builders \ {b}, NEW d \in Commits, Attends(a, d) PROVE Attends(a, d)'
    BY <2>3, <2>4 DEF Attends
  <2>5. CASE job' = job /\ (run'[b].pc # "idle" \/ faults' = faults + 1)
    <3>1. ASSUME NEW d \in Commits, Attends(b, d) PROVE Attends(b, d)' \/ faults' = faults + 1
      BY <2>5, <3>1, AttendsStep
    <3>2. ASSUME NEW a \in Builders, NEW d \in Commits, Attends(a, d)
          PROVE  Attends(a, d)' \/ faults' = faults + 1
      BY <2>4, <3>1, <3>2
    <3>3. QED
      BY <2>5, <3>2
  <2>6. CASE \E c \in Commits : Changes(b, c)
    BY <2>4, <2>6
  <2>7. QED
    BY <2>1, <2>5, <2>6, BuilderChanges
<1>2. CASE \E b \in Builders : AddJob(b)
  <2>1. PICK b \in Builders : AddJob(b)
    BY <1>2
  <2>2. PICK c \in Commits : c = claim[b].commit
    BY <2>1 DEF JobsInv, ClaimsNameCommits, AddJob
  <2>3. Replaces(b, c, NewJob) /\ run' = run
    BY <2>1, <2>2, Types DEF AddJob, Replaces
  <2>4. JobFits(b, c, NewJob) /\ NewJob.waits = 0
    BY NewJobFits
  <2>5. Changes(b, c)
    BY <2>3, <2>4 DEF Changes, JobFits
  <2>6. ASSUME NEW a \in Builders, NEW d \in Commits, Attends(a, d) PROVE Attends(a, d)'
    BY <2>3, <2>6 DEF Attends
  <2>7. QED
    BY <2>5, <2>6
<1>3. CASE ~(\E b \in Builders : BuilderStep(b)) /\ ~(\E b \in Builders : AddJob(b))
  <2>1. job' = job
    BY <1>3, Shapes DEF StepShapes, ClaimStep, Push, ReadHead, CheckNewer, Insert, Supersede, Retry, ClaimAgain,
                        ClaimLost, Tick, vars
  <2>2. ASSUME NEW a \in Builders, NEW d \in Commits, Attends(a, d) PROVE Attends(a, d)'
    BY <1>3, <2>2, AttendsStep
  <2>3. QED
    BY <2>1, <2>2
<1>4. QED
  BY <1>1, <1>2, <1>3

LEMMA JobsStep ==
    ASSUME TypeOK, JobsInv, [Next]_vars
    PROVE  /\ job' \in [Builders -> [Commits -> JobType]]
           /\ \A b \in Builders, c \in Commits : job'[b][c].restarts <= faults'
           /\ RestartsAreFaults' /\ YieldsAreLeft'
<1>1. /\ job \in [Builders -> [Commits -> JobType]]
      /\ \A b \in Builders, c \in Commits : /\ job[b] \in [Commits -> JobType]
                                            /\ job[b][c] \in JobType /\ job[b][c].restarts \in Nat
                                            /\ job[b][c].restarts <= faults
  BY Types DEF JobType
<1>2. faults \in Nat /\ faults' \in Nat /\ faults <= faults'
  BY FaultsGrow, Types, Constants
<1>3. ASSUME NEW b \in Builders, run'[b].pc = "yield"
      PROVE  \/ run'[b] = run[b]
             \/ job' = job /\ \E c \in Commits : c = run'[b].commit /\ job[b][c].waits < MaxBusyWaits
  <2>1. CASE run'[b] = run[b]
    BY <2>1
  <2>2. CASE BuilderStep(b)
    <3>1. run \in [Builders -> RunType] /\ RunsNameCommits
      BY Types DEF JobsInv
    <3>2. ~Stops(b)
      BY <1>3, <3>1 DEF Stops
    <3>3. PICK r : /\ Follows(b, r) /\ run' = [run EXCEPT ![b] = r]
                   /\ r.pc = "yield" => /\ job' = job /\ r.commit = run[b].commit
                                        /\ job[b][run[b].commit].waits < MaxBusyWaits
      BY <2>2, <3>1, <3>2, RunMoves
    <3>4. r = run'[b]
      BY <3>1, <3>3
    <3>5. QED
      BY <1>3, <3>3, <3>4 DEF Follows
  <2>3. CASE Tick
    BY <1>3, <2>3, AgedRuns
  <2>4. QED
    BY <2>1, <2>2, <2>3, RunsFollow
<1>4. CASE /\ job' = job
           /\ \A b \in Builders, c \in Commits :
                 Attends(b, c) => Attends(b, c)' \/ faults' = faults + 1
  <2>1. ASSUME NEW b \in Builders, NEW c \in Commits, job'[b][c].running, ~Attends(b, c)'
        PROVE  job'[b][c].restarts < faults'
    <3>1. CASE Attends(b, c)
      BY <1>1, <1>2, <1>4, <2>1, <3>1
    <3>2. CASE ~Attends(b, c)
      BY <1>1, <1>2, <1>4, <2>1, <3>2 DEF JobsInv, RestartsAreFaults
    <3>3. QED
      BY <3>1, <3>2
  <2>2. RestartsAreFaults'
    BY <2>1 DEF RestartsAreFaults
  <2>3. YieldsAreLeft'
    BY <1>3, <1>4 DEF JobsInv, YieldsAreLeft
  <2>4. QED
    BY <1>1, <1>2, <1>4, <2>2, <2>3
<1>5. ASSUME NEW b \in Builders, NEW c \in Commits, Changes(b, c),
             \A a \in Builders \ {b}, d \in Commits : Attends(a, d) => Attends(a, d)'
      PROVE  /\ job' \in [Builders -> [Commits -> JobType]]
             /\ \A a \in Builders, d \in Commits : job'[a][d].restarts <= faults'
             /\ RestartsAreFaults' /\ YieldsAreLeft'
  <2>1. PICK j \in JobType :
            /\ Replaces(b, c, j) /\ JobFits(b, c, j)
            /\ \/ run' = run /\ j.waits = 0
               \/ run'[b].pc # "yield" /\ \A d \in Commits \ {c} : ~Attends(b, d)
    BY <1>5 DEF Changes
  <2>2. /\ job'[b][c] = j
        /\ \A a \in Builders, d \in Commits : a # b \/ d # c => job'[a][d] = job[a][d]
        /\ job' \in [Builders -> [Commits -> JobType]]
    BY <1>1, <2>1 DEF Replaces
  <2>3. ASSUME NEW a \in Builders, NEW d \in Commits
        PROVE  /\ job'[a][d].restarts <= faults'
               /\ job'[a][d].running /\ ~Attends(a, d)' => job'[a][d].restarts < faults'
    <3>1. CASE a = b /\ d = c
      BY <2>1, <2>2, <3>1 DEF JobFits
    <3>2. CASE a # b \/ d # c
      <4>1. job'[a][d] = job[a][d]
        BY <2>2, <3>2
      <4>2. Attends(a, d) => Attends(a, d)'
        <5>1. CASE a # b
          BY <1>5, <5>1
        <5>2. CASE a = b /\ run' = run
          BY <5>2 DEF Attends
        <5>3. CASE a = b /\ ~(run' = run)
          BY <2>1, <3>2, <5>3
        <5>4. QED
          BY <5>1, <5>2, <5>3
      <4>3. QED
        BY <1>1, <1>2, <4>1, <4>2 DEF JobsInv, RestartsAreFaults
    <3>3. QED
      BY <3>1, <3>2
  <2>4. RestartsAreFaults'
    BY <2>3 DEF RestartsAreFaults
  <2>5. ASSUME NEW a \in Builders, run'[a].pc = "yield"
        PROVE  job'[a][run'[a].commit].waits < MaxBusyWaits
    <3>1. CASE job' = job
      BY <1>3, <2>5, <3>1 DEF JobsInv, YieldsAreLeft
    <3>2. CASE job' # job
      <4>1. run'[a] = run[a]
        BY <1>3, <2>5, <3>2
      <4>2. PICK d \in Commits : d = run[a].commit
        BY <2>5, <4>1 DEF JobsInv, RunsNameCommits
      <4>3. job[a][d].waits < MaxBusyWaits /\ job[a][d].waits \in 0..MaxBusyWaits
        BY <1>1, <2>5, <4>1, <4>2 DEF JobsInv, YieldsAreLeft, JobType
      <4>4. CASE a # b \/ d # c
        BY <2>2, <4>1, <4>2, <4>3, <4>4
      <4>5. CASE a = b /\ d = c
        <5>1. j.waits = 0
          BY <2>1, <2>5, <4>5
        <5>2. job'[a][d] = j
          BY <2>2, <4>5
        <5>3. QED
          BY <4>1, <4>2, <4>3, <5>1, <5>2, Constants
      <4>6. QED
        BY <4>4, <4>5
    <3>3. QED
      BY <3>1, <3>2
  <2>6. YieldsAreLeft'
    BY <2>5 DEF YieldsAreLeft
  <2>7. QED
    BY <2>2, <2>3, <2>4, <2>6
<1>6. QED
  BY <1>4, <1>5, JobMoves

LEMMA RestStep ==
    ASSUME TypeOK, JobsInv, [Next]_vars
    PROVE  /\ pushed' \in 0..NumCommits /\ asks' \in 0..MaxAsks /\ live' \in Main \cup {0}
           /\ swept' \subseteq Commits
<1>1. /\ pushed \in 0..NumCommits /\ asks \in 0..MaxAsks /\ live \in Main \cup {0}
      /\ swept \subseteq Commits
  BY Types
<1>2. ASSUME NEW b \in Builders, BuilderStep(b)
      PROVE  /\ pushed' = pushed /\ asks' = asks /\ swept' = swept
             /\ live' = live \/ live' \in Main
  BY <1>2 DEF BuilderStep, Start, ContainerGone, NotDeployable, Report, Yield, Request, Heartbeat,
              WorkDone, WorkFails, EndReport, Done, Restart
<1>3. ASSUME NEW b \in Builders, ClaimStep(b)
      PROVE  /\ live' = live
             /\ pushed' = pushed \/ (pushed + 1 \in Commits /\ pushed' = pushed + 1)
             /\ asks' = asks \/ Ask
             /\ swept' = swept \/ (Supersede(b) /\ swept' = swept \cup {claim[b].commit})
  BY <1>3 DEF ClaimStep, Push, ReadHead, CheckNewer, Insert, Supersede, Retry, ClaimAgain, AddJob,
              ClaimLost
<1>4. pushed + 1 \in Commits => pushed + 1 \in 0..NumCommits
  BY Constants DEF Commits
<1>5. Ask => asks' \in 0..MaxAsks
  BY <1>1, Constants DEF Ask
<1>6. CASE Tick \/ UNCHANGED vars
  BY <1>1, <1>6 DEF Tick, vars
<1>7. ASSUME NEW b \in Builders, Supersede(b) PROVE claim[b].commit \in Commits
  BY <1>7 DEF JobsInv, ClaimsNameCommits, Supersede
<1>8. QED
  BY <1>1, <1>2, <1>3, <1>4, <1>5, <1>6, <1>7, Shapes DEF StepShapes

LEMMA InitTypes == Init => TypeOK /\ JobsInv /\ DeploysInv
<1> SUFFICES ASSUME Init PROVE TypeOK /\ JobsInv /\ DeploysInv
  OBVIOUS
<1>1. Idle \in RunType /\ Idle.pc = "idle" /\ Idle.age = 0
  BY IdleIs
<1>2. /\ NoRow \in RowType /\ NoRow.state = "none"
      /\ NewJob.running = FALSE
  BY Constants DEF NoRow, RowType, States, NewJob
<1>3. /\ NewJob \in [step : Steps, running : BOOLEAN, restarts : 0..faults, waits : 0..MaxBusyWaits]
  BY Constants DEF Init, NewJob, Steps
<1>4. /\ NoClaim \in [pc : {"none", "check", "insert", "supersede", "again", "add"},
                      commit : Commits \cup {0}, since : 0..Len(order)]
      /\ NoClaim.pc = "none"
  BY DEF Init, NoClaim
<1>5. /\ pushed \in 0..NumCommits /\ asks \in 0..MaxAsks /\ faults \in 0..MaxFaults
      /\ live \in Main \cup {0} /\ swept \subseteq Commits
  BY Constants DEF Init
<1>6. /\ order \in Seq(Commits) /\ IsInjective(order) /\ ToSet(order) = {}
      /\ line \in [Builders -> Seq(Commits)] /\ \A b \in Builders : IsInjective(line[b])
  BY DEF Init, IsInjective, ToSet
<1>7. /\ \A c \in Commits : row[c] = NoRow
      /\ row = [c \in Commits |-> NoRow]
      /\ \A b \in Builders : claim[b] = NoClaim /\ run[b] = Idle
      /\ claim = [b \in Builders |-> NoClaim] /\ run = [b \in Builders |-> Idle]
      /\ job = [b \in Builders |-> [c \in Commits |-> NewJob]]
      /\ \A b \in Builders, c \in Commits : job[b][c] = NewJob
  BY DEF Init
<1>8. TypeOK
  BY <1>1, <1>2, <1>3, <1>4, <1>5, <1>6, <1>7 DEF TypeOK, RowType, RunType, RunPhases
<1>9. JobsInv
  BY <1>1, <1>2, <1>4, <1>7 DEF JobsInv, ClaimsNameCommits, RunsNameCommits, RestartsAreFaults, YieldsAreLeft
<1>10. DeploysInv
  BY <1>1, <1>2, <1>7 DEF DeploysInv, OneHolds, HoldsTheDeploy, AgesAtWork, SendersHold, Sends
<1>11. QED
  BY <1>8, <1>9, <1>10

LEMMA TypesStep ==
    ASSUME TypeOK, JobsInv, [Next]_vars
    PROVE  TypeOK' /\ JobsInv'
<1>1. TypeOK'
  BY RowsStep, ClaimsStep, LinesStep, JobsStep, RunsStep, RestStep, FaultsGrow,
     TypeOKFromParts
<1>2. JobsInv'
  BY ClaimsStep, RunsStep, JobsStep DEF JobsInv
<1>3. QED
  BY <1>1, <1>2

(* The project's record of its deployments, its builders' jobs and their runs *)
(* stay of their types: a commit has a row once it was claimed, no job is in  *)
(* a builder's line twice, no job waits for another deploy more often than it *)
(* may, and what counts as a restart of a job was a failure.                  *)
THEOREM TypeCorrect == Spec => []TypeOK
<1>1. Init => TypeOK /\ JobsInv
  BY InitTypes
<1>2. TypeOK /\ JobsInv /\ [Next]_vars => (TypeOK /\ JobsInv)'
  BY TypesStep
<1>3. QED
  BY <1>1, <1>2, PTL DEF Spec

-----------------------------------------------------------------------------
(* One deploy at a time.                                                      *)

\* A sender's row is held by its builder, under a lease that has not run out.
LEMMA SenderHoldsTheDeploy ==
    ASSUME TypeOK, JobsInv, DeploysInv, NEW b \in Builders, Sends(b), run[b].age < LeaseUnits
    PROVE  \E c \in Commits : /\ c = run[b].commit /\ HoldsTheDeploy(c) /\ row[c].by = b
                              /\ row[c].lease + run[b].age >= LeaseUnits
<1>1. PICK c \in Commits : c = run[b].commit
  BY DEF Sends, JobsInv, RunsNameCommits
<1>2. /\ row[c].state \in {"deploying", "superseded"} /\ row[c].by = b
      /\ row[c].lease + run[b].age >= LeaseUnits
  BY <1>1 DEF DeploysInv, SendersHold
<1>3. row[c].lease \in Nat /\ run[b].age \in Nat /\ LeaseUnits \in Nat
  BY Types, Constants DEF RowType, RunType
<1>4. row[c].lease > 0
  BY <1>2, <1>3
<1>5. QED
  BY <1>1, <1>2, <1>4 DEF HoldsTheDeploy

\* Who comes to hold the deploy finds that nobody else does.
LEMMA HoldsMoves ==
    ASSUME TypeOK, JobsInv, [Next]_vars, NEW c \in Commits, HoldsTheDeploy(c)', ~HoldsTheDeploy(c)
    PROVE  \A d \in Commits \ {c} : ~HoldsTheDeploy(d) /\ row'[d] = row[d]
<1>1. row'[c].state \in {"deploying", "superseded"} /\ row'[c].lease > 0
  BY DEF HoldsTheDeploy
<1>2. row'[c] # row[c]
  BY <1>1 DEF HoldsTheDeploy
<1>3. row[c] \in RowType
  BY Types
<1>4. ASSUME NEW b \in Builders, NEW state \in Reportable, Reports(b, state)
      PROVE  \A d \in Commits \ {c} : ~HoldsTheDeploy(d) /\ row'[d] = row[d]
  <2>1. PICK e \in Commits : e = run[b].commit
    BY <1>4 DEF Reports, JobsInv, RunsNameCommits
  <2>2. row' = Reported(b, e, state)
    BY <1>4, <2>1 DEF Reports
  <2>3. /\ \A d \in Commits \ {e} : row'[d] = row[d]
        /\ \/ Outcome(b, e, state) = "recorded" /\ row'[e].state = state
           \/ row'[e].lease = 0
           \/ row'[e] = row[e]
    BY <1>4, <2>2, ReportedIs
  <2>4. e = c
    BY <1>2, <2>3
  <2>5. Outcome(b, c, state) = "recorded" /\ row'[c].state = state
    BY <1>1, <1>2, <2>3, <2>4
  <2>6. state = "deploying"
    BY <1>1, <2>5 DEF Reportable, Endings
  <2>7. ~AnotherDeploys(c)
    BY <2>5, <2>6 DEF Outcome
  <2>8. QED
    BY <2>3, <2>4, <2>7 DEF AnotherDeploys, HoldsTheDeploy
<1>5. ASSUME NEW b \in Builders, NEW e \in Commits, row' = Queued(b, e) PROVE FALSE
  BY <1>1, <1>2, <1>5, QueuedIs
<1>6. ASSUME NEW e \in Commits, row' = Supersedes(e) PROVE FALSE
  <2>1. \/ row'[c] = row[c]
        \/ row'[c].lease = IF row[c].state = "deploying" THEN row[c].lease ELSE 0
    BY <1>6, SupersedesIs
  <2>2. row[c].state = "deploying" /\ row'[c].lease = row[c].lease
    BY <1>1, <1>2, <2>1
  <2>3. QED
    BY <1>1, <2>2 DEF HoldsTheDeploy
<1>7. ASSUME Ages PROVE FALSE
  BY <1>1, <1>3, <1>7, AgesIs DEF HoldsTheDeploy, RowType
<1>8. QED
  BY <1>2, <1>4, <1>5, <1>6, <1>7, RowMoves DEF ClaimsFirst, TakesUp

LEMMA OneHoldsStep ==
    ASSUME TypeOK, JobsInv, OneHolds, [Next]_vars
    PROVE  OneHolds'
<1> SUFFICES ASSUME NEW c \in Commits, NEW d \in Commits, HoldsTheDeploy(c)', HoldsTheDeploy(d)', c # d
             PROVE  FALSE
  BY DEF OneHolds
<1>1. CASE HoldsTheDeploy(c) /\ HoldsTheDeploy(d)
  BY <1>1 DEF OneHolds
<1>2. CASE ~HoldsTheDeploy(c)
  <2>1. ~HoldsTheDeploy(d) /\ row'[d] = row[d]
    BY <1>2, HoldsMoves
  <2>2. QED
    BY <2>1 DEF HoldsTheDeploy
<1>3. CASE ~HoldsTheDeploy(d)
  <2>1. ~HoldsTheDeploy(c) /\ row'[c] = row[c]
    BY <1>3, HoldsMoves
  <2>2. QED
    BY <2>1 DEF HoldsTheDeploy
<1>4. QED
  BY <1>1, <1>2, <1>3

\* Nobody else's step ends the hold of a builder on the deploy; only time wears it.
LEMMA HoldStays ==
    ASSUME TypeOK, JobsInv, [Next]_vars, NEW b \in Builders, ~BuilderStep(b), ~Tick,
           NEW c \in Commits, HoldsTheDeploy(c), row[c].by = b
    PROVE  /\ row'[c].state \in {"deploying", "superseded"} /\ row'[c].by = b
           /\ row'[c].lease = row[c].lease
<1>1. row[c].state \in {"deploying", "superseded"} /\ row[c].lease > 0 /\ row[c].lease \in Nat
  BY Types DEF HoldsTheDeploy, RowType
<1>2. ASSUME NEW a \in Builders, NEW state \in Reportable, Reports(a, state), BuilderStep(a)
      PROVE  row'[c] = row[c]
  <2>1. PICK e \in Commits : e = run[a].commit
    BY <1>2 DEF Reports, JobsInv, RunsNameCommits
  <2>2. row' = Reported(a, e, state)
    BY <1>2, <2>1 DEF Reports
  <2>3. CASE e # c
    BY <1>2, <2>2, <2>3, ReportedIs
  <2>4. CASE e = c
    <3>1. row[c].by # a
      BY <1>2
    <3>2. Outcome(a, c, state) # "recorded"
      BY <3>1 DEF Outcome
    <3>3. QED
      BY <2>2, <2>4, <3>1, <3>2 DEF Reported
  <2>5. QED
    BY <2>3, <2>4
<1>3. ASSUME NEW a \in Builders, NEW e \in Commits, TakesUp(a, e) \/ ClaimsFirst(a, e)
      PROVE  row'[c] = row[c]
  <2>1. row' = Queued(a, e)
    BY <1>3 DEF TakesUp, ClaimsFirst
  <2>2. e # c
    BY <1>1, <1>3 DEF TakesUp, ClaimsFirst, RanOut
  <2>3. QED
    BY <2>1, <2>2, QueuedIs
<1>4. ASSUME NEW e \in Commits, row' = Supersedes(e)
      PROVE  \/ row'[c] = row[c]
             \/ row'[c].state = "superseded" /\ row'[c].by = b /\ row'[c].lease = row[c].lease
  <2>1. \/ row'[c] = row[c]
        \/ /\ row[c].state \in Unfinished /\ row'[c].state = "superseded" /\ row'[c].by = row[c].by
           /\ row'[c].lease = IF row[c].state = "deploying" THEN row[c].lease ELSE 0
    BY <1>4, SupersedesIs
  <2>2. row[c].state \in Unfinished => row[c].state = "deploying"
    BY <1>1 DEF Unfinished
  <2>3. QED
    BY <2>1, <2>2
<1>5. QED
  <2>1. \/ row'[c] = row[c]
        \/ row'[c].state = "superseded" /\ row'[c].by = b /\ row'[c].lease = row[c].lease
    BY <1>2, <1>3, <1>4, RowMoves
  <2>2. QED
    BY <1>1, <2>1

LEMMA SendersHoldStep ==
    ASSUME TypeOK, JobsInv, DeploysInv, [Next]_vars
    PROVE  SendersHold'
<1> SUFFICES ASSUME NEW b \in Builders, Sends(b)', run'[b].age < LeaseUnits
             PROVE  LET r == row'[run'[b].commit] IN
                    /\ r.state \in {"deploying", "superseded"} /\ r.by = b
                    /\ r.lease + run'[b].age >= LeaseUnits
  BY DEF SendersHold
<1>1. LeaseUnits \in Nat
  BY Constants
<1>2. /\ run'[b].pc = "work" /\ run'[b].step \in {"migrate", "deploy"}
      /\ run \in [Builders -> RunType] /\ run[b] \in RunType
      /\ run[b].age \in Nat /\ run[b].age <= LeaseUnits /\ run'[b].age \in Nat
  BY Types, Constants, RunsStep DEF Sends, RunType
\* What another builder or a claim does leaves the sender its lease.
<1>3. CASE run'[b] = run[b] /\ ~BuilderStep(b) /\ ~Tick
  <2>1. Sends(b) /\ run[b].age < LeaseUnits
    BY <1>2, <1>3 DEF Sends
  <2>2. PICK c \in Commits : /\ c = run[b].commit /\ HoldsTheDeploy(c) /\ row[c].by = b
                             /\ row[c].lease + run[b].age >= LeaseUnits
    BY <2>1, SenderHoldsTheDeploy
  <2>3. /\ row'[c].state \in {"deploying", "superseded"} /\ row'[c].by = b
        /\ row'[c].lease = row[c].lease
    BY <1>3, <2>2, HoldStays
  <2>4. QED
    BY <1>3, <2>2, <2>3
\* A unit that passes wears the lease and adds to its age.
<1>4. CASE Tick
  <2>1. /\ run[b].pc = "work" /\ run'[b].commit = run[b].commit /\ run'[b].step = run[b].step
        /\ run'[b].age = IF run[b].age < LeaseUnits THEN run[b].age + 1 ELSE run[b].age
    BY <1>2, <1>4, AgedRuns
  <2>2. Sends(b) /\ run[b].age < LeaseUnits /\ run'[b].age = run[b].age + 1
    BY <1>1, <1>2, <2>1 DEF Sends
  <2>3. PICK c \in Commits : /\ c = run[b].commit /\ HoldsTheDeploy(c) /\ row[c].by = b
                             /\ row[c].lease + run[b].age >= LeaseUnits
    BY <2>2, SenderHoldsTheDeploy
  <2>4. Ages
    BY <1>4 DEF Tick, Ages
  <2>5. /\ row'[c].state = row[c].state /\ row'[c].by = row[c].by
        /\ row[c].lease \in Nat /\ row'[c].lease = row[c].lease - 1
    BY <2>3, <2>4, AgesIs, Types DEF HoldsTheDeploy, RowType
  <2>6. row'[c].lease + run'[b].age >= LeaseUnits
    BY <1>1, <1>2, <2>2, <2>3, <2>5
  <2>7. QED
    BY <2>1, <2>3, <2>5, <2>6 DEF HoldsTheDeploy
<1>5. CASE BuilderStep(b)
  <2>1. run[b].pc \in {"report", "work"} /\ run'[b].commit = run[b].commit /\ run'[b].step = run[b].step
    <3>1. CASE run'[b] = run[b]
      BY <1>2, <3>1
    <3>2. CASE Follows(b, run'[b])
      BY <1>2, <3>2 DEF Follows
    <3>3. CASE Tick
      BY <1>2, <3>3, AgedRuns
    <3>4. QED
      BY <3>1, <3>2, <3>3, RunsFollow
  <2>2. PICK c \in Commits : c = run[b].commit
    BY <2>1 DEF JobsInv, RunsNameCommits
  <2>3. StateOf(run[b].step) = "deploying"
    BY <1>2, <2>1 DEF StateOf
  <2>4. ASSUME Outcome(b, c, "deploying") = "recorded", row' = Reported(b, c, "deploying")
        PROVE  row'[c].state = "deploying" /\ row'[c].by = b /\ row'[c].lease = LeaseUnits
    <3>1. row[c].by = b
      BY <2>4 DEF Outcome
    <3>2. /\ row'[c].state = "deploying" /\ row'[c].by = row[c].by
          /\ row'[c].lease = LeaseUnits
      BY <2>4, ReportedIs DEF Reportable, Unfinished
    <3>3. QED
      BY <3>1, <3>2
  <2>5. ~Stops(b)
    BY <1>2 DEF Stops
  <2>6. CASE Report(b)
    <3>1. Outcome(b, c, "deploying") = "recorded"
      <4>1. run[b].pc = "report"
        BY <2>6 DEF Report
      <4>2. PICK r : /\ run' = [run EXCEPT ![b] = r]
                     /\ r.pc = "work" => Outcome(b, run[b].commit, StateOf(run[b].step)) = "recorded"
        BY <1>5, <2>5, <4>1, RunMoves DEF JobsInv, Request, Sends, Heartbeat
      <4>3. r = run'[b]
        BY <1>2, <4>2
      <4>4. QED
        BY <1>2, <2>2, <2>3, <4>2, <4>3
    <3>2. row' = Reported(b, c, "deploying")
      BY <2>2, <2>3, <2>6 DEF Report
    <3>3. QED
      BY <1>1, <1>2, <2>1, <2>2, <2>4, <3>1, <3>2
  <2>7. CASE Request(b)
    <3>1. Sends(b) /\ row' = row
      BY <2>7 DEF Request
    <3>2. run'[b].age = run[b].age
      BY <1>2, <2>7 DEF Request, RunType
    <3>3. QED
      BY <2>1, <2>2, <3>1, <3>2 DEF DeploysInv, SendersHold
  <2>8. CASE Heartbeat(b)
    <3>1. Sends(b)
      BY <1>2, <2>1, <2>8 DEF Sends, Heartbeat
    <3>2. CASE row' = Reported(b, c, "deploying") /\ Outcome(b, c, "deploying") = "recorded"
      BY <1>1, <1>2, <2>1, <2>2, <2>4, <3>2
    <3>3. CASE /\ run' = [run EXCEPT ![b].beat = 0]
               /\ row' = row \/ (row' = Reported(b, c, "deploying") /\ Outcome(b, c, "deploying") = "busy")
      <4>1. run'[b].age = run[b].age
        BY <1>2, <3>3 DEF RunType
      <4>2. row' = row
        BY <3>3 DEF Reported
      <4>3. QED
        BY <2>1, <2>2, <3>1, <4>1, <4>2 DEF DeploysInv, SendersHold
    <3>4. run' # Ends(b, "failed")
      <4>1. [Idle EXCEPT !.pc = "end", !.commit = run[b].commit, !.ends = "failed"].pc = "end"
        BY IdleIs DEF RunType
      <4>2. QED
        BY <1>2, <4>1 DEF Ends
    <3>5. QED
      BY <2>2, <2>3, <2>8, <3>2, <3>3, <3>4 DEF Heartbeat
  <2>9. QED
    BY <1>5, <2>5, <2>6, <2>7, <2>8, RunMoves DEF JobsInv
<1>6. QED
  <2>1. CASE UNCHANGED vars
    <3>1. run'[b] = run[b] /\ row' = row
      BY <2>1 DEF vars
    <3>2. Sends(b)
      BY <1>2, <3>1 DEF Sends
    <3>3. QED
      BY <3>1, <3>2 DEF DeploysInv, SendersHold
  <2>2. QED
    BY <1>3, <1>4, <1>5, RunsFollow

LEMMA DeploysStep ==
    ASSUME TypeOK, JobsInv, DeploysInv, [Next]_vars
    PROVE  DeploysInv'
  BY OneHoldsStep, SendersHoldStep, RunsStep DEF DeploysInv

AllInv == TypeOK /\ JobsInv /\ DeploysInv

LEMMA AllStep == ASSUME AllInv, [Next]_vars PROVE AllInv'
  BY TypesStep, DeploysStep DEF AllInv

LEMMA AllInvariant == Spec => []AllInv
<1>1. Init => AllInv
  BY InitTypes DEF AllInv
<1>2. AllInv /\ [Next]_vars => AllInv'
  BY AllStep
<1>3. QED
  BY <1>1, <1>2, PTL DEF Spec

(* At most one builder of a project can have a deploy's requests sent to      *)
(* Cloudflare, as long as each that can has renewed its lease within the      *)
(* lease's length, whatever else fails: both senders' rows then hold the      *)
(* deploy, so they are the same row, and a row is one builder's.              *)
THEOREM OneDeployHolds == Spec => [](RenewedInTime => OneDeployAtATime)
<1>1. AllInv => (RenewedInTime => OneDeployAtATime)
  <2> SUFFICES ASSUME TypeOK, JobsInv, DeploysInv, RenewedInTime,
                      NEW a \in Builders, NEW b \in Builders,
                      Sends(a), HasToken(a), Sends(b), HasToken(b)
               PROVE  a = b
    BY DEF OneDeployAtATime, AllInv
  <2>1. run[a].age < LeaseUnits /\ run[b].age < LeaseUnits
    BY DEF RenewedInTime
  <2>2. PICK c \in Commits : HoldsTheDeploy(c) /\ row[c].by = a
    BY <2>1, SenderHoldsTheDeploy
  <2>3. PICK d \in Commits : HoldsTheDeploy(d) /\ row[d].by = b
    BY <2>1, SenderHoldsTheDeploy
  <2>4. c = d
    BY <2>2, <2>3 DEF DeploysInv, OneHolds
  <2>5. QED
    BY <2>2, <2>3, <2>4
<1>2. QED
  BY <1>1, AllInvariant, PTL
=============================================================================
