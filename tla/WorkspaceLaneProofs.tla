-------------------------- MODULE WorkspaceLaneProofs --------------------------
(* Proofs about WorkspaceLane for every set of requests and keys and every    *)
(* silence horizon: type correctness, mutual exclusion of running operations, *)
(* and the two properties of steps that a restart must not break.             *)
EXTENDS WorkspaceLane, TLAPS

Lane == [owner : Requests \cup {None}, key : Keys \cup {None}, left : 0..LeaseUnits]
Probe == [owner : Requests \cup {None}, key : Keys \cup {None}, finished : BOOLEAN]
Beat == [state : {"off", "ticking", "stopped", "lost"}, due : 0..1,
         silent : 0..LeaseUnits, horizon : 0..Horizon]

\* A countdown stays within its range.
LEMMA LessInRange ==
    ASSUME NEW m \in Nat, NEW n \in 0..m
    PROVE  Less(n) \in 0..m
BY DEF Less

\* The records the operation writes are of their types.
LEMMA RecordTypes ==
    ASSUME TypeOK, NEW r \in Requests
    PROVE  /\ NoLane \in Lane /\ NoProbe \in Probe /\ NoBeat \in Beat
           /\ NewBeat(r) \in Beat
           /\ ReleasedLane(r) \in Lane
           /\ InterruptedHolder \in Lane
           /\ KeyOf[r] \in Keys
<1>1. NoBeat \in Beat
  BY LaneConstants DEF NoBeat, Beat, LeaseUnits
<1>2. NewBeat(r) \in Beat
  BY <1>1, LaneConstants DEF NewBeat, Beat, LeaseUnits
<1>3. NoLane \in Lane
  BY DEF NoLane, Lane, LeaseUnits
<1>4. QED
  BY <1>1, <1>2, <1>3, LaneConstants
  DEF NoProbe, Probe, ReleasedLane, InterruptedHolder, TypeOK, Lane

\* Every step keeps the types: one case per action.
LEMMA TypeStep == TypeOK /\ [Next]_vars => TypeOK'
<1> SUFFICES ASSUME TypeOK, [Next]_vars PROVE TypeOK'
  OBVIOUS
<1> USE LaneConstants DEF TypeOK
<1>1. ASSUME NEW r \in Requests, BeginTool(r) PROVE TypeOK'
  <2>1. PICK answer \in {"begun", "replayed", "indeterminate"} : BeginAnswer(r, answer)
    BY <1>1 DEF BeginTool, BeginFresh, BeginAgain
  <2>2. answer \in Phases
    BY DEF Phases, Terminal
  <2>3. phase' \in [Requests -> Phases]
    BY <2>1, <2>2 DEF BeginAnswer
  <2>4. /\ journal' \in [Keys -> {"absent", "running", "settled"}]
        /\ owned' \subseteq ToolKeys
    BY <1>1, RecordTypes DEF BeginTool, BeginFresh, BeginAgain
  <2>5. QED
    BY <2>1, <2>3, <2>4 DEF BeginAnswer
<1>2. ASSUME NEW r \in Requests, Enter(r) PROVE TypeOK'
  <2>1. InterruptedHolder \in Lane /\ NoProbe \in Probe /\ KeyOf[r] \in Keys
    BY RecordTypes
  <2>2. probe' \in [Requests -> Probe]
    BY <1>2, <2>1 DEF Enter, Lane, Probe
  <2>3. resume' \in [Requests -> BOOLEAN]
    BY <1>2 DEF Enter, ResumesInterruptedExecution
  <2>4. QED
    BY <1>2, <2>2, <2>3 DEF Enter, Probe, Phases
<1>3. ASSUME NEW r \in Requests, EnterSettled(r) PROVE TypeOK'
  BY <1>3 DEF EnterSettled, durable, Phases, Terminal
<1>4. ASSUME NEW r \in Requests, ProbeFinished(r) PROVE TypeOK'
  <2>1. [owner |-> probe[r].owner, key |-> probe[r].key, finished |-> TRUE] \in Probe
    BY DEF Probe
  <2>2. probe' = [probe EXCEPT ![r] =
                   [owner |-> probe[r].owner, key |-> probe[r].key, finished |-> TRUE]]
    BY <1>4 DEF ProbeFinished
  <2>3. probe' \in [Requests -> Probe]
    BY <2>1, <2>2 DEF Probe
  <2>4. QED
    BY <1>4, <2>3 DEF ProbeFinished, Probe
<1>5. ASSUME NEW r \in Requests, Grant(r) PROVE TypeOK'
  <2>1. lane' \in Lane
    BY <1>5, RecordTypes DEF Grant, Lane, LeaseUnits
  <2>2. beat' \in [Requests -> Beat] /\ probe' \in [Requests -> Probe]
    BY <1>5, RecordTypes DEF Grant, Beat, Probe
  <2>3. QED
    BY <1>5, <2>1, <2>2 DEF Grant, Lane, Beat, Probe, Phases, InOperation
<1>6. ASSUME NEW r \in Requests, Conflict(r) PROVE TypeOK'
  BY <1>6, RecordTypes DEF Conflict, durable, Probe, Phases
<1>7. ASSUME NEW r \in Requests, Refuse(r) PROVE TypeOK'
  BY <1>7, RecordTypes DEF Refuse, durable, Probe, Phases, Terminal
<1>8. ASSUME NEW r \in Requests, Start(r) PROVE TypeOK'
  <2>1. KeyOf[r] \in Keys
    OBVIOUS
  <2>2. starts' \in [Keys -> 0..2]
    BY <1>8, <2>1 DEF Start
  <2>3. QED
    BY <1>8, <2>1, <2>2 DEF Start, Phases
<1>9. ASSUME NEW r \in Requests, Reattach(r) PROVE TypeOK'
  BY <1>9 DEF Reattach, durable, Phases
<1>10. ASSUME NEW r \in Requests, NEW outcome \in Terminal, Leave(r, outcome)
       PROVE  /\ phase' \in [Requests -> Phases]
              /\ lane' \in Lane
              /\ beat' \in [Requests -> Beat]
              /\ active' \subseteq Requests
              /\ UNCHANGED <<journal, starts, owned, resume, probe>>
  BY <1>10, RecordTypes DEF Leave, Phases, Beat
<1>11. ASSUME NEW r \in Requests, CannotStart(r) PROVE TypeOK'
  <2>1. Leave(r, "failed") /\ UNCHANGED effect
    BY <1>11 DEF CannotStart
  <2>2. "failed" \in Terminal
    BY DEF Terminal
  <2>3. QED
    BY <1>10, <2>1, <2>2 DEF Lane, Beat
<1>12. ASSUME NEW r \in Requests, Finish(r) PROVE TypeOK'
  <2>1. PICK outcome \in Terminal : Leave(r, outcome)
    BY <1>12 DEF Finish, Terminal
  <2>2. effect' \in [Keys -> {"none", "running", "finished", "gone"}]
    BY <1>12, RecordTypes DEF Finish
  <2>3. QED
    BY <1>10, <2>1, <2>2 DEF Lane, Beat
<1>13. ASSUME NEW r \in Requests, Fail(r) PROVE TypeOK'
  <2>1. Leave(r, "failed") /\ "failed" \in Terminal
    BY <1>13 DEF Fail, Terminal
  <2>2. effect' \in [Keys -> {"none", "running", "finished", "gone"}]
    BY <1>13, RecordTypes DEF Fail
  <2>3. QED
    BY <1>10, <2>1, <2>2 DEF Lane, Beat
<1>14. ASSUME NEW r \in Requests, Observed(r) PROVE TypeOK'
  BY <1>14 DEF Observed, durable, LeaseUnits
<1>15. ASSUME NEW r \in Requests, HeartbeatTick(r) PROVE TypeOK'
  <2> DEFINE Due == [beat[r] EXCEPT !.due = 1]
             To(state) == [beat[r] EXCEPT !.state = state]
  <2>1. Due \in Beat /\ To("lost") \in Beat /\ To("stopped") \in Beat
    BY DEF Beat
  <2>2. PICK b \in {Due, To("lost"), To("stopped")} : beat' = [beat EXCEPT ![r] = b]
    BY <1>15 DEF HeartbeatTick
  <2>3. beat' \in [Requests -> Beat]
    BY <2>1, <2>2 DEF Beat
  <2>4. lane' \in Lane
    BY <1>15 DEF HeartbeatTick, RenewedLane, Lane, LeaseUnits
  <2>5. QED
    BY <1>15, <2>3, <2>4 DEF HeartbeatTick, Lane, Beat
<1>16. ASSUME NEW k \in Keys, SettleTool(k) PROVE TypeOK'
  BY <1>16 DEF SettleTool
<1>17. ASSUME NEW k \in Keys, WorkEnds(k) PROVE TypeOK'
  BY <1>17 DEF WorkEnds
<1>18. CASE Tick
  <2>1. lane' \in Lane
    BY <1>18, LessInRange DEF Tick, Lane, LeaseUnits
  <2>2. ASSUME NEW r \in Requests PROVE beat'[r] \in Beat
    <3>1. beat[r] \in Beat
      BY DEF Beat
    <3>2. /\ Less(beat[r].due) \in 0..1 /\ Less(beat[r].horizon) \in 0..Horizon
          /\ beat[r].silent \in 0..3
      BY <3>1, LessInRange DEF Beat, LeaseUnits
    <3>3. CASE beat[r].state = "off"
      BY <1>18, <3>1, <3>3 DEF Tick
    <3>4. CASE beat[r].state # "off"
      <4> DEFINE s == IF beat[r].silent = LeaseUnits THEN beat[r].silent ELSE beat[r].silent + 1
      <4>1. s \in 0..LeaseUnits
        BY <3>2 DEF LeaseUnits
      <4>2. beat'[r] = [beat[r] EXCEPT !.due = Less(beat[r].due), !.horizon = Less(beat[r].horizon),
                                       !.silent = s]
        BY <1>18, <3>4 DEF Tick
      <4> HIDE DEF s
      <4>3. QED
        BY <3>1, <3>2, <4>1, <4>2 DEF Beat
    <3>5. QED
      BY <3>3, <3>4
  <2>3. beat' \in [Requests -> Beat]
    BY <1>18, <2>2 DEF Tick
  <2>4. QED
    BY <1>18, <2>1, <2>3 DEF Tick, Lane, Beat
<1>19. CASE ContainerLost
  BY <1>19 DEF ContainerLost
<1>20. CASE Restart
  <2>1. NoBeat \in Beat /\ NoProbe \in Probe
    BY DEF NoBeat, Beat, NoProbe, Probe, LeaseUnits
  <2>2. /\ beat' \in [Requests -> Beat] /\ probe' \in [Requests -> Probe]
        /\ phase' \in [Requests -> Phases]
    BY <1>20, <2>1 DEF Restart, Phases, Terminal
  <2>3. QED
    BY <1>20, <2>2 DEF Restart, Beat, Probe
<1>21. CASE UNCHANGED vars
  BY <1>21 DEF vars
<1>22. QED
  BY <1>1, <1>2, <1>3, <1>4, <1>5, <1>6, <1>7, <1>8, <1>9, <1>11, <1>12, <1>13, <1>14,
     <1>15, <1>16, <1>17, <1>18, <1>19, <1>20, <1>21 DEF Next, Step

\* Type correctness: the lane row, the sets a restart loses and the heartbeats
\* keep the shapes the code gives them.
THEOREM TypeCorrect == Spec => []TypeOK
<1>1. Init => TypeOK
  BY LaneConstants DEF Init, TypeOK, NoLane, NoProbe, NoBeat, LeaseUnits, Phases
<1>2. QED
  BY <1>1, TypeStep, PTL DEF Spec

-----------------------------------------------------------------------------
(* Mutual exclusion. HolderIsExclusive is inductive on its own: a lane is     *)
(* granted only when its owner is not running, and then nobody runs.          *)

LEMMA ExclusiveStep == TypeOK /\ HolderIsExclusive /\ [Next]_vars => HolderIsExclusive'
<1> SUFFICES ASSUME TypeOK, HolderIsExclusive, [Next]_vars PROVE HolderIsExclusive'
  OBVIOUS
<1> USE DEF HolderIsExclusive
<1>1. ASSUME NEW r \in Requests, Grant(r) PROVE HolderIsExclusive'
  <2>1. ~OwnerIsActive
    BY <1>1, LaneConstants DEF Grant, Grantable, Occupied, OwnerIsActive, TypeOK
  <2>2. active = {}
    BY <2>1 DEF OwnerIsActive
  <2>3. QED
    BY <1>1, <2>2 DEF Grant, TypeOK, InOperation
<1>2. ASSUME NEW r \in Requests, NEW outcome \in Terminal, Leave(r, outcome)
      PROVE  HolderIsExclusive'
  <2>1. \A q \in active \ {r} : lane.owner # r
    OBVIOUS
  <2>2. \A q \in active' : lane'.owner = q
    BY <1>2, <2>1 DEF Leave, ReleasedLane, NoLane, TypeOK
  <2>3. \A q \in Requests : phase'[q] \in InOperation => q \in active'
    BY <1>2 DEF Leave, InOperation, Terminal, TypeOK
  <2>4. QED
    BY <2>2, <2>3
<1>3. ASSUME NEW r \in Requests, CannotStart(r) \/ Finish(r) \/ Fail(r)
      PROVE  HolderIsExclusive'
  <2>1. PICK outcome \in Terminal : Leave(r, outcome)
    BY <1>3 DEF CannotStart, Finish, Fail, Terminal
  <2>2. QED
    BY <1>2, <2>1
<1>4. ASSUME NEW r \in Requests,
             \/ BeginTool(r) \/ Enter(r) \/ EnterSettled(r) \/ Conflict(r) \/ Refuse(r)
      PROVE  HolderIsExclusive'
  <2>1. PICK p \in Phases \ InOperation : phase' = [phase EXCEPT ![r] = p]
    BY <1>4 DEF BeginTool, BeginFresh, BeginAgain, BeginAnswer, Enter, EnterSettled,
                Conflict, Refuse, Phases, Terminal, InOperation
  <2>2. UNCHANGED <<lane, active>>
    BY <1>4 DEF BeginTool, BeginFresh, BeginAgain, BeginAnswer, Enter, EnterSettled,
                Conflict, Refuse, durable
  <2>3. QED
    BY <2>1, <2>2 DEF TypeOK
<1>5. ASSUME NEW r \in Requests, Start(r) \/ Reattach(r) PROVE HolderIsExclusive'
  BY <1>5 DEF Start, Reattach, durable, InOperation, TypeOK
<1>6. ASSUME NEW r \in Requests, ProbeFinished(r) \/ Observed(r) PROVE HolderIsExclusive'
  BY <1>6 DEF ProbeFinished, Observed, durable
<1>7. ASSUME NEW r \in Requests, HeartbeatTick(r) PROVE HolderIsExclusive'
  <2>1. lane'.owner = lane.owner
    BY <1>7 DEF HeartbeatTick, RenewedLane, TypeOK
  <2>2. QED
    BY <1>7, <2>1 DEF HeartbeatTick
<1>8. ASSUME NEW k \in Keys, SettleTool(k) \/ WorkEnds(k) PROVE HolderIsExclusive'
  BY <1>8 DEF SettleTool, WorkEnds
<1>9. CASE Tick
  BY <1>9 DEF Tick, TypeOK
<1>10. CASE ContainerLost
  BY <1>10 DEF ContainerLost
<1>11. CASE Restart
  BY <1>11 DEF Restart, InOperation, TypeOK
<1>12. CASE UNCHANGED vars
  BY <1>12 DEF vars
<1>13. QED
  BY <1>1, <1>3, <1>4, <1>5, <1>6, <1>7, <1>8, <1>9, <1>10, <1>11, <1>12 DEF Next, Step

\* At most one stateful operation runs in the live instance, and the lane names
\* it, whatever became of its lease.
THEOREM ExclusiveHolder == Spec => []HolderIsExclusive
<1>1. Init => HolderIsExclusive
  BY DEF Init, HolderIsExclusive, InOperation
<1>2. QED
  BY <1>1, ExclusiveStep, TypeCorrect, PTL DEF Spec

-----------------------------------------------------------------------------
(* What the two properties of steps rest on.                                  *)

\* A lane's holder is in its operation or was interrupted there, under its key.
LaneOrigin ==
    lane.owner # None =>
        /\ lane.key = KeyOf[lane.owner]
        /\ phase[lane.owner] \in InOperation \cup {"interrupted"}

\* A probed holder was left by a restart; an answer "finished" stays true while
\* the lane names that holder, since nobody else can start work meanwhile.
ProbeIsSound ==
    \A r \in Requests : probe[r].owner # None =>
        /\ phase[probe[r].owner] = "interrupted"
        /\ probe[r].key = KeyOf[probe[r].owner]
        /\ lane.owner = probe[r].owner /\ probe[r].finished => effect[probe[r].key] # "running"

\* A tool call that has no row has done nothing.
NothingBeforeBegin ==
    \A r \in Requests : KeyOf[r] \in ToolKeys /\ journal[KeyOf[r]] = "absent" =>
        phase[r] = "idle" /\ starts[KeyOf[r]] = 0

\* An exec that will not resume belongs to an instance that owns its row.
FreshExecIsOwned ==
    \A r \in Requests :
        ( /\ KeyOf[r] \in ToolKeys /\ KindOf[KeyOf[r]] = "exec"
          /\ phase[r] \in {"probing", "running"} /\ ~resume[r]
          /\ journal[KeyOf[r]] = "running" ) => KeyOf[r] \in owned

\* Other kinds are never re-attached: one attempt opened the row, and until it
\* starts nothing was started and no other attempt got past begin.
FirstAttemptIsAlone ==
    \A r \in Requests :
        ( /\ KeyOf[r] \in ToolKeys /\ KindOf[KeyOf[r]] # "exec"
          /\ phase[r] \in {"begun", "probing", "running"} ) =>
            /\ starts[KeyOf[r]] = 0
            /\ journal[KeyOf[r]] = "running"
            /\ \A q \in Requests \ {r} :
                 KeyOf[q] = KeyOf[r] => phase[q] \in {"idle", "indeterminate"}

StepInv ==
    /\ TypeOK /\ HolderIsExclusive
    /\ LaneOrigin /\ ProbeIsSound
    /\ NothingBeforeBegin /\ FreshExecIsOwned /\ FirstAttemptIsAlone

\* How an action leaves the phases: only r moves, and not to another operation.
Moves(r, from, to) == phase[r] \in from /\ \E p \in to : phase' = [phase EXCEPT ![r] = p]

LEMMA OriginStep == StepInv /\ [Next]_vars => LaneOrigin'
<1> SUFFICES ASSUME StepInv, [Next]_vars PROVE LaneOrigin'
  OBVIOUS
<1> USE DEF StepInv, LaneOrigin, InOperation
<1>1. ASSUME NEW r \in Requests, Grant(r) PROVE LaneOrigin'
  BY <1>1 DEF Grant, TypeOK
<1>2. ASSUME NEW r \in Requests, NEW outcome \in Terminal, Leave(r, outcome)
      PROVE  LaneOrigin'
  BY <1>2 DEF Leave, ReleasedLane, NoLane, TypeOK
<1>3. ASSUME NEW r \in Requests, CannotStart(r) \/ Finish(r) \/ Fail(r) PROVE LaneOrigin'
  <2>1. PICK outcome \in Terminal : Leave(r, outcome)
    BY <1>3 DEF CannotStart, Finish, Fail, Terminal
  <2>2. QED
    BY <1>2, <2>1
<1>4. ASSUME NEW r \in Requests,
             \/ BeginTool(r) \/ Enter(r) \/ EnterSettled(r) \/ Conflict(r) \/ Refuse(r)
      PROVE  LaneOrigin'
  <2>1. Moves(r, {"idle", "begun", "probing"}, Phases)
    BY <1>4 DEF BeginTool, BeginFresh, BeginAgain, BeginAnswer, Enter, EnterSettled,
                Conflict, Refuse, Phases, Terminal, Moves
  <2>2. UNCHANGED lane
    BY <1>4 DEF BeginTool, BeginFresh, BeginAgain, BeginAnswer, Enter, EnterSettled,
                Conflict, Refuse, durable
  <2>3. QED
    BY <2>1, <2>2 DEF Moves, TypeOK
<1>5. ASSUME NEW r \in Requests, Start(r) \/ Reattach(r) PROVE LaneOrigin'
  BY <1>5 DEF Start, Reattach, durable, TypeOK
<1>6. ASSUME NEW r \in Requests, ProbeFinished(r) \/ Observed(r) PROVE LaneOrigin'
  BY <1>6 DEF ProbeFinished, Observed, durable
<1>7. ASSUME NEW r \in Requests, HeartbeatTick(r) PROVE LaneOrigin'
  <2>1. lane'.owner = lane.owner /\ lane'.key = lane.key
    BY <1>7 DEF HeartbeatTick, RenewedLane, TypeOK
  <2>2. QED
    BY <1>7, <2>1 DEF HeartbeatTick
<1>8. ASSUME NEW k \in Keys, SettleTool(k) \/ WorkEnds(k) PROVE LaneOrigin'
  BY <1>8 DEF SettleTool, WorkEnds
<1>9. CASE Tick
  BY <1>9 DEF Tick, TypeOK
<1>10. CASE ContainerLost
  BY <1>10 DEF ContainerLost
<1>11. CASE Restart
  BY <1>11 DEF Restart, TypeOK
<1>12. CASE UNCHANGED vars
  BY <1>12 DEF vars
<1>13. QED
  BY <1>1, <1>3, <1>4, <1>5, <1>6, <1>7, <1>8, <1>9, <1>10, <1>11, <1>12 DEF Next, Step

\* A probe names a request and the key it runs under.
LEMMA ProbedHolder ==
    ASSUME TypeOK, ProbeIsSound, NEW q \in Requests, probe[q].owner # None
    PROVE  probe[q].owner \in Requests /\ probe[q].key \in Keys
<1>1. probe[q].owner \in Requests
  BY DEF TypeOK
<1>2. KeyOf[probe[q].owner] \in Keys
  BY <1>1, LaneConstants
<1>3. QED
  BY <1>1, <1>2 DEF ProbeIsSound

\* A probed holder stays what it was unless a step starts its key's work, and
\* whoever starts work is the lane's holder.
LEMMA ProbeStep == StepInv /\ [Next]_vars => ProbeIsSound'
<1> SUFFICES ASSUME StepInv, [Next]_vars PROVE ProbeIsSound'
  OBVIOUS
<1> USE DEF StepInv, ProbeIsSound
<1>1. ASSUME NEW r \in Requests, Grant(r) PROVE ProbeIsSound'
  BY <1>1 DEF Grant, NoProbe, TypeOK
<1>2. ASSUME NEW r \in Requests, CannotStart(r) \/ Finish(r) \/ Fail(r) PROVE ProbeIsSound'
  <2>1. PICK outcome \in Terminal : Leave(r, outcome)
    BY <1>2 DEF CannotStart, Finish, Fail, Terminal
  <2>2. phase[r] \in InOperation
    BY <1>2 DEF CannotStart, Finish, Fail, InOperation
  <2>3. \A k \in Keys : effect[k] # "running" => effect'[k] # "running"
    BY <1>2 DEF CannotStart, Finish, Fail, TypeOK
  <2>4. lane'.owner \in {None, lane.owner}
    BY <2>1 DEF Leave, ReleasedLane, NoLane, TypeOK
  <2>5. QED
    BY ProbedHolder, <2>1, <2>2, <2>3, <2>4 DEF Leave, InOperation, TypeOK
<1>3. ASSUME NEW r \in Requests, Enter(r) PROVE ProbeIsSound'
  <2>1. InterruptedHolder.owner # None =>
           /\ InterruptedHolder = lane /\ lane.owner \in Requests
           /\ phase[lane.owner] = "interrupted" /\ lane.key = KeyOf[lane.owner]
    BY LaneConstants DEF InterruptedHolder, NoLane, OwnerIsActive, LaneOrigin, HolderIsExclusive,
                         InOperation, TypeOK
  <2>2. phase[r] # "interrupted" /\ UNCHANGED <<lane, effect>>
    BY <1>3 DEF Enter
  <2>3. \A q \in Requests : phase[q] = "interrupted" => phase'[q] = "interrupted"
    BY <1>3, <2>2 DEF Enter, TypeOK
  <2>4. ASSUME NEW q \in Requests, q # r PROVE probe'[q] = probe[q]
    BY <1>3, <2>4 DEF Enter, TypeOK
  <2>5. probe'[r].owner # None =>
           /\ probe'[r].owner = lane.owner /\ probe'[r].key = lane.key
           /\ probe'[r].finished = FALSE /\ InterruptedHolder.owner # None
    BY <1>3, <2>1 DEF Enter, NoProbe, TypeOK
  <2>6. \A q \in Requests : probe[q].owner # None => probe[q].owner \in Requests
    BY DEF TypeOK
  <2>7. QED
    BY <2>1, <2>2, <2>3, <2>4, <2>5, <2>6
<1>4. ASSUME NEW r \in Requests,
             BeginTool(r) \/ EnterSettled(r) \/ Conflict(r) \/ Refuse(r)
      PROVE  ProbeIsSound'
  <2>1. Moves(r, {"idle", "begun", "probing"}, Phases)
    BY <1>4 DEF BeginTool, BeginFresh, BeginAgain, BeginAnswer, EnterSettled,
                Conflict, Refuse, Phases, Terminal, Moves
  <2>2. UNCHANGED <<lane, effect>>
    BY <1>4 DEF BeginTool, BeginFresh, BeginAgain, BeginAnswer, EnterSettled,
                Conflict, Refuse, durable
  <2>3. probe' = probe \/ probe' = [probe EXCEPT ![r] = NoProbe]
    BY <1>4 DEF BeginTool, BeginFresh, BeginAgain, BeginAnswer, EnterSettled,
                Conflict, Refuse
  <2>4. QED
    BY <2>1, <2>2, <2>3 DEF Moves, NoProbe, TypeOK
<1>5. ASSUME NEW r \in Requests, ProbeFinished(r) PROVE ProbeIsSound'
  BY <1>5 DEF ProbeFinished, TypeOK
<1>6. ASSUME NEW r \in Requests, Start(r) PROVE ProbeIsSound'
  <2>1. lane.owner = r /\ phase[r] = "running"
    BY <1>6 DEF Start, HolderIsExclusive, InOperation
  <2>2. \A q \in Requests : probe[q].owner # None => lane.owner # probe[q].owner
    BY <2>1
  <2>3. QED
    BY <1>6, <2>1, <2>2 DEF Start, TypeOK
<1>7. ASSUME NEW r \in Requests, Reattach(r) \/ Observed(r) PROVE ProbeIsSound'
  BY <1>7 DEF Reattach, Observed, durable, TypeOK
<1>8. ASSUME NEW r \in Requests, HeartbeatTick(r) PROVE ProbeIsSound'
  <2>1. lane'.owner = lane.owner
    BY <1>8 DEF HeartbeatTick, RenewedLane, TypeOK
  <2>2. QED
    BY <1>8, <2>1 DEF HeartbeatTick
<1>9. ASSUME NEW k \in Keys, SettleTool(k) \/ WorkEnds(k) PROVE ProbeIsSound'
  <2>1. /\ UNCHANGED <<lane, phase, probe>>
        /\ effect' = effect \/ effect' = [effect EXCEPT ![k] = "finished"]
    BY <1>9 DEF SettleTool, WorkEnds
  <2>2. QED
    BY ProbedHolder, <2>1 DEF TypeOK
<1>10. CASE Tick
  BY <1>10 DEF Tick, TypeOK
<1>11. CASE ContainerLost
  <2>1. \A k \in Keys : effect[k] # "running" => effect'[k] # "running"
    BY <1>11 DEF ContainerLost
  <2>2. QED
    BY <1>11, ProbedHolder, <2>1 DEF ContainerLost
<1>12. CASE Restart
  BY <1>12 DEF Restart, NoProbe, TypeOK
<1>13. CASE UNCHANGED vars
  BY <1>13 DEF vars
<1>14. QED
  BY <1>1, <1>2, <1>3, <1>4, <1>5, <1>6, <1>7, <1>8, <1>9, <1>10, <1>11, <1>12, <1>13
  DEF Next, Step

-----------------------------------------------------------------------------
(* Attempts at one key. Apart from opening and settling a row and a restart,  *)
(* a step moves one request along and starts at most that request's work.     *)

Early == {"begun", "probing", "running"}
Waiting == {"probing", "running"}

Advances(r, p) ==
    /\ phase[r] \notin {"idle", "indeterminate"} \/ KeyOf[r] \notin ToolKeys
    /\ phase' = [phase EXCEPT ![r] = p]
    /\ p \in Early => phase[r] \in Early \/ KeyOf[r] \notin ToolKeys
    /\ UNCHANGED <<journal, owned>>
    /\ \A k \in Keys : starts'[k] # starts[k] => k = KeyOf[r] /\ p \notin Early
    /\ \A q \in Requests \ {r} : resume'[q] = resume[q]
    /\ p \in Waiting =>
         \/ phase[r] \in Waiting /\ resume'[r] = resume[r]
         \/ resume'[r] = ResumesInterruptedExecution(KeyOf[r])

LEMMA StepShape ==
    ASSUME TypeOK, [Next]_vars
    PROVE  \/ \E r \in Requests : BeginTool(r)
           \/ \E r \in Requests, p \in Phases : Advances(r, p)
           \/ \E k \in Keys : SettleTool(k)
           \/ Restart
           \/ UNCHANGED <<journal, owned, starts, phase, resume>>
<1> USE DEF Early, Waiting, Phases, Terminal
<1>1. ASSUME NEW r \in Requests, Enter(r) PROVE Advances(r, "probing")
  BY <1>1 DEF Enter, Advances, TypeOK
<1>2. ASSUME NEW r \in Requests, EnterSettled(r) PROVE Advances(r, "failed")
  BY <1>2 DEF EnterSettled, Advances, durable
<1>3. ASSUME NEW r \in Requests, Grant(r) PROVE Advances(r, "running")
  BY <1>3 DEF Grant, Advances
<1>4. ASSUME NEW r \in Requests, Conflict(r) PROVE \E p \in Phases : Advances(r, p)
  BY <1>4 DEF Conflict, Advances, durable
<1>5. ASSUME NEW r \in Requests, Refuse(r) PROVE Advances(r, "indeterminate")
  BY <1>5 DEF Refuse, Advances, durable
<1>6. ASSUME NEW r \in Requests, Start(r) PROVE Advances(r, "working")
  BY <1>6 DEF Start, Advances, TypeOK
<1>7. ASSUME NEW r \in Requests, Reattach(r) PROVE Advances(r, "working")
  BY <1>7 DEF Reattach, Advances, durable
<1>8. ASSUME NEW r \in Requests, CannotStart(r) \/ Finish(r) \/ Fail(r)
      PROVE  \E p \in Phases : Advances(r, p)
  <2>1. phase[r] \in {"running", "working"}
    BY <1>8 DEF CannotStart, Finish, Fail
  <2>2. PICK p \in Terminal : Leave(r, p)
    BY <1>8 DEF CannotStart, Finish, Fail
  <2>3. QED
    BY <2>1, <2>2 DEF Leave, Advances
<1>9. ASSUME NEW r \in Requests, ProbeFinished(r) \/ Observed(r) \/ HeartbeatTick(r)
      PROVE  UNCHANGED <<journal, owned, starts, phase, resume>>
  BY <1>9 DEF ProbeFinished, Observed, HeartbeatTick, durable
<1>10. ASSUME (\E k \in Keys : WorkEnds(k)) \/ Tick \/ ContainerLost \/ UNCHANGED vars
       PROVE  UNCHANGED <<journal, owned, starts, phase, resume>>
  BY <1>10 DEF WorkEnds, Tick, ContainerLost, vars
<1>11. QED
  BY <1>1, <1>2, <1>3, <1>4, <1>5, <1>6, <1>7, <1>8, <1>9, <1>10 DEF Next, Step

\* A row that is absent was never begun, so nothing started under its key.
LEMMA NothingStep == StepInv /\ [Next]_vars => NothingBeforeBegin'
<1> SUFFICES ASSUME StepInv, [Next]_vars PROVE NothingBeforeBegin'
  OBVIOUS
<1> USE LaneConstants DEF StepInv, NothingBeforeBegin
<1>1. ASSUME NEW r \in Requests, BeginTool(r) PROVE NothingBeforeBegin'
  BY <1>1 DEF BeginTool, BeginFresh, BeginAgain, BeginAnswer, TypeOK
<1>2. ASSUME NEW r \in Requests, NEW p \in Phases, Advances(r, p) PROVE NothingBeforeBegin'
  BY <1>2 DEF Advances, TypeOK
<1>3. ASSUME NEW k \in Keys, SettleTool(k) PROVE NothingBeforeBegin'
  BY <1>3 DEF SettleTool, TypeOK
<1>4. CASE Restart
  BY <1>4 DEF Restart, InOperation, TypeOK
<1>5. CASE UNCHANGED <<journal, owned, starts, phase, resume>>
  BY <1>5
<1>6. QED
  BY <1>1, <1>2, <1>3, <1>4, <1>5, StepShape

\* A call decides whether it resumes from the rows this instance owns, and those
\* are given up only when the row settles or the instance goes.
LEMMA FreshExecStep == StepInv /\ [Next]_vars => FreshExecIsOwned'
<1> SUFFICES ASSUME StepInv, [Next]_vars PROVE FreshExecIsOwned'
  OBVIOUS
<1> USE LaneConstants DEF StepInv, FreshExecIsOwned
<1>1. ASSUME NEW r \in Requests, BeginTool(r) PROVE FreshExecIsOwned'
  <2>1. \A q \in Requests : phase'[q] \in Waiting => phase[q] \in Waiting /\ q # r
    BY <1>1 DEF BeginTool, BeginFresh, BeginAgain, BeginAnswer, Waiting, TypeOK
  <2>2. /\ owned \subseteq owned' /\ resume' = resume
        /\ journal' = journal \/ (journal' = [journal EXCEPT ![KeyOf[r]] = "running"]
                                   /\ KeyOf[r] \in owned')
    BY <1>1 DEF BeginTool, BeginFresh, BeginAgain, BeginAnswer
  <2>3. QED
    BY <2>1, <2>2 DEF Waiting, TypeOK
<1>2. ASSUME NEW r \in Requests, NEW p \in Phases, Advances(r, p) PROVE FreshExecIsOwned'
  <2>1. ASSUME NEW q \in Requests, q # r, phase'[q] \in Waiting
        PROVE  phase[q] \in Waiting /\ resume'[q] = resume[q]
    BY <1>2, <2>1 DEF Advances, TypeOK
  <2>2. ASSUME phase'[r] \in Waiting, phase[r] \notin Waiting \/ resume'[r] # resume[r]
        PROVE  resume'[r] = ResumesInterruptedExecution(KeyOf[r])
    BY <1>2, <2>2 DEF Advances, TypeOK
  <2>3. UNCHANGED <<journal, owned>>
    BY <1>2 DEF Advances
  <2>4. QED
    BY <2>1, <2>2, <2>3 DEF Waiting, ResumesInterruptedExecution
<1>3. ASSUME NEW k \in Keys, SettleTool(k) PROVE FreshExecIsOwned'
  BY <1>3 DEF SettleTool, TypeOK
<1>4. CASE Restart
  BY <1>4 DEF Restart, InOperation, TypeOK
<1>5. CASE UNCHANGED <<journal, owned, starts, phase, resume>>
  BY <1>5
<1>6. QED
  BY <1>1, <1>2, <1>3, <1>4, <1>5, StepShape

\* Begin lets one attempt past a row that cannot be re-attached, so while that
\* attempt has not started its work nobody else has.
LEMMA FirstAttemptStep == StepInv /\ [Next]_vars => FirstAttemptIsAlone'
<1> SUFFICES ASSUME StepInv, [Next]_vars PROVE FirstAttemptIsAlone'
  OBVIOUS
<1> USE LaneConstants DEF StepInv, FirstAttemptIsAlone
<1>1. ASSUME NEW r \in Requests, BeginTool(r) PROVE FirstAttemptIsAlone'
  <2>1. CASE BeginFresh(r)
    <3>1. starts[KeyOf[r]] = 0
      BY <1>1, <2>1 DEF BeginFresh, BeginTool, NothingBeforeBegin
    <3>2. \A q \in Requests : KeyOf[q] = KeyOf[r] => phase[q] = "idle"
      BY <1>1, <2>1 DEF BeginFresh, BeginTool, NothingBeforeBegin
    <3>3. /\ starts' = starts /\ phase' = [phase EXCEPT ![r] = "begun"]
          /\ journal' = [journal EXCEPT ![KeyOf[r]] = "running"]
      BY <2>1 DEF BeginFresh, BeginAnswer
    <3>4. QED
      BY <3>1, <3>2, <3>3 DEF TypeOK
  <2>2. CASE BeginAgain(r)
    <3>1. PICK p \in {"begun", "replayed", "indeterminate"} :
             /\ phase' = [phase EXCEPT ![r] = p]
             /\ p = "replayed" => journal[KeyOf[r]] = "settled"
             /\ p = "begun" => KindOf[KeyOf[r]] = "exec"
      BY <2>2 DEF BeginAgain, BeginAnswer
    <3>2. UNCHANGED <<starts, journal>>
      BY <2>2 DEF BeginAgain, BeginAnswer
    <3>3. QED
      BY <1>1, <3>1, <3>2 DEF BeginTool, TypeOK
  <2>3. QED
    BY <1>1, <2>1, <2>2 DEF BeginTool
<1>2. ASSUME NEW r \in Requests, NEW p \in Phases, Advances(r, p) PROVE FirstAttemptIsAlone'
  <2>1. /\ phase' = [phase EXCEPT ![r] = p] /\ UNCHANGED journal
        /\ p \in Early => phase[r] \in Early \/ KeyOf[r] \notin ToolKeys
    BY <1>2 DEF Advances
  <2>2. ASSUME NEW q \in Requests, phase[q] \in Early, KeyOf[q] \in ToolKeys,
               KindOf[KeyOf[q]] # "exec", KeyOf[q] = KeyOf[r]
        PROVE  q = r
    BY <1>2, <2>2 DEF Advances, Early
  <2>3. QED
    BY <1>2, <2>1, <2>2 DEF Advances, Early, TypeOK
<1>3. ASSUME NEW k \in Keys, SettleTool(k) PROVE FirstAttemptIsAlone'
  <2>1. PICK q \in Requests : KeyOf[q] = k /\ phase[q] \in {"done", "failed"}
    BY <1>3 DEF SettleTool
  <2>2. QED
    BY <1>3, <2>1 DEF SettleTool, TypeOK
<1>4. CASE Restart
  BY <1>4 DEF Restart, InOperation, TypeOK
<1>5. CASE UNCHANGED <<journal, owned, starts, phase, resume>>
  BY <1>5
<1>6. QED
  BY <1>1, <1>2, <1>3, <1>4, <1>5, StepShape

\* Together: the invariant the two properties of steps rest on.
THEOREM StepInvariant == Spec => []StepInv
<1>1. Init => StepInv
  <2>1. Init => TypeOK /\ HolderIsExclusive
    BY LaneConstants DEF Init, TypeOK, NoLane, NoProbe, NoBeat, LeaseUnits, Phases,
                         HolderIsExclusive, InOperation
  <2>2. Init => LaneOrigin /\ ProbeIsSound
    BY DEF Init, LaneOrigin, ProbeIsSound, NoLane, NoProbe
  <2>3. Init => NothingBeforeBegin /\ FreshExecIsOwned /\ FirstAttemptIsAlone
    BY LaneConstants DEF Init, NothingBeforeBegin, FreshExecIsOwned, FirstAttemptIsAlone
  <2>4. QED
    BY <2>1, <2>2, <2>3 DEF StepInv
<1>2. StepInv /\ [Next]_vars => StepInv'
  <2>1. StepInv /\ [Next]_vars => TypeOK' /\ HolderIsExclusive'
    BY TypeStep, ExclusiveStep DEF StepInv
  <2>2. QED
    BY <2>1, OriginStep, ProbeStep, NothingStep, FreshExecStep, FirstAttemptStep DEF StepInv
<1>3. QED
  BY <1>1, <1>2, PTL DEF Spec

\* A takeover before the deadline leaves no two commands on the project: the old
\* holder is not running here, and it is the same key, over, or a validation.
THEOREM EarlyTakeover == Spec => EarlyTakeoverIsSafe
<1> DEFINE Taken == lane.owner # None /\ lane'.owner \notin {None, lane.owner} /\ lane.left > 0
           Safe == /\ lane.owner \notin active
                   /\ \/ lane'.key = lane.key
                      \/ effect[lane.key] # "running"
                      \/ KindOf[lane.key] = "validate"
<1>1. StepInv /\ [Next]_vars => [Taken => Safe]_vars
  <2> SUFFICES ASSUME StepInv, Next, Taken PROVE Safe
    BY DEF vars
  <2> USE DEF StepInv
  <2>1. ASSUME NEW r \in Requests, Grant(r) PROVE Safe
    <3>1. ~Occupied(r) /\ ~OwnerIsActive
      BY <2>1, LaneConstants DEF Grant, Grantable, Occupied
    <3>2. lane.left > 0 => RecoverableEarly \/ Resuming(r) \/ HolderSettled(r)
      BY <3>1 DEF Occupied
    <3>3. CASE HolderSettled(r)
      BY <3>1, <3>3 DEF HolderSettled, ProbeIsSound, OwnerIsActive
    <3>4. CASE RecoverableEarly \/ Resuming(r)
      BY <2>1, <3>1, <3>4 DEF RecoverableEarly, Resuming, Grant, OwnerIsActive
    <3>5. QED
      BY <3>2, <3>3, <3>4
  <2>2. ASSUME ~\E r \in Requests : Grant(r) PROVE lane'.owner \in {None, lane.owner}
    <3>1. ASSUME NEW r \in Requests, HeartbeatTick(r) PROVE lane'.owner = lane.owner
      BY <3>1 DEF HeartbeatTick, RenewedLane, TypeOK
    <3>2. ASSUME NEW r \in Requests, CannotStart(r) \/ Finish(r) \/ Fail(r)
          PROVE  lane'.owner \in {None, lane.owner}
      BY <3>2 DEF CannotStart, Finish, Fail, Leave, ReleasedLane, NoLane
    <3>3. ASSUME NEW r \in Requests,
                 \/ BeginTool(r) \/ Enter(r) \/ EnterSettled(r) \/ ProbeFinished(r)
                 \/ Conflict(r) \/ Refuse(r) \/ Start(r) \/ Reattach(r) \/ Observed(r)
          PROVE  lane' = lane
      BY <3>3 DEF BeginTool, BeginFresh, BeginAgain, BeginAnswer, Enter, EnterSettled,
                  ProbeFinished, Conflict, Refuse, Start, Reattach, Observed, durable
    <3>4. ASSUME (\E k \in Keys : SettleTool(k) \/ WorkEnds(k)) \/ ContainerLost \/ Restart
          PROVE  lane' = lane
      BY <3>4 DEF SettleTool, WorkEnds, ContainerLost, Restart
    <3>5. CASE Tick
      BY <3>5 DEF Tick, TypeOK
    <3>6. QED
      BY <2>2, <3>1, <3>2, <3>3, <3>4, <3>5 DEF Next, Step
  <2>3. QED
    BY <2>1, <2>2
<1>2. QED
  BY <1>1, StepInvariant, PTL DEF Spec, EarlyTakeoverIsSafe

\* After a restart no path starts the work of a tool call again: a second attempt
\* re-attaches to the command of an earlier instance or fails.
THEOREM ToolWorkIsNotRepeated == Spec => InterruptedToolWorkIsNotRepeated
<1> DEFINE Kept == \A k \in ToolKeys : (starts[k] >= 1 /\ k \notin owned) => starts'[k] = starts[k]
<1>1. StepInv /\ [Next]_vars => [Kept]_vars
  <2> SUFFICES ASSUME StepInv, Next, NEW k \in ToolKeys, starts[k] >= 1, k \notin owned
               PROVE  starts'[k] = starts[k]
    BY DEF vars
  <2> USE LaneConstants DEF StepInv
  <2>1. ASSUME NEW r \in Requests, Start(r) PROVE starts'[k] = starts[k]
    <3>1. CASE KeyOf[r] = k
      <4>1. phase[r] = "running" /\ ~resume[r] /\ journal[k] = "running"
        BY <2>1, <3>1 DEF Start, MayStart
      <4>2. KindOf[k] # "exec"
        BY <3>1, <4>1 DEF FreshExecIsOwned
      <4>3. starts[k] = 0
        BY <3>1, <4>1, <4>2 DEF FirstAttemptIsAlone
      <4>4. QED
        BY <4>3
    <3>2. CASE KeyOf[r] # k
      BY <2>1, <3>2 DEF Start, TypeOK
    <3>3. QED
      BY <3>1, <3>2
  <2>2. ASSUME ~\E r \in Requests : Start(r) PROVE starts' = starts
    BY <2>2 DEF Next, Step, BeginTool, BeginFresh, BeginAgain, BeginAnswer, Enter, EnterSettled,
                ProbeFinished, Grant, Conflict, Refuse, Reattach, CannotStart, Finish, Fail, Leave,
                Observed, HeartbeatTick, SettleTool, WorkEnds, Tick, ContainerLost, Restart, durable
  <2>3. QED
    BY <2>1, <2>2
<1>2. QED
  BY <1>1, StepInvariant, PTL DEF Spec, InterruptedToolWorkIsNotRepeated

-----------------------------------------------------------------------------
(* What is adopted was started.                                               *)

\* Whatever the container or the instance shows of a key was started under it.
EffectWasStarted == \A k \in Keys : effect[k] # "none" => starts[k] >= 1

LEMMA AdoptedStep ==
    TypeOK /\ EffectWasStarted /\ AdoptedWorkWasStarted /\ [Next]_vars
        => EffectWasStarted' /\ AdoptedWorkWasStarted'
<1> SUFFICES ASSUME TypeOK, EffectWasStarted, AdoptedWorkWasStarted, [Next]_vars
             PROVE  EffectWasStarted' /\ AdoptedWorkWasStarted'
    OBVIOUS
<1> USE LaneConstants DEF TypeOK, EffectWasStarted, AdoptedWorkWasStarted
<1>1. ASSUME NEW r \in Requests, Step(r)
      PROVE  EffectWasStarted' /\ AdoptedWorkWasStarted'
    <2> KeyOf[r] \in Keys
        OBVIOUS
    <2>1. CASE BeginTool(r) \/ Enter(r) \/ EnterSettled(r) \/ ProbeFinished(r)
        BY <2>1 DEF BeginTool, BeginFresh, BeginAgain, BeginAnswer, Enter, EnterSettled,
                    ProbeFinished, durable
    <2>2. CASE Grant(r) \/ Conflict(r) \/ Refuse(r)
        BY <2>2 DEF Grant, Conflict, Refuse, durable
    <2>3. CASE Start(r)
        BY <2>3 DEF Start
    <2>4. CASE Reattach(r)
        BY <2>4 DEF Reattach, Observable, durable
    <2>5. CASE CannotStart(r) \/ Finish(r) \/ Fail(r)
        BY <2>5 DEF CannotStart, Finish, Fail, Leave
    <2>6. CASE Observed(r) \/ HeartbeatTick(r)
        BY <2>6 DEF Observed, HeartbeatTick, durable
    <2> QED BY <1>1, <2>1, <2>2, <2>3, <2>4, <2>5, <2>6 DEF Step
<1>2. ASSUME NEW k \in Keys, SettleTool(k) \/ WorkEnds(k)
      PROVE  EffectWasStarted' /\ AdoptedWorkWasStarted'
    BY <1>2 DEF SettleTool, WorkEnds
<1>3. CASE Tick
    BY <1>3 DEF Tick
<1>4. CASE ContainerLost
    BY <1>4 DEF ContainerLost, Observable
<1>5. CASE Restart
    BY <1>5 DEF Restart
<1>6. CASE UNCHANGED vars
    BY <1>6 DEF vars
<1> QED BY <1>1, <1>2, <1>3, <1>4, <1>5, <1>6 DEF Next

\* For any callers and keys, work in an operation was started by its own key: an
\* adopted execution is never somebody else's (ResumesInterruptedExecution).
THEOREM AdoptedWork == Spec => []AdoptedWorkWasStarted
<1>1. Init => EffectWasStarted /\ AdoptedWorkWasStarted
    BY DEF Init, EffectWasStarted, AdoptedWorkWasStarted
<1> QED BY <1>1, TypeCorrect, AdoptedStep, PTL DEF Spec
=============================================================================
