---------------------------- MODULE WorkspaceLane ----------------------------
(* The operation lane of one ProjectWorkspace Durable Object: the single      *)
(* SQLite row that serializes stateful operations, the heartbeat that renews  *)
(* it, the probe that finds an interrupted holder settled, and the in-memory  *)
(* bookkeeping a restart of the object loses.                                 *)
(*                                                                            *)
(* Sources: user-workspace-runtime/src/workspace-operation-lane.ts,           *)
(* operation-lease-heartbeat.ts, operation-lease-policy.ts,                   *)
(* interrupted-exec-settlement.ts and withStatefulOperation in index.ts.      *)
(*                                                                            *)
(* Time is kept as what is left of each deadline, so the clock needs no       *)
(* bound: one unit is a third of a lease (HEARTBEAT_TICKS_PER_LEASE).         *)
EXTENDS Naturals, FiniteSets

CONSTANTS
    Requests,   \* one withStatefulOperation call each; also its lane owner (a fresh UUID)
    Keys,       \* idempotency keys
    KeyOf,      \* the key a request runs under
    KindOf,     \* the kind of operation a key names
    ToolKeys,   \* keys `tool:<id>`, whose calls the tool journal records
    Horizon,    \* units of silence that still count as proof of life
    None

LeaseUnits == 3
Kinds == {"seed", "write", "exec", "install", "validate"}

ASSUME LaneConstants ==
    /\ KeyOf \in [Requests -> Keys]
    /\ KindOf \in [Keys -> Kinds]
    /\ ToolKeys \subseteq Keys
    /\ Horizon \in Nat
    /\ None \notin Requests \cup Keys

VARIABLES
    lane,     \* cloudchef_operation_lane: owner, key and what is left of the deadline
    journal,  \* the journal's status of each tool key
    effect,   \* what each key's work is doing, as its container or instance has it
    starts,   \* how often each key's work was started (capped at 2)
    active,   \* #activeOperationOwners, lost with the instance
    owned,    \* #ownedToolOperations, lost with the instance
    phase,    \* where each request is
    resume,   \* resumesInterruptedExecution, read when the request entered
    probe,    \* the holder a request asked the container about, and its answer
    beat      \* each request's heartbeat

durable == <<lane, journal, effect, starts>>
vars == <<lane, journal, effect, starts, active, owned, phase, resume, probe, beat>>

NoLane == [owner |-> None, key |-> None, left |-> 0]
NoProbe == [owner |-> None, key |-> None, finished |-> FALSE]
NoBeat == [state |-> "off", due |-> 0, silent |-> LeaseUnits, horizon |-> 0]

Terminal == {"done", "failed", "indeterminate", "replayed", "interrupted"}
Phases == Terminal \cup {"idle", "begun", "probing", "running", "working"}
InOperation == {"running", "working"}

\* Work of these kinds is a command in the container, which outlives the instance.
InContainer(k) == KindOf[k] \in {"exec", "install"}

\* Lanes a model tool can occupy are renewed; the others keep one lease.
Renewed(k) == KindOf[k] \in {"write", "exec", "install", "validate"}

TypeOK ==
    /\ lane \in [owner : Requests \cup {None}, key : Keys \cup {None}, left : 0..LeaseUnits]
    /\ journal \in [Keys -> {"absent", "running", "settled"}]
    /\ effect \in [Keys -> {"none", "running", "finished", "gone"}]
    /\ starts \in [Keys -> 0..2]
    /\ active \subseteq Requests
    /\ owned \subseteq ToolKeys
    /\ phase \in [Requests -> Phases]
    /\ resume \in [Requests -> BOOLEAN]
    /\ probe \in [Requests -> [owner : Requests \cup {None}, key : Keys \cup {None},
                               finished : BOOLEAN]]
    /\ beat \in [Requests -> [state : {"off", "ticking", "stopped", "lost"}, due : 0..1,
                              silent : 0..LeaseUnits, horizon : 0..Horizon]]

Init ==
    /\ lane = NoLane
    /\ journal = [k \in Keys |-> "absent"]
    /\ effect = [k \in Keys |-> "none"]
    /\ starts = [k \in Keys |-> 0]
    /\ active = {}
    /\ owned = {}
    /\ phase = [r \in Requests |-> "idle"]
    /\ resume = [r \in Requests |-> FALSE]
    /\ probe = [r \in Requests |-> NoProbe]
    /\ beat = [r \in Requests |-> NoBeat]

-----------------------------------------------------------------------------
(* The lane row.                                                              *)

OwnerIsActive == lane.owner \in active

\* Faulty form: a holder counts as settled once it was asked about.
HolderAskedAbout(r) ==
    ~OwnerIsActive /\ lane.owner = probe[r].owner /\ lane.key = probe[r].key

\* Only the holder the container was asked about, still named by the lane.
HolderSettled(r) ==
    /\ ~OwnerIsActive
    /\ probe[r].finished
    /\ lane.owner = probe[r].owner
    /\ lane.key = probe[r].key

Resuming(r) == resume[r] /\ ~OwnerIsActive /\ lane.key = KeyOf[r]

RecoverableEarly == ~OwnerIsActive /\ KindOf[lane.key] = "validate"

\* Faulty form: the lease alone protects a holder.
OccupiedByLease(r) ==
    lane.owner # None /\ lane.left > 0 /\ ~RecoverableEarly /\ ~Resuming(r) /\ ~HolderSettled(r)

Occupied(r) ==
    /\ lane.owner # None
    /\ \/ OwnerIsActive
       \/ /\ lane.left > 0
          /\ ~RecoverableEarly
          /\ ~Resuming(r)
          /\ ~HolderSettled(r)

\* A stale lane answers its own key with "indeterminate" instead of the lane.
Replay(r) == lane.owner # None /\ lane.key = KeyOf[r] /\ ~Resuming(r)

Grantable(r) == ~Occupied(r) /\ ~Replay(r)

\* The holder that is no longer running here but whose lease has not lapsed.
InterruptedHolder ==
    IF lane.owner # None /\ lane.left > 0 /\ ~OwnerIsActive THEN lane ELSE NoLane

ReleasedLane(r) == IF lane.owner = r THEN NoLane ELSE lane

-----------------------------------------------------------------------------
(* A tool call opens its journal row before it asks for the lane.             *)

InFlight(k) == \E r \in Requests :
    KeyOf[r] = k /\ phase[r] \in {"probing"} \cup InOperation

Observable(k) == effect[k] \in {"running", "finished"}

BeginAnswer(r, answer) ==
    /\ phase' = [phase EXCEPT ![r] = answer]
    /\ UNCHANGED <<lane, effect, starts, active, resume, probe, beat>>

\* begin: a fresh row, owned by this instance.
BeginFresh(r) ==
    /\ journal[KeyOf[r]] = "absent"
    /\ journal' = [journal EXCEPT ![KeyOf[r]] = "running"]
    /\ owned' = owned \cup {KeyOf[r]}
    /\ BeginAnswer(r, "begun")

\* begin: a row that exists. 'active' makes the caller poll, so it is no step;
\* an interrupted exec is re-attached only if the container still shows it.
BeginAgain(r) ==
    LET k == KeyOf[r] IN
    /\ UNCHANGED <<journal, owned>>
    /\ \/ journal[k] = "settled" /\ BeginAnswer(r, "replayed")
       \/ /\ journal[k] = "running" /\ ~InFlight(k)
          /\ IF KindOf[k] = "exec" /\ Observable(k)
             THEN BeginAnswer(r, "begun")
             ELSE BeginAnswer(r, "indeterminate")

BeginTool(r) ==
    /\ phase[r] = "idle" /\ KeyOf[r] \in ToolKeys
    /\ BeginFresh(r) \/ BeginAgain(r)

\* The caller records the outcome it was given.
SettleTool(k) ==
    /\ journal[k] = "running"
    /\ \E r \in Requests : KeyOf[r] = k /\ phase[r] \in {"done", "failed"}
    /\ ~InFlight(k)
    /\ journal' = [journal EXCEPT ![k] = "settled"]
    /\ owned' = owned \ {k}
    /\ UNCHANGED <<lane, effect, starts, active, phase, resume, probe, beat>>

-----------------------------------------------------------------------------
(* withStatefulOperation.                                                     *)

\* Faulty form: a row counts as interrupted while this instance owns it.
ResumesOwnedExecution(k) == KindOf[k] = "exec" /\ journal[k] = "running" /\ k \in owned

\* A running row this instance does not own was left by an earlier one.
ResumesInterruptedExecution(k) ==
    KindOf[k] = "exec" /\ journal[k] = "running" /\ k \notin owned

\* Entry: whether the call resumes, and which holder the container is asked about.
Enter(r) ==
    LET k == KeyOf[r]
        holder == InterruptedHolder
    IN
    /\ phase[r] = (IF k \in ToolKeys THEN "begun" ELSE "idle")
    /\ k \in ToolKeys => journal[k] = "running"
    /\ phase' = [phase EXCEPT ![r] = "probing"]
    /\ resume' = [resume EXCEPT ![r] = ResumesInterruptedExecution(k)]
    /\ probe' = [probe EXCEPT ![r] =
         IF holder.owner # None /\ KindOf[holder.key] = "exec" /\ holder.key # k
         THEN [owner |-> holder.owner, key |-> holder.key, finished |-> FALSE]
         ELSE NoProbe]
    /\ UNCHANGED <<lane, journal, effect, starts, active, owned, beat>>

\* assertRunning: another attempt settled the call while this one retried.
EnterSettled(r) ==
    /\ phase[r] = "begun" /\ journal[KeyOf[r]] = "settled"
    /\ phase' = [phase EXCEPT ![r] = "failed"]
    /\ UNCHANGED <<durable, active, owned, resume, probe, beat>>

\* The container answers the probe while other requests run.
ProbeFinished(r) ==
    /\ phase[r] = "probing" /\ probe[r].owner # None
    /\ effect[probe[r].key] = "finished"
    /\ probe' = [probe EXCEPT ![r] =
         [owner |-> probe[r].owner, key |-> probe[r].key, finished |-> TRUE]]
    /\ UNCHANGED <<lane, journal, effect, starts, active, owned, phase, resume, beat>>

NewBeat(r) ==
    IF Renewed(KeyOf[r])
    THEN [state |-> "ticking", due |-> 1, silent |-> LeaseUnits, horizon |-> Horizon]
    ELSE NoBeat

Grant(r) ==
    /\ phase[r] = "probing" /\ Grantable(r)
    /\ lane' = [owner |-> r, key |-> KeyOf[r], left |-> LeaseUnits]
    /\ active' = active \cup {r}
    /\ beat' = [beat EXCEPT ![r] = NewBeat(r)]
    /\ phase' = [phase EXCEPT ![r] = "running"]
    /\ probe' = [probe EXCEPT ![r] = NoProbe]
    /\ UNCHANGED <<journal, effect, starts, owned, resume>>

\* WorkspaceOperationConflictError: the caller asks again later.
Conflict(r) ==
    /\ phase[r] = "probing" /\ Occupied(r)
    /\ phase' = [phase EXCEPT ![r] = IF KeyOf[r] \in ToolKeys THEN "begun" ELSE "idle"]
    /\ probe' = [probe EXCEPT ![r] = NoProbe]
    /\ UNCHANGED <<durable, active, owned, resume, beat>>

\* WorkspaceOperationIndeterminateError: the key's own stale lane.
Refuse(r) ==
    /\ phase[r] = "probing" /\ ~Occupied(r) /\ Replay(r)
    /\ phase' = [phase EXCEPT ![r] = "indeterminate"]
    /\ probe' = [probe EXCEPT ![r] = NoProbe]
    /\ UNCHANGED <<durable, active, owned, resume, beat>>

\* Faulty form: the lane and the owner are not given up on the way out.
LeaveWithoutRelease(r, outcome) ==
    /\ phase' = [phase EXCEPT ![r] = outcome]
    /\ beat' = [beat EXCEPT ![r] = NoBeat]
    /\ UNCHANGED <<lane, active, journal, starts, owned, resume, probe>>

\* Leaving the operation: stop the heartbeat, release the lane, drop the owner.
Leave(r, outcome) ==
    /\ phase' = [phase EXCEPT ![r] = outcome]
    /\ lane' = ReleasedLane(r)
    /\ active' = active \ {r}
    /\ beat' = [beat EXCEPT ![r] = NoBeat]
    /\ UNCHANGED <<journal, starts, owned, resume, probe>>

\* The work itself: a fresh start, or the adoption of what the key already started.
\* A tool call whose row is no longer running throws before it starts anything.
MayStart(r) == KeyOf[r] \in ToolKeys => journal[KeyOf[r]] = "running"

Start(r) ==
    LET k == KeyOf[r] IN
    /\ phase[r] = "running" /\ MayStart(r) /\ ~resume[r]
    /\ InContainer(k) => ~Observable(k)
    /\ effect' = [effect EXCEPT ![k] = "running"]
    /\ starts' = [starts EXCEPT ![k] = IF @ < 2 THEN @ + 1 ELSE @]
    /\ phase' = [phase EXCEPT ![r] = "working"]
    /\ UNCHANGED <<lane, journal, active, owned, resume, probe, beat>>

\* Faulty form: an execution is adopted whether or not the container has it.
ReattachBlindly(r) ==
    /\ phase[r] = "running" /\ MayStart(r) /\ resume[r]
    /\ phase' = [phase EXCEPT ![r] = "working"]
    /\ UNCHANGED <<durable, active, owned, resume, probe, beat>>

Reattach(r) ==
    /\ phase[r] = "running" /\ MayStart(r) /\ resume[r] /\ Observable(KeyOf[r])
    /\ phase' = [phase EXCEPT ![r] = "working"]
    /\ UNCHANGED <<durable, active, owned, resume, probe, beat>>

\* Nothing to adopt, an id the container still holds, or a row that was settled.
CannotStart(r) ==
    LET k == KeyOf[r] IN
    /\ phase[r] = "running"
    /\ \/ ~MayStart(r)
       \/ resume[r] /\ ~Observable(k)
       \/ ~resume[r] /\ InContainer(k) /\ Observable(k)
    /\ Leave(r, "failed")
    /\ UNCHANGED effect

\* The work ended; the result counts only while the heartbeat did not lose the lane.
\* disposeExec is best effort, so the container may go on showing the execution.
Finish(r) ==
    LET k == KeyOf[r] IN
    /\ phase[r] = "working" /\ effect[k] # "running"
    /\ Leave(r, IF beat[r].state = "lost" \/ effect[k] = "gone" THEN "failed" ELSE "done")
    /\ effect' \in {effect, [effect EXCEPT ![k] = "gone"]}

\* The operation fails first (a broken stream): its command is killed, or its
\* termination could not be confirmed and the command goes on.
Fail(r) ==
    LET k == KeyOf[r] IN
    /\ phase[r] = "working"
    /\ Leave(r, "failed")
    /\ effect' \in {[effect EXCEPT ![k] = "gone"]}
                   \cup (IF InContainer(k) THEN {effect} ELSE {})

-----------------------------------------------------------------------------
(* The heartbeat, the clock, the container and the instance.                  *)

Observed(r) ==
    /\ phase[r] = "working" /\ Renewed(KeyOf[r])
    /\ beat' = [beat EXCEPT ![r].silent = 0]
    /\ UNCHANGED <<durable, active, owned, phase, resume, probe>>

ProofOfLife(r) == beat[r].silent < LeaseUnits \/ beat[r].horizon > 0

Renewable(r) == lane.owner = r /\ lane.key = KeyOf[r] /\ lane.left > 0

\* Faulty form: a renewal extends the deadline instead of starting from now.
ExtendedLane == [lane EXCEPT !.left = @ + LeaseUnits]

RenewedLane == [lane EXCEPT !.left = LeaseUnits]

\* #tick: renew, lose the lane, or stop renewing for want of a proof of life.
\* A timer is never early; it may be late.
HeartbeatTick(r) ==
    /\ beat[r].state = "ticking" /\ beat[r].due = 0
    /\ \/ /\ ProofOfLife(r) /\ Renewable(r)
          /\ lane' = RenewedLane
          /\ beat' = [beat EXCEPT ![r].due = 1]
       \/ /\ ProofOfLife(r) /\ ~Renewable(r)
          /\ beat' = [beat EXCEPT ![r].state = "lost"]
          /\ UNCHANGED lane
       \/ /\ ~ProofOfLife(r)
          /\ beat' = [beat EXCEPT ![r].state = "stopped"]
          /\ UNCHANGED lane
    /\ UNCHANGED <<journal, effect, starts, active, owned, phase, resume, probe>>

Less(n) == IF n = 0 THEN 0 ELSE n - 1

Tick ==
    /\ lane' = [lane EXCEPT !.left = Less(@)]
    /\ beat' = [r \in Requests |->
         IF beat[r].state = "off" THEN beat[r]
         ELSE [beat[r] EXCEPT !.due = Less(@), !.horizon = Less(@),
                              !.silent = IF @ = LeaseUnits THEN @ ELSE @ + 1]]
    /\ UNCHANGED <<journal, effect, starts, active, owned, phase, resume, probe>>

WorkEnds(k) ==
    /\ effect[k] = "running"
    /\ effect' = [effect EXCEPT ![k] = "finished"]
    /\ UNCHANGED <<lane, journal, starts, active, owned, phase, resume, probe, beat>>

\* The platform replaces the container: every command in it is gone.
ContainerLost ==
    /\ \E k \in Keys : InContainer(k) /\ Observable(k)
    /\ effect' = [k \in Keys |-> IF InContainer(k) /\ Observable(k) THEN "gone" ELSE effect[k]]
    /\ UNCHANGED <<lane, journal, starts, active, owned, phase, resume, probe, beat>>

\* A code update or an eviction resets the object: memory and running calls go,
\* rows and container commands stay. A caller that had only begun is unaffected.
Restart ==
    /\ active' = {} /\ owned' = {}
    /\ phase' = [r \in Requests |->
         IF phase[r] \in {"probing"} \cup InOperation THEN "interrupted" ELSE phase[r]]
    /\ effect' = [k \in Keys |->
         IF ~InContainer(k) /\ effect[k] = "running" THEN "gone" ELSE effect[k]]
    /\ beat' = [r \in Requests |-> NoBeat]
    /\ probe' = [r \in Requests |-> NoProbe]
    /\ resume' = [r \in Requests |-> FALSE]
    /\ UNCHANGED <<lane, journal, starts>>

-----------------------------------------------------------------------------
Step(r) ==
    \/ BeginTool(r) \/ Enter(r) \/ EnterSettled(r) \/ ProbeFinished(r)
    \/ Grant(r) \/ Conflict(r) \/ Refuse(r)
    \/ Start(r) \/ Reattach(r) \/ CannotStart(r) \/ Finish(r) \/ Fail(r)
    \/ Observed(r) \/ HeartbeatTick(r)

Next ==
    \/ \E r \in Requests : Step(r)
    \/ \E k \in Keys : SettleTool(k) \/ WorkEnds(k)
    \/ Tick \/ ContainerLost \/ Restart

Spec == Init /\ [][Next]_vars

\* Callers retry through a conflict until they are answered, commands end, time
\* passes; nothing forces a restart, a lost container or a failure.
Fairness ==
    /\ WF_vars(Tick)
    /\ \A k \in Keys : WF_vars(WorkEnds(k)) /\ WF_vars(SettleTool(k))
    /\ \A r \in Requests :
         /\ WF_vars(BeginTool(r)) /\ WF_vars(Enter(r)) /\ WF_vars(EnterSettled(r))
         /\ SF_vars(Grant(r)) /\ WF_vars(Conflict(r)) /\ WF_vars(Refuse(r))
         /\ WF_vars(Start(r)) /\ WF_vars(Reattach(r)) /\ WF_vars(CannotStart(r))
         /\ WF_vars(Finish(r))

FairSpec == Spec /\ Fairness

-----------------------------------------------------------------------------
(* Properties.                                                                *)

\* While an operation runs in the live instance the lane names it, even after
\* its lease lapsed or its heartbeat gave up: at most one runs at a time.
HolderIsExclusive ==
    /\ \A r \in active : lane.owner = r
    /\ \A r \in Requests : phase[r] \in InOperation => r \in active

\* Work of a tool call that an earlier instance started is never started again:
\* after a restart every path to the container under that key adopts or fails.
InterruptedToolWorkIsNotRepeated ==
    [][ \A k \in ToolKeys : (starts[k] >= 1 /\ k \notin owned) => starts'[k] = starts[k] ]_vars

\* A lease is taken from its holder before it lapses only if that cannot put
\* two commands on the project: the holder is not running here, and its key
\* resumes its own command, or its command is over, or it was a validation,
\* which works on an isolated copy.
EarlyTakeoverIsSafe ==
    [][ (lane.owner # None /\ lane'.owner \notin {None, lane.owner} /\ lane.left > 0)
        => /\ lane.owner \notin active
           /\ \/ lane'.key = lane.key
              \/ effect[lane.key] # "running"
              \/ KindOf[lane.key] = "validate" ]_vars

\* An adopted command is the one its own call started before: a re-attachment
\* never reports an outcome for work that this key did not start.
AdoptedWorkWasStarted ==
    \A r \in Requests : phase[r] = "working" => starts[KeyOf[r]] >= 1

\* Every request is answered in the end, by an outcome or by the instance's
\* death: neither a dead holder nor a busy lane keeps a caller retrying for ever.
EveryRequestIsAnswered == <>(\A r \in Requests : phase[r] \in Terminal)
=============================================================================
