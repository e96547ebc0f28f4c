---------------------------- MODULE UpgradeWindow ----------------------------
(* Work in one workspace runtime against the upgrades that redeploy it: the   *)
(* activity rows and the upgrade window in the runtime's D1, the agents and   *)
(* project builders that record themselves busy, and the upgrade Workflows    *)
(* that claim the window, redeploy the Worker and hold the window until the   *)
(* new runtime serves.                                                        *)
(*                                                                            *)
(* Sources: user-workspace-runtime-activity.ts (statements),                  *)
(* builder-runtime-activity.ts (agents), project-builder.ts (builders),       *)
(* readiness-route.ts, user-workspace-runtime-upgrade-window.ts and           *)
(* user-workspace-runtime-provisioning.ts (upgrades).                         *)
(*                                                                            *)
(* Time is kept as ages and as what is left of the window, so the clock needs *)
(* no bound. A row too old to count in any statement is no row.               *)
EXTENDS Naturals, Sequences

CONSTANTS
    Agents, Builders,  \* parties with an activity row
    Works, OwnerOf,    \* pieces of work, each counted by its agent
    Limited,           \* works with a longest wait: turns
    Upgrades,          \* holders: one Workflow instance each
    Reconnects,        \* upgrades of a runtime of an earlier connection generation
    Stages,            \* steps run with the window held after the redeploy
    WindowUnits, QuietUnits, LeaseUnits, RenewalUnits,
    AdmissionUnits,    \* UNRECORDED_ADMISSION_WAIT_MS
    WaitUnits,         \* TURN_UPGRADE_WAIT_MS, EARLIER_GENERATION_MAX_WAIT_MS
    WorkUnits,         \* longest time from the answer to a work's record to its end
    MaxQueue, MaxFaults,  \* bounds
    None

LongestWait == IF AdmissionUnits > WaitUnits THEN AdmissionUnits ELSE WaitUnits

Parties == Agents \cup Builders

ASSUME UpgradeConstants ==
    /\ Agents \cap Builders = {}
    /\ OwnerOf \in [Works -> Agents]
    /\ Limited \subseteq Works /\ Reconnects \subseteq Upgrades
    /\ None \notin Parties \cup Works \cup Upgrades
    /\ {Stages, WindowUnits, QuietUnits, LeaseUnits, RenewalUnits} \subseteq Nat \ {0}
    /\ {AdmissionUnits, WaitUnits, WorkUnits, MaxQueue, MaxFaults} \subseteq Nat
    \* RUNTIME_BUSY_LEASE_MS: a turn's wall clock and half an hour, over a renewal.
    /\ RenewalUnits + WorkUnits <= LeaseUnits

VARIABLES
    row,       \* runtime_activity: each party's row
    window,    \* runtime_upgrade_window: its holder and what is left of it
    recorded,  \* what each agent last recorded, in memory
    queue,     \* the writes each agent has queued
    work,      \* where each piece of work is
    builder,   \* where each builder's runNext is
    upgrade,   \* where each upgrade's Workflow is
    misled,    \* history: agents whose row may say idle without their knowing
    faults     \* failures so far

database == <<row, window>>
agentMemory == <<recorded, queue, work, misled>>
vars == <<row, window, recorded, queue, work, builder, upgrade, misled, faults>>

NoRow == [busy |-> FALSE, age |-> QuietUnits]
Row(busy) == [busy |-> busy, age |-> 0]
NoWindow == [holder |-> None, left |-> 0]
NoRecord == [busy |-> FALSE, age |-> 0, known |-> FALSE]
NoWork == [pc |-> "none", sure |-> FALSE, age |-> 0, waited |-> 0]
NoUpgrade == [pc |-> "none", stage |-> 1, waited |-> 0, windowed |-> TRUE]

WorkPhases == {"none", "recording", "reading", "held", "unsure", "working"}
BuilderPhases == {"idle", "mark", "check", "unmark", "working"}
UpgradePhases == {"none", "claim", "deploy", "hold", "operate", "release", "mark"}

TypeOK ==
    /\ row \in [Parties -> [busy : BOOLEAN, age : 0..(LeaseUnits + QuietUnits)]]
    /\ window \in [holder : Upgrades \cup {None}, left : 0..WindowUnits]
    /\ recorded \in [Agents -> [busy : BOOLEAN, age : 0..RenewalUnits, known : BOOLEAN]]
    /\ queue \in [Agents -> Seq([busy : BOOLEAN, work : Works \cup {None}])]
    /\ work \in [Works -> [pc : WorkPhases, sure : BOOLEAN, age : 0..WorkUnits,
                           waited : 0..LongestWait]]
    /\ builder \in [Builders -> [pc : BuilderPhases, age : 0..WorkUnits]]
    /\ upgrade \in [Upgrades -> [pc : UpgradePhases, stage : 1..(Stages + 1),
                                 waited : 0..WaitUnits, windowed : BOOLEAN]]
    /\ misled \subseteq Agents /\ faults \in 0..MaxFaults

Init ==
    /\ row = [p \in Parties |-> NoRow]
    /\ window = NoWindow
    /\ recorded = [a \in Agents |-> NoRecord]
    /\ queue = [a \in Agents |-> <<>>]
    /\ work = [w \in Works |-> NoWork]
    /\ builder = [b \in Builders |-> [pc |-> "idle", age |-> 0]]
    /\ upgrade = [u \in Upgrades |-> NoUpgrade]
    /\ misled = {} /\ faults = 0

Fault == faults < MaxFaults /\ faults' = faults + 1

-----------------------------------------------------------------------------
(* The statements on the runtime's database.                                  *)

BusyRow(p) == row[p].busy /\ row[p].age < LeaseUnits
JustEnded(p) == ~row[p].busy /\ row[p].age < QuietUnits

WindowOpen == window.left > 0
OwnWindow(u) == WindowOpen /\ window.holder = u

\* Faulty form: an upgrade takes over a window another one holds.
ClaimOverAnother(u) == OwnWindow(u) \/ \A p \in Parties : ~BusyRow(p) /\ ~JustEnded(p)

Claimable(u) ==
    \/ OwnWindow(u)
    \/ ~WindowOpen /\ \A p \in Parties : ~BusyRow(p) /\ ~JustEnded(p)

\* Faulty form: a window that lapsed is opened again whatever is busy.
HoldAfterLapse(u) == OwnWindow(u) \/ ~WindowOpen

Holdable(u) ==
    \/ OwnWindow(u)
    \/ ~WindowOpen /\ \A p \in Parties : ~BusyRow(p)

OpenedFor(u) == [holder |-> u, left |-> WindowUnits]

ClosedBy(u) == IF window.holder = u THEN NoWindow ELSE window

-----------------------------------------------------------------------------
(* An agent's activity: work is counted from before it is admitted until it   *)
(* settles, and writes go one at a time.                                      *)

WorkOf(a) == {w \in Works : OwnerOf[w] = a}

Busy(a, works) == \E w \in WorkOf(a) : works[w].pc # "none"

\* record(): the busy state of this moment, written when its turn comes.
Enqueued(a, w, works) ==
    [queue EXCEPT ![a] = Append(@, [busy |-> Busy(a, works), work |-> w])]

RoomToRecord(a) == Len(queue[a]) < MaxQueue

\* begin()
Begin(w) ==
    LET a == OwnerOf[w]
        works == [work EXCEPT ![w] = [NoWork EXCEPT !.pc = "recording"]]
    IN  /\ work[w].pc = "none" /\ RoomToRecord(a)
        /\ work' = works
        /\ queue' = Enqueued(a, w, works)
        /\ UNCHANGED <<row, window, recorded, builder, upgrade, misled, faults>>

\* Once the database cannot say: retried, and past the longest wait it starts.
Unanswered(w) ==
    IF work[w].waited >= AdmissionUnits
    THEN [work EXCEPT ![w] = [NoWork EXCEPT !.pc = "working"]]
    ELSE [work EXCEPT ![w].pc = "unsure", ![w].age = 0]

Recorded(w) ==
    IF w = None THEN work ELSE [work EXCEPT ![w].pc = "reading", ![w].age = 0]

\* Faulty form: a failed write never answers who waits for it.
LeftWaiting(w) == work

NotRecorded(w) == IF w = None THEN work ELSE Unanswered(w)

\* Faulty form: a write of what the agent is already known to be is skipped.
SkipWhateverAge(a) ==
    LET next == Head(queue[a]) IN recorded[a].known /\ recorded[a].busy = next.busy

Skippable(a) ==
    LET next == Head(queue[a]) IN
    /\ recorded[a].known /\ recorded[a].busy = next.busy
    /\ ~next.busy \/ recorded[a].age < RenewalUnits

\* A write that is heard puts a row right; one over running work in an open window is late.
Heard(a, busy) == IF busy /\ WindowOpen THEN misled ELSE misled \ {a}

\* write(): the head of the queue; a failed write leaves what was recorded, and
\* the database may have committed it all the same.
Write(a) ==
    LET next == Head(queue[a]) IN
    /\ queue[a] # <<>>
    /\ queue' = [queue EXCEPT ![a] = Tail(@)]
    /\ \/ /\ Skippable(a)
          /\ work' = Recorded(next.work)
          /\ UNCHANGED <<row, recorded, misled, faults>>
       \/ /\ ~Skippable(a)
          /\ row' = [row EXCEPT ![a] = Row(next.busy)]
          /\ recorded' = [recorded EXCEPT ![a] = [busy |-> next.busy, age |-> 0, known |-> TRUE]]
          /\ work' = Recorded(next.work)
          /\ misled' = Heard(a, next.busy)
          /\ UNCHANGED faults
       \/ /\ ~Skippable(a) /\ Fault
          /\ \/ UNCHANGED <<row, misled>>
             \/ /\ row' = [row EXCEPT ![a] = Row(next.busy)]
                /\ misled' = IF next.busy THEN misled ELSE misled \cup {a}
          /\ work' = NotRecorded(next.work)
          /\ UNCHANGED recorded
    /\ UNCHANGED <<window, builder, upgrade>>

\* Counted no more, which the agent records.
Settled(w) == [work EXCEPT ![w] = NoWork]

Settles(w) ==
    LET a == OwnerOf[w] IN
    /\ RoomToRecord(a)
    /\ work' = Settled(w)
    /\ queue' = Enqueued(a, None, Settled(w))
    /\ UNCHANGED <<row, window, recorded, builder, upgrade, misled, faults>>

\* waitForUpgradeWindow: what the read of the window answers.
StartsWork(w) ==
    /\ work[w].pc = "reading" /\ ~WindowOpen
    /\ work' = [work EXCEPT ![w].pc = "working", ![w].sure = TRUE, ![w].waited = 0]
    /\ UNCHANGED <<row, window, recorded, queue, builder, upgrade, misled, faults>>

IsHeldBack(w) ==
    /\ work[w].pc = "reading" /\ WindowOpen
    /\ ~(w \in Limited /\ work[w].waited >= WaitUnits)
    /\ work' = [work EXCEPT ![w].pc = "held", ![w].age = 0]
    /\ UNCHANGED <<row, window, recorded, queue, builder, upgrade, misled, faults>>

\* RuntimeUpgradeWaitExceededError
WaitExceeded(w) ==
    /\ work[w].pc = "reading" /\ WindowOpen
    /\ w \in Limited /\ work[w].waited >= WaitUnits
    /\ Settles(w)

ReadFails(w) ==
    /\ work[w].pc = "reading" /\ Fault
    /\ work' = Unanswered(w)
    /\ UNCHANGED <<row, window, recorded, queue, builder, upgrade, misled>>

\* After UPGRADE_WINDOW_POLL_MS the loop records and reads again.
Poll(w) ==
    LET works == [work EXCEPT ![w].pc = "recording"] IN
    /\ work[w].pc \in {"held", "unsure"} /\ RoomToRecord(OwnerOf[w])
    /\ work' = works
    /\ queue' = Enqueued(OwnerOf[w], w, works)
    /\ UNCHANGED <<row, window, recorded, builder, upgrade, misled, faults>>

\* An aborted signal calls the wait off.
CallOff(w) == w \in Limited /\ work[w].pc \in {"held", "unsure"} /\ Settles(w)

\* The work reaches its end, well or not.
End(w) == work[w].pc = "working" /\ Settles(w)

\* observe(): a change of the agent's state records it again.
Observe(a) ==
    /\ RoomToRecord(a)
    /\ queue' = Enqueued(a, None, work)
    /\ UNCHANGED <<row, window, recorded, work, builder, upgrade, misled, faults>>

-----------------------------------------------------------------------------
(* A project builder's runNext: look, mark busy, look again, run one step.    *)

Moved(b, pc) == [builder EXCEPT ![b] = [pc |-> pc, age |-> 0]]

MayStart(b) ==
    /\ builder[b].pc = "idle" /\ ~WindowOpen
    /\ builder' = Moved(b, "mark")
    /\ UNCHANGED <<row, window, agentMemory, upgrade, faults>>

MarkBusy(b) ==
    /\ builder[b].pc = "mark"
    /\ \/ row' = [row EXCEPT ![b] = Row(TRUE)] /\ builder' = Moved(b, "check") /\ UNCHANGED faults
       \/ row' \in {row, [row EXCEPT ![b] = Row(TRUE)]} /\ builder' = Moved(b, "idle") /\ Fault
    /\ UNCHANGED <<window, agentMemory, upgrade>>

LookAgain(b) ==
    /\ builder[b].pc = "check"
    /\ \/ /\ builder' = [builder EXCEPT ![b].pc = IF WindowOpen THEN "unmark" ELSE "working"]
          /\ UNCHANGED faults
       \/ builder' = Moved(b, "idle") /\ Fault
    /\ UNCHANGED <<row, window, agentMemory, upgrade>>

\* An upgrade that claimed the window first goes first.
Unmark(b) ==
    /\ builder[b].pc = "unmark"
    /\ builder' = Moved(b, "idle")
    /\ \/ row' = [row EXCEPT ![b] = Row(FALSE)] /\ UNCHANGED faults
       \/ row' = row /\ Fault
    /\ UNCHANGED <<window, agentMemory, upgrade>>

Heartbeat(b) ==
    /\ builder[b].pc = "working"
    /\ row' = [row EXCEPT ![b] = Row(TRUE)]
    /\ UNCHANGED <<window, agentMemory, builder, upgrade, faults>>

\* The row stays busy: the next step, or the lack of one, is a call of its own.
StepEnds(b) ==
    /\ builder[b].pc = "working"
    /\ builder' = Moved(b, "idle")
    /\ UNCHANGED <<row, window, agentMemory, upgrade, faults>>

NoJobLeft(b) ==
    /\ builder[b].pc = "idle" /\ row[b].busy
    /\ row' = [row EXCEPT ![b] = Row(FALSE)]
    /\ UNCHANGED <<window, agentMemory, builder, upgrade, faults>>

-----------------------------------------------------------------------------
(* An upgrade's Workflow. A step that fails is run again from its start.      *)

Goes(u, pc) == [upgrade EXCEPT ![u].pc = pc]

\* A session request or the sweep starts or restarts the one instance.
StartUpgrade(u) ==
    /\ upgrade[u].pc = "none"
    /\ upgrade' = [upgrade EXCEPT ![u] = [NoUpgrade EXCEPT !.pc = "claim"]]
    /\ UNCHANGED <<database, agentMemory, builder, faults>>

\* waitBeforeUpgrade: granted, or the answer lost and the step run again.
Claim(u) ==
    /\ upgrade[u].pc = "claim" /\ Claimable(u)
    /\ window' = OpenedFor(u)
    /\ \/ upgrade' = Goes(u, "deploy") /\ UNCHANGED faults
       \/ upgrade' = upgrade /\ Fault
    /\ UNCHANGED <<row, agentMemory, builder>>

\* A busy workspace is asked again later; past UPGRADE_MAX_WAIT_MS it is left.
Defer(u) ==
    /\ upgrade[u].pc = "claim" /\ ~Claimable(u)
    /\ upgrade' = [upgrade EXCEPT ![u] = NoUpgrade]
    /\ UNCHANGED <<database, agentMemory, builder, faults>>

\* A reconnect that refuses both generations' secrets, or stays busy past the
\* longest wait, is redeployed as a first workspace is.
ProceedUnwindowed(u) ==
    /\ u \in Reconnects /\ upgrade[u].pc = "claim"
    /\ \E refused \in BOOLEAN : refused \/ (~Claimable(u) /\ upgrade[u].waited >= WaitUnits)
    /\ upgrade' = [upgrade EXCEPT ![u].pc = "deploy", ![u].windowed = FALSE]
    /\ UNCHANGED <<database, agentMemory, builder, faults>>

\* A recorded turn's run goes on with the new object, not admitted anew.
Resumed(turns) ==
    [w \in Works |-> IF w \in turns THEN [NoWork EXCEPT !.pc = "working"] ELSE NoWork]

\* deployWorkspaceRuntimeWorker resets every Durable Object of the runtime.
Redeploy(u) ==
    /\ upgrade[u].pc = "deploy"
    /\ recorded' = [a \in Agents |-> NoRecord]
    /\ queue' = [a \in Agents |-> <<>>]
    /\ \E turns \in SUBSET {w \in Limited : work[w].pc = "working"} : work' = Resumed(turns)
    /\ misled' = {}
    /\ builder' = [b \in Builders |-> [pc |-> "idle", age |-> 0]]
    /\ \/ upgrade' = Goes(u, "hold") /\ UNCHANGED faults
       \/ upgrade' = [upgrade EXCEPT ![u].pc = "claim", ![u].windowed = TRUE] /\ Fault
    /\ UNCHANGED database

\* The deploy fails before the new Worker is there.
DeployFails(u) ==
    /\ upgrade[u].pc = "deploy" /\ Fault
    /\ upgrade' = [upgrade EXCEPT ![u].pc = "claim", ![u].windowed = TRUE]
    /\ UNCHANGED <<database, agentMemory, builder>>

\* heldStep: each step runs with the window held, or waits for a quiet moment.
Hold(u) ==
    /\ upgrade[u].pc = "hold"
    /\ upgrade' = Goes(u, "operate")
    /\ IF upgrade[u].windowed THEN Holdable(u) /\ window' = OpenedFor(u) ELSE UNCHANGED window
    /\ UNCHANGED <<row, agentMemory, builder, faults>>

\* Renewed while the step runs; a renewal refused or failed is only logged.
Renew(u) ==
    /\ upgrade[u].pc = "operate" /\ upgrade[u].windowed
    /\ Holdable(u) /\ window' = OpenedFor(u)
    /\ UNCHANGED <<row, agentMemory, builder, upgrade, faults>>

\* Faulty form: one stage too many.
OneStageMore(u) ==
    LET next == upgrade[u].stage + 1 IN
    [upgrade EXCEPT ![u].stage = next,
                    ![u].pc = IF next <= Stages + 1 THEN "hold" ELSE "release"]

AfterStage(u) ==
    LET next == upgrade[u].stage + 1 IN
    [upgrade EXCEPT ![u].stage = next,
                    ![u].pc = IF next <= Stages THEN "hold"
                              ELSE IF upgrade[u].windowed THEN "release" ELSE "mark"]

\* A step's operation: it may replace the container applications.
Operate(u) ==
    /\ upgrade[u].pc = "operate"
    /\ \/ upgrade' = AfterStage(u) /\ UNCHANGED faults
       \/ upgrade' = Goes(u, "hold") /\ Fault
    /\ UNCHANGED <<database, agentMemory, builder>>

\* Best effort: a window not closed lapses.
Release(u) ==
    /\ upgrade[u].pc = "release"
    /\ upgrade' = Goes(u, "mark")
    /\ \/ window' = ClosedBy(u) /\ UNCHANGED faults
       \/ window' = window /\ Fault
    /\ UNCHANGED <<row, agentMemory, builder>>

MarkReady(u) ==
    /\ upgrade[u].pc = "mark"
    /\ upgrade' = [upgrade EXCEPT ![u] = NoUpgrade]
    /\ UNCHANGED <<database, agentMemory, builder, faults>>

\* A step's retries run out: the Workflow ends, the window is left to lapse,
\* and a request or the sweep restarts the instance from its claim.
GivesUp(u) ==
    /\ upgrade[u].pc \in {"claim", "hold", "operate", "mark"} /\ Fault
    /\ upgrade' = [upgrade EXCEPT ![u] = NoUpgrade]
    /\ UNCHANGED <<database, agentMemory, builder>>

-----------------------------------------------------------------------------
(* The passage of time, one unit.                                             *)

Older(age, most) == IF age < most THEN age + 1 ELSE most

OlderRow(r) ==
    LET aged == [r EXCEPT !.age = @ + 1] IN
    IF aged.age < (IF r.busy THEN LeaseUnits ELSE QuietUnits) THEN aged ELSE NoRow

OlderWork(w) ==
    IF w.pc \in {"reading", "working"} THEN [w EXCEPT !.age = @ + 1]
    ELSE IF w.pc \in {"recording", "held", "unsure"}
    THEN [w EXCEPT !.waited = Older(@, LongestWait)]
    ELSE w

\* Work ends within the wall clock of a turn.
WithinWallClock ==
    /\ \A w \in Works : work[w].pc \in {"reading", "working"} => work[w].age < WorkUnits
    /\ \A b \in Builders : builder[b].pc \in {"check", "working"} => builder[b].age < WorkUnits

Tick ==
    /\ WithinWallClock
    /\ row' = [p \in Parties |-> OlderRow(row[p])]
    /\ window' = IF window.left <= 1 THEN NoWindow ELSE [window EXCEPT !.left = @ - 1]
    /\ recorded' = [a \in Agents |->
           [recorded[a] EXCEPT !.age = IF recorded[a].busy THEN Older(@, RenewalUnits) ELSE 0]]
    /\ work' = [w \in Works |-> OlderWork(work[w])]
    /\ builder' = [b \in Builders |->
           IF builder[b].pc \in {"check", "working"} THEN [builder[b] EXCEPT !.age = @ + 1]
           ELSE builder[b]]
    /\ upgrade' = [u \in Upgrades |->
           IF upgrade[u].pc = "claim" /\ u \in Reconnects
           THEN [upgrade[u] EXCEPT !.waited = Older(@, WaitUnits)]
           ELSE upgrade[u]]
    /\ UNCHANGED <<queue, misled, faults>>

WorkStep(w) ==
    \/ Begin(w) \/ StartsWork(w) \/ IsHeldBack(w) \/ WaitExceeded(w) \/ ReadFails(w)
    \/ Poll(w) \/ CallOff(w) \/ End(w)

BuilderStep(b) ==
    \/ MayStart(b) \/ MarkBusy(b) \/ LookAgain(b) \/ Unmark(b) \/ Heartbeat(b)
    \/ StepEnds(b) \/ NoJobLeft(b)

UpgradeStep(u) ==
    \/ StartUpgrade(u) \/ Claim(u) \/ Defer(u) \/ ProceedUnwindowed(u) \/ Redeploy(u)
    \/ DeployFails(u) \/ Hold(u) \/ Renew(u) \/ Operate(u) \/ Release(u) \/ MarkReady(u)
    \/ GivesUp(u)

Next ==
    \/ \E w \in Works : WorkStep(w)
    \/ \E a \in Agents : Write(a) \/ Observe(a)
    \/ \E b \in Builders : BuilderStep(b)
    \/ \E u \in Upgrades : UpgradeStep(u)
    \/ Tick

Spec == Init /\ [][Next]_vars

(* Fairness: an agent's loop and its writes go on, work ends, an upgrade's    *)
(* Workflow runs its steps, and time passes. Nothing is assumed of new work,  *)
(* of state changes, of when a builder looks, or of when an upgrade starts.   *)
(* Strong only where MaxQueue, a bound of the model, may get in the way.      *)
Fairness ==
    /\ WF_vars(Tick)
    /\ \A a \in Agents : WF_vars(Write(a))
    /\ \A w \in Works :
           /\ SF_vars(StartsWork(w) \/ IsHeldBack(w) \/ WaitExceeded(w))
           /\ SF_vars(Poll(w)) /\ SF_vars(End(w))
    /\ \A b \in Builders : WF_vars(LookAgain(b)) /\ WF_vars(StepEnds(b))
    /\ \A u \in Upgrades : WF_vars(Redeploy(u)) /\ WF_vars(Operate(u)) /\ WF_vars(Release(u))

FairSpec == Spec /\ Fairness

-----------------------------------------------------------------------------
(* Properties.                                                                *)

Started(w) == work[w].pc = "working" /\ work[w].sure

(* While an upgrade's window is open no admitted work runs: an agent's work   *)
(* that started recorded, or a builder's step. Only work the database could   *)
(* not admit within its wait may, a resumed turn's run, and work of an agent  *)
(* whose row was last written idle by a call that failed.                     *)
(* (waitForUpgradeWindow, mayStart and the claim and hold statements.)        *)
AnOpenWindowHoldsWorkBack ==
    WindowOpen => /\ \A w \in Works : Started(w) => OwnerOf[w] \in misled
                  /\ \A b \in Builders : builder[b].pc # "working"

(* The row the database has of an agent whose work started recorded says      *)
(* busy, for as long as the work runs: what is skipped, queued, renewed,      *)
(* failed or committed with its answer lost meanwhile never leaves it idle or *)
(* lets its lease lapse, but for the idle write that failed and was committed *)
(* all the same, until one that is heard. (builder-runtime-activity.ts:119    *)
(* "work starts only once its busy row is written".)                          *)
StartedWorkIsRecorded ==
    \A w \in Works : Started(w) => BusyRow(OwnerOf[w]) \/ OwnerOf[w] \in misled

(* A window that is open passes to another upgrade only through nobody: its   *)
(* holder closes it, or it lapses; another upgrade's claim, hold or release   *)
(* leaves it (holder IS NOT ?, holder = ?).                                   *)
HolderKeepsItsWindow ==
    [][\A u \in Upgrades : OwnWindow(u) =>
          window'.holder = u \/ Release(u) \/ Tick]_vars

(* Work that was counted and waits, for its record, for the database or for   *)
(* an upgrade's window, starts, is refused or is called off.                  *)
WaitingWorkProceeds ==
    \A w \in Works :
        work[w].pc \in {"recording", "reading", "held", "unsure"} ~>
        work[w].pc \in {"working", "none"}
=============================================================================
