------------------------- MODULE UpgradeWindowProofs -------------------------
(* Proofs about UpgradeWindow for any number of agents, builders, works and   *)
(* upgrades, and any lengths of leases, windows and waits: types, who may     *)
(* change an open window, that the row of a piece of work says busy while it  *)
(* runs, and that an open window holds work back.                             *)
EXTENDS UpgradeWindow, SequenceTheorems, TLAPS

-----------------------------------------------------------------------------
(* The inductive invariant.                                                   *)

\* While a stage is to come the count of stages has not passed the last one.
StagesInv == \A u \in Upgrades : upgrade[u].pc \notin {"release", "mark"} => upgrade[u].stage <= Stages

Admitted(w) == work[w].pc = "reading" \/ Started(w)

\* A builder that looks, or works, marked itself busy before and no longer ago than that.
BuildersAreBusy ==
    \A b \in Builders : builder[b].pc \in {"check", "working"} =>
        row[b].busy /\ row[b].age <= builder[b].age

\* What an agent takes for recorded, and would not write again, is in its row,
\* but for an idle write that it did not hear of.
RecordedIsFresh ==
    \A a \in Agents \ misled : recorded[a].known /\ recorded[a].busy /\ recorded[a].age < RenewalUnits =>
        row[a].busy /\ row[a].age <= recorded[a].age

\* Admitted work was recorded, and nothing queued says that its agent is idle.
AdmittedIsBusy ==
    \A w \in Works : Admitted(w) =>
        LET a == OwnerOf[w] IN
        /\ a \in misled \/ (row[a].busy /\ row[a].age < work[w].age + RenewalUnits)
        /\ \A i \in 1..Len(queue[a]) : queue[a][i].busy

\* A write somebody waits for is the only one of that work, and from it on all are busy.
QueueInv ==
    \A a \in Agents : \A i \in 1..Len(queue[a]) :
        LET w == queue[a][i].work IN
        w # None =>
            /\ OwnerOf[w] = a /\ work[w].pc = "recording"
            /\ \A j \in 1..Len(queue[a]) : /\ j >= i => queue[a][j].busy
                                           /\ queue[a][j].work = w => j = i

AgentsInv == RecordedIsFresh /\ AdmittedIsBusy /\ QueueInv

-----------------------------------------------------------------------------
(* Types.                                                                     *)

RowType == [busy : BOOLEAN, age : 0..(LeaseUnits + QuietUnits)]
WindowType == [holder : Upgrades \cup {None}, left : 0..WindowUnits]
RecordType == [busy : BOOLEAN, age : 0..RenewalUnits, known : BOOLEAN]
EntryType == [busy : BOOLEAN, work : Works \cup {None}]
WorkType == [pc : WorkPhases, sure : BOOLEAN, age : 0..WorkUnits, waited : 0..LongestWait]
BuilderType == [pc : BuilderPhases, age : 0..WorkUnits]
UpgradeType == [pc : UpgradePhases, stage : 1..(Stages + 1), waited : 0..WaitUnits,
                windowed : BOOLEAN]

LEMMA Types ==
    TypeOK <=> /\ row \in [Parties -> RowType] /\ window \in WindowType
               /\ recorded \in [Agents -> RecordType] /\ queue \in [Agents -> Seq(EntryType)]
               /\ work \in [Works -> WorkType] /\ builder \in [Builders -> BuilderType]
               /\ upgrade \in [Upgrades -> UpgradeType]
               /\ misled \subseteq Agents /\ faults \in 0..MaxFaults
  BY DEF TypeOK, RowType, WindowType, RecordType, EntryType, WorkType, BuilderType, UpgradeType

LEMMA Constants ==
    /\ Stages \in Nat \ {0} /\ WindowUnits \in Nat \ {0} /\ QuietUnits \in Nat \ {0}
    /\ LeaseUnits \in Nat \ {0} /\ RenewalUnits \in Nat \ {0}
    /\ AdmissionUnits \in Nat /\ WaitUnits \in Nat /\ WorkUnits \in Nat /\ MaxFaults \in Nat
    /\ LongestWait \in Nat
    /\ RenewalUnits + WorkUnits <= LeaseUnits
    /\ OwnerOf \in [Works -> Agents] /\ \A w \in Works : OwnerOf[w] \in Agents
    /\ None \notin Works /\ None \notin Upgrades
    /\ Agents \cap Builders = {} /\ Agents \subseteq Parties /\ Builders \subseteq Parties
<1>1. /\ Stages \in Nat \ {0} /\ WindowUnits \in Nat \ {0} /\ QuietUnits \in Nat \ {0}
      /\ LeaseUnits \in Nat \ {0} /\ RenewalUnits \in Nat \ {0}
      /\ AdmissionUnits \in Nat /\ WaitUnits \in Nat /\ WorkUnits \in Nat /\ MaxFaults \in Nat
  BY UpgradeConstants
<1>2. LongestWait \in Nat
  BY <1>1 DEF LongestWait
<1>3. OwnerOf \in [Works -> Agents] /\ \A w \in Works : OwnerOf[w] \in Agents
  BY UpgradeConstants
<1>4. /\ None \notin Works /\ None \notin Upgrades
      /\ Agents \cap Builders = {} /\ Agents \subseteq Parties /\ Builders \subseteq Parties
  BY UpgradeConstants DEF Parties
<1>5. QED
  BY <1>1, <1>2, <1>3, <1>4, UpgradeConstants

\* The values that the actions write.
LEMMA Values ==
    /\ NoRow \in RowType /\ \A busy \in BOOLEAN : Row(busy) \in RowType
    /\ NoWindow \in WindowType /\ \A u \in Upgrades : OpenedFor(u) \in WindowType
    /\ NoRecord \in RecordType /\ \A busy \in BOOLEAN : [busy |-> busy, age |-> 0, known |-> TRUE] \in RecordType
    /\ NoWork \in WorkType
    /\ \A pc \in WorkPhases : [NoWork EXCEPT !.pc = pc] \in WorkType
    /\ \A pc \in BuilderPhases : [pc |-> pc, age |-> 0] \in BuilderType
    /\ NoUpgrade \in UpgradeType
<1>1. NoRow \in RowType /\ \A busy \in BOOLEAN : Row(busy) \in RowType
  BY Constants DEF NoRow, Row, RowType
<1>2. NoWindow \in WindowType /\ \A u \in Upgrades : OpenedFor(u) \in WindowType
  BY Constants DEF NoWindow, OpenedFor, WindowType
<1>3. NoRecord \in RecordType
      /\ \A busy \in BOOLEAN : [busy |-> busy, age |-> 0, known |-> TRUE] \in RecordType
  BY Constants DEF NoRecord, RecordType
<1>4. NoWork \in WorkType /\ \A pc \in WorkPhases : [NoWork EXCEPT !.pc = pc] \in WorkType
  <2>1. 0 \in 0..WorkUnits /\ 0 \in 0..LongestWait
    BY Constants
  <2>2. NoWork \in WorkType
    BY <2>1 DEF NoWork, WorkType, WorkPhases
  <2>3. ASSUME NEW pc \in WorkPhases PROVE [NoWork EXCEPT !.pc = pc] \in WorkType
    BY <2>2 DEF WorkType
  <2>4. QED
    BY <2>2, <2>3
<1>5. \A pc \in BuilderPhases : [pc |-> pc, age |-> 0] \in BuilderType
  BY Constants DEF BuilderType
<1>6. NoUpgrade \in UpgradeType
  BY Constants DEF NoUpgrade, UpgradeType, UpgradePhases
<1>7. QED
  BY <1>1, <1>2, <1>3, <1>4, <1>5, <1>6

LEMMA FaultTypes ==
    faults \in 0..MaxFaults /\ [Next]_vars => faults' \in 0..MaxFaults
<1> SUFFICES ASSUME faults \in 0..MaxFaults, [Next]_vars PROVE faults' \in 0..MaxFaults
  OBVIOUS
<1>1. CASE UNCHANGED faults
  BY <1>1
<1>2. CASE Fault
  BY <1>2, Constants DEF Fault
<1>3. ASSUME NEW w \in Works, WorkStep(w) PROVE UNCHANGED faults \/ Fault
  BY <1>3 DEF WorkStep, Begin, StartsWork, IsHeldBack, WaitExceeded, ReadFails, Poll, CallOff, End, Settles
<1>4. ASSUME NEW a \in Agents, Write(a) \/ Observe(a) PROVE UNCHANGED faults \/ Fault
  BY <1>4 DEF Write, Observe
<1>5. ASSUME NEW b \in Builders, BuilderStep(b) PROVE UNCHANGED faults \/ Fault
  BY <1>5 DEF BuilderStep, MayStart, MarkBusy, LookAgain, Unmark, Heartbeat, StepEnds, NoJobLeft
<1>6. ASSUME NEW u \in Upgrades, UpgradeStep(u) PROVE UNCHANGED faults \/ Fault
  BY <1>6 DEF UpgradeStep, StartUpgrade, Claim, Defer, ProceedUnwindowed, Redeploy, DeployFails, Hold,
     Renew, Operate, Release, MarkReady, GivesUp
<1>7. CASE Tick \/ UNCHANGED vars
  BY <1>1, <1>7 DEF Tick, vars
<1>8. QED
  BY <1>1, <1>2, <1>3, <1>4, <1>5, <1>6, <1>7 DEF Next

\* Only an agent's own write, or the reset of all of them, changes who is misled.
LEMMA MisledTypes ==
    misled \subseteq Agents /\ [Next]_vars => misled' \subseteq Agents
<1> SUFFICES ASSUME misled \subseteq Agents, [Next]_vars PROVE misled' \subseteq Agents
  OBVIOUS
<1>1. CASE UNCHANGED misled
  BY <1>1
<1>2. ASSUME NEW w \in Works, WorkStep(w) PROVE UNCHANGED misled
  BY <1>2 DEF WorkStep, Begin, StartsWork, IsHeldBack, WaitExceeded, ReadFails, Poll, CallOff, End, Settles
<1>3. ASSUME NEW a \in Agents, Write(a) PROVE misled' \subseteq Agents
  BY <1>3 DEF Write, Heard
<1>4. ASSUME NEW a \in Agents, Observe(a) PROVE UNCHANGED misled
  BY <1>4 DEF Observe
<1>5. ASSUME NEW b \in Builders, BuilderStep(b) PROVE UNCHANGED misled
  BY <1>5 DEF BuilderStep, MayStart, MarkBusy, LookAgain, Unmark, Heartbeat, StepEnds, NoJobLeft,
     agentMemory
<1>6. ASSUME NEW u \in Upgrades, UpgradeStep(u) PROVE UNCHANGED misled \/ misled' = {}
  BY <1>6 DEF UpgradeStep, StartUpgrade, Claim, Defer, ProceedUnwindowed, Redeploy, DeployFails, Hold,
     Renew, Operate, Release, MarkReady, GivesUp, agentMemory
<1>7. CASE Tick \/ UNCHANGED vars
  BY <1>1, <1>7 DEF Tick, vars
<1>8. QED
  BY <1>1, <1>2, <1>3, <1>4, <1>5, <1>6, <1>7 DEF Next

-----------------------------------------------------------------------------
(* What a step does to each part of the state.                                *)

\* An agent's work, but for its writes: only the work itself and what is queued.
WorkFrame == UNCHANGED <<row, window, recorded, builder, upgrade, misled>>
BuilderFrame == UNCHANGED <<window, recorded, queue, work, upgrade, misled>>
UpgradeFrame == UNCHANGED <<row, agentMemory, builder>>

\* A write is queued for agent a: work w waits for it, or nobody does.
Enqueues(a, w, works) == work' = works /\ queue' = Enqueued(a, w, works)

LEMMA WorkMoves ==
    ASSUME NEW w \in Works, WorkStep(w)
    PROVE  /\ WorkFrame
           /\ \/ /\ work[w].pc = "none"
                 /\ Enqueues(OwnerOf[w], w, [work EXCEPT ![w] = [NoWork EXCEPT !.pc = "recording"]])
              \/ /\ work[w].pc \in {"held", "unsure"}
                 /\ Enqueues(OwnerOf[w], w, [work EXCEPT ![w].pc = "recording"])
              \/ /\ work[w].pc \in {"reading", "held", "unsure", "working"}
                 /\ Enqueues(OwnerOf[w], None, Settled(w))
              \/ /\ work[w].pc = "reading" /\ ~WindowOpen /\ UNCHANGED queue
                 /\ work' = [work EXCEPT ![w].pc = "working", ![w].sure = TRUE, ![w].waited = 0]
              \/ /\ work[w].pc = "reading" /\ UNCHANGED queue
                 /\ work' = [work EXCEPT ![w].pc = "held", ![w].age = 0]
              \/ /\ work[w].pc = "reading" /\ UNCHANGED queue
                 /\ work' = Unanswered(w)
<1>1. CASE Begin(w)
  BY <1>1 DEF Begin, WorkFrame, Enqueues
<1>2. CASE StartsWork(w) \/ IsHeldBack(w) \/ ReadFails(w)
  BY <1>2 DEF StartsWork, IsHeldBack, ReadFails, WorkFrame
<1>3. CASE WaitExceeded(w) \/ CallOff(w) \/ End(w)
  BY <1>3 DEF WaitExceeded, CallOff, End, Settles, WorkFrame, Enqueues
<1>4. CASE Poll(w)
  BY <1>4 DEF Poll, WorkFrame, Enqueues
<1>5. QED
  BY <1>1, <1>2, <1>3, <1>4 DEF WorkStep

LEMMA BuilderMoves ==
    ASSUME NEW b \in Builders, BuilderStep(b)
    PROVE  /\ BuilderFrame
           /\ \/ /\ builder' = Moved(b, "mark") /\ UNCHANGED row
              \/ /\ builder' = Moved(b, "check") /\ row' = [row EXCEPT ![b] = Row(TRUE)]
              \/ /\ builder' = Moved(b, "idle")
                 /\ row' \in {row, [row EXCEPT ![b] = Row(TRUE)], [row EXCEPT ![b] = Row(FALSE)]}
              \/ /\ builder[b].pc = "check" /\ UNCHANGED row
                 /\ builder' = [builder EXCEPT ![b].pc = IF WindowOpen THEN "unmark" ELSE "working"]
              \/ /\ builder[b].pc = "working" /\ UNCHANGED builder
                 /\ row' = [row EXCEPT ![b] = Row(TRUE)]
              \/ /\ builder[b].pc = "idle" /\ UNCHANGED builder
                 /\ row' = [row EXCEPT ![b] = Row(FALSE)]
  BY DEF BuilderStep, MayStart, MarkBusy, LookAgain, Unmark, Heartbeat, StepEnds, NoJobLeft, BuilderFrame,
     agentMemory

NoBusyRow == \A p \in Parties : ~BusyRow(p)

\* An upgrade opens the window only where it is its own, or nobody's and nothing is busy.
LEMMA UpgradeMoves ==
    ASSUME NEW u \in Upgrades, UpgradeStep(u)
    PROVE  \/ UpgradeFrame /\ UNCHANGED window
           \/ UpgradeFrame /\ window' = OpenedFor(u) /\ (OwnWindow(u) \/ (~WindowOpen /\ NoBusyRow))
           \/ UpgradeFrame /\ Release(u) /\ window' = ClosedBy(u)
           \/ Redeploy(u) /\ UNCHANGED <<row, window>>
<1>1. CASE StartUpgrade(u) \/ Defer(u) \/ ProceedUnwindowed(u) \/ DeployFails(u) \/ Operate(u)
           \/ MarkReady(u) \/ GivesUp(u)
  BY <1>1 DEF StartUpgrade, Defer, ProceedUnwindowed, DeployFails, Operate, MarkReady, GivesUp,
     UpgradeFrame, database
<1>2. CASE Claim(u)
  BY <1>2 DEF Claim, Claimable, NoBusyRow, UpgradeFrame
<1>3. CASE Redeploy(u)
  BY <1>3 DEF Redeploy, database
<1>4. CASE Hold(u)
  BY <1>4 DEF Hold, Holdable, NoBusyRow, UpgradeFrame
<1>5. CASE Renew(u)
  BY <1>5 DEF Renew, Holdable, NoBusyRow, UpgradeFrame
<1>6. CASE Release(u)
  BY <1>6 DEF Release, UpgradeFrame
<1>7. QED
  BY <1>1, <1>2, <1>3, <1>4, <1>5, <1>6 DEF UpgradeStep

-----------------------------------------------------------------------------
(* Type correctness.                                                          *)

LEMMA EnqueuedTypes ==
    ASSUME queue \in [Agents -> Seq(EntryType)],
           NEW a \in Agents, NEW w \in Works \cup {None}, NEW works
    PROVE  Enqueued(a, w, works) \in [Agents -> Seq(EntryType)]
<1>1. Busy(a, works) \in BOOLEAN
  BY DEF Busy
<1>2. [busy |-> Busy(a, works), work |-> w] \in EntryType
  BY <1>1 DEF EntryType
<1>3. Append(queue[a], [busy |-> Busy(a, works), work |-> w]) \in Seq(EntryType)
  BY <1>2, AppendProperties
<1>4. QED
  BY <1>3 DEF Enqueued

LEMMA AnswerTypes ==
    ASSUME work \in [Works -> WorkType], NEW w \in Works
    PROVE  Unanswered(w) \in [Works -> WorkType] /\ Recorded(w) \in [Works -> WorkType]
<1>1. 0 \in 0..WorkUnits
  BY Constants
<1>2. [NoWork EXCEPT !.pc = "working"] \in WorkType
  BY Values DEF WorkPhases
<1>3. \A pc \in {"unsure", "reading"} : [work EXCEPT ![w].pc = pc, ![w].age = 0] \in [Works -> WorkType]
  BY <1>1 DEF WorkType, WorkPhases
<1>4. QED
  BY <1>2, <1>3 DEF Unanswered, Recorded

LEMMA WorkTypes ==
    ASSUME TypeOK, NEW w \in Works, WorkStep(w)
    PROVE  work' \in [Works -> WorkType] /\ queue' \in [Agents -> Seq(EntryType)]
<1>1. work \in [Works -> WorkType] /\ queue \in [Agents -> Seq(EntryType)]
  BY Types
<1>2. OwnerOf[w] \in Agents
  BY Constants
<1>3. ASSUME NEW v \in {w, None}, NEW works \in [Works -> WorkType], Enqueues(OwnerOf[w], v, works)
      PROVE  work' \in [Works -> WorkType] /\ queue' \in [Agents -> Seq(EntryType)]
  BY <1>1, <1>2, <1>3, EnqueuedTypes DEF Enqueues
<1>4. /\ [work EXCEPT ![w] = [NoWork EXCEPT !.pc = "recording"]] \in [Works -> WorkType]
      /\ Settled(w) \in [Works -> WorkType]
  BY <1>1, Values DEF WorkPhases, Settled
<1>5. 0 \in 0..WorkUnits /\ 0 \in 0..LongestWait
  BY Constants
<1>6. /\ [work EXCEPT ![w].pc = "recording"] \in [Works -> WorkType]
      /\ [work EXCEPT ![w].pc = "working", ![w].sure = TRUE, ![w].waited = 0] \in [Works -> WorkType]
      /\ [work EXCEPT ![w].pc = "held", ![w].age = 0] \in [Works -> WorkType]
  BY <1>1, <1>5 DEF WorkType, WorkPhases
<1>7. Unanswered(w) \in [Works -> WorkType]
  BY <1>1, AnswerTypes
<1>8. QED
  BY <1>1, <1>3, <1>4, <1>6, <1>7, WorkMoves

LEMMA WriteTypes ==
    ASSUME TypeOK, NEW a \in Agents, Write(a)
    PROVE  /\ row' \in [Parties -> RowType] /\ recorded' \in [Agents -> RecordType]
           /\ queue' \in [Agents -> Seq(EntryType)] /\ work' \in [Works -> WorkType]
<1> DEFINE next == Head(queue[a])
<1>1. /\ row \in [Parties -> RowType] /\ recorded \in [Agents -> RecordType]
      /\ queue \in [Agents -> Seq(EntryType)] /\ work \in [Works -> WorkType]
  BY Types
<1>2. queue[a] \in Seq(EntryType) /\ queue[a] # <<>>
  BY <1>1 DEF Write
<1>3. next \in EntryType /\ Tail(queue[a]) \in Seq(EntryType)
  BY <1>2, HeadTailProperties
<1>4. next.busy \in BOOLEAN /\ next.work \in Works \cup {None}
  BY <1>3 DEF EntryType
<1>5. queue' \in [Agents -> Seq(EntryType)]
  BY <1>1, <1>3 DEF Write
<1>6. Recorded(next.work) \in [Works -> WorkType] /\ NotRecorded(next.work) \in [Works -> WorkType]
  BY <1>1, <1>4, AnswerTypes DEF Recorded, NotRecorded
<1>7. work' \in [Works -> WorkType]
  BY <1>6 DEF Write
<1>8. /\ [row EXCEPT ![a] = Row(next.busy)] \in [Parties -> RowType]
      /\ [recorded EXCEPT ![a] = [busy |-> next.busy, age |-> 0, known |-> TRUE]] \in [Agents -> RecordType]
  BY <1>1, <1>4, Values, Constants
<1>9. row' \in [Parties -> RowType] /\ recorded' \in [Agents -> RecordType]
  BY <1>1, <1>8 DEF Write
<1>10. QED
  BY <1>5, <1>7, <1>9

LEMMA BuilderTypes ==
    ASSUME TypeOK, NEW b \in Builders, BuilderStep(b)
    PROVE  row' \in [Parties -> RowType] /\ builder' \in [Builders -> BuilderType]
<1>1. row \in [Parties -> RowType] /\ builder \in [Builders -> BuilderType]
  BY Types
<1>2. \A busy \in BOOLEAN : [row EXCEPT ![b] = Row(busy)] \in [Parties -> RowType]
  BY <1>1, Values, Constants
<1>3. \A pc \in {"idle", "mark", "check"} : Moved(b, pc) \in [Builders -> BuilderType]
  BY <1>1, Values DEF Moved, BuilderPhases
<1>4. \A pc \in {"unmark", "working"} : [builder EXCEPT ![b].pc = pc] \in [Builders -> BuilderType]
  BY <1>1 DEF BuilderType, BuilderPhases
<1>5. row' \in {row, [row EXCEPT ![b] = Row(TRUE)], [row EXCEPT ![b] = Row(FALSE)]}
  BY BuilderMoves
<1>6. \/ \E pc \in {"idle", "mark", "check"} : builder' = Moved(b, pc)
      \/ \E pc \in {"unmark", "working"} : builder' = [builder EXCEPT ![b].pc = pc]
      \/ UNCHANGED builder
  BY BuilderMoves
<1>7. QED
  BY <1>1, <1>2, <1>3, <1>4, <1>5, <1>6

LEMMA UpgradeTypes ==
    ASSUME TypeOK, StagesInv, NEW u \in Upgrades, UpgradeStep(u)
    PROVE  upgrade' \in [Upgrades -> UpgradeType] /\ StagesInv'
<1>1. upgrade \in [Upgrades -> UpgradeType]
  BY Types
<1>2. ASSUME NEW r \in UpgradeType, r.pc \notin {"release", "mark"} => r.stage <= Stages,
             upgrade' = [upgrade EXCEPT ![u] = r]
      PROVE  upgrade' \in [Upgrades -> UpgradeType] /\ StagesInv'
  BY <1>1, <1>2 DEF StagesInv
<1>3. CASE UNCHANGED upgrade
  BY <1>1, <1>3 DEF StagesInv
<1>4. 1 <= Stages
  BY Constants
<1>5. CASE StartUpgrade(u) \/ Defer(u) \/ MarkReady(u) \/ GivesUp(u)
  <2>1. \A pc \in {"none", "claim"} : [NoUpgrade EXCEPT !.pc = pc] \in UpgradeType
    BY Values DEF UpgradeType, UpgradePhases
  <2>2. NoUpgrade = [NoUpgrade EXCEPT !.pc = "none"]
    BY DEF NoUpgrade
  <2>3. QED
    BY <1>2, <1>4, <1>5, <2>1, <2>2, Values
    DEF StartUpgrade, Defer, MarkReady, GivesUp, NoUpgrade
<1>6. ASSUME NEW pc \in UpgradePhases, NEW windowed \in BOOLEAN, upgrade[u].pc \notin {"release", "mark"},
             \/ upgrade' = Goes(u, pc)
             \/ upgrade' = [upgrade EXCEPT ![u].pc = pc, ![u].windowed = windowed]
      PROVE  upgrade' \in [Upgrades -> UpgradeType] /\ StagesInv'
  BY <1>1, <1>6 DEF StagesInv, Goes, UpgradeType
<1>7. CASE Claim(u) \/ ProceedUnwindowed(u) \/ Redeploy(u) \/ DeployFails(u) \/ Hold(u) \/ Renew(u)
  BY <1>3, <1>6, <1>7
  DEF Claim, ProceedUnwindowed, Redeploy, DeployFails, Hold, Renew, UpgradePhases
<1>8. CASE Operate(u)
  <2>1. CASE upgrade' = Goes(u, "hold")
    BY <1>6, <1>8, <2>1 DEF Operate, UpgradePhases
  <2>2. CASE upgrade' = AfterStage(u)
    <3>1. upgrade[u].stage \in 1..Stages
      BY <1>1, <1>8, Constants DEF StagesInv, Operate, UpgradeType
    <3>2. upgrade[u].stage + 1 \in 1..(Stages + 1)
      BY <3>1, Constants
    <3>3. QED
      BY <1>1, <2>2, <3>2 DEF AfterStage, StagesInv, UpgradeType, UpgradePhases
  <2>3. QED
    BY <1>8, <2>1, <2>2 DEF Operate
<1>9. CASE Release(u)
  BY <1>1, <1>9 DEF Release, Goes, StagesInv, UpgradeType, UpgradePhases
<1>10. QED
  BY <1>5, <1>7, <1>8, <1>9 DEF UpgradeStep

LEMMA TickTypes ==
    ASSUME TypeOK, StagesInv, Tick
    PROVE  TypeOK' /\ StagesInv'
<1>1. /\ row \in [Parties -> RowType] /\ window \in WindowType
      /\ recorded \in [Agents -> RecordType] /\ queue \in [Agents -> Seq(EntryType)]
      /\ work \in [Works -> WorkType] /\ builder \in [Builders -> BuilderType]
      /\ upgrade \in [Upgrades -> UpgradeType] /\ misled \subseteq Agents /\ faults \in 0..MaxFaults
  BY Types
<1>2. ASSUME NEW most \in Nat, NEW age \in 0..most PROVE Older(age, most) \in 0..most
  BY DEF Older
<1>3. row' \in [Parties -> RowType]
  <2>1. ASSUME NEW r \in RowType PROVE OlderRow(r) \in RowType
    <3>1. r.age \in Nat /\ r.busy \in BOOLEAN /\ [r EXCEPT !.age = @ + 1] = [busy |-> r.busy, age |-> r.age + 1]
      BY <2>1, Constants DEF RowType
    <3>2. CASE r.age + 1 < (IF r.busy THEN LeaseUnits ELSE QuietUnits)
      <4>1. r.age + 1 \in 0..(LeaseUnits + QuietUnits)
        BY <3>1, <3>2, Constants
      <4>2. QED
        BY <3>1, <3>2, <4>1 DEF OlderRow, RowType
    <3>3. CASE ~(r.age + 1 < (IF r.busy THEN LeaseUnits ELSE QuietUnits))
      BY <3>1, <3>3, Values DEF OlderRow
    <3>4. QED
      BY <3>2, <3>3
  <2>2. QED
    BY <1>1, <2>1 DEF Tick
<1>4. window' \in WindowType
  <2>1. window.left \in 0..WindowUnits /\ window.holder \in Upgrades \cup {None}
        /\ [window EXCEPT !.left = @ - 1] = [holder |-> window.holder, left |-> window.left - 1]
    BY <1>1 DEF WindowType
  <2>2. CASE window.left <= 1
    BY <2>2, Values DEF Tick
  <2>3. CASE ~(window.left <= 1)
    <3>1. window.left - 1 \in 0..WindowUnits
      BY <2>1, <2>3, Constants
    <3>2. QED
      BY <2>1, <2>3, <3>1 DEF Tick, WindowType
  <2>4. QED
    BY <2>2, <2>3
<1>5. recorded' \in [Agents -> RecordType]
  <2>1. 0 \in 0..RenewalUnits /\ \A age \in 0..RenewalUnits : Older(age, RenewalUnits) \in 0..RenewalUnits
    BY <1>2, Constants
  <2>2. QED
    BY <1>1, <2>1 DEF Tick, RecordType
<1>6. work' \in [Works -> WorkType]
  <2>1. \A waited \in 0..LongestWait : Older(waited, LongestWait) \in 0..LongestWait
    BY <1>2, Constants
  <2>2. ASSUME NEW w \in Works PROVE OlderWork(work[w]) \in WorkType
    <3>1. work[w] \in WorkType
      BY <1>1
    <3>2. CASE work[w].pc \in {"reading", "working"}
      <4>1. work[w].age + 1 \in 0..WorkUnits
        BY <3>1, <3>2, Constants DEF Tick, WithinWallClock, WorkType
      <4>2. QED
        BY <3>1, <3>2, <4>1 DEF OlderWork, WorkType
    <3>3. CASE work[w].pc \notin {"reading", "working"}
      BY <2>1, <3>1, <3>3 DEF OlderWork, WorkType
    <3>4. QED
      BY <3>2, <3>3
  <2>3. QED
    BY <2>2 DEF Tick
<1>7. builder' \in [Builders -> BuilderType]
  <2>1. ASSUME NEW b \in Builders, builder[b].pc \in {"check", "working"}
        PROVE  builder[b].age + 1 \in 0..WorkUnits
    BY <1>1, <2>1, Constants DEF Tick, WithinWallClock, BuilderType
  <2>2. QED
    BY <1>1, <2>1 DEF Tick, BuilderType
<1>8. upgrade' \in [Upgrades -> UpgradeType] /\ StagesInv'
  <2>1. \A waited \in 0..WaitUnits : Older(waited, WaitUnits) \in 0..WaitUnits
    BY <1>2, Constants
  <2>2. upgrade' \in [Upgrades -> UpgradeType]
    BY <1>1, <2>1 DEF Tick, UpgradeType
  <2>3. \A u \in Upgrades : upgrade'[u].pc = upgrade[u].pc /\ upgrade'[u].stage = upgrade[u].stage
    BY <1>1 DEF Tick, UpgradeType
  <2>4. QED
    BY <2>2, <2>3 DEF StagesInv
<1>9. UNCHANGED <<queue, misled, faults>>
  BY DEF Tick
<1>10. QED
  BY <1>1, <1>3, <1>4, <1>5, <1>6, <1>7, <1>8, <1>9
  DEF TypeOK, RowType, WindowType, RecordType, EntryType, WorkType, BuilderType, UpgradeType

TypeInv == TypeOK /\ StagesInv

LEMMA TypeInit == Init => TypeInv
<1> SUFFICES ASSUME Init PROVE TypeInv
  OBVIOUS
<1>1. row \in [Parties -> RowType] /\ window \in WindowType
  BY Values DEF Init
<1>2. recorded \in [Agents -> RecordType] /\ work \in [Works -> WorkType]
  BY Values DEF Init
<1>3. queue \in [Agents -> Seq(EntryType)]
  BY EmptySeq DEF Init
<1>4. builder \in [Builders -> BuilderType]
  BY Values DEF Init, BuilderPhases
<1>5. upgrade \in [Upgrades -> UpgradeType] /\ misled \subseteq Agents /\ faults \in 0..MaxFaults
  BY Values, Constants DEF Init
<1>6. StagesInv
  BY Constants DEF Init, StagesInv, NoUpgrade
<1>7. QED
  BY <1>1, <1>2, <1>3, <1>4, <1>5, <1>6, Types DEF TypeInv

LEMMA TypeStep == TypeInv /\ [Next]_vars => TypeInv'
<1> SUFFICES ASSUME TypeInv, [Next]_vars PROVE TypeInv'
  OBVIOUS
<1>1. /\ row \in [Parties -> RowType] /\ window \in WindowType
      /\ recorded \in [Agents -> RecordType] /\ queue \in [Agents -> Seq(EntryType)]
      /\ work \in [Works -> WorkType] /\ builder \in [Builders -> BuilderType]
      /\ upgrade \in [Upgrades -> UpgradeType] /\ StagesInv /\ TypeOK
  BY Types DEF TypeInv
<1>2. faults' \in 0..MaxFaults /\ misled' \subseteq Agents
  BY <1>1, FaultTypes, MisledTypes DEF TypeOK
<1>3. ASSUME row' \in [Parties -> RowType], window' \in WindowType,
             recorded' \in [Agents -> RecordType], queue' \in [Agents -> Seq(EntryType)],
             work' \in [Works -> WorkType], builder' \in [Builders -> BuilderType],
             upgrade' \in [Upgrades -> UpgradeType], StagesInv'
      PROVE  TypeInv'
  BY <1>2, <1>3
  DEF TypeInv, TypeOK, RowType, WindowType, RecordType, EntryType, WorkType, BuilderType, UpgradeType
<1>4. UNCHANGED upgrade => StagesInv'
  BY <1>1 DEF StagesInv
<1>5. ASSUME NEW w \in Works, WorkStep(w) PROVE TypeInv'
  BY <1>1, <1>3, <1>4, <1>5, WorkMoves, WorkTypes DEF WorkFrame
<1>6. ASSUME NEW a \in Agents, Write(a) PROVE TypeInv'
  <2>1. UNCHANGED <<window, builder, upgrade>>
    BY <1>6 DEF Write
  <2>2. QED
    BY <1>1, <1>3, <1>4, <1>6, <2>1, WriteTypes
<1>7. ASSUME NEW a \in Agents, Observe(a) PROVE TypeInv'
  <2>1. UNCHANGED <<row, window, recorded, work, builder, upgrade>>
    BY <1>7 DEF Observe
  <2>2. queue' \in [Agents -> Seq(EntryType)]
    BY <1>1, <1>7, EnqueuedTypes DEF Observe
  <2>3. QED
    BY <1>1, <1>3, <1>4, <2>1, <2>2
<1>8. ASSUME NEW b \in Builders, BuilderStep(b) PROVE TypeInv'
  BY <1>1, <1>3, <1>4, <1>8, BuilderMoves, BuilderTypes DEF BuilderFrame
<1>9. ASSUME NEW u \in Upgrades, UpgradeStep(u) PROVE TypeInv'
  <2>1. upgrade' \in [Upgrades -> UpgradeType] /\ StagesInv'
    BY <1>1, <1>9, UpgradeTypes
  <2>2. window' \in WindowType /\ UNCHANGED row
    <3>1. window' \in {window, OpenedFor(u), ClosedBy(u)} /\ UNCHANGED row
      BY <1>9, UpgradeMoves DEF UpgradeFrame
    <3>2. QED
      BY <1>1, <3>1, Values DEF ClosedBy
  <2>3. CASE Redeploy(u)
    <3>1. recorded' \in [Agents -> RecordType] /\ work' \in [Works -> WorkType]
      <4>1. \A turns : Resumed(turns) \in [Works -> WorkType]
        BY Values DEF Resumed, WorkPhases
      <4>2. QED
        BY <2>3, <4>1, Values DEF Redeploy
    <3>2. queue' \in [Agents -> Seq(EntryType)] /\ builder' \in [Builders -> BuilderType]
      BY <2>3, Values, EmptySeq DEF Redeploy, BuilderPhases
    <3>3. QED
      BY <1>1, <1>3, <2>1, <2>2, <3>1, <3>2
  <2>4. CASE UpgradeFrame
    BY <1>1, <1>3, <2>1, <2>2, <2>4 DEF UpgradeFrame, agentMemory
  <2>5. QED
    BY <1>9, <2>3, <2>4, UpgradeMoves
<1>10. CASE Tick
  BY <1>1, <1>10, TickTypes DEF TypeInv
<1>11. CASE UNCHANGED vars
  BY <1>1, <1>3, <1>4, <1>11 DEF vars
<1>12. QED
  BY <1>5, <1>6, <1>7, <1>8, <1>9, <1>10, <1>11 DEF Next

(* The state has its types: over any lengths, no lease, window, wait or stage *)
(* is counted beyond its end.                                                 *)
THEOREM TypeCorrect == Spec => []TypeOK
<1>1. TypeInv => TypeOK
  BY DEF TypeInv
<1>2. QED
  BY <1>1, TypeInit, TypeStep, PTL DEF Spec

-----------------------------------------------------------------------------
(* The window.                                                                *)

(* An open window passes to another upgrade only by its holder's release or   *)
(* by lapsing: the statements of every other upgrade leave it as it is.       *)
THEOREM WindowIsKept == Spec => HolderKeepsItsWindow
<1>1. ASSUME [Next]_vars, NEW u \in Upgrades, OwnWindow(u)
      PROVE  window'.holder = u \/ Release(u) \/ Tick
  <2>1. window.holder = u /\ WindowOpen
    BY <1>1 DEF OwnWindow
  <2>2. ASSUME NEW v \in Upgrades, UpgradeStep(v) PROVE window'.holder = u \/ Release(u)
    <3>1. CASE UNCHANGED window
      BY <2>1, <3>1
    <3>2. CASE window' = OpenedFor(v) /\ (OwnWindow(v) \/ (~WindowOpen /\ NoBusyRow))
      BY <2>1, <3>2 DEF OpenedFor, OwnWindow
    <3>3. CASE Release(v) /\ window' = ClosedBy(v)
      BY <2>1, <3>3 DEF ClosedBy
    <3>4. QED
      BY <2>2, <3>1, <3>2, <3>3, UpgradeMoves
  <2>3. ASSUME NEW w \in Works, WorkStep(w) PROVE UNCHANGED window
    BY <2>3, WorkMoves DEF WorkFrame
  <2>4. ASSUME NEW a \in Agents, Write(a) \/ Observe(a) PROVE UNCHANGED window
    BY <2>4 DEF Write, Observe
  <2>5. ASSUME NEW b \in Builders, BuilderStep(b) PROVE UNCHANGED window
    BY <2>5, BuilderMoves DEF BuilderFrame
  <2>6. QED
    BY <1>1, <2>1, <2>2, <2>3, <2>4, <2>5 DEF Next, vars
<1>2. [Next]_vars => [\A u \in Upgrades : OwnWindow(u) => window'.holder = u \/ Release(u) \/ Tick]_vars
  BY <1>1
<1>3. QED
  BY <1>2, PTL DEF Spec, HolderKeepsItsWindow

-----------------------------------------------------------------------------
(* Project builders: marked busy before they look.                            *)

BuildersHeldBack == WindowOpen => \A b \in Builders : builder[b].pc # "working"

BuildersInv == BuildersAreBusy /\ BuildersHeldBack

\* A row that is busy grows old with the work it is about, and no older than a lease.
LEMMA AgesBelowLease ==
    ASSUME NEW p \in Parties, row[p] \in RowType, row[p].busy, row[p].age < LeaseUnits
    PROVE  /\ BusyRow(p)
           /\ row[p].age + 1 < LeaseUnits =>
                  OlderRow(row[p]).busy /\ OlderRow(row[p]).age = row[p].age + 1
  BY DEF BusyRow, OlderRow, RowType

LEMMA BuildersStep ==
    TypeInv /\ BuildersInv /\ [Next]_vars => BuildersInv'
<1> SUFFICES ASSUME TypeInv, BuildersInv, [Next]_vars PROVE BuildersInv'
  OBVIOUS
<1>1. row \in [Parties -> RowType] /\ builder \in [Builders -> BuilderType] /\ window \in WindowType
  BY Types DEF TypeInv
<1>2. Builders \subseteq Parties /\ Agents \cap Builders = {}
  BY Constants
<1>3. ASSUME NEW b \in Builders, builder[b].pc \in {"check", "working"}
      PROVE  /\ row[b].busy /\ row[b].age <= builder[b].age /\ row[b].age < LeaseUnits
             /\ BusyRow(b) /\ row[b] \in RowType
  <2>1. row[b].busy /\ row[b].age <= builder[b].age
    BY <1>3 DEF BuildersInv, BuildersAreBusy
  <2>2. row[b] \in RowType /\ builder[b] \in BuilderType
    BY <1>1, <1>2
  <2>3. row[b].age \in Nat /\ builder[b].age \in 0..WorkUnits
    BY <2>2 DEF RowType, BuilderType
  <2>4. row[b].age < LeaseUnits
    BY <2>1, <2>3, Constants
  <2>5. QED
    BY <2>1, <2>2, <2>4 DEF BusyRow
<1>4. ASSUME UNCHANGED <<builder, window>>, \A b \in Builders : row'[b] = row[b]
      PROVE  BuildersInv'
  BY <1>4 DEF BuildersInv, BuildersAreBusy, BuildersHeldBack, WindowOpen
<1>5. ASSUME NEW w \in Works, WorkStep(w) PROVE BuildersInv'
  BY <1>4, <1>5, WorkMoves DEF WorkFrame
<1>6. ASSUME NEW a \in Agents, Write(a) \/ Observe(a) PROVE BuildersInv'
  <2>1. UNCHANGED <<builder, window>>
    BY <1>6 DEF Write, Observe
  <2>2. \/ UNCHANGED row
        \/ \E busy : row' = [row EXCEPT ![a] = Row(busy)]
    BY <1>6 DEF Write, Observe
  <2>3. \A b \in Builders : row'[b] = row[b]
    BY <1>1, <1>2, <2>2
  <2>4. QED
    BY <1>4, <2>1, <2>3
<1>7. ASSUME NEW c \in Builders, BuilderStep(c) PROVE BuildersInv'
  <2>1. UNCHANGED window
    BY <1>7, BuilderMoves DEF BuilderFrame
  <2>2. ASSUME NEW b \in Builders, b # c PROVE builder'[b] = builder[b] /\ row'[b] = row[b]
    BY <1>1, <1>2, <1>7, <2>2, BuilderMoves DEF Moved
  <2>3. builder'[c].pc \in {"check", "working"} => row'[c].busy /\ row'[c].age <= builder'[c].age
    <3>1. CASE builder' = Moved(c, "mark") \/ builder' = Moved(c, "idle")
      BY <1>1, <3>1 DEF Moved
    <3>2. CASE builder' = Moved(c, "check") /\ row' = [row EXCEPT ![c] = Row(TRUE)]
      BY <1>1, <1>2, <3>2 DEF Moved, Row
    <3>3. CASE builder[c].pc = "check" /\ UNCHANGED row
               /\ builder' = [builder EXCEPT ![c].pc = IF WindowOpen THEN "unmark" ELSE "working"]
      BY <1>1, <1>3, <3>3 DEF BuilderType
    <3>4. CASE builder[c].pc = "working" /\ UNCHANGED builder /\ row' = [row EXCEPT ![c] = Row(TRUE)]
      BY <1>1, <1>2, <3>4 DEF Row, BuilderType
    <3>5. CASE builder[c].pc = "idle" /\ UNCHANGED builder
      BY <3>5
    <3>6. QED
      BY <1>7, <3>1, <3>2, <3>3, <3>4, <3>5, BuilderMoves
  <2>4. builder'[c].pc = "working" => builder[c].pc = "working" \/ ~WindowOpen
    <3>1. ASSUME NEW pc \in {"mark", "check", "idle"}, builder' = Moved(c, pc)
          PROVE  builder'[c].pc # "working"
      BY <1>1, <3>1 DEF Moved
    <3>2. CASE builder' = [builder EXCEPT ![c].pc = IF WindowOpen THEN "unmark" ELSE "working"]
      BY <1>1, <3>2 DEF BuilderType
    <3>3. QED
      BY <1>7, <3>1, <3>2, BuilderMoves
  <2>5. QED
    BY <2>1, <2>2, <2>3, <2>4 DEF BuildersInv, BuildersAreBusy, BuildersHeldBack, WindowOpen
<1>8. ASSUME NEW u \in Upgrades, UpgradeStep(u) PROVE BuildersInv'
  <2>1. CASE UpgradeFrame /\ UNCHANGED window
    BY <1>4, <2>1 DEF UpgradeFrame
  <2>2. CASE UpgradeFrame /\ window' = OpenedFor(u) /\ (OwnWindow(u) \/ (~WindowOpen /\ NoBusyRow))
    <3>1. \A b \in Builders : builder[b].pc # "working"
      BY <1>2, <1>3, <2>2 DEF OwnWindow, BuildersInv, BuildersHeldBack, NoBusyRow
    <3>2. QED
      BY <2>2, <3>1 DEF UpgradeFrame, BuildersInv, BuildersAreBusy, BuildersHeldBack
  <2>3. CASE UpgradeFrame /\ window' = ClosedBy(u)
    <3>1. WindowOpen' => WindowOpen
      BY <1>1, <2>3 DEF ClosedBy, NoWindow, WindowOpen
    <3>2. QED
      BY <2>3, <3>1 DEF UpgradeFrame, BuildersInv, BuildersAreBusy, BuildersHeldBack
  <2>4. CASE Redeploy(u)
    BY <2>4 DEF Redeploy, BuildersInv, BuildersAreBusy, BuildersHeldBack
  <2>5. QED
    BY <1>8, <2>1, <2>2, <2>3, <2>4, UpgradeMoves
<1>9. CASE Tick
  <2>1. WindowOpen' => WindowOpen
    BY <1>1, <1>9 DEF Tick, WindowOpen, NoWindow, WindowType
  <2>2. \A b \in Builders : builder'[b].pc = builder[b].pc
    BY <1>1, <1>9 DEF Tick, BuilderType
  <2>3. ASSUME NEW b \in Builders, builder[b].pc \in {"check", "working"}
        PROVE  row'[b].busy /\ row'[b].age <= builder'[b].age
    <3>1. builder[b].age < WorkUnits /\ builder'[b].age = builder[b].age + 1 /\ row'[b] = OlderRow(row[b])
      BY <1>1, <1>2, <1>9, <2>3 DEF Tick, WithinWallClock, BuilderType
    <3>2. row[b].age \in Nat /\ builder[b].age \in Nat
      BY <1>1, <1>3, <2>3 DEF RowType, BuilderType
    <3>3. row[b].age + 1 < LeaseUnits
      BY <1>3, <2>3, <3>1, <3>2, Constants
    <3>4. OlderRow(row[b]).busy /\ OlderRow(row[b]).age = row[b].age + 1
      BY <1>2, <1>3, <2>3, <3>3, AgesBelowLease
    <3>5. QED
      BY <1>3, <2>3, <3>1, <3>2, <3>4
  <2>4. QED
    BY <2>1, <2>2, <2>3 DEF BuildersInv, BuildersAreBusy, BuildersHeldBack
<1>10. CASE UNCHANGED vars
  BY <1>4, <1>10 DEF vars
<1>11. QED
  BY <1>5, <1>6, <1>7, <1>8, <1>9, <1>10 DEF Next

-----------------------------------------------------------------------------
(* Agents' work: recorded before it is admitted.                              *)

LEMMA QueuedLater ==
    ASSUME TypeInv, QueueInv, AdmittedIsBusy, NEW a \in Agents, NEW w \in Works \cup {None}, NEW works,
           Enqueues(a, w, works), works \in [Works -> WorkType],
           w # None => /\ OwnerOf[w] = a /\ work[w].pc # "recording" /\ works[w].pc = "recording",
           \A v \in Works : v # w /\ work[v].pc = "recording" => works[v].pc = "recording",
           \A v \in Works : Admitted(v)' => Admitted(v)
    PROVE  /\ QueueInv'
           /\ \A v \in Works : Admitted(v)' =>
                  \A i \in 1..Len(queue'[OwnerOf[v]]) : queue'[OwnerOf[v]][i].busy
<1> DEFINE entry == [busy |-> Busy(a, works), work |-> w]
           n == Len(queue[a])
<1>1. queue \in [Agents -> Seq(EntryType)] /\ None \notin Works /\ \A v \in Works : OwnerOf[v] \in Agents
  BY Types, Constants DEF TypeInv
<1>2. queue[a] \in Seq(EntryType) /\ n \in Nat
  BY <1>1, LenProperties
<1>3. /\ \A b \in Agents : b # a => queue'[b] = queue[b]
      /\ queue'[a] = Append(queue[a], entry)
  BY <1>1 DEF Enqueues, Enqueued
<1>4. /\ Len(queue'[a]) = n + 1 /\ queue'[a][n + 1] = entry
      /\ \A i \in 1..n : queue'[a][i] = queue[a][i]
  BY <1>2, <1>3
<1>5. \A v \in Works : OwnerOf[v] = a /\ works[v].pc # "none" => entry.busy
  BY DEF Busy, WorkOf
<1>6. \A b \in Agents : \A i \in 1..Len(queue[b]) : queue[b][i].work # None =>
          /\ queue[b][i].work \in Works /\ queue[b][i].work # w
          /\ OwnerOf[queue[b][i].work] = b /\ work'[queue[b][i].work].pc = "recording"
  <2> SUFFICES ASSUME NEW b \in Agents, NEW i \in 1..Len(queue[b]), queue[b][i].work # None
               PROVE  /\ queue[b][i].work \in Works /\ queue[b][i].work # w
                      /\ OwnerOf[queue[b][i].work] = b /\ work'[queue[b][i].work].pc = "recording"
    OBVIOUS
  <2>1. queue[b][i] \in EntryType
    BY <1>1
  <2>2. queue[b][i].work \in Works
    BY <2>1 DEF EntryType
  <2>3. OwnerOf[queue[b][i].work] = b /\ work[queue[b][i].work].pc = "recording"
    BY DEF QueueInv
  <2>4. QED
    BY <2>2, <2>3 DEF Enqueues
<1>7. ASSUME NEW b \in Agents, b # a, NEW i \in 1..Len(queue'[b]), queue'[b][i].work # None
      PROVE  /\ OwnerOf[queue'[b][i].work] = b /\ work'[queue'[b][i].work].pc = "recording"
             /\ \A j \in 1..Len(queue'[b]) : /\ j >= i => queue'[b][j].busy
                                             /\ queue'[b][j].work = queue'[b][i].work => j = i
  BY <1>3, <1>6, <1>7 DEF QueueInv
<1>8. ASSUME NEW i \in 1..n, queue[a][i].work # None
      PROVE  /\ OwnerOf[queue'[a][i].work] = a /\ work'[queue'[a][i].work].pc = "recording"
             /\ \A j \in 1..(n + 1) : /\ j >= i => queue'[a][j].busy
                                      /\ queue'[a][j].work = queue'[a][i].work => j = i
  <2>1. \A j \in 1..n : /\ j >= i => queue[a][j].busy
                        /\ queue[a][j].work = queue[a][i].work => j = i
    BY <1>8 DEF QueueInv
  <2>2. entry.busy
    BY <1>5, <1>6, <1>8 DEF Enqueues
  <2>3. entry.work # queue[a][i].work
    BY <1>6, <1>8
  <2>4. \A j \in 1..(n + 1) : j \in 1..n \/ j = n + 1
    BY <1>2
  <2>5. QED
    BY <1>4, <1>6, <1>8, <2>1, <2>2, <2>3, <2>4
<1>9. ASSUME w # None
      PROVE  /\ OwnerOf[w] = a /\ work'[w].pc = "recording"
             /\ \A j \in 1..(n + 1) : /\ j >= n + 1 => queue'[a][j].busy
                                      /\ queue'[a][j].work = w => j = n + 1
  <2>1. w \in Works /\ entry.busy
    BY <1>5, <1>9
  <2>2. \A j \in 1..(n + 1) : j \in 1..n \/ j = n + 1
    BY <1>2
  <2>3. \A j \in 1..n : ~(j >= n + 1) /\ queue'[a][j].work # w
    BY <1>2, <1>4, <1>6, <1>9
  <2>4. QED
    BY <1>4, <1>9, <2>1, <2>2, <2>3 DEF Enqueues
<1>10. QueueInv'
  <2> SUFFICES ASSUME NEW b \in Agents, NEW i \in 1..Len(queue'[b]), queue'[b][i].work # None
               PROVE  /\ OwnerOf[queue'[b][i].work] = b /\ work'[queue'[b][i].work].pc = "recording"
                      /\ \A j \in 1..Len(queue'[b]) : /\ j >= i => queue'[b][j].busy
                                                      /\ queue'[b][j].work = queue'[b][i].work => j = i
    BY DEF QueueInv
  <2>1. CASE b # a
    BY <1>7, <2>1
  <2>2. CASE b = a /\ i \in 1..n
    BY <1>4, <1>8, <2>2
  <2>3. CASE b = a /\ i = n + 1
    BY <1>4, <1>9, <2>3
  <2>4. QED
    BY <1>2, <1>4, <2>1, <2>2, <2>3
<1>11. ASSUME NEW v \in Works, Admitted(v)', NEW i \in 1..Len(queue'[OwnerOf[v]])
       PROVE  queue'[OwnerOf[v]][i].busy
  <2>1. Admitted(v) /\ work'[v].pc # "none"
    BY <1>11 DEF Admitted, Started
  <2>2. \A j \in 1..Len(queue[OwnerOf[v]]) : queue[OwnerOf[v]][j].busy
    BY <2>1 DEF AdmittedIsBusy
  <2>3. CASE OwnerOf[v] # a
    BY <1>1, <1>3, <1>11, <2>2, <2>3
  <2>4. CASE OwnerOf[v] = a
    <3>1. entry.busy
      BY <1>5, <2>1, <2>4 DEF Enqueues
    <3>2. i \in 1..n \/ i = n + 1
      BY <1>2, <1>4, <1>11, <2>4
    <3>3. QED
      BY <1>4, <2>2, <2>4, <3>1, <3>2
  <2>5. QED
    BY <2>3, <2>4
<1>12. QED
  BY <1>10, <1>11

\* The frame of the agents' invariant.
LEMMA AgentsSame ==
    ASSUME AgentsInv, UNCHANGED agentMemory, \A a \in Agents : row'[a] = row[a],
           \A w \in Works : OwnerOf[w] \in Agents
    PROVE  AgentsInv'
<1>1. UNCHANGED <<recorded, queue, work, misled>>
  BY DEF agentMemory
<1>2. RecordedIsFresh'
  BY <1>1 DEF AgentsInv, RecordedIsFresh
<1>3. AdmittedIsBusy'
  BY <1>1 DEF AgentsInv, AdmittedIsBusy, Admitted, Started
<1>4. QueueInv'
  BY <1>1 DEF AgentsInv, QueueInv
<1>5. QED
  BY <1>2, <1>3, <1>4 DEF AgentsInv

\* A step of a piece of work: it is admitted only by what was recorded for it.
LEMMA AgentsWorkStep ==
    ASSUME TypeInv, AgentsInv, NEW w \in Works, WorkStep(w)
    PROVE  AgentsInv'
<1>1. /\ work \in [Works -> WorkType] /\ queue \in [Agents -> Seq(EntryType)]
      /\ work' \in [Works -> WorkType]
  BY Types, WorkTypes DEF TypeInv
<1>2. UNCHANGED <<row, recorded, misled>> /\ None \notin Works /\ OwnerOf[w] \in Agents
  BY WorkMoves, Constants DEF WorkFrame
<1>3. RecordedIsFresh'
  BY <1>2 DEF AgentsInv, RecordedIsFresh
<1>4. ASSUME \A v \in Works : Admitted(v)' => Admitted(v) /\ work'[v].age = work[v].age,
             \A v \in Works : Admitted(v)' =>
                 \A i \in 1..Len(queue'[OwnerOf[v]]) : queue'[OwnerOf[v]][i].busy
      PROVE  AdmittedIsBusy'
  BY <1>2, <1>4 DEF AgentsInv, AdmittedIsBusy
<1>5. ASSUME NEW v \in {w, None}, NEW works \in [Works -> WorkType], Enqueues(OwnerOf[w], v, works),
             v = w => work[w].pc # "recording" /\ works[w].pc = "recording",
             works[w].pc \in {"recording", "none"}, work[w].pc # "recording",
             \A x \in Works : x # w => works[x] = work[x]
      PROVE  AgentsInv'
  <2>1. work' = works
    BY <1>5 DEF Enqueues
  <2>2. \A x \in Works : Admitted(x)' => Admitted(x) /\ work'[x].age = work[x].age
    BY <1>5, <2>1 DEF Admitted, Started
  <2>3. \A x \in Works : x # v /\ work[x].pc = "recording" => works[x].pc = "recording"
    BY <1>5
  <2>4. v # None => OwnerOf[v] = OwnerOf[w] /\ work[v].pc # "recording" /\ works[v].pc = "recording"
    BY <1>5
  <2>5. /\ QueueInv'
        /\ \A x \in Works : Admitted(x)' =>
               \A i \in 1..Len(queue'[OwnerOf[x]]) : queue'[OwnerOf[x]][i].busy
    BY <1>2, <1>5, <2>2, <2>3, <2>4, QueuedLater DEF AgentsInv
  <2>6. QED
    BY <1>3, <1>4, <2>2, <2>5 DEF AgentsInv
<1>6. ASSUME UNCHANGED queue, work[w].pc = "reading", \A x \in Works : x # w => work'[x] = work[x],
             Admitted(w)' => Admitted(w) /\ work'[w].age = work[w].age
      PROVE  AgentsInv'
  <2>1. \A x \in Works : Admitted(x)' => Admitted(x) /\ work'[x].age = work[x].age
    BY <1>6 DEF Admitted, Started
  <2>2. AdmittedIsBusy'
    BY <1>4, <1>6, <2>1 DEF AgentsInv, AdmittedIsBusy
  <2>3. QueueInv'
    <3>1. ASSUME NEW a \in Agents, NEW i \in 1..Len(queue[a]), queue[a][i].work # None
          PROVE  work'[queue[a][i].work].pc = "recording"
      <4>1. queue[a][i] \in EntryType
        BY <1>1
      <4>2. work[queue[a][i].work].pc = "recording" /\ queue[a][i].work \in Works
        BY <3>1, <4>1 DEF AgentsInv, QueueInv, EntryType
      <4>3. QED
        BY <1>6, <4>2
    <3>2. QED
      BY <1>6, <3>1 DEF AgentsInv, QueueInv
  <2>4. QED
    BY <1>3, <2>2, <2>3 DEF AgentsInv
<1>7. CASE work[w].pc = "none"
           /\ Enqueues(OwnerOf[w], w, [work EXCEPT ![w] = [NoWork EXCEPT !.pc = "recording"]])
  BY <1>1, <1>5, <1>7 DEF Enqueues, NoWork
<1>8. CASE work[w].pc \in {"held", "unsure"} /\ Enqueues(OwnerOf[w], w, [work EXCEPT ![w].pc = "recording"])
  BY <1>1, <1>5, <1>8 DEF Enqueues, WorkType
<1>9. CASE work[w].pc \in {"reading", "held", "unsure", "working"} /\ Enqueues(OwnerOf[w], None, Settled(w))
  BY <1>1, <1>2, <1>5, <1>9 DEF Enqueues, Settled, NoWork
<1>10. CASE /\ work[w].pc = "reading" /\ UNCHANGED queue
            /\ work' = [work EXCEPT ![w].pc = "working", ![w].sure = TRUE, ![w].waited = 0]
  BY <1>1, <1>6, <1>10 DEF Admitted, WorkType
<1>11. CASE /\ work[w].pc = "reading" /\ UNCHANGED queue
            /\ work' = [work EXCEPT ![w].pc = "held", ![w].age = 0]
  BY <1>1, <1>6, <1>11 DEF Admitted, Started, WorkType
<1>12. CASE work[w].pc = "reading" /\ UNCHANGED queue /\ work' = Unanswered(w)
  BY <1>1, <1>6, <1>12 DEF Admitted, Started, Unanswered, NoWork, WorkType
<1>13. QED
  BY <1>7, <1>8, <1>9, <1>10, <1>11, <1>12, WorkMoves

\* A write that fails leaves its agent's row as it is, makes it busier, or misleads the agent.
LEMMA AgentsWriteStep ==
    ASSUME TypeInv, AgentsInv, NEW a \in Agents, Write(a)
    PROVE  AgentsInv'
<1> DEFINE q == queue[a]
           next == Head(queue[a])
           v == Head(queue[a]).work
<1>1. /\ row \in [Parties -> RowType] /\ recorded \in [Agents -> RecordType]
      /\ queue \in [Agents -> Seq(EntryType)] /\ work \in [Works -> WorkType]
  BY Types DEF TypeInv
<1>2. /\ None \notin Works /\ \A w \in Works : OwnerOf[w] \in Agents
      /\ RenewalUnits \in Nat \ {0} /\ Agents \subseteq Parties
  BY Constants
<1>3. q \in Seq(EntryType) /\ q # <<>>
  BY <1>1 DEF Write
<1>4. /\ Len(q) \in Nat /\ 1 \in 1..Len(q) /\ next = q[1] /\ next \in EntryType
      /\ Tail(q) \in Seq(EntryType) /\ Len(Tail(q)) = Len(q) - 1
      /\ \A i \in 1..Len(Tail(q)) : i + 1 \in 1..Len(q) /\ Tail(q)[i] = q[i + 1]
  BY <1>3, HeadTailProperties, LenProperties
<1>5. queue'[a] = Tail(q) /\ \A b \in Agents : b # a => queue'[b] = queue[b]
  BY <1>1 DEF Write
<1>6. next.busy \in BOOLEAN /\ v \in Works \cup {None}
  BY <1>4 DEF EntryType
<1>7. v # None => /\ v \in Works /\ OwnerOf[v] = a /\ work[v].pc = "recording"
                  /\ \A j \in 1..Len(q) : q[j].busy /\ (q[j].work = v => j = 1)
  BY <1>4, <1>6 DEF AgentsInv, QueueInv
<1>8. \/ Skippable(a) /\ work' = Recorded(v) /\ UNCHANGED <<row, recorded, misled>>
      \/ /\ row' = [row EXCEPT ![a] = Row(next.busy)]
         /\ recorded' = [recorded EXCEPT ![a] = [busy |-> next.busy, age |-> 0, known |-> TRUE]]
         /\ work' = Recorded(v) /\ misled' = Heard(a, next.busy)
      \/ UNCHANGED <<row, recorded, misled>> /\ work' = NotRecorded(v)
      \/ /\ row' = [row EXCEPT ![a] = Row(next.busy)] /\ UNCHANGED recorded
         /\ work' = NotRecorded(v)
         /\ misled' = IF next.busy THEN misled ELSE misled \cup {a}
  BY DEF Write
<1>9. \A w \in Works : w # v => work'[w] = work[w]
  BY <1>1, <1>6, <1>8 DEF Recorded, NotRecorded, Unanswered
<1>10. \A b \in Agents : b # a =>
           row'[b] = row[b] /\ recorded'[b] = recorded[b] /\ (b \in misled' <=> b \in misled)
  BY <1>1, <1>2, <1>8 DEF Heard
<1>11. \/ row'[a] = row[a] /\ recorded'[a] = recorded[a] /\ (a \in misled' <=> a \in misled)
       \/ /\ row'[a] = Row(next.busy)
          /\ recorded'[a] = [busy |-> next.busy, age |-> 0, known |-> TRUE]
       \/ /\ row'[a] = Row(next.busy) /\ recorded'[a] = recorded[a]
          /\ a \in misled' \/ (next.busy /\ a \notin misled)
  BY <1>1, <1>2, <1>8 DEF Heard
<1>12. RecordedIsFresh'
  <2> SUFFICES ASSUME NEW b \in Agents, b \notin misled', recorded'[b].known, recorded'[b].busy,
                      recorded'[b].age < RenewalUnits
               PROVE  row'[b].busy /\ row'[b].age <= recorded'[b].age
    BY DEF RecordedIsFresh
  <2>1. CASE b # a
    BY <1>10, <2>1 DEF AgentsInv, RecordedIsFresh
  <2>2. CASE b = a
    <3>1. recorded[a].age \in Nat
      BY <1>1, <1>2 DEF RecordType
    <3>2. QED
      BY <1>11, <2>2, <3>1 DEF AgentsInv, RecordedIsFresh, Row
  <2>3. QED
    BY <2>1, <2>2
<1>13. QueueInv'
  <2> SUFFICES ASSUME NEW b \in Agents, NEW i \in 1..Len(queue'[b]), queue'[b][i].work # None
               PROVE  /\ OwnerOf[queue'[b][i].work] = b /\ work'[queue'[b][i].work].pc = "recording"
                      /\ \A j \in 1..Len(queue'[b]) : /\ j >= i => queue'[b][j].busy
                                                      /\ queue'[b][j].work = queue'[b][i].work => j = i
    BY DEF QueueInv
  <2>1. CASE b # a
    <3>1. queue[b][i] \in EntryType /\ queue'[b] = queue[b]
      BY <1>1, <1>5, <2>1
    <3>2. /\ OwnerOf[queue[b][i].work] = b /\ work[queue[b][i].work].pc = "recording"
          /\ \A j \in 1..Len(queue[b]) : /\ j >= i => queue[b][j].busy
                                         /\ queue[b][j].work = queue[b][i].work => j = i
      BY <3>1 DEF AgentsInv, QueueInv
    <3>3. queue[b][i].work \in Works /\ queue[b][i].work # v
      BY <1>7, <2>1, <3>1, <3>2 DEF EntryType
    <3>4. QED
      BY <1>9, <3>1, <3>2, <3>3
  <2>2. CASE b = a
    <3>1. /\ i \in 1..Len(Tail(q)) /\ i + 1 \in 1..Len(q) /\ queue'[a][i] = q[i + 1]
          /\ q[i + 1].work # None
      BY <1>4, <1>5, <2>2
    <3>2. /\ OwnerOf[q[i + 1].work] = a /\ work[q[i + 1].work].pc = "recording"
          /\ \A j \in 1..Len(q) : /\ j >= i + 1 => q[j].busy
                                  /\ q[j].work = q[i + 1].work => j = i + 1
      BY <3>1 DEF AgentsInv, QueueInv
    <3>3. q[i + 1].work \in Works
      <4>1. q[i + 1] \in EntryType
        BY <1>3, <3>1
      <4>2. QED
        BY <3>1, <4>1 DEF EntryType
    <3>4. q[i + 1].work # v
      <4>1. i + 1 # 1
        BY <1>4, <3>1
      <4>2. QED
        BY <1>4, <3>2, <4>1
    <3>5. ASSUME NEW j \in 1..Len(Tail(q))
          PROVE  /\ j >= i => queue'[a][j].busy
                 /\ queue'[a][j].work = queue'[a][i].work => j = i
      <4>1. j + 1 \in 1..Len(q) /\ queue'[a][j] = q[j + 1]
        BY <1>4, <1>5
      <4>2. (j >= i => j + 1 >= i + 1) /\ (j + 1 = i + 1 => j = i)
        BY <1>4, <3>1
      <4>3. QED
        BY <3>1, <3>2, <4>1, <4>2
    <3>6. QED
      BY <1>5, <1>9, <2>2, <3>1, <3>2, <3>3, <3>4, <3>5
  <2>3. QED
    BY <2>1, <2>2
<1>14. (\A i \in 1..Len(q) : q[i].busy) => \A i \in 1..Len(queue'[a]) : queue'[a][i].busy
  BY <1>4, <1>5
<1>15. ASSUME NEW w \in Works, Admitted(w)'
       PROVE  /\ \/ OwnerOf[w] \in misled'
                 \/ row'[OwnerOf[w]].busy /\ row'[OwnerOf[w]].age < work'[w].age + RenewalUnits
              /\ \A i \in 1..Len(queue'[OwnerOf[w]]) : queue'[OwnerOf[w]][i].busy
  <2>1. CASE w # v /\ OwnerOf[w] # a
    <3>1. work'[w] = work[w] /\ Admitted(w)
      BY <1>9, <1>15, <2>1 DEF Admitted, Started
    <3>2. QED
      BY <1>2, <1>5, <1>10, <2>1, <3>1 DEF AgentsInv, AdmittedIsBusy
  <2>2. CASE w # v /\ OwnerOf[w] = a
    <3>1. work'[w] = work[w] /\ Admitted(w)
      BY <1>9, <1>15, <2>2 DEF Admitted, Started
    <3>2. /\ a \in misled \/ (row[a].busy /\ row[a].age < work[w].age + RenewalUnits)
          /\ \A i \in 1..Len(q) : q[i].busy
      BY <2>2, <3>1 DEF AgentsInv, AdmittedIsBusy
    <3>3. 0 < work[w].age + RenewalUnits
      BY <1>1, <1>2 DEF WorkType
    <3>4. a \in misled' \/ (row'[a].busy /\ row'[a].age < work[w].age + RenewalUnits)
      BY <1>4, <1>11, <3>2, <3>3 DEF Row
    <3>5. QED
      BY <1>14, <2>2, <3>1, <3>2, <3>4
  <2>3. CASE w = v
    <3>1. v # None /\ next.busy /\ work[v].pc = "recording" /\ OwnerOf[v] = a
      BY <1>2, <1>4, <1>7, <2>3
    <3>2. work' = Recorded(v)
      <4>1. v \in Works /\ work[v] \in WorkType
        BY <1>1, <2>3
      <4>2. CASE work' = NotRecorded(v)
        <5>1. work'[v].pc = "unsure" \/ (work'[v].pc = "working" /\ ~work'[v].sure)
          BY <1>1, <3>1, <4>1, <4>2 DEF NotRecorded, Unanswered, NoWork, WorkType
        <5>2. QED
          BY <1>15, <2>3, <5>1 DEF Admitted, Started
      <4>3. QED
        BY <1>8, <4>2
    <3>3. work'[v].age = 0
      BY <1>1, <2>3, <3>1, <3>2 DEF Recorded, WorkType
    <3>4. a \in misled' \/ (row'[a].busy /\ row'[a].age < RenewalUnits)
      <4>1. CASE row'[a] = Row(next.busy)
        BY <1>2, <3>1, <4>1 DEF Row
      <4>2. CASE Skippable(a) /\ row'[a] = row[a] /\ misled' = misled /\ a \notin misled
        <5>1. recorded[a].known /\ recorded[a].busy /\ recorded[a].age < RenewalUnits
          BY <1>1, <3>1, <4>2 DEF Skippable, RecordType
        <5>2. row[a].busy /\ row[a].age <= recorded[a].age
          BY <4>2, <5>1 DEF AgentsInv, RecordedIsFresh
        <5>3. row[a].age \in Nat /\ recorded[a].age \in Nat
          BY <1>1, <1>2 DEF RowType, RecordType
        <5>4. QED
          BY <1>2, <4>2, <5>1, <5>2, <5>3
      <4>3. Recorded(v) # NotRecorded(v)
        <5>1. Recorded(v)[v].pc = "reading"
          BY <1>1, <2>3, <3>1 DEF Recorded, WorkType
        <5>2. NotRecorded(v)[v].pc # "reading"
          BY <1>1, <2>3, <3>1 DEF NotRecorded, Unanswered, NoWork, WorkType
        <5>3. QED
          BY <5>1, <5>2
      <4>4. QED
        BY <1>1, <1>2, <1>8, <3>2, <4>1, <4>2, <4>3
    <3>5. 0 + RenewalUnits = RenewalUnits
      BY <1>2
    <3>6. QED
      BY <1>7, <1>14, <2>3, <3>1, <3>3, <3>4, <3>5
  <2>4. QED
    BY <2>1, <2>2, <2>3
<1>16. QED
  BY <1>12, <1>13, <1>15 DEF AgentsInv, AdmittedIsBusy

LEMMA AgentsTick ==
    ASSUME TypeInv, AgentsInv, Tick
    PROVE  AgentsInv'
<1>1. /\ row \in [Parties -> RowType] /\ recorded \in [Agents -> RecordType]
      /\ queue \in [Agents -> Seq(EntryType)] /\ work \in [Works -> WorkType]
  BY Types DEF TypeInv
<1>2. /\ None \notin Works /\ \A w \in Works : OwnerOf[w] \in Agents
      /\ RenewalUnits \in Nat \ {0} /\ LeaseUnits \in Nat /\ WorkUnits \in Nat
      /\ RenewalUnits + WorkUnits <= LeaseUnits /\ Agents \subseteq Parties
  BY Constants
<1>3. /\ \A p \in Parties : row'[p] = OlderRow(row[p])
      /\ \A w \in Works : work'[w] = OlderWork(work[w])
      /\ UNCHANGED <<queue, misled>>
  BY DEF Tick
<1>4. ASSUME NEW a \in Agents, row[a].busy, row[a].age + 1 < LeaseUnits
      PROVE  row'[a].busy /\ row'[a].age = row[a].age + 1
  <2>1. row[a] \in RowType /\ row[a].age \in Nat /\ a \in Parties
    BY <1>1, <1>2 DEF RowType
  <2>2. row[a].age < LeaseUnits
    BY <1>2, <1>4, <2>1
  <2>3. QED
    BY <1>3, <1>4, <2>1, <2>2, AgesBelowLease
<1>5. ASSUME NEW w \in Works
      PROVE  /\ work'[w].pc = work[w].pc /\ work'[w].sure = work[w].sure
             /\ work[w].pc \in {"reading", "working"} =>
                    work[w].age < WorkUnits /\ work'[w].age = work[w].age + 1
  <2>1. work[w] \in WorkType
    BY <1>1
  <2>2. QED
    BY <1>3, <2>1 DEF OlderWork, WorkType, Tick, WithinWallClock
<1>6. RecordedIsFresh'
  <2> SUFFICES ASSUME NEW a \in Agents, a \notin misled, recorded'[a].known, recorded'[a].busy,
                      recorded'[a].age < RenewalUnits
               PROVE  row'[a].busy /\ row'[a].age <= recorded'[a].age
    BY <1>3 DEF RecordedIsFresh
  <2>1. recorded[a] \in RecordType /\ row[a].age \in Nat
    BY <1>1, <1>2 DEF RowType
  <2>2. recorded[a].known /\ recorded[a].busy
        /\ recorded'[a].age = Older(recorded[a].age, RenewalUnits)
    BY <1>1, <2>1 DEF Tick, RecordType
  <2>3. recorded[a].age \in Nat /\ recorded[a].age < RenewalUnits
        /\ recorded'[a].age = recorded[a].age + 1
    BY <1>2, <2>1, <2>2 DEF Older, RecordType
  <2>4. row[a].busy /\ row[a].age <= recorded[a].age
    BY <2>2, <2>3 DEF AgentsInv, RecordedIsFresh
  <2>5. row[a].age + 1 < LeaseUnits
    BY <1>2, <2>1, <2>3, <2>4
  <2>6. QED
    BY <1>4, <2>1, <2>3, <2>4, <2>5
<1>7. AdmittedIsBusy'
  <2> SUFFICES ASSUME NEW w \in Works, Admitted(w)'
               PROVE  /\ \/ OwnerOf[w] \in misled'
                         \/ row'[OwnerOf[w]].busy /\ row'[OwnerOf[w]].age < work'[w].age + RenewalUnits
                      /\ \A i \in 1..Len(queue'[OwnerOf[w]]) : queue'[OwnerOf[w]][i].busy
    BY DEF AdmittedIsBusy
  <2>1. Admitted(w) /\ work[w].pc \in {"reading", "working"}
    BY <1>5 DEF Admitted, Started
  <2>9. \A i \in 1..Len(queue[OwnerOf[w]]) : queue[OwnerOf[w]][i].busy
    BY <2>1 DEF AgentsInv, AdmittedIsBusy
  <2> SUFFICES ASSUME OwnerOf[w] \notin misled
               PROVE  row'[OwnerOf[w]].busy /\ row'[OwnerOf[w]].age < work'[w].age + RenewalUnits
    BY <1>3, <2>9
  <2>2. row[OwnerOf[w]].busy /\ row[OwnerOf[w]].age < work[w].age + RenewalUnits
    BY <2>1 DEF AgentsInv, AdmittedIsBusy
  <2>3. work[w].age \in Nat /\ row[OwnerOf[w]].age \in Nat
    BY <1>1, <1>2 DEF WorkType, RowType
  <2>4. work[w].age < WorkUnits /\ work'[w].age = work[w].age + 1
    BY <1>5, <2>1
  <2>5. row[OwnerOf[w]].age + 1 < LeaseUnits
    BY <1>2, <2>2, <2>3, <2>4
  <2>6. row'[OwnerOf[w]].busy /\ row'[OwnerOf[w]].age = row[OwnerOf[w]].age + 1
    BY <1>2, <1>4, <2>2, <2>5
  <2>7. row'[OwnerOf[w]].age < work'[w].age + RenewalUnits
    BY <1>2, <2>2, <2>3, <2>4, <2>6
  <2>8. QED
    BY <1>3, <2>2, <2>6, <2>7
<1>8. QueueInv'
  <2>1. ASSUME NEW a \in Agents, NEW i \in 1..Len(queue[a]), queue[a][i].work # None
        PROVE  work'[queue[a][i].work].pc = "recording"
    <3>1. queue[a][i] \in EntryType
      BY <1>1
    <3>2. work[queue[a][i].work].pc = "recording" /\ queue[a][i].work \in Works
      BY <2>1, <3>1 DEF AgentsInv, QueueInv, EntryType
    <3>3. QED
      BY <1>5, <3>2
  <2>2. QED
    BY <1>3, <2>1 DEF AgentsInv, QueueInv
<1>9. QED
  BY <1>6, <1>7, <1>8 DEF AgentsInv

LEMMA AgentsStep ==
    ASSUME TypeInv, AgentsInv, [Next]_vars
    PROVE  AgentsInv'
<1>1. \A w \in Works : OwnerOf[w] \in Agents
  BY Constants
<1>2. row \in [Parties -> RowType] /\ Agents \subseteq Parties /\ Agents \cap Builders = {}
      /\ work \in [Works -> WorkType] /\ None \notin Works
  BY Types, Constants DEF TypeInv
<1>3. ASSUME NEW w \in Works, WorkStep(w) PROVE AgentsInv'
  BY <1>3, AgentsWorkStep
<1>4. ASSUME NEW a \in Agents, Write(a) PROVE AgentsInv'
  BY <1>4, AgentsWriteStep
<1>5. ASSUME NEW a \in Agents, Observe(a) PROVE AgentsInv'
  <2>1. UNCHANGED <<row, recorded, work, misled>> /\ Enqueues(a, None, work)
    BY <1>5 DEF Observe, Enqueues
  <2>2. /\ QueueInv'
        /\ \A x \in Works : Admitted(x)' =>
               \A i \in 1..Len(queue'[OwnerOf[x]]) : queue'[OwnerOf[x]][i].busy
    <3>1. \A x \in Works : Admitted(x)' => Admitted(x)
      BY <2>1 DEF Admitted, Started
    <3>2. QED
      BY <1>2, <2>1, <3>1, QueuedLater DEF AgentsInv
  <2>3. RecordedIsFresh'
    BY <2>1 DEF AgentsInv, RecordedIsFresh
  <2>4. AdmittedIsBusy'
    BY <2>1, <2>2 DEF AgentsInv, AdmittedIsBusy, Admitted, Started
  <2>5. QED
    BY <2>2, <2>3, <2>4 DEF AgentsInv
<1>6. ASSUME NEW b \in Builders, BuilderStep(b) PROVE AgentsInv'
  <2>1. UNCHANGED agentMemory
    BY <1>6, BuilderMoves DEF BuilderFrame, agentMemory
  <2>2. \A a \in Agents : row'[a] = row[a]
    BY <1>2, <1>6, BuilderMoves
  <2>3. QED
    BY <1>1, <2>1, <2>2, AgentsSame
<1>7. ASSUME NEW u \in Upgrades, UpgradeStep(u) PROVE AgentsInv'
  <2>1. CASE Redeploy(u)
    BY <1>1, <2>1 DEF Redeploy, Resumed, AgentsInv, RecordedIsFresh, AdmittedIsBusy, QueueInv, Admitted,
       Started, NoRecord, NoWork
  <2>2. CASE UpgradeFrame
    BY <1>1, <2>2, AgentsSame DEF UpgradeFrame
  <2>3. QED
    BY <1>7, <2>1, <2>2, UpgradeMoves
<1>8. CASE Tick
  BY <1>8, AgentsTick
<1>9. CASE UNCHANGED vars
  BY <1>1, <1>9, AgentsSame DEF vars, agentMemory
<1>10. QED
  BY <1>3, <1>4, <1>5, <1>6, <1>7, <1>8, <1>9 DEF Next

\* The database's row of admitted work is busy, and its lease has not lapsed.
LEMMA AdmittedRow ==
    ASSUME TypeInv, AgentsInv, NEW w \in Works, Admitted(w)
    PROVE  BusyRow(OwnerOf[w]) \/ OwnerOf[w] \in misled
<1> SUFFICES ASSUME OwnerOf[w] \notin misled PROVE BusyRow(OwnerOf[w])
  OBVIOUS
<1>1. row[OwnerOf[w]].busy /\ row[OwnerOf[w]].age < work[w].age + RenewalUnits
  BY DEF AgentsInv, AdmittedIsBusy
<1>2. row[OwnerOf[w]].age \in Nat /\ work[w].age \in 0..WorkUnits
  BY Types, Constants DEF TypeInv, RowType, WorkType
<1>3. row[OwnerOf[w]].age < LeaseUnits
  BY <1>1, <1>2, Constants
<1>4. QED
  BY <1>1, <1>3 DEF BusyRow

WorksHeldBack == WindowOpen => \A w \in Works : Started(w) => OwnerOf[w] \in misled

LEMMA WorksHeldBackStep ==
    ASSUME TypeInv, AgentsInv, WorksHeldBack, [Next]_vars
    PROVE  WorksHeldBack'
<1>1. work \in [Works -> WorkType] /\ window \in WindowType /\ None \notin Works
      /\ \A w \in Works : OwnerOf[w] \in Parties
  BY Types, Constants DEF TypeInv
<1>2. ASSUME WindowOpen' => WindowOpen, \A w \in Works : Started(w)' => Started(w) \/ ~WindowOpen,
             UNCHANGED misled
      PROVE  WorksHeldBack'
  BY <1>2 DEF WorksHeldBack
<1>3. UNCHANGED window => (WindowOpen' => WindowOpen)
  BY DEF WindowOpen
<1>4. UNCHANGED work => \A w \in Works : Started(w)' => Started(w)
  BY DEF Started
<1>5. ASSUME NEW v \in Works, WorkStep(v) PROVE WorksHeldBack'
  <2>1. UNCHANGED <<window, misled>>
    BY <1>5, WorkMoves DEF WorkFrame
  <2>2. \A w \in Works : w # v => work'[w] = work[w]
    BY <1>1, <1>5, WorkMoves DEF Enqueues, Settled, Unanswered
  <2>3. ~WindowOpen \/ ~Started(v)'
    <3>1. \/ work'[v].pc \in {"recording", "none", "held", "unsure"}
          \/ work'[v].pc = "working" /\ (~WindowOpen \/ ~work'[v].sure)
      <4>1. work[v] \in WorkType /\ NoWork.pc = "none" /\ NoWork.sure = FALSE
        BY <1>1 DEF NoWork
      <4>2. ASSUME work' = Unanswered(v)
            PROVE  \/ work'[v].pc = "unsure"
                   \/ (work'[v].pc = "working" /\ ~work'[v].sure)
        <5>1. ([work EXCEPT ![v] = [NoWork EXCEPT !.pc = "working"]])[v]
              = [NoWork EXCEPT !.pc = "working"]
          BY <1>1
        <5>2. ([work EXCEPT ![v].pc = "unsure", ![v].age = 0])[v].pc = "unsure"
          BY <1>1, <4>1 DEF WorkType
        <5>3. CASE work[v].waited >= AdmissionUnits
          BY <4>2, <5>1, <5>3 DEF Unanswered, NoWork
        <5>4. CASE ~(work[v].waited >= AdmissionUnits)
          BY <4>2, <5>2, <5>4 DEF Unanswered
        <5>5. QED
          BY <5>3, <5>4
      <4>3. work' = Settled(v) => work'[v].pc = "none"
        BY <1>1, <4>1 DEF Settled
      <4>4. work' = [work EXCEPT ![v] = [NoWork EXCEPT !.pc = "recording"]]
            => work'[v].pc = "recording"
        BY <1>1 DEF NoWork
      <4>5. work' = [work EXCEPT ![v].pc = "recording"] => work'[v].pc = "recording"
        BY <1>1, <4>1 DEF WorkType
      <4>6. work' = [work EXCEPT ![v].pc = "held", ![v].age = 0] => work'[v].pc = "held"
        BY <1>1, <4>1 DEF WorkType
      <4>7. work' = [work EXCEPT ![v].pc = "working", ![v].sure = TRUE, ![v].waited = 0]
            => work'[v].pc = "working"
        BY <1>1, <4>1 DEF WorkType
      <4>8. QED
        BY <1>5, <4>2, <4>3, <4>4, <4>5, <4>6, <4>7, WorkMoves DEF Enqueues
    <3>2. QED
      BY <3>1 DEF Started
  <2>4. QED
    BY <1>2, <1>3, <2>1, <2>2, <2>3 DEF Started
<1>6. ASSUME NEW a \in Agents, Write(a) PROVE WorksHeldBack'
  <2>1. UNCHANGED window
    BY <1>6 DEF Write
  <2>2. work' = Recorded(Head(queue[a]).work) \/ work' = NotRecorded(Head(queue[a]).work)
    BY <1>6 DEF Write
  <2>3. ASSUME NEW w \in Works, Started(w)' PROVE Started(w)
    BY <1>1, <2>2, <2>3 DEF Recorded, NotRecorded, Unanswered, NoWork, Started, WorkType
  <2>4. ASSUME NEW w \in Works, Started(w)', WindowOpen' PROVE OwnerOf[w] \in misled'
    <3>1. WindowOpen /\ Started(w) /\ OwnerOf[w] \in misled
      BY <1>3, <2>1, <2>3, <2>4 DEF WorksHeldBack
    <3>2. OwnerOf[w] = a => Head(queue[a]).busy
      <4>1. queue[a] \in Seq(EntryType) /\ queue[a] # <<>>
        BY <1>6, Types DEF TypeInv, Write
      <4>2. 1 \in 1..Len(queue[a]) /\ Head(queue[a]) = queue[a][1]
        BY <4>1, HeadTailProperties, LenProperties
      <4>3. QED
        BY <3>1, <4>2 DEF AgentsInv, AdmittedIsBusy, Admitted
    <3>3. QED
      BY <1>6, <3>1, <3>2 DEF Write, Heard
  <2>5. QED
    BY <2>4 DEF WorksHeldBack
<1>7. ASSUME NEW a \in Agents, Observe(a) PROVE WorksHeldBack'
  BY <1>2, <1>3, <1>4, <1>7 DEF Observe
<1>8. ASSUME NEW b \in Builders, BuilderStep(b) PROVE WorksHeldBack'
  BY <1>2, <1>3, <1>4, <1>8, BuilderMoves DEF BuilderFrame
<1>9. ASSUME NEW u \in Upgrades, UpgradeStep(u) PROVE WorksHeldBack'
  <2>1. CASE UpgradeFrame /\ UNCHANGED window
    BY <1>2, <1>3, <1>4, <2>1 DEF UpgradeFrame, agentMemory
  <2>2. CASE UpgradeFrame /\ window' = OpenedFor(u) /\ (OwnWindow(u) \/ (~WindowOpen /\ NoBusyRow))
    <3>1. \A w \in Works : Started(w) => OwnerOf[w] \in misled
      BY <1>1, <2>2, AdmittedRow DEF OwnWindow, WorksHeldBack, NoBusyRow, Admitted
    <3>2. QED
      BY <1>4, <2>2, <3>1 DEF UpgradeFrame, agentMemory, WorksHeldBack
  <2>3. CASE UpgradeFrame /\ window' = ClosedBy(u)
    <3>1. WindowOpen' => WindowOpen
      BY <1>1, <2>3 DEF ClosedBy, NoWindow, WindowOpen
    <3>2. QED
      BY <1>2, <1>4, <2>3, <3>1 DEF UpgradeFrame, agentMemory
  <2>4. CASE Redeploy(u)
    BY <2>4 DEF Redeploy, Resumed, WorksHeldBack, Started, NoWork
  <2>5. QED
    BY <1>9, <2>1, <2>2, <2>3, <2>4, UpgradeMoves
<1>10. CASE Tick
  <2>1. WindowOpen' => WindowOpen
    BY <1>1, <1>10 DEF Tick, WindowOpen, NoWindow, WindowType
  <2>2. \A w \in Works : Started(w)' => Started(w)
    BY <1>1, <1>10 DEF Tick, Started, OlderWork, WorkType
  <2>3. QED
    BY <1>2, <1>10, <2>1, <2>2 DEF Tick
<1>11. CASE UNCHANGED vars
  BY <1>2, <1>3, <1>4, <1>11 DEF vars
<1>12. QED
  BY <1>5, <1>6, <1>7, <1>8, <1>9, <1>10, <1>11 DEF Next

HeldInv == BuildersInv /\ AgentsInv /\ WorksHeldBack

LEMMA HeldInit == Init => HeldInv
<1> SUFFICES ASSUME Init PROVE HeldInv
  OBVIOUS
<1>1. BuildersInv /\ WorksHeldBack
  BY DEF Init, BuildersInv, BuildersAreBusy, BuildersHeldBack, WorksHeldBack, Started, NoWork
<1>2. AgentsInv
  BY DEF Init, AgentsInv, RecordedIsFresh, AdmittedIsBusy, QueueInv, Admitted, Started, NoRecord, NoWork
<1>3. QED
  BY <1>1, <1>2 DEF HeldInv

LEMMA HeldStep == TypeInv /\ HeldInv /\ [Next]_vars => HeldInv'
  BY BuildersStep, AgentsStep, WorksHeldBackStep DEF HeldInv

(* The row of an agent whose work started recorded says busy as long as it    *)
(* runs, however its writes are queued, skipped, renewed or failed, unless an *)
(* idle write that failed was committed all the same and none was heard since.*)
THEOREM StartedIsRecorded == Spec => []StartedWorkIsRecorded
<1>1. TypeInv /\ HeldInv => StartedWorkIsRecorded
  BY AdmittedRow DEF HeldInv, StartedWorkIsRecorded, Admitted
<1>2. QED
  BY <1>1, HeldStep, TypeInit, TypeStep, HeldInit, PTL DEF Spec

(* No admitted work of any other agent, and no builder's step, runs inside an *)
(* open window, whatever lapses, fails, is lost or is redeployed meanwhile.   *)
THEOREM OpenWindowHolds == Spec => []AnOpenWindowHoldsWorkBack
<1>1. HeldInv => AnOpenWindowHoldsWorkBack
  BY DEF HeldInv, AnOpenWindowHoldsWorkBack, WorksHeldBack, BuildersInv, BuildersHeldBack
<1>2. QED
  BY <1>1, HeldStep, TypeInit, TypeStep, HeldInit, PTL DEF Spec

(* A project builder works inside no open window even where the answer of a   *)
(* write is lost: it reads the window only after its own row said busy.       *)
THEOREM BuildersAreHeldBack == Spec => []BuildersHeldBack
<1>1. BuildersInv => BuildersHeldBack
  BY DEF BuildersInv
<1>2. Init => BuildersInv
  BY HeldInit DEF HeldInv
<1>3. QED
  BY <1>1, <1>2, TypeInit, TypeStep, BuildersStep, PTL DEF Spec
=============================================================================
