-------------------------- MODULE CommandSyncProofs --------------------------
(* Proofs about CommandSync for every set of tool calls and every bound: type *)
(* correctness, that a sync that is outstanding is never left without a wake, *)
(* a sweep or a retrier that will look at it, and what holds until the object *)
(* restarts for the first time: what an intent names, what no command starts  *)
(* beside, and what is completed and failed. Over any number of restarts the  *)
(* last two hold for a command that has the workspace to itself.              *)
EXTENDS CommandSync, TLAPS

Runtimes == Containers \cup {None}
Rows == [attempt : 0..MaxAttempts, rt : Runtimes, exhausted : BOOLEAN, due : BOOLEAN]
Pulls == [step : {"off", "check", "pull", "recheck"}, rt : Runtimes]
Jobs == {"off", "retry", "sweep", "recover", "join"}
Works == [job : Jobs, attempt : 0..MaxAttempts, sweeping : BOOLEAN]

\* A command whose stream is open ran in a container; an attempt was stored as
\* one before it was made.
RanIfOpen == \A t \in Tools : phase[t] \in InOperation => ran[t] \in Containers

TypeInv == TypeOK /\ RanIfOpen

LEMMA RecordTypes ==
    /\ NoRetry \in Rows /\ NoPull \in Pulls /\ Idle \in Works
    /\ \A rt \in Runtimes : Intent(rt) \in Rows
<1>1. 0 \in 0..MaxAttempts /\ 1 \in 0..MaxAttempts
  BY SyncConstants
<1>2. NoRetry \in Rows
  BY <1>1 DEF NoRetry, Rows, Runtimes
<1>3. NoPull \in Pulls
  BY DEF NoPull, Pulls, Runtimes
<1>4. Idle \in Works
  BY <1>1 DEF Idle, Works, Jobs
<1>5. ASSUME NEW rt \in Runtimes PROVE Intent(rt) \in Rows
  BY <1>1 DEF Intent, Rows
<1>6. QED
  BY <1>2, <1>3, <1>4, <1>5

LEMMA InitTypes == Init => TypeInv
<1> SUFFICES ASSUME Init PROVE TypeInv
  OBVIOUS
<1> USE DEF Init
<1>1. /\ container \in Containers /\ restarts \in 0..MaxRestarts
      /\ ran \in [Tools -> 0..MaxContainers]
  BY SyncConstants DEF Containers
<1>2. NoRetry \in Rows /\ NoPull \in Pulls /\ Idle \in Works
  BY RecordTypes
<1>3. retry \in Rows /\ work \in [Workers -> Works] /\ pull \in [Tools \cup Workers -> Pulls]
  BY <1>2
<1>4. /\ status \in [Tools -> {"absent", "running", "completed", "failed"}]
      /\ phase \in [Tools -> {"idle", "interrupted", "succeeded", "errored"} \cup Streaming]
      /\ command \in [Tools -> {"none", "running", "finished"}]
  OBVIOUS
<1>5. RanIfOpen
  BY DEF RanIfOpen, InOperation
<1>6. TypeOK
  <2>1. /\ marked \subseteq Tools /\ pending \subseteq Tools /\ saved \subseteq Tools
        /\ owned \subseteq Tools /\ confirmed \subseteq Tools
        /\ wakes \subseteq {"retry", "reconcile"}
    OBVIOUS
  <2>2. sweep \in BOOLEAN
    OBVIOUS
  <2>3. failures \in 0..1
    OBVIOUS
  <2>4. QED
    BY <1>1, <1>3, <1>4, <2>1, <2>2, <2>3 DEF TypeOK, Rows, Pulls, Works, Runtimes, Jobs
<1>7. QED
  BY <1>5, <1>6 DEF TypeInv

\* The two writes of the retry row that a command can cause.
LEMMA ScheduledTypes ==
    ASSUME TypeOK, NEW rt \in Containers, SchedulePending(rt)
    PROVE  retry' \in Rows /\ wakes' \subseteq {"retry", "reconcile"}
<1>1. Intent(rt) \in Rows
  BY RecordTypes DEF Runtimes
<1>2. retry \in Rows
  BY DEF TypeOK, Rows, Runtimes
<1>3. QED
  BY <1>1, <1>2 DEF SchedulePending, TypeOK

LEMMA RegisteredTypes ==
    ASSUME TypeOK, NEW t \in Tools, NEW rt \in Containers, RegisterPending(t, rt)
    PROVE  /\ pending' \subseteq Tools /\ sweep' \in BOOLEAN
           /\ retry' \in Rows /\ wakes' \subseteq {"retry", "reconcile"}
BY ScheduledTypes DEF RegisterPending, TypeOK

\* The journal's rows that fail or complete.
LEMMA JournalTypes ==
    ASSUME TypeOK, NEW t \in Tools, FailRow(t) \/ FailUnmarked(t) \/ CompletePending \/ FailPending
    PROVE  /\ status' \in [Tools -> {"absent", "running", "completed", "failed"}]
           /\ marked' \subseteq Tools /\ pending' \subseteq Tools
BY DEF FailRow, FailUnmarked, CompletePending, FailPending, TypeOK, journal

\* The steps of a command.
LEMMA CommandTypes ==
    ASSUME TypeInv, NEW t \in Tools, Command(t)
    PROVE  TypeInv'
<1> USE SyncConstants DEF TypeInv, TypeOK, RanIfOpen, Streaming, InOperation, durable, world,
        memory, retriers, journal
<1>1. CASE Begin(t)
  BY <1>1 DEF Begin
<1>2. CASE EnterExec(t)
  BY <1>2 DEF EnterExec
<1>3. CASE Exec(t)
  <2>1. ran' \in [Tools -> 0..MaxContainers] /\ ran'[t] \in Containers
    BY <1>3 DEF Exec, Openable, Containers
  <2>2. command' \in [Tools -> {"none", "running", "finished"}]
    BY <1>3 DEF Exec
  <2>3. \A u \in Tools \ {t} : ran'[u] = ran[u]
    BY <1>3 DEF Exec
  <2>4. /\ phase' = [phase EXCEPT ![t] = "executing"]
        /\ UNCHANGED <<durable, container, saved, owned, confirmed, killing, retriers, pull, restarts>>
    BY <1>3 DEF Exec
  <2>5. \A u \in Tools : phase'[u] \in InOperation => ran'[u] \in Containers
    BY <2>1, <2>3, <2>4
  <2>6. QED
    BY <2>1, <2>2, <2>4, <2>5
<1>4. CASE ExecRefused(t)
  BY <1>4 DEF ExecRefused
<1>5. CASE CommandEnds(t)
  BY <1>5 DEF CommandEnds
<1>6. CASE Exited(t)
  <2>1. ran[t] \in Containers
    BY <1>6 DEF Exited
  <2>2. [step |-> "check", rt |-> ran[t]] \in Pulls
    BY <2>1 DEF Pulls, Runtimes
  <2>3. pull' \in [Tools \cup Workers -> Pulls]
    BY <1>6, <2>2 DEF Exited, StartPull, Pulls, Runtimes
  <2>4. QED
    BY <1>6, <2>3 DEF Exited, Pulls, Runtimes
<1>7. ASSUME NEW outcome \in {"succeeded", "errored"}, ConfirmEnds(t, outcome)
      PROVE  /\ pull' \in [Tools \cup Workers -> Pulls]
             /\ phase' \in [Tools -> {"idle", "interrupted", "succeeded", "errored"} \cup Streaming]
             /\ \A u \in Tools : phase'[u] \in InOperation => phase[u] \in InOperation
  BY <1>7, RecordTypes DEF ConfirmEnds, Pulls, Runtimes
<1>8. CASE ConfirmOk(t)
  <2>1. ConfirmEnds(t, "succeeded")
    BY <1>8 DEF ConfirmOk
  <2>2. QED
    BY <1>7, <1>8, <2>1 DEF ConfirmOk, ConfirmEnds, Pulls, Runtimes
<1>9. CASE ConfirmLost(t)
  <2>1. ConfirmEnds(t, "errored")
    BY <1>9 DEF ConfirmLost
  <2>2. QED
    BY <1>7, <1>9, <2>1 DEF ConfirmLost, ConfirmEnds, Pulls, Runtimes
<1>10. CASE ConfirmPending(t)
  <2>1. ConfirmEnds(t, "errored") /\ ran[t] \in Containers
    BY <1>10 DEF ConfirmPending
  <2>2. /\ pending' \subseteq Tools /\ sweep' \in BOOLEAN
        /\ retry' \in Rows /\ wakes' \subseteq {"retry", "reconcile"}
    BY <1>10, <2>1, ScheduledTypes, RegisteredTypes DEF ConfirmPending
  <2>3. QED
    BY <1>7, <1>10, <2>1, <2>2 DEF ConfirmPending, ConfirmEnds, Pulls, Rows, Runtimes
<1>11. CASE StreamBroken(t)
  <2>1. ran[t] \in Containers
    BY <1>11 DEF StreamBroken
  <2>2. /\ pending' \subseteq Tools /\ sweep' \in BOOLEAN
        /\ retry' \in Rows /\ wakes' \subseteq {"retry", "reconcile"}
    BY <1>11, <2>1, RegisteredTypes DEF StreamBroken, Rows, Runtimes
  <2>3. command' \in [Tools -> {"none", "running", "finished"}]
    BY <1>11 DEF StreamBroken
  <2>4. QED
    BY <1>11, <2>2, <2>3 DEF StreamBroken, Rows, Runtimes
<1>12. CASE CompleteTool(t)
  BY <1>12 DEF CompleteTool
<1>13. CASE FailTool(t)
  BY <1>13, JournalTypes DEF FailTool
<1>14. CASE CancelTool(t)
  <2>1. CASE CancelIsActive(t)
    BY <1>14, <2>1 DEF CancelTool
  <2>2. CASE ~CancelIsActive(t)
    <3>1. FailRow(t)
      BY <1>14, <2>2 DEF CancelTool
    <3>2. QED
      BY <1>14, <2>2, <3>1, JournalTypes DEF CancelTool
  <2>3. QED
    BY <2>1, <2>2
<1>15. CASE KillRecovered(t) \/ RecoveredUnsettled(t)
  BY <1>15 DEF KillRecovered, RecoveredUnsettled
<1>16. CASE RecoveredEnds(t)
  <2>1. container \in Containers
    OBVIOUS
  <2>2. CASE RegisterPending(t, container) /\ UNCHANGED <<status, marked, saved>>
    BY <1>16, <2>1, <2>2, RegisteredTypes DEF RecoveredEnds, Rows, Runtimes
  <2>3. CASE saved' = saved \cup {t} /\ FailCancelled(t) /\ UNCHANGED <<retry, wakes, sweep>>
    BY <1>16, <2>3, JournalTypes DEF RecoveredEnds, FailCancelled
  <2>4. QED
    BY <1>16, <2>2, <2>3 DEF RecoveredEnds
<1>17. QED
  BY <1>1, <1>2, <1>3, <1>4, <1>5, <1>6, <1>8, <1>9, <1>10, <1>11, <1>12, <1>13, <1>14, <1>15, <1>16
  DEF Command

\* What a retrier writes into its own state, its pull and the wakes.
LEMMA WorkTypes ==
    ASSUME TypeOK, NEW w \in Workers
    PROVE  /\ \A job \in Jobs, attempt \in 0..MaxAttempts, sweeping \in BOOLEAN :
                SetWork(w, job, attempt, sweeping) => work' \in [Workers -> Works]
           /\ \A attempt \in 0..MaxAttempts, sweeping \in BOOLEAN :
                StartRecovery(w, attempt, sweeping) => work' \in [Workers -> Works]
           /\ \A recovered, moreWakes :
                EndWork(w, recovered, moreWakes) /\ moreWakes \subseteq {"retry"}
                    => work' \in [Workers -> Works] /\ wakes' \subseteq {"retry", "reconcile"}
           /\ StopPull(w) => pull' \in [Tools \cup Workers -> Pulls]
           /\ \A rt \in Runtimes : StartPull(w, rt) => pull' \in [Tools \cup Workers -> Pulls]
<1>1. /\ work \in [Workers -> Works] /\ pull \in [Tools \cup Workers -> Pulls]
      /\ wakes \subseteq {"retry", "reconcile"}
  BY DEF TypeOK, Works, Jobs, Pulls, Runtimes
<1>2. ASSUME NEW job \in Jobs, NEW attempt \in 0..MaxAttempts, NEW sweeping \in BOOLEAN,
             SetWork(w, job, attempt, sweeping)
      PROVE  work' \in [Workers -> Works]
  <2>1. [job |-> job, attempt |-> attempt, sweeping |-> sweeping] \in Works
    BY DEF Works
  <2>2. QED
    BY <1>1, <1>2, <2>1 DEF SetWork
<1>3. ASSUME NEW attempt \in 0..MaxAttempts, NEW sweeping \in BOOLEAN,
             StartRecovery(w, attempt, sweeping)
      PROVE  work' \in [Workers -> Works]
  <2>1. "join" \in Jobs /\ "recover" \in Jobs
    BY DEF Jobs
  <2>2. CASE Recovering
    BY <1>2, <1>3, <2>1, <2>2 DEF StartRecovery
  <2>3. CASE ~Recovering
    BY <1>2, <1>3, <2>1, <2>3 DEF StartRecovery
  <2>4. QED
    BY <2>2, <2>3
<1>4. ASSUME NEW recovered, NEW moreWakes, EndWork(w, recovered, moreWakes),
             moreWakes \subseteq {"retry"}
      PROVE  work' \in [Workers -> Works] /\ wakes' \subseteq {"retry", "reconcile"}
  BY <1>1, <1>4, RecordTypes DEF EndWork
<1>5. ASSUME StopPull(w) PROVE pull' \in [Tools \cup Workers -> Pulls]
  BY <1>1, <1>5, RecordTypes DEF StopPull
<1>6. ASSUME NEW rt \in Runtimes, StartPull(w, rt) PROVE pull' \in [Tools \cup Workers -> Pulls]
  <2>1. [step |-> "check", rt |-> rt] \in Pulls
    BY DEF Pulls
  <2>2. QED
    BY <1>1, <1>6, <2>1 DEF StartPull
<1>7. QED
  BY <1>2, <1>3, <1>4, <1>5, <1>6

\* A retrier or a sweep that takes up the row.
LEMMA TakenUpTypes ==
    ASSUME TypeOK, NEW w \in Workers
    PROVE  /\ \A sweeping \in BOOLEAN : RunRetry(w, sweeping) =>
                work' \in [Workers -> Works] /\ pull' \in [Tools \cup Workers -> Pulls]
           /\ RunSweep(w) =>
                work' \in [Workers -> Works] /\ pull' \in [Tools \cup Workers -> Pulls]
           /\ SweptTooEarly \subseteq {"reconcile"}
<1>1. /\ work \in [Workers -> Works] /\ pull \in [Tools \cup Workers -> Pulls]
      /\ retry \in Rows /\ retry.attempt \in 0..MaxAttempts /\ retry.rt \in Runtimes
      /\ 0 \in 0..MaxAttempts
  BY SyncConstants DEF TypeOK, Works, Jobs, Pulls, Runtimes, Rows
<1>2. ASSUME NEW sweeping \in BOOLEAN, RunRetry(w, sweeping)
      PROVE  work' \in [Workers -> Works] /\ pull' \in [Tools \cup Workers -> Pulls]
  <2>1. CASE retry.exhausted
    BY <1>1, <1>2, <2>1, WorkTypes DEF RunRetry
  <2>2. CASE ~retry.exhausted
    <3>1. "retry" \in Jobs
      BY DEF Jobs
    <3>2. QED
      BY <1>1, <1>2, <2>2, <3>1, WorkTypes DEF RunRetry
  <2>3. QED
    BY <2>1, <2>2
<1>3. ASSUME RunSweep(w)
      PROVE  work' \in [Workers -> Works] /\ pull' \in [Tools \cup Workers -> Pulls]
  <2>1. CASE Retryable
    BY <1>2, <1>3, <2>1 DEF RunSweep
  <2>2. CASE ~Retryable /\ pending # {} /\ ~HasRetry
    <3>1. "sweep" \in Jobs /\ [step |-> "pull", rt |-> None] \in Pulls
      BY DEF Jobs, Pulls, Runtimes
    <3>2. /\ SetWork(w, "sweep", 0, TRUE)
          /\ pull' = [pull EXCEPT ![w] = [step |-> "pull", rt |-> None]]
      BY <1>3, <2>2 DEF RunSweep
    <3>3. QED
      BY <1>1, <3>1, <3>2, WorkTypes
  <2>3. CASE ~Retryable /\ ~(pending # {} /\ ~HasRetry)
    BY <1>1, <1>3, <2>3 DEF RunSweep
  <2>4. QED
    BY <2>1, <2>2, <2>3
<1>4. QED
  BY <1>2, <1>3 DEF SweptTooEarly

\* The steps of a retrier at work.
LEMMA RetryTypes ==
    ASSUME TypeInv, NEW w \in Workers, Retry(w)
    PROVE  TypeInv'
<1> USE SyncConstants DEF TypeInv, RanIfOpen, world, memory, durable, journal, retriers
<1>1. /\ work \in [Workers -> Works] /\ pull \in [Tools \cup Workers -> Pulls]
      /\ retry \in Rows /\ NoRetry \in Rows
      /\ work[w].attempt \in 0..MaxAttempts /\ work[w].sweeping \in BOOLEAN
      /\ retry.rt \in Runtimes /\ pull[w].rt \in Runtimes
      /\ {} \subseteq {"retry"}
  BY RecordTypes DEF TypeOK, Works, Jobs, Pulls, Runtimes, Rows
\* What is left of a step that ends with the journal's rows completed, failed or untouched.
<1>2. ASSUME UNCHANGED <<world, memory, restarts>>,
             status' \in [Tools -> {"absent", "running", "completed", "failed"}],
             marked' \subseteq Tools, pending' \subseteq Tools,
             retry' \in Rows, wakes' \subseteq {"retry", "reconcile"},
             sweep' = sweep, failures' \in 0..1,
             work' \in [Workers -> Works], pull' \in [Tools \cup Workers -> Pulls]
      PROVE  TypeInv'
  BY <1>2 DEF TypeOK, Works, Jobs, Pulls, Runtimes, Rows
<1>3. /\ status \in [Tools -> {"absent", "running", "completed", "failed"}]
      /\ marked \subseteq Tools /\ pending \subseteq Tools
      /\ wakes \subseteq {"retry", "reconcile"} /\ failures \in 0..1
  BY DEF TypeOK
<1>4. ASSUME CompletePending \/ FailPending
      PROVE  /\ status' \in [Tools -> {"absent", "running", "completed", "failed"}]
             /\ marked' \subseteq Tools /\ pending' \subseteq Tools
  BY <1>4 DEF TypeOK, CompletePending, FailPending
<1>5. ASSUME Completes(w) \/ Loses(w), failures' \in 0..1 PROVE TypeInv'
  <2>1. /\ EndWork(w, TRUE, {}) /\ StopPull(w) /\ retry' = NoRetry
        /\ CompletePending \/ FailPending
        /\ UNCHANGED <<world, memory, sweep, restarts>>
    BY <1>5 DEF Completes, Loses
  <2>2. /\ work' \in [Workers -> Works] /\ wakes' \subseteq {"retry", "reconcile"}
        /\ pull' \in [Tools \cup Workers -> Pulls]
    BY <1>1, <2>1, WorkTypes
  <2>3. QED
    BY <1>1, <1>2, <1>4, <1>5, <2>1, <2>2
<1>6. CASE RetryCompletes(w) \/ RetryLoses(w) \/ RecoveryCompletes(w) \/ RecoveryLoses(w)
  BY <1>3, <1>5, <1>6 DEF RetryCompletes, RetryLoses, RecoveryCompletes, RecoveryLoses
<1>7. CASE RetryFails(w)
  <2>1. pull' \in [Tools \cup Workers -> Pulls]
    BY <1>7, WorkTypes DEF RetryFails
  <2>2. CASE work[w].attempt < MaxAttempts
    <3>1. /\ retry' = [attempt |-> work[w].attempt + 1, rt |-> pull[w].rt,
                        exhausted |-> FALSE, due |-> FALSE]
          /\ EndWork(w, TRUE, {"retry"})
      BY <1>7, <2>2 DEF RetryFails
    <3>2. work[w].attempt + 1 \in 0..MaxAttempts
      BY <1>1, <2>2
    <3>3. retry' \in Rows
      BY <1>1, <3>1, <3>2 DEF Rows
    <3>4. work' \in [Workers -> Works] /\ wakes' \subseteq {"retry", "reconcile"}
      BY <3>1, WorkTypes
    <3>5. QED
      BY <1>2, <1>3, <1>7, <2>1, <3>3, <3>4 DEF RetryFails
  <2>3. CASE ~(work[w].attempt < MaxAttempts)
    <3>1. /\ retry' = IF HasRetry THEN [retry EXCEPT !.exhausted = TRUE] ELSE retry
          /\ StartRecovery(w, work[w].attempt, work[w].sweeping)
          /\ UNCHANGED wakes
      BY <1>7, <2>3 DEF RetryFails
    <3>2. retry' \in Rows
      BY <1>1, <3>1 DEF Rows
    <3>3. work' \in [Workers -> Works]
      BY <1>1, <3>1, WorkTypes
    <3>4. QED
      BY <1>2, <1>3, <1>7, <2>1, <3>1, <3>2, <3>3 DEF RetryFails
  <2>4. QED
    BY <2>2, <2>3
<1>8. CASE SweepCompletes(w) \/ SweepFails(w)
  <2>1. /\ EndWork(w, TRUE, {}) /\ StopPull(w) /\ UNCHANGED retry
        /\ CompletePending \/ UNCHANGED journal
        /\ UNCHANGED <<world, memory, sweep, failures, restarts>>
    BY <1>8 DEF SweepCompletes, SweepFails
  <2>2. /\ work' \in [Workers -> Works] /\ wakes' \subseteq {"retry", "reconcile"}
        /\ pull' \in [Tools \cup Workers -> Pulls]
    BY <1>1, <2>1, WorkTypes
  <2>3. QED
    BY <1>1, <1>2, <1>3, <1>4, <2>1, <2>2
<1>9. CASE RecoveryPulls(w)
  <2>1. pull' \in [Tools \cup Workers -> Pulls]
    BY <1>1, <1>9, WorkTypes DEF RecoveryPulls
  <2>2. QED
    BY <1>1, <1>2, <1>3, <1>9, <2>1 DEF RecoveryPulls
<1>10. CASE RecoveryFails(w)
  <2>1. /\ EndWork(w, FALSE, {}) /\ StopPull(w)
        /\ UNCHANGED <<journal, retry, ran, command, saved, memory, sweep, restarts>>
    BY <1>10 DEF RecoveryFails
  <2>2. /\ work' \in [Workers -> Works] /\ wakes' \subseteq {"retry", "reconcile"}
        /\ pull' \in [Tools \cup Workers -> Pulls]
    BY <1>1, <2>1, WorkTypes
  <2>3. container' \in Containers /\ failures' \in 0..1
    BY <1>3, <1>10 DEF RecoveryFails, TypeOK, Containers
  <2>4. QED
    BY <2>1, <2>2, <2>3 DEF TypeOK, Works, Jobs, Pulls, Runtimes, Rows
<1>11. CASE Joined(w)
  <2>1. /\ EndWork(w, ~retry.exhausted, {})
        /\ UNCHANGED <<journal, retry, world, memory, sweep, failures, pull, restarts>>
    BY <1>11 DEF Joined
  <2>2. work' \in [Workers -> Works] /\ wakes' \subseteq {"retry", "reconcile"}
    BY <1>1, <2>1, WorkTypes
  <2>3. QED
    BY <1>1, <1>2, <1>3, <2>1, <2>2
<1>12. QED
  BY <1>6, <1>7, <1>8, <1>9, <1>10, <1>11 DEF Retry

LEMMA TypeStep == TypeInv /\ [Next]_vars => TypeInv'
<1> SUFFICES ASSUME TypeInv, [Next]_vars PROVE TypeInv'
  OBVIOUS
<1> USE SyncConstants DEF TypeInv, RanIfOpen, world, memory, durable, journal, retriers
<1>1. /\ work \in [Workers -> Works] /\ pull \in [Tools \cup Workers -> Pulls]
      /\ retry \in Rows /\ wakes \subseteq {"retry", "reconcile"}
  BY DEF TypeOK, Works, Jobs, Pulls, Runtimes, Rows
<1>2. ASSUME NEW t \in Tools, Command(t) PROVE TypeInv'
  BY <1>2, CommandTypes
<1>3. ASSUME NEW w \in Workers, Retry(w) PROVE TypeInv'
  BY <1>3, RetryTypes
<1>4. ASSUME NEW p \in Tools \cup Workers, PullChecked(p) \/ Pulled(p) PROVE TypeInv'
  <2>1. PICK step \in {"pull", "recheck"} : pull' = [pull EXCEPT ![p].step = step]
    BY <1>4 DEF PullChecked, Pulled
  <2>2. pull' \in [Tools \cup Workers -> Pulls]
    BY <1>1, <2>1 DEF Pulls
  <2>3. saved' \subseteq Tools
    BY <1>4 DEF PullChecked, Pulled, Arrived, TypeOK
  <2>4. QED
    BY <1>4, <2>2, <2>3 DEF PullChecked, Pulled, TypeOK, Works, Jobs, Pulls, Runtimes, Rows
\* The sweeps and the alarm touch the retriers, their pulls and the wakes.
<1>5. ASSUME Untouched' = Untouched, sweep' \in BOOLEAN, wakes' \subseteq {"retry", "reconcile"},
             work' \in [Workers -> Works], pull' \in [Tools \cup Workers -> Pulls]
      PROVE  TypeInv'
  BY <1>5 DEF Untouched, TypeOK, Works, Jobs, Pulls, Runtimes, Rows
<1>6. "alarm" \in Workers /\ "boot" \in Workers /\ FALSE \in BOOLEAN /\ sweep \in BOOLEAN
  BY DEF Workers, TypeOK
<1>7. CASE AlarmRetries
  <2>1. work' \in [Workers -> Works] /\ pull' \in [Tools \cup Workers -> Pulls]
    BY <1>1, <1>6, <1>7, TakenUpTypes DEF AlarmRetries
  <2>2. wakes' \subseteq {"retry", "reconcile"} /\ Untouched' = Untouched /\ sweep' = sweep
    BY <1>1, <1>7 DEF AlarmRetries
  <2>3. QED
    BY <1>5, <1>6, <2>1, <2>2
<1>8. CASE AlarmSweeps
  <2>1. work' \in [Workers -> Works] /\ pull' \in [Tools \cup Workers -> Pulls]
    BY <1>6, <1>8, TakenUpTypes DEF AlarmSweeps
  <2>2. wakes' \subseteq {"retry", "reconcile"} /\ Untouched' = Untouched /\ sweep' = sweep
    BY <1>1, <1>6, <1>8, TakenUpTypes DEF AlarmSweeps
  <2>3. QED
    BY <1>5, <1>6, <2>1, <2>2
<1>9. CASE BootSweeps
  <2>1. work' \in [Workers -> Works] /\ pull' \in [Tools \cup Workers -> Pulls]
    BY <1>1, <1>6, <1>9, TakenUpTypes DEF BootSweeps
  <2>2. wakes' \subseteq {"retry", "reconcile"} /\ Untouched' = Untouched /\ sweep' = FALSE
    BY <1>1, <1>6, <1>9, TakenUpTypes DEF BootSweeps
  <2>3. QED
    BY <1>5, <1>6, <2>1, <2>2
<1>10. CASE BackoffElapses
  <2>1. retry' \in Rows
    BY <1>1, <1>10 DEF BackoffElapses, Rows
  <2>2. QED
    BY <1>10, <2>1 DEF BackoffElapses, TypeOK, Works, Jobs, Pulls, Runtimes, Rows
<1>11. CASE ContainerReplaced
  BY <1>11 DEF ContainerReplaced, TypeOK, Containers
<1>12. CASE Restart
  <2>1. /\ work' \in [Workers -> Works] /\ pull' \in [Tools \cup Workers -> Pulls]
    BY <1>12, RecordTypes DEF Restart
  <2>2. /\ phase' \in [Tools -> {"idle", "interrupted", "succeeded", "errored"} \cup Streaming]
        /\ \A t \in Tools : phase'[t] \notin InOperation
    BY <1>12 DEF Restart, TypeOK, Streaming, InOperation
  <2>3. /\ owned' \subseteq Tools /\ confirmed' \subseteq Tools /\ killing' \subseteq Cancellable
        /\ wakes' \subseteq {"retry", "reconcile"}
    BY <1>1, <1>12 DEF Restart
  <2>4. sweep' \in BOOLEAN
    BY <1>1, <1>12 DEF Restart, Rows
  <2>5. restarts' \in 0..MaxRestarts /\ failures' \in 0..1
    BY <1>12 DEF Restart, TypeOK
  <2>6. UNCHANGED <<journal, retry, world>>
    BY <1>12 DEF Restart
  <2>7. QED
    BY <2>1, <2>2, <2>3, <2>4, <2>5, <2>6 DEF TypeOK, Works, Jobs, Pulls, Runtimes, Rows
<1>13. CASE UNCHANGED vars
  BY <1>13 DEF vars, TypeOK
<1>14. QED
  BY <1>2, <1>3, <1>4, <1>7, <1>8, <1>9, <1>10, <1>11, <1>12, <1>13 DEF Next

\* The rows, the wakes, the callers and the retriers keep their shapes through
\* every interleaving and restart; no attempt beyond the last one is stored.
THEOREM TypeCorrect == Spec => []TypeOK
<1>1. TypeInv => TypeOK
  BY DEF TypeInv
<1>2. QED
  BY InitTypes, TypeStep, <1>1, PTL DEF Spec

-----------------------------------------------------------------------------
(* Nothing outstanding is left without something that will look at it. By     *)
(* itself NeverStranded is not inductive: a wake may be the retry of a row    *)
(* that is gone, a retrier at work may be one that leaves another row alone.  *)
(* Each kind of outstanding work has a kind of evidence of its own.           *)

\* A retrier that sweeps is at work, and what is handed to waitUntil sweeps.
SweepersWork ==
    /\ \A w \in Workers : work[w].sweeping => work[w].job # "off"
    /\ work["boot"].job # "off" => work["boot"].sweeping

RowIsWoken ==
    HasRetry /\ ~retry.exhausted =>
        "retry" \in wakes \/ \E w \in Workers : work[w].job = "retry"

Swept == "reconcile" \in wakes \/ sweep \/ \E w \in Workers : work[w].sweeping

ExhaustedIsRecovered ==
    retry.exhausted => Swept \/ \E w \in Workers : work[w].job \in {"recover", "join"}

PendingIsSwept == pending # {} => Swept

ExhaustedIsRow == retry.exhausted => HasRetry

WakeInv ==
    /\ SweepersWork /\ ExhaustedIsRow
    /\ RowIsWoken /\ ExhaustedIsRecovered /\ PendingIsSwept

LEMMA WakeInvSuffices == TypeOK /\ WakeInv => NeverStranded
BY DEF WakeInv, SweepersWork, RowIsWoken, Swept, ExhaustedIsRecovered, PendingIsSwept,
       NeverStranded, TypeOK

LEMMA InitWake == Init => WakeInv
BY DEF Init, WakeInv, SweepersWork, RowIsWoken, Swept, ExhaustedIsRecovered, PendingIsSwept,
       ExhaustedIsRow, HasRetry, NoRetry, Idle, Workers

\* A step that ends no retrier's work, keeps the wakes and either leaves the rows
\* alone or hands a sweep over keeps the invariant.
LEMMA RowsAlone ==
    ASSUME WakeInv, UNCHANGED work, wakes \subseteq wakes', sweep => sweep',
           UNCHANGED retry \/ (retry'.attempt = 1 /\ ~retry'.exhausted /\ "retry" \in wakes'),
           pending' \subseteq pending \/ sweep'
    PROVE  WakeInv'
BY DEF WakeInv, SweepersWork, RowIsWoken, Swept, ExhaustedIsRecovered, PendingIsSwept,
       ExhaustedIsRow, HasRetry

LEMMA CommandWake ==
    ASSUME WakeInv, NEW t \in Tools, Command(t)
    PROVE  WakeInv'
<1> USE DEF durable, world, memory, retriers, journal
<1>1. ASSUME NEW rt, SchedulePending(rt)
      PROVE  /\ wakes \subseteq wakes'
             /\ UNCHANGED retry \/ (retry'.attempt = 1 /\ ~retry'.exhausted /\ "retry" \in wakes')
  BY <1>1 DEF SchedulePending, Intent
<1>2. UNCHANGED work /\ wakes \subseteq wakes'
  BY <1>1 DEF Command, Begin, EnterExec, Exec, ExecRefused, CommandEnds, Exited, ConfirmOk,
     ConfirmLost, ConfirmPending, StreamBroken, CompleteTool, FailTool, CancelTool,
     KillRecovered, RecoveredEnds, RecoveredUnsettled, ConfirmEnds, RegisterPending
<1>3. UNCHANGED retry \/ (retry'.attempt = 1 /\ ~retry'.exhausted /\ "retry" \in wakes')
  BY <1>1 DEF Command, Begin, EnterExec, Exec, ExecRefused, CommandEnds, Exited, ConfirmOk,
     ConfirmLost, ConfirmPending, StreamBroken, CompleteTool, FailTool, CancelTool,
     KillRecovered, RecoveredEnds, RecoveredUnsettled, ConfirmEnds, RegisterPending
<1>4. (sweep => sweep') /\ (pending' \subseteq pending \/ sweep')
  BY DEF Command, Begin, EnterExec, Exec, ExecRefused, CommandEnds, Exited, ConfirmOk,
     ConfirmLost, ConfirmPending, StreamBroken, CompleteTool, FailTool, CancelTool,
     KillRecovered, RecoveredEnds, RecoveredUnsettled, ConfirmEnds, RegisterPending,
     FailCancelled, FailRow, FailUnmarked
<1>5. QED
  BY <1>2, <1>3, <1>4, RowsAlone

\* A retrier that goes on with a recovery is busy with it, as a sweep or not.
LEMMA RecoveryStarted ==
    ASSUME TypeOK, NEW w \in Workers, NEW attempt, NEW sweeping, StartRecovery(w, attempt, sweeping)
    PROVE  /\ work'[w].job \in {"recover", "join"} /\ work'[w].sweeping = sweeping
           /\ \A v \in Workers \ {w} : work'[v] = work[v]
BY DEF StartRecovery, SetWork, TypeOK

\* A retrier that ends leaves a wake for what it did not settle.
LEMMA WorkEnded ==
    ASSUME TypeOK, NEW w \in Workers, NEW recovered, NEW moreWakes, EndWork(w, recovered, moreWakes)
    PROVE  /\ work'[w] = Idle /\ \A v \in Workers \ {w} : work'[v] = work[v]
           /\ wakes \cup moreWakes \subseteq wakes'
           /\ work[w].sweeping /\ (pending' # {} \/ retry'.exhausted) => "reconcile" \in wakes'
           /\ ~recovered /\ ~work[w].sweeping => "reconcile" \in wakes'
BY DEF EndWork, TypeOK

\* A retrier that ends keeps the invariant if what it leaves outstanding has
\* evidence without it.
LEMMA EndKeepsWake ==
    ASSUME WakeInv, NEW w \in Workers,
           work'[w] = Idle, \A v \in Workers \ {w} : work'[v] = work[v],
           wakes \subseteq wakes', sweep' = sweep, pending' \subseteq pending,
           work[w].sweeping /\ (pending' # {} \/ retry'.exhausted) => "reconcile" \in wakes',
           retry'.attempt > 0 /\ ~retry'.exhausted =>
               "retry" \in wakes' \/ (retry' = retry /\ work[w].job # "retry"),
           retry'.exhausted =>
               retry' = retry /\ (work[w].job \in {"recover", "join"} => "reconcile" \in wakes')
    PROVE  WakeInv'
<1>1. work'[w].job = "off" /\ ~work'[w].sweeping
  BY DEF Idle
<1>2. SweepersWork' /\ ExhaustedIsRow'
  <2>1. \A v \in Workers : work'[v].sweeping => work'[v].job # "off"
    BY <1>1 DEF WakeInv, SweepersWork
  <2>2. "boot" \in Workers
    BY DEF Workers
  <2>3. work'["boot"].job # "off" => work'["boot"].sweeping
    BY <1>1, <2>2 DEF WakeInv, SweepersWork
  <2>4. ExhaustedIsRow'
    BY DEF WakeInv, ExhaustedIsRow, HasRetry
  <2>5. QED
    BY <2>1, <2>3, <2>4 DEF SweepersWork
<1>3. RowIsWoken'
  BY <1>1 DEF WakeInv, RowIsWoken, HasRetry
<1>4. Swept /\ (pending' # {} \/ retry'.exhausted) => Swept'
  BY <1>1 DEF Swept
<1>5. PendingIsSwept'
  BY <1>4 DEF WakeInv, PendingIsSwept
<1>6. ExhaustedIsRecovered'
  <2>1. SUFFICES ASSUME retry'.exhausted, ~Swept'
                 PROVE  \E v \in Workers : work'[v].job \in {"recover", "join"}
    BY DEF ExhaustedIsRecovered
  <2>2. PICK v \in Workers : work[v].job \in {"recover", "join"}
    BY <1>4, <2>1 DEF WakeInv, ExhaustedIsRecovered
  <2>3. "reconcile" \notin wakes'
    BY <2>1 DEF Swept
  <2>4. v # w
    BY <2>1, <2>2, <2>3
  <2>5. QED
    BY <2>2, <2>4
<1>7. QED
  BY <1>2, <1>3, <1>5, <1>6 DEF WakeInv

LEMMA RetryWake ==
    ASSUME TypeOK, WakeInv, NEW w \in Workers, Retry(w)
    PROVE  WakeInv'
<1>1. ASSUME Completes(w) \/ Loses(w) PROVE WakeInv'
  <2>1. /\ EndWork(w, TRUE, {}) /\ retry' = NoRetry /\ sweep' = sweep
        /\ pending' \subseteq pending
    BY <1>1 DEF Completes, Loses, CompletePending, FailPending
  <2>2. ~retry'.exhausted /\ ~(retry'.attempt > 0)
    BY <2>1 DEF NoRetry
  <2>3. /\ work'[w] = Idle /\ \A v \in Workers \ {w} : work'[v] = work[v]
        /\ wakes \subseteq wakes'
        /\ work[w].sweeping /\ (pending' # {} \/ retry'.exhausted) => "reconcile" \in wakes'
    BY <2>1, WorkEnded
  <2>4. QED
    BY <2>1, <2>2, <2>3, EndKeepsWake
<1>2. CASE RetryCompletes(w) \/ RetryLoses(w) \/ RecoveryCompletes(w) \/ RecoveryLoses(w)
  BY <1>1, <1>2 DEF RetryCompletes, RetryLoses, RecoveryCompletes, RecoveryLoses
<1>3. CASE RetryFails(w)
  <2>1. /\ work[w].job = "retry" /\ pending' = pending /\ sweep' = sweep
    BY <1>3 DEF RetryFails, journal
  <2>2. CASE work[w].attempt < MaxAttempts
    <3>1. /\ EndWork(w, TRUE, {"retry"})
          /\ retry' = [attempt |-> work[w].attempt + 1, rt |-> pull[w].rt,
                       exhausted |-> FALSE, due |-> FALSE]
      BY <1>3, <2>2 DEF RetryFails
    <3>0. ~retry'.exhausted
      BY <3>1
    <3>2. /\ work'[w] = Idle /\ \A v \in Workers \ {w} : work'[v] = work[v]
          /\ wakes \subseteq wakes' /\ "retry" \in wakes'
          /\ work[w].sweeping /\ (pending' # {} \/ retry'.exhausted) => "reconcile" \in wakes'
      BY <3>1, WorkEnded
    <3>3. QED
      BY <2>1, <3>0, <3>2, EndKeepsWake
  <2>3. CASE ~(work[w].attempt < MaxAttempts)
    <3>1. /\ retry' = IF HasRetry THEN [retry EXCEPT !.exhausted = TRUE] ELSE retry
          /\ StartRecovery(w, work[w].attempt, work[w].sweeping)
          /\ wakes' = wakes
      BY <1>3, <2>3 DEF RetryFails
    <3>2. retry'.attempt = retry.attempt /\ (retry.attempt > 0 => retry'.exhausted)
      BY <3>1 DEF TypeOK, HasRetry
    <3>3. /\ work'[w].job \in {"recover", "join"} /\ (work'[w].sweeping <=> work[w].sweeping)
          /\ \A v \in Workers \ {w} : work'[v] = work[v]
      BY <3>1, RecoveryStarted
    <3>4. SweepersWork'
      <4>1. "boot" \in Workers
        BY DEF Workers
      <4>2. work["boot"].job # "off" => work["boot"].sweeping
        BY DEF WakeInv, SweepersWork
      <4>3. \A v \in Workers : work'[v].sweeping => work'[v].job # "off"
        BY <3>3 DEF WakeInv, SweepersWork
      <4>4. work'["boot"].job # "off" => work'["boot"].sweeping
        BY <2>1, <3>3, <4>1, <4>2
      <4>5. QED
        BY <4>3, <4>4 DEF SweepersWork
    <3>7. RowIsWoken' /\ ExhaustedIsRecovered'
      BY <3>2, <3>3 DEF RowIsWoken, ExhaustedIsRecovered, HasRetry
    <3>8. retry'.exhausted => retry.exhausted \/ HasRetry
      BY <3>1
    <3>9. ExhaustedIsRow'
      BY <3>2, <3>8 DEF WakeInv, ExhaustedIsRow, HasRetry
    <3>5. Swept => Swept'
      BY <2>1, <3>1, <3>3 DEF Swept
    <3>6. QED
      BY <2>1, <3>4, <3>5, <3>7, <3>9 DEF WakeInv, PendingIsSwept
  <2>4. QED
    BY <2>2, <2>3
<1>4. CASE SweepCompletes(w) \/ SweepFails(w)
  <2>1. /\ work[w].job = "sweep" /\ EndWork(w, TRUE, {}) /\ retry' = retry /\ sweep' = sweep
        /\ pending' \subseteq pending
    BY <1>4 DEF SweepCompletes, SweepFails, CompletePending, journal
  <2>2. /\ work'[w] = Idle /\ \A v \in Workers \ {w} : work'[v] = work[v]
        /\ wakes \subseteq wakes'
        /\ work[w].sweeping /\ (pending' # {} \/ retry'.exhausted) => "reconcile" \in wakes'
    BY <2>1, WorkEnded
  <2>3. QED
    BY <2>1, <2>2, EndKeepsWake
<1>5. CASE RecoveryPulls(w)
  BY <1>5, RowsAlone DEF RecoveryPulls, retriers, durable
<1>6. CASE RecoveryFails(w)
  <2>1. /\ work[w].job = "recover" /\ EndWork(w, FALSE, {}) /\ retry' = retry
        /\ sweep' = sweep /\ pending' = pending
    BY <1>6 DEF RecoveryFails, journal
  <2>2. /\ work'[w] = Idle /\ \A v \in Workers \ {w} : work'[v] = work[v]
        /\ wakes \subseteq wakes'
        /\ work[w].sweeping /\ (pending' # {} \/ retry'.exhausted) => "reconcile" \in wakes'
        /\ retry.exhausted /\ ~work[w].sweeping => "reconcile" \in wakes'
    BY <2>1, WorkEnded
  <2>3. QED
    BY <2>1, <2>2, EndKeepsWake
<1>7. CASE Joined(w)
  <2>1. /\ work[w].job = "join" /\ EndWork(w, ~retry.exhausted, {}) /\ retry' = retry
        /\ sweep' = sweep /\ pending' = pending
    BY <1>7 DEF Joined, journal
  <2>2. /\ work'[w] = Idle /\ \A v \in Workers \ {w} : work'[v] = work[v]
        /\ wakes \subseteq wakes'
        /\ work[w].sweeping /\ (pending' # {} \/ retry'.exhausted) => "reconcile" \in wakes'
        /\ retry.exhausted /\ ~work[w].sweeping => "reconcile" \in wakes'
    BY <2>1, WorkEnded
  <2>3. QED
    BY <2>1, <2>2, EndKeepsWake
<1>8. QED
  BY <1>2, <1>3, <1>4, <1>5, <1>6, <1>7 DEF Retry

\* A retrier that takes the row up is busy with it; a sweep that finds it not
\* due yet leaves a wake.
LEMMA TakenUp ==
    ASSUME TypeOK, NEW w \in Workers
    PROVE  /\ \A sweeping \in BOOLEAN : RunRetry(w, sweeping) =>
                /\ work'[w].job \in (IF retry.exhausted THEN {"recover", "join"} ELSE {"retry"})
                /\ work'[w].sweeping = sweeping
                /\ \A v \in Workers \ {w} : work'[v] = work[v]
           /\ RunSweep(w) =>
                /\ \A v \in Workers \ {w} : work'[v] = work[v]
                /\ \/ UNCHANGED work /\ ~Retryable /\ (pending = {} \/ HasRetry)
                   \/ work'[w].job # "off" /\ work'[w].sweeping
<1>1. ASSUME NEW sweeping \in BOOLEAN, RunRetry(w, sweeping)
      PROVE  /\ work'[w].job \in (IF retry.exhausted THEN {"recover", "join"} ELSE {"retry"})
             /\ work'[w].sweeping = sweeping
             /\ \A v \in Workers \ {w} : work'[v] = work[v]
  <2>1. CASE retry.exhausted
    BY <1>1, <2>1, RecoveryStarted DEF RunRetry
  <2>2. CASE ~retry.exhausted
    BY <1>1, <2>2 DEF RunRetry, SetWork, TypeOK
  <2>3. QED
    BY <2>1, <2>2
<1>2. ASSUME RunSweep(w)
      PROVE  /\ \A v \in Workers \ {w} : work'[v] = work[v]
             /\ \/ UNCHANGED work /\ ~Retryable /\ (pending = {} \/ HasRetry)
                \/ work'[w].job # "off" /\ work'[w].sweeping
  <2>1. CASE Retryable
    BY <1>1, <1>2, <2>1 DEF RunSweep
  <2>2. CASE ~Retryable /\ pending # {} /\ ~HasRetry
    BY <1>2, <2>2 DEF RunSweep, SetWork, TypeOK
  <2>3. CASE ~Retryable /\ ~(pending # {} /\ ~HasRetry)
    BY <1>2, <2>3 DEF RunSweep
  <2>4. QED
    BY <2>1, <2>2, <2>3
<1>3. QED
  BY <1>1, <1>2

\* An idle retrier that takes something up, or finds nothing to do, keeps the
\* invariant if what it was woken for has evidence afterwards.
LEMMA TakenKeepsWake ==
    ASSUME WakeInv, NEW w \in Workers, work[w].job = "off",
           \A v \in Workers \ {w} : work'[v] = work[v],
           UNCHANGED <<retry, pending>>,
           work'[w].sweeping => work'[w].job # "off",
           w = "boot" /\ work'[w].job # "off" => work'[w].sweeping,
           HasRetry /\ ~retry.exhausted /\ "retry" \in wakes =>
               "retry" \in wakes' \/ work'[w].job = "retry",
           pending # {} => (Swept => Swept'),
           retry.exhausted =>
               (Swept => Swept') \/ work'[w].job \in {"recover", "join"}
    PROVE  WakeInv'
<1>1. "boot" \in Workers /\ ~work[w].sweeping
  BY DEF Workers, WakeInv, SweepersWork
<1>2. SweepersWork'
  <2>1. \A v \in Workers : work'[v].sweeping => work'[v].job # "off"
    BY DEF WakeInv, SweepersWork
  <2>2. work'["boot"].job # "off" => work'["boot"].sweeping
    BY <1>1 DEF WakeInv, SweepersWork
  <2>3. QED
    BY <2>1, <2>2 DEF SweepersWork
<1>3. RowIsWoken'
  BY DEF WakeInv, RowIsWoken, HasRetry
<1>4. ExhaustedIsRow' /\ PendingIsSwept'
  BY DEF WakeInv, ExhaustedIsRow, PendingIsSwept, HasRetry
<1>5. ASSUME retry'.exhausted, ~Swept' PROVE \E v \in Workers : work'[v].job \in {"recover", "join"}
  BY <1>5 DEF WakeInv, ExhaustedIsRecovered
<1>6. ExhaustedIsRecovered'
  BY <1>5 DEF ExhaustedIsRecovered
<1>7. QED
  BY <1>2, <1>3, <1>4, <1>6 DEF WakeInv

\* A sweep takes up what it may; the wake of a row that is not due yet is stored.
LEMMA SweepKeepsWake ==
    ASSUME TypeOK, WakeInv, NEW w \in Workers, work[w].job = "off", RunSweep(w),
           UNCHANGED <<retry, pending>>,
           SweptTooEarly \subseteq wakes', wakes \ {"reconcile"} \subseteq wakes'
    PROVE  WakeInv'
<1>1. /\ \A v \in Workers \ {w} : work'[v] = work[v]
      /\ \/ UNCHANGED work /\ ~Retryable /\ (pending = {} \/ HasRetry)
         \/ work'[w].job # "off" /\ work'[w].sweeping
  BY TakenUp
<1>2. "retry" \in wakes => "retry" \in wakes'
  OBVIOUS
<1>3. ~work[w].sweeping
  BY DEF WakeInv, SweepersWork
<1>4. CASE UNCHANGED work /\ ~Retryable /\ (pending = {} \/ HasRetry)
  <2>1. ~retry.exhausted
    BY <1>4 DEF WakeInv, ExhaustedIsRow, Retryable
  <2>2. pending # {} => Swept'
    BY <1>4 DEF SweptTooEarly, Swept
  <2>3. QED
    BY <1>1, <1>2, <1>3, <1>4, <2>1, <2>2, TakenKeepsWake
<1>5. CASE work'[w].job # "off" /\ work'[w].sweeping
  <2>1. Swept'
    BY <1>5 DEF Swept
  <2>2. QED
    BY <1>1, <1>2, <1>5, <2>1, TakenKeepsWake
<1>6. QED
  BY <1>1, <1>4, <1>5

LEMMA WakeStep == TypeOK /\ WakeInv /\ [Next]_vars => WakeInv'
<1> SUFFICES ASSUME TypeOK, WakeInv, [Next]_vars PROVE WakeInv'
  OBVIOUS
<1>1. ASSUME NEW t \in Tools, Command(t) PROVE WakeInv'
  BY <1>1, CommandWake
<1>2. ASSUME NEW w \in Workers, Retry(w) PROVE WakeInv'
  BY <1>2, RetryWake
<1>3. ASSUME NEW p \in Tools \cup Workers, PullChecked(p) \/ Pulled(p) PROVE WakeInv'
  BY <1>3, RowsAlone DEF PullChecked, Pulled, durable, retriers
<1>4. "alarm" \in Workers /\ "boot" \in Workers
  BY DEF Workers
<1>5. CASE AlarmRetries
  <2>1. /\ work["alarm"].job = "off" /\ wakes' = wakes \ {"retry"}
        /\ UNCHANGED <<sweep, retry, pending>>
    BY <1>5 DEF AlarmRetries, Untouched, journal
  <2>2. ~work["alarm"].sweeping /\ "alarm" # "boot" /\ FALSE \in BOOLEAN
    BY <1>4, <2>1 DEF WakeInv, SweepersWork
  <2>3. CASE HasRetry
    <3>1. RunRetry("alarm", FALSE)
      BY <1>5, <2>3 DEF AlarmRetries
    <3>2. /\ work'["alarm"].job \in (IF retry.exhausted THEN {"recover", "join"} ELSE {"retry"})
          /\ ~work'["alarm"].sweeping
          /\ \A v \in Workers \ {"alarm"} : work'[v] = work[v]
      BY <1>4, <2>2, <3>1, TakenUp
    <3>3. Swept => Swept'
      BY <2>1, <2>2, <3>2 DEF Swept
    <3>4. QED
      BY <1>4, <2>1, <2>2, <3>2, <3>3, TakenKeepsWake
  <2>4. CASE ~HasRetry
    <3>1. work' = work
      BY <1>5, <2>4 DEF AlarmRetries
    <3>2. Swept => Swept'
      BY <2>1, <3>1 DEF Swept
    <3>3. QED
      BY <1>4, <2>1, <2>2, <2>4, <3>1, <3>2, TakenKeepsWake
  <2>5. QED
    BY <2>3, <2>4
<1>6. CASE AlarmSweeps
  BY <1>4, <1>6, SweepKeepsWake DEF AlarmSweeps, Untouched, journal
<1>7. CASE BootSweeps
  <2>1. /\ wakes' = wakes \cup SweptTooEarly /\ UNCHANGED <<retry, pending>>
    BY <1>7 DEF BootSweeps, Untouched, journal
  <2>2. CASE work["boot"].job = "off"
    BY <1>4, <1>7, <2>1, <2>2, SweepKeepsWake DEF BootSweeps
  <2>3. CASE work["boot"].job # "off"
    <3>1. work' = work /\ work["boot"].sweeping
      BY <1>7, <2>3 DEF BootSweeps, WakeInv, SweepersWork
    <3>2. Swept'
      BY <1>4, <3>1 DEF Swept
    <3>3. QED
      BY <2>1, <3>1, <3>2 DEF WakeInv, SweepersWork, RowIsWoken, ExhaustedIsRecovered,
                              PendingIsSwept, ExhaustedIsRow, HasRetry
  <2>4. QED
    BY <2>2, <2>3
<1>8. CASE BackoffElapses
  <2>1. /\ retry'.attempt = retry.attempt /\ (retry'.exhausted <=> retry.exhausted)
        /\ UNCHANGED <<pending, wakes, sweep, work>>
    BY <1>8 DEF BackoffElapses, TypeOK, journal, retriers
  <2>2. QED
    BY <2>1 DEF WakeInv, SweepersWork, RowIsWoken, ExhaustedIsRecovered, PendingIsSwept,
                ExhaustedIsRow, Swept, HasRetry
<1>9. CASE ContainerReplaced
  BY <1>9, RowsAlone DEF ContainerReplaced, durable, retriers
<1>10. CASE Restart
  <2>1. /\ pending' = pending /\ retry' = retry /\ sweep' = (pending # {} \/ retry.exhausted)
        /\ wakes' = wakes \cup (IF HasRetry /\ ~retry.exhausted THEN {"retry"} ELSE {})
        /\ work' = [w \in Workers |-> Idle]
    BY <1>10 DEF Restart, journal
  <2>2. \A w \in Workers : work'[w].job = "off" /\ ~work'[w].sweeping
    BY <2>1 DEF Idle
  <2>3. Swept' <=> ("reconcile" \in wakes \/ pending # {} \/ retry.exhausted)
    BY <2>1, <2>2 DEF Swept
  <2>4. QED
    BY <1>4, <2>1, <2>2, <2>3
    DEF WakeInv, SweepersWork, RowIsWoken, ExhaustedIsRecovered, PendingIsSwept,
        ExhaustedIsRow, HasRetry
<1>11. CASE UNCHANGED vars
  BY <1>11, RowsAlone DEF vars, durable, retriers
<1>12. QED
  BY <1>1, <1>2, <1>3, <1>5, <1>6, <1>7, <1>8, <1>9, <1>10, <1>11 DEF Next

\* While a command's sync is outstanding, for any number of commands, attempts,
\* containers and restarts, a wake is stored, a sweep is handed over or a
\* retrier is at work: no interleaving leaves the workspace blocked with
\* nothing to unblock it.
THEOREM NothingIsStranded == Spec => []NeverStranded
<1>1. Init => TypeInv /\ WakeInv
  BY InitTypes, InitWake
<1>2. TypeInv /\ WakeInv /\ [Next]_vars => TypeInv' /\ WakeInv'
  BY TypeStep, WakeStep DEF TypeInv
<1>3. TypeInv /\ WakeInv => NeverStranded
  BY WakeInvSuffices DEF TypeInv
<1>4. QED
  BY <1>1, <1>2, <1>3, PTL DEF Spec

-----------------------------------------------------------------------------
(* Until the object restarts, only what it started itself is under way: one   *)
(* command at a time, then its sync, and the alarm is the one retrier. From   *)
(* that follow what an intent names, what a command starts beside, and what   *)
(* is completed and failed.                                                   *)

\* No call is left from an earlier instance, so none asks the container first.
NoneLeftOver == \A t \in Tools : phase[t] \notin {"interrupted", "probing"}

\* Containers come one after another.
RanBefore == \A t \in Tools : ran[t] <= container

\* None of the commands ran in the container there is now.
AllLost == \A t \in Tools : ran[t] < container

\* A call that runs is owned until its caller was told; only then its command is
\* looked for in the container.
NotOwned ==
    /\ \A t \in Tools \ owned :
          status[t] = "running" => t \in marked /\ phase[t] \in {"errored", "succeeded"}
    /\ \A t \in killing :
          /\ t \notin owned \cup pending /\ status[t] # "absent"
          /\ phase[t] \in {"errored", "succeeded"}

\* A command with an open stream has the lane, and none ran after it did. A row that
\* begins to wait beside it is of a command its container has ended by request, so
\* it is that container's.
OpenAlone ==
    \A t \in Tools : phase[t] \in InOperation =>
        /\ status[t] = "running" /\ t \notin pending
        /\ HasRetry => retry.rt = ran[t] /\ pending # {}
        /\ \A u \in pending : ran[u] = ran[t]
        /\ \A u \in Tools : ran[u] <= ran[t] /\ (phase[u] \in InOperation => u = t)

\* A sweep that was handed over finds the row it came with not due yet.
SweepIsEarly == sweep => HasRetry /\ ~Retryable

\* The alarm pulls from the runtime that the row names for as long as it works, and
\* sweeps only what nothing can bring any more.
AlarmKeepsIntent ==
    /\ work["alarm"].job = "off" => pull["alarm"].step = "off"
    /\ work["alarm"].job # "join"
    /\ work["alarm"].job = "retry" => HasRetry /\ pull["alarm"].rt = retry.rt
    /\ work["alarm"].job = "recover" =>
        HasRetry /\ (pull["alarm"].step # "off" => pull["alarm"].rt = retry.rt)
    /\ work["alarm"].job = "sweep" =>
        /\ AllLost /\ pending # {} /\ pull["alarm"].rt = None
        /\ HasRetry => \A t \in Tools : phase[t] \notin InOperation

\* The caller of the waiting command was told, and no other command waits.
WaitingIsOver ==
    \A t \in pending :
        /\ status[t] = "running" /\ pending = {t}
        /\ phase[t] = "errored" \/ (phase[t] = "succeeded" /\ t \in marked)

IntentNamed == HasRetry => \A t \in pending : retry.rt = ran[t]

\* Rows go with their intent, unless the container of both is gone, and no command
\* ran after the intent's.
RowAndIntent ==
    /\ HasRetry => (pending # {} \/ AllLost) /\ \A t \in Tools : ran[t] <= retry.rt
    /\ pending # {} => HasRetry \/ AllLost

FirstLife ==
    /\ NoneLeftOver /\ RanBefore /\ NotOwned /\ OpenAlone /\ SweepIsEarly
    /\ work["boot"].job = "off" /\ AlarmKeepsIntent
    /\ WaitingIsOver /\ IntentNamed /\ RowAndIntent

LEMMA InitFirst == Init => FirstLife
BY SyncConstants DEF Init, FirstLife, NoneLeftOver, RanBefore, NotOwned, OpenAlone, SweepIsEarly,
   AlarmKeepsIntent, WaitingIsOver, IntentNamed, RowAndIntent, InOperation, HasRetry, NoRetry,
   NoPull, Idle, Workers

LEMMA FirstTypes ==
    ASSUME TypeInv, FirstLife
    PROVE  /\ phase \in [Tools -> {"idle", "executing", "confirming", "succeeded", "errored"}]
           /\ status \in [Tools -> {"absent", "running", "completed", "failed"}]
           /\ ran \in [Tools -> 0..MaxContainers] /\ container \in Nat
           /\ \A t \in Tools : ran[t] \in Nat
           /\ pending \subseteq Tools /\ owned \subseteq Tools /\ marked \subseteq Tools
           /\ killing \subseteq Tools
           /\ pull \in [Tools \cup Workers -> Pulls] /\ "alarm" \in Workers /\ "alarm" \notin Tools
           /\ work["alarm"].job \in Jobs
BY SyncConstants DEF TypeInv, TypeOK, FirstLife, NoneLeftOver, Streaming, InOperation, Pulls,
   Runtimes, Workers, Containers, Jobs

\* The retriers' state and their pulls, which a command leaves alone.
AlarmAlone ==
    /\ work' = work /\ pull'["alarm"] = pull["alarm"]

\* What a step of the call t leaves of the others.
OthersKept(t) ==
    /\ \A u \in Tools \ {t} :
          /\ phase'[u] = phase[u] /\ ran'[u] = ran[u] /\ status'[u] = status[u]
          /\ (u \in marked' <=> u \in marked)
          /\ (u \in owned' <=> u \in owned) /\ (u \in killing' <=> u \in killing)
    /\ owned' \subseteq Tools /\ killing' \subseteq Tools

\* What becomes of its own call.
OwnMoved(t) ==
    /\ t \notin owned' /\ status'[t] = "running" =>
          t \in marked' /\ phase'[t] \in {"errored", "succeeded"}
    /\ t \in killing' =>
          t \notin owned' \cup pending /\ status'[t] # "absent"
              /\ phase'[t] \in {"errored", "succeeded"}
    /\ phase'[t] \in {"idle", "executing", "confirming", "succeeded", "errored"}

\* A command that touches neither the rows nor the retriers keeps the rest if its
\* own call stays where the invariant wants it.
LEMMA CallMoves ==
    ASSUME TypeInv, FirstLife, NEW t \in Tools, AlarmAlone,
           UNCHANGED <<pending, retry, sweep, container>>, OthersKept(t), OwnMoved(t),
           t \in pending => /\ phase'[t] = phase[t] /\ ran'[t] = ran[t] /\ status'[t] = status[t]
                            /\ (t \in marked => t \in marked'),
           \/ ran'[t] = ran[t]
           \/ ran'[t] = container /\ ~Blocked /\ \A u \in Tools : phase[u] \notin InOperation,
           phase'[t] \in InOperation =>
               /\ status'[t] = "running"
               /\ \/ phase[t] \in InOperation /\ ran'[t] = ran[t]
                  \/ ~Blocked /\ ran'[t] = container /\ \A u \in Tools : phase[u] \notin InOperation
    PROVE  FirstLife'
<1> USE FirstTypes
<1>1. NoneLeftOver' /\ SweepIsEarly' /\ RanBefore'
  <2>1. NoneLeftOver' /\ SweepIsEarly'
    BY DEF FirstLife, NoneLeftOver, SweepIsEarly, HasRetry, Retryable, OthersKept, OwnMoved
  <2>2. \A u \in Tools : ran'[u] <= container'
    BY DEF FirstLife, RanBefore, OthersKept
  <2>3. QED
    BY <2>1, <2>2 DEF RanBefore
<1>2. NotOwned'
  BY DEF FirstLife, NotOwned, OthersKept, OwnMoved
<1>3. OpenAlone'
  <2>1. SUFFICES ASSUME NEW u \in Tools, phase'[u] \in InOperation
                 PROVE  /\ status'[u] = "running" /\ u \notin pending
                        /\ HasRetry => retry.rt = ran'[u] /\ pending # {}
                        /\ \A v \in pending : ran'[v] = ran'[u]
                        /\ \A v \in Tools : ran'[v] <= ran'[u] /\ (phase'[v] \in InOperation => v = u)
    BY DEF OpenAlone, HasRetry
  <2>2. CASE u = t /\ ~(phase[t] \in InOperation /\ ran'[t] = ran[t])
    <3>1. ~Blocked /\ ran'[t] = container /\ \A v \in Tools : phase[v] \notin InOperation
      BY <2>1, <2>2
    <3>2. pending = {} /\ ~HasRetry
      BY <3>1 DEF Blocked
    <3>3. QED
      BY <2>1, <2>2, <3>1, <3>2 DEF FirstLife, RanBefore, OthersKept
  <2>3. CASE u = t /\ phase[t] \in InOperation /\ ran'[t] = ran[t]
    <3>1. \A v \in Tools : ran'[v] = ran[v]
      BY <2>3 DEF OthersKept
    <3>2. QED
      BY <2>1, <2>3, <3>1 DEF FirstLife, OpenAlone, OthersKept
  <2>4. CASE u # t
    <3>1. phase[u] \in InOperation
      BY <2>1, <2>4 DEF OthersKept
    <3>2. phase[t] \notin InOperation
      BY <2>4, <3>1 DEF FirstLife, OpenAlone
    <3>3. phase'[t] \notin InOperation /\ \A v \in Tools : ran'[v] = ran[v]
      BY <3>1, <3>2 DEF OthersKept
    <3>4. QED
      BY <2>1, <2>4, <3>1, <3>2, <3>3 DEF FirstLife, OpenAlone, OthersKept
  <2>5. QED
    BY <2>2, <2>3, <2>4
<1>4. AllLost => AllLost' \/ (pending = {} /\ ~HasRetry)
  BY DEF AllLost, OthersKept, Blocked
<1>5. (work["boot"].job = "off" /\ AlarmKeepsIntent)'
  BY <1>4 DEF FirstLife, AlarmKeepsIntent, AlarmAlone, HasRetry, OthersKept, Blocked
<1>6. WaitingIsOver' /\ IntentNamed'
  BY DEF FirstLife, WaitingIsOver, IntentNamed, HasRetry, OthersKept
<1>7. RowAndIntent'
  BY <1>4 DEF FirstLife, RowAndIntent, HasRetry, OthersKept, Blocked
<1>8. QED
  BY <1>1, <1>2, <1>3, <1>5, <1>6, <1>7 DEF FirstLife

\* A row that begins to wait is the only one, and finds no intent and the alarm at rest.
LEMMA RegistersAlone ==
    ASSUME TypeInv, FirstLife, NEW t \in Tools, CanWait(t),
           phase[t] \in InOperation \/ (t \in killing /\ ran[t] = container)
    PROVE  /\ pending = {} /\ ~HasRetry
           /\ work["alarm"].job = "off" /\ pull["alarm"].step = "off"
<1>1. t \notin pending
  BY DEF FirstLife, OpenAlone, NotOwned
<1>2. pending = {}
  BY <1>1 DEF CanWait
<1>3. ~HasRetry
  BY <1>2, FirstTypes DEF FirstLife, OpenAlone, RowAndIntent, AllLost
<1>4. QED
  BY <1>2, <1>3, FirstTypes DEF FirstLife, AlarmKeepsIntent, Jobs

\* A command whose stream is over and whose sync is not: the intent is its own, or
\* that of the command that waits and ran in the same container.
LEMMA CallWaits ==
    ASSUME TypeInv, FirstLife, ~sweep, NEW t \in Tools, AlarmAlone, phase[t] \in InOperation,
           RegisterPending(t, ran[t]) \/
               (~CanWait(t) /\ SchedulePending(ran[t]) /\ UNCHANGED <<pending, sweep>>),
           UNCHANGED <<status, ran, container, owned, marked, killing>>,
           phase' = [phase EXCEPT ![t] = "errored"]
    PROVE  FirstLife'
<1> USE FirstTypes
<1>1. /\ status[t] = "running" /\ t \notin pending /\ \A u \in Tools \ {t} : phase[u] \notin InOperation
      /\ HasRetry => retry.rt = ran[t] /\ pending # {}
      /\ \A u \in pending : ran[u] = ran[t]
      /\ \A u \in Tools : ran[u] <= ran[t]
  BY DEF FirstLife, OpenAlone
<1>2. phase'[t] = "errored" /\ \A u \in Tools \ {t} : phase'[u] = phase[u]
  OBVIOUS
<1>3. \A u \in Tools : phase'[u] \notin InOperation
  BY <1>1, <1>2 DEF InOperation
<1>4. NoneLeftOver' /\ RanBefore' /\ OpenAlone'
  BY <1>2, <1>3 DEF FirstLife, NoneLeftOver, RanBefore, OpenAlone
<1>5. AllLost' <=> AllLost
  BY DEF AllLost
<1>6. CASE pending = {}
  <2>1. RegisterPending(t, ran[t])
    BY <1>1, <1>6 DEF CanWait
  <2>2. pending' = {t} /\ retry' = Intent(ran[t])
    BY <1>1, <1>6, <2>1 DEF RegisterPending, SchedulePending
  <2>3. retry'.rt = ran[t] /\ HasRetry' /\ ~Retryable'
    BY <2>2 DEF Intent, HasRetry, Retryable
  <2>4. SweepIsEarly' /\ IntentNamed' /\ WaitingIsOver' /\ RowAndIntent'
    BY <1>1, <1>2, <2>2, <2>3 DEF SweepIsEarly, IntentNamed, WaitingIsOver, RowAndIntent
  <2>5. NotOwned'
    BY <1>1, <1>2, <2>2 DEF FirstLife, NotOwned, InOperation
  <2>6. work["alarm"].job = "off"
    BY <2>1, RegistersAlone DEF RegisterPending
  <2>7. (work["boot"].job = "off" /\ AlarmKeepsIntent)'
    BY <2>6 DEF FirstLife, AlarmKeepsIntent, AlarmAlone
  <2>8. QED
    BY <1>4, <2>4, <2>5, <2>7 DEF FirstLife
<1>7. CASE pending # {}
  <2>1. SchedulePending(ran[t]) /\ UNCHANGED <<pending, sweep>>
    BY <1>1, <1>7 DEF RegisterPending, CanWait
  <2>2. retry' = retry \/ (retry' = Intent(ran[t]) /\ ~HasRetry)
    BY <1>1, <2>1 DEF SchedulePending
  <2>3. retry'.rt = ran[t] /\ HasRetry'
    BY <1>1, <2>1, <2>2 DEF SchedulePending, HasRetry, Intent
  <2>4. SweepIsEarly' /\ IntentNamed' /\ WaitingIsOver' /\ RowAndIntent'
    BY <1>1, <1>2, <1>7, <2>1, <2>3 DEF FirstLife, SweepIsEarly, IntentNamed, WaitingIsOver,
       RowAndIntent
  <2>5. NotOwned'
    BY <1>1, <1>2, <2>1 DEF FirstLife, NotOwned, InOperation
  <2>6. HasRetry => retry' = retry
    BY <2>2
  <2>7. (work["boot"].job = "off" /\ AlarmKeepsIntent)'
    BY <1>3, <1>5, <2>1, <2>3, <2>6 DEF FirstLife, AlarmKeepsIntent, AlarmAlone
  <2>8. QED
    BY <1>4, <2>4, <2>5, <2>7 DEF FirstLife
<1>8. QED
  BY <1>6, <1>7

\* A command that was ended by request waits only when no other does and no row is
\* left: it ran in the container there is, so its intent is the open command's too.
LEMMA KilledWaits ==
    ASSUME TypeInv, FirstLife, ~sweep, NEW t \in killing, AlarmAlone, ran[t] = container,
           RegisterPending(t, container), killing' = killing \ {t},
           UNCHANGED <<status, ran, container, owned, marked, phase>>
    PROVE  FirstLife'
<1> USE FirstTypes
<1>1. /\ t \in Tools /\ t \notin owned /\ t \notin pending /\ phase[t] \in {"errored", "succeeded"}
      /\ status[t] = "running" /\ t \in marked
  BY DEF FirstLife, NotOwned, RegisterPending, CanWait
<1>2. pending = {} /\ ~HasRetry /\ work["alarm"].job = "off"
  BY <1>1, RegistersAlone DEF RegisterPending
<1>3. pending' = {t} /\ retry' = Intent(container)
  BY <1>2 DEF RegisterPending, SchedulePending
<1>4. retry'.rt = container /\ HasRetry' /\ ~Retryable'
  BY <1>3 DEF Intent, HasRetry, Retryable
<1>5. NoneLeftOver' /\ RanBefore' /\ SweepIsEarly' /\ NotOwned'
  BY <1>1, <1>2, <1>3, <1>4 DEF FirstLife, NoneLeftOver, RanBefore, SweepIsEarly, NotOwned
<1>6. OpenAlone'
  <2>1. SUFFICES ASSUME NEW u \in Tools, phase[u] \in InOperation
                 PROVE  /\ status[u] = "running" /\ u # t /\ container = ran[u]
                        /\ \A v \in Tools : ran[v] <= ran[u] /\ (phase[v] \in InOperation => v = u)
    BY <1>3, <1>4 DEF OpenAlone
  <2>2. ran[t] <= ran[u] /\ ran[u] <= container
    BY <1>1, <2>1 DEF FirstLife, OpenAlone, RanBefore
  <2>3. QED
    BY <1>1, <2>1, <2>2 DEF FirstLife, OpenAlone, InOperation
<1>7. IntentNamed' /\ WaitingIsOver' /\ RowAndIntent'
  BY <1>1, <1>3, <1>4 DEF FirstLife, RanBefore, IntentNamed, WaitingIsOver, RowAndIntent
<1>8. (work["boot"].job = "off" /\ AlarmKeepsIntent)'
  BY <1>2 DEF FirstLife, AlarmKeepsIntent, AlarmAlone
<1>9. QED
  BY <1>5, <1>6, <1>7, <1>8 DEF FirstLife

LEMMA CommandFirst ==
    ASSUME TypeInv, FirstLife, ~sweep, NEW t \in Tools, Command(t)
    PROVE  FirstLife'
<1> USE FirstTypes DEF durable, world, memory, retriers, journal
<1>1. t \in pending => phase[t] \in {"errored", "succeeded"} /\ status[t] = "running"
  BY DEF FirstLife, WaitingIsOver
<1>2. t \in pending /\ phase[t] = "succeeded" => t \in marked
  BY DEF FirstLife, WaitingIsOver
<1>3. /\ t \notin owned /\ status[t] = "running" => t \in marked /\ phase[t] \in {"errored", "succeeded"}
      /\ t \in killing => /\ t \notin owned \cup pending /\ status[t] # "absent"
                          /\ phase[t] \in {"errored", "succeeded"}
  BY DEF FirstLife, NotOwned
<1>4. phase[t] \in InOperation => status[t] = "running" /\ t \notin pending
  BY DEF FirstLife, OpenAlone
\* The call's row moves, its stream does not.
<1>5. ASSUME AlarmAlone, UNCHANGED <<pending, retry, sweep, container, phase, ran>>,
             OthersKept(t), OwnMoved(t),
             t \in pending => status'[t] = status[t] /\ (t \in marked => t \in marked'),
             phase[t] \in InOperation => status'[t] = "running"
      PROVE  FirstLife'
  BY <1>5, CallMoves
\* The stream moves, the row does not.
<1>6. ASSUME NEW next \in {"confirming", "succeeded", "errored"}, phase' = [phase EXCEPT ![t] = next],
             phase[t] \in InOperation, AlarmAlone,
             UNCHANGED <<pending, retry, sweep, container, ran, status, marked, owned, killing>>
      PROVE  FirstLife'
  <2>1. phase'[t] = next /\ \A u \in Tools \ {t} : phase'[u] = phase[u]
    BY <1>6
  <2>2. t \notin pending /\ status[t] = "running" /\ t \in owned /\ t \notin killing
    BY <1>3, <1>4, <1>6 DEF InOperation
  <2>3. OthersKept(t) /\ OwnMoved(t)
    BY <1>6, <2>1, <2>2 DEF OthersKept, OwnMoved
  <2>4. QED
    BY <1>6, <2>1, <2>2, <2>3, CallMoves
<1>7. CASE Begin(t)
  <2>1. /\ status[t] = "absent" /\ status' = [status EXCEPT ![t] = "running"]
        /\ owned' = owned \cup {t}
        /\ UNCHANGED <<marked, pending, retry, world, phase, killing, retriers, pull>>
    BY <1>7 DEF Begin
  <2>2. t \notin pending /\ t \notin killing /\ phase[t] \notin InOperation
    BY <1>1, <1>3, <1>4, <2>1
  <2>3. OthersKept(t) /\ OwnMoved(t) /\ AlarmAlone
    BY <2>1, <2>2 DEF OthersKept, OwnMoved, AlarmAlone
  <2>4. QED
    BY <1>5, <2>1, <2>2, <2>3
<1>8. ~EnterExec(t) /\ ~ExecRefused(t)
  BY DEF EnterExec, ExecRefused, FirstLife, NoneLeftOver
<1>9. CASE Exec(t)
  <2>1. /\ ~Blocked /\ \A u \in Tools : phase[u] \notin InOperation
        /\ status[t] = "running" /\ phase[t] = "idle"
    BY <1>9 DEF Exec, Runnable, FirstLife, NoneLeftOver
  <2>2. t \notin pending /\ t \in owned /\ t \notin killing
    BY <1>3, <2>1 DEF Blocked
  <2>3. /\ phase' = [phase EXCEPT ![t] = "executing"] /\ ran' = [ran EXCEPT ![t] = container]
        /\ UNCHANGED <<durable, container, owned, killing, retriers, pull>>
    BY <1>9, <2>2 DEF Exec, Openable
  <2>4. /\ phase'[t] = "executing" /\ ran'[t] = container
        /\ \A u \in Tools \ {t} : phase'[u] = phase[u] /\ ran'[u] = ran[u]
    BY <2>3
  <2>5. OthersKept(t) /\ OwnMoved(t) /\ AlarmAlone
    BY <2>2, <2>3, <2>4 DEF OthersKept, OwnMoved, AlarmAlone
  <2>6. QED
    BY <2>1, <2>2, <2>3, <2>4, <2>5, CallMoves
<1>10. CASE CommandEnds(t)
  <2>1. OthersKept(t) /\ OwnMoved(t) /\ AlarmAlone
    BY <1>3, <1>10 DEF CommandEnds, OthersKept, OwnMoved, AlarmAlone
  <2>2. QED
    BY <1>4, <1>5, <1>10, <2>1 DEF CommandEnds
<1>11. CASE Exited(t)
  BY <1>6, <1>11 DEF Exited, StartPull, AlarmAlone, InOperation
<1>12. CASE ConfirmOk(t) \/ ConfirmLost(t)
  BY <1>6, <1>12 DEF ConfirmOk, ConfirmLost, ConfirmEnds, AlarmAlone, InOperation
<1>13. CASE ConfirmPending(t)
  BY <1>13, CallWaits DEF ConfirmPending, ConfirmEnds, AlarmAlone, InOperation
<1>14. CASE StreamBroken(t)
  <2>1. CASE RegisterPending(t, ran[t])
    BY <1>14, <2>1, CallWaits DEF StreamBroken, AlarmAlone, InOperation
  <2>2. CASE UNCHANGED <<command, pending, retry, wakes, sweep>>
    BY <1>6, <1>14, <2>2 DEF StreamBroken, AlarmAlone, InOperation
  <2>3. QED
    BY <1>14, <2>1, <2>2 DEF StreamBroken
<1>15. CASE CompleteTool(t)
  <2>1. t \notin pending /\ pending' = pending /\ phase[t] = "succeeded"
    BY <1>2, <1>15 DEF CompleteTool, Runnable
  <2>2. /\ status' = [status EXCEPT ![t] = "completed"] /\ owned' = owned \ {t}
        /\ UNCHANGED <<marked, retry, world, phase, killing, retriers, pull>>
    BY <1>15 DEF CompleteTool
  <2>3. OthersKept(t) /\ OwnMoved(t) /\ AlarmAlone
    BY <1>3, <2>1, <2>2 DEF OthersKept, OwnMoved, AlarmAlone
  <2>4. QED
    BY <1>5, <2>1, <2>2, <2>3 DEF InOperation
<1>16. CASE FailTool(t)
  <2>1. /\ t \notin pending /\ pending' = pending /\ phase[t] \in {"errored", "succeeded"}
        /\ owned' = owned \ {t} /\ UNCHANGED <<retry, world, phase, killing, retriers, pull>>
        /\ \/ t \in marked /\ UNCHANGED <<status, marked>>
           \/ status' = [status EXCEPT ![t] = "failed"] /\ marked' = marked \ {t}
    BY <1>16 DEF FailTool, FailUnmarked, FailRow
  <2>2. OthersKept(t) /\ OwnMoved(t) /\ AlarmAlone
    BY <1>3, <2>1 DEF OthersKept, OwnMoved, AlarmAlone
  <2>3. QED
    BY <1>5, <2>1, <2>2 DEF InOperation
<1>17. CASE CancelTool(t)
  <2>1. /\ UNCHANGED <<pending, retry, world, phase, killing, retriers, pull>>
        /\ \/ marked' = marked \cup {t} /\ UNCHANGED <<status, owned>>
           \/ /\ t \notin pending /\ phase[t] \notin InOperation /\ owned' = owned \ {t}
              /\ status' = [status EXCEPT ![t] = "failed"] /\ marked' = marked \ {t}
    BY <1>17 DEF CancelTool, CancelIsActive, FailRow, Streaming
  <2>2. OthersKept(t) /\ OwnMoved(t) /\ AlarmAlone
    BY <1>3, <2>1 DEF OthersKept, OwnMoved, AlarmAlone
  <2>3. QED
    BY <1>4, <1>5, <2>1, <2>2
<1>18. CASE KillRecovered(t) \/ RecoveredUnsettled(t)
  <2>1. /\ killing' = killing \ {t} \/ (killing' = killing \cup {t} /\ t \notin owned \cup pending
                                            /\ status[t] = "running")
        /\ UNCHANGED <<durable, world, owned, phase, retriers, pull>>
    BY <1>18 DEF KillRecovered, RecoveredUnsettled
  <2>2. OthersKept(t) /\ OwnMoved(t) /\ AlarmAlone
    BY <1>3, <2>1 DEF OthersKept, OwnMoved, AlarmAlone
  <2>3. QED
    BY <1>4, <1>5, <2>1, <2>2
<1>19. CASE RecoveredEnds(t)
  <2>1. /\ t \in killing /\ ran[t] = container /\ killing' = killing \ {t}
        /\ UNCHANGED <<container, ran, owned, phase, work, pull>>
    BY <1>19 DEF RecoveredEnds
  <2>2. CASE RegisterPending(t, container) /\ UNCHANGED <<status, marked, saved>>
    BY <2>1, <2>2, KilledWaits DEF AlarmAlone
  <2>3. CASE FailCancelled(t) /\ UNCHANGED <<retry, wakes, sweep>>
    <3>1. UNCHANGED journal
      BY <1>3, <2>1, <2>3 DEF FailCancelled, FailUnmarked
    <3>2. OthersKept(t) /\ OwnMoved(t) /\ AlarmAlone
      BY <1>3, <2>1, <3>1 DEF OthersKept, OwnMoved, AlarmAlone
    <3>3. QED
      BY <1>4, <1>5, <2>1, <2>3, <3>1, <3>2
  <2>4. QED
    BY <1>19, <2>2, <2>3 DEF RecoveredEnds
<1>20. QED
  BY <1>7, <1>8, <1>9, <1>10, <1>11, <1>12, <1>13, <1>14, <1>15, <1>16, <1>17, <1>18, <1>19 DEF Command

\* What a retrier leaves of the calls.
CallsKept == UNCHANGED <<phase, ran, owned, killing>> /\ container' \in {container, container + 1}

\* Containers only go on, so what is lost stays lost.
LEMMA StaysLost ==
    ASSUME TypeInv, FirstLife, CallsKept
    PROVE  RanBefore' /\ (AllLost => AllLost')
BY FirstTypes DEF FirstLife, RanBefore, AllLost, CallsKept

\* The alarm ends its work: the row it leaves, if any, is the one there was, or
\* the next attempt of it.
LEMMA AlarmRests ==
    ASSUME TypeInv, FirstLife, ~sweep, ~sweep', CallsKept,
           work'["alarm"] = Idle, work'["boot"] = work["boot"], pull'["alarm"] = NoPull,
           HasRetry' => HasRetry /\ retry'.rt = retry.rt,
           pending' \subseteq pending, pending' \cap marked \subseteq marked',
           \A t \in Tools : \/ (status'[t] = status[t] /\ (t \in marked' <=> t \in marked))
                            \/ t \in pending \ pending' /\ status'[t] \in {"completed", "failed"},
           HasRetry' => pending' = pending \/ work["alarm"].job = "sweep",
           pending' # {} => HasRetry' \/ AllLost'
    PROVE  FirstLife'
<1> USE FirstTypes, StaysLost DEF CallsKept
<1>1. NoneLeftOver' /\ SweepIsEarly' /\ RanBefore'
  BY DEF FirstLife, NoneLeftOver, SweepIsEarly
<1>2. NotOwned'
  BY DEF FirstLife, NotOwned
<1>3. \A t \in pending' : status'[t] = status[t] /\ status[t] = "running"
  BY DEF FirstLife, WaitingIsOver
<1>4. OpenAlone'
  <2>1. SUFFICES ASSUME NEW t \in Tools, phase[t] \in InOperation
                 PROVE  /\ status'[t] = "running" /\ t \notin pending'
                        /\ HasRetry' => retry'.rt = ran[t] /\ pending' # {}
                        /\ \A u \in pending' : ran[u] = ran[t]
                        /\ \A u \in Tools : ran[u] <= ran[t] /\ (phase[u] \in InOperation => u = t)
    BY DEF OpenAlone
  <2>2. QED
    BY <2>1 DEF FirstLife, OpenAlone, AlarmKeepsIntent
<1>5. (work["boot"].job = "off" /\ AlarmKeepsIntent)'
  BY DEF FirstLife, AlarmKeepsIntent, Idle, NoPull
<1>6. WaitingIsOver' /\ IntentNamed'
  BY <1>3 DEF FirstLife, WaitingIsOver, IntentNamed
<1>7. RowAndIntent'
  <2>1. HasRetry' => pending' # {} \/ AllLost'
    BY DEF FirstLife, RowAndIntent, AlarmKeepsIntent
  <2>2. QED
    BY <2>1 DEF FirstLife, RowAndIntent
<1>8. QED
  BY <1>1, <1>2, <1>4, <1>5, <1>6, <1>7 DEF FirstLife

\* The alarm goes on, or the container is replaced: the rows are those there were.
LEMMA AlarmWorks ==
    ASSUME TypeInv, FirstLife, CallsKept, UNCHANGED journal, SweepIsEarly',
           work'["boot"] = work["boot"], AlarmKeepsIntent',
           HasRetry' <=> HasRetry, HasRetry => retry'.rt = retry.rt
    PROVE  FirstLife'
<1> USE FirstTypes, StaysLost DEF CallsKept, journal
<1>1. NoneLeftOver' /\ RanBefore' /\ NotOwned'
  BY DEF FirstLife, NoneLeftOver, NotOwned
<1>2. OpenAlone' /\ WaitingIsOver' /\ IntentNamed'
  BY DEF FirstLife, OpenAlone, WaitingIsOver, IntentNamed
<1>3. RowAndIntent'
  BY DEF FirstLife, RowAndIntent
<1>4. QED
  BY <1>1, <1>2, <1>3 DEF FirstLife

LEMMA RetryFirst ==
    ASSUME TypeInv, FirstLife, ~sweep, NEW w \in Workers, Retry(w)
    PROVE  FirstLife'
<1> USE DEF durable, world, memory, retriers, journal
<1>1. /\ w \in {"alarm", "boot"} /\ "alarm" \in Workers /\ "boot" \in Workers /\ TypeOK
      /\ work["boot"].job = "off" /\ work["alarm"].job # "join"
      /\ work \in [Workers -> Works] /\ pull \in [Tools \cup Workers -> Pulls] /\ retry \in Rows
  BY DEF Workers, FirstLife, AlarmKeepsIntent, TypeInv, TypeOK, Works, Jobs, Pulls, Runtimes, Rows
<1>2. w = "alarm"
  BY <1>1 DEF Retry, RetryCompletes, RetryLoses, RetryFails, SweepCompletes, SweepFails,
     RecoveryPulls, RecoveryCompletes, RecoveryLoses, RecoveryFails, Joined
<1>3. ASSUME NEW recovered, NEW moreWakes, EndWork(w, recovered, moreWakes), StopPull(w)
      PROVE  work'["alarm"] = Idle /\ work'["boot"] = work["boot"] /\ pull'["alarm"] = NoPull
  BY <1>1, <1>2, <1>3 DEF EndWork, StopPull
<1>4. ASSUME work[w].job \in {"retry", "recover"}, Completes(w) \/ Loses(w) PROVE FirstLife'
  <2>1. /\ EndWork(w, TRUE, {}) /\ StopPull(w) /\ UNCHANGED <<phase, ran, owned, killing, sweep>>
        /\ CompletePending \/ (FailPending /\ PullLost(w))
        /\ retry' = NoRetry /\ container' = container
    BY <1>4 DEF Completes, Loses
  <2>2. ~HasRetry'
    BY <2>1 DEF HasRetry, NoRetry
  <2>3. \A t \in Tools : \/ (status'[t] = status[t] /\ (t \in marked' <=> t \in marked))
                         \/ t \in pending \ pending' /\ status'[t] \in {"completed", "failed"}
    BY <1>1, <2>1 DEF CompletePending, FailPending, TypeOK
  <2>4. pending' \subseteq pending /\ pending' \cap marked \subseteq marked'
    BY <2>1 DEF CompletePending, FailPending
  <2>5. work'["alarm"] = Idle /\ work'["boot"] = work["boot"] /\ pull'["alarm"] = NoPull
    BY <1>3, <2>1
  <2>6. ASSUME pending' # {} PROVE AllLost'
    <3>1. PullLost(w) /\ \E t \in pending : retry.rt = ran[t]
      BY <1>2, <1>4, <2>1, <2>4, <2>6 DEF CompletePending, FirstLife, AlarmKeepsIntent, IntentNamed
    <3>2. retry.rt # container /\ \A t \in Tools : ran[t] <= retry.rt
      BY <1>2, <1>4, <3>1 DEF PullLost, FromOrigin, FirstLife, AlarmKeepsIntent, RowAndIntent
    <3>3. retry.rt \in Nat /\ retry.rt < container
      BY <3>1, <3>2, FirstTypes DEF FirstLife, RanBefore
    <3>4. \A t \in Tools : ran[t] < container
      BY <3>2, <3>3, FirstTypes
    <3>5. QED
      BY <2>1, <3>4 DEF AllLost
  <2>7. QED
    BY <2>1, <2>2, <2>3, <2>4, <2>5, <2>6, AlarmRests DEF CallsKept
<1>5. CASE RetryCompletes(w) \/ RetryLoses(w) \/ RecoveryCompletes(w) \/ RecoveryLoses(w)
  BY <1>4, <1>5 DEF RetryCompletes, RetryLoses, RecoveryCompletes, RecoveryLoses
<1>6. CASE RetryFails(w)
  <2>1. /\ work["alarm"].job = "retry" /\ StopPull(w) /\ ~sweep'
        /\ UNCHANGED journal /\ CallsKept
    BY <1>2, <1>6 DEF RetryFails, CallsKept
  <2>2. HasRetry /\ pull["alarm"].rt = retry.rt
    BY <2>1 DEF FirstLife, AlarmKeepsIntent
  <2>3. CASE work[w].attempt < MaxAttempts
    <3>1. /\ EndWork(w, TRUE, {"retry"})
          /\ retry' = [attempt |-> work[w].attempt + 1, rt |-> pull[w].rt,
                       exhausted |-> FALSE, due |-> FALSE]
      BY <1>6, <2>3 DEF RetryFails
    <3>2. work'["alarm"] = Idle /\ work'["boot"] = work["boot"] /\ pull'["alarm"] = NoPull
      BY <1>3, <2>1, <3>1
    <3>3. retry'.rt = retry.rt
      BY <1>2, <2>2, <3>1
    <3>4. retry'.attempt > 0
      BY <1>1, <3>1 DEF Works
    <3>5. HasRetry'
      BY <3>4 DEF HasRetry
    <3>6. UNCHANGED <<status, marked, pending>>
      BY <2>1
    <3>7. QED
      BY <1>2, <2>1, <2>2, <3>2, <3>3, <3>5, <3>6, AlarmRests
  <2>4. CASE ~(work[w].attempt < MaxAttempts)
    <3>1. /\ retry' = [retry EXCEPT !.exhausted = TRUE]
          /\ StartRecovery(w, work[w].attempt, work[w].sweeping)
      BY <1>6, <2>2, <2>4 DEF RetryFails
    <3>2. retry'.rt = retry.rt /\ retry'.attempt = retry.attempt
      BY <1>1, <3>1 DEF Rows
    <3>3. ~Recovering
      BY <1>1, <2>1 DEF Recovering, Workers
    <3>4. work'["alarm"].job = "recover" /\ work'["boot"] = work["boot"]
      BY <1>1, <1>2, <3>1, <3>3 DEF StartRecovery, SetWork
    <3>5. pull'["alarm"].step = "off"
      BY <1>1, <1>2, <2>1 DEF StopPull, NoPull
    <3>6. HasRetry'
      BY <2>2, <3>2 DEF HasRetry
    <3>7. AlarmKeepsIntent'
      BY <3>4, <3>5, <3>6 DEF AlarmKeepsIntent
    <3>8. QED
      BY <2>1, <2>2, <3>2, <3>4, <3>6, <3>7, AlarmWorks DEF SweepIsEarly
  <2>5. QED
    BY <2>3, <2>4
<1>7. CASE SweepCompletes(w) \/ SweepFails(w)
  <2>1. /\ EndWork(w, TRUE, {}) /\ StopPull(w) /\ UNCHANGED <<retry, sweep>>
        /\ CompletePending \/ UNCHANGED journal
        /\ CallsKept /\ work["alarm"].job = "sweep"
    BY <1>2, <1>7 DEF SweepCompletes, SweepFails, CallsKept
  <2>2. /\ pending' \subseteq pending /\ pending' \cap marked \subseteq marked'
        /\ pending' = {} \/ UNCHANGED journal
    BY <2>1 DEF CompletePending
  <2>3. \A t \in Tools : \/ (status'[t] = status[t] /\ (t \in marked' <=> t \in marked))
                         \/ t \in pending \ pending' /\ status'[t] \in {"completed", "failed"}
    BY <2>1 DEF CompletePending
  <2>4. work'["alarm"] = Idle /\ work'["boot"] = work["boot"] /\ pull'["alarm"] = NoPull
    BY <1>3, <2>1
  <2>5. HasRetry' <=> HasRetry
    BY <2>1 DEF HasRetry
  <2>6. pending' # {} => HasRetry' \/ AllLost'
    BY <2>1, StaysLost DEF FirstLife, AlarmKeepsIntent
  <2>7. QED
    BY <2>1, <2>2, <2>3, <2>4, <2>5, <2>6, AlarmRests
<1>8. CASE RecoveryPulls(w)
  <2>1. /\ work["alarm"].job = "recover" /\ StartPull("alarm", retry.rt) /\ ~sweep'
        /\ UNCHANGED <<journal, work, retry>> /\ CallsKept
    BY <1>2, <1>8 DEF RecoveryPulls, CallsKept
  <2>2. pull'["alarm"].rt = retry.rt
    BY <1>1, <2>1 DEF StartPull
  <2>3. HasRetry /\ (HasRetry' <=> HasRetry)
    BY <2>1 DEF HasRetry, FirstLife, AlarmKeepsIntent
  <2>4. AlarmKeepsIntent'
    BY <2>1, <2>2, <2>3 DEF AlarmKeepsIntent
  <2>5. QED
    BY <2>1, <2>3, <2>4, AlarmWorks DEF SweepIsEarly
<1>9. CASE RecoveryFails(w)
  <2>1. /\ EndWork(w, FALSE, {}) /\ StopPull(w) /\ ~sweep' /\ work["alarm"].job = "recover"
        /\ UNCHANGED <<journal, retry>> /\ CallsKept
    BY <1>2, <1>9 DEF RecoveryFails, CallsKept
  <2>2. work'["alarm"] = Idle /\ work'["boot"] = work["boot"] /\ pull'["alarm"] = NoPull
    BY <1>3, <2>1
  <2>3. HasRetry' /\ HasRetry
    BY <2>1 DEF HasRetry, FirstLife, AlarmKeepsIntent
  <2>4. QED
    BY <2>1, <2>2, <2>3, AlarmRests
<1>10. CASE Joined(w)
  BY <1>1, <1>2, <1>10 DEF Joined
<1>11. QED
  BY <1>5, <1>6, <1>7, <1>8, <1>9, <1>10 DEF Retry

\* The alarm takes up the row there is, from the runtime it names; only without a
\* row does a sweep take what the container has.
LEMMA AlarmTakesUp ==
    ASSUME TypeInv, FirstLife, ~sweep, ~sweep', work["alarm"].job = "off",
           CallsKept, UNCHANGED <<journal, retry>>,
           (\E sweeping \in BOOLEAN : HasRetry /\ RunRetry("alarm", sweeping)) \/
               RunSweep("alarm") \/ UNCHANGED <<work, pull>>
    PROVE  FirstLife'
<1> USE StaysLost DEF journal
<1>1. /\ "alarm" \in Workers /\ "boot" \in Workers /\ work["boot"].job = "off"
      /\ pull["alarm"].step = "off" /\ (HasRetry' <=> HasRetry)
      /\ work \in [Workers -> Works] /\ pull \in [Tools \cup Workers -> Pulls]
  BY DEF Workers, FirstLife, AlarmKeepsIntent, TypeInv, TypeOK, Works, Jobs, Pulls, Runtimes,
     HasRetry
<1>2. ASSUME NEW sweeping \in BOOLEAN, HasRetry, RunRetry("alarm", sweeping) PROVE FirstLife'
  <2>1. CASE retry.exhausted
    <3>1. ~Recovering
      BY <1>1 DEF Recovering, Workers
    <3>2. work'["alarm"].job = "recover" /\ work'["boot"] = work["boot"] /\ pull' = pull
      BY <1>1, <1>2, <2>1, <3>1 DEF RunRetry, StartRecovery, SetWork
    <3>3. AlarmKeepsIntent'
      BY <1>1, <1>2, <3>2 DEF AlarmKeepsIntent
    <3>4. QED
      BY <1>1, <3>2, <3>3, AlarmWorks DEF SweepIsEarly
  <2>2. CASE ~retry.exhausted
    <3>1. work'["alarm"].job = "retry" /\ work'["boot"] = work["boot"]
      BY <1>1, <1>2, <2>2 DEF RunRetry, SetWork
    <3>2. pull'["alarm"].rt = retry.rt
      BY <1>1, <1>2, <2>2 DEF RunRetry, StartPull
    <3>3. AlarmKeepsIntent'
      BY <1>1, <1>2, <3>1, <3>2 DEF AlarmKeepsIntent
    <3>4. QED
      BY <1>1, <3>1, <3>3, AlarmWorks DEF SweepIsEarly
  <2>3. QED
    BY <2>1, <2>2
<1>3. CASE UNCHANGED <<work, pull>>
  <2>1. AlarmKeepsIntent'
    BY <1>1, <1>3 DEF AlarmKeepsIntent, FirstLife
  <2>2. QED
    BY <1>1, <1>3, <2>1, AlarmWorks DEF SweepIsEarly
<1>4. CASE RunSweep("alarm")
  <2>1. CASE Retryable
    <3>1. HasRetry /\ RunRetry("alarm", TRUE)
      BY <1>4, <2>1 DEF RunSweep, Retryable
    <3>2. QED
      BY <1>2, <3>1
  <2>2. CASE ~Retryable /\ pending # {} /\ ~HasRetry
    <3>1. work'["alarm"].job = "sweep" /\ work'["boot"] = work["boot"]
      BY <1>1, <1>4, <2>2 DEF RunSweep, SetWork
    <3>2. pull'["alarm"].rt = None
      BY <1>1, <1>4, <2>2 DEF RunSweep
    <3>3. AlarmKeepsIntent'
      BY <1>1, <2>2, <3>1, <3>2 DEF AlarmKeepsIntent, FirstLife, RowAndIntent
    <3>4. QED
      BY <1>1, <3>1, <3>3, AlarmWorks DEF SweepIsEarly
  <2>3. CASE ~Retryable /\ ~(pending # {} /\ ~HasRetry)
    BY <1>3, <1>4, <2>3 DEF RunSweep
  <2>4. QED
    BY <2>1, <2>2, <2>3
<1>5. QED
  BY <1>2, <1>3, <1>4

LEMMA FirstStep ==
    ASSUME TypeInv, restarts = 0 => FirstLife, [Next]_vars, restarts' = 0
    PROVE  restarts = 0 /\ FirstLife /\ FirstLife'
<1>1. restarts \in Nat
  BY SyncConstants DEF TypeInv, TypeOK
<1>2. restarts' = restarts \/ Restart
  BY DEF Next, Command, Begin, EnterExec, Exec, ExecRefused, CommandEnds, Exited, ConfirmOk,
     ConfirmLost, ConfirmPending, StreamBroken, CompleteTool, FailTool, CancelTool,
     KillRecovered, RecoveredEnds, RecoveredUnsettled, ConfirmEnds, Retry, RetryCompletes, RetryLoses, RetryFails,
     SweepCompletes, SweepFails, RecoveryPulls, RecoveryCompletes, RecoveryLoses, RecoveryFails,
     Joined, Completes, Loses, PullChecked, Pulled, AlarmRetries, AlarmSweeps, BootSweeps,
     BackoffElapses, ContainerReplaced, Untouched, vars
<1>3. ~Restart /\ restarts = 0 /\ FirstLife
  BY <1>1, <1>2 DEF Restart
<1> USE <1>3 DEF durable, world, memory, retriers, journal, Untouched
<1>4. "alarm" \in Workers /\ "boot" \in Workers /\ retry \in Rows
      /\ pull \in [Tools \cup Workers -> Pulls]
  BY DEF Workers, TypeInv, TypeOK, Rows, Runtimes, Pulls
<1>5. ASSUME NEW t \in Tools, Command(t), ~sweep PROVE FirstLife'
  BY <1>5, CommandFirst
<1>6. ASSUME NEW w \in Workers, Retry(w), ~sweep PROVE FirstLife'
  BY <1>6, RetryFirst
\* What leaves the calls, the rows and the retriers alone.
<1>7. ASSUME CallsKept, UNCHANGED <<journal, work, sweep>>,
             HasRetry' <=> HasRetry, retry'.rt = retry.rt, Retryable' => Retryable \/ ~sweep,
             pull'["alarm"].rt = pull["alarm"].rt,
             pull'["alarm"].step = "off" <=> pull["alarm"].step = "off"
      PROVE  FirstLife'
  <2>1. SweepIsEarly'
    BY <1>7 DEF FirstLife, SweepIsEarly
  <2>2. UNCHANGED <<phase, pending>>
    BY <1>7 DEF CallsKept
  <2>3. AlarmKeepsIntent'
    BY <1>7, <2>2, StaysLost DEF FirstLife, AlarmKeepsIntent
  <2>4. QED
    BY <1>7, <2>1, <2>3, AlarmWorks
<1>8. ASSUME NEW p \in Tools \cup Workers, PullChecked(p) \/ Pulled(p) PROVE FirstLife'
  <2>1. pull[p].step # "off" /\ UNCHANGED <<journal, work, sweep, retry>> /\ CallsKept
    BY <1>8 DEF PullChecked, Pulled, CallsKept
  <2>2. PICK step \in {"pull", "recheck"} : pull' = [pull EXCEPT ![p].step = step]
    BY <1>8 DEF PullChecked, Pulled
  <2>3. /\ pull'["alarm"].rt = pull["alarm"].rt
        /\ pull'["alarm"].step = "off" <=> pull["alarm"].step = "off"
    BY <1>4, <2>1, <2>2 DEF Pulls
  <2>4. QED
    BY <1>7, <2>1, <2>3 DEF HasRetry, Retryable
<1>9. CASE AlarmRetries /\ ~sweep
  BY <1>9, AlarmTakesUp DEF AlarmRetries, CallsKept
<1>10. CASE AlarmSweeps /\ ~sweep
  BY <1>10, AlarmTakesUp DEF AlarmSweeps, CallsKept
<1>11. CASE BackoffElapses /\ ~sweep
  <2>1. retry' = [retry EXCEPT !.due = TRUE]
        /\ UNCHANGED <<journal, work, sweep, pull>> /\ CallsKept
    BY <1>11 DEF BackoffElapses, CallsKept
  <2>2. retry'.rt = retry.rt /\ (HasRetry' <=> HasRetry)
    BY <1>4, <2>1 DEF Rows, HasRetry
  <2>3. QED
    BY <1>7, <1>11, <2>1, <2>2
<1>12. CASE ContainerReplaced
  BY <1>7, <1>12 DEF ContainerReplaced, HasRetry, Retryable, CallsKept
\* The sweep of a command's end comes before its row can be due.
<1>13. CASE BootSweeps
  <2>1. HasRetry /\ ~Retryable /\ work["boot"].job = "off"
    BY <1>13 DEF BootSweeps, FirstLife, SweepIsEarly
  <2>2. UNCHANGED <<journal, phase, pending, retry, work, pull>> /\ CallsKept /\ ~sweep'
    BY <1>13, <2>1 DEF BootSweeps, RunSweep, CallsKept
  <2>3. AlarmKeepsIntent' /\ (HasRetry' <=> HasRetry)
    BY <2>2, StaysLost DEF FirstLife, AlarmKeepsIntent, HasRetry
  <2>4. QED
    BY <2>2, <2>3, AlarmWorks DEF SweepIsEarly
<1>14. CASE UNCHANGED vars
  BY <1>7, <1>14 DEF vars, HasRetry, Retryable, CallsKept
<1>15. QED
  BY <1>5, <1>6, <1>8, <1>9, <1>10, <1>11, <1>12, <1>13, <1>14 DEF Next

LEMMA FirstInvariant == Spec => [](TypeInv /\ (restarts = 0 => FirstLife))
<1>1. Init => TypeInv /\ (restarts = 0 => FirstLife)
  BY InitTypes, InitFirst
<1>2. TypeInv /\ (restarts = 0 => FirstLife) /\ [Next]_vars =>
        (TypeInv /\ (restarts = 0 => FirstLife))'
  BY TypeStep, FirstStep
<1>3. QED
  BY <1>1, <1>2, PTL DEF Spec

\* Within one instance of the object, for any number of commands, attempts and
\* containers, the intent stored for a waiting command names the container that
\* ran it: a rearm takes the runtime from the attempt, and the attempt's is the
\* row's as long as no other command can write one.
THEOREM IntentsNameTheirRuntime == Spec => []IntentNamesItsRuntime
<1>1. (restarts = 0 => FirstLife) => IntentNamesItsRuntime
  BY DEF FirstLife, IntentNamed, IntentNamesItsRuntime
<1>2. QED
  BY FirstInvariant, <1>1, PTL

-----------------------------------------------------------------------------
(* What a pull within the first instance has brought.                         *)

\* What a pull is made for has ended in the container.
EndedIfOver == \A t \in Tools : phase[t] = "confirming" \/ t \in pending => command[t] = "finished"

\* A pull that has finished, and whose container is still there, brought the
\* changes of the command that ran in it.
Brought(p, t) == pull[p].step = "recheck" /\ ran[t] = container => t \in saved

PullsBring ==
    /\ \A t \in Tools : phase[t] = "confirming" => pull[t].rt = ran[t] /\ Brought(t, t)
    /\ \A t \in pending : Brought("alarm", t)

SucceededIsSaved == \A t \in Tools : phase[t] = "succeeded" => t \in saved

SavedInv == EndedIfOver /\ PullsBring /\ SucceededIsSaved

\* Without a cancellation a lost container fails the row that waits, so a row that
\* waits has its intent, no sweep looks for it without one, and what is completed
\* was pulled from the right container.
NeverCancelled ==
    /\ marked = {} /\ (pending # {} => HasRetry) /\ work["alarm"].job # "sweep"
    /\ CompletedIsSaved

LEMMA InitSaved == Init => SavedInv /\ NeverCancelled
BY SyncConstants DEF Init, SavedInv, EndedIfOver, PullsBring, Brought,
   SucceededIsSaved, NeverCancelled, CompletedIsSaved, NoPull, Idle, Workers

\* A step that starts no pull's last check keeps what the pulls have brought, also
\* when the container is replaced.
LEMMA SavedKept ==
    ASSUME TypeInv, RanBefore, SavedInv, UNCHANGED <<ran, command, phase>>, saved \subseteq saved',
           container' \in {container, container + 1}, pending' \subseteq pending,
           \A t \in Tools : pull'[t].rt = pull[t].rt,
           \A p \in Tools \cup {"alarm"} : pull'[p].step = "recheck" => pull[p].step = "recheck"
    PROVE  SavedInv'
<1>1. container \in Nat /\ \A t \in Tools : ran[t] \in Nat /\ ran[t] <= container
  BY SyncConstants DEF TypeInv, TypeOK, Containers, RanBefore
<1>2. \A t \in Tools : ran'[t] = container' => ran[t] = container
  BY <1>1
<1>3. pending \subseteq Tools
  BY DEF TypeInv, TypeOK
<1>4. EndedIfOver' /\ SucceededIsSaved'
  BY DEF SavedInv, EndedIfOver, SucceededIsSaved
<1>5. PullsBring'
  BY <1>2, <1>3 DEF SavedInv, PullsBring, Brought
<1>6. QED
  BY <1>4, <1>5 DEF SavedInv

\* A step of one call.
LEMMA CallKeepsSaved ==
    ASSUME TypeInv, SavedInv, NEW t \in Tools, UNCHANGED <<saved, container>>,
           \A u \in Tools \ {t} : /\ ran'[u] = ran[u] /\ command'[u] = command[u]
                                  /\ phase'[u] = phase[u] /\ pull'[u] = pull[u],
           pull'["alarm"] = pull["alarm"], pending' \subseteq pending \cup {t},
           phase'[t] = "confirming" \/ t \in pending' => command'[t] = "finished",
           phase'[t] = "confirming" => pull'[t].rt = ran'[t] /\ Brought(t, t)',
           t \in pending' => Brought("alarm", t)',
           phase'[t] = "succeeded" => t \in saved
    PROVE  SavedInv'
<1>1. pending \subseteq Tools
  BY DEF TypeInv, TypeOK
<1>2. SucceededIsSaved'
  BY DEF SavedInv, SucceededIsSaved
<1>3. EndedIfOver'
  BY DEF SavedInv, EndedIfOver
<1>4. ASSUME NEW u \in Tools, phase'[u] = "confirming" PROVE pull'[u].rt = ran'[u] /\ Brought(u, u)'
  BY <1>4 DEF SavedInv, PullsBring, Brought
<1>5. ASSUME NEW u \in pending' PROVE Brought("alarm", u)'
  BY <1>1, <1>5 DEF SavedInv, PullsBring, Brought
<1>6. QED
  BY <1>2, <1>3, <1>4, <1>5 DEF SavedInv, PullsBring

LEMMA CommandSaved ==
    ASSUME TypeInv, FirstLife, SavedInv, NEW t \in Tools, Command(t)
    PROVE  SavedInv'
<1> USE DEF durable, world, memory, retriers, journal
<1>1. /\ phase \in [Tools -> {"idle", "executing", "confirming", "succeeded", "errored"}]
      /\ command \in [Tools -> {"none", "running", "finished"}] /\ pending \subseteq Tools
      /\ ran \in [Tools -> 0..MaxContainers] /\ container \in Containers
      /\ pull \in [Tools \cup Workers -> Pulls] /\ "alarm" \in Workers /\ "alarm" \notin Tools
  BY SyncConstants DEF TypeInv, TypeOK, FirstLife, NoneLeftOver, Streaming, InOperation, Pulls,
     Runtimes, Workers
<1>2. t \in pending =>
        phase[t] \in {"errored", "succeeded"} /\ command[t] = "finished" /\ Brought("alarm", t)
  BY DEF FirstLife, WaitingIsOver, SavedInv, EndedIfOver, PullsBring
<1>3. /\ ran[t] <= container /\ (phase[t] = "succeeded" => t \in saved)
      /\ phase[t] = "confirming" =>
            command[t] = "finished" /\ pull[t].rt = ran[t] /\ Brought(t, t)
  BY DEF SavedInv, FirstLife, RanBefore, SucceededIsSaved, EndedIfOver, PullsBring
<1>4. CASE Begin(t) \/ CompleteTool(t) \/ FailTool(t) \/ CancelTool(t) \/ KillRecovered(t)
               \/ RecoveredUnsettled(t)
  <2>1. UNCHANGED <<world, phase, pull>> /\ pending' \subseteq pending
    BY <1>4 DEF Begin, CompleteTool, FailTool, CancelTool, KillRecovered, RecoveredUnsettled,
       FailUnmarked, FailRow
  <2>2. QED
    BY <2>1, SavedKept DEF FirstLife
<1>5. CASE EnterExec(t) \/ ExecRefused(t)
  BY <1>1, <1>5 DEF EnterExec, ExecRefused
<1>6. CASE Exec(t)
  <2>1. t \notin pending /\ pending' = pending /\ UNCHANGED <<saved, container, pull>>
    BY <1>1, <1>6 DEF Exec, Blocked
  <2>2. phase' = [phase EXCEPT ![t] = "executing"]
    BY <1>6 DEF Exec
  <2>3. /\ ran' = ran \/ ran' = [ran EXCEPT ![t] = container]
        /\ command' = command \/ command' = [command EXCEPT ![t] = "running"]
    BY <1>6 DEF Exec
  <2>4. QED
    BY <1>1, <2>1, <2>2, <2>3, CallKeepsSaved
<1>7. CASE CommandEnds(t)
  <2>1. /\ command' = [command EXCEPT ![t] = "finished"] /\ UNCHANGED <<ran, saved, container>>
        /\ UNCHANGED <<phase, pending, pull>>
    BY <1>7 DEF CommandEnds
  <2>2. (Brought(t, t)' <=> Brought(t, t)) /\ (Brought("alarm", t)' <=> Brought("alarm", t))
    BY <2>1 DEF Brought
  <2>3. QED
    BY <1>1, <1>2, <1>3, <2>1, <2>2, CallKeepsSaved
<1>8. CASE Exited(t)
  <2>1. /\ phase' = [phase EXCEPT ![t] = "confirming"] /\ command[t] = "finished"
        /\ pull' = [pull EXCEPT ![t] = [step |-> "check", rt |-> ran[t]]]
        /\ UNCHANGED <<ran, command, saved, container, pending>>
    BY <1>8 DEF Exited, StartPull
  <2>2. pull'[t] = [step |-> "check", rt |-> ran[t]]
    BY <1>1, <2>1
  <2>3. Brought(t, t)' /\ pull'[t].rt = ran'[t] /\ t \notin pending
    BY <1>2, <1>8, <2>1, <2>2 DEF Brought, Exited
  <2>4. QED
    BY <1>1, <1>3, <2>1, <2>3, CallKeepsSaved
\* Every end of a confirmation takes the pull away.
<1>9. ASSUME NEW outcome \in {"succeeded", "errored"}, ConfirmEnds(t, outcome),
             outcome = "succeeded" => t \in saved,
             pending' \subseteq pending \cup {t}, t \in pending' => Brought("alarm", t)',
             phase[t] = "confirming"
      PROVE  SavedInv'
  <2>1. /\ phase' = [phase EXCEPT ![t] = outcome] /\ pull' = [pull EXCEPT ![t] = NoPull]
        /\ UNCHANGED <<ran, command, saved, container>>
    BY <1>9 DEF ConfirmEnds
  <2>2. phase'[t] = outcome /\ pull'["alarm"] = pull["alarm"]
    BY <1>1, <2>1
  <2>3. QED
    BY <1>1, <1>3, <1>9, <2>1, <2>2, CallKeepsSaved
\* A call that begins to wait finds the alarm with nothing to pull.
<1>10. ASSUME NEW rt, RegisterPending(t, rt), UNCHANGED <<ran, container, saved>>,
              pull'["alarm"] = pull["alarm"],
              phase[t] \in InOperation \/ (t \in killing /\ ran[t] = container)
       PROVE  pending' = {t} /\ pending = {} /\ Brought("alarm", t)'
  BY <1>10, RegistersAlone DEF RegisterPending, Brought
<1>11. CASE ConfirmOk(t)
  <2>1. /\ phase[t] = "confirming" /\ ConfirmEnds(t, "succeeded") /\ pending' = pending
        /\ pull[t].step = "recheck" /\ pull[t].rt \in {None, container}
    BY <1>11 DEF ConfirmOk, PullOk, FromOrigin
  <2>2. ran[t] # None /\ t \notin pending
    BY <1>1, <1>2, <2>1, SyncConstants
  <2>3. t \in saved
    BY <1>3, <2>1, <2>2 DEF Brought
  <2>4. QED
    BY <1>9, <2>1, <2>2, <2>3
<1>12. CASE ConfirmLost(t)
  BY <1>2, <1>9, <1>12 DEF ConfirmLost
<1>13. CASE ConfirmPending(t)
  <2>1. phase[t] = "confirming" /\ ConfirmEnds(t, "errored") /\ t \notin pending
    BY <1>2, <1>13 DEF ConfirmPending
  <2>2. pull'["alarm"] = pull["alarm"] /\ UNCHANGED <<ran, container, saved>>
    BY <1>1, <2>1 DEF ConfirmEnds
  <2>3. RegisterPending(t, ran[t]) \/ pending' = pending
    BY <1>13 DEF ConfirmPending
  <2>4. QED
    BY <1>9, <1>10, <2>1, <2>2, <2>3 DEF InOperation
<1>14. CASE StreamBroken(t)
  <2>1. /\ phase' = [phase EXCEPT ![t] = "errored"] /\ UNCHANGED <<ran, saved, container, pull>>
        /\ phase[t] = "executing"
    BY <1>14 DEF StreamBroken
  <2>2. t \notin pending
    BY <1>2, <2>1
  <2>3. \/ command' = [command EXCEPT ![t] = "finished"] /\ RegisterPending(t, ran[t])
        \/ command' = command /\ pending' = pending
    BY <1>14 DEF StreamBroken
  <2>4. \/ command' = [command EXCEPT ![t] = "finished"] /\ pending' = {t} /\ Brought("alarm", t)'
        \/ command' = command /\ pending' = pending
    BY <1>10, <2>1, <2>3 DEF InOperation
  <2>5. QED
    BY <1>1, <1>3, <2>1, <2>2, <2>4, CallKeepsSaved
<1>15. CASE RecoveredEnds(t)
  <2>1. /\ t \in killing /\ ran[t] = container /\ command[t] = "finished"
        /\ UNCHANGED <<container, ran, command, phase, pull>>
    BY <1>15 DEF RecoveredEnds
  <2>2. CASE RegisterPending(t, container) /\ UNCHANGED <<status, marked, saved>>
    <3>1. pending' = {t} /\ Brought("alarm", t)'
      BY <1>10, <2>1, <2>2
    <3>2. QED
      BY <1>3, <2>1, <2>2, <3>1, CallKeepsSaved DEF Brought
  <2>3. CASE saved' = saved \cup {t} /\ FailCancelled(t)
    <3>1. pending' = pending
      BY <2>3 DEF FailCancelled, FailUnmarked, FailRow
    <3>2. QED
      BY <2>1, <2>3, <3>1, SavedKept DEF FirstLife
  <2>4. QED
    BY <1>15, <2>2, <2>3 DEF RecoveredEnds
<1>16. QED
  BY <1>4, <1>5, <1>6, <1>7, <1>8, <1>11, <1>12, <1>13, <1>14, <1>15 DEF Command

\* What is not a command's step: a pull's, the alarm's, the clock's or the
\* platform's. None of them ends a pull with its last check but Pulled.
LEMMA RetrierMoves ==
    ASSUME TypeInv, FirstLife, NEW w \in Workers, Retry(w), ~sweep
    PROVE  /\ UNCHANGED <<ran, command, phase, saved>>
           /\ container' \in {container, container + 1} /\ pending' \subseteq pending
           /\ \A t \in Tools : pull'[t] = pull[t]
           /\ pull'["alarm"].step = "recheck" => pull["alarm"].step = "recheck"
<1> USE DEF durable, world, memory, retriers, journal
<1>1. /\ pull \in [Tools \cup Workers -> Pulls] /\ NoPull.step = "off"
      /\ w \notin Tools /\ w \in {"alarm", "boot"} /\ "alarm" \in Workers
      /\ work["boot"].job = "off" /\ work["alarm"].job # "join"
  BY SyncConstants DEF FirstLife, AlarmKeepsIntent, TypeInv, TypeOK, Pulls, Runtimes, NoPull,
     Workers
<1>2. UNCHANGED <<ran, command, phase, saved>> /\ container' \in {container, container + 1}
  BY DEF Retry, RetryCompletes, RetryLoses, RetryFails, SweepCompletes, SweepFails,
     RecoveryPulls, RecoveryCompletes, RecoveryLoses, RecoveryFails, Joined, Completes, Loses
<1>3. pending' \subseteq pending
  BY DEF Retry, RetryCompletes, RetryLoses, RetryFails, SweepCompletes, SweepFails,
     RecoveryPulls, RecoveryCompletes, RecoveryLoses, RecoveryFails, Joined, Completes, Loses,
     CompletePending, FailPending
<1>4. StopPull(w) \/ StartPull(w, retry.rt)
  BY <1>1 DEF Retry, RetryCompletes, RetryLoses, RetryFails, SweepCompletes, SweepFails,
     RecoveryPulls, RecoveryCompletes, RecoveryLoses, RecoveryFails, Joined, Completes, Loses
<1>5. ASSUME NEW p \in Pulls, p.step # "recheck", pull' = [pull EXCEPT ![w] = p]
      PROVE  /\ \A t \in Tools : pull'[t] = pull[t]
             /\ pull'["alarm"].step = "recheck" => pull["alarm"].step = "recheck"
  BY <1>1, <1>5
<1>6. NoPull \in Pulls /\ [step |-> "check", rt |-> retry.rt] \in Pulls
  BY RecordTypes DEF TypeInv, TypeOK, Pulls, Runtimes
<1>7. QED
  BY <1>1, <1>2, <1>3, <1>4, <1>5, <1>6 DEF StopPull, StartPull

LEMMA OtherMoves ==
    ASSUME TypeInv, FirstLife,
           (AlarmRetries \/ AlarmSweeps \/ BootSweeps \/ BackoffElapses \/ ContainerReplaced)
               \/ UNCHANGED vars
    PROVE  /\ UNCHANGED <<journal, ran, command, phase, saved>> /\ (HasRetry' <=> HasRetry)
           /\ container' \in {container, container + 1}
           /\ \A t \in Tools : pull'[t] = pull[t]
           /\ pull'["alarm"].step = "recheck" => pull["alarm"].step = "recheck"
<1> USE DEF durable, world, memory, retriers, journal, Untouched
<1>1. /\ pull \in [Tools \cup Workers -> Pulls] /\ "alarm" \in Workers /\ "alarm" \notin Tools
      /\ "boot" \in Workers /\ "boot" \notin Tools /\ retry \in Rows
  BY SyncConstants DEF TypeInv, TypeOK, Pulls, Runtimes, Workers, Rows
<1>2. UNCHANGED <<journal, ran, command, phase, saved>> /\ container' \in {container, container + 1}
  BY DEF AlarmRetries, AlarmSweeps, BootSweeps, BackoffElapses, ContainerReplaced, vars
<1>3. HasRetry' <=> HasRetry
  BY <1>1 DEF AlarmRetries, AlarmSweeps, BootSweeps, BackoffElapses, ContainerReplaced, vars,
     HasRetry, Rows
<1>4. \/ pull' = pull
      \/ \E w \in Workers, step \in {"check", "pull"}, rt \in Runtimes :
            pull' = [pull EXCEPT ![w] = [step |-> step, rt |-> rt]]
  <2>1. retry.rt \in Runtimes /\ None \in Runtimes
    BY <1>1 DEF Rows, Runtimes
  <2>2. ASSUME NEW w \in Workers, NEW sweeping \in BOOLEAN, RunRetry(w, sweeping)
        PROVE  pull' = pull \/ pull' = [pull EXCEPT ![w] = [step |-> "check", rt |-> retry.rt]]
    BY <2>2 DEF RunRetry, StartPull
  <2>3. ASSUME NEW w \in Workers, RunSweep(w)
        PROVE  \/ pull' = pull \/ pull' = [pull EXCEPT ![w] = [step |-> "check", rt |-> retry.rt]]
               \/ pull' = [pull EXCEPT ![w] = [step |-> "pull", rt |-> None]]
    <3>1. CASE Retryable
      BY <2>2, <2>3, <3>1 DEF RunSweep
    <3>2. CASE ~Retryable
      BY <2>3, <3>2 DEF RunSweep
    <3>3. QED
      BY <3>1, <3>2
  <2>4. CASE AlarmRetries
    BY <1>1, <2>1, <2>2, <2>4 DEF AlarmRetries
  <2>5. CASE AlarmSweeps
    BY <1>1, <2>1, <2>3, <2>5 DEF AlarmSweeps
  <2>6. CASE BootSweeps
    BY <1>1, <2>1, <2>3, <2>6 DEF BootSweeps
  <2>7. CASE BackoffElapses \/ ContainerReplaced \/ UNCHANGED vars
    BY <2>7 DEF BackoffElapses, ContainerReplaced, vars
  <2>8. QED
    BY <2>4, <2>5, <2>6, <2>7
<1>5. /\ \A t \in Tools : pull'[t] = pull[t]
      /\ pull'["alarm"].step = "recheck" => pull["alarm"].step = "recheck"
  <2>1. CASE pull' = pull
    BY <2>1
  <2>2. CASE ~(pull' = pull)
    <3>1. PICK w \in Workers, step \in {"check", "pull"}, rt \in Runtimes :
                pull' = [pull EXCEPT ![w] = [step |-> step, rt |-> rt]]
      BY <1>4, <2>2
    <3>2. w \notin Tools
      BY SyncConstants
    <3>3. QED
      BY <1>1, <3>1, <3>2
  <2>3. QED
    BY <2>1, <2>2
<1>6. QED
  BY <1>2, <1>3, <1>5

LEMMA PulledSaved ==
    ASSUME TypeInv, RanBefore, SavedInv, NEW p \in Tools \cup Workers, PullChecked(p) \/ Pulled(p)
    PROVE  SavedInv'
<1>1. /\ pull \in [Tools \cup Workers -> Pulls] /\ "alarm" \in Workers /\ pending \subseteq Tools
      /\ UNCHANGED <<ran, command, phase, pending, container>>
  BY DEF TypeInv, TypeOK, Pulls, Runtimes, Workers, PullChecked, Pulled, durable, journal,
     memory, world
<1>2. CASE PullChecked(p)
  <2>1. pull' = [pull EXCEPT ![p].step = "pull"] /\ saved' = saved
    BY <1>2 DEF PullChecked, world
  <2>2. /\ \A t \in Tools : pull'[t].rt = pull[t].rt
        /\ \A q \in Tools \cup {"alarm"} : pull'[q].step = "recheck" => pull[q].step = "recheck"
    BY <1>1, <2>1 DEF Pulls
  <2>3. QED
    BY <1>1, <2>1, <2>2, SavedKept
<1>3. CASE Pulled(p)
  <2>1. pull' = [pull EXCEPT ![p].step = "recheck"] /\ saved' = saved \cup Arrived
    BY <1>3 DEF Pulled
  <2>2. /\ \A t \in Tools : pull'[t].rt = pull[t].rt
        /\ \A q \in Tools \cup {"alarm"} : pull'[q].step = "recheck" => pull[q].step = "recheck" \/ q = p
    BY <1>1, <2>1 DEF Pulls
  <2>3. \A t \in Tools : command[t] = "finished" /\ ran[t] = container => t \in saved'
    BY <2>1 DEF Arrived
  <2>4. EndedIfOver' /\ SucceededIsSaved'
    BY <1>1, <2>1 DEF SavedInv, EndedIfOver, SucceededIsSaved
  <2>5. PullsBring'
    BY <1>1, <2>1, <2>2, <2>3 DEF SavedInv, EndedIfOver, PullsBring, Brought
  <2>6. QED
    BY <2>4, <2>5 DEF SavedInv
<1>4. QED
  BY <1>2, <1>3

LEMMA SavedStep ==
    ASSUME TypeInv, FirstLife, SavedInv, [Next]_vars, ~Restart
    PROVE  SavedInv'
<1>1. ASSUME NEW t \in Tools, Command(t) PROVE SavedInv'
  BY <1>1, CommandSaved
<1>2. ASSUME NEW w \in Workers, Retry(w), ~sweep PROVE SavedInv'
  BY <1>2, RetrierMoves, SavedKept DEF FirstLife
<1>3. ASSUME NEW p \in Tools \cup Workers, PullChecked(p) \/ Pulled(p) PROVE SavedInv'
  BY <1>3, PulledSaved DEF FirstLife
<1>4. CASE (AlarmRetries \/ AlarmSweeps \/ BootSweeps \/ BackoffElapses \/ ContainerReplaced)
               \/ UNCHANGED vars
  BY <1>4, OtherMoves, SavedKept DEF journal, FirstLife
<1>5. QED
  BY <1>1, <1>2, <1>3, <1>4 DEF Next

\* A retrier with a row ends it by the container that ran what waits.
LEMMA AlarmIsRight ==
    ASSUME TypeInv, FirstLife, SavedInv, NEW t \in pending, HasRetry,
           work["alarm"].job \in {"retry", "recover"}
    PROVE  /\ PullOk("alarm") => t \in saved
           /\ PullLost("alarm") => ran[t] # container
<1>1. t \in Tools /\ ran[t] # None /\ retry.rt = ran[t]
  BY SyncConstants DEF TypeInv, TypeOK, FirstLife, IntentNamed
<1>2. pull["alarm"].step # "off" => pull["alarm"].rt = ran[t]
  BY <1>1 DEF FirstLife, AlarmKeepsIntent
<1>3. Brought("alarm", t)
  BY DEF SavedInv, PullsBring
<1>4. QED
  BY <1>1, <1>2, <1>3 DEF PullOk, PullLost, FromOrigin, Brought

LEMMA CommandUncancelled ==
    ASSUME TypeInv, FirstLife, SavedInv, NeverCancelled, Cancellable = {},
           NEW t \in Tools, Command(t)
    PROVE  NeverCancelled'
<1> USE DEF durable, world, memory, retriers, journal
<1>1. /\ phase[t] # "interrupted" /\ killing = {} /\ UNCHANGED work
      /\ status \in [Tools -> {"absent", "running", "completed", "failed"}]
  BY DEF FirstLife, NoneLeftOver, TypeInv, TypeOK, Command, Begin, EnterExec, Exec, ExecRefused,
     CommandEnds, Exited, ConfirmOk, ConfirmLost, ConfirmPending, StreamBroken, CompleteTool,
     FailTool, CancelTool, KillRecovered, RecoveredEnds, RecoveredUnsettled, ConfirmEnds
<1>2. marked' = {}
  BY <1>1 DEF NeverCancelled, Command, Begin, EnterExec, Exec, ExecRefused, CommandEnds, Exited,
     ConfirmOk, ConfirmLost, ConfirmPending, StreamBroken, CompleteTool, FailTool, CancelTool,
     KillRecovered, RecoveredEnds, RecoveredUnsettled, RegisterPending, FailCancelled,
     FailUnmarked, FailRow
<1>3. ASSUME NEW rt, SchedulePending(rt) PROVE HasRetry'
  BY <1>3 DEF SchedulePending, HasRetry, Intent
<1>4. HasRetry' \/ (UNCHANGED retry /\ pending' \subseteq pending)
  BY <1>1, <1>3 DEF Command, Begin, EnterExec, Exec, ExecRefused, CommandEnds, Exited,
     ConfirmOk, ConfirmLost, ConfirmPending, StreamBroken, CompleteTool, FailTool, CancelTool,
     KillRecovered, RecoveredEnds, RecoveredUnsettled, RegisterPending, FailCancelled,
     FailUnmarked, FailRow
<1>5. pending' # {} => HasRetry'
  BY <1>4 DEF NeverCancelled, HasRetry
<1>6. saved' = saved
  BY <1>1 DEF Command, Begin, EnterExec, Exec, ExecRefused, CommandEnds, Exited, ConfirmOk,
     ConfirmLost, ConfirmPending, StreamBroken, CompleteTool, FailTool, CancelTool,
     KillRecovered, RecoveredEnds, RecoveredUnsettled, ConfirmEnds
<1>7. \A u \in Tools : status'[u] = "completed" =>
         status[u] = "completed" \/ (u = t /\ phase[t] = "succeeded")
  <2>1. \/ status' = status \/ status' = [status EXCEPT ![t] = "running"]
        \/ status' = [status EXCEPT ![t] = "failed"]
        \/ status' = [status EXCEPT ![t] = "completed"] /\ phase[t] = "succeeded"
    BY <1>1 DEF Command, Begin, EnterExec, Exec, ExecRefused, CommandEnds, Exited, ConfirmOk,
       ConfirmLost, ConfirmPending, StreamBroken, CompleteTool, FailTool, CancelTool,
       KillRecovered, RecoveredEnds,
     RecoveredUnsettled, FailCancelled, FailUnmarked, FailRow
  <2>2. QED
    BY <1>1, <2>1
<1>8. CompletedIsSaved'
  BY <1>6, <1>7 DEF NeverCancelled, CompletedIsSaved, SavedInv, SucceededIsSaved
<1>9. QED
  BY <1>1, <1>2, <1>5, <1>8 DEF NeverCancelled

LEMMA RetryUncancelled ==
    ASSUME TypeInv, FirstLife, SavedInv, NeverCancelled, NEW w \in Workers, Retry(w), ~sweep
    PROVE  NeverCancelled'
<1> USE DEF durable, world, memory, retriers, journal
<1>1. /\ w \in {"alarm", "boot"} /\ work["boot"].job = "off" /\ work["alarm"].job # "join"
      /\ status \in [Tools -> {"absent", "running", "completed", "failed"}] /\ pending \subseteq Tools
      /\ work \in [Workers -> Works] /\ retry \in Rows /\ "alarm" \in Workers
  BY DEF Workers, FirstLife, AlarmKeepsIntent, TypeInv, TypeOK, Works, Jobs, Runtimes, Rows
<1>2. w = "alarm"
  BY <1>1 DEF Retry, RetryCompletes, RetryLoses, RetryFails, SweepCompletes, SweepFails,
     RecoveryPulls, RecoveryCompletes, RecoveryLoses, RecoveryFails, Joined
<1>3. saved' = saved /\ marked = {} /\ work["alarm"].job # "sweep" /\ Idle.job = "off"
  BY RetrierMoves DEF NeverCancelled, Idle
<1>4. work'["alarm"].job # "sweep"
  <2>1. CASE \E recovered, moreWakes : EndWork(w, recovered, moreWakes)
    BY <1>1, <1>2, <1>3, <2>1 DEF EndWork
  <2>2. CASE \E attempt, sweeping : StartRecovery(w, attempt, sweeping)
    BY <1>1, <1>2, <2>2 DEF StartRecovery, SetWork
  <2>3. CASE work' = work
    BY <1>3, <2>3
  <2>4. QED
    BY <2>1, <2>2, <2>3 DEF Retry, RetryCompletes, RetryLoses, RetryFails, SweepCompletes,
       SweepFails, RecoveryPulls, RecoveryCompletes, RecoveryLoses, RecoveryFails, Joined,
       Completes, Loses
<1>5. ASSUME UNCHANGED <<status, marked, pending>>, pending # {} /\ HasRetry => HasRetry'
      PROVE  NeverCancelled'
  BY <1>3, <1>5, <1>4 DEF NeverCancelled, CompletedIsSaved
<1>6. CASE RetryCompletes(w) \/ RecoveryCompletes(w)
  <2>1. /\ work["alarm"].job \in {"retry", "recover"} /\ PullOk("alarm") /\ CompletePending
    BY <1>2, <1>6 DEF RetryCompletes, RecoveryCompletes, Completes
  <2>2. HasRetry
    BY <2>1 DEF FirstLife, AlarmKeepsIntent
  <2>3. \A t \in pending : t \in saved
    BY <2>1, <2>2, AlarmIsRight
  <2>4. QED
    BY <1>3, <1>4, <2>1, <2>3 DEF CompletePending, NeverCancelled, CompletedIsSaved
<1>7. CASE RetryLoses(w) \/ RecoveryLoses(w)
  <2>1. FailPending
    BY <1>7 DEF RetryLoses, RecoveryLoses, Loses
  <2>2. QED
    BY <1>1, <1>3, <1>4, <2>1 DEF FailPending, NeverCancelled, CompletedIsSaved
<1>8. CASE SweepCompletes(w) \/ SweepFails(w)
  BY <1>2, <1>3, <1>8 DEF SweepCompletes, SweepFails
<1>9. CASE RetryFails(w)
  <2>1. UNCHANGED <<status, marked, pending>> /\ work["alarm"].attempt \in Nat
    BY <1>1, <1>9, SyncConstants DEF RetryFails, Works
  <2>2. /\ HasRetry
        /\ \/ retry' = [attempt |-> work["alarm"].attempt + 1, rt |-> pull["alarm"].rt,
                        exhausted |-> FALSE, due |-> FALSE]
           \/ retry' = [retry EXCEPT !.exhausted = TRUE]
    BY <1>2, <1>9 DEF RetryFails, FirstLife, AlarmKeepsIntent
  <2>3. retry'.attempt = work["alarm"].attempt + 1 \/ retry'.attempt = retry.attempt
    BY <1>1, <2>2 DEF Rows
  <2>4. HasRetry'
    BY <2>1, <2>2, <2>3 DEF HasRetry
  <2>5. QED
    BY <1>5, <2>1, <2>4
<1>10. CASE RecoveryPulls(w) \/ RecoveryFails(w) \/ Joined(w)
  <2>1. UNCHANGED <<status, marked, pending, retry>>
    BY <1>10 DEF RecoveryPulls, RecoveryFails, Joined
  <2>2. QED
    BY <1>5, <2>1 DEF HasRetry
<1>11. QED
  BY <1>6, <1>7, <1>8, <1>9, <1>10 DEF Retry

LEMMA UncancelledStep ==
    ASSUME TypeInv, FirstLife, SavedInv, NeverCancelled, Cancellable = {}, [Next]_vars, ~Restart
    PROVE  NeverCancelled'
<1>1. ASSUME NEW t \in Tools, Command(t) PROVE NeverCancelled'
  BY <1>1, CommandUncancelled
<1>2. ASSUME NEW w \in Workers, Retry(w), ~sweep PROVE NeverCancelled'
  BY <1>2, RetryUncancelled
<1>3. ASSUME NEW p \in Tools \cup Workers, PullChecked(p) \/ Pulled(p) PROVE NeverCancelled'
  BY <1>3 DEF PullChecked, Pulled, durable, journal, world, retriers, NeverCancelled,
     CompletedIsSaved, HasRetry
<1>4. CASE (AlarmRetries \/ AlarmSweeps \/ BootSweeps \/ BackoffElapses \/ ContainerReplaced)
               \/ UNCHANGED vars
  <2>1. ASSUME NEW w \in Workers, NEW sweeping \in BOOLEAN, RunRetry(w, sweeping)
        PROVE  work'["alarm"].job # "sweep"
    <3>1. work \in [Workers -> Works]
      BY DEF TypeInv, TypeOK, Works, Jobs
    <3>2. \/ SetWork(w, "retry", retry.attempt, sweeping)
          \/ SetWork(w, "join", 0, sweeping)
          \/ SetWork(w, "recover", 0, sweeping)
      BY <2>1 DEF RunRetry, StartRecovery
    <3>3. QED
      BY <3>1, <3>2 DEF SetWork, NeverCancelled, Workers
  <2>2. ASSUME NEW w \in Workers, RunSweep(w) PROVE work'["alarm"].job # "sweep"
    BY <2>1, <2>2 DEF RunSweep, NeverCancelled
  <2>3. work'["alarm"].job # "sweep"
    BY <1>4, <2>1, <2>2 DEF AlarmRetries, AlarmSweeps, BootSweeps, BackoffElapses,
       ContainerReplaced, retriers, vars, NeverCancelled, Workers
  <2>4. QED
    BY <1>4, <2>3, OtherMoves DEF journal, NeverCancelled, CompletedIsSaved
<1>5. QED
  BY <1>1, <1>2, <1>3, <1>4 DEF Next

LEMMA SavedInvariant == Spec => [](restarts = 0 => SavedInv)
<1>1. Init => (restarts = 0 => SavedInv)
  BY InitSaved
<1>2. ASSUME TypeInv, restarts = 0 => FirstLife, restarts = 0 => SavedInv, [Next]_vars
      PROVE  (restarts = 0 => SavedInv)'
  <2>1. SUFFICES ASSUME restarts' = 0 PROVE SavedInv'
    OBVIOUS
  <2>2. restarts = 0 /\ FirstLife /\ ~Restart
    BY <1>2, <2>1, FirstStep DEF Restart
  <2>3. QED
    BY <1>2, <2>2, SavedStep
<1>3. QED
  BY <1>1, <1>2, FirstInvariant, PTL DEF Spec

\* Within one instance, if nobody cancels, a command that is reported as completed
\* had its changes pulled from the container it ran in, for any number of
\* commands, of failed and lost attempts and of containers. Neither hypothesis can
\* go: after a restart two retriers work on one row, and the row of a cancelled
\* command outlives the loss of its container.
THEOREM CompletedWasPulled ==
    ASSUME Cancellable = {}
    PROVE  Spec => [](restarts = 0 => CompletedIsSaved)
<1>1. Init => (restarts = 0 => NeverCancelled)
  BY InitSaved
<1>2. ASSUME TypeInv, restarts = 0 => FirstLife, restarts = 0 => SavedInv,
             restarts = 0 => NeverCancelled, [Next]_vars
      PROVE  (restarts = 0 => NeverCancelled)'
  <2>1. SUFFICES ASSUME restarts' = 0 PROVE NeverCancelled'
    OBVIOUS
  <2>2. restarts = 0 /\ FirstLife /\ ~Restart
    BY <1>2, <2>1, FirstStep DEF Restart
  <2>3. QED
    BY <1>2, <2>2, UncancelledStep
<1>3. (restarts = 0 => NeverCancelled) => (restarts = 0 => CompletedIsSaved)
  BY DEF NeverCancelled
<1>4. QED
  BY <1>1, <1>2, <1>3, FirstInvariant, SavedInvariant, PTL DEF Spec

\* Within one instance a waiting command is failed only when the container that
\* ran it is gone, cancelled or not: an attempt that cannot reach the container is
\* no proof of its loss.
THEOREM LostBeforeFailed ==
    Spec => [][ restarts = 0 =>
                \A t \in pending : status'[t] = "failed" => ran[t] # container ]_vars
<1>1. ASSUME TypeInv, restarts = 0 => FirstLife, restarts = 0 => SavedInv, [Next]_vars
      PROVE  [ restarts = 0 =>
               \A t \in pending : status'[t] = "failed" => ran[t] # container ]_vars
  <2>1. SUFFICES ASSUME restarts = 0, NEW t \in pending, status'[t] = "failed"
                 PROVE  ran[t] # container
    OBVIOUS
  <2> USE DEF durable, world, memory, retriers, journal, Untouched
  <2>2. FirstLife /\ SavedInv /\ TypeOK /\ t \in Tools /\ status[t] = "running"
    BY <1>1, <2>1 DEF FirstLife, WaitingIsOver, TypeInv, TypeOK
  <2>3. ASSUME NEW u \in Tools, Command(u) PROVE FALSE
    <3>1. u \in pending => CancelIsActive(u)
      BY DEF CancelIsActive
    <3>2. \/ status' = status \/ status' = [status EXCEPT ![u] = "running"]
          \/ status' = [status EXCEPT ![u] = "completed"]
          \/ status' = [status EXCEPT ![u] = "failed"] /\ u \notin pending
      BY <2>3, <3>1 DEF Command, Begin, EnterExec, Exec, ExecRefused, CommandEnds, Exited,
         ConfirmOk, ConfirmLost, ConfirmPending, StreamBroken, CompleteTool, FailTool, CancelTool,
         KillRecovered, RecoveredEnds,
     RecoveredUnsettled, FailCancelled, FailUnmarked, FailRow
    <3>3. QED
      BY <2>1, <2>2, <3>2 DEF TypeOK
  <2>4. PICK w \in Workers : Loses(w) /\ work[w].job \in {"retry", "recover"}
    <3>1. ~UNCHANGED status
      BY <2>1, <2>2
    <3>2. PICK w \in Workers : Retry(w)
      BY <1>1, <2>3, <3>1 DEF Next, PullChecked, Pulled, AlarmRetries, AlarmSweeps, BootSweeps,
         BackoffElapses, ContainerReplaced, Restart, vars
    <3>3. ~CompletePending
      BY <2>1, <2>2 DEF CompletePending
    <3>4. QED
      BY <3>1, <3>2, <3>3 DEF Retry, RetryCompletes, RetryLoses, RetryFails, SweepCompletes,
         SweepFails, RecoveryPulls, RecoveryCompletes, RecoveryLoses, RecoveryFails, Joined,
         Completes
  <2>5. w = "alarm" /\ HasRetry
    BY <2>2, <2>4 DEF Workers, FirstLife, AlarmKeepsIntent
  <2>6. QED
    BY <1>1, <2>2, <2>4, <2>5, AlarmIsRight DEF Loses
<1>2. QED
  BY <1>1, FirstInvariant, SavedInvariant, PTL DEF Spec

-----------------------------------------------------------------------------
(* One command, over any number of restarts. A restart leaves two retriers at *)
(* the same row, a stale one among them, but both pull from the container     *)
(* that ran the command: nothing else ever stores an intent.                  *)

CallAlone(t) ==
    /\ marked = {} /\ phase[t] # "probing" /\ ran[t] <= container
    /\ phase[t] \in InOperation => status[t] = "running"
    /\ phase[t] = "confirming" =>
          command[t] = "finished" /\ pull[t].rt = ran[t] /\ Brought(t, t)
    /\ phase[t] = "succeeded" \/ status[t] = "completed" => t \in saved

\* Before the command's sync first waits there is no row and no retrier.
Unsettled(t) == t \notin pending /\ status[t] \in {"absent", "running"}

RowAlone(t) ==
    /\ t \in pending =>
          /\ status[t] = "running" /\ phase[t] = "errored" /\ command[t] = "finished"
          /\ HasRetry /\ retry.rt = ran[t]
    /\ Unsettled(t) => ~HasRetry /\ \A w \in Workers : work[w].job = "off"

RetriersAlone(t) ==
    \A w \in Workers :
        /\ work[w].job # "sweep"
        /\ work[w].job \in {"off", "join"} => pull[w].step = "off"
        /\ t \in pending => Brought(w, t) /\ (pull[w].step # "off" => pull[w].rt = ran[t])

AloneInv(t) == CallAlone(t) /\ RowAlone(t) /\ RetriersAlone(t)

LEMMA AloneTypes ==
    ASSUME TypeInv, NEW t, Tools = {t}
    PROVE  /\ status \in [Tools -> {"absent", "running", "completed", "failed"}]
           /\ status[t] \in {"absent", "running", "completed", "failed"}
           /\ phase \in [Tools -> {"idle", "interrupted", "succeeded", "errored"} \cup Streaming]
           /\ phase[t] \in {"idle", "interrupted", "succeeded", "errored"} \cup Streaming
           /\ ran \in [Tools -> 0..MaxContainers] /\ ran[t] \in Nat /\ ran[t] # None
           /\ command \in [Tools -> {"none", "running", "finished"}]
           /\ container \in Containers /\ container \in Nat /\ container # None
           /\ retry \in Rows /\ work \in [Workers -> Works] /\ pull \in [Tools \cup Workers -> Pulls]
           /\ pending \subseteq {t} /\ t \in Tools /\ t \notin Workers
           /\ "alarm" \in Workers /\ "boot" \in Workers
<1>1. "alarm" \in Workers /\ "boot" \in Workers /\ t \in Tools /\ t \notin Workers
  BY SyncConstants DEF Workers
<1>2. /\ status \in [Tools -> {"absent", "running", "completed", "failed"}]
      /\ phase \in [Tools -> {"idle", "interrupted", "succeeded", "errored"} \cup Streaming]
      /\ ran \in [Tools -> 0..MaxContainers] /\ container \in Containers
      /\ command \in [Tools -> {"none", "running", "finished"}]
      /\ pending \subseteq Tools
  BY DEF TypeInv, TypeOK
<1>3. retry \in Rows /\ work \in [Workers -> Works] /\ pull \in [Tools \cup Workers -> Pulls]
  BY DEF TypeInv, TypeOK, Rows, Works, Jobs, Pulls, Runtimes
<1>4. status[t] \in {"absent", "running", "completed", "failed"}
      /\ phase[t] \in {"idle", "interrupted", "succeeded", "errored"} \cup Streaming
  BY <1>1, <1>2
<1>5. ran[t] \in 0..MaxContainers
  BY <1>1, <1>2
<1>6. ran[t] \in Nat /\ container \in Nat
  BY <1>2, <1>5, SyncConstants DEF Containers
<1>7. ran[t] # None /\ container # None
  BY <1>6, SyncConstants
<1>8. QED
  BY <1>1, <1>2, <1>3, <1>4, <1>6, <1>7

LEMMA InitAlone == ASSUME NEW t, Tools = {t}, Init PROVE AloneInv(t)
BY SyncConstants DEF Init, AloneInv, CallAlone, RowAlone, RetriersAlone, Unsettled, Brought,
   NoPull, NoRetry, HasRetry, Idle, InOperation

\* A step of the call, which no retrier sees.
LEMMA CallKeepsAlone ==
    ASSUME TypeInv, NEW t, Tools = {t}, AloneInv(t), UNCHANGED <<work, container, saved>>,
           \A w \in Workers : pull'[w] = pull[w],
           CallAlone(t)',
           \/ t \notin pending /\ t \notin pending' /\ UNCHANGED retry
              /\ (status'[t] \in {"absent", "running"} => status[t] \in {"absent", "running"})
           \/ Unsettled(t) /\ RowAlone(t)' /\ t \in pending'
           \/ /\ t \in pending /\ t \in pending'
              /\ UNCHANGED <<retry, ran>> /\ status'[t] = status[t] /\ phase'[t] = phase[t]
              /\ command'[t] = command[t]
    PROVE  AloneInv(t)'
<1>1. HasRetry' <=> retry'.attempt > 0
  BY DEF HasRetry
<1>2. RowAlone(t)'
  <2>1. CASE t \notin pending /\ t \notin pending' /\ UNCHANGED retry
             /\ (status'[t] \in {"absent", "running"} => status[t] \in {"absent", "running"})
    <3>1. HasRetry' <=> HasRetry
      BY <2>1 DEF HasRetry
    <3>2. Unsettled(t)' => Unsettled(t)
      BY <2>1 DEF Unsettled
    <3>3. QED
      BY <2>1, <3>1, <3>2 DEF AloneInv, RowAlone
  <2>2. CASE /\ t \in pending /\ t \in pending' /\ UNCHANGED <<retry, ran>>
             /\ status'[t] = status[t] /\ phase'[t] = phase[t] /\ command'[t] = command[t]
    <3>1. HasRetry' <=> HasRetry
      BY <2>2 DEF HasRetry
    <3>2. ~Unsettled(t)'
      BY <2>2 DEF Unsettled
    <3>3. QED
      BY <2>2, <3>1, <3>2 DEF AloneInv, RowAlone
  <2>3. QED
    BY <2>1, <2>2
<1>3. RetriersAlone(t)'
  <2>1. ASSUME NEW w \in Workers, t \in pending'
        PROVE  Brought(w, t)' /\ (pull'[w].step # "off" => pull'[w].rt = ran'[t])
    <3>1. CASE t \in pending
      BY <2>1, <3>1 DEF AloneInv, RetriersAlone, Brought, Unsettled
    <3>2. CASE t \notin pending
      <4>1. pull'[w].step = "off"
        BY <2>1, <3>2 DEF AloneInv, RowAlone, RetriersAlone
      <4>2. QED
        BY <4>1 DEF Brought
    <3>3. QED
      BY <3>1, <3>2
  <2>2. QED
    BY <2>1 DEF AloneInv, RetriersAlone
<1>4. QED
  BY <1>2, <1>3 DEF AloneInv

\* The intent of what begins to wait names its container, whatever row there is.
LEMMA RegisteredAlone ==
    ASSUME TypeInv, NEW t, Tools = {t}, RegisterPending(t, ran[t]), ran' = ran, status' = status,
           phase'[t] = "errored", command'[t] = "finished"
    PROVE  RowAlone(t)' /\ t \in pending' /\ status[t] = "running"
<1>1. HasRetry' /\ retry'.rt = ran[t]
  BY DEF RegisterPending, SchedulePending, HasRetry, Intent
<1>2. QED
  BY <1>1 DEF RegisterPending, CanWait, RowAlone, Unsettled

LEMMA CommandAlone ==
    ASSUME TypeInv, NEW t, Tools = {t}, Cancellable = {}, AloneInv(t), Command(t)
    PROVE  AloneInv(t)'
<1> USE DEF durable, world, memory, retriers, journal
<1>1. CallAlone(t) /\ marked = {}
  BY DEF AloneInv, CallAlone
<1>2. phase[t] # "errored" => t \notin pending
  BY DEF AloneInv, RowAlone
<1>3. CASE Begin(t)
  <2>1. /\ status' = [status EXCEPT ![t] = "running"] /\ status[t] = "absent"
        /\ UNCHANGED <<pending, retry, world, phase, pull, work, marked>>
    BY <1>3 DEF Begin
  <2>2. t \notin pending /\ status'[t] = "running"
    BY <2>1, AloneTypes DEF AloneInv, RowAlone
  <2>3. CallAlone(t)'
    BY <1>1, <2>1, <2>2 DEF CallAlone, Brought
  <2>4. QED
    BY <2>1, <2>2, <2>3, CallKeepsAlone
<1>4. ~EnterExec(t)
  BY DEF EnterExec
<1>5. CASE Exec(t)
  <2>1. /\ phase' = [phase EXCEPT ![t] = "executing"] /\ status[t] = "running"
        /\ phase[t] # "errored"
        /\ UNCHANGED <<status, pending, retry, container, saved, pull, work, marked>>
        /\ ran' = ran \/ ran' = [ran EXCEPT ![t] = container]
    BY <1>1, <1>5 DEF Exec, Runnable, CallAlone
  <2>2. phase'[t] = "executing" /\ ran'[t] <= container
    BY <1>1, <2>1, AloneTypes DEF CallAlone
  <2>3. CallAlone(t)'
    BY <1>1, <2>1, <2>2 DEF CallAlone, InOperation
  <2>4. QED
    BY <1>2, <2>1, <2>3, CallKeepsAlone
<1>6. CASE ExecRefused(t)
  <2>1. /\ phase' = [phase EXCEPT ![t] = "errored"] /\ phase[t] = "interrupted"
        /\ UNCHANGED <<durable, world, pull, work>>
    BY <1>1, <1>6 DEF ExecRefused, CallAlone
  <2>2. phase'[t] = "errored"
    BY <2>1, AloneTypes
  <2>3. CallAlone(t)'
    BY <1>1, <2>1, <2>2 DEF CallAlone, InOperation
  <2>4. QED
    BY <1>2, <2>1, <2>3, CallKeepsAlone
<1>7. CASE CommandEnds(t)
  <2>1. /\ command' = [command EXCEPT ![t] = "finished"] /\ command[t] = "running"
        /\ UNCHANGED <<durable, container, ran, saved, phase, pull, work>>
    BY <1>7 DEF CommandEnds
  <2>2. t \notin pending /\ command'[t] = "finished"
    BY <2>1, AloneTypes DEF AloneInv, RowAlone
  <2>3. CallAlone(t)'
    BY <1>1, <2>1, <2>2 DEF CallAlone, Brought
  <2>4. QED
    BY <2>1, <2>2, <2>3, CallKeepsAlone
<1>8. CASE Exited(t)
  <2>1. /\ phase' = [phase EXCEPT ![t] = "confirming"] /\ command[t] = "finished"
        /\ pull' = [pull EXCEPT ![t] = [step |-> "check", rt |-> ran[t]]]
        /\ phase[t] = "executing" /\ UNCHANGED <<durable, world, work>>
    BY <1>8 DEF Exited, StartPull
  <2>2. /\ phase'[t] = "confirming" /\ pull'[t] = [step |-> "check", rt |-> ran[t]]
        /\ \A w \in Workers : pull'[w] = pull[w]
    BY <2>1, AloneTypes
  <2>3. pull'[t].rt = ran[t] /\ Brought(t, t)'
    BY <2>2 DEF Brought
  <2>4. CallAlone(t)'
    BY <1>1, <2>1, <2>2, <2>3 DEF CallAlone, InOperation
  <2>5. QED
    BY <1>2, <2>1, <2>2, <2>4, CallKeepsAlone
\* Every end of a confirmation.
<1>9. ASSUME NEW outcome \in {"succeeded", "errored"}, ConfirmEnds(t, outcome),
             outcome = "succeeded" => t \in saved, UNCHANGED <<status, marked>>
      PROVE  /\ CallAlone(t)' /\ phase'[t] = outcome /\ UNCHANGED <<world, work>>
             /\ \A w \in Workers : pull'[w] = pull[w]
  <2>1. /\ phase' = [phase EXCEPT ![t] = outcome] /\ pull' = [pull EXCEPT ![t] = NoPull]
        /\ UNCHANGED <<world, work>>
    BY <1>9 DEF ConfirmEnds
  <2>2. phase'[t] = outcome /\ \A w \in Workers : pull'[w] = pull[w]
    BY <2>1, AloneTypes
  <2>3. QED
    BY <1>1, <1>9, <2>1, <2>2 DEF CallAlone, InOperation
<1>10. CASE ConfirmOk(t)
  <2>1. /\ phase[t] = "confirming" /\ ConfirmEnds(t, "succeeded") /\ UNCHANGED durable
        /\ pull[t].step = "recheck" /\ pull[t].rt \in {None, container}
    BY <1>10 DEF ConfirmOk, PullOk, FromOrigin
  <2>2. t \in saved
    BY <1>1, <2>1, AloneTypes DEF CallAlone, Brought
  <2>3. QED
    BY <1>2, <1>9, <2>1, <2>2, CallKeepsAlone
<1>11. CASE ConfirmLost(t)
  <2>1. phase[t] = "confirming" /\ ConfirmEnds(t, "errored") /\ UNCHANGED durable
    BY <1>11 DEF ConfirmLost
  <2>2. QED
    BY <1>2, <1>9, <2>1, CallKeepsAlone
<1>12. CASE ConfirmPending(t)
  <2>1. phase[t] = "confirming" /\ ConfirmEnds(t, "errored") /\ UNCHANGED <<status, marked>>
    BY <1>12 DEF ConfirmPending
  <2>2. CanWait(t) /\ t \notin pending /\ command[t] = "finished"
    BY <1>1, <1>2, <2>1, AloneTypes DEF CallAlone, InOperation, CanWait
  <2>3. RegisterPending(t, ran[t])
    BY <1>12, <2>2 DEF ConfirmPending
  <2>4. CallAlone(t)' /\ phase'[t] = "errored" /\ UNCHANGED <<world, work>>
        /\ \A w \in Workers : pull'[w] = pull[w]
    BY <1>9, <2>1
  <2>5. RowAlone(t)' /\ t \in pending' /\ status[t] = "running"
    BY <2>1, <2>2, <2>3, <2>4, RegisteredAlone
  <2>6. QED
    BY <2>2, <2>4, <2>5, CallKeepsAlone DEF Unsettled
<1>13. CASE StreamBroken(t)
  <2>1. /\ phase' = [phase EXCEPT ![t] = "errored"] /\ phase[t] = "executing"
        /\ UNCHANGED <<status, marked, container, ran, saved, pull, work>>
    BY <1>13 DEF StreamBroken
  <2>2. phase'[t] = "errored" /\ t \notin pending
    BY <1>2, <2>1, AloneTypes
  <2>3. CallAlone(t)'
    BY <1>1, <2>1, <2>2 DEF CallAlone, InOperation
  <2>4. CASE UNCHANGED <<command, pending, retry, wakes, sweep>>
    BY <2>1, <2>2, <2>3, <2>4, CallKeepsAlone
  <2>5. CASE command' = [command EXCEPT ![t] = "finished"] /\ RegisterPending(t, ran[t])
    <3>1. command'[t] = "finished"
      BY <2>5, AloneTypes
    <3>2. RowAlone(t)' /\ t \in pending' /\ status[t] = "running"
      BY <2>1, <2>2, <2>5, <3>1, RegisteredAlone
    <3>3. QED
      BY <2>1, <2>2, <2>3, <3>2, CallKeepsAlone DEF Unsettled
  <2>6. QED
    BY <1>13, <2>4, <2>5 DEF StreamBroken
<1>14. CASE CompleteTool(t)
  <2>1. /\ phase[t] = "succeeded" /\ status' = [status EXCEPT ![t] = "completed"]
        /\ UNCHANGED <<marked, retry, world, phase, pull, work>> /\ pending' = pending \ {t}
    BY <1>14 DEF CompleteTool
  <2>2. status'[t] = "completed" /\ t \in saved /\ t \notin pending /\ t \notin pending'
    BY <1>1, <1>2, <2>1, AloneTypes DEF CallAlone
  <2>3. CallAlone(t)'
    BY <1>1, <2>1, <2>2 DEF CallAlone, InOperation
  <2>4. QED
    BY <2>1, <2>2, <2>3, CallKeepsAlone
<1>15. CASE FailTool(t)
  <2>1. /\ status' = [status EXCEPT ![t] = "failed"] /\ marked' = {} /\ t \notin pending
        /\ phase[t] = "errored" /\ UNCHANGED <<pending, retry, world, phase, pull, work>>
    BY <1>1, <1>15 DEF FailTool, FailUnmarked, FailRow
  <2>2. status'[t] = "failed"
    BY <2>1, AloneTypes
  <2>3. CallAlone(t)'
    BY <1>1, <2>1, <2>2 DEF CallAlone, InOperation
  <2>4. QED
    BY <2>1, <2>2, <2>3, CallKeepsAlone
<1>16. ~CancelTool(t) /\ ~KillRecovered(t) /\ ~RecoveredEnds(t) /\ ~RecoveredUnsettled(t)
  BY DEF CancelTool, KillRecovered, RecoveredEnds, RecoveredUnsettled, TypeInv, TypeOK
<1>17. QED
  BY <1>3, <1>4, <1>5, <1>6, <1>7, <1>8, <1>10, <1>11, <1>12, <1>13, <1>14, <1>15, <1>16 DEF Command

\* A step of a retrier with a row, or of one that takes a row up.
LEMMA RetrierKeepsAlone ==
    ASSUME TypeInv, NEW t, Tools = {t}, AloneInv(t), NEW w \in Workers, ~Unsettled(t),
           UNCHANGED <<ran, command, phase, saved>>, marked' = {}, pull'[t] = pull[t],
           container' \in {container, container + 1},
           \A v \in Workers \ {w} : work'[v] = work[v] /\ pull'[v] = pull[v],
           work'[w].job # "sweep", work'[w].job \in {"off", "join"} => pull'[w].step = "off",
           pull'[w].step # "recheck",
           t \in pending' => /\ t \in pending /\ status'[t] = status[t]
                             /\ HasRetry' /\ retry'.rt = ran[t]
                             /\ pull'[w].step # "off" => pull'[w].rt = ran[t],
           \/ t \notin pending' /\ t \in pending /\ status'[t] \in {"completed", "failed"}
              /\ (status'[t] = "completed" => t \in saved)
           \/ (t \in pending' <=> t \in pending) /\ status'[t] = status[t]
    PROVE  AloneInv(t)'
<1>1. ran[t] <= container /\ ran[t] \in Nat /\ container \in Nat
  BY AloneTypes DEF AloneInv, CallAlone
<1>2. ran'[t] <= container' /\ (ran'[t] = container' => ran[t] = container)
  BY <1>1
<1>3. \A p : pull'[p] = pull[p] /\ Brought(p, t) => Brought(p, t)'
  BY <1>2 DEF Brought
<1>4. phase[t] \in InOperation => t \notin pending /\ status'[t] = status[t]
  BY DEF AloneInv, RowAlone, InOperation
<1>5. CallAlone(t)'
  BY <1>2, <1>3, <1>4 DEF AloneInv, CallAlone
<1>6. RowAlone(t)'
  BY DEF AloneInv, RowAlone, Unsettled
<1>7. RetriersAlone(t)'
  <2>1. ASSUME NEW v \in Workers \ {w}
        PROVE  /\ work'[v].job # "sweep"
               /\ work'[v].job \in {"off", "join"} => pull'[v].step = "off"
               /\ t \in pending' => Brought(v, t)' /\ (pull'[v].step # "off" => pull'[v].rt = ran'[t])
    BY <1>3, <2>1 DEF AloneInv, RetriersAlone
  <2>2. t \in pending' => Brought(w, t)'
    BY DEF Brought
  <2>3. QED
    BY <2>1, <2>2 DEF RetriersAlone
<1>8. QED
  BY <1>5, <1>6, <1>7 DEF AloneInv

\* A step of neither: the call's part, the rows and what pulls are made for stay.
LEMMA AsideKeepsAlone ==
    ASSUME TypeInv, NEW t, Tools = {t}, AloneInv(t),
           UNCHANGED <<status, marked, pending, ran, command, phase, work, pull, saved>>,
           HasRetry' <=> HasRetry, retry'.rt = retry.rt,
           container' \in {container, container + 1}
    PROVE  AloneInv(t)'
<1>1. ran[t] <= container /\ ran[t] \in Nat /\ container \in Nat
  BY AloneTypes DEF AloneInv, CallAlone
<1>2. ran'[t] <= container' /\ (ran'[t] = container' => ran[t] = container)
  BY <1>1
<1>3. \A p : Brought(p, t) => Brought(p, t)'
  BY <1>2 DEF Brought
<1>4. CallAlone(t)'
  BY <1>2, <1>3 DEF AloneInv, CallAlone
<1>5. RowAlone(t)'
  BY DEF AloneInv, RowAlone, Unsettled
<1>6. RetriersAlone(t)'
  BY <1>3 DEF AloneInv, RetriersAlone
<1>7. QED
  BY <1>4, <1>5, <1>6 DEF AloneInv

\* What a retrier's pull shows is about the container that ran the command.
LEMMA RetrierIsRight ==
    ASSUME TypeInv, NEW t, Tools = {t}, AloneInv(t), NEW w \in Workers, t \in pending, PullOk(w)
    PROVE  t \in saved
<1>1. pull[w].step # "off" => pull[w].rt = ran[t]
  BY DEF AloneInv, RetriersAlone
<1>2. Brought(w, t) /\ ran[t] # None
  BY AloneTypes DEF AloneInv, RetriersAlone
<1>3. QED
  BY <1>1, <1>2 DEF PullOk, FromOrigin, Brought

LEMMA RetryAlone ==
    ASSUME TypeInv, NEW t, Tools = {t}, AloneInv(t), NEW w \in Workers, Retry(w)
    PROVE  AloneInv(t)'
<1> USE DEF durable, world, memory, retriers, journal
<1>1. /\ pull \in [Tools \cup Workers -> Pulls] /\ NoPull \in Pulls /\ NoPull.step = "off"
      /\ work \in [Workers -> Works] /\ retry \in Rows /\ Idle.job = "off"
      /\ pending \subseteq {t} /\ t \in Tools /\ t # w
      /\ status \in [Tools -> {"absent", "running", "completed", "failed"}]
  BY AloneTypes, RecordTypes DEF NoPull, Idle
<1>2. marked = {} /\ work[w].job # "sweep" /\ (work[w].job = "join" => pull[w].step = "off")
      /\ (t \in pending => HasRetry /\ retry.rt = ran[t]
                           /\ (pull[w].step # "off" => pull[w].rt = ran[t]))
  BY DEF AloneInv, CallAlone, RowAlone, RetriersAlone
<1>3. ~Unsettled(t)
  BY DEF AloneInv, RowAlone, Retry, RetryCompletes, RetryLoses, RetryFails, SweepCompletes,
     SweepFails, RecoveryPulls, RecoveryCompletes, RecoveryLoses, RecoveryFails, Joined
<1>4. ASSUME StopPull(w)
      PROVE  /\ pull'[t] = pull[t] /\ pull'[w].step = "off"
             /\ \A v \in Workers \ {w} : pull'[v] = pull[v]
  BY <1>1, <1>4 DEF StopPull
<1>5. ASSUME NEW recovered, NEW more, EndWork(w, recovered, more)
      PROVE  work'[w].job = "off" /\ \A v \in Workers \ {w} : work'[v] = work[v]
  BY <1>1, <1>5 DEF EndWork
<1>6. CASE Completes(w)
  <2>1. /\ PullOk(w) /\ CompletePending /\ EndWork(w, TRUE, {}) /\ StopPull(w)
        /\ UNCHANGED <<world, memory>>
    BY <1>6 DEF Completes
  <2>2. pending' = {} /\ marked' = {} /\ status'[t] = IF t \in pending THEN "completed" ELSE status[t]
    BY <1>1, <1>2, <2>1 DEF CompletePending
  <2>3. t \in pending => t \in saved
    BY <2>1, RetrierIsRight
  <2>4. QED
    BY <1>3, <1>4, <1>5, <2>1, <2>2, <2>3, RetrierKeepsAlone
<1>7. CASE Loses(w)
  <2>1. /\ FailPending /\ EndWork(w, TRUE, {}) /\ StopPull(w) /\ UNCHANGED <<world, memory>>
    BY <1>7 DEF Loses
  <2>2. pending' = {} /\ marked' = {} /\ status'[t] = IF t \in pending THEN "failed" ELSE status[t]
    BY <1>1, <1>2, <2>1 DEF FailPending
  <2>3. QED
    BY <1>3, <1>4, <1>5, <2>1, <2>2, RetrierKeepsAlone
<1>8. CASE RetryFails(w)
  <2>1. StopPull(w) /\ UNCHANGED <<status, marked, pending, world, memory>> /\ work[w].job = "retry"
        /\ pull[w].step # "off"
    BY <1>8 DEF RetryFails, PullFailed
  <2>2. CASE work[w].attempt < MaxAttempts
    <3>1. /\ retry' = [attempt |-> work[w].attempt + 1, rt |-> pull[w].rt,
                       exhausted |-> FALSE, due |-> FALSE]
          /\ EndWork(w, TRUE, {"retry"})
      BY <1>8, <2>2 DEF RetryFails
    <3>2. work[w].attempt \in Nat
      BY <1>1, SyncConstants DEF Works
    <3>3. HasRetry' /\ retry'.rt = pull[w].rt
      BY <3>1, <3>2 DEF HasRetry
    <3>4. QED
      BY <1>2, <1>3, <1>4, <1>5, <2>1, <3>1, <3>3, RetrierKeepsAlone
  <2>3. CASE ~(work[w].attempt < MaxAttempts)
    <3>1. /\ retry' = IF HasRetry THEN [retry EXCEPT !.exhausted = TRUE] ELSE retry
          /\ StartRecovery(w, work[w].attempt, work[w].sweeping)
      BY <1>8, <2>3 DEF RetryFails
    <3>2. retry'.rt = retry.rt /\ (HasRetry' <=> HasRetry)
      BY <1>1, <3>1 DEF Rows, HasRetry
    <3>3. work'[w].job \in {"recover", "join"} /\ \A v \in Workers \ {w} : work'[v] = work[v]
      BY <1>1, <3>1 DEF StartRecovery, SetWork
    <3>4. QED
      BY <1>2, <1>3, <1>4, <2>1, <3>2, <3>3, RetrierKeepsAlone
  <2>4. QED
    BY <2>2, <2>3
<1>9. CASE RecoveryPulls(w)
  <2>1. /\ pull' = [pull EXCEPT ![w] = [step |-> "check", rt |-> retry.rt]]
        /\ work[w].job = "recover" /\ UNCHANGED <<durable, world, memory, work>>
    BY <1>9 DEF RecoveryPulls, StartPull
  <2>2. /\ pull'[w] = [step |-> "check", rt |-> retry.rt] /\ pull'[t] = pull[t]
        /\ \A v \in Workers \ {w} : pull'[v] = pull[v]
    BY <1>1, <2>1
  <2>3. pull'[w].step = "check" /\ pull'[w].rt = retry.rt /\ (HasRetry' <=> HasRetry)
    BY <2>1, <2>2 DEF HasRetry
  <2>4. QED
    BY <1>2, <1>3, <2>1, <2>2, <2>3, RetrierKeepsAlone
<1>10. CASE RecoveryFails(w)
  <2>1. /\ EndWork(w, FALSE, {}) /\ StopPull(w)
        /\ UNCHANGED <<journal, retry, ran, command, saved, memory>>
        /\ container' \in {container, container + 1}
    BY <1>10 DEF RecoveryFails
  <2>2. HasRetry' <=> HasRetry
    BY <2>1 DEF HasRetry
  <2>3. QED
    BY <1>2, <1>3, <1>4, <1>5, <2>1, <2>2, RetrierKeepsAlone
<1>11. CASE Joined(w)
  <2>1. /\ work[w].job = "join" /\ EndWork(w, ~retry.exhausted, {})
        /\ UNCHANGED <<journal, retry, world, memory, pull>>
    BY <1>11 DEF Joined
  <2>2. HasRetry' <=> HasRetry
    BY <2>1 DEF HasRetry
  <2>3. QED
    BY <1>2, <1>3, <1>5, <2>1, <2>2, RetrierKeepsAlone
<1>12. QED
  BY <1>2, <1>6, <1>7, <1>8, <1>9, <1>10, <1>11 DEF Retry, RetryCompletes, RetryLoses,
     SweepCompletes, SweepFails, RecoveryCompletes, RecoveryLoses

\* A retrier that takes up the row, from the alarm or handed over.
LEMMA TakenUpAlone ==
    ASSUME TypeInv, NEW t, Tools = {t}, AloneInv(t), NEW w \in Workers, work[w].job = "off",
           UNCHANGED <<journal, retry, world, memory>>,
           (HasRetry /\ RunRetry(w, FALSE)) \/ RunSweep(w) \/ UNCHANGED <<work, pull>>
    PROVE  AloneInv(t)'
<1> USE DEF world, memory, journal
<1>1. /\ pull \in [Tools \cup Workers -> Pulls] /\ work \in [Workers -> Works]
      /\ t \in Tools /\ t # w
  BY AloneTypes
<1>2. marked = {} /\ pull[w].step = "off" /\ (HasRetry' <=> HasRetry)
      /\ (t \in pending => HasRetry /\ retry.rt = ran[t]) /\ pending \subseteq {t}
  BY AloneTypes DEF AloneInv, CallAlone, RowAlone, RetriersAlone, HasRetry
<1>3. ASSUME NEW sweeping \in BOOLEAN, HasRetry, RunRetry(w, sweeping) PROVE AloneInv(t)'
  <2>1. ~Unsettled(t)
    BY <1>3 DEF AloneInv, RowAlone
  <2>2. CASE retry.exhausted
    <3>1. /\ work'[w].job \in {"recover", "join"} /\ pull' = pull
          /\ \A v \in Workers \ {w} : work'[v] = work[v]
      BY <1>1, <1>3, <2>2 DEF RunRetry, StartRecovery, SetWork
    <3>2. QED
      BY <1>2, <2>1, <3>1, RetrierKeepsAlone
  <2>3. CASE ~retry.exhausted
    <3>1. /\ work'[w].job = "retry" /\ pull'[w] = [step |-> "check", rt |-> retry.rt]
          /\ pull'[t] = pull[t]
          /\ \A v \in Workers \ {w} : work'[v] = work[v] /\ pull'[v] = pull[v]
      BY <1>1, <1>3, <2>3 DEF RunRetry, StartPull, SetWork
    <3>2. pull'[w].step = "check" /\ pull'[w].rt = retry.rt
      BY <3>1
    <3>3. QED
      BY <1>2, <2>1, <3>1, <3>2, RetrierKeepsAlone
  <2>4. QED
    BY <2>2, <2>3
<1>4. CASE UNCHANGED <<work, pull>>
  BY <1>2, <1>4, AsideKeepsAlone
<1>5. CASE RunSweep(w)
  <2>1. (HasRetry /\ RunRetry(w, TRUE)) \/ UNCHANGED <<work, pull>>
    BY <1>2, <1>5 DEF RunSweep, Retryable
  <2>2. QED
    BY <1>3, <1>4, <2>1
<1>6. QED
  BY <1>3, <1>4, <1>5

\* A pull brings what the command left, if it reaches the container that ran it.
LEMMA PulledAlone ==
    ASSUME TypeInv, NEW t, Tools = {t}, AloneInv(t), NEW p \in Tools \cup Workers,
           PullChecked(p) \/ Pulled(p)
    PROVE  AloneInv(t)'
<1> USE DEF durable, world, memory, retriers, journal
<1>1. /\ pull \in [Tools \cup Workers -> Pulls] /\ t \in Tools /\ t \notin Workers
      /\ UNCHANGED <<durable, ran, command, phase, container, work>> /\ saved \subseteq saved'
      /\ pull[p].step # "off"
  BY AloneTypes DEF PullChecked, Pulled
<1>2. PICK step \in {"pull", "recheck"} : pull' = [pull EXCEPT ![p].step = step]
  BY DEF PullChecked, Pulled
<1>3. \A q \in Tools \cup Workers : /\ pull'[q].rt = pull[q].rt
                                    /\ pull'[q].step = "off" <=> pull[q].step = "off"
  BY <1>1, <1>2 DEF Pulls
<1>4. ASSUME NEW q \in Tools \cup Workers, command[t] = "finished", Brought(q, t)
      PROVE  Brought(q, t)'
  <2>1. CASE Pulled(p)
    <3>1. ran[t] = container => t \in saved'
      BY <1>1, <1>4, <2>1 DEF Pulled, Arrived
    <3>2. QED
      BY <1>1, <3>1 DEF Brought
  <2>2. CASE PullChecked(p)
    <3>1. pull' = [pull EXCEPT ![p].step = "pull"]
      BY <2>2 DEF PullChecked
    <3>2. pull'[q].step = "recheck" => pull[q].step = "recheck"
      BY <1>1, <3>1 DEF Pulls
    <3>3. QED
      BY <1>1, <1>4, <3>2 DEF Brought
  <2>3. QED
    BY <2>1, <2>2
<1>5. CallAlone(t)'
  BY <1>1, <1>3, <1>4 DEF AloneInv, CallAlone
<1>6. RowAlone(t)'
  BY <1>1 DEF AloneInv, RowAlone, Unsettled, HasRetry
<1>7. RetriersAlone(t)'
  <2>1. t \in pending => command[t] = "finished"
    BY DEF AloneInv, RowAlone
  <2>2. QED
    BY <1>1, <1>3, <1>4, <2>1 DEF AloneInv, RetriersAlone
<1>8. QED
  BY <1>5, <1>6, <1>7 DEF AloneInv

LEMMA RestartAlone ==
    ASSUME TypeInv, NEW t, Tools = {t}, AloneInv(t), Restart
    PROVE  AloneInv(t)'
<1> USE DEF world, journal
<1>1. UNCHANGED <<journal, retry, world>>
  BY DEF Restart
<1>2. phase'[t] = IF phase[t] \in Streaming THEN "interrupted" ELSE phase[t]
  BY AloneTypes DEF Restart
<1>3. \A w \in Workers : work'[w].job = "off" /\ pull'[w].step = "off"
  BY DEF Restart, Idle, NoPull
<1>4. CallAlone(t)'
  BY <1>1, <1>2 DEF AloneInv, CallAlone, InOperation, Streaming
<1>5. RowAlone(t)'
  BY <1>1, <1>2, <1>3 DEF AloneInv, RowAlone, Unsettled, HasRetry, Streaming, InOperation
<1>6. RetriersAlone(t)'
  BY <1>3 DEF RetriersAlone, Brought
<1>7. QED
  BY <1>4, <1>5, <1>6 DEF AloneInv

LEMMA AloneStep ==
    ASSUME TypeInv, NEW t, Tools = {t}, Cancellable = {}, AloneInv(t), [Next]_vars
    PROVE  AloneInv(t)'
<1> USE DEF durable, world, memory, retriers, journal, Untouched
<1>1. ASSUME NEW u \in Tools, Command(u) PROVE AloneInv(t)'
  BY <1>1, CommandAlone
<1>2. ASSUME NEW w \in Workers, Retry(w) PROVE AloneInv(t)'
  BY <1>2, RetryAlone
<1>3. ASSUME NEW p \in Tools \cup Workers, PullChecked(p) \/ Pulled(p) PROVE AloneInv(t)'
  BY <1>3, PulledAlone
<1>4. CASE AlarmRetries
  BY <1>4, AloneTypes, TakenUpAlone DEF AlarmRetries
<1>5. CASE AlarmSweeps
  BY <1>5, AloneTypes, TakenUpAlone DEF AlarmSweeps
<1>6. CASE BootSweeps
  <2>1. CASE work["boot"].job = "off"
    BY <1>6, <2>1, AloneTypes, TakenUpAlone DEF BootSweeps
  <2>2. CASE work["boot"].job # "off"
    BY <1>6, <2>2, AsideKeepsAlone DEF BootSweeps, HasRetry
  <2>3. QED
    BY <2>1, <2>2
<1>7. CASE BackoffElapses
  <2>1. retry'.rt = retry.rt /\ (HasRetry' <=> HasRetry)
    BY <1>7, AloneTypes DEF BackoffElapses, Rows, HasRetry
  <2>2. QED
    BY <1>7, <2>1, AsideKeepsAlone DEF BackoffElapses
<1>8. CASE ContainerReplaced
  BY <1>8, AsideKeepsAlone DEF ContainerReplaced, HasRetry
<1>9. CASE Restart
  BY <1>9, RestartAlone
<1>10. CASE UNCHANGED vars
  BY <1>10, AsideKeepsAlone DEF vars, HasRetry
<1>11. QED
  BY <1>1, <1>2, <1>3, <1>4, <1>5, <1>6, <1>7, <1>8, <1>9, <1>10 DEF Next

\* A command that has the workspace to itself and that nobody cancels is reported as
\* completed only after its changes were pulled from the container it ran in, however
\* often the object restarts, the container is replaced and attempts fail
\* (recoverExhaustedComputerSync and reconcilePendingCommands included). With a second
\* command the two retriers a restart leaves can mix up their containers.
THEOREM AloneCompletedIsSaved ==
    ASSUME NEW only, Tools = {only}, Cancellable = {} PROVE Spec => []CompletedIsSaved
<1>1. Init => TypeInv /\ AloneInv(only)
  BY InitTypes, InitAlone
<1>2. TypeInv /\ AloneInv(only) /\ [Next]_vars => TypeInv' /\ AloneInv(only)'
  BY TypeStep, AloneStep
<1>3. AloneInv(only) => CompletedIsSaved
  BY DEF AloneInv, CallAlone, CompletedIsSaved
<1>4. QED
  BY <1>1, <1>2, <1>3, PTL DEF Spec

-----------------------------------------------------------------------------
(* The same, for a command that may be cancelled. The row of one that is can  *)
(* outlive its intent, so that a sweep works beside a stale retry; but no     *)
(* retrier looks for another container than the command's.                    *)

CallOrigin(t) ==
    /\ t \in pending => status[t] = "running"
    /\ retry.rt \in {ran[t], None} /\ (HasRetry => retry.rt = ran[t])
    /\ ran[t] = 0 => ~HasRetry /\ pending = {} /\ \A w \in Workers : work[w].job = "off"

RetrierOrigin(w, t) ==
    /\ work[w].job \in {"off", "join"} => pull[w].step = "off"
    /\ pull[w].step # "off" => pull[w].rt \in {ran[t], None}
    /\ work[w].job = "retry" => pull[w].step # "off" /\ pull[w].rt = ran[t]

OriginInv(t) == CallOrigin(t) /\ \A w \in Workers : RetrierOrigin(w, t)

LEMMA InitOrigin == ASSUME NEW t, Tools = {t}, Init PROVE OriginInv(t)
BY SyncConstants DEF Init, OriginInv, CallOrigin, RetrierOrigin, NoPull, NoRetry, HasRetry, Idle

\* A step of the call: its row waits only with the container it ran in, and so does
\* the intent.
LEMMA CallKeepsOrigin ==
    ASSUME TypeInv, NEW t, Tools = {t}, OriginInv(t), UNCHANGED work,
           \A w \in Workers : pull'[w] = pull[w],
           ran'[t] = ran[t] \/ ran[t] = 0,
           t \in pending' => status'[t] = "running" /\ ran'[t] \in Containers, pending' \subseteq {t},
           UNCHANGED retry \/ (retry'.rt = ran'[t] /\ ran'[t] \in Containers)
    PROVE  OriginInv(t)'
<1>1. retry.rt \in Containers \cup {None} /\ 0 \notin Containers /\ None # 0
  BY AloneTypes, SyncConstants DEF Rows, Runtimes, Containers
<1>2. CallOrigin(t)'
  BY <1>1 DEF OriginInv, CallOrigin, HasRetry
<1>3. ASSUME NEW w \in Workers PROVE RetrierOrigin(w, t)'
  BY <1>3 DEF OriginInv, CallOrigin, RetrierOrigin
<1>4. QED
  BY <1>2, <1>3 DEF OriginInv

LEMMA CommandOrigin ==
    ASSUME TypeInv, NEW t, Tools = {t}, OriginInv(t), Command(t)
    PROVE  OriginInv(t)'
<1> USE DEF durable, world, memory, retriers, journal
<1>1. /\ pending \subseteq {t} /\ t \in Tools /\ t \notin Workers /\ 0 \notin Containers
      /\ t \in pending => status[t] = "running" /\ ran[t] \in Containers
      /\ phase[t] \in InOperation => ran[t] \in Containers
      /\ status \in [Tools -> {"absent", "running", "completed", "failed"}]
      /\ pull \in [Tools \cup Workers -> Pulls]
  BY AloneTypes DEF OriginInv, CallOrigin, TypeInv, TypeOK, RanIfOpen, Containers
\* The row begins to wait, or only its intent is written.
<1>2. ASSUME NEW rt, SchedulePending(rt), rt = ran[t], rt \in Containers
      PROVE  UNCHANGED retry \/ (retry'.rt = ran[t] /\ ran[t] \in Containers)
  BY <1>2 DEF SchedulePending, Intent
<1>3. ASSUME RegisterPending(t, ran[t]), ran[t] \in Containers, UNCHANGED <<status, ran, work>>,
             \A w \in Workers : pull'[w] = pull[w]
      PROVE  OriginInv(t)'
  BY <1>2, <1>3, CallKeepsOrigin DEF RegisterPending, CanWait
\* The row goes on as it was, or is settled.
<1>4. ASSUME pending' \subseteq pending, t \in pending' => status'[t] = status[t],
             UNCHANGED <<retry, ran, work>>, \A w \in Workers : pull'[w] = pull[w]
      PROVE  OriginInv(t)'
  BY <1>1, <1>4, CallKeepsOrigin
<1>5. CASE Begin(t)
  <2>1. t \notin pending
    BY <1>1, <1>5 DEF Begin
  <2>2. QED
    BY <1>4, <1>5, <2>1 DEF Begin
<1>6. CASE EnterExec(t) \/ ExecRefused(t) \/ CommandEnds(t) \/ KillRecovered(t) \/ RecoveredUnsettled(t)
  BY <1>4, <1>6 DEF EnterExec, ExecRefused, CommandEnds, KillRecovered, RecoveredUnsettled
<1>7. CASE Exec(t)
  <2>1. CASE ran[t] = 0
    BY <1>1, <1>7, <2>1, CallKeepsOrigin DEF Exec, OriginInv, CallOrigin
  <2>2. CASE ran[t] # 0
    BY <1>4, <1>7, <2>2 DEF Exec
  <2>3. QED
    BY <2>1, <2>2
<1>8. CASE Exited(t)
  BY <1>1, <1>4, <1>8 DEF Exited, StartPull
<1>9. ASSUME NEW outcome, ConfirmEnds(t, outcome)
      PROVE  UNCHANGED <<world, work>> /\ \A w \in Workers : pull'[w] = pull[w]
  BY <1>1, <1>9 DEF ConfirmEnds
<1>10. CASE ConfirmOk(t) \/ ConfirmLost(t)
  BY <1>4, <1>9, <1>10 DEF ConfirmOk, ConfirmLost
<1>11. CASE ConfirmPending(t)
  <2>1. /\ phase[t] = "confirming" /\ ConfirmEnds(t, "errored") /\ UNCHANGED <<status, marked>>
        /\ ran[t] \in Containers
    BY <1>1, <1>11 DEF ConfirmPending, InOperation
  <2>2. CASE RegisterPending(t, ran[t])
    BY <1>3, <1>9, <2>1, <2>2
  <2>3. CASE SchedulePending(ran[t]) /\ UNCHANGED pending
    BY <1>1, <1>2, <1>9, <2>1, <2>3, CallKeepsOrigin
  <2>4. QED
    BY <1>11, <2>2, <2>3 DEF ConfirmPending
<1>12. CASE StreamBroken(t)
  <2>1. ran[t] \in Containers /\ UNCHANGED <<status, ran, pull, work>>
    BY <1>1, <1>12 DEF StreamBroken, InOperation
  <2>2. RegisterPending(t, ran[t]) \/ UNCHANGED <<pending, retry>>
    BY <1>12 DEF StreamBroken
  <2>3. QED
    BY <1>3, <1>4, <2>1, <2>2
<1>13. CASE CompleteTool(t)
  BY <1>1, <1>4, <1>13 DEF CompleteTool
<1>14. CASE FailTool(t)
  BY <1>4, <1>14 DEF FailTool, FailUnmarked, FailRow
<1>15. CASE CancelTool(t)
  BY <1>4, <1>15 DEF CancelTool, CancelIsActive, FailRow
<1>16. CASE RecoveredEnds(t)
  <2>1. ran[t] = container /\ container \in Containers /\ UNCHANGED <<ran, work, pull>>
    BY <1>16 DEF RecoveredEnds, TypeInv, TypeOK
  <2>2. CASE RegisterPending(t, container) /\ UNCHANGED status
    BY <1>3, <2>1, <2>2
  <2>3. CASE FailCancelled(t) /\ UNCHANGED retry
    BY <1>4, <2>1, <2>3 DEF FailCancelled, FailUnmarked, FailRow
  <2>4. QED
    BY <1>16, <2>2, <2>3 DEF RecoveredEnds
<1>17. QED
  BY <1>5, <1>6, <1>7, <1>8, <1>10, <1>11, <1>12, <1>13, <1>14, <1>15, <1>16 DEF Command

\* A step of a retrier: the row ends, or waits on with what it needs to.
LEMMA RetrierKeepsOrigin ==
    ASSUME TypeInv, NEW t, Tools = {t}, OriginInv(t), NEW w \in Workers, ran[t] # 0, UNCHANGED ran,
           \A v \in Workers \ {w} : work'[v] = work[v] /\ pull'[v] = pull[v],
           t \in pending' => t \in pending /\ status'[t] = status[t],
           retry'.rt \in {ran[t], None}, HasRetry' => retry'.rt = ran[t],
           work'[w].job \in {"off", "join"} => pull'[w].step = "off",
           pull'[w].step # "off" => pull'[w].rt \in {ran[t], None},
           work'[w].job = "retry" => pull'[w].step # "off" /\ pull'[w].rt = ran[t]
    PROVE  OriginInv(t)'
<1>1. CallOrigin(t)'
  BY DEF OriginInv, CallOrigin
<1>2. ASSUME NEW v \in Workers \ {w} PROVE RetrierOrigin(v, t)'
  BY <1>2 DEF OriginInv, RetrierOrigin
<1>3. RetrierOrigin(w, t)'
  BY DEF RetrierOrigin
<1>4. QED
  BY <1>1, <1>2, <1>3 DEF OriginInv

\* A step that leaves the row, the call and what pulls are made for.
LEMMA AsideKeepsOrigin ==
    ASSUME TypeInv, NEW t, Tools = {t}, OriginInv(t), UNCHANGED <<status, pending, ran, work>>,
           HasRetry' <=> HasRetry, retry'.rt = retry.rt,
           \A w \in Workers : /\ pull'[w].rt = pull[w].rt
                              /\ pull'[w].step = "off" <=> pull[w].step = "off"
    PROVE  OriginInv(t)'
BY DEF OriginInv, CallOrigin, RetrierOrigin

LEMMA RetryOrigin ==
    ASSUME TypeInv, NEW t, Tools = {t}, OriginInv(t), NEW w \in Workers, Retry(w)
    PROVE  OriginInv(t)'
<1> USE DEF durable, world, memory, retriers, journal
<1>1. /\ pull \in [Tools \cup Workers -> Pulls] /\ NoPull.step = "off" /\ Idle.job = "off"
      /\ work \in [Workers -> Works] /\ retry \in Rows /\ NoRetry.rt = None /\ NoRetry.attempt = 0
      /\ pending \subseteq {t} /\ t \in Tools
      /\ status \in [Tools -> {"absent", "running", "completed", "failed"}]
  BY AloneTypes DEF NoPull, Idle, NoRetry
<1>2. /\ retry.rt \in {ran[t], None} /\ (HasRetry => retry.rt = ran[t])
      /\ work[w].job \in {"off", "join"} => pull[w].step = "off"
      /\ work[w].job = "retry" => pull[w].step # "off" /\ pull[w].rt = ran[t]
  BY DEF OriginInv, CallOrigin, RetrierOrigin
<1>3. ran[t] # 0
  BY DEF OriginInv, CallOrigin, Retry, RetryCompletes, RetryLoses, RetryFails, SweepCompletes,
     SweepFails, RecoveryPulls, RecoveryCompletes, RecoveryLoses, RecoveryFails, Joined
<1>4. ASSUME StopPull(w)
      PROVE  pull'[w].step = "off" /\ \A v \in Workers \ {w} : pull'[v] = pull[v]
  BY <1>1, <1>4 DEF StopPull
<1>5. ASSUME NEW recovered, NEW more, EndWork(w, recovered, more)
      PROVE  work'[w].job = "off" /\ \A v \in Workers \ {w} : work'[v] = work[v]
  BY <1>1, <1>5 DEF EndWork
<1>6. HasRetry' <=> retry'.attempt > 0
  BY DEF HasRetry
<1>7. CASE Completes(w) \/ SweepCompletes(w)
  <2>1. CompletePending /\ EndWork(w, TRUE, {}) /\ StopPull(w) /\ UNCHANGED <<world, memory>>
    BY <1>7 DEF Completes, SweepCompletes
  <2>2. pending' = {} /\ (UNCHANGED retry \/ retry' = NoRetry)
    BY <1>7, <2>1 DEF Completes, SweepCompletes, CompletePending
  <2>3. retry'.rt \in {ran[t], None} /\ (HasRetry' => retry'.rt = ran[t])
    BY <1>1, <1>2, <1>6, <2>2 DEF HasRetry
  <2>4. QED
    BY <1>3, <1>4, <1>5, <2>1, <2>2, <2>3, RetrierKeepsOrigin
<1>8. CASE Loses(w)
  <2>1. /\ FailPending /\ EndWork(w, TRUE, {}) /\ StopPull(w) /\ UNCHANGED <<world, memory>>
        /\ retry' = NoRetry
    BY <1>8 DEF Loses
  <2>2. ~HasRetry' /\ retry'.rt = None
    BY <1>1, <1>6, <2>1
  <2>3. t \in pending' => t \in pending /\ status'[t] = status[t]
    BY <1>1, <2>1 DEF FailPending
  <2>4. QED
    BY <1>3, <1>4, <1>5, <2>1, <2>2, <2>3, RetrierKeepsOrigin
<1>9. CASE RetryFails(w)
  <2>1. StopPull(w) /\ UNCHANGED <<status, pending, ran>> /\ work[w].job = "retry"
    BY <1>9 DEF RetryFails
  <2>2. CASE work[w].attempt < MaxAttempts
    <3>1. /\ retry' = [attempt |-> work[w].attempt + 1, rt |-> pull[w].rt,
                       exhausted |-> FALSE, due |-> FALSE]
          /\ EndWork(w, TRUE, {"retry"})
      BY <1>9, <2>2 DEF RetryFails
    <3>2. retry'.rt = pull[w].rt
      BY <3>1
    <3>3. QED
      BY <1>2, <1>3, <1>4, <1>5, <2>1, <3>1, <3>2, RetrierKeepsOrigin
  <2>3. CASE ~(work[w].attempt < MaxAttempts)
    <3>1. /\ retry' = IF HasRetry THEN [retry EXCEPT !.exhausted = TRUE] ELSE retry
          /\ StartRecovery(w, work[w].attempt, work[w].sweeping)
      BY <1>9, <2>3 DEF RetryFails
    <3>2. retry'.rt = retry.rt /\ (HasRetry' <=> HasRetry)
      BY <1>1, <3>1 DEF Rows, HasRetry
    <3>3. work'[w].job \in {"recover", "join"} /\ \A v \in Workers \ {w} : work'[v] = work[v]
      BY <1>1, <3>1 DEF StartRecovery, SetWork
    <3>4. QED
      BY <1>2, <1>3, <1>4, <2>1, <3>2, <3>3, RetrierKeepsOrigin
  <2>4. QED
    BY <2>2, <2>3
<1>10. CASE RecoveryPulls(w)
  <2>1. /\ pull' = [pull EXCEPT ![w] = [step |-> "check", rt |-> retry.rt]]
        /\ work[w].job = "recover" /\ UNCHANGED <<durable, world, memory, work>>
    BY <1>10 DEF RecoveryPulls, StartPull
  <2>2. pull'[w] = [step |-> "check", rt |-> retry.rt] /\ \A v \in Workers \ {w} : pull'[v] = pull[v]
    BY <1>1, <2>1
  <2>3. pull'[w].step = "check" /\ pull'[w].rt = retry.rt /\ (HasRetry' <=> HasRetry)
    BY <2>1, <2>2 DEF HasRetry
  <2>4. QED
    BY <1>2, <1>3, <2>1, <2>2, <2>3, RetrierKeepsOrigin
<1>11. CASE SweepFails(w) \/ RecoveryFails(w)
  <2>1. /\ \E recovered \in BOOLEAN : EndWork(w, recovered, {})
        /\ StopPull(w) /\ UNCHANGED <<journal, retry, ran>>
    BY <1>11 DEF SweepFails, RecoveryFails
  <2>2. HasRetry' <=> HasRetry
    BY <2>1 DEF HasRetry
  <2>3. QED
    BY <1>2, <1>3, <1>4, <1>5, <2>1, <2>2, RetrierKeepsOrigin
<1>12. CASE Joined(w)
  <2>1. /\ work[w].job = "join" /\ EndWork(w, ~retry.exhausted, {})
        /\ UNCHANGED <<journal, retry, world, memory, pull>>
    BY <1>12 DEF Joined
  <2>2. HasRetry' <=> HasRetry
    BY <2>1 DEF HasRetry
  <2>3. QED
    BY <1>2, <1>3, <1>5, <2>1, <2>2, RetrierKeepsOrigin
<1>13. QED
  BY <1>7, <1>8, <1>9, <1>10, <1>11, <1>12 DEF Retry, RetryCompletes, RetryLoses,
     RecoveryCompletes, RecoveryLoses

\* A retrier that takes up the row, or sweeps one that has lost its intent.
LEMMA TakenUpOrigin ==
    ASSUME TypeInv, NEW t, Tools = {t}, OriginInv(t), NEW w \in Workers, work[w].job = "off",
           UNCHANGED <<journal, retry, world, memory>>,
           (HasRetry /\ RunRetry(w, FALSE)) \/ RunSweep(w) \/ UNCHANGED <<work, pull>>
    PROVE  OriginInv(t)'
<1> USE DEF world, memory, journal
<1>1. /\ pull \in [Tools \cup Workers -> Pulls] /\ work \in [Workers -> Works]
      /\ pending \subseteq {t} /\ (HasRetry' <=> HasRetry)
  BY AloneTypes DEF HasRetry
<1>2. /\ retry.rt \in {ran[t], None} /\ (HasRetry => retry.rt = ran[t])
      /\ pull[w].step = "off" /\ (ran[t] = 0 => ~HasRetry /\ pending = {})
  BY DEF OriginInv, CallOrigin, RetrierOrigin
<1>3. ASSUME NEW sweeping \in BOOLEAN, HasRetry, RunRetry(w, sweeping) PROVE OriginInv(t)'
  <2>1. CASE retry.exhausted
    <3>1. /\ work'[w].job \in {"recover", "join"} /\ pull' = pull
          /\ \A v \in Workers \ {w} : work'[v] = work[v]
      BY <1>1, <1>3, <2>1 DEF RunRetry, StartRecovery, SetWork
    <3>2. QED
      BY <1>1, <1>2, <1>3, <3>1, RetrierKeepsOrigin
  <2>2. CASE ~retry.exhausted
    <3>1. /\ work'[w].job = "retry" /\ pull'[w] = [step |-> "check", rt |-> retry.rt]
          /\ \A v \in Workers \ {w} : work'[v] = work[v] /\ pull'[v] = pull[v]
      BY <1>1, <1>3, <2>2 DEF RunRetry, StartPull, SetWork
    <3>2. pull'[w].step = "check" /\ pull'[w].rt = retry.rt
      BY <3>1
    <3>3. QED
      BY <1>1, <1>2, <1>3, <3>1, <3>2, RetrierKeepsOrigin
  <2>3. QED
    BY <2>1, <2>2
<1>4. CASE UNCHANGED <<work, pull>>
  BY <1>1, <1>4, AsideKeepsOrigin
<1>5. CASE pending # {} /\ SetWork(w, "sweep", 0, TRUE)
           /\ pull' = [pull EXCEPT ![w] = [step |-> "pull", rt |-> None]]
  <2>1. /\ work'[w].job = "sweep" /\ pull'[w] = [step |-> "pull", rt |-> None]
        /\ \A v \in Workers \ {w} : work'[v] = work[v] /\ pull'[v] = pull[v]
    BY <1>1, <1>5 DEF SetWork
  <2>2. pull'[w].step = "pull" /\ pull'[w].rt = None
    BY <2>1
  <2>3. QED
    BY <1>1, <1>2, <1>5, <2>1, <2>2, RetrierKeepsOrigin
<1>6. CASE RunSweep(w)
  BY <1>3, <1>4, <1>5, <1>6 DEF RunSweep, Retryable
<1>7. QED
  BY <1>3, <1>4, <1>6

LEMMA OriginStep ==
    ASSUME TypeInv, NEW t, Tools = {t}, OriginInv(t), [Next]_vars
    PROVE  OriginInv(t)'
<1> USE DEF durable, world, memory, retriers, journal, Untouched
<1>1. ASSUME NEW u \in Tools, Command(u) PROVE OriginInv(t)'
  BY <1>1, CommandOrigin
<1>2. ASSUME NEW w \in Workers, Retry(w) PROVE OriginInv(t)'
  BY <1>2, RetryOrigin
<1>3. ASSUME NEW p \in Tools \cup Workers, PullChecked(p) \/ Pulled(p) PROVE OriginInv(t)'
  <2>1. PICK step \in {"pull", "recheck"} : pull' = [pull EXCEPT ![p].step = step]
    BY <1>3 DEF PullChecked, Pulled
  <2>2. UNCHANGED <<durable, ran, work>> /\ pull[p].step # "off"
    BY <1>3 DEF PullChecked, Pulled
  <2>3. \A w \in Workers : /\ pull'[w].rt = pull[w].rt
                           /\ pull'[w].step = "off" <=> pull[w].step = "off"
    BY <2>1, <2>2, AloneTypes DEF Pulls
  <2>4. QED
    BY <2>2, <2>3, AsideKeepsOrigin DEF HasRetry
<1>4. CASE AlarmRetries
  BY <1>4, AloneTypes, TakenUpOrigin DEF AlarmRetries
<1>5. CASE AlarmSweeps
  BY <1>5, AloneTypes, TakenUpOrigin DEF AlarmSweeps
<1>6. CASE BootSweeps
  <2>1. CASE work["boot"].job = "off"
    BY <1>6, <2>1, AloneTypes, TakenUpOrigin DEF BootSweeps
  <2>2. CASE work["boot"].job # "off"
    BY <1>6, <2>2, AsideKeepsOrigin DEF BootSweeps, HasRetry
  <2>3. QED
    BY <2>1, <2>2
<1>7. CASE BackoffElapses
  <2>1. retry'.rt = retry.rt /\ (HasRetry' <=> HasRetry)
    BY <1>7, AloneTypes DEF BackoffElapses, Rows, HasRetry
  <2>2. QED
    BY <1>7, <2>1, AsideKeepsOrigin DEF BackoffElapses
<1>8. CASE ContainerReplaced
  BY <1>8, AsideKeepsOrigin DEF ContainerReplaced, HasRetry
<1>9. CASE Restart
  <2>1. \A w \in Workers : work'[w].job = "off" /\ pull'[w].step = "off"
    BY <1>9 DEF Restart, Idle, NoPull
  <2>2. CallOrigin(t)'
    BY <1>9, <2>1 DEF Restart, OriginInv, CallOrigin, HasRetry
  <2>3. QED
    BY <2>1, <2>2 DEF OriginInv, RetrierOrigin
<1>10. CASE UNCHANGED vars
  BY <1>10, AsideKeepsOrigin DEF vars, HasRetry
<1>11. QED
  BY <1>1, <1>2, <1>3, <1>4, <1>5, <1>6, <1>7, <1>8, <1>9, <1>10 DEF Next

\* A command that has the workspace to itself, cancelled or not, is failed while its sync
\* waits only when the container that ran it is gone: neither an exhausted row, nor a
\* retrier that a restart or another one overtook, nor a sweep after the intent was
\* dropped gives it up while its changes can still be pulled.
THEOREM AloneFailedOnlyWhenLost ==
    ASSUME NEW only, Tools = {only} PROVE Spec => FailedOnlyWhenLost
<1>1. ASSUME TypeInv, OriginInv(only), [Next]_vars
      PROVE  [ \A t \in pending : status'[t] = "failed" => ran[t] # container ]_vars
  <2>1. SUFFICES ASSUME only \in pending, status'[only] = "failed" PROVE ran[only] # container
    BY <1>1, AloneTypes
  <2> USE DEF durable, world, memory, retriers, journal, Untouched
  <2>2. status[only] = "running" /\ status \in [Tools -> {"absent", "running", "completed", "failed"}]
        /\ only \in Tools
    BY <1>1, <2>1, AloneTypes DEF OriginInv, CallOrigin
  <2>3. ~Command(only)
    <3>1. ~FailTool(only) /\ CancelIsActive(only)
      BY <2>1 DEF FailTool, CancelIsActive
    <3>2. ~RecoveredEnds(only)
      BY <2>1, <2>2 DEF RecoveredEnds, FailCancelled
    <3>3. QED
      BY <2>1, <2>2, <3>1, <3>2 DEF KillRecovered, RecoveredUnsettled, Command, Begin, EnterExec, Exec, ExecRefused, CommandEnds, Exited,
         ConfirmOk, ConfirmLost, ConfirmPending, StreamBroken, CompleteTool, CancelTool
  <2>4. PICK w \in Workers : Loses(w)
    <3>1. ~UNCHANGED status
      BY <2>1, <2>2
    <3>2. PICK w \in Workers : Retry(w)
      BY <1>1, <2>3, <3>1 DEF Next, PullChecked, Pulled, AlarmRetries, AlarmSweeps, BootSweeps,
         BackoffElapses, ContainerReplaced, Restart, vars
    <3>3. ~CompletePending
      BY <2>1, <2>2 DEF CompletePending
    <3>4. QED
      BY <3>1, <3>2, <3>3 DEF Retry, RetryCompletes, RetryLoses, RetryFails, SweepCompletes,
         SweepFails, RecoveryPulls, RecoveryCompletes, RecoveryLoses, RecoveryFails, Joined,
         Completes
  <2>5. pull[w].step # "off" => pull[w].rt \in {ran[only], None}
    BY <1>1, <2>1 DEF OriginInv, RetrierOrigin
  <2>6. QED
    BY <2>4, <2>5 DEF Loses, PullLost, FromOrigin
<1>2. Init => TypeInv /\ OriginInv(only)
  BY InitTypes, InitOrigin
<1>3. TypeInv /\ OriginInv(only) /\ [Next]_vars => TypeInv' /\ OriginInv(only)'
  BY TypeStep, OriginStep
<1>4. QED
  BY <1>1, <1>2, <1>3, PTL DEF Spec, FailedOnlyWhenLost
=============================================================================
