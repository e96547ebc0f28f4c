----------------------------- MODULE CommandSync -----------------------------
(* What happens between a workspace command's end and the durable result of   *)
(* its tool call. A command changes files in the container; they are durable  *)
(* once a pull brought them into the Durable Object, and only a pull from the *)
(* container that ran the command can. A pull that fails leaves the tool call *)
(* pending: a retry row, two alarm callbacks, a sweep at every start of the   *)
(* object and a recovery of last resort then settle it.                       *)
(*                                                                            *)
(* Sources: user-workspace-runtime/src/workspace-sync-retry.ts, the pending   *)
(* rows of tool-operation-journal.ts, scheduled-callbacks.ts, and in index.ts *)
(* confirmCommandSync, retryPendingComputerSync, reconcilePendingCommands,    *)
(* recoverExhaustedComputerSync, registerPendingCommand, cancelExecution.     *)
(*                                                                            *)
(* Steps between two awaits on the container are one action each.             *)
EXTENDS Naturals, FiniteSets

CONSTANTS
    Tools,          \* exec tool calls
    Cancellable,    \* those whose caller may give up on them
    MaxAttempts,    \* WORKSPACE_SYNC_RETRY_POLICY.maxAttempts
    MaxContainers,  \* bound: how many containers the workspace gets, the first included
    MaxRestarts,    \* bound: how often the object restarts
    None

Workers == {"alarm", "boot"}

ASSUME SyncConstants ==
    /\ Cancellable \subseteq Tools
    /\ MaxAttempts \in Nat \ {0} /\ MaxContainers \in Nat \ {0} /\ MaxRestarts \in Nat
    /\ None \notin Tools \cup Workers \cup Nat
    /\ Tools \cap Workers = {}

VARIABLES
    \* durable in the object
    status,     \* the journal's status of each tool call
    marked,     \* running rows with an error: a cancellation was recorded
    pending,    \* running rows that wait for their synchronization
    retry,      \* the container-shell row of the retry table; attempt 0: no row
    wakes,      \* scheduled callbacks
    \* the container and the durable files
    container,  \* the container the workspace has now
    ran,        \* the container a tool call's command ran in; 0: none yet
    command,    \* the command there
    saved,      \* tool calls whose changes reached the durable files
    \* lost with the instance
    owned,      \* #ownedToolOperations
    confirmed,  \* #confirmedCommandCancellations
    phase,      \* where each call's executeStream is
    killing,    \* recovered commands a cancelExecution is ending
    sweep,      \* a reconcilePendingCommands handed to waitUntil that has not started
    work,       \* what each retrier is doing
    pull,       \* the pull of each call or retrier: its step and the runtime it must be from
    failures,   \* #syncRecoveryFailures
    restarts

journal == <<status, marked, pending>>
durable == <<status, marked, pending, retry, wakes>>
world == <<container, ran, command, saved>>
memory == <<owned, confirmed, phase, killing>>
retriers == <<sweep, work, failures>>
vars == <<durable, world, memory, retriers, pull, restarts>>

NoRetry == [attempt |-> 0, rt |-> None, exhausted |-> FALSE, due |-> FALSE]
NoPull == [step |-> "off", rt |-> None]
Idle == [job |-> "off", attempt |-> 0, sweeping |-> FALSE]

Containers == 1..MaxContainers
InOperation == {"executing", "confirming"}
Streaming == {"probing"} \cup InOperation

TypeOK ==
    /\ status \in [Tools -> {"absent", "running", "completed", "failed"}]
    /\ marked \subseteq Tools /\ pending \subseteq Tools
    /\ retry \in [attempt : 0..MaxAttempts, rt : Containers \cup {None},
                  exhausted : BOOLEAN, due : BOOLEAN]
    /\ wakes \subseteq {"retry", "reconcile"}
    /\ container \in Containers
    /\ ran \in [Tools -> 0..MaxContainers]
    /\ command \in [Tools -> {"none", "running", "finished"}]
    /\ saved \subseteq Tools /\ owned \subseteq Tools /\ confirmed \subseteq Tools
    /\ killing \subseteq Cancellable
    /\ phase \in [Tools -> {"idle", "interrupted", "succeeded", "errored"} \cup Streaming]
    /\ sweep \in BOOLEAN
    /\ work \in [Workers -> [job : {"off", "retry", "sweep", "recover", "join"},
                             attempt : 0..MaxAttempts, sweeping : BOOLEAN]]
    /\ pull \in [Tools \cup Workers -> [step : {"off", "check", "pull", "recheck"},
                                        rt : Containers \cup {None}]]
    /\ failures \in 0..1
    /\ restarts \in 0..MaxRestarts

Init ==
    /\ status = [t \in Tools |-> "absent"]
    /\ marked = {} /\ pending = {}
    /\ retry = NoRetry /\ wakes = {}
    /\ container = 1
    /\ ran = [t \in Tools |-> 0]
    /\ command = [t \in Tools |-> "none"]
    /\ saved = {} /\ owned = {} /\ confirmed = {} /\ killing = {}
    /\ phase = [t \in Tools |-> "idle"]
    /\ sweep = FALSE
    /\ work = [w \in Workers |-> Idle]
    /\ pull = [p \in Tools \cup Workers |-> NoPull]
    /\ failures = 0 /\ restarts = 0

-----------------------------------------------------------------------------
(* The journal's pending rows and the retry row.                              *)

HasRetry == retry.attempt > 0

\* requireWorkspaceSyncBarrier throws.
Blocked == pending # {} \/ HasRetry

Intent(rt) == [attempt |-> 1, rt |-> rt, exhausted |-> FALSE, due |-> FALSE]

\* Faulty form: the intent names the container there is, not the one that ran.
SchedulePendingHere(rt) ==
    /\ rt \in Containers
    /\ retry' = Intent(container) /\ wakes' = wakes \cup {"retry"}

\* schedulePending: unless an intent of the same runtime is recorded.
SchedulePending(rt) ==
    IF HasRetry /\ retry.rt = rt
    THEN UNCHANGED <<retry, wakes>>
    ELSE retry' = Intent(rt) /\ wakes' = wakes \cup {"retry"}

\* registerPendingCommand: the row waits, the intent is recorded, and a sweep
\* is handed to waitUntil.
CanWait(t) == status[t] = "running" /\ pending \subseteq {t}

RegisterPending(t, rt) ==
    /\ CanWait(t)
    /\ pending' = {t}
    /\ SchedulePending(rt)
    /\ sweep' = TRUE

CompletePending ==
    /\ status' = [t \in Tools |-> IF t \in pending THEN "completed" ELSE status[t]]
    /\ marked' = marked \ pending
    /\ pending' = {}

\* fail leaves a row with an error, which a cancellation recorded, as it is.
FailPending ==
    /\ status' = [t \in Tools |-> IF t \in pending \ marked THEN "failed" ELSE status[t]]
    /\ pending' = pending \cap marked
    /\ UNCHANGED marked

FailRow(t) ==
    /\ status' = [status EXCEPT ![t] = "failed"]
    /\ marked' = marked \ {t}
    /\ UNCHANGED pending

\* fail: a row with an error keeps it and stays running.
FailUnmarked(t) == IF t \in marked THEN UNCHANGED journal ELSE FailRow(t)

-----------------------------------------------------------------------------
(* pullFromOriginRuntime: check the runtime, pull, check it again. Anything    *)
(* can happen between the three.                                              *)

StartPull(p, rt) == pull' = [pull EXCEPT ![p] = [step |-> "check", rt |-> rt]]

FromOrigin(p) == pull[p].rt \in {None, container}

\* A pull brings what finished commands left in the container it reaches.
Arrived == {t \in Tools : ran[t] = container /\ command[t] = "finished"}

PullChecked(p) ==
    /\ pull[p].step = "check" /\ FromOrigin(p)
    /\ pull' = [pull EXCEPT ![p].step = "pull"]
    /\ UNCHANGED <<durable, world, memory, retriers, restarts>>

Pulled(p) ==
    /\ pull[p].step = "pull"
    /\ saved' = saved \cup Arrived
    /\ pull' = [pull EXCEPT ![p].step = "recheck"]
    /\ UNCHANGED <<durable, container, ran, command, memory, retriers, restarts>>

\* Faulty form: a pull that finished is proof, whatever container it came from.
PullOkUnchecked(p) == pull[p].step = "recheck"

\* Faulty form: a container that cannot be reached is taken for a lost one.
PullLostUnseen(p) == pull[p].step \in {"check", "recheck"}

PullOk(p) == pull[p].step = "recheck" /\ FromOrigin(p)
PullLost(p) == pull[p].step \in {"check", "recheck"} /\ ~FromOrigin(p)
PullFailed(p) == pull[p].step # "off"

-----------------------------------------------------------------------------
(* A command, from beginToolOperation to its result.                          *)

Begin(t) ==
    /\ status[t] = "absent" /\ ~Blocked
    /\ status' = [status EXCEPT ![t] = "running"]
    /\ owned' = owned \cup {t}
    /\ UNCHANGED <<marked, pending, retry, wakes, world, confirmed, phase, killing, retriers, pull,
                   restarts>>

Runnable(t) == status[t] = "running" /\ t \notin marked

\* A fresh command, or one of an earlier instance the container still shows.
Openable(t) ==
    \/ t \in owned /\ ran[t] = 0
    \/ t \notin owned /\ ran[t] = container

\* withStatefulOperation asks whether new work is blocked, and then, if the lane
\* was left by another command, asks the container about that one.
EnterExec(t) ==
    /\ phase[t] \in {"idle", "interrupted"} /\ Runnable(t) /\ ~Blocked
    /\ \E u \in Tools \ {t} : phase[u] = "interrupted"
    /\ phase' = [phase EXCEPT ![t] = "probing"]
    /\ UNCHANGED <<durable, world, owned, confirmed, killing, retriers, pull, restarts>>

\* openCommandHandle, in the lane: one command at a time.
Exec(t) ==
    /\ Runnable(t) /\ Openable(t)
    /\ \A u \in Tools : phase[u] \notin InOperation
    /\ \/ phase[t] = "probing"
       \/ phase[t] \in {"idle", "interrupted"} /\ ~Blocked
    /\ phase' = [phase EXCEPT ![t] = "executing"]
    /\ IF ran[t] = 0
       THEN /\ ran' = [ran EXCEPT ![t] = container]
            /\ command' = [command EXCEPT ![t] = "running"]
       ELSE UNCHANGED <<ran, command>>
    /\ UNCHANGED <<durable, container, saved, owned, confirmed, killing, retriers, pull, restarts>>

\* The call cannot have the lane, or has nothing to adopt.
ExecRefused(t) ==
    /\ phase[t] \in {"probing", "interrupted"}
    /\ ~Runnable(t) \/ ~Openable(t)
    /\ phase' = [phase EXCEPT ![t] = "errored"]
    /\ UNCHANGED <<durable, world, owned, confirmed, killing, retriers, pull, restarts>>

\* A command ends by itself, or is killed, wherever its caller is.
CommandEnds(t) ==
    /\ command[t] = "running"
    /\ command' = [command EXCEPT ![t] = "finished"]
    /\ UNCHANGED <<durable, container, ran, saved, memory, retriers, pull, restarts>>

\* The stream ended with the command's exit: its sync is confirmed.
Exited(t) ==
    /\ phase[t] = "executing" /\ command[t] = "finished" /\ ran[t] = container
    /\ phase' = [phase EXCEPT ![t] = "confirming"]
    /\ StartPull(t, ran[t])
    /\ UNCHANGED <<durable, world, owned, confirmed, killing, retriers, restarts>>

ConfirmEnds(t, outcome) ==
    /\ phase' = [phase EXCEPT ![t] = outcome]
    /\ pull' = [pull EXCEPT ![t] = NoPull]
    /\ UNCHANGED <<world, owned, confirmed, killing, work, failures, restarts>>

ConfirmOk(t) ==
    /\ phase[t] = "confirming" /\ PullOk(t)
    /\ ConfirmEnds(t, "succeeded")
    /\ UNCHANGED <<durable, sweep>>

ConfirmLost(t) ==
    /\ phase[t] = "confirming" /\ PullLost(t)
    /\ ConfirmEnds(t, "errored")
    /\ UNCHANGED <<durable, sweep>>

\* The pull failed: schedulePending records the intent; the row waits, unless
\* another row does or it is no longer running.
ConfirmPending(t) ==
    /\ phase[t] = "confirming" /\ PullFailed(t)
    /\ ConfirmEnds(t, "errored")
    /\ UNCHANGED <<status, marked>>
    /\ \/ RegisterPending(t, ran[t])
       \/ ~CanWait(t) /\ SchedulePending(ran[t]) /\ UNCHANGED <<pending, sweep>>

\* The event stream broke: the command is killed, and its sync stays pending,
\* unless its end cannot be observed.
StreamBroken(t) ==
    /\ phase[t] = "executing"
    /\ phase' = [phase EXCEPT ![t] = "errored"]
    /\ \/ /\ ran[t] = container
          /\ command' = [command EXCEPT ![t] = "finished"]
          /\ RegisterPending(t, ran[t])
       \/ UNCHANGED <<command, pending, retry, wakes, sweep>>
    /\ UNCHANGED <<status, marked, container, ran, saved, owned, confirmed, killing, work, failures,
                   pull, restarts>>

\* completeToolOperation.
CompleteTool(t) ==
    /\ phase[t] = "succeeded" /\ Runnable(t)
    /\ status' = [status EXCEPT ![t] = "completed"]
    /\ pending' = pending \ {t}
    /\ owned' = owned \ {t}
    /\ UNCHANGED <<marked, retry, wakes, world, confirmed, phase, killing, retriers, pull, restarts>>

\* The caller was given an error that is no pending sync: it terminalizes the row.
FailTool(t) ==
    /\ \/ phase[t] = "errored"
       \/ phase[t] = "succeeded" /\ t \in Cancellable
    /\ status[t] = "running" /\ t \notin pending
    /\ FailUnmarked(t)
    /\ owned' = owned \ {t}
    /\ UNCHANGED <<retry, wakes, world, confirmed, phase, killing, retriers, pull, restarts>>

-----------------------------------------------------------------------------
(* A caller that gives up: cancelToolOperation until the row is settled, and  *)
(* cancelExecution for the command.                                           *)

CancelIsActive(t) ==
    \/ phase[t] \in Streaming \/ t \in pending
    \/ t \notin owned /\ t \notin confirmed

CancelTool(t) ==
    /\ t \in Cancellable /\ status[t] = "running"
    /\ IF CancelIsActive(t)
       THEN marked' = marked \cup {t} /\ UNCHANGED <<status, pending, owned, confirmed>>
       ELSE FailRow(t) /\ owned' = owned \ {t} /\ confirmed' = confirmed \ {t}
    /\ UNCHANGED <<retry, wakes, world, phase, killing, retriers, pull, restarts>>

\* cancelExecution of a command this instance does not run: the kill and the wait for
\* the command's end are sent to the container.
KillRecovered(t) ==
    /\ t \in Cancellable /\ status[t] = "running"
    /\ t \notin owned \cup pending \cup killing /\ phase[t] \notin Streaming
    /\ killing' = killing \cup {t}
    /\ UNCHANGED <<durable, world, owned, confirmed, phase, retriers, pull, restarts>>

\* What the row's cancellation does once its command's end was observed, whatever
\* became of the row meanwhile.
FailCancelled(t) ==
    IF status[t] = "running" /\ t \notin pending THEN FailUnmarked(t) ELSE UNCHANGED journal

\* Its end was observed, and what became of its sync: it waits, or it is saved.
RecoveredEnds(t) ==
    /\ t \in killing /\ ran[t] = container /\ command[t] = "finished"
    /\ killing' = killing \ {t} /\ confirmed' = confirmed \cup {t}
    /\ \/ /\ RegisterPending(t, container)
          /\ UNCHANGED <<status, marked, saved>>
       \/ /\ saved' = saved \cup {t}
          /\ FailCancelled(t)
          /\ UNCHANGED <<retry, wakes, sweep>>
    /\ UNCHANGED <<container, ran, command, owned, phase, work, failures, pull, restarts>>

\* Its end could not be observed, or the row cannot wait: the call is refused.
RecoveredUnsettled(t) ==
    /\ t \in killing /\ killing' = killing \ {t}
    /\ UNCHANGED <<durable, world, owned, confirmed, phase, retriers, pull, restarts>>

-----------------------------------------------------------------------------
(* The retriers: the alarm's callback and a sweep handed to waitUntil. Their  *)
(* steps interleave with each other and with the commands'.                   *)

SetWork(w, job, attempt, sweeping) ==
    work' = [work EXCEPT ![w] = [job |-> job, attempt |-> attempt, sweeping |-> sweeping]]

Recovering == \E w \in Workers : work[w].job = "recover"

\* Recovery is single-flight: a second caller waits for the first one's answer.
StartRecovery(w, attempt, sweeping) ==
    SetWork(w, IF Recovering THEN "join" ELSE "recover", attempt, sweeping)

\* Faulty form: an unfinished recovery is not tried again.
EndWorkOnce(w, recovered, moreWakes) ==
    /\ recovered \in BOOLEAN
    /\ work' = [work EXCEPT ![w] = Idle]
    /\ wakes' = wakes \cup moreWakes

\* The end of a callback. An unfinished recovery asks for a sweep later; a sweep
\* asks for another one while something is outstanding.
EndWork(w, recovered, moreWakes) ==
    /\ work' = [work EXCEPT ![w] = Idle]
    /\ wakes' = wakes \cup moreWakes \cup
         IF \/ ~recovered /\ ~(work[w].sweeping /\ work[w].attempt = 0)
            \/ work[w].sweeping /\ (pending' # {} \/ retry'.exhausted)
         THEN {"reconcile"} ELSE {}

\* retryPendingComputerSync on a row that is due or exhausted.
Retryable == HasRetry /\ (retry.due \/ retry.exhausted)

RunRetry(w, sweeping) ==
    IF retry.exhausted
    THEN StartRecovery(w, 0, sweeping) /\ UNCHANGED pull
    ELSE SetWork(w, "retry", retry.attempt, sweeping) /\ StartPull(w, retry.rt)

\* reconcilePendingCommands: without a retry row an ordinary pull is the proof.
RunSweep(w) ==
    IF Retryable THEN RunRetry(w, TRUE)
    ELSE IF pending # {} /\ ~HasRetry
    THEN /\ SetWork(w, "sweep", 0, TRUE)
         /\ pull' = [pull EXCEPT ![w] = [step |-> "pull", rt |-> None]]
    ELSE UNCHANGED <<work, pull>>

\* What a sweep that found its row not yet due schedules.
SweptTooEarly == IF pending # {} /\ HasRetry /\ ~Retryable THEN {"reconcile"} ELSE {}

Untouched == <<journal, retry, world, memory, failures, restarts>>

\* The object's alarm runs what is due, one callback after another, and removes
\* it before it runs. A row that is not due yet only re-arms its own wake.
AlarmRetries ==
    /\ work["alarm"].job = "off" /\ "retry" \in wakes
    /\ ~HasRetry \/ Retryable
    /\ wakes' = wakes \ {"retry"}
    /\ IF HasRetry THEN RunRetry("alarm", FALSE) ELSE UNCHANGED <<work, pull>>
    /\ UNCHANGED <<Untouched, sweep>>

AlarmSweeps ==
    /\ work["alarm"].job = "off" /\ "reconcile" \in wakes
    /\ wakes' = (wakes \ {"reconcile"}) \cup SweptTooEarly
    /\ RunSweep("alarm")
    /\ UNCHANGED <<Untouched, sweep>>

\* A sweep handed to waitUntil. Bound: while one of them works, another only
\* stores its wake.
BootSweeps ==
    /\ sweep /\ sweep' = FALSE
    /\ wakes' = wakes \cup SweptTooEarly
    /\ IF work["boot"].job = "off" THEN RunSweep("boot") ELSE UNCHANGED <<work, pull>>
    /\ UNCHANGED Untouched

BackoffElapses ==
    /\ HasRetry /\ ~retry.due
    /\ retry' = [retry EXCEPT !.due = TRUE]
    /\ UNCHANGED <<journal, wakes, world, memory, retriers, pull, restarts>>

StopPull(w) == pull' = [pull EXCEPT ![w] = NoPull]

Completes(w) ==
    /\ PullOk(w)
    /\ retry' = NoRetry
    /\ CompletePending
    /\ EndWork(w, TRUE, {}) /\ StopPull(w)
    /\ UNCHANGED <<world, memory, sweep, restarts>>

Loses(w) ==
    /\ PullLost(w)
    /\ retry' = NoRetry
    /\ FailPending
    /\ EndWork(w, TRUE, {}) /\ StopPull(w)
    /\ UNCHANGED <<world, memory, sweep, restarts>>

RetryCompletes(w) == work[w].job = "retry" /\ Completes(w) /\ UNCHANGED failures
RetryLoses(w) == work[w].job = "retry" /\ Loses(w) /\ UNCHANGED failures

\* Faulty form: the attempt after the last one is stored too.
RetryFailsLate(w) ==
    /\ work[w].job = "retry" /\ PullFailed(w)
    /\ StopPull(w) /\ UNCHANGED journal
    /\ retry' = [attempt |-> work[w].attempt + 1, rt |-> pull[w].rt,
                 exhausted |-> FALSE, due |-> FALSE]
    /\ EndWork(w, TRUE, {"retry"})
    /\ UNCHANGED <<world, memory, sweep, failures, restarts>>

\* A failed attempt stores the next one; the last one leaves its row exhausted
\* and goes on to the recovery.
RetryFails(w) ==
    /\ work[w].job = "retry" /\ PullFailed(w)
    /\ StopPull(w) /\ UNCHANGED journal
    /\ IF work[w].attempt < MaxAttempts
       THEN /\ retry' = [attempt |-> work[w].attempt + 1, rt |-> pull[w].rt,
                         exhausted |-> FALSE, due |-> FALSE]
            /\ EndWork(w, TRUE, {"retry"})
       ELSE /\ retry' = IF HasRetry THEN [retry EXCEPT !.exhausted = TRUE] ELSE retry
            /\ StartRecovery(w, work[w].attempt, work[w].sweeping)
            /\ UNCHANGED wakes
    /\ UNCHANGED <<world, memory, sweep, failures, restarts>>

SweepCompletes(w) ==
    /\ work[w].job = "sweep" /\ PullOk(w)
    /\ CompletePending /\ UNCHANGED retry
    /\ EndWork(w, TRUE, {}) /\ StopPull(w)
    /\ UNCHANGED <<world, memory, sweep, failures, restarts>>

SweepFails(w) ==
    /\ work[w].job = "sweep" /\ PullFailed(w)
    /\ UNCHANGED <<journal, retry>>
    /\ EndWork(w, TRUE, {}) /\ StopPull(w)
    /\ UNCHANGED <<world, memory, sweep, failures, restarts>>

\* recoverExhaustedComputerSync, once the stale connection is closed.
RecoveryPulls(w) ==
    /\ work[w].job = "recover" /\ pull[w].step = "off"
    /\ StartPull(w, retry.rt)
    /\ UNCHANGED <<durable, world, memory, retriers, restarts>>

RecoveryCompletes(w) == work[w].job = "recover" /\ Completes(w) /\ failures' = 0
RecoveryLoses(w) == work[w].job = "recover" /\ Loses(w) /\ failures' = 0

\* The second failure in a row recycles the container, if it can.
RecoveryFails(w) ==
    /\ work[w].job = "recover" /\ PullFailed(w)
    /\ failures' = 1 - failures
    /\ container' \in {container} \cup
         (IF failures = 1 /\ container < MaxContainers THEN {container + 1} ELSE {})
    /\ UNCHANGED <<journal, retry>>
    /\ EndWork(w, FALSE, {}) /\ StopPull(w)
    /\ UNCHANGED <<ran, command, saved, memory, sweep, restarts>>

\* The answer of the recovery it waited for; a failed one is still outstanding.
Joined(w) ==
    /\ work[w].job = "join" /\ ~Recovering
    /\ UNCHANGED <<journal, retry>>
    /\ EndWork(w, ~retry.exhausted, {})
    /\ UNCHANGED <<world, memory, sweep, failures, pull, restarts>>

-----------------------------------------------------------------------------
ContainerReplaced ==
    /\ container < MaxContainers
    /\ container' = container + 1
    /\ UNCHANGED <<durable, ran, command, saved, memory, retriers, pull, restarts>>

\* Faulty form: the constructor wakes nothing.
RestartForgetfully ==
    /\ restarts < MaxRestarts
    /\ restarts' = restarts + 1
    /\ owned' = {} /\ confirmed' = {} /\ killing' = {} /\ sweep' = FALSE /\ failures' = 0
    /\ phase' = [t \in Tools |-> IF phase[t] \in Streaming THEN "interrupted" ELSE phase[t]]
    /\ work' = [w \in Workers |-> Idle]
    /\ pull' = [p \in Tools \cup Workers |-> NoPull]
    /\ UNCHANGED <<durable, world>>

\* A restart forgets what runs. The constructor wakes the retry of a row that is
\* not exhausted and sweeps what is outstanding.
Restart ==
    /\ restarts < MaxRestarts
    /\ restarts' = restarts + 1
    /\ owned' = {} /\ confirmed' = {} /\ killing' = {}
    /\ phase' = [t \in Tools |-> IF phase[t] \in Streaming THEN "interrupted" ELSE phase[t]]
    /\ sweep' = (pending # {} \/ retry.exhausted)
    /\ wakes' = wakes \cup (IF HasRetry /\ ~retry.exhausted THEN {"retry"} ELSE {})
    /\ work' = [w \in Workers |-> Idle]
    /\ pull' = [p \in Tools \cup Workers |-> NoPull]
    /\ failures' = 0
    /\ UNCHANGED <<journal, retry, world>>

Command(t) ==
    \/ Begin(t) \/ EnterExec(t) \/ Exec(t) \/ ExecRefused(t) \/ CommandEnds(t)
    \/ Exited(t) \/ ConfirmOk(t) \/ ConfirmLost(t) \/ ConfirmPending(t) \/ StreamBroken(t)
    \/ CompleteTool(t) \/ FailTool(t) \/ CancelTool(t)
    \/ KillRecovered(t) \/ RecoveredEnds(t) \/ RecoveredUnsettled(t)

Retry(w) ==
    \/ RetryCompletes(w) \/ RetryLoses(w) \/ RetryFails(w)
    \/ SweepCompletes(w) \/ SweepFails(w)
    \/ RecoveryPulls(w) \/ RecoveryCompletes(w) \/ RecoveryLoses(w) \/ RecoveryFails(w)
    \/ Joined(w)

\* A sweep reaches its first await on the container before any other event is
\* delivered: from the constructor at once, after registerPendingCommand behind
\* nothing but the storage write of the wake.
Next ==
    \/ BootSweeps
    \/ /\ ~sweep
       /\ \/ \E t \in Tools : Command(t)
          \/ \E w \in Workers : Retry(w)
          \/ \E p \in Tools \cup Workers : PullChecked(p) \/ Pulled(p)
          \/ AlarmRetries \/ AlarmSweeps \/ BackoffElapses
          \/ ContainerReplaced \/ Restart

Spec == Init /\ [][Next]_vars

\* What is scheduled runs, what runs ends, and a container that is asked again
\* and again answers some time.
FairSpec ==
    /\ Spec
    /\ WF_vars(BootSweeps) /\ WF_vars(BackoffElapses)
    /\ WF_vars(AlarmRetries) /\ WF_vars(AlarmSweeps)
    /\ \A w \in Workers :
        /\ WF_vars(Retry(w))
        /\ SF_vars(PullChecked(w)) /\ SF_vars(Pulled(w))
        /\ SF_vars(RetryCompletes(w) \/ SweepCompletes(w) \/ RecoveryCompletes(w))
        /\ SF_vars(RetryLoses(w) \/ RecoveryLoses(w))

-----------------------------------------------------------------------------
(* Properties.                                                                *)

\* No command is reported as completed unless a pull from the container that
\* ran it brought its changes into the durable files: "A command is not a
\* durable mutation until the files it changed in the container have been
\* pulled" (workspace-sync-retry.ts).
CompletedIsSaved == \A t \in Tools : status[t] = "completed" => t \in saved

\* Within one instance the intent stored for a waiting command names the container
\* that ran it, however often it is reported, retried or recovered
\* (schedulePending, rearm).
IntentNamesItsRuntime ==
    restarts = 0 => \A t \in pending : HasRetry => retry.rt = ran[t]

\* While a sync is outstanding, something is left that will settle it: a stored
\* wake, a sweep handed over, or a retrier at work. A callback is removed before
\* it runs, so a restart in the middle of one relies on the constructor.
NeverStranded ==
    pending # {} \/ HasRetry =>
        \/ wakes # {} \/ sweep
        \/ \E w \in Workers : work[w].job # "off"

\* A waiting command is failed only once the container that ran it is gone; a
\* container that cannot be reached is a failed attempt (WorkspaceSyncPullTarget).
FailedOnlyWhenLost ==
    [][ \A t \in pending : status'[t] = "failed" => ran[t] # container ]_vars

\* A waiting command does not wait for ever: whatever fails and restarts, a
\* retry, a sweep or the recovery of an exhausted row settles it.
EveryPendingIsSettled == \A t \in Tools : t \in pending ~> t \notin pending
=============================================================================
