----------------------------- MODULE ToolJournal -----------------------------
(* A file mutation (write, edit) by a model's tool call, from the client in    *)
(* the agent to the journal row and the change in the workspace. Either object *)
(* can restart at any await; a call is then attempted again under its          *)
(* identifier, while requests of the attempt before are still under way.       *)
(*                                                                            *)
(* Sources: user-workspace-runtime/src/tool-operation-journal.ts, and          *)
(* beginToolOperation, completeToolOperation, cancelToolOperation and          *)
(* applyChanges in its index.ts; #executeTool, #settleWithRetries and the busy *)
(* retry in app/lib/.server/cloudflare/user-workspace-runtime-client.ts.       *)
(*                                                                            *)
(* One action is what a handler or the client does between two awaits.         *)
EXTENDS Naturals

CONSTANTS
    Calls,        \* tool calls
    MaxTries,     \* bound: how often a call is attempted
    MaxRestarts,  \* bound: how often the workspace restarts
    Other,        \* whoever else works in the lane: an editor save, another chat
    None

ASSUME JournalConstants ==
    /\ MaxTries \in Nat /\ MaxRestarts \in Nat
    /\ Other \notin Calls /\ None \notin Calls \cup {Other}

Attempts == Calls \X (1..MaxTries)
Call(p) == p[1]

VARIABLES
    \* durable in the workspace
    status,      \* the journal's status of each call
    marked,      \* running rows with an error: a cancellation was recorded
    tombstones,  \* cancellations of calls that had not begun
    receipt,     \* the mutation receipt in a completed row
    refused,     \* failed rows whose error is a lane conflict
    landed,      \* calls whose change is in the project
    lane,        \* who holds the operation lane
    stale,       \* attempts whose base is no longer the project's revision
    \* the workspace's instance
    active,      \* #activeToolOperations
    apply,       \* where each attempt's applyChanges is
    restarts,
    \* requests on their way
    net,
    \* the client, lost with the agent
    phase,       \* where each attempt's #executeTool is, or what the model is told of it
    stopped,     \* attempts whose abort signal fired
    cancelling,  \* attempts that wait for the row to be settled
    unsettled,   \* attempts that gave up waiting
    wrote,       \* attempts whose applyChanges was answered with a new state
    settled      \* calls of which an attempt was told that they are settled

journal == <<status, marked, tombstones, receipt, refused>>
workspace == <<landed, lane, stale, active, apply, restarts>>
client == <<phase, stopped, cancelling, unsettled, wrote, settled>>
vars == <<journal, workspace, net, client>>

\* An applyChanges in the lane, and one the workspace works on.
InLane == {"entered", "reading", "projected", "committed"}
AtWork == {"waiting"} \cup InLane

\* From #activeTool to its reset.
Executing == {"executing", "applying", "queued", "completing", "replaying", "recompleting", "settling"}
Live == {"beginning", "polling", "acking", "excluded"} \cup Executing
Ended == {"landed", "unchanged", "failed", "stopped", "indeterminate", "gone"}

\* The shape of the rows: an error beside a running row only, a tombstone only
\* without a row, a receipt only in a completed one.
JournalOK ==
    /\ status \in [Calls -> {"absent", "running", "completed", "failed"}]
    /\ marked \subseteq Calls /\ tombstones \subseteq Calls /\ refused \subseteq Calls
    /\ receipt \in [Calls -> {"none", "pending", "complete"}]
    /\ \A t \in marked : status[t] = "running"
    /\ \A t \in tombstones : status[t] = "absent"
    /\ \A t \in refused : status[t] = "failed"
    /\ \A t \in Calls : receipt[t] # "none" => status[t] = "completed"

WorkspaceOK ==
    /\ landed \subseteq Calls /\ active \subseteq Calls
    /\ lane \in Calls \cup {Other, None}
    /\ stale \subseteq Attempts
    /\ apply \in [Attempts -> {"none", "sent"} \cup AtWork]
    /\ restarts \in 0..MaxRestarts

ClientOK ==
    /\ net \subseteq {"begin", "complete", "cancel"} \X Attempts
    /\ phase \in [Attempts -> {"idle"} \cup Live \cup Ended]
    /\ stopped \subseteq Attempts /\ cancelling \subseteq Attempts
    /\ unsettled \subseteq Attempts /\ wrote \subseteq Attempts
    /\ settled \subseteq Calls

TypeOK == JournalOK /\ WorkspaceOK /\ ClientOK

Init ==
    /\ status = [t \in Calls |-> "absent"]
    /\ marked = {} /\ tombstones = {} /\ refused = {}
    /\ receipt = [t \in Calls |-> "none"]
    /\ landed = {} /\ lane = None /\ stale = {} /\ active = {}
    /\ apply = [p \in Attempts |-> "none"]
    /\ restarts = 0 /\ net = {}
    /\ phase = [p \in Attempts |-> "idle"]
    /\ stopped = {} /\ cancelling = {} /\ unsettled = {} /\ wrote = {} /\ settled = {}

-----------------------------------------------------------------------------
(* The journal.                                                               *)

Runnable(t) == status[t] = "running" /\ t \notin marked

\* fail: a row with an error keeps it; any other state stays.
FailRow(t, conflict) ==
    /\ UNCHANGED <<tombstones, receipt>>
    /\ IF Runnable(t)
       THEN /\ status' = [status EXCEPT ![t] = "failed"]
            /\ refused' = IF conflict THEN refused \cup {t} ELSE refused
            /\ UNCHANGED marked
       ELSE UNCHANGED <<status, marked, refused>>

\* Faulty form: the cancellation stays behind once its call has begun.
BeginRowKeepsCancellation(t) ==
    /\ UNCHANGED <<marked, tombstones, receipt, refused>>
    /\ status' = [status EXCEPT ![t] = IF @ # "absent" THEN @
                                       ELSE IF t \in tombstones THEN "failed" ELSE "running"]

\* begin: a new row, a row failed by the cancellation that came before, or the
\* row there is.
BeginRow(t) ==
    /\ UNCHANGED <<marked, receipt, refused>>
    /\ IF status[t] = "absent"
       THEN /\ status' = [status EXCEPT ![t] = IF t \in tombstones THEN "failed" ELSE "running"]
            /\ tombstones' = tombstones \ {t}
       ELSE UNCHANGED <<status, tombstones>>

\* beginToolOperation's answer.
BeginAnswer(t) ==
    CASE status[t] = "absent" -> IF t \in tombstones THEN "failed" ELSE "execute"
      [] status[t] = "running" -> IF t \in active THEN "active" ELSE "indeterminate"
      [] OTHER -> status[t]

\* cancel. Faulty form: a cancellation of a call that has not begun is dropped.
CancelRowNoTombstone(t) ==
    /\ UNCHANGED <<receipt, refused, tombstones>>
    /\ IF t \in active
       THEN /\ marked' = IF status[t] = "running" THEN marked \cup {t} ELSE marked
            /\ UNCHANGED status
       ELSE /\ status' = [status EXCEPT ![t] = IF status[t] = "running" THEN "failed" ELSE @]
            /\ marked' = marked \ {t}

\* cancel: an active row keeps running with the error recorded; a call that has
\* not begun gets a tombstone; another running row fails.
CancelRow(t) ==
    /\ UNCHANGED <<receipt, refused>>
    /\ tombstones' = IF status[t] = "absent" THEN tombstones \cup {t} ELSE tombstones
    /\ IF t \in active
       THEN /\ marked' = IF status[t] = "running" THEN marked \cup {t} ELSE marked
            /\ UNCHANGED status
       ELSE /\ status' = [status EXCEPT ![t] = IF status[t] = "running" THEN "failed" ELSE @]
            /\ marked' = marked \ {t}

\* completeToolOperation: acknowledge the receipt, or store the result.
CompleteRow(t) ==
    /\ UNCHANGED <<marked, tombstones, refused>>
    /\ receipt' = [receipt EXCEPT ![t] = IF @ = "pending" THEN "complete" ELSE @]
    /\ status' = [status EXCEPT ![t] = IF Runnable(t) THEN "completed" ELSE @]

Completes(t) == Runnable(t) \/ status[t] = "completed"

-----------------------------------------------------------------------------
(* The client: #executeTool.                                                  *)

Goto(p, where) == phase' = [phase EXCEPT ![p] = where]

\* A new attempt; the agent that made the last one is gone or has its answer.
Start(p) ==
    /\ phase[p] = "idle"
    /\ \A k \in 1..(p[2] - 1) : phase[<<Call(p), k>>] \in Ended
    /\ Goto(p, "beginning")
    /\ net' = net \cup {<<"begin", p>>}
    /\ UNCHANGED <<journal, workspace, stopped, cancelling, unsettled, wrote, settled>>

\* The tool's own result, and the journalled one: with or without a change.
\* Faulty form: a completed row is taken for a change that landed.
GotoResult(p) == Goto(p, IF p \in wrote THEN "landed" ELSE "unchanged")
GotoCompleted(p) == Goto(p, "landed")
GotoJournalled(p) == Goto(p, IF receipt[Call(p)] = "none" THEN "unchanged" ELSE "landed")

\* An error while the tool executes: a stop has its cancellation already.
Fail(p) ==
    /\ Goto(p, "settling")
    /\ cancelling' = IF p \in stopped THEN cancelling ELSE cancelling \cup {p}

\* What the client does with the answer to begin, and what it sends next. One tool
\* of a client executes at a time; the other one may be a command or an install.
Hears(p, answer) ==
    IF answer = "completed" /\ receipt[Call(p)] = "pending"
    THEN /\ Goto(p, IF phase[p] = "replaying" THEN "recompleting" ELSE "acking")
         /\ net' = (net \ {<<"begin", p>>}) \cup {<<"complete", p>>}
         /\ UNCHANGED <<cancelling, settled>>
    ELSE /\ net' = net \ {<<"begin", p>>}
         /\ \/ answer = "completed" /\ GotoJournalled(p) /\ UNCHANGED <<cancelling, settled>>
            \/ /\ answer # "completed" /\ phase[p] = "replaying"
               /\ Fail(p) /\ UNCHANGED settled
            \/ /\ phase[p] # "replaying" /\ UNCHANGED cancelling
               /\ \/ /\ answer = "execute"
                     /\ \A q \in Attempts : phase[q] \notin Executing
                     /\ Goto(p, "executing")
                  \/ answer = "execute" /\ Goto(p, "excluded")
                  \/ answer = "active" /\ Goto(p, "polling")
                  \/ answer \in {"failed", "indeterminate"} /\ Goto(p, answer)
               /\ settled' = IF answer = "failed" THEN settled \cup {Call(p)} ELSE settled

\* The workspace answers a begin; whoever sent it may no longer listen.
Begin(p) ==
    /\ <<"begin", p>> \in net
    /\ BeginRow(Call(p))
    /\ \/ phase[p] \in {"beginning", "polling", "replaying"} /\ Hears(p, BeginAnswer(Call(p)))
       \/ net' = net \ {<<"begin", p>>} /\ UNCHANGED <<phase, cancelling, settled>>
    /\ UNCHANGED <<workspace, stopped, unsettled, wrote>>

\* begin fails or its answer is lost. Only a stop settles the row then.
BeginFails(p) ==
    /\ phase[p] = "beginning" /\ Goto(p, "failed")
    /\ UNCHANGED <<journal, workspace, net, stopped, cancelling, unsettled, wrote, settled>>

\* The active replay is observed again, or not confirmed in time.
Poll(p) ==
    /\ phase[p] = "polling"
    /\ \/ net' = net \cup {<<"begin", p>>} /\ UNCHANGED phase
       \/ Goto(p, "indeterminate") /\ UNCHANGED net
    /\ UNCHANGED <<journal, workspace, stopped, cancelling, unsettled, wrote, settled>>

\* Another tool of this client is active: the new row is failed, best effort.
Exclude(p) ==
    /\ phase[p] = "excluded" /\ Goto(p, "failed")
    /\ FailRow(Call(p), FALSE) \/ UNCHANGED journal
    /\ UNCHANGED <<workspace, net, stopped, cancelling, unsettled, wrote, settled>>

\* execute: a mutation against the revision the client knows, which may be an
\* old one; or a result, or an error, without one.
Execute(p) ==
    /\ phase[p] = "executing"
    /\ \/ /\ Goto(p, "applying") /\ apply' = [apply EXCEPT ![p] = "sent"]
          /\ stale' \in {stale \ {p}, stale \cup {p}}
          /\ UNCHANGED <<net, cancelling>>
       \/ /\ Goto(p, "completing") /\ net' = net \cup {<<"complete", p>>}
          /\ UNCHANGED <<apply, stale, cancelling>>
       \/ Fail(p) /\ UNCHANGED <<apply, stale, net>>
    /\ UNCHANGED <<journal, landed, lane, active, restarts, stopped, unsettled, wrote, settled>>

\* A change that waits for a busy lane is sent again, on the same base.
Resend(p) ==
    /\ phase[p] = "queued"
    /\ Goto(p, "applying") /\ apply' = [apply EXCEPT ![p] = "sent"]
    /\ UNCHANGED <<journal, landed, lane, stale, active, restarts, net, stopped, cancelling,
                   unsettled, wrote, settled>>

\* What the client makes of an applyChanges' answer: after a change that landed
\* it reads the workspace anew, which can fail; a lane busy with a write is waited
\* out for a while.
Replied(p, answer) ==
    /\ UNCHANGED <<stopped, unsettled, settled>>
    /\ \/ phase[p] # "applying" /\ UNCHANGED <<phase, cancelling, wrote, net>>
       \/ /\ phase[p] = "applying" /\ answer = "ok"
          /\ wrote' = wrote \cup {p} /\ UNCHANGED cancelling
          /\ \/ /\ p \notin stopped
                /\ Goto(p, "completing") /\ net' = net \cup {<<"complete", p>>}
             \/ p \in stopped /\ Goto(p, "landed") /\ UNCHANGED net
       \/ /\ phase[p] = "applying" /\ answer = "busy" /\ p \notin stopped
          /\ Goto(p, "queued") /\ UNCHANGED <<cancelling, wrote, net>>
       \/ phase[p] = "applying" /\ Fail(p) /\ UNCHANGED <<wrote, net>>

\* The connection breaks, or the wait for a busy lane is over.
ApplyFails(p) ==
    /\ phase[p] \in {"applying", "queued"} /\ Fail(p)
    /\ UNCHANGED <<journal, workspace, net, stopped, unsettled, wrote, settled>>

\* completeToolOperation and its answer: a stopped tool's result stands anyway.
Complete(p) ==
    /\ <<"complete", p>> \in net /\ net' = net \ {<<"complete", p>>}
    /\ CompleteRow(Call(p))
    /\ \/ /\ phase[p] \in {"completing", "acking", "recompleting"}
          /\ \/ Completes(Call(p)) /\ GotoJournalled(p)
             \/ ~Completes(Call(p)) /\ p \in stopped /\ GotoResult(p)
          /\ UNCHANGED cancelling
       \/ /\ phase[p] \in {"completing", "recompleting"}
          /\ p \notin stopped /\ ~Completes(Call(p))
          /\ Fail(p)
       \/ UNCHANGED <<phase, cancelling>>
    /\ UNCHANGED <<workspace, stopped, unsettled, wrote, settled>>

\* Its answer is lost: a mutation asks the journal once more.
CompleteFails(p) ==
    /\ \/ /\ phase[p] = "completing" /\ p \notin stopped
          /\ \/ /\ Goto(p, "replaying") /\ net' = net \cup {<<"begin", p>>}
                /\ UNCHANGED cancelling
             \/ Fail(p) /\ UNCHANGED net
       \/ /\ phase[p] = "completing" /\ p \in stopped
          /\ GotoResult(p) /\ UNCHANGED <<cancelling, net>>
       \/ phase[p] = "acking" /\ Goto(p, "failed") /\ UNCHANGED <<cancelling, net>>
       \/ phase[p] \in {"replaying", "recompleting"} /\ Fail(p) /\ UNCHANGED net
    /\ UNCHANGED <<journal, workspace, stopped, unsettled, wrote, settled>>

-----------------------------------------------------------------------------
(* Stopping a tool, and settling its row.                                     *)

\* The abort signal fires. What waits on the workspace and has not started the
\* change ends by it; a change under way is left to finish.
Stop(p) ==
    /\ p \notin stopped /\ phase[p] \in Live
    /\ stopped' = stopped \cup {p}
    /\ \/ /\ phase[p] \in {"beginning", "polling", "executing", "queued"}
          /\ Goto(p, "settling") /\ cancelling' = cancelling \cup {p}
       \/ phase[p] = "acking" /\ Goto(p, "stopped") /\ UNCHANGED cancelling
       \/ /\ phase[p] \in Executing \ {"executing", "queued"}
          /\ cancelling' = cancelling \cup {p} /\ UNCHANGED phase
    /\ UNCHANGED <<journal, workspace, net, unsettled, wrote, settled>>

AskToCancel(p) ==
    /\ p \in cancelling /\ net' = net \cup {<<"cancel", p>>}
    /\ UNCHANGED <<journal, workspace, client>>

\* cancelToolOperation; the answer is "active" or "settled", if it arrives.
Cancel(p) ==
    /\ <<"cancel", p>> \in net /\ net' = net \ {<<"cancel", p>>}
    /\ CancelRow(Call(p))
    /\ \/ /\ p \in cancelling /\ Call(p) \notin active
          /\ cancelling' = cancelling \ {p}
          /\ settled' = settled \cup {Call(p)}
       \/ UNCHANGED <<cancelling, settled>>
    /\ UNCHANGED <<workspace, phase, stopped, unsettled, wrote>>

\* The settlement deadline passes.
GiveUp(p) ==
    /\ p \in cancelling /\ cancelling' = cancelling \ {p}
    /\ unsettled' = unsettled \cup {p}
    /\ UNCHANGED <<journal, workspace, net, phase, stopped, wrote, settled>>

\* The error that ended the tool is thrown once its row is settled.
Throw(p) ==
    /\ phase[p] = "settling" /\ p \notin cancelling
    /\ Goto(p, IF p \in unsettled THEN "indeterminate"
              ELSE IF p \in stopped THEN "stopped" ELSE "failed")
    /\ UNCHANGED <<journal, workspace, net, stopped, cancelling, unsettled, wrote, settled>>

-----------------------------------------------------------------------------
(* The workspace: applyChanges.                                               *)

Leave(p) ==
    /\ apply' = [apply EXCEPT ![p] = "none"]
    /\ active' = active \ {Call(p)}
    /\ lane' = IF apply[p] \in InLane THEN None ELSE lane

\* The call's row must be running before anything else; the error of a row that
\* a busy lane failed reads as a busy lane again.
Arrive(p) ==
    /\ apply[p] = "sent"
    /\ IF Runnable(Call(p))
       THEN /\ apply' = [apply EXCEPT ![p] = "waiting"]
            /\ active' = active \cup {Call(p)}
            /\ UNCHANGED <<client, net>>
       ELSE /\ apply' = [apply EXCEPT ![p] = "none"]
            /\ Replied(p, IF Call(p) \in refused THEN "busy" ELSE "error")
            /\ UNCHANGED active
    /\ UNCHANGED <<journal, landed, lane, stale, restarts>>

\* The lane is taken. The handler's catch fails the row with the conflict.
Refuse(p) ==
    /\ apply[p] = "waiting" /\ lane # None /\ Leave(p)
    /\ FailRow(Call(p), TRUE)
    /\ Replied(p, "busy")
    /\ UNCHANGED <<landed, stale, restarts>>

\* Faulty form: the lane's holder is not looked at.
EnterBusy(p) ==
    /\ apply[p] = "waiting" /\ Runnable(Call(p))
    /\ lane' = IF lane = None THEN Call(p) ELSE lane
    /\ apply' = [apply EXCEPT ![p] = "entered"]
    /\ UNCHANGED <<journal, landed, stale, active, restarts, net, client>>

Enter(p) ==
    /\ apply[p] = "waiting" /\ lane = None /\ Runnable(Call(p))
    /\ lane' = Call(p) /\ apply' = [apply EXCEPT ![p] = "entered"]
    /\ UNCHANGED <<journal, landed, stale, active, restarts, net, client>>

\* The base is current; the sizes of the project's files are read, and the base
\* is looked at again before the new files are hashed.
Read(p) ==
    /\ p \notin stale
    /\ \/ apply[p] = "entered" /\ apply' = [apply EXCEPT ![p] = "reading"]
       \/ apply[p] = "reading" /\ apply' = [apply EXCEPT ![p] = "projected"]
    /\ UNCHANGED <<journal, landed, lane, stale, active, restarts, net, client>>

\* A conflicting revision, a limit, an unreachable container, a cancelled row:
\* the row fails unless it was cancelled.
Abandon(p) ==
    /\ apply[p] \in {"waiting", "entered", "reading", "projected"} /\ Leave(p)
    /\ FailRow(Call(p), FALSE)
    /\ Replied(p, "error")
    /\ UNCHANGED <<landed, stale, restarts>>

\* The changes and the receipt are written without an await in between.
Commit(p) ==
    /\ apply[p] = "projected" /\ Runnable(Call(p))
    /\ status' = [status EXCEPT ![Call(p)] = "completed"]
    /\ receipt' = [receipt EXCEPT ![Call(p)] = "pending"]
    /\ landed' = landed \cup {Call(p)}
    /\ stale' = Attempts
    /\ apply' = [apply EXCEPT ![p] = "committed"]
    /\ UNCHANGED <<marked, tombstones, refused, lane, active, restarts, net, client>>

\* The state is read for the answer, which can fail after the commit.
Answer(p) ==
    /\ apply[p] = "committed" /\ Leave(p)
    /\ \E answer \in {"ok", "error"} : Replied(p, answer)
    /\ UNCHANGED <<journal, landed, stale, restarts>>

-----------------------------------------------------------------------------
\* Somebody else's work in the lane, with or without a new revision.
OtherWorks ==
    /\ \/ lane = None /\ lane' = Other /\ UNCHANGED stale
       \/ lane = Other /\ lane' = None /\ stale' \in {stale, Attempts}
    /\ UNCHANGED <<journal, landed, active, apply, restarts, net, client>>

\* The lane of a holder that died is recovered.
LaneLapses ==
    /\ lane \in Calls /\ \A p \in Attempts : Call(p) = lane => apply[p] \notin InLane
    /\ lane' = None
    /\ UNCHANGED <<journal, landed, stale, active, apply, restarts, net, client>>

\* The workspace restarts: what it works on is gone, what has not arrived is not.
Restart ==
    /\ restarts < MaxRestarts /\ restarts' = restarts + 1
    /\ active' = {}
    /\ apply' = [p \in Attempts |-> IF apply[p] \in AtWork THEN "none" ELSE apply[p]]
    /\ UNCHANGED <<journal, landed, lane, stale, net, client>>

\* The agent restarts: nobody listens any more; requests stay on their way.
AgentRestarts ==
    /\ \E p \in Attempts : phase[p] \in Live
    /\ phase' = [p \in Attempts |-> IF phase[p] \in Live THEN "gone" ELSE phase[p]]
    /\ stopped' = {} /\ cancelling' = {} /\ unsettled' = {} /\ wrote' = {}
    /\ UNCHANGED <<journal, workspace, net, settled>>

Step(p) ==
    \/ Start(p) \/ Begin(p) \/ BeginFails(p) \/ Poll(p) \/ Exclude(p) \/ Execute(p)
    \/ Resend(p) \/ ApplyFails(p) \/ Complete(p) \/ CompleteFails(p)
    \/ Stop(p) \/ AskToCancel(p) \/ Cancel(p) \/ GiveUp(p) \/ Throw(p)
    \/ Arrive(p) \/ Refuse(p) \/ Enter(p) \/ Read(p) \/ Abandon(p) \/ Commit(p) \/ Answer(p)

Next ==
    \/ \E p \in Attempts : Step(p)
    \/ OtherWorks \/ LaneLapses \/ Restart \/ AgentRestarts

Spec == Init /\ [][Next]_vars

-----------------------------------------------------------------------------
(* Properties.                                                                *)

\* What became of a call, as the journal and the project have it.
Fate ==
    [t \in Calls |-> IF t \in landed THEN "landed"
                     ELSE IF t \in tombstones \/ status[t] \in {"completed", "failed"}
                     THEN "closed" ELSE "open"]

Outcome == INSTANCE ToolOutcome WITH fate <- Fate

\* Each call's fate is decided once: a change lands once or never, whatever is
\* retried, delayed or restarted, and never after a caller was told that the call
\* failed or that its cancellation is settled (begin, cancel, commitMutation).
FateIsDecidedOnce == Outcome!Spec

\* A change lands only on the revision it was made against, although the handler
\* awaits the container between its checks and others write meanwhile.
LandsOnItsBase ==
    [][ \A t \in Calls : t \in landed' \ landed =>
            \E p \in Attempts : Call(p) = t /\ apply[p] = "projected" /\ p \notin stale ]_vars

\* What a result tells the model is so: a change it reports did land, by this
\* attempt or an earlier one, and a call it reports as without a change never did
\* and never will (journaledResult, the receipt of commitMutation).
ReportIsTrue ==
    \A p \in Attempts :
        /\ phase[p] = "landed" => Call(p) \in landed
        /\ phase[p] = "unchanged" => Call(p) \notin landed
=============================================================================
