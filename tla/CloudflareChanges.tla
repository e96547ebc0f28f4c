-------------------------- MODULE CloudflareChanges --------------------------
(* The changes `cf` asks Cloudflare for while one of the agent's commands     *)
(* runs. The proxy of the workspace holds each request and asks the           *)
(* conversation's agent; a person who may change the account decides it in    *)
(* the chat and the agent's fiber sends it; a team member's is filed in the   *)
(* control plane's D1, where one of the team's admins decides it and a        *)
(* request of the control plane sends it.                                     *)
(*                                                                            *)
(* Sources: builder-cloudflare-execution.ts (the records), the handlers of    *)
(* conversation-agent.ts, cloudflare-api-proxy.ts (the proxy's wait),         *)
(* approval-requests.server.ts and approvals.ts (the team's rows).            *)
(*                                                                            *)
(* One command; a change is one request of `cf`, and several may be on their  *)
(* way at once. A step is what runs between two awaits. Left out: the domain  *)
(* review, connections that change, and the listing of left and filed changes *)
(* in the command's output.                                                   *)
EXTENDS Naturals, FiniteSets, Sequences

CONSTANTS
    Changes,       \* the requests `cf` sends in the command
    MaxRestarts,   \* bound: restarts of the agent
    None

ASSUME ChangesConstants ==
    IsFiniteSet(Changes) /\ None \notin Changes /\ MaxRestarts \in Nat

VARIABLES
    admin,     \* whether the person may change the account now
    cmd,       \* the command, "settled" once the agent settled its changes
    rec,       \* builder_cloudflare_executions, by the change
    asked,     \* waitingCloudflareChanges: asked about in the last 15 s
    fiber,     \* each change's approval and its fiber
    cf,        \* the proxy's handling of each request
    heard,     \* what `cf` was answered
    number,    \* the change number each filing took, 0 for none
    filed,     \* filedCloudflareChanges of the command, in memory
    row,       \* approval_requests, by change number
    sent,      \* how often Cloudflare was sent each change
    restarts

vars == <<admin, cmd, rec, asked, fiber, cf, heard, number, filed, row, sent, restarts>>
held == <<rec, asked, fiber>>
team == <<number, filed, row>>
proxy == <<cf, heard>>

Numbers == 1..Cardinality(Changes)

Statuses == {"none", "awaiting", "approved", "executing", "succeeded", "failed",
             "unsent", "indeterminate", "rejected", "expired"}
(* "unsent" is failed with the outcome that nothing was sent.                 *)
Terminal == {"succeeded", "failed", "unsent", "indeterminate", "rejected", "expired"}
InAgent == {"proposing", "digest", "filing", "listing"}
FiberRuns == {"approve", "identity", "begin", "send", "answer"}

NoRecord == [status |-> "none", wait |-> "held"]
NoRow == [of |-> None, status |-> "none"]

TypeOK ==
    /\ admin \in BOOLEAN /\ cmd \in {"running", "finished", "stopped", "settled"}
    /\ rec \in [Changes -> [status : Statuses, wait : {"held", "overdue", "left"}]]
    /\ asked \subseteq Changes
    /\ fiber \in [Changes -> FiberRuns \cup {"none", "admit", "interrupted", "done"}]
    /\ cf \in [Changes -> InAgent \cup {"idle", "waiting", "queued", "done"}]
    /\ heard \in [Changes -> {"nothing", "applied", "failed", "unsent", "unknown",
                              "inChat", "filed", "notFiled", "broken"}]
    /\ number \in [Changes -> Numbers \cup {0}]
    /\ filed \in Seq(Changes) /\ Len(filed) <= Cardinality(Changes)
    /\ row \in [Numbers -> [of : Changes \cup {None},
                            status : {"none", "pending", "claimed", "answer", "done",
                                      "unsent", "rejected", "expired"}]]
    /\ \A n \in Numbers : (row[n].of = None) = (row[n].status = "none")
    /\ sent \in [Changes -> Nat] /\ restarts \in 0..MaxRestarts

Init ==
    /\ admin \in BOOLEAN
    /\ cmd = "running"
    /\ rec = [c \in Changes |-> NoRecord]
    /\ asked = {}
    /\ fiber = [c \in Changes |-> "none"]
    /\ cf = [c \in Changes |-> "idle"]
    /\ heard = [c \in Changes |-> "nothing"]
    /\ number = [c \in Changes |-> 0] /\ filed = <<>>
    /\ row = [n \in Numbers |-> NoRow]
    /\ sent = [c \in Changes |-> 0]
    /\ restarts = 0

-----------------------------------------------------------------------------
(* The records.                                                               *)

\* A record's `wait` is held until left_waiting_at, overdue once expires_at is past.
Held(c) == rec[c].status = "awaiting" /\ rec[c].wait # "left"

Status(r, c, s) == [r EXCEPT ![c].status = s]

\* Those of `cs` the command still waits for are left waiting in the chat.
Leave(cs) ==
    [c \in Changes |-> IF c \in cs /\ Held(c) THEN [rec[c] EXCEPT !.wait = "left"] ELSE rec[c]]

\* leaveOverdueInChat, which every handler runs first.
LeaveOverdue == Leave({c \in Changes : rec[c].wait = "overdue"})

Waits(r) == r.status \in {"approved", "executing"} \/ (r.status = "awaiting" /\ r.wait # "left")

\* Faulty form: a change in the chat holds up the command's next one.
AnyUndecided == \E d \in Changes : rec[d].status \in {"awaiting", "approved", "executing"}

Unsettled == \E d \in Changes : Waits(LeaveOverdue[d])

\* Faulty form: whatever is not settled is withdrawn.
WithdrawUnsettled ==
    [c \in Changes |-> IF rec[c].status \in {"awaiting", "approved", "executing"}
                       THEN [rec[c] EXCEPT !.status = "expired"] ELSE rec[c]]

WithdrawHeld ==
    [c \in Changes |-> IF Held(c) THEN [rec[c] EXCEPT !.status = "expired"] ELSE rec[c]]

-----------------------------------------------------------------------------
(* `cf`, the command and the person's standing.                               *)

Done(c, answer) ==
    /\ cf' = [cf EXCEPT ![c] = "done"]
    /\ heard' = [heard EXCEPT ![c] = answer]

Goes(c, pc) == cf' = [cf EXCEPT ![c] = pc] /\ UNCHANGED heard

CommandSame == UNCHANGED <<admin, cmd, sent, restarts>>

CfAsks(c) ==
    /\ cf[c] = "idle" /\ cmd = "running"
    /\ Goes(c, "proposing")
    /\ UNCHANGED <<held, team>> /\ CommandSame

CommandEnds(how) ==
    /\ cmd = "running" /\ cmd' = how
    /\ UNCHANGED <<held, team, proxy, admin, sent, restarts>>

(* settleCommandCloudflareChanges, some time after the command ended.         *)
Settle ==
    /\ cmd \in {"finished", "stopped"} /\ cmd' = "settled"
    /\ rec' = IF cmd = "stopped" THEN WithdrawHeld ELSE Leave(Changes)
    /\ filed' = <<>>
    /\ UNCHANGED <<proxy, asked, fiber, number, row, admin, sent, restarts>>

Demoted ==
    /\ admin /\ admin' = FALSE
    /\ UNCHANGED <<held, team, proxy, cmd, sent, restarts>>

Lapses(c) ==
    /\ Held(c) /\ rec[c].wait = "held"
    /\ rec' = [rec EXCEPT ![c].wait = "overdue"]
    /\ UNCHANGED <<asked, fiber, proxy, team>> /\ CommandSame

\* Only an undecided change is looked up.
NotAskedFor15s(c) ==
    /\ c \in asked /\ rec[c].status = "awaiting"
    /\ asked' = asked \ {c}
    /\ UNCHANGED <<rec, fiber, proxy, team>> /\ CommandSame

-----------------------------------------------------------------------------
(* The proxy asks, and the agent answers.                                     *)

\* The identity, read afresh, says where the change goes.
Propose(c) ==
    /\ cf[c] = "proposing"
    /\ \/ admin /\ Goes(c, "digest") /\ UNCHANGED number
       \/ /\ ~admin /\ Goes(c, "filing")
          /\ number' = [number EXCEPT ![c] = Len(filed) + 1]
       \/ Done(c, "unsent") /\ UNCHANGED number   \* refused
    /\ UNCHANGED <<held, filed, row>> /\ CommandSame

\* Faulty form: what the command already has is looked up before the digest.
CreateUnchecked(c) ==
    /\ cf[c] = "digest"
    /\ Goes(c, "waiting")
    /\ rec' = Status(LeaveOverdue, c, "awaiting")
    /\ asked' = asked \cup {c}
    /\ UNCHANGED <<fiber, team>> /\ CommandSame

(* createProposal's transaction, once the digest is made.                     *)
Create(c) ==
    /\ cf[c] = "digest"
    /\ IF Unsettled
       THEN Goes(c, "queued") /\ rec' = LeaveOverdue /\ UNCHANGED asked
       ELSE /\ Goes(c, "waiting")
            /\ rec' = Status(LeaveOverdue, c, "awaiting")
            /\ asked' = asked \cup {c}
    /\ UNCHANGED <<fiber, team>> /\ CommandSame

\* cloudflareChangeAnswer, for a record that no longer waits.
Answer(r) ==
    CASE r.status = "succeeded" -> "applied"
      [] r.status = "failed" -> "failed"
      [] r.status \in {"unsent", "rejected", "expired"} -> "unsent"
      [] r.status = "indeterminate" -> "unknown"
      [] OTHER -> "inChat"

Poll(c) ==
    /\ cf[c] = "waiting"
    /\ rec' = IF Held(c) /\ rec[c].wait = "overdue" THEN LeaveOverdue ELSE rec
    /\ IF Waits(rec'[c])
       THEN asked' = asked \cup {c} /\ UNCHANGED proxy
       ELSE asked' = asked \ {c} /\ Done(c, Answer(rec'[c]))
    /\ UNCHANGED <<fiber, team>> /\ CommandSame

\* Queued: asked for again while the command runs.
AskAgain(c) ==
    /\ cf[c] = "queued"
    /\ IF cmd = "running" THEN Goes(c, "proposing") ELSE Done(c, "unsent")
    /\ UNCHANGED <<held, team>> /\ CommandSame

\* `cf` stopped, which the proxy looks at between its calls: a held change is left.
GivesUp(c) ==
    /\ \/ cf[c] = "waiting" /\ Done(c, "inChat") /\ rec' = Leave({c})
       \/ cf[c] = "queued" /\ Done(c, "unsent") /\ UNCHANGED rec
    /\ UNCHANGED <<asked, fiber, team>> /\ CommandSame

-----------------------------------------------------------------------------
(* The person decides, and the agent sends.                                   *)

Approve(c) ==
    /\ rec[c].status = "awaiting" /\ admin /\ fiber[c] = "none"
    /\ rec' = LeaveOverdue
    /\ fiber' = [fiber EXCEPT ![c] = "admit"]
    /\ UNCHANGED <<asked, proxy, team>> /\ CommandSame

\* Once the window is open. A change no proxy asks about is the chat's.
StartFiber(c) ==
    /\ fiber[c] = "admit"
    /\ rec' = IF c \notin asked THEN Leave({c}) ELSE rec
    /\ fiber' = [fiber EXCEPT ![c] = "approve"]
    /\ UNCHANGED <<asked, proxy, team>> /\ CommandSame

Reject(c) ==
    /\ rec[c].status = "awaiting" /\ admin
    /\ rec' = Status(LeaveOverdue, c, "rejected")
    /\ UNCHANGED <<asked, fiber, proxy, team>> /\ CommandSame

\* runApprovedCloudflareExecution, from await to await.
FiberGoes(c, pc) ==
    /\ fiber' = [fiber EXCEPT ![c] = pc]
    /\ UNCHANGED <<asked, proxy, team>> /\ CommandSame

FiberApproves(c) ==
    /\ fiber[c] = "approve"
    /\ IF rec[c].status = "awaiting"
       THEN rec' = Status(LeaveOverdue, c, "approved") /\ FiberGoes(c, "identity")
       ELSE rec' = LeaveOverdue /\ FiberGoes(c, "done")

FiberReadsIdentity(c) ==
    /\ fiber[c] = "identity"
    /\ IF admin THEN FiberGoes(c, "begin") /\ UNCHANGED rec
       ELSE FiberGoes(c, "done") /\ rec' = Status(rec, c, "unsent")

FiberBegins(c) ==
    /\ fiber[c] = "begin"
    /\ IF rec[c].status = "approved"
       THEN rec' = Status(LeaveOverdue, c, "executing") /\ FiberGoes(c, "send")
       ELSE rec' = LeaveOverdue /\ FiberGoes(c, "done")

\* The token may not be had, and the request may be lost on its way.
FiberSends(c) ==
    /\ fiber[c] = "send"
    /\ \/ FiberGoes(c, "done") /\ rec' = Status(rec, c, "unsent")
       \/ FiberGoes(c, "answer") /\ UNCHANGED rec
       \/ /\ fiber' = [fiber EXCEPT ![c] = "answer"]
          /\ sent' = [sent EXCEPT ![c] = @ + 1]
          /\ UNCHANGED <<rec, asked, proxy, team, admin, cmd, restarts>>

FiberCompletes(c) ==
    /\ fiber[c] = "answer"
    /\ \E s \in {"succeeded", "failed", "indeterminate"} :
           /\ s # "indeterminate" => sent[c] > 0
           /\ rec' = IF rec[c].status = "executing" THEN Status(rec, c, s) ELSE rec
    /\ FiberGoes(c, "done")

\* Faulty form: an interrupted fiber is run again from where it sends.
Replays(c) ==
    /\ fiber[c] = "interrupted"
    /\ IF rec[c].status = "executing"
       THEN FiberGoes(c, "send") /\ UNCHANGED rec
       ELSE FiberGoes(c, "done") /\ rec' = Status(rec, c, "indeterminate")

\* onFiberRecovered.
Recovers(c) ==
    /\ fiber[c] = "interrupted"
    /\ rec' = IF rec[c].status \in {"awaiting", "approved", "executing"}
              THEN Status(LeaveOverdue, c, "indeterminate") ELSE LeaveOverdue
    /\ FiberGoes(c, "done")

\* Memory is lost, the fibers are durable, and the calls in the agent or to it
\* fail: `cf` hears UNSETTLED, or an error. Calls fail in no other way here.
Restart ==
    /\ restarts < MaxRestarts /\ restarts' = restarts + 1
    /\ fiber' = [c \in Changes |-> IF fiber[c] \in FiberRuns THEN "interrupted"
                                   ELSE IF fiber[c] = "admit" THEN "none" ELSE fiber[c]]
    /\ \E polls \in SUBSET {c \in Changes : cf[c] = "waiting"} :
           LET broken == polls \cup {c \in Changes : cf[c] \in InAgent}
           IN  /\ cf' = [c \in Changes |-> IF c \in broken THEN "done" ELSE cf[c]]
               /\ heard' = [c \in Changes |-> IF c \in broken THEN "broken" ELSE heard[c]]
    /\ asked' = {} /\ filed' = <<>>
    /\ UNCHANGED <<rec, number, row, admin, cmd, sent>>

-----------------------------------------------------------------------------
(* A member's change goes to the team's admins.                               *)

RowBecomes(n, s) ==
    /\ row' = [row EXCEPT ![n].status = s]
    /\ UNCHANGED <<number, filed, held, proxy>>

\* Its answer may be lost, and the row stands.
File(c) ==
    /\ cf[c] = "filing"
    /\ row' = IF row[number[c]].of = None
              THEN [row EXCEPT ![number[c]] = [of |-> c, status |-> "pending"]] ELSE row
    /\ Goes(c, "listing") \/ Done(c, "notFiled")
    /\ UNCHANGED <<held, number, filed>> /\ CommandSame

NotFiled(c) ==
    /\ cf[c] = "filing" /\ Done(c, "notFiled")
    /\ UNCHANGED <<held, team>> /\ CommandSame

\* A first filing's list is its own; later ones share the list they counted.
List(c) ==
    /\ cf[c] = "listing"
    /\ filed' = IF number[c] = 1 THEN <<c>> ELSE Append(filed, c)
    /\ number' = [number EXCEPT ![c] = 0]
    /\ Done(c, "filed")
    /\ UNCHANGED <<held, row>> /\ CommandSame

\* Faulty form: whatever is not decided may be claimed, filed or not.
MayClaimUnfiled(n) == row[n].status \in {"none", "pending"}

MayClaim(n) == row[n].status = "pending"

Claim(n) ==
    /\ MayClaim(n) /\ RowBecomes(n, "claimed") /\ CommandSame

\* The rows' "claimed" and "answer" are both `sending`.
AdminSends(n) ==
    /\ row[n].status = "claimed"
    /\ \/ RowBecomes(n, "unsent") /\ CommandSame
       \/ RowBecomes(n, "answer") /\ CommandSame
       \/ /\ RowBecomes(n, "answer")
          /\ sent' = [sent EXCEPT ![row[n].of] = @ + 1]
          /\ UNCHANGED <<admin, cmd, restarts>>

FinishApproval(n) ==
    /\ row[n].status = "answer" /\ RowBecomes(n, "done") /\ CommandSame

RowNotApproved(n) ==
    /\ row[n].status = "pending"
    /\ RowBecomes(n, "rejected") \/ RowBecomes(n, "expired")
    /\ CommandSame

-----------------------------------------------------------------------------
Decides(c) == Approve(c) \/ StartFiber(c) \/ Reject(c)

Runs(c) == \/ FiberApproves(c) \/ FiberReadsIdentity(c) \/ FiberBegins(c)
           \/ FiberSends(c) \/ FiberCompletes(c) \/ Recovers(c)

Proxies(c) == \/ Propose(c) \/ Create(c) \/ Poll(c) \/ AskAgain(c)
              \/ File(c) \/ NotFiled(c) \/ List(c)

Next ==
    \/ \E c \in Changes : \/ CfAsks(c) \/ Lapses(c) \/ NotAskedFor15s(c)
                          \/ Proxies(c) \/ GivesUp(c) \/ Decides(c) \/ Runs(c)
    \/ \E how \in {"finished", "stopped"} : CommandEnds(how)
    \/ Settle \/ Demoted \/ Restart
    \/ \E n \in Numbers : Claim(n) \/ AdminSends(n) \/ FinishApproval(n) \/ RowNotApproved(n)

Spec == Init /\ [][Next]_vars

(* Fairness: the proxy goes on asking, the agent answers, time passes and a   *)
(* fiber runs or is recovered. Nobody has to decide, to stop or to end.       *)
Fairness ==
    \A c \in Changes : WF_vars(Proxies(c)) /\ WF_vars(Lapses(c)) /\ WF_vars(Runs(c))

FairSpec == Spec /\ Fairness

-----------------------------------------------------------------------------
(* Properties.                                                                *)

(* Where a person or `cf` was told that nothing was sent, because the change  *)
(* was declined, withdrawn, expired, refused, or could not be sent, nothing   *)
(* was sent and nothing ever is: by the fiber, or by the admin's request. The *)
(* answer to a call of the agent that failed (heard "broken") is left out.    *)
(* (cloudflareChangeAnswer, withdrawHeld, beginExecution, claimApproval.)     *)
NothingSentIsTrue ==
    /\ \A c \in Changes :
           (rec[c].status \in {"unsent", "rejected", "expired"} \/ heard[c] = "unsent")
               => sent[c] = 0
    /\ \A n \in Numbers :
           row[n].status \in {"unsent", "rejected", "expired"} => sent[row[n].of] = 0

(* Cloudflare is sent a change at most once, and only one that was approved,  *)
(* over restarts of the agent between the send and its record, lost answers   *)
(* and several admins. (runApprovedCloudflareExecution, onFiberRecovered,     *)
(* claimApproval and send.)                                                   *)
SentOnce ==
    \A c \in Changes :
        /\ sent[c] <= 1
        /\ sent[c] = 1 =>
               \/ fiber[c] \in {"answer", "interrupted", "done"}
               \/ \E n \in Numbers : row[n].of = c /\ row[n].status \in {"answer", "done"}

(* The command's changes wait inside it one at a time: of those not left in   *)
(* the chat, at most one waits for the person or is being sent, however many  *)
(* `cf` asks for at once. (createProposal, unsettledFor.)                     *)
OneAtATime ==
    \A c, d \in Changes : Waits(rec[c]) /\ Waits(rec[d]) /\ "left" \notin {rec[c].wait, rec[d].wait} => c = d

(* `cf` never waits for ever, though nobody decides and the command runs on:  *)
(* its change is answered, or left in the chat and `cf` told so, and one      *)
(* queued behind it takes its turn. Each asks once, so in the end none waits. *)
(* (waitForDecision, leaveOverdueInChat, onFiberRecovered.)                   *)
EveryCfIsAnswered ==
    (\E c \in Changes : cf[c] \notin {"idle", "done"})
        ~> (\A c \in Changes : cf[c] \in {"idle", "done"})

(* A change `cf` is told was sent to the team's admins is one they have,      *)
(* under a number of its own. (fileTeamCloudflareChange, fileCloudflareChange.)*)
FiledIsTheirs ==
    \A c \in Changes : heard[c] = "filed" => \E n \in Numbers : row[n].of = c
=============================================================================
