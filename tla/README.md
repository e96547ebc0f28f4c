# CloudChef workspace: models, checks and proofs

CloudChef builds web applications with a model that edits a project in a *workspace*: a Durable Object
(`ProjectWorkspace`, `src/user-workspace-runtime/src/index.ts`) that keeps the durable files and journals in SQLite,
and a container in which commands run. Both may disappear at any moment: the object is reset by an eviction or a code
update and keeps only its tables and its alarm, the container is replaced and keeps nothing. The agent that calls the
workspace (`src/app/agents`, through `src/app/lib/.server/cloudflare/user-workspace-runtime-client.ts`) may restart too, and then
attempts its tool calls again under the same identifiers.

Around it a control plane (one Worker over D1) upgrades that runtime, deploys projects, sends changes to Cloudflare
once a person approved them, and keeps the authorizations all of this uses; its requests run side by side and share only
the rows they write.

That is where the difficult behaviour of this program is, and these modules are about it: which operation may run,
what happens to a command's changes, what a tool call's caller is told, when a runtime may be redeployed, which commit
is live, which change was sent and who may build in which account, whatever is lost, delayed, retried, interleaved or
restarted. Everything is translated from the source at this commit; `PROJECT.json` maps each definition to its lines.

## Components

For each: its state, its operations, whom it talks to, what is hard, and what makes it correct. The first seven have a
module each; then come what could follow and what is left out.

### 1. Operation lane (`WorkspaceLane`)

- State: one row `cloudchef_operation_lane` (owner, key, lease deadline); in memory `#activeOperationOwners` and
  `#ownedToolOperations`; a heartbeat for each running operation; the journal row of a tool call.
- Operations: `begin` of a tool call, `withStatefulOperation` (probe of an interrupted holder, `acquire`, the work,
  `release`), renewal by the heartbeat, restart.
- Interacts with the container (start, adopt, `isExecutionFinished`), with the journal and with component 2, whose
  barrier keeps new work out.
- Hard: a lease that lapses under an owner that still runs; a probe whose answer is used after other requests ran; a
  replay that must adopt a command and not start it again; a heartbeat that cannot tell silence from death.
- Correct when one operation runs at a time, a lane is taken early only from a holder that cannot write, interrupted
  work is never repeated, and every caller is answered.

### 2. Durable synchronization of commands (`CommandSync`)

- State: pending rows of the journal, the retry row (attempt, runtime id, exhausted, due time), scheduled callbacks
  behind the object's one alarm; in memory the confirmation of each call, single-flight recovery, failures in a row.
- Operations: confirm a command's sync, register it as pending, retry with backoff, sweep, recover an exhausted row
  (which recycles the container at the second failure), cancel a command, restart.
- Interacts with the container by pulls that can fail, hang or reach another container than the one meant.
- Hard: sweeps handed to `waitUntil` and the alarm work on one row at once; the container changes around a pull; a
  callback is removed before it runs.
- Correct when a command is completed only after its changes were pulled from the container that ran it, is failed
  only once that container is gone, and is settled at last, whatever other commands and retriers run beside it.

### 3. Tool-operation journal and the client's protocol (`ToolJournal`, `ToolOutcome`)

- State: a journal row for each tool call (status, error, receipt) or the tombstone of a cancellation; in the object
  the calls being worked on; in the client `#activeTool`, the stop and the settlement of each call.
- Operations: `beginToolOperation`, `applyChanges`, `completeToolOperation`, `cancelToolOperation` and, in the client,
  `#executeTool` with its replay, its busy retry, its stop and its settlement.
- Interacts over requests that may be delayed, overtaken or lost with their answers, and over the lane with others.
- Hard: requests of an attempt that is gone arrive later; a cancellation overtakes the begin it is about; a stop races
  the commit and its acknowledgement; the base revision changes between awaits.
- Correct when a call's fate is decided once, nobody hears that it is settled before that, a change lands only on the
  revision it was made against, and what the model is told is so.

### 4. Runtime activity, upgrade window and rollout (`UpgradeWindow`)

- State: in the runtime's D1 an activity row for each agent and project builder and one window row; in each agent the
  state it last recorded and a queue of writes; the steps of the upgrade Workflows.
- Operations: record busy or idle, renew, read the window, wait; claim, hold, redeploy, renew, release.
- Interacts through conditional statements only: work records itself and then reads the window, an upgrade claims the
  window while no row is busy.
- Hard: each must see the other whatever fails; a window lapses in a retry's backoff while work starts; busy writes
  are queued behind the state they record, and skipped when the last one is fresh.
- Correct when no admitted work runs inside an open window, a window changes hands only when closed or lapsed, work
  that runs is recorded as far as its agent can know, and work that waits goes on.

### 5. Project deployments (`Deployments`)

- State: in D1 a row for each commit (state, claimant, lease); in each runtime's `ProjectBuilder` the jobs and the step
  that runs; what the project's Worker serves.
- Operations: claim a push or a head read earlier, supersede, retry, take over, report, take the deploy lease,
  heartbeat, get a token, send, end, restart.
- Hard: two people's builders work on one project; a claim is several statements; a lease lapses under a builder that
  is alive; a token outlives the lease by its reuse; a lost report leaves a job whose row is somebody else's.
- Correct when one builder at a time can have its requests sent, and what is live never goes back over a commit whose
  claim superseded the rest.

### 6. Cloudflare change approvals (`CloudflareChanges`)

- State: an execution record for each change in the agent's SQLite, the agent's in-memory lists, the fiber that sends
  one, a row in D1 for a team member's change, the proxy's open request.
- Operations: propose in turn, wait, decide, expire, leave in the chat, withdraw at the end of the command, send, recover,
  file, claim, send by an admin.
- Hard: a restart between sending a change and storing its outcome; a decision racing the stop or the end of the
  command; several requests of one `cf` at once; an answer that says nothing was sent.
- Correct when a change is sent at most once and only approved, a change is never sent of which a decision, a withdrawal
  or an expiry said that it was not, one waits at a time, and no `cf` waits for ever.

### 7. Credential vault and Cloudflare connections (`Connections`)

- State: in D1 a connection for each space, an authorization for each account, the vault's copy of each grant; Cloudflare's
  side of the grant, whose refresh token rotates.
- Operations: return from Cloudflare (check, store, activate, adopt a race, clean up), resolve and refresh a token, ask
  whether a grant works, delete a team or erase a person (revoke the connection, then the grant, then the rows).
- Hard: an account's authorization is shared by all its spaces; who builds there is read over several awaits before the
  write; two refreshes race for one token; batches and answers are lost.
- Correct when nobody brings a space into an account others build in with an authorization that works, a space that
  leaves takes nothing from the others, and no refresh that lost a race takes its grant for ended, as far as the read
  that settles it can tell.

### What could follow

| Component | State and operations | What is hard, and what would make it correct |
| --- | --- | --- |
| Base container snapshots | the claim and the snapshot's record; choose, claim, record, discard | a start that outlived its claim must not record over a newer one |
| Seeding, inventory and sync pages | a seed's session in the lane; begin, batches, commit, abort; reads of one revision | a read over several awaits must see one revision; a seed interrupted half way must not count as seeded |
| Project repository and git proxy | the head of a repository; push, upload, rename | pushes race on the head; most of the code is the git wire format |
| Members of a team | roles and pauses; step down, remove, erase | the guard for the last admin is inside one statement; a model pays only with invites, shares and erasure around it |

### Left out, and why

- *Commands in the container* (streams, process groups, the terminal): what they do to the lane, the journal and the
  pending rows is in components 1 and 2; the rest is I/O inside the container.
- *Conversation agent turns*: here only as an agent that restarts, stops tools and asks for changes; the model's loop is
  a library's.
- *Projects, conversations and posts*: single guarded statements.
- *Account deletion and export*, but for connections (component 7): idempotent best-effort steps over services outside
  this repository.
- *HTTP handlers and authentication*, *browser client*, *project template, CLI and scripts*: no protocol of their own.

## Modules

| Module | What it is |
| --- | --- |
| `WorkspaceLane`, `MCWorkspaceLane` | component 1 and its instances for TLC |
| `WorkspaceLaneProofs` | its theorems |
| `CommandSync`, `MCCommandSync` | component 2 |
| `CommandSyncProofs` | its theorems |
| `ToolOutcome` | what component 3 promises, in three actions |
| `ToolJournal`, `MCToolJournal` | component 3, which implements `ToolOutcome` |
| `ToolJournalProofs` | its theorems, the refinement among them |
| `UpgradeWindow`, `MCUpgradeWindow` | component 4 |
| `UpgradeWindowProofs` | its theorems |
| `Deployments`, `MCDeployments` | component 5 |
| `DeploymentsProofs` | its theorems |
| `DeploymentsLiveProofs` | what its Worker serves: the theorems about `live` |
| `CloudflareChanges`, `MCCloudflareChanges` | component 6 |
| `CloudflareChangesProofs` | its theorems |
| `Connections`, `MCConnections` | component 7 |
| `ConnectionsProofs` | its theorems |

A handler is cut where it awaits: what it does between two awaits is one action, because a Durable Object delivers no
other event there. Of the control plane, whose requests share D1 alone, an action is one statement or batch. A definition marked *Faulty form* is a plausible bug in the definition below it; no specification
uses it, and each is there to show that a property notices it.

**How they fit together.** `ToolJournal` sees the lane as one variable: `Enter` and `Refuse` are `acquire` granting and
throwing, `OtherWorks` is every other operation, `LaneLapses` is the recovery of a dead holder's lane, of which
`WorkspaceLane` has the conditions. `WorkspaceLane` sees the journal as absent, running or settled, which is all
`acquire` and `ResumesInterruptedExecution` read of it. `CommandSync` has the rows of commands, which wait for
their sync between the two, and the barrier (`Blocked`) that `withStatefulOperation` asks before the lane. Each
assumes of the others what they show: the lane that its work is exclusive, the journal that a lane has one holder, the
sync that one command is in the lane at a time.

`UpgradeWindow` is around them: its redeploy is a `Restart` of theirs and ends their container. Its builders are those
of `Deployments`, of which it sees only whether a step runs; `Deployments` sees an upgrade as a restart of the builder
and a lost container. `CloudflareChanges` is what a command of `CommandSync` does through the proxy while it runs, and
`Connections` has the token the other two send with: a change of connection is left out there, and a refused token is
one of their failures.

### WorkspaceLane

A request is one `withStatefulOperation` call; its identity is its owner UUID. Time is what is left of each deadline, in
thirds of a lease (`HEARTBEAT_TICKS_PER_LEASE`), so the clock needs no bound; timers are never early and may be late.

| Code | Definitions |
| --- | --- |
| `acquire`, `release`, `renew`, `interruptedHolder` | `Occupied`, `Replay`, `Grantable`, `HolderSettled`, `RecoverableEarly`, `Resuming`; `Grant`, `Conflict`, `Refuse`, `ReleasedLane`, `RenewedLane`, `InterruptedHolder` |
| `beginToolOperation` for a lane kind | `BeginFresh`, `BeginAgain`, `BeginTool` |
| `withStatefulOperation` up to the probe's answer | `Enter`, `EnterSettled`, `ProbeFinished` |
| the operation in the lane | `Start`, `Reattach`, `CannotStart`, `Finish`, `Fail`, `Leave` |
| `OperationLeaseHeartbeat` | `NewBeat`, `Observed`, `ProofOfLife`, `HeartbeatTick` |
| container, clock, object | `WorkEnds`, `ContainerLost`, `Tick`, `Restart` |

### CommandSync

Containers are numbered; a replacement is the next number, and a runtime id is a container's number. A pull is three
steps, `check`, `pull` and `recheck` (`pullFromOriginRuntime`), and anything may happen between them.

| Code | Definitions |
| --- | --- |
| `beginToolOperation`, `executeStream`, `openCommandHandle` | `Begin`, `EnterExec`, `Exec`, `ExecRefused`, `CommandEnds`, `StreamBroken` |
| `confirmCommandSync`, `registerPendingCommand`, `schedulePending` | `Exited`, `ConfirmOk`, `ConfirmLost`, `ConfirmPending`, `RegisterPending`, `SchedulePending` |
| the journal's `completePending`, `fail`, `cancel` | `CompletePending`, `FailPending`, `FailUnmarked`, `CancelTool` |
| `cancelExecution` of a recovered command: kill, wait, then what became of its row | `KillRecovered`, `RecoveredEnds`, `RecoveredUnsettled`, `FailCancelled` |
| `retryPendingComputerSync`, `reconcilePendingCommands`, `recoverExhaustedComputerSync` | `RunRetry`, `RunSweep`, `RetryCompletes`, `RetryLoses`, `RetryFails`, `SweepCompletes`, `SweepFails`, `RecoveryPulls`, ..., `Joined` |
| the alarm and its callbacks, `waitUntil` | `AlarmRetries`, `AlarmSweeps`, `BackoffElapses`, `BootSweeps` |
| constructor, container | `Restart`, `ContainerReplaced` |

### ToolJournal

An attempt is a pair of a call and a number. `net` holds requests that are under way: they arrive in any order, and
the attempt that sent them may be gone. `apply` is where an `applyChanges` is: sent, waiting for the lane, entered,
reading the sizes, projected (its new files being hashed), committed.

| Code | Definitions |
| --- | --- |
| journal `begin`, `fail`, `cancel`, `complete`, `commitMutation` | `BeginRow`, `BeginAnswer`, `FailRow`, `CancelRow`, `CompleteRow`, `Commit` |
| `#executeTool`, its replay and its result | `Start`, `Hears`, `Begin`, `BeginFails`, `Poll`, `Exclude`, `Execute`, `Complete`, `CompleteFails`, `GotoJournalled`, `GotoResult` |
| the busy retry | `Replied`, `Resend`, `ApplyFails` |
| stop and `#settleWithRetries` | `Stop`, `AskToCancel`, `Cancel`, `GiveUp`, `Throw` |
| `applyChanges` | `Arrive`, `Refuse`, `Enter`, `Read`, `Abandon`, `Commit`, `Answer` |
| others, restarts of both objects | `OtherWorks`, `LaneLapses`, `Restart`, `AgentRestarts` |

### UpgradeWindow

Time is the age of a row and what is left of the window. A piece of work is one admission of `BuilderRuntimeActivity`;
an agent has a queue of writes that keep their order, and skips one when what it last wrote is the same and fresh.

| Code | Definitions |
| --- | --- |
| the statements on both rows | `BusyRow`, `JustEnded`, `Claimable`, `Holdable`, `OpenedFor`, `ClosedBy` |
| an agent's counted work and its queue of writes | `Begin`, `Enqueued`, `Skippable`, `Heard`, `Write`, `Observe`, `Recorded`, `NotRecorded`, `Settles`, `End` |
| its wait for the window | `StartsWork`, `IsHeldBack`, `ReadFails`, `Poll`, `WaitExceeded`, `CallOff` |
| a builder's `mayStart` and heartbeat | `MarkBusy`, `LookAgain`, `Unmark`, `Heartbeat`, `StepEnds`, `NoJobLeft` |
| an upgrade's Workflow | `StartUpgrade`, `Claim`, `Defer`, `ProceedUnwindowed`, `Redeploy`, `Resumed`, `DeployFails`, `Hold`, `Renew`, `Operate`, `GivesUp`, `Release`, `MarkReady` |

### Deployments

A commit is its number in the order of pushes; a row's age is its place in `order`. `claim` is a claim on its way, cut at
each statement, and `run` is what a builder's `runNext` does.

| Code | Definitions |
| --- | --- |
| `claimDeployment`, `retryDeployment` | `Push`, `ReadHead`, `CheckNewer`, `Insert`, `Supersedes`, `Supersede`, `RanOut`, `TakesOver`, `LeavesAlone`, `Retry`, `ClaimAgain`, `ClaimLost` |
| the report's statement and the credential's condition | `AnotherIsDeploying`, `Reported`, `MayHaveToken` |
| the builder's jobs | `AddJob`, `AddJobBeside`, `Start`, `Advances`, `Yield`, `Done`, `Restart` |
| a step | `Report`, `Request`, `Heartbeat`, `WorkDone`, `WorkFails`, `ContainerGone`, `NotDeployable`, `EndReport` |

### CloudflareChanges

A change is one request of `cf`. `rec` is its record in the agent's SQLite and `row` a team's row; `filed` and `asked` are
lists the agent keeps in memory.

| Code | Definitions |
| --- | --- |
| the proxy's request and wait | `CfAsks`, `Poll`, `AskAgain`, `Lapses`, `GivesUp`, `Answer` |
| proposals in turn, leaving, withdrawing | `Propose`, `Create`, `Unsettled`, `LeaveOverdue`, `WithdrawHeld`, `CommandEnds`, `Settle` |
| the decision, the fiber, its recovery | `Approve`, `Reject`, `StartFiber`, `FiberApproves`, ..., `FiberCompletes`, `Recovers`, `Restart` |
| a team's change | `File`, `NotFiled`, `List`, `Claim`, `AdminSends`, `FinishApproval`, `RowNotApproved` |

### Connections

A grant is a number; `vault` is the rotation of its token that is stored, `grant` the one Cloudflare accepts. A flow is one
return from Cloudflare; `ask` is a use of the vault, by a call or by a flow that asks whether a grant works.

| Code | Definitions |
| --- | --- |
| `authorizationToReplace` | `Return`, `ReadAuthorization`, `ReadOthers`, `Answered` |
| `activateCloudflareConnection`, the cleanup after it | `Store`, `AsRead`, `Activate`, `Verify`, `Discard`, `LeaveAccount`, `Tidy` |
| `resolve`, `stillAuthorizes`, `refreshOAuthCredential` | `Calling`, `ReadCredential`, `Request`, `SaysNothing`, `Write`, `Settle` |
| `revokeConnection`, `deleteOrganization`, the last batch of an erasure | `RevokeConnection`, `ReadUnused`, `RevokeGrant`, `DeleteSpace`, `Interrupted` |

## What each run checks

Model checking, all of it exhaustive within the bounds. `CHECK_DEADLOCK FALSE` stands where a behaviour really ends:
every call has been answered and the bounds on attempts, containers, restarts and grants are used up.

| Run | Instance | What it shows |
| --- | --- | --- |
| `WorkspaceLane_live` | two attempts at one exec call, two at a seed step, 1 unit of silence, with fairness | `HolderIsExclusive`: one operation at a time, named by the lane, even past its lease. `EarlyTakeoverIsSafe`: no lease is taken early from a command that may still write. `InterruptedToolWorkIsNotRepeated`, `AdoptedWorkWasStarted`: after a restart a call adopts what it started, or fails. `EveryRequestIsAnswered` |
| `CommandSync_restarts` | two commands, both cancellable, two containers, a restart | `NeverStranded`: what is outstanding always has a wake, a sweep or a retrier. `IntentNamesItsRuntime`, within one instance of the object, over lost confirmations and killed commands |
| `CommandSync_live` | one command, three containers, a restart, with fairness | `EveryPendingIsSettled`; `CompletedIsSaved` and `FailedOnlyWhenLost`, where no second command interferes |
| `ToolJournal_main` | one call attempted twice, a restart of the workspace, any number of the agent | it implements `ToolOutcome` (`FateIsDecidedOnce`); `LandsOnItsBase`; `ReportIsTrue` |
| `UpgradeWindow_main` | one agent's turn, a project builder, two upgrades, one of them of a reconnected runtime, one fault | `AnOpenWindowHoldsWorkBack`: no admitted work inside an open window, but for a misled agent's (below). `HolderKeepsItsWindow`: a window passes on only when closed or lapsed |
| `UpgradeWindow_live` | one agent's turn and another work, one upgrade, one fault, with fairness | `StartedWorkIsRecorded`: over skipped, queued, renewed and failed writes the row says busy, unless its agent is misled. `WaitingWorkProceeds` |
| `Deployments_main` | two commits of main, two people's builders, one retry or opened workspace, one fault, a restart | `OneDeployAtATime`, counting tokens that outlive their lease; `LiveNeverGoesBack`, `PublishedIsLive`, with rows taken over at any age and jobs resumed later |
| `CloudflareChanges_main` | two changes of one command, of an admin or a member, one restart, with fairness | `SentOnce`; `NothingSentIsTrue`: what a decision, a withdrawal or an expiry called not sent never is; `OneAtATime`; `EveryCfIsAnswered` |
| `Connections_main` | a person's own space and a team of two admins, two accounts, two returns from Cloudflare, a request, one lost answer or interruption | `NobodyTakesAnAccountOver`: what was checked still holds when the connection is written. `ActiveSpacesKeepTheirGrant`; `EndedIsTrue`: a refused refresh calls only a dead grant ended. Both exempt whom a failed or early settling read misled |

Each module's `TypeOK` is checked in its first run. It is more than the variables' types: a lease never outlives its
length, no attempt beyond the last one is stored, an error stands beside a running row only, a tombstone only where
there is no row, a space's generation advances once for each grant.

### Where the code and what is said of it disagree

Three runs end in a counterexample; each checks one sentence that a document or a comment states.

- `CommandSync_stale`, `CompletedIsSaved`: after a restart the constructor's sweep and the alarm retry one row. The
  slower one completes whatever command waits by then (`index.ts:584`), which may be a later one, on its own earlier pull.
- `Deployments_superseded`, `SupersededByNewer`: a claim inserts its row and then supersedes every other unfinished one
  of the branch, in a statement that does not ask which is newer (`project-deployments.server.ts:150`). Of two claims at
  once the older may supersede the newer, and both may end superseded, so that nobody publishes the branch.
  `project-deployments.server.ts:102` says that a new commit supersedes the older ones.
- `CloudflareChanges_filed`, `FiledIsTheirs`: a member's change takes its number from the length of a list that grows
  when the filing's answer is back (`conversation-agent.ts:2400`). A second one filed meanwhile takes the same number,
  its insert does nothing, and `cf` is told that it was sent to the admins. `ARCHITECTURE.md:520` has a number for each.

The properties are stated so that three more behaviours of the code, which are in the models, are exempt by name. Each is
the exact case, remembered in a history variable, and nothing around it is exempt:

- *A misled agent* (`misled` of `UpgradeWindow`): an idle write is committed although its answer is lost. The agent goes
  on from what it knew before, skips the busy write that would put its row right (`builder-runtime-activity.ts:179`), and
  an upgrade may claim the window over work that runs, until a write is heard again. The comment at
  `builder-runtime-activity.ts:119` has it fail safe. Builders have no such case and are never exempt.
- *A commit taken over before it superseded* (not in `swept` of `Deployments`): its claim was lost between two statements,
  and somebody else's takeover, two hours later, supersedes nothing (`project-deployments.server.ts:174`). An older
  deployment stays queued in a runtime that stopped, whose job may go on and put the site back.
- *A settling read that misled* (`misled` of `Connections`): after a refused refresh the vault waits two seconds and reads
  again. A read that fails counts as not rotated (`cloudflare-credential-vault.ts:314`), as does one that comes before
  another's rotation is written, and a grant that works is called ended. The comment at line 115 has such cases count as
  working.

The models also contain behaviours that no property speaks of, because none that is worth stating would hold:

- an instance that still owns a call's row answers its replay `reattach`, decides again that it may not resume
  (`index.ts:2342`), and starts the command a second time if the container was replaced in between;
- a lane conflict inside `applyChanges` fails the journal row with the conflict's message (`index.ts:983`), so the
  client's busy retry waits for a row that cannot run any more;
- a stop during the acknowledgement of a replayed receipt reports as stopped a change that is on disk;
- a waiting command whose cancellation was recorded is not failed when its container is lost, and a sweep may
  complete it by a pull from the replacement (`index.ts:592`);
- the barrier is asked before the wait for the probe and not after it, so a command that an earlier instance
  started may come through beside an outstanding sync; what that may not do to the first command is `CompletedIsSaved`;
- an upgrade whose window lapses during the redeploy has it renewed by nobody, and work may start that the redeploy
  ends, although `user-workspace-runtime-provisioning.ts:77` says that it never upgrades a busy workspace;
- a space that reconnects while its own deletion is under way leaves its new credential stored and its grant alive.

### Bounds, and why they are enough

- *Lane*: four requests and two keys. A conflict needs two owners, a replay two attempts at a key, and a takeover raced
  by a replay a third request. An exec call is renewed and resumed, a seed step is neither and its replay is refused.
  `Horizon` 1 is below a lease, so that a heartbeat stops before it is lost. A validation, whose lane may be recovered
  early, and the other kinds are in the proofs, which hold for every kind. Starts are counted to 2, which tells once from twice.
- *Sync*: a stale retrier needs a second command to harm; more of them only queue behind the barrier.
  `MaxAttempts` 2 has a first and a last attempt. Three containers let one be replaced during a pull and once more
  by the recovery; with two commands that are killed at any time there are two, of which one may be lost. One retrier
  works for the sweeps that the constructor and `registerPendingCommand` hand over, one for the alarm: a sweep handed over
  while the first still works (`BootSweeps`) is left out, and its wake is not. One `cancelExecution` is under way for a
  row at a time.
- *Journal*: `MaxTries` 2, as an attempt only meets requests of earlier ones; the run was repeated with 3 attempts
  (2 million states) without a difference. One call, because calls share only the lane and the client's active tool,
  and both are occupied by others in this instance too (`Other`, `Exclude`). A restart of the agent needs no bound.
- *Upgrade window*: a window of two units outlives the steps of an upgrade or not; a lease of two is renewed after one;
  one write waits behind one that is sent. Two upgrades contend in one run; two works share their agent's record in the
  other. `MaxFaults` 1 is a failed write, read or redeploy anywhere, or a Workflow whose retries ran out; a write that
  failed may have been committed.
- *Deployments*: two commits are an older and a newer one; two builders are two people with the project open. A lease of
  three units lasts over one failed heartbeat and not over two, and a token over its lease by one unit.
- *Changes*: two are enough for a queue, for a race of proposals and for two numbers. One restart, at any step.
- *Connections*: two grants, one held by a space while the other is brought, or both at once. Each is rotated once, which
  is one refresh that wins and any number that lose. The exchange of accounts and of returns is a symmetry: nothing names
  one.

### Fairness

- *Lane* (`FairSpec`): each request is made some time, time passes, commands end, an outcome is recorded, a caller that was told of a conflict asks
  again, and each handler proceeds. `Grant` is strongly fair: between its attempts a caller is not asking, so its
  turn is enabled again and again and never for good. Nothing forces a restart, a lost container or a failure. A
  command that never ends is outside the lane's reach: the tool budget above it ends it.
- *Sync* (`FairSpec`): due callbacks run (the platform retries an alarm), backoff elapses, and a retrier proceeds. The steps
  that need the container are strongly fair: asked again and again, it answers some time, or turns out to have been
  replaced. Commands and callers have no fairness at all; `EveryPendingIsSettled` does not depend on them.
- *Upgrade window* (`FairSpec`): time passes, an agent's writes and its loop go on, work ends, and a Workflow runs its
  steps. Strong fairness stands only where the queue's bound, which the code does not have, may disable a step
  again and again. No new work, state change, look of a builder or upgrade has to happen.
- *Changes* (`FairSpec`): the proxy goes on asking, the agent answers, time passes, and a fiber runs or is recovered.
  Nobody has to decide, to stop or to end anything, and yet every `cf` is answered.
- *Journal*, *Deployments*, *Connections*: only safety is claimed. The settlement of a call is bounded by deadlines after which the client reports it as
  indeterminate, which `GiveUp` may do at any time.

## What is proved

The theorems hold for every value of the constants that the modules' assumptions allow, so for any number of
requests, keys, calls, attempts, containers, agents, builders, commits, changes, spaces and restarts. The assumptions
(`LaneConstants`, `SyncConstants`, `JournalConstants`, `UpgradeConstants`, `DeploymentConstants`, `ChangesConstants`,
`ConnectionsConstants`) say that the maps are functions into the right sets, that bounds are numbers, and that `None`
and `Other` are not calls or owners. Two are about time and come from the code: `RenewalUnits + WorkUnits <= LeaseUnits`,
because `RUNTIME_BUSY_LEASE_MS` is a turn's wall clock and half an hour, and `HeartbeatUnits < LeaseUnits` of a deploy.

**WorkspaceLaneProofs**
- `TypeCorrect`, then `ExclusiveHolder`: `HolderIsExclusive` is inductive with the types, because `acquire` asks for
  active owners first.
- `StepInvariant` adds what the properties of steps rest on. `LaneOrigin`: the lane names an operation that is running or
  was interrupted. `ProbeIsSound`: an answer "finished" stays true as long as the lane names the holder it is
  about, since nobody else can start that work. `NothingBeforeBegin`, `FreshExecIsOwned`, `FirstAttemptIsAlone`: who
  may still start a call's work for the first time.
- `EarlyTakeover` and `ToolWorkIsNotRepeated` follow, one step of the machine at a time. The second says that work started
  by an earlier instance is never started again, whatever the current one may do with its own.
- `AdoptedWork`: by `EffectWasStarted`, whatever the container shows of a key was started under that key.

**CommandSyncProofs**
- `TypeCorrect` needs `RanIfOpen`: a command whose stream is open has a container, so the intent that is recorded for
  it names one.
- `NothingIsStranded`: `NeverStranded` is not inductive. A stored wake may be the retry of a row that is gone, and a
  retrier at work may be one that leaves another row alone. `WakeInv` gives each kind of outstanding work its own
  evidence: a row that is not exhausted has its retry stored or at work (`RowIsWoken`), an exhausted one a recovery
  or a sweep (`ExhaustedIsRecovered`), a waiting row a sweep (`PendingIsSwept`), and a sweep stays a sweep until its
  end stores the next (`SweepersWork`).
- `FirstLife` is what holds until the object restarts for the first time: no call is left from an earlier instance, an open
  command is alone with nothing outstanding (`OpenAlone`), the handed over sweep finds its row not due (`SweepIsEarly`),
  and the alarm, the one retrier there is, pulls from the runtime its row names (`AlarmKeepsIntent`).
  `IntentsNameTheirRuntime` follows, for commands that are killed by request too: while another one runs, what comes to
  wait beside it ran in the same container.
- `SavedInv` adds what the pulls have brought: if the container is still the command's at the last check of a pull, the
  changes are saved (`PullsBring`), because containers only come one after another (`RanBefore`). With it,
  `LostBeforeFailed`: no waiting command is failed while its container lives. And `CompletedWasPulled`: where nobody
  cancels, what is completed was saved. Both speak of one instance, and TLC has the counterexample for each hypothesis
  that is dropped: after a restart two retriers work on one row (`CommandSync_stale`), which completes and fails the
  wrong command; and a cancelled command's row outlives its container and its intent, and is swept as completed.

- `AloneCompletedIsSaved` and `AloneFailedOnlyWhenLost` say what is left of the two over any number of restarts, for a
  command that has the workspace to itself (`Tools = {only}`). A restart may put the constructor's sweep beside the alarm's
  retry, one of them with an attempt counted from a row that has changed since. No harm comes of it for one that nobody
  cancels (`Cancellable = {}`), by `AloneInv`: every intent names the command's container, so every pull does
  (`RetriersAlone`); a row that is stored again by a slower retrier names it too (`RowAlone`); and a waiting row never
  stands without an intent, so no sweep takes an ordinary pull for a proof. The second theorem does not ask who cancels: a
  cancelled command's row may outlive its intent and be swept beside a stale retry, but whoever looks for a container
  looks for the command's or for none in particular (`OriginInv`).

**ToolJournalProofs**
- `TypeCorrect` and `LandedIsCompleted` (a change in the project has its completed row) are inductive together, as `IInv`.
- `DecidedOnce`: `ToolJournal` implements `ToolOutcome`. Each operation on the journal `Moves` at most one call's fate,
  and only if it was open (`OutcomeStep` turns that into a step of `ToolOutcome` or a stutter). A begin answers
  `failed`, and a cancel `settled`, only for a call whose fate is decided or is decided by that very step.
- `LandingOnBase`: by `BaseInv`, the lane is one attempt's at a time, what was read in it is of the attempt's base, and
  an attempt that has not executed has sent no change, so its base cannot move under one.
- `ReportsAreTrue`: `ReportInv` is about who may still act for a call. Its first begin opens the row for good
  (`UntriedIfAbsent`), so one attempt tries it (`TriedAlone`), although attempts overlap in their requests; a result
  without a change is given when nothing is left that could make one (`NothingToCome`).

**UpgradeWindowProofs**
- `TypeCorrect` and `WindowIsKept`: each statement that writes the window asks for its holder or for its lapse.
- `BuildersAreHeldBack`: a builder marks itself busy before it looks, and its row grows no older than it has been looking or
  working (`BuildersAreBusy`), so until its lease an upgrade's claim sees it. This needs no assumption on failures.
- `StartedIsRecorded` and `OpenWindowHolds` are the same for agents, whose writes are queued, skipped and joined. `AgentsInv`:
  what an agent takes for recorded is in its row (`RecordedIsFresh`), which justifies a skip; the row of admitted work is
  busy and nothing queued behind it says idle (`AdmittedIsBusy`); and from a write that somebody waits for on, every
  queued one says busy (`QueueInv`). The theorems have no hypothesis on failures: any write may fail, and be committed all
  the same. What follows from that is in `misled`, which an agent enters by an idle write that failed and was committed and
  leaves by the next one that is heard, unless that is a busy one while a window is already open: its work runs by then.
  `RecordedIsFresh`, `AdmittedIsBusy` and `WorksHeldBack` each exempt these agents and nobody else.

**DeploymentsProofs**
- `TypeCorrect` rests on `JobsInv`. The attempt corrected the model's type invariant: a job's restarts are not bounded by
  `MaxRestarts`, as a job whose builder restarts again while its end is reported counts once more; they are bounded by
  the failures that happened (`RestartsAreFaults`).
- `OneDeployHolds`: at most one commit deploys with a lease (`OneHolds`), and whoever can have a request sent holds
  that lease: what it has lost is the time since its last renewal (`SendersHold`, of `run[b].age`). The theorem is of each
  state in which whoever can send renewed its lease within the lease's length (`RenewedInTime`), and asks nothing of how
  many things failed, which, or of the lengths: with heartbeats of 45 s and a lease of 180 s, three renewals in a row have to
  fail, or stay away, before a state is not one of these. Then a deploy that is alive loses its lease under a cached token.

**DeploymentsLiveProofs**
- `PublishedLive` and `LiveForward`, of behaviours in which that holds throughout: a deploy never goes over that of a commit
  claimed later that superseded the rest, and what is said to be published is live or was followed by a later one. A
  takeover needs no other condition than the code's. The history `swept` has the commits whose claim superseded the rest
  before anybody took them over; one that was taken over first may be gone back over, as said above.
- Neither is inductive. `LiveInv` adds that nothing was done yet with a commit that is about to supersede (`Unstarted`),
  so whatever came before it is over for good once it has (`SweptIsOver`), a retry being of the newest row only; and that
  once a swept commit was deployed (`Went`), it or a later one stays live and nothing older holds the deploy (`SweptWent`).
  `PlacesInv` has what is claimed, in a line or live among the rows.
- The order is that of the claims. A head that was read earlier and claimed after a newer push counts as newer: that is
  the code's `created_at`, and no theorem speaks of the order of the pushes.

**CloudflareChangesProofs**
- `TypeCorrect` needs that a filed change that is listed was answered, for its number to be one of the list's.
- `SendingInv`: a change belongs to the chat or to one row of the team (`ChatOrTeam`); where its fiber is fixes the record's
  status, over a restart as well (`FiberMatchesRecord`); what was sent is known by the fiber or the row that sent it, once
  (`SentIsKnown`); and what `cf` was told is unsent, by the answer to its decision, withdrawal or expiry, can go no more
  (`HeardUnsentIsOver`). The answer to a call of the agent that failed says so too, and is not part of it. From it `SentOnceHolds`
  and `NothingSentHolds`. `OneAtATimeHolds`: a record is created, after the digest, in the step that looks whether another one waits.

**ConnectionsProofs**
- `GrantsAreKept`: each return brings a grant of its own (`FreshGrants`), what any statement names is a grant that no return
  will still bring (`NamesAreKnown`), only such a one is revoked (`RevokedAreKnown`), and between a deletion's look and
  its revocation nobody builds with what it found unused (`UnusedStaysUnused`).
- `OnlyTheDeadEnded`: the rotation stored is never later than Cloudflare's, one request at a time rotates a token and then
  writes it, and a refused one knows of a later token or a dead grant (`RefreshInv`); what is dead stays dead. Whoever
  called a grant ended on a settling read that failed, or that came before another's rotation was written, is in `misled`
  until it asks again (`MisledStays`); everybody else is right.
- `AccountsAreNotTaken`: by `TakeOverInv`, what a return found before its awaits is still true when it writes, or the
  authorization it found is no longer there and the write does nothing, or it was misled.

Only model-checked:
- the four properties of liveness: liveness under fairness and `ENABLED` are beyond the prover (as is induction over data,
  which nothing here needs: no definition is recursive).

Every other property of a passing run is stated by a theorem, for every value of the constants or under the hypotheses
named above.

## What the models leave out

- The container refuses a second execution under an identifier it still holds, and `disposeExec` is best effort: after
  a command's end the container may or may not still show it.
- The probe's memo of unsettled answers is "no answer yet". Retry rows of releases without a runtime id, and backends
  other than the container's shell, are left out.
- A sweep reaches its first await on the container before any other event is delivered: it starts in the constructor, or
  behind one storage write.
- `begin`'s cap on running rows, the journal's pruning and the digest of a call's arguments are left out, as are sizes and
  limits in `applyChanges` (any of them is `Abandon`), its seed identifier, and a change of deletions only, which
  takes the same path with fewer awaits.
- A pull inside the lane does not run during an `applyChanges`: the barrier keeps it out.
- *Upgrade window*: a statement's `now` is the time it runs at; what an agent that was reset left under way (a write, a
  heartbeat) does not land later. A recorded turn that a redeploy interrupts may go on in the new object while its watch
  asks to be admitted again (`conversation-agent.ts:945`): that run is in the model as work that is not
  admitted, which the properties do not speak of, and the new admission is a piece of work like any other. The account's API, the
  canary and the locator rows around an upgrade are left out.
- *Deployments*: the publish to a wanted Worker name (`toWantedWorker`) and the reservation of names, late heartbeats, and
  what a build does. One `prepare` step stands for all that report building alike. The two hours after which a queued row may
  be taken over are any time, wherever its job is. Old rows are not pruned; a retry's second claim, which finds its
  row otherwise gone, therefore never inserts one and supersedes nothing.
- *Changes*: the domain review, a connection that changes under a proposal, changes typed in a terminal, and how decisions
  come into the command's output. The proxy's calls to the agent fail only when the agent restarts. That `cf` is then told
  that nothing was sent (`cloudflare-api-proxy.ts:200`, `291`), although its change still waits, is in the model (heard
  "broken") and in no property; so is a team's change whose sender died, which says that it is being sent for ever.
- *Connections*: memberships do not change and scopes are complete; the OAuth exchange, sessions and encryption are left
  out. The two seconds a refused refresh waits may be shorter than another's write takes. Foreign keys keep a named
  credential stored and a deleted space without a connection. Nothing collects a credential whose return was cut short.

## Plan

Done: the seven components above, and the theorems of all of them. Next, in this order:

1. `BaseSnapshot` (`base-container.ts`): claims against starts that outlived theirs.
2. `Seeding` over the lane, the project repository's head, and the members of a team.
