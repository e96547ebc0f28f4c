----------------------------- MODULE Deployments -----------------------------
(* The builds and deploys CloudChef runs for one project: a row for each      *)
(* commit in the control plane's D1, claimed by the runtime of whoever pushed *)
(* it, and in each runtime a ProjectBuilder that takes its jobs step by step, *)
(* reports to the row under a lease, and sends a deploy's requests to         *)
(* Cloudflare with a token the control plane gives only while it runs.        *)
(*                                                                            *)
(* Sources: project-deployments.server.ts (the statements),                   *)
(* runtime-deployments.ts (claim, retry, report, credential) and              *)
(* project-builder.ts (the builder).                                          *)
(*                                                                            *)
(* Time is what is left of a lease. One "prepare" step stands for all that    *)
(* report building (prepare, install, build, config-build, seal) and work     *)
(* alike; "hold" is the part of migrate that takes the project's deploy.      *)
EXTENDS Naturals, Sequences, SequencesExt

CONSTANTS
    NumCommits,    \* pushed one after the other
    Main,          \* those of the default branch; the others are of one branch
    Builders,      \* one ProjectBuilder, of one user's runtime, each
    LeaseUnits, HeartbeatUnits,  \* DEPLOYMENT_LEASE_MS, HEARTBEAT_MS
    TokenUnits,    \* TOKEN_REUSE_MS
    MaxRestarts, MaxBusyWaits,   \* the builder's own limits
    MaxAsks, MaxFaults,          \* bounds
    None

Commits == 1..NumCommits

ASSUME DeploymentConstants ==
    /\ NumCommits \in Nat /\ Main \subseteq Commits
    /\ {LeaseUnits, HeartbeatUnits, TokenUnits} \subseteq Nat \ {0}
    /\ {MaxRestarts, MaxBusyWaits, MaxAsks, MaxFaults} \subseteq Nat
    /\ HeartbeatUnits < LeaseUnits /\ None \notin Builders

VARIABLES
    pushed,  \* commits pushed so far
    row,     \* project_deployments
    order,   \* the commits that have a row, by created_at
    live,    \* the commit the project's Worker serves, 0 for none
    claim,   \* each builder's enqueue or retry on its way
    line,    \* each builder's unfinished jobs, oldest first
    job,     \* builder_jobs
    run,     \* what each builder's runNext does
    asks,    \* workspaces opened and retries so far
    swept,   \* history: the commits that superseded the rest before anybody took them over
    faults   \* failures so far

vars == <<pushed, row, order, live, claim, line, job, run, asks, swept, faults>>

States == {"none", "queued", "building", "deploying",
           "succeeded", "failed", "superseded", "not_deployable"}
Unfinished == {"queued", "building", "deploying"}
Steps == {"prepare", "hold", "migrate", "deploy"}
Endings == {"succeeded", "failed", "not_deployable"}

NoRow == [state |-> "none", by |-> None, lease |-> 0]
NoClaim == [pc |-> "none", commit |-> 0, since |-> 0]
NewJob == [step |-> "prepare", running |-> FALSE, restarts |-> 0, waits |-> 0]
Idle == [pc |-> "idle", commit |-> 0, step |-> "prepare", ends |-> "failed",
         beat |-> 0, age |-> 0, token |-> 0, sent |-> FALSE]

TypeOK ==
    /\ pushed \in 0..NumCommits
    /\ row \in [Commits -> [state : States, by : Builders \cup {None}, lease : 0..LeaseUnits]]
    /\ order \in Seq(Commits) /\ IsInjective(order)
    /\ \A c \in Commits : (row[c].state = "none") = (c \notin ToSet(order))
    /\ live \in Main \cup {0}
    /\ claim \in [Builders -> [pc : {"none", "check", "insert", "supersede", "again", "add"},
                               commit : Commits \cup {0}, since : 0..Len(order)]]
    /\ line \in [Builders -> Seq(Commits)] /\ \A b \in Builders : IsInjective(line[b])
    /\ job \in [Builders -> [Commits -> [step : Steps, running : BOOLEAN,
                    restarts : 0..faults, waits : 0..MaxBusyWaits]]]
    /\ run \in [Builders -> [pc : {"idle", "report", "yield", "work", "end", "done"},
                    commit : Commits \cup {0}, step : Steps, ends : Endings,
                    beat : 0..HeartbeatUnits, age : 0..LeaseUnits,
                    token : 0..TokenUnits, sent : BOOLEAN]]
    /\ asks \in 0..MaxAsks /\ swept \subseteq Commits /\ faults \in 0..MaxFaults

Init ==
    /\ pushed = 0
    /\ row = [c \in Commits |-> NoRow]
    /\ order = <<>> /\ live = 0
    /\ claim = [b \in Builders |-> NoClaim]
    /\ line = [b \in Builders |-> <<>>]
    /\ job = [b \in Builders |-> [c \in Commits |-> NewJob]]
    /\ run = [b \in Builders |-> Idle]
    /\ asks = 0 /\ swept = {} /\ faults = 0

Fault == faults < MaxFaults /\ faults' = faults + 1
Ask == asks < MaxAsks /\ asks' = asks + 1

-----------------------------------------------------------------------------
(* The rows.                                                                  *)

SameBranch(c, d) == (c \in Main) = (d \in Main)

CameAfter(d, c) ==
    \E i, j \in DOMAIN order : order[i] = c /\ order[j] = d /\ i < j

\* Faulty form: any failed deployment may be tried again.
AnyFailed(c) == row[c].state = "failed"

IsNewest(c) == \A d \in Commits : SameBranch(c, d) => ~CameAfter(d, c)

\* No statement reads the lease of a queued row.
Queued(b, c) ==
    [row EXCEPT ![c] = [state |-> "queued", by |-> b, lease |-> 0]]

\* What a second claim of a commit finds: a row whose lease ran out, or one that
\* may have been queued for two hours (QUEUED_TAKEOVER_MS), wherever its job is.
RanOut(c) == row[c].state \in {"building", "deploying"} /\ row[c].lease = 0

TakesOver(b, c) == (RanOut(c) \/ row[c].state = "queued") /\ row' = Queued(b, c)

LeavesAlone(c) == row[c].state # "none" /\ ~RanOut(c) /\ row' = row

\* Faulty form: a superseded deploy loses its lease while it still runs.
SupersedesAtOnce(c) ==
    [d \in Commits |-> IF d # c /\ SameBranch(c, d) /\ row[d].state \in Unfinished
                       THEN [row[d] EXCEPT !.state = "superseded", !.lease = 0]
                       ELSE row[d]]

Supersedes(c) ==
    [d \in Commits |-> IF d # c /\ SameBranch(c, d) /\ row[d].state \in Unfinished
                       THEN [row[d] EXCEPT !.state = "superseded",
                                           !.lease = IF row[d].state = "deploying" THEN @ ELSE 0]
                       ELSE row[d]]

\* Faulty form: only what is still wanted counts as a deploy that runs.
AnotherIsDeploying(c) ==
    \E d \in Commits \ {c} : row[d].state = "deploying" /\ row[d].lease > 0

AnotherDeploys(c) ==
    \E d \in Commits \ {c} : row[d].state \in {"deploying", "superseded"} /\ row[d].lease > 0

\* What a report of a move to `state` does.
Outcome(b, c, state) ==
    IF row[c].state = "superseded" THEN "superseded"
    ELSE IF row[c].state \notin Unfinished \/ row[c].by # b THEN "refused"
    ELSE IF state = "deploying" /\ AnotherDeploys(c) THEN "busy"
    ELSE "recorded"

Reported(b, c, state) ==
    IF Outcome(b, c, state) = "recorded"
    THEN [row EXCEPT ![c].state = state,
                     ![c].lease = IF state \in Unfinished THEN LeaseUnits ELSE 0]
    ELSE IF Outcome(b, c, state) = "superseded" /\ state \notin Unfinished /\ row[c].by = b
    THEN [row EXCEPT ![c].lease = 0]
    ELSE row

\* runtimeDeploymentCredentialAction
MayHaveToken(b, c) == row[c].state = "deploying" /\ row[c].by = b /\ row[c].lease > 0

-----------------------------------------------------------------------------
(* Claims: a push asks for its commit, an opened workspace for main's head.   *)

Push(b) ==
    /\ claim[b].pc = "none" /\ pushed + 1 \in Commits
    /\ pushed' = pushed + 1
    /\ claim' = [claim EXCEPT ![b] =
                     [pc |-> "insert", commit |-> pushed + 1, since |-> Len(order)]]
    /\ UNCHANGED <<asks, swept, row, order, live, line, job, run, faults>>

\* startUndeployedVersion: the head, and what the rows were when it was read.
ReadHead(b) ==
    /\ claim[b].pc = "none" /\ Ask
    /\ \E c \in Main :
           /\ c <= pushed /\ \A d \in Main : d <= pushed => d <= c
           /\ claim' = [claim EXCEPT ![b] =
                            [pc |-> "check", commit |-> c, since |-> Len(order)]]
    /\ UNCHANGED <<pushed, swept, row, order, live, line, job, run, faults>>

CheckNewer(b) ==
    LET c == claim[b].commit IN
    /\ claim[b].pc = "check"
    /\ claim' = [claim EXCEPT ![b] =
           IF \E i \in DOMAIN order : i > claim[b].since /\ order[i] \in Main \ {c}
           THEN NoClaim ELSE [@ EXCEPT !.pc = "insert"]]
    /\ UNCHANGED <<pushed, swept, asks, row, order, live, line, job, run, faults>>

\* The first claim of a commit makes its row; a later one takes over a lapsed one.
Insert(b) ==
    LET c == claim[b].commit IN
    /\ claim[b].pc = "insert"
    /\ \/ /\ row[c].state = "none"
          /\ row' = Queued(b, c)
          /\ order' = Append(order, c)
          /\ claim' = [claim EXCEPT ![b].pc = "supersede"]
       \/ TakesOver(b, c) /\ claim' = [claim EXCEPT ![b].pc = "add"] /\ UNCHANGED order
       \/ LeavesAlone(c) /\ claim' = [claim EXCEPT ![b] = NoClaim] /\ UNCHANGED order
    /\ UNCHANGED <<pushed, swept, asks, live, line, job, run, faults>>

Supersede(b) ==
    /\ claim[b].pc = "supersede"
    /\ row' = Supersedes(claim[b].commit)
    /\ claim' = [claim EXCEPT ![b].pc = "add"]
    /\ swept' = IF row[claim[b].commit].by = b THEN swept \cup {claim[b].commit} ELSE swept
    /\ UNCHANGED <<pushed, asks, order, live, line, job, run, faults>>

Retry(b) ==
    /\ claim[b].pc = "none" /\ Ask
    /\ \E c \in Commits :
           /\ row[c].state = "failed" /\ IsNewest(c)
           /\ row' = Queued(b, c)
           /\ claim' = [claim EXCEPT ![b] = [pc |-> "again", commit |-> c, since |-> Len(order)]]
    /\ UNCHANGED <<pushed, swept, order, live, line, job, run, faults>>

\* A retry claims its commit once more, for what a job is told of the project,
\* and goes on whether or not it was granted.
ClaimAgain(b) ==
    /\ claim[b].pc = "again"
    /\ TakesOver(b, claim[b].commit) \/ LeavesAlone(claim[b].commit)
    /\ claim' = [claim EXCEPT ![b].pc = "add"]
    /\ UNCHANGED <<pushed, swept, asks, order, live, line, job, run, faults>>

\* Faulty form: a job asked for again is queued beside its earlier run.
AddJobBeside(b) ==
    LET c == claim[b].commit IN
    /\ claim[b].pc = "add"
    /\ claim' = [claim EXCEPT ![b] = NoClaim]
    /\ line' = [line EXCEPT ![b] = Append(@, c)]
    /\ job' = [job EXCEPT ![b][c] = NewJob]
    /\ UNCHANGED <<pushed, swept, asks, row, order, live, run, faults>>

\* The claim's answer reaches the builder, and a job starts from its first step.
AddJob(b) ==
    LET c == claim[b].commit IN
    /\ claim[b].pc = "add"
    /\ claim' = [claim EXCEPT ![b] = NoClaim]
    /\ line' = [line EXCEPT ![b] = Append(RemoveFirst(@, c), c)]
    /\ job' = [job EXCEPT ![b][c] = NewJob]
    /\ UNCHANGED <<pushed, swept, asks, row, order, live, run, faults>>

\* The request dies at any of its awaits; nobody asks again by itself.
ClaimLost(b) ==
    /\ claim[b].pc # "none" /\ Fault
    /\ claim' = [claim EXCEPT ![b] = NoClaim]
    /\ UNCHANGED <<pushed, swept, asks, row, order, live, line, job, run>>

-----------------------------------------------------------------------------
(* The builder: one step of its oldest job at a time.                         *)

StateOf(step) == IF step = "prepare" THEN "building" ELSE "deploying"

StepAfter(step) ==
    CASE step = "prepare" -> "hold" [] step = "hold" -> "migrate" [] OTHER -> "deploy"

Goes(b, pc) == [run EXCEPT ![b].pc = pc]

\* The step's work is over: nothing sends with its token, its heartbeat stopped.
Ends(b, ending) ==
    [run EXCEPT ![b] = [Idle EXCEPT !.pc = "end", !.commit = run[b].commit, !.ends = ending]]

\* The end is reported; what is left is to mark the job done.
Over(b) == [run EXCEPT ![b] = [Idle EXCEPT !.pc = "done", !.commit = run[b].commit]]

\* The step is over: the job waits for its next, in this call or a later one.
Advances(b) ==
    /\ job' = [job EXCEPT ![b][run[b].commit].running = FALSE,
                          ![b][run[b].commit].step = StepAfter(run[b].step)]
    /\ run' = [run EXCEPT ![b] = Idle]

\* A job found running stopped partway: it starts over, a few times.
Start(b) ==
    /\ run[b].pc = "idle" /\ line[b] # <<>>
    /\ LET c == Head(line[b])
           j == IF job[b][c].running
                THEN [job[b][c] EXCEPT !.restarts = @ + 1, !.step = "prepare"]
                ELSE [job[b][c] EXCEPT !.running = TRUE]
       IN  /\ job' = [job EXCEPT ![b][c] = j]
           /\ run' = [run EXCEPT ![b] = [Idle EXCEPT
                  !.commit = c, !.step = j.step,
                  !.pc = IF j.restarts > MaxRestarts THEN "end" ELSE "report"]]
    /\ UNCHANGED <<pushed, swept, asks, row, order, live, claim, line, faults>>

\* containerHasJob: the container of the earlier steps is gone.
ContainerGone(b) ==
    LET c == run[b].commit IN
    /\ run[b].pc = "report" /\ run[b].step # "prepare" /\ Fault
    /\ job' = [job EXCEPT ![b][c].running = FALSE, ![b][c].step = "prepare",
                          ![b][c].restarts = @ + 1]
    /\ run' = [run EXCEPT ![b] = Idle]
    /\ UNCHANGED <<pushed, swept, asks, row, order, live, claim, line>>

\* The plan of the commit says that it can't be deployed.
NotDeployable(b) ==
    /\ run[b].pc = "report" /\ run[b].step = "prepare"
    /\ run' = Ends(b, "not_deployable")
    /\ UNCHANGED <<pushed, swept, asks, row, order, live, claim, line, job, faults>>

\* The report a step begins with.
Report(b) ==
    LET c == run[b].commit
        step == run[b].step
        state == StateOf(step)
        outcome == Outcome(b, c, state)
    IN  /\ run[b].pc = "report"
        /\ row' = Reported(b, c, state)
        /\ \/ /\ outcome = "recorded" /\ step = "hold" /\ Advances(b)
           \/ /\ outcome = "recorded" /\ step # "hold"
              /\ run' = Goes(b, "work") /\ UNCHANGED job
           \/ /\ outcome = "busy" /\ step = "hold" /\ UNCHANGED job
              /\ run' = IF job[b][c].waits >= MaxBusyWaits THEN Ends(b, "failed")
                        ELSE Goes(b, "yield")
           \/ /\ outcome # "recorded" /\ ~(outcome = "busy" /\ step = "hold")
              /\ run' = Ends(b, "failed") /\ UNCHANGED job
        /\ UNCHANGED <<pushed, swept, asks, order, live, claim, line, faults>>

\* While another deploy runs the lease is renewed, as building, and the job waits.
Yield(b) ==
    LET c == run[b].commit IN
    /\ run[b].pc = "yield"
    /\ row' = Reported(b, c, "building")
    /\ IF Outcome(b, c, "building") = "recorded"
       THEN /\ job' = [job EXCEPT ![b][c].running = FALSE, ![b][c].waits = @ + 1]
            /\ run' = [run EXCEPT ![b] = Idle]
       ELSE run' = Ends(b, "failed") /\ UNCHANGED job
    /\ UNCHANGED <<pushed, swept, asks, order, live, claim, line, faults>>

Sends(b) == run[b].pc = "work" /\ run[b].step \in {"migrate", "deploy"}

HasToken(b) == MayHaveToken(b, run[b].commit) \/ run[b].token > 0

\* A request of Wrangler's, sent on with the account's token.
Request(b) ==
    LET c == run[b].commit IN
    /\ Sends(b) /\ HasToken(b)
    /\ run' = [run EXCEPT ![b].sent = (run[b].step = "deploy"),
                          ![b].token = IF @ > 0 THEN @ ELSE TokenUnits]
    /\ live' = IF run[b].step = "deploy" /\ c \in Main THEN c ELSE live
    /\ UNCHANGED <<pushed, swept, asks, row, order, claim, line, job, faults>>

\* Renews the lease; a deploy no longer wanted stops, its gate closed at once.
Heartbeat(b) ==
    LET c == run[b].commit
        state == StateOf(run[b].step)
    IN  /\ run[b].pc = "work"
        /\ \/ /\ row' = Reported(b, c, state) /\ UNCHANGED faults
              /\ run' = CASE Outcome(b, c, state) = "recorded" ->
                                [run EXCEPT ![b].beat = 0, ![b].age = 0]
                         [] Outcome(b, c, state) = "busy" -> [run EXCEPT ![b].beat = 0]
                         [] OTHER -> Ends(b, "failed")
           \/ /\ row' = row /\ Fault
              /\ run' = [run EXCEPT ![b].beat = 0]
        /\ UNCHANGED <<pushed, swept, asks, order, live, claim, line, job>>

WorkDone(b) ==
    /\ run[b].pc = "work"
    /\ IF run[b].step = "deploy" THEN run[b].sent /\ run' = Ends(b, "succeeded") /\ UNCHANGED job
       ELSE Advances(b)
    /\ UNCHANGED <<pushed, swept, asks, row, order, live, claim, line, faults>>

WorkFails(b) ==
    /\ run[b].pc = "work"
    /\ run' = Ends(b, "failed")
    /\ UNCHANGED <<pushed, swept, asks, row, order, live, claim, line, job, faults>>

\* How the job ended. A success whose report fails is reported as a failure.
EndReport(b) ==
    LET c == run[b].commit IN
    /\ run[b].pc = "end"
    /\ \/ /\ row' = Reported(b, c, run[b].ends) /\ UNCHANGED faults
          /\ run' = Over(b)
       \/ /\ row' \in {row, Reported(b, c, run[b].ends)} /\ Fault
          /\ run' = IF run[b].ends = "succeeded" THEN Ends(b, "failed") ELSE Over(b)
    /\ UNCHANGED <<pushed, swept, asks, order, live, claim, line, job>>

Done(b) ==
    /\ run[b].pc = "done"
    /\ line' = [line EXCEPT ![b] = RemoveFirst(@, run[b].commit)]
    /\ job' = [job EXCEPT ![b][run[b].commit] = NewJob]
    /\ run' = [run EXCEPT ![b] = Idle]
    /\ UNCHANGED <<pushed, swept, asks, row, order, live, claim, faults>>

\* The builder's object restarts: its gate is closed, its jobs are kept.
Restart(b) ==
    /\ Fault
    /\ run' = [run EXCEPT ![b] = Idle]
    /\ claim' = [claim EXCEPT ![b] = NoClaim]
    /\ UNCHANGED <<pushed, swept, asks, row, order, live, line, job>>

\* One unit passes; heartbeats are on time.
Tick ==
    /\ \A b \in Builders : run[b].pc = "work" => run[b].beat < HeartbeatUnits
    /\ row' = [c \in Commits |-> [row[c] EXCEPT !.lease = IF @ > 0 THEN @ - 1 ELSE 0]]
    /\ run' = [b \in Builders |->
           IF run[b].pc = "work"
           THEN [run[b] EXCEPT !.beat = @ + 1, !.age = IF @ < LeaseUnits THEN @ + 1 ELSE @,
                              !.token = IF @ > 0 THEN @ - 1 ELSE 0]
           ELSE run[b]]
    /\ UNCHANGED <<pushed, swept, asks, order, live, claim, line, job, faults>>

BuilderStep(b) ==
    \/ Start(b) \/ ContainerGone(b) \/ NotDeployable(b) \/ Report(b) \/ Yield(b)
    \/ Request(b) \/ Heartbeat(b) \/ WorkDone(b) \/ WorkFails(b) \/ EndReport(b) \/ Done(b)
    \/ Restart(b)

ClaimStep(b) ==
    \/ Push(b) \/ ReadHead(b) \/ CheckNewer(b) \/ Insert(b) \/ Supersede(b) \/ Retry(b)
    \/ ClaimAgain(b) \/ AddJob(b) \/ ClaimLost(b)

Next ==
    \/ \E b \in Builders : BuilderStep(b) \/ ClaimStep(b)
    \/ Tick

Spec == Init /\ [][Next]_vars

-----------------------------------------------------------------------------
(* Properties.                                                                *)

(* At most one builder can have its deploy's requests sent to Cloudflare, a   *)
(* superseded deploy that has not stopped yet included                        *)
(* (project-deployments.server.ts:5 "only one deploy of a project runs at a   *)
(* time").                                                                    *)
OneDeployAtATime ==
    \A a, b \in Builders : Sends(a) /\ HasToken(a) /\ Sends(b) /\ HasToken(b) => a = b

\* A builder that can still send renewed its lease within the lease's length.
RenewedInTime ==
    \A b \in Builders : Sends(b) /\ HasToken(b) => run[b].age < LeaseUnits

(* What the project's Worker serves is replaced only by a commit claimed      *)
(* after it, unless the claim of what it serves was taken over before it      *)
(* superseded the rest: no older deploy, retried, taken over, late or kept by *)
(* a runtime that was stopped for hours, goes over a newer                    *)
(* (project-deployments.server.ts:102).                                       *)
LiveNeverGoesBack ==
    [][live' # live => live = 0 \/ live \notin swept \/ CameAfter(live', live)]_vars

(* A commit of main whose claim superseded the rest and that is said to be    *)
(* published is live, or one claimed after it is.                             *)
PublishedIsLive ==
    \A c \in Main \cap swept :
        row[c].state = "succeeded" => live = c \/ CameAfter(live, c)

(* A deployment is superseded by a later claimed one of its branch only       *)
(* (project-deployments.server.ts:102 "A new commit of a branch supersedes    *)
(* that branch's unfinished older ones").                                     *)
SupersededByNewer ==
    \A c \in Commits : row[c].state = "superseded" => ~IsNewest(c)
=============================================================================
