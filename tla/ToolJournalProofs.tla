-------------------------- MODULE ToolJournalProofs --------------------------
(* The journal's rows keep their shape, and ToolJournal implements ToolOutcome: *)
(* each call's fate is decided once. The inductive invariant adds to TypeOK     *)
(* that a change in the project has its completed row: without it a row could   *)
(* be failed, or completed again, for a call that has landed. On top of it,     *)
(* BaseInv shows that a change lands on its base, and ReportInv that what the   *)
(* model is told is so.                                                         *)
EXTENDS ToolJournal, TLAPS

LandedIsCompleted == \A t \in landed : status[t] = "completed"

IInv == TypeOK /\ LandedIsCompleted

-----------------------------------------------------------------------------
(* The operations on the journal.                                             *)

\* What every operation on the journal keeps: the shape of the rows, and the
\* completed rows of the calls that landed.
RowsKept ==
    /\ JournalOK'
    /\ \A t \in Calls : status[t] = "completed" => status'[t] = "completed"

LEMMA BeginRowKeeps ==
    ASSUME JournalOK, NEW t \in Calls, BeginRow(t)
    PROVE  RowsKept
BY DEF JournalOK, BeginRow, RowsKept

LEMMA FailRowKeeps ==
    ASSUME JournalOK, NEW t \in Calls, NEW conflict \in BOOLEAN, FailRow(t, conflict)
    PROVE  RowsKept
BY DEF JournalOK, FailRow, Runnable, RowsKept

LEMMA CancelRowKeeps ==
    ASSUME JournalOK, NEW t \in Calls, CancelRow(t)
    PROVE  RowsKept
BY DEF JournalOK, CancelRow, RowsKept

LEMMA CompleteRowKeeps ==
    ASSUME JournalOK, NEW t \in Calls, CompleteRow(t)
    PROVE  RowsKept
BY DEF JournalOK, CompleteRow, Runnable, RowsKept

LEMMA UnchangedRowsKeep ==
    ASSUME JournalOK, UNCHANGED journal
    PROVE  RowsKept
BY DEF JournalOK, journal, RowsKept

LEMMA CallOfAttempt ==
    ASSUME NEW p \in Attempts
    PROVE  Call(p) \in Calls
BY DEF Attempts, Call

-----------------------------------------------------------------------------
(* The client and the workspace keep their types.                             *)

LEMMA RequestIsTyped ==
    ASSUME ClientOK, NEW p \in Attempts, NEW kind \in {"begin", "complete", "cancel"}
    PROVE  /\ net \cup {<<kind, p>>} \subseteq {"begin", "complete", "cancel"} \X Attempts
           /\ net \ {<<kind, p>>} \subseteq {"begin", "complete", "cancel"} \X Attempts
           /\ (net \ {<<"begin", p>>}) \cup {<<kind, p>>}
                 \subseteq {"begin", "complete", "cancel"} \X Attempts
BY DEF ClientOK

LEMMA FailKeeps ==
    ASSUME ClientOK, NEW p \in Attempts, Fail(p)
    PROVE  /\ phase' \in [Attempts -> {"idle"} \cup Live \cup Ended]
           /\ cancelling' \subseteq Attempts
BY DEF ClientOK, Fail, Goto, Live, Executing

LEMMA HearsKeeps ==
    ASSUME JournalOK, ClientOK, NEW p \in Attempts, Hears(p, BeginAnswer(Call(p))),
           UNCHANGED <<stopped, unsettled, wrote>>
    PROVE  ClientOK'
<1> DEFINE answer == BeginAnswer(Call(p))
<1>0. answer \in {"execute", "active", "indeterminate", "failed", "completed"}
    BY CallOfAttempt DEF JournalOK, BeginAnswer
<1>1. Call(p) \in Calls
    BY CallOfAttempt
<1> HIDE DEF answer
<1>2. net' \subseteq {"begin", "complete", "cancel"} \X Attempts
    BY RequestIsTyped DEF Hears, answer
<1>3. /\ phase' \in [Attempts -> {"idle"} \cup Live \cup Ended]
      /\ cancelling' \subseteq Attempts
      /\ settled' \subseteq Calls
    <2>1. CASE Fail(p) /\ UNCHANGED settled
        BY <2>1, FailKeeps DEF ClientOK
    <2>2. CASE ~(Fail(p) /\ UNCHANGED settled)
        <3>1. \E w \in Live \cup Ended : Goto(p, w)
            BY <1>0, <2>2 DEF Hears, answer, GotoJournalled, Live, Executing, Ended
        <3>2. phase' \in [Attempts -> {"idle"} \cup Live \cup Ended]
            BY <3>1 DEF Goto, ClientOK
        <3>3. cancelling' \subseteq Attempts /\ settled' \subseteq Calls
            BY <1>1, <2>2 DEF Hears, ClientOK, answer
        <3> QED BY <3>2, <3>3
    <2> QED BY <2>1, <2>2
<1> QED BY <1>2, <1>3 DEF ClientOK

LEMMA RepliedKeeps ==
    ASSUME ClientOK, NEW p \in Attempts, NEW answer, Replied(p, answer)
    PROVE  ClientOK'
<1>1. net' \subseteq {"begin", "complete", "cancel"} \X Attempts
    BY RequestIsTyped DEF Replied, ClientOK
<1>2. CASE Fail(p) /\ UNCHANGED <<wrote, net>>
    BY <1>1, <1>2, FailKeeps DEF Replied, ClientOK
<1>3. CASE ~(Fail(p) /\ UNCHANGED <<wrote, net>>)
    <2>1. /\ phase' \in [Attempts -> {"idle"} \cup Live \cup Ended]
          /\ wrote' \subseteq Attempts /\ UNCHANGED cancelling
        BY <1>3 DEF Replied, Goto, ClientOK, Live, Executing, Ended
    <2> QED BY <1>1, <2>1 DEF Replied, ClientOK
<1> QED BY <1>2, <1>3

LEMMA LeaveKeeps ==
    ASSUME WorkspaceOK, NEW p \in Attempts, Leave(p), UNCHANGED <<landed, stale, restarts>>
    PROVE  WorkspaceOK'
BY DEF WorkspaceOK, Leave

-----------------------------------------------------------------------------
(* The invariant.                                                             *)

LEMMA InitInv == Init => IInv
<1> SUFFICES ASSUME Init PROVE IInv
    OBVIOUS
<1>1. JournalOK
    BY DEF Init, JournalOK
<1>2. WorkspaceOK
    BY JournalConstants DEF Init, WorkspaceOK
<1>3. ClientOK
    BY DEF Init, ClientOK
<1> QED BY <1>1, <1>2, <1>3 DEF Init, IInv, TypeOK, LandedIsCompleted

LEMMA StepInv == IInv /\ [Next]_vars => IInv'
<1> SUFFICES ASSUME IInv, [Next]_vars PROVE IInv'
    OBVIOUS
<1> USE DEF IInv, TypeOK
<1>1. ASSUME NEW p \in Attempts, Step(p) PROVE IInv'
    <2> DEFINE t == Call(p)
    <2>0. t \in Calls
        BY CallOfAttempt
    <2> HIDE DEF t
    \* What follows of an action once its rows, its types and the landed calls are known.
    <2>a. ASSUME RowsKept, landed' = landed, WorkspaceOK', ClientOK' PROVE IInv'
        BY <2>a DEF RowsKept, LandedIsCompleted, WorkspaceOK
    <2>b. UNCHANGED workspace => WorkspaceOK' /\ landed' = landed
        BY DEF workspace, WorkspaceOK
    <2>c. UNCHANGED journal => RowsKept
        BY UnchangedRowsKeep
    <2>d. UNCHANGED <<client, net>> => ClientOK'
        BY DEF client, ClientOK
    <2>1. CASE Start(p)
        <3>1. ClientOK'
            BY <2>1, RequestIsTyped DEF Start, ClientOK, Goto, client, Live, Executing, Ended
        <3>2. UNCHANGED journal /\ UNCHANGED workspace
            BY <2>1 DEF Start
        <3> QED BY <2>a, <2>b, <2>c, <3>1, <3>2
    <2>2. CASE BeginFails(p)
        <3>1. ClientOK'
            BY <2>2, RequestIsTyped DEF BeginFails, ClientOK, Goto, client, Live, Executing, Ended
        <3>2. UNCHANGED journal /\ UNCHANGED workspace
            BY <2>2 DEF BeginFails
        <3> QED BY <2>a, <2>b, <2>c, <3>1, <3>2
    <2>3. CASE Poll(p)
        <3>1. ClientOK'
            BY <2>3, RequestIsTyped DEF Poll, ClientOK, Goto, client, Live, Executing, Ended
        <3>2. UNCHANGED journal /\ UNCHANGED workspace
            BY <2>3 DEF Poll
        <3> QED BY <2>a, <2>b, <2>c, <3>1, <3>2
    <2>4. CASE ApplyFails(p)
        <3>1. ClientOK'
            <4>1. CASE Fail(p) /\ UNCHANGED net
                BY <2>4, <4>1, FailKeeps DEF ApplyFails, ClientOK
            <4>2. CASE ~(Fail(p) /\ UNCHANGED net)
                BY <2>4, <4>2, RequestIsTyped DEF ApplyFails, ClientOK, Goto, GotoResult, Live, Executing, Ended
            <4> QED BY <4>1, <4>2
        <3>2. UNCHANGED journal /\ UNCHANGED workspace
            BY <2>4 DEF ApplyFails
        <3> QED BY <2>a, <2>b, <2>c, <3>1, <3>2
    <2>5. CASE CompleteFails(p)
        <3>1. ClientOK'
            <4>1. CASE Fail(p) /\ UNCHANGED net
                BY <2>5, <4>1, FailKeeps DEF CompleteFails, ClientOK
            <4>2. CASE ~(Fail(p) /\ UNCHANGED net)
                BY <2>5, <4>2, RequestIsTyped DEF CompleteFails, ClientOK, Goto, GotoResult, Live, Executing, Ended
            <4> QED BY <4>1, <4>2
        <3>2. UNCHANGED journal /\ UNCHANGED workspace
            BY <2>5 DEF CompleteFails
        <3> QED BY <2>a, <2>b, <2>c, <3>1, <3>2
    <2>6. CASE Stop(p)
        <3>1. ClientOK'
            BY <2>6, RequestIsTyped DEF Stop, ClientOK, Goto, client, Live, Executing, Ended
        <3>2. UNCHANGED journal /\ UNCHANGED workspace
            BY <2>6 DEF Stop
        <3> QED BY <2>a, <2>b, <2>c, <3>1, <3>2
    <2>7. CASE AskToCancel(p)
        <3>1. ClientOK'
            BY <2>7, RequestIsTyped DEF AskToCancel, ClientOK, Goto, client, Live, Executing, Ended
        <3>2. UNCHANGED journal /\ UNCHANGED workspace
            BY <2>7 DEF AskToCancel
        <3> QED BY <2>a, <2>b, <2>c, <3>1, <3>2
    <2>8. CASE GiveUp(p)
        <3>1. ClientOK'
            BY <2>8, RequestIsTyped DEF GiveUp, ClientOK, Goto, client, Live, Executing, Ended
        <3>2. UNCHANGED journal /\ UNCHANGED workspace
            BY <2>8 DEF GiveUp
        <3> QED BY <2>a, <2>b, <2>c, <3>1, <3>2
    <2>9. CASE Throw(p)
        <3>1. ClientOK'
            BY <2>9, RequestIsTyped DEF Throw, ClientOK, Goto, client, Live, Executing, Ended
        <3>2. UNCHANGED journal /\ UNCHANGED workspace
            BY <2>9 DEF Throw
        <3> QED BY <2>a, <2>b, <2>c, <3>1, <3>2
    <2>10. CASE Begin(p)
        <3>1. RowsKept
            BY <2>0, <2>10, BeginRowKeeps DEF Begin, t
        <3>2. ClientOK'
            <4>1. CASE Hears(p, BeginAnswer(Call(p)))
                BY <2>10, <4>1, HearsKeeps DEF Begin
            <4>2. CASE net' = net \ {<<"begin", p>>} /\ UNCHANGED <<phase, cancelling, settled>>
                BY <2>10, <4>2, RequestIsTyped DEF Begin, ClientOK
            <4> QED BY <2>10, <4>1, <4>2 DEF Begin
        <3>3. UNCHANGED workspace
            BY <2>10 DEF Begin
        <3> QED BY <2>a, <2>b, <3>1, <3>2, <3>3
    <2>11. CASE Exclude(p)
        <3>1. RowsKept
            BY <2>0, <2>c, <2>11, FailRowKeeps DEF Exclude, t
        <3>2. ClientOK'
            BY <2>11 DEF Exclude, ClientOK, Goto, Ended
        <3>3. UNCHANGED workspace
            BY <2>11 DEF Exclude
        <3> QED BY <2>a, <2>b, <3>1, <3>2, <3>3
    <2>12. CASE Execute(p)
        <3>1. RowsKept /\ landed' = landed
            BY <2>c, <2>12 DEF Execute
        <3>2. WorkspaceOK'
            BY <2>12 DEF Execute, WorkspaceOK
        <3>3. ClientOK'
            <4>1. CASE Fail(p) /\ UNCHANGED <<apply, stale, net>>
                BY <2>12, <4>1, FailKeeps DEF Execute, ClientOK
            <4>2. CASE ~(Fail(p) /\ UNCHANGED <<apply, stale, net>>)
                BY <2>12, <4>2, RequestIsTyped DEF Execute, ClientOK, Goto, Live, Executing
            <4> QED BY <4>1, <4>2
        <3> QED BY <2>a, <3>1, <3>2, <3>3
    <2>13. CASE Resend(p)
        <3>1. RowsKept /\ landed' = landed
            BY <2>c, <2>13 DEF Resend
        <3>2. WorkspaceOK'
            BY <2>13 DEF Resend, WorkspaceOK
        <3>3. ClientOK'
            BY <2>13 DEF Resend, ClientOK, Goto, Live, Executing
        <3> QED BY <2>a, <3>1, <3>2, <3>3
    <2>14. CASE Complete(p)
        <3>1. RowsKept
            BY <2>0, <2>14, CompleteRowKeeps DEF Complete, t
        <3>2. ClientOK'
            <4>1. CASE Fail(p)
                BY <2>14, <4>1, FailKeeps, RequestIsTyped DEF Complete, ClientOK
            <4>2. CASE ~Fail(p)
                BY <2>14, <4>2, RequestIsTyped
                DEF Complete, ClientOK, Goto, GotoResult, GotoJournalled, Ended
            <4> QED BY <4>1, <4>2
        <3>3. UNCHANGED workspace
            BY <2>14 DEF Complete
        <3> QED BY <2>a, <2>b, <3>1, <3>2, <3>3
    <2>15. CASE Cancel(p)
        <3>1. RowsKept
            BY <2>0, <2>15, CancelRowKeeps DEF Cancel, t
        <3>2. ClientOK'
            BY <2>0, <2>15, RequestIsTyped DEF Cancel, ClientOK, t
        <3>3. UNCHANGED workspace
            BY <2>15 DEF Cancel
        <3> QED BY <2>a, <2>b, <3>1, <3>2, <3>3
    <2>16. CASE Arrive(p)
        <3>1. RowsKept /\ landed' = landed
            BY <2>c, <2>16 DEF Arrive
        <3>2. WorkspaceOK'
            BY <2>0, <2>16 DEF Arrive, WorkspaceOK, AtWork, t
        <3>3. ClientOK'
            BY <2>d, <2>16, RepliedKeeps DEF Arrive
        <3> QED BY <2>a, <3>1, <3>2, <3>3
    <2>17. CASE Refuse(p)
        <3>1. RowsKept
            BY <2>0, <2>17, FailRowKeeps DEF Refuse, t
        <3>2. WorkspaceOK' /\ landed' = landed
            BY <2>17, LeaveKeeps DEF Refuse
        <3>3. ClientOK'
            BY <2>17, RepliedKeeps DEF Refuse
        <3> QED BY <2>a, <3>1, <3>2, <3>3
    <2>18. CASE Abandon(p)
        <3>1. RowsKept
            BY <2>0, <2>18, FailRowKeeps DEF Abandon, t
        <3>2. WorkspaceOK' /\ landed' = landed
            BY <2>18, LeaveKeeps DEF Abandon
        <3>3. ClientOK'
            BY <2>18, RepliedKeeps DEF Abandon
        <3> QED BY <2>a, <3>1, <3>2, <3>3
    <2>19. CASE Enter(p)
        <3>1. RowsKept /\ landed' = landed /\ ClientOK'
            BY <2>c, <2>d, <2>19 DEF Enter
        <3>2. WorkspaceOK'
            BY <2>0, <2>19 DEF Enter, WorkspaceOK, AtWork, InLane, t
        <3> QED BY <2>a, <3>1, <3>2
    <2>20. CASE Read(p)
        <3>1. RowsKept /\ landed' = landed /\ ClientOK'
            BY <2>c, <2>d, <2>20 DEF Read
        <3>2. WorkspaceOK'
            BY <2>0, <2>20 DEF Read, WorkspaceOK, AtWork, InLane, t
        <3> QED BY <2>a, <3>1, <3>2
    <2>21. CASE Commit(p)
        <3>1. JournalOK'
            BY <2>0, <2>21 DEF Commit, JournalOK, Runnable, t
        <3>2. WorkspaceOK'
            BY <2>0, <2>21 DEF Commit, WorkspaceOK, AtWork, InLane, t
        <3>3. ClientOK'
            BY <2>d, <2>21 DEF Commit
        <3>4. LandedIsCompleted'
            BY <2>0, <2>21 DEF Commit, LandedIsCompleted, JournalOK, WorkspaceOK, t
        <3> QED BY <3>1, <3>2, <3>3, <3>4
    <2>22. CASE Answer(p)
        <3>1. RowsKept /\ landed' = landed
            BY <2>c, <2>22 DEF Answer
        <3>2. WorkspaceOK'
            BY <2>22, LeaveKeeps DEF Answer
        <3>3. ClientOK'
            BY <2>22, RepliedKeeps DEF Answer
        <3> QED BY <2>a, <3>1, <3>2, <3>3
    <2> QED BY <1>1, <2>1, <2>2, <2>3, <2>4, <2>5, <2>6, <2>7, <2>8, <2>9, <2>10, <2>11, <2>12, <2>13, <2>14, <2>15, <2>16, <2>17, <2>18, <2>19, <2>20, <2>21, <2>22 DEF Step
<1>2. CASE OtherWorks
    <2>1. JournalOK' /\ LandedIsCompleted'
        BY <1>2, UnchangedRowsKeep DEF OtherWorks, RowsKept, LandedIsCompleted, WorkspaceOK, workspace, journal
    <2>2. WorkspaceOK'
        BY <1>2 DEF OtherWorks, WorkspaceOK, workspace
    <2>3. ClientOK'
        BY <1>2 DEF OtherWorks, ClientOK, client
    <2> QED BY <2>1, <2>2, <2>3
<1>3. CASE LaneLapses
    <2>1. JournalOK' /\ LandedIsCompleted'
        BY <1>3, UnchangedRowsKeep DEF LaneLapses, RowsKept, LandedIsCompleted, WorkspaceOK, workspace, journal
    <2>2. WorkspaceOK'
        BY <1>3 DEF LaneLapses, WorkspaceOK, workspace
    <2>3. ClientOK'
        BY <1>3 DEF LaneLapses, ClientOK, client
    <2> QED BY <2>1, <2>2, <2>3
<1>4. CASE Restart
    <2>1. JournalOK' /\ LandedIsCompleted'
        BY <1>4, UnchangedRowsKeep DEF Restart, RowsKept, LandedIsCompleted, WorkspaceOK, workspace, journal
    <2>2. WorkspaceOK'
        BY <1>4, JournalConstants DEF Restart, WorkspaceOK, workspace
    <2>3. ClientOK'
        BY <1>4 DEF Restart, ClientOK, client
    <2> QED BY <2>1, <2>2, <2>3
<1>5. CASE AgentRestarts
    <2>1. JournalOK' /\ LandedIsCompleted'
        BY <1>5, UnchangedRowsKeep DEF AgentRestarts, RowsKept, LandedIsCompleted, WorkspaceOK, workspace, journal
    <2>2. WorkspaceOK'
        BY <1>5 DEF AgentRestarts, WorkspaceOK, workspace
    <2>3. ClientOK'
        BY <1>5 DEF AgentRestarts, ClientOK, client, Ended
    <2> QED BY <2>1, <2>2, <2>3
<1>6. CASE UNCHANGED vars
    BY <1>6 DEF vars, journal, workspace, client, JournalOK, WorkspaceOK, ClientOK, LandedIsCompleted
<1> QED BY <1>1, <1>2, <1>3, <1>4, <1>5, <1>6 DEF Next

LEMMA Invariant == Spec => []IInv
BY InitInv, StepInv, PTL DEF Spec

\* The rows of the journal keep their shape, for any calls, attempts and
\* restarts (tool-operation-journal.ts).
THEOREM TypeCorrect == Spec => []TypeOK
BY Invariant, PTL DEF IInv

-----------------------------------------------------------------------------
(* ToolJournal implements ToolOutcome.                                        *)

\* A step that decides at most the fate of call t, and only if it was open.
Moves(t) == \A u \in Calls : u # t \/ Fate[u] # "open" => Fate'[u] = Fate[u]

LEMMA FateType ==
    /\ Fate \in [Calls -> {"open", "landed", "closed"}]
    /\ Fate' \in [Calls -> {"open", "landed", "closed"}]
BY DEF Fate

\* Such a step, with at most t settled, and t not open after it, is one of ToolOutcome's.
LEMMA OutcomeStep ==
    ASSUME NEW t \in Calls, Moves(t),
           \/ settled' = settled
           \/ settled' = settled \cup {t} /\ (Fate[t] # "open" \/ Fate'[t] = "closed")
    PROVE  [Outcome!Next]_<<Fate, settled>>
<1> DEFINE f == Fate  g == Fate'
<1>1. /\ f \in [Calls -> {"open", "landed", "closed"}]
      /\ g \in [Calls -> {"open", "landed", "closed"}]
    BY FateType
<1>2. \A u \in Calls : u # t \/ f[u] # "open" => g[u] = f[u]
    BY DEF Moves
<1>3. settled' = settled \/ (settled' = settled \cup {t} /\ (f[t] # "open" \/ g[t] = "closed"))
    OBVIOUS
<1> HIDE DEF f, g
<1>4. CASE f[t] # "open"
    <2>1. g = f
        BY <1>1, <1>2, <1>4
    <2>2. settled' = settled => UNCHANGED <<Fate, settled>>
        BY <2>1 DEF f, g
    <2>3. settled' = settled \cup {t} => Outcome!Settle(t)
        BY <1>4, <2>1 DEF Outcome!Settle, f, g
    <2> QED BY <1>3, <2>2, <2>3 DEF Outcome!Next
<1>5. CASE f[t] = "open"
    <2>1. g = [f EXCEPT ![t] = g[t]]
        BY <1>1, <1>2
    <2>2. CASE g[t] = "open"
        <3>1. g = f
            BY <1>1, <1>5, <2>1, <2>2
        <3>2. settled' = settled
            BY <1>3, <1>5, <2>2
        <3> QED BY <3>1, <3>2 DEF f, g
    <2>3. CASE g[t] # "open"
        <3>1. g[t] \in {"landed", "closed"}
            BY <1>1, <2>3
        <3>2. settled' = settled => Outcome!Decide(t)
            BY <1>5, <2>1, <3>1 DEF Outcome!Decide, f, g
        <3>3. settled' = settled \cup {t} /\ g[t] = "closed" => Outcome!CloseAndSettle(t)
            BY <1>5, <2>1 DEF Outcome!CloseAndSettle, f, g
        <3> QED BY <1>3, <1>5, <3>2, <3>3 DEF Outcome!Next
    <2> QED BY <2>2, <2>3
<1> QED BY <1>4, <1>5

\* Without a change of rows or project nothing is decided.
LEMMA FateIsKept ==
    ASSUME UNCHANGED journal, landed' = landed
    PROVE  Fate' = Fate
BY DEF Fate, journal

LEMMA BeginRowMoves ==
    ASSUME IInv, NEW t \in Calls, BeginRow(t), landed' = landed
    PROVE  Moves(t) /\ (BeginAnswer(t) = "failed" => Fate[t] # "open")
BY DEF IInv, TypeOK, JournalOK, BeginRow, BeginAnswer, Moves, Fate

LEMMA FailRowMoves ==
    ASSUME IInv, NEW t \in Calls, NEW conflict \in BOOLEAN, FailRow(t, conflict), landed' = landed
    PROVE  Moves(t)
BY DEF IInv, TypeOK, JournalOK, FailRow, Runnable, Moves, Fate

LEMMA CompleteRowMoves ==
    ASSUME IInv, NEW t \in Calls, CompleteRow(t), landed' = landed
    PROVE  Moves(t)
BY DEF IInv, TypeOK, JournalOK, CompleteRow, Runnable, Moves, Fate

\* The cancellation of a call that is not active closes it, if it was open.
LEMMA CancelRowMoves ==
    ASSUME IInv, NEW t \in Calls, CancelRow(t), landed' = landed
    PROVE  /\ Moves(t)
           /\ t \notin active => Fate[t] # "open" \/ Fate'[t] = "closed"
BY DEF IInv, TypeOK, JournalOK, CancelRow, LandedIsCompleted, Moves, Fate

LEMMA CommitMoves ==
    ASSUME IInv, NEW p \in Attempts, Commit(p)
    PROVE  Moves(Call(p))
BY CallOfAttempt
DEF IInv, TypeOK, JournalOK, LandedIsCompleted, Commit, Runnable, Moves, Fate

LEMMA OutcomeInit == Init => Outcome!Init
BY DEF Init, Outcome!Init, Fate

LEMMA StepDecidesOnce == IInv /\ [Next]_vars => [Outcome!Next]_<<Fate, settled>>
<1> SUFFICES ASSUME IInv, [Next]_vars PROVE [Outcome!Next]_<<Fate, settled>>
    OBVIOUS
<1>a. UNCHANGED journal /\ landed' = landed /\ settled' = settled
          => [Outcome!Next]_<<Fate, settled>>
    BY FateIsKept
<1>1. ASSUME NEW p \in Attempts, Step(p) PROVE [Outcome!Next]_<<Fate, settled>>
    <2> DEFINE t == Call(p)
    <2>0. t \in Calls
        BY CallOfAttempt
    <2> HIDE DEF t
    <2>1. CASE Start(p)
        BY <1>a, <2>1 DEF Start, workspace
    <2>2. CASE BeginFails(p)
        BY <1>a, <2>2 DEF BeginFails, workspace
    <2>3. CASE Poll(p)
        BY <1>a, <2>3 DEF Poll, workspace
    <2>4. CASE Execute(p)
        BY <1>a, <2>4 DEF Execute, workspace
    <2>5. CASE Resend(p)
        BY <1>a, <2>5 DEF Resend, workspace
    <2>6. CASE ApplyFails(p)
        BY <1>a, <2>6 DEF ApplyFails, workspace
    <2>7. CASE CompleteFails(p)
        BY <1>a, <2>7 DEF CompleteFails, workspace
    <2>8. CASE Stop(p)
        BY <1>a, <2>8 DEF Stop, workspace
    <2>9. CASE AskToCancel(p)
        BY <1>a, <2>9 DEF AskToCancel, workspace, client
    <2>10. CASE GiveUp(p)
        BY <1>a, <2>10 DEF GiveUp, workspace
    <2>11. CASE Throw(p)
        BY <1>a, <2>11 DEF Throw, workspace
    <2>12. CASE Begin(p)
        <3>1. Moves(t) /\ (BeginAnswer(t) = "failed" => Fate[t] # "open")
            BY <2>0, <2>12, BeginRowMoves DEF Begin, workspace, t
        <3>2. \/ settled' = settled
              \/ settled' = settled \cup {t} /\ BeginAnswer(t) = "failed"
            BY <2>12 DEF Begin, Hears, t
        <3> QED BY <2>0, <3>1, <3>2, OutcomeStep
    <2>13. CASE Exclude(p)
        <3>1. Moves(t) \/ UNCHANGED journal
            BY <2>0, <2>13, FailRowMoves DEF Exclude, workspace, t
        <3> QED BY <1>a, <2>0, <2>13, <3>1, OutcomeStep DEF Exclude, workspace
    <2>14. CASE Complete(p)
        <3>1. Moves(t) /\ settled' = settled
            BY <2>0, <2>14, CompleteRowMoves DEF Complete, workspace, t
        <3> QED BY <2>0, <3>1, OutcomeStep
    <2>15. CASE Cancel(p)
        <3>1. Moves(t) /\ (t \notin active => Fate[t] # "open" \/ Fate'[t] = "closed")
            BY <2>0, <2>15, CancelRowMoves DEF Cancel, workspace, t
        <3>2. settled' = settled \/ (settled' = settled \cup {t} /\ t \notin active)
            BY <2>15 DEF Cancel, t
        <3> QED BY <2>0, <3>1, <3>2, OutcomeStep
    <2>16. CASE Arrive(p)
        BY <1>a, <2>16 DEF Arrive, Replied, client
    <2>17. CASE Refuse(p)
        <3>1. Moves(t) /\ settled' = settled
            BY <2>0, <2>17, FailRowMoves DEF Refuse, Replied, t
        <3> QED BY <2>0, <3>1, OutcomeStep
    <2>18. CASE Abandon(p)
        <3>1. Moves(t) /\ settled' = settled
            BY <2>0, <2>18, FailRowMoves DEF Abandon, Replied, t
        <3> QED BY <2>0, <3>1, OutcomeStep
    <2>19. CASE Enter(p)
        BY <1>a, <2>19 DEF Enter, client
    <2>20. CASE Read(p)
        BY <1>a, <2>20 DEF Read, client
    <2>21. CASE Commit(p)
        <3>1. Moves(t) /\ settled' = settled
            BY <2>21, CommitMoves DEF Commit, client, t
        <3> QED BY <2>0, <3>1, OutcomeStep
    <2>22. CASE Answer(p)
        BY <1>a, <2>22 DEF Answer, Replied
    <2> QED BY <1>1, <2>1, <2>2, <2>3, <2>4, <2>5, <2>6, <2>7, <2>8, <2>9, <2>10, <2>11, <2>12, <2>13, <2>14, <2>15, <2>16, <2>17, <2>18, <2>19, <2>20, <2>21, <2>22 DEF Step
<1>2. CASE OtherWorks \/ LaneLapses \/ Restart \/ AgentRestarts
    BY <1>a, <1>2 DEF OtherWorks, LaneLapses, Restart, AgentRestarts, workspace, client
<1>3. CASE UNCHANGED vars
    BY <1>a, <1>3 DEF vars, workspace, client
<1> QED BY <1>1, <1>2, <1>3 DEF Next

\* The journal and its callers implement ToolOutcome, for any calls, attempts and
\* restarts: a fate is decided once, and before anybody is told that the call is
\* settled (begin, cancel, commitMutation).
THEOREM DecidedOnce == Spec => FateIsDecidedOnce
BY Invariant, OutcomeInit, StepDecidesOnce, PTL DEF Spec, FateIsDecidedOnce, Outcome!Spec

-----------------------------------------------------------------------------
(* A change lands on the revision it was made against.                        *)

\* Before its client executes it, an attempt has sent no change.
Early == {"idle", "beginning", "polling", "executing", "excluded"}
EarlyHasNotApplied == \A p \in Attempts : phase[p] \in Early => apply[p] = "none"

\* The lane is one attempt's at a time, and names its call.
InLaneAlone ==
    \A p \in Attempts : apply[p] \in InLane =>
        lane = Call(p) /\ \A q \in Attempts : apply[q] \in InLane => q = p

\* What was read of the project is of the revision the change is made against.
ReadOnItsBase == \A p \in Attempts : apply[p] \in {"reading", "projected"} => p \notin stale

BaseInv == EarlyHasNotApplied /\ InLaneAlone /\ ReadOnItsBase

\* No step takes an attempt back to where it has sent no change.
LEMMA StaysEarly ==
    ASSUME IInv, NEW p \in Attempts, Step(p)
    PROVE  \A q \in Attempts : phase'[q] \in Early => phase[q] \in Early
<1> USE DEF IInv, TypeOK, ClientOK, Early, Goto, Fail
<1>1. CASE Start(p) \/ BeginFails(p) \/ Poll(p) \/ Exclude(p) \/ Execute(p) \/ Resend(p)
    BY <1>1 DEF Start, BeginFails, Poll, Exclude, Execute, Resend
<1>2. CASE ApplyFails(p) \/ CompleteFails(p) \/ Stop(p) \/ Throw(p)
    BY <1>2 DEF ApplyFails, CompleteFails, GotoResult, Stop, Throw, Executing
<1>3. CASE Begin(p)
    BY <1>3 DEF Begin, Hears, GotoJournalled
<1>4. CASE Complete(p)
    BY <1>4 DEF Complete, GotoResult, GotoJournalled
<1>5. CASE AskToCancel(p) \/ Cancel(p) \/ GiveUp(p)
    BY <1>5 DEF AskToCancel, Cancel, GiveUp, client
<1>6. CASE Arrive(p) \/ Refuse(p) \/ Abandon(p) \/ Answer(p)
    BY <1>6 DEF Arrive, Refuse, Abandon, Answer, Replied, client
<1>7. CASE Enter(p) \/ Read(p) \/ Commit(p)
    BY <1>7 DEF Enter, Read, Commit, client
<1> QED BY <1>1, <1>2, <1>3, <1>4, <1>5, <1>6, <1>7 DEF Step

LEMMA BaseInit == Init => BaseInv
BY DEF Init, BaseInv, EarlyHasNotApplied, InLaneAlone, ReadOnItsBase, InLane

LEMMA BaseStep == IInv /\ BaseInv /\ [Next]_vars => BaseInv'
<1> SUFFICES ASSUME IInv, BaseInv, [Next]_vars PROVE BaseInv'
    OBVIOUS
<1> USE DEF IInv, TypeOK, WorkspaceOK, BaseInv, EarlyHasNotApplied, InLaneAlone, ReadOnItsBase
<1>1. ASSUME NEW p \in Attempts, Step(p) PROVE BaseInv'
    <2>0. \A q \in Attempts : phase'[q] \in Early => phase[q] \in Early
        BY <1>1, StaysEarly
    <2>1. CASE UNCHANGED workspace
        BY <2>0, <2>1 DEF workspace
    <2>2. CASE Execute(p)
        <3>1. apply[p] = "none" /\ phase'[p] \notin Early
            BY <2>2 DEF Execute, Goto, Fail, Early, ClientOK
        <3>2. /\ apply' = apply \/ apply' = [apply EXCEPT ![p] = "sent"]
              /\ \A q \in Attempts \ {p} : q \in stale' <=> q \in stale
              /\ lane' = lane
            BY <2>2 DEF Execute
        <3> QED BY <2>0, <3>1, <3>2 DEF InLane
    <2>3. CASE Resend(p)
        BY <2>0, <2>3 DEF Resend, Goto, Early, InLane
    <2>4. CASE Arrive(p)
        BY <2>0, <2>4 DEF Arrive, InLane, Early
    <2>5. CASE Refuse(p) \/ Abandon(p) \/ Answer(p)
        BY <2>0, <2>5 DEF Refuse, Abandon, Answer, Leave, InLane
    <2>6. CASE Enter(p)
        <3>1. \A q \in Attempts : apply[q] \notin InLane
            BY <2>6, CallOfAttempt, JournalConstants DEF Enter
        <3>2. lane' = Call(p) /\ apply' = [apply EXCEPT ![p] = "entered"] /\ UNCHANGED stale
            BY <2>6 DEF Enter
        <3>3. apply[p] = "waiting"
            BY <2>6 DEF Enter
        <3> QED BY <2>0, <3>1, <3>2, <3>3 DEF InLane, Early
    <2>7. CASE Read(p)
        BY <2>0, <2>7 DEF Read, InLane
    <2>8. CASE Commit(p)
        BY <2>0, <2>8 DEF Commit, InLane
    <2> QED
        BY <1>1, <2>1, <2>2, <2>3, <2>4, <2>5, <2>6, <2>7, <2>8
        DEF Step, Start, Begin, BeginFails, Poll, Exclude, ApplyFails, Complete, CompleteFails,
            Stop, AskToCancel, Cancel, GiveUp, Throw
<1>2. CASE OtherWorks \/ LaneLapses
    BY <1>2, CallOfAttempt, JournalConstants DEF OtherWorks, LaneLapses, client, InLane
<1>3. CASE Restart
    BY <1>3 DEF Restart, client, InLane, AtWork
<1>4. CASE AgentRestarts
    BY <1>4 DEF AgentRestarts, workspace, Early, Live
<1>5. CASE UNCHANGED vars
    BY <1>5 DEF vars, workspace, client
<1> QED BY <1>1, <1>2, <1>3, <1>4, <1>5 DEF Next

LEMMA LandingStep ==
    ASSUME IInv, BaseInv, [Next]_vars
    PROVE  \A t \in Calls : t \in landed' \ landed =>
               \E p \in Attempts : Call(p) = t /\ apply[p] = "projected" /\ p \notin stale
<1>1. ASSUME NEW p \in Attempts, Step(p) PROVE landed' = landed \/ Commit(p)
    BY <1>1 DEF Step, Start, Begin, BeginFails, Poll, Exclude, Execute, Resend, ApplyFails,
        Complete, CompleteFails, Stop, AskToCancel, Cancel, GiveUp, Throw, Arrive, Refuse, Enter,
        Read, Abandon, Answer, workspace
<1>2. landed' = landed \/ \E p \in Attempts : Commit(p)
    BY <1>1 DEF Next, OtherWorks, LaneLapses, Restart, AgentRestarts, vars, workspace
<1> QED BY <1>2 DEF Commit, BaseInv, ReadOnItsBase

\* A change lands only on the revision it was made against, however the awaits of
\* any number of attempts and of others interleave (applyChanges).
THEOREM LandingOnBase == Spec => LandsOnItsBase
<1>1. Spec => []BaseInv
    BY Invariant, BaseInit, BaseStep, PTL DEF Spec
<1>2. IInv /\ BaseInv /\ [Next]_vars =>
        [\A t \in Calls : t \in landed' \ landed =>
             \E p \in Attempts : Call(p) = t /\ apply[p] = "projected" /\ p \notin stale]_vars
    BY LandingStep
<1> QED BY Invariant, <1>1, <1>2, PTL DEF Spec, LandsOnItsBase

-----------------------------------------------------------------------------
(* What the model is told is so.                                              *)

\* Where an attempt that may send a change, or has sent it, waits for its result.
Trying == {"executing", "applying", "queued", "completing"}

LandedHasReceipt == \A t \in Calls : t \in landed <=> receipt[t] # "none"

\* An attempt starts once the ones before it have ended.
OneAtATime ==
    \A p, q \in Attempts :
        Call(p) = Call(q) /\ q[2] < p[2] /\ phase[p] # "idle" => phase[q] \in Ended

\* A call without a row was not tried: its first begin opens the row for good.
UntriedIfAbsent ==
    \A p \in Attempts : status[Call(p)] = "absent" =>
        apply[p] = "none" /\ phase[p] \in {"idle", "beginning", "polling", "settling"} \cup Ended

\* One attempt tries a call, and no change of another one is under way then.
TriedAlone ==
    \A p, q \in Attempts :
        phase[p] \in Trying /\ Call(p) = Call(q) /\ q # p => apply[q] = "none"

\* A result without a change stands for a call that has none.
ResultIsWritten ==
    \A p \in Attempts : phase[p] = "executing" \/ (phase[p] = "completing" /\ p \notin wrote) =>
        apply[p] = "none" /\ Call(p) \notin landed

ReceiptIsCompleted ==
    \A p \in Attempts : phase[p] \in {"acking", "recompleting"} => status[Call(p)] = "completed"

WroteIsLanded ==
    \A p \in Attempts :
        p \in wrote \/ apply[p] = "committed" \/ phase[p] = "landed" => Call(p) \in landed

\* Nothing is left that could still make the change of a call reported without one.
NothingToCome(t) ==
    \/ status[t] = "completed"
    \/ \A q \in Attempts : Call(q) = t => apply[q] = "none" /\ phase[q] \notin Trying

UnchangedForGood ==
    \A p \in Attempts : phase[p] = "unchanged" =>
        Call(p) \notin landed /\ status[Call(p)] # "absent" /\ NothingToCome(Call(p))

ReportInv ==
    /\ LandedHasReceipt /\ OneAtATime /\ UntriedIfAbsent /\ TriedAlone
    /\ ResultIsWritten /\ ReceiptIsCompleted /\ WroteIsLanded /\ UnchangedForGood

LEMMA OneLive ==
    ASSUME OneAtATime, NEW p \in Attempts, NEW q \in Attempts, Call(p) = Call(q), p # q,
           phase[p] \in Live
    PROVE  phase[q] \in {"idle"} \cup Ended
<1>1. p[2] < q[2] \/ q[2] < p[2]
    BY JournalConstants DEF Attempts, Call
<1>2. phase[p] # "idle" /\ phase[p] \notin Ended
    BY DEF Live, Executing, Ended
<1> QED BY <1>1, <1>2 DEF OneAtATime

\* A step moves its own attempt and its own change only.
OnlyMoves(p) ==
    /\ phase' = [phase EXCEPT ![p] = phase'[p]]
    /\ apply' = [apply EXCEPT ![p] = apply'[p]]

\* The journal opens rows, but loses none, and reopens no completed one.
RowsGrow ==
    \A t \in Calls :
        /\ status'[t] = "absent" => status[t] = "absent"
        /\ status[t] = "completed" => status'[t] = "completed"
        /\ receipt'[t] # "none" <=> receipt[t] # "none"

\* What ReportInv asks of a step of attempt p, to phase w and change a, that starts
\* no attempt, opens no call and lands nothing.
Sound(p, w, a) ==
    /\ w = phase[p] \/ (phase[p] \in Live /\ w \in Live \cup Ended)
    /\ status'[Call(p)] = "absent" =>
           a = "none" /\ w \in {"idle", "beginning", "polling", "settling"} \cup Ended
    /\ w \in Trying => phase[p] \in Trying
    /\ a = "none" \/ apply[p] # "none" \/ phase[p] \in {"executing", "queued"}
    /\ w = "executing" \/ (w = "completing" /\ p \notin wrote') =>
           a = "none" /\ Call(p) \notin landed
    /\ w \in {"acking", "recompleting"} => status'[Call(p)] = "completed"
    /\ a = "committed" \/ w = "landed" => Call(p) \in landed
    /\ wrote' = wrote \/ (wrote' = wrote \cup {p} /\ Call(p) \in landed)
    /\ w = "unchanged" => \/ phase[p] = "unchanged" /\ a = apply[p]
                          \/ /\ Call(p) \notin landed /\ status'[Call(p)] # "absent"
                             /\ \/ status'[Call(p)] = "completed"
                                \/ a = "none" /\ phase[p] \in Trying

LEMMA ReportKept ==
    ASSUME IInv, ReportInv, NEW p \in Attempts, OnlyMoves(p), landed' = landed, RowsGrow,
           Sound(p, phase'[p], apply'[p])
    PROVE  ReportInv'
<1> DEFINE w == phase'[p]  a == apply'[p]
<1>k. phase' = [phase EXCEPT ![p] = w] /\ apply' = [apply EXCEPT ![p] = a]
    BY DEF OnlyMoves
<1>s. Sound(p, w, a)
    OBVIOUS
<1> HIDE DEF w, a
<1> USE <1>k, <1>s DEF Sound, RowsGrow
<1> USE DEF ReportInv, IInv, TypeOK, ClientOK, WorkspaceOK
<1>c. \A q \in Attempts : Call(q) \in Calls
    BY CallOfAttempt
<1>p. /\ phase'[p] = w /\ apply'[p] = a
      /\ \A q \in Attempts \ {p} : phase'[q] = phase[q] /\ apply'[q] = apply[q]
    OBVIOUS
<1>t. phase[p] \in Trying => phase[p] \in Live
    BY DEF Trying, Live, Executing
<1>1. LandedHasReceipt'
    BY DEF LandedHasReceipt
<1>2. OneAtATime'
    <2>1. w \in Ended \/ w = phase[p] \/ phase[p] \notin Ended \cup {"idle"}
        BY DEF Live, Executing, Ended
    <2>2. phase[p] \in Ended => w \in Ended
        BY DEF Live, Executing, Ended
    <2>3. phase[p] = "idle" => w = "idle"
        BY DEF Live, Executing
    <2> QED BY <1>p, <2>2, <2>3 DEF OneAtATime
<1>3. UntriedIfAbsent'
    BY <1>c, <1>p DEF UntriedIfAbsent
<1>4. TriedAlone'
    <2>1. \A q \in Attempts \ {p} : Call(q) = Call(p) /\ phase[q] \in Trying =>
              phase[p] \in {"idle"} \cup Ended
        BY OneLive DEF Trying, Live, Executing
    <2>2. {"executing", "queued"} \cap ({"idle"} \cup Ended) = {}
        BY DEF Ended
    <2>3. \A q \in Attempts \ {p} : Call(q) = Call(p) /\ phase[q] \in Trying => a = "none"
        BY <2>1, <2>2 DEF TriedAlone
    <2> QED BY <1>p, <2>3 DEF TriedAlone
<1>5. ResultIsWritten'
    BY <1>c, <1>p DEF ResultIsWritten
<1>6. ReceiptIsCompleted'
    BY <1>c, <1>p DEF ReceiptIsCompleted
<1>7. WroteIsLanded'
    BY <1>p DEF WroteIsLanded
<1>8. UnchangedForGood'
    <2>1. \A q \in Attempts \ {p} : Call(q) = Call(p) /\ phase[p] \in Trying =>
              phase[q] \notin Trying
        BY <1>t, OneLive DEF Trying, Ended
    <2>2. ASSUME NEW t \in Calls, NothingToCome(t) PROVE NothingToCome(t)'
        <3>1. CASE status[t] = "completed"
            BY <3>1 DEF NothingToCome
        <3>2. CASE \A q \in Attempts : Call(q) = t => apply[q] = "none" /\ phase[q] \notin Trying
            BY <3>2, <1>p DEF NothingToCome, Trying
        <3> QED BY <2>2, <3>1, <3>2 DEF NothingToCome
    <2>3. a = "none" /\ phase[p] \in Trying /\ w = "unchanged" => NothingToCome(Call(p))'
        BY <1>p, <2>1 DEF NothingToCome, TriedAlone, Trying
    <2>4. w = "unchanged" => Call(p) \notin landed /\ status'[Call(p)] # "absent"
                             /\ NothingToCome(Call(p))'
        BY <1>c, <2>2, <2>3 DEF UnchangedForGood, NothingToCome
    <2> QED BY <1>c, <1>p, <2>2, <2>4 DEF UnchangedForGood
<1> QED BY <1>1, <1>2, <1>3, <1>4, <1>5, <1>6, <1>7, <1>8

LEMMA RowsStep ==
    ASSUME IInv, NEW p \in Attempts, Step(p)
    PROVE  RowsGrow \/ Commit(p)
<1> USE DEF IInv, TypeOK, JournalOK, RowsGrow
<1>c. Call(p) \in Calls
    BY CallOfAttempt
<1>1. CASE UNCHANGED journal
    BY <1>1 DEF journal
<1>2. CASE Begin(p)
    BY <1>c, <1>2 DEF Begin, BeginRow
<1>3. CASE Exclude(p) \/ Refuse(p) \/ Abandon(p)
    BY <1>c, <1>1, <1>3 DEF Exclude, Refuse, Abandon, FailRow, Runnable
<1>4. CASE Complete(p)
    BY <1>c, <1>4 DEF Complete, CompleteRow, Runnable
<1>5. CASE Cancel(p)
    BY <1>c, <1>5 DEF Cancel, CancelRow
<1> QED
    BY <1>1, <1>2, <1>3, <1>4, <1>5
    DEF Step, Start, BeginFails, Poll, Execute, Resend, ApplyFails, CompleteFails, Stop,
        AskToCancel, GiveUp, Throw, Arrive, Enter, Read, Answer

LEMMA MovesStep ==
    ASSUME IInv, NEW p \in Attempts, Step(p)
    PROVE  OnlyMoves(p)
<1> USE DEF IInv, TypeOK, ClientOK, WorkspaceOK, OnlyMoves, Goto, Fail
<1>1. CASE Start(p) \/ BeginFails(p) \/ Poll(p) \/ Exclude(p) \/ Execute(p) \/ Resend(p)
    BY <1>1 DEF Start, BeginFails, Poll, Exclude, Execute, Resend, workspace
<1>2. CASE ApplyFails(p) \/ CompleteFails(p) \/ Stop(p) \/ Throw(p)
    BY <1>2 DEF ApplyFails, CompleteFails, GotoResult, Stop, Throw, workspace
<1>3. CASE Begin(p)
    BY <1>3 DEF Begin, Hears, GotoJournalled, workspace
<1>4. CASE Complete(p)
    BY <1>4 DEF Complete, GotoResult, GotoJournalled, workspace
<1>5. CASE AskToCancel(p) \/ Cancel(p) \/ GiveUp(p)
    BY <1>5 DEF AskToCancel, Cancel, GiveUp, workspace, client
<1>6. CASE Arrive(p) \/ Refuse(p) \/ Abandon(p) \/ Answer(p)
    BY <1>6 DEF Arrive, Refuse, Abandon, Answer, Leave, Replied, client
<1>7. CASE Enter(p) \/ Read(p) \/ Commit(p)
    BY <1>7 DEF Enter, Read, Commit, client
<1> QED BY <1>1, <1>2, <1>3, <1>4, <1>5, <1>6, <1>7 DEF Step

LEMMA ReportInit == Init => ReportInv
BY DEF Init, ReportInv, LandedHasReceipt, OneAtATime, UntriedIfAbsent, TriedAlone,
       ResultIsWritten, ReceiptIsCompleted, WroteIsLanded, UnchangedForGood, Trying

\* Steps of the client that ask the workspace nothing.
LEMMA ClientSound ==
    ASSUME IInv, BaseInv, ReportInv, NEW p \in Attempts, UNCHANGED <<apply, landed>>, RowsGrow,
           \/ BeginFails(p) \/ Poll(p) \/ Exclude(p) \/ ApplyFails(p) \/ CompleteFails(p)
           \/ Stop(p) \/ AskToCancel(p) \/ Cancel(p) \/ GiveUp(p) \/ Throw(p)
    PROVE  Sound(p, phase'[p], apply'[p])
<1> USE DEF IInv, TypeOK, ClientOK, WorkspaceOK, Sound, Goto, Fail, Live, Executing, Ended,
            RowsGrow, ReportInv, UntriedIfAbsent, Trying
<1>c. Call(p) \in Calls
    BY CallOfAttempt
<1>1. CASE BeginFails(p) \/ Poll(p) \/ Exclude(p) \/ ApplyFails(p)
    BY <1>c, <1>1 DEF BeginFails, Poll, Exclude, ApplyFails, ResultIsWritten, WroteIsLanded
<1>2. CASE CompleteFails(p)
    <2>1. CASE phase[p] = "completing" /\ p \in stopped
        BY <1>c, <1>2, <2>1 DEF CompleteFails, GotoResult, ResultIsWritten, WroteIsLanded
    <2>2. CASE ~(phase[p] = "completing" /\ p \in stopped)
        BY <1>c, <1>2, <2>2 DEF CompleteFails, ResultIsWritten, WroteIsLanded
    <2> QED BY <2>1, <2>2
<1>3. CASE Stop(p) \/ Throw(p)
    BY <1>c, <1>3 DEF Stop, Throw, ResultIsWritten, ReceiptIsCompleted, WroteIsLanded
<1>4. CASE AskToCancel(p) \/ Cancel(p) \/ GiveUp(p)
    BY <1>c, <1>4 DEF AskToCancel, Cancel, GiveUp, client, ResultIsWritten, ReceiptIsCompleted,
        WroteIsLanded
<1> QED BY <1>1, <1>2, <1>3, <1>4

\* Steps of the workspace that land nothing, and what they answer.
LEMMA WorkspaceSound ==
    ASSUME IInv, BaseInv, ReportInv, NEW p \in Attempts, landed' = landed, RowsGrow,
           \/ Execute(p) \/ Resend(p) \/ Arrive(p) \/ Refuse(p) \/ Enter(p) \/ Read(p)
           \/ Abandon(p) \/ Answer(p)
    PROVE  Sound(p, phase'[p], apply'[p])
<1> USE DEF IInv, TypeOK, ClientOK, WorkspaceOK, Sound, Goto, Fail, Live, Executing, Ended,
            RowsGrow, ReportInv, UntriedIfAbsent, Trying
<1>c. Call(p) \in Calls
    BY CallOfAttempt
\* A change under way belongs to a row that is there, and not to a result yet.
<1>u. apply[p] # "none" =>
        /\ status'[Call(p)] # "absent"
        /\ phase[p] # "executing" /\ ~(phase[p] = "completing" /\ p \notin wrote)
        /\ phase[p] = "unchanged" => Call(p) \notin landed /\ status'[Call(p)] = "completed"
    BY <1>c DEF ResultIsWritten, UnchangedForGood, NothingToCome
<1>1. CASE Execute(p)
    BY <1>c, <1>1 DEF Execute, ResultIsWritten
<1>2. CASE Resend(p)
    BY <1>c, <1>2 DEF Resend, ResultIsWritten
<1>3. CASE Arrive(p)
    BY <1>c, <1>u, <1>3 DEF Arrive, Replied, client, ReceiptIsCompleted, WroteIsLanded
<1>4. CASE Enter(p) \/ Read(p)
    BY <1>c, <1>u, <1>4 DEF Enter, Read, client, ReceiptIsCompleted, WroteIsLanded
<1>5. CASE Refuse(p) \/ Abandon(p)
    BY <1>c, <1>u, <1>5 DEF Refuse, Abandon, Leave, Replied, ReceiptIsCompleted, WroteIsLanded
<1>6. CASE Answer(p)
    BY <1>c, <1>u, <1>6 DEF Answer, Leave, Replied, ReceiptIsCompleted, WroteIsLanded
<1> QED BY <1>1, <1>2, <1>3, <1>4, <1>5, <1>6

\* What a completed row tells: a change if there is a receipt, none otherwise.
LEMMA JournalledSound ==
    ASSUME IInv, ReportInv, NEW p \in Attempts, UNCHANGED <<apply, landed, wrote>>, RowsGrow,
           GotoJournalled(p), phase[p] \in Live, status'[Call(p)] = "completed"
    PROVE  Sound(p, phase'[p], apply'[p])
BY CallOfAttempt
DEF IInv, TypeOK, ClientOK, Sound, Goto, GotoJournalled, Live, Executing, Ended, RowsGrow,
    ReportInv, Trying, LandedHasReceipt, WroteIsLanded, UntriedIfAbsent

LEMMA CompleteSound ==
    ASSUME IInv, ReportInv, NEW p \in Attempts, RowsGrow, Complete(p)
    PROVE  Sound(p, phase'[p], apply'[p])
<1> USE DEF IInv, TypeOK
<1>c. Call(p) \in Calls
    BY CallOfAttempt
<1>u. UNCHANGED <<apply, landed, wrote>>
    BY DEF Complete, workspace
<1>1. CASE phase[p] \in {"completing", "acking", "recompleting"} /\ Completes(Call(p))
           /\ GotoJournalled(p)
    <2>1. status'[Call(p)] = "completed"
        BY <1>c, <1>1 DEF Complete, CompleteRow, Completes, Runnable, JournalOK
    <2> QED BY <1>1, <1>u, <2>1, JournalledSound DEF Live, Executing
<1>2. CASE phase[p] \in {"completing", "acking", "recompleting"} /\ ~Completes(Call(p))
           /\ p \in stopped /\ GotoResult(p)
    <2>1. phase[p] = "completing"
        BY <1>2 DEF ReportInv, ReceiptIsCompleted, Completes
    <2> QED
        BY <1>c, <1>2, <1>u, <2>1
        DEF Sound, GotoResult, Goto, ClientOK, Live, Executing, Ended, RowsGrow, ReportInv,
            UntriedIfAbsent, Trying, ResultIsWritten, WroteIsLanded
<1>3. CASE Fail(p) /\ phase[p] \in {"completing", "recompleting"}
    BY <1>c, <1>3, <1>u
    DEF Sound, Fail, Goto, ClientOK, Live, Executing, Ended, RowsGrow, ReportInv,
        UntriedIfAbsent, Trying, ResultIsWritten, WroteIsLanded
<1>4. CASE UNCHANGED phase
    BY <1>c, <1>4, <1>u
    DEF Sound, RowsGrow, ReportInv, UntriedIfAbsent, ResultIsWritten, ReceiptIsCompleted,
        WroteIsLanded
<1> QED BY <1>1, <1>2, <1>3, <1>4 DEF Complete

\* The three steps ReportKept leaves: an attempt starts, a call is opened, a change lands.
LEMMA StartReport ==
    ASSUME IInv, ReportInv, NEW p \in Attempts, Start(p)
    PROVE  ReportInv'
<1> USE DEF IInv, TypeOK, ClientOK
<1>1. /\ phase' = [phase EXCEPT ![p] = "beginning"]
      /\ UNCHANGED <<status, receipt, landed, apply, wrote>>
    BY DEF Start, Goto, journal, workspace
<1>2. \A q \in Attempts : Call(q) = Call(p) /\ q[2] < p[2] => phase[q] \in Ended
    <2>1. ASSUME NEW q \in Attempts, Call(q) = Call(p), q[2] < p[2] PROVE phase[q] \in Ended
        <3>1. q[2] \in 1..(p[2] - 1) /\ q = <<Call(p), q[2]>>
            BY <2>1, JournalConstants DEF Attempts, Call
        <3> QED BY <3>1 DEF Start
    <2> QED BY <2>1
<1>3. OneAtATime'
    BY <1>1, <1>2 DEF Start, ReportInv, OneAtATime, Ended
<1>4. LandedHasReceipt' /\ UntriedIfAbsent' /\ ResultIsWritten' /\ ReceiptIsCompleted'
    BY <1>1 DEF ReportInv, LandedHasReceipt, UntriedIfAbsent, ResultIsWritten, ReceiptIsCompleted,
                Start
<1>5. TriedAlone' /\ WroteIsLanded'
    BY <1>1 DEF ReportInv, TriedAlone, WroteIsLanded, Trying
<1>6. UnchangedForGood'
    BY <1>1 DEF ReportInv, UnchangedForGood, NothingToCome, Trying
<1> QED BY <1>3, <1>4, <1>5, <1>6 DEF ReportInv

LEMMA OpenReport ==
    ASSUME IInv, ReportInv, NEW p \in Attempts, Begin(p), status[Call(p)] = "absent",
           phase'[p] \in {"executing", "excluded"}, phase[p] \in Live
    PROVE  ReportInv'
<1> USE DEF IInv, TypeOK, ClientOK, WorkspaceOK, ReportInv
<1>c. Call(p) \in Calls /\ \A q \in Attempts : Call(q) \in Calls
    BY CallOfAttempt
<1>1. UNCHANGED <<receipt, landed, apply, wrote>> /\ OnlyMoves(p) /\ RowsGrow
    BY MovesStep, RowsStep DEF Begin, BeginRow, workspace, Step, Commit
<1>2. status'[Call(p)] # "absent"
    BY <1>c DEF Begin, BeginRow, JournalOK
<1>3. \A q \in Attempts : Call(q) = Call(p) => apply[q] = "none" /\ phase[q] # "unchanged"
    BY DEF UntriedIfAbsent, UnchangedForGood
<1>4. Call(p) \notin landed
    BY DEF LandedIsCompleted
<1>p. \A q \in Attempts \ {p} : phase'[q] = phase[q]
    BY <1>1 DEF OnlyMoves
<1>5. OneAtATime'
    BY <1>p DEF OneAtATime, Live, Executing, Ended
<1>6. LandedHasReceipt' /\ UntriedIfAbsent'
    BY <1>c, <1>1, <1>2, <1>p DEF LandedHasReceipt, UntriedIfAbsent, RowsGrow
<1>7. TriedAlone'
    BY <1>1, <1>3, <1>p DEF TriedAlone
<1>8. ResultIsWritten' /\ ReceiptIsCompleted' /\ WroteIsLanded'
    BY <1>c, <1>1, <1>3, <1>4, <1>p
    DEF ResultIsWritten, ReceiptIsCompleted, WroteIsLanded, RowsGrow
<1>9. UnchangedForGood'
    BY <1>c, <1>1, <1>3, <1>p DEF UnchangedForGood, NothingToCome, RowsGrow
<1> QED BY <1>5, <1>6, <1>7, <1>8, <1>9

LEMMA CommitReport ==
    ASSUME IInv, ReportInv, NEW p \in Attempts, Commit(p)
    PROVE  ReportInv'
<1> USE DEF IInv, TypeOK, JournalOK, ClientOK, WorkspaceOK, ReportInv
<1>c. Call(p) \in Calls /\ \A q \in Attempts : Call(q) \in Calls
    BY CallOfAttempt
<1>1. /\ status' = [status EXCEPT ![Call(p)] = "completed"]
      /\ receipt' = [receipt EXCEPT ![Call(p)] = "pending"]
      /\ landed' = landed \cup {Call(p)}
      /\ apply' = [apply EXCEPT ![p] = "committed"]
      /\ UNCHANGED <<phase, wrote>>
    BY DEF Commit, client
<1>2. apply[p] = "projected" /\ status[Call(p)] = "running"
    BY DEF Commit, Runnable
<1>3. \A q \in Attempts : Call(q) = Call(p) /\ q # p => phase[q] \notin Trying
    BY <1>2 DEF TriedAlone
<1>4. LandedHasReceipt' /\ OneAtATime'
    BY <1>c, <1>1 DEF LandedHasReceipt, OneAtATime
<1>5. UntriedIfAbsent' /\ TriedAlone'
    BY <1>c, <1>1, <1>3 DEF UntriedIfAbsent, TriedAlone
<1>6. ResultIsWritten'
    BY <1>c, <1>1, <1>2, <1>3 DEF ResultIsWritten, Trying
<1>7. ReceiptIsCompleted' /\ WroteIsLanded'
    BY <1>c, <1>1 DEF ReceiptIsCompleted, WroteIsLanded
<1>8. UnchangedForGood'
    BY <1>c, <1>1, <1>2 DEF UnchangedForGood, NothingToCome
<1> QED BY <1>4, <1>5, <1>6, <1>7, <1>8

LEMMA BeginReport ==
    ASSUME IInv, ReportInv, NEW p \in Attempts, Begin(p)
    PROVE  ReportInv'
<1> USE DEF IInv, TypeOK
<1> DEFINE answer == BeginAnswer(Call(p))
<1>c. Call(p) \in Calls
    BY CallOfAttempt
<1>u. UNCHANGED <<apply, landed, wrote>> /\ OnlyMoves(p) /\ RowsGrow
    <2>1. UNCHANGED <<apply, landed, wrote>> /\ OnlyMoves(p)
        BY MovesStep DEF Begin, workspace, Step
    <2>2. ~Commit(p)
        BY <2>1 DEF Commit, WorkspaceOK
    <2> QED BY <2>1, <2>2, RowsStep DEF Step
<1>a. /\ answer = "execute" => status[Call(p)] = "absent"
      /\ answer = "completed" => status[Call(p)] = "completed"
      /\ answer = "active" => status[Call(p)] = "running"
      /\ status'[Call(p)] # "absent"
      /\ status[Call(p)] = "completed" => status'[Call(p)] = "completed"
    BY <1>c DEF BeginAnswer, Begin, BeginRow, JournalOK
<1> HIDE DEF answer
<1>1. CASE UNCHANGED phase
    <2>1. Sound(p, phase'[p], apply'[p])
        BY <1>c, <1>1, <1>u, <1>a
        DEF Sound, RowsGrow, ReportInv, UntriedIfAbsent, ResultIsWritten, ReceiptIsCompleted,
            WroteIsLanded
    <2> QED BY <1>u, <2>1, ReportKept
<1>2. CASE phase[p] \in {"beginning", "polling", "replaying"} /\ Hears(p, answer)
    <2>1. phase[p] \in Live
        BY <1>2 DEF Live, Executing
    <2>2. CASE answer = "execute" /\ phase'[p] \in {"executing", "excluded"}
        BY <1>a, <2>1, <2>2, OpenReport
    <2>3. CASE answer = "completed" /\ GotoJournalled(p)
        BY <1>u, <1>a, <2>1, <2>3, JournalledSound, ReportKept
    <2>4. CASE /\ ~(answer = "execute" /\ phase'[p] \in {"executing", "excluded"})
               /\ ~(answer = "completed" /\ GotoJournalled(p))
        <3>1. \/ phase'[p] \in {"polling", "failed", "indeterminate", "settling"}
              \/ answer = "completed" /\ phase'[p] \in {"acking", "recompleting"}
            BY <1>2, <2>4 DEF Hears, Fail, Goto, ClientOK
        <3>2. Sound(p, phase'[p], apply'[p])
            BY <1>c, <1>u, <1>a, <2>1, <3>1, <1>2
            DEF Sound, RowsGrow, ReportInv, UntriedIfAbsent, WroteIsLanded, Live, Executing,
                Ended, Trying
        <3> QED BY <1>u, <3>2, ReportKept
    <2> QED BY <2>2, <2>3, <2>4
<1> QED BY <1>1, <1>2 DEF Begin, answer

LEMMA ReportStep == IInv /\ BaseInv /\ ReportInv /\ [Next]_vars => ReportInv'
<1> SUFFICES ASSUME IInv, BaseInv, ReportInv, [Next]_vars PROVE ReportInv'
    OBVIOUS
<1>1. ASSUME NEW p \in Attempts, Step(p) PROVE ReportInv'
    <2>1. OnlyMoves(p) /\ (RowsGrow \/ Commit(p))
        BY <1>1, MovesStep, RowsStep
    <2>2. CASE Start(p) \/ Begin(p) \/ Commit(p)
        BY <2>2, StartReport, BeginReport, CommitReport
    <2>3. CASE ~Commit(p) /\ Complete(p)
        <3>1. landed' = landed
            BY <2>3 DEF Complete, workspace
        <3> QED BY <2>1, <2>3, <3>1, CompleteSound, ReportKept
    <2>4. CASE /\ ~Commit(p)
               /\ \/ BeginFails(p) \/ Poll(p) \/ Exclude(p) \/ ApplyFails(p) \/ CompleteFails(p)
                  \/ Stop(p) \/ AskToCancel(p) \/ Cancel(p) \/ GiveUp(p) \/ Throw(p)
        <3>1. UNCHANGED <<apply, landed>>
            BY <2>4 DEF BeginFails, Poll, Exclude, ApplyFails, CompleteFails, Stop, AskToCancel,
                        Cancel, GiveUp, Throw, workspace
        <3> QED BY <2>1, <2>4, <3>1, ClientSound, ReportKept
    <2>5. CASE /\ ~Commit(p)
               /\ \/ Execute(p) \/ Resend(p) \/ Arrive(p) \/ Refuse(p) \/ Enter(p) \/ Read(p)
                  \/ Abandon(p) \/ Answer(p)
        <3>1. landed' = landed
            BY <2>5 DEF Execute, Resend, Arrive, Refuse, Enter, Read, Abandon, Answer
        <3> QED BY <2>1, <2>5, <3>1, WorkspaceSound, ReportKept
    <2> QED BY <1>1, <2>2, <2>3, <2>4, <2>5 DEF Step
<1> USE DEF IInv, TypeOK, ReportInv, LandedHasReceipt, OneAtATime, UntriedIfAbsent, TriedAlone,
            ResultIsWritten, ReceiptIsCompleted, WroteIsLanded, UnchangedForGood, NothingToCome
<1>2. CASE OtherWorks \/ LaneLapses
    BY <1>2 DEF OtherWorks, LaneLapses, journal, client
<1>3. CASE Restart
    BY <1>3 DEF Restart, journal, client, WorkspaceOK, AtWork
<1>4. CASE AgentRestarts
    BY <1>4 DEF AgentRestarts, journal, workspace, ClientOK, Live, Executing, Ended, Trying
<1>5. CASE UNCHANGED vars
    BY <1>5 DEF vars, journal, workspace, client
<1> QED BY <1>1, <1>2, <1>3, <1>4, <1>5 DEF Next

\* What the model is told is so, for any calls, attempts and restarts: a change it
\* hears of did land, and a call it hears of as unchanged has none and never will.
THEOREM ReportsAreTrue == Spec => []ReportIsTrue
<1>1. Spec => []BaseInv
    BY Invariant, BaseInit, BaseStep, PTL DEF Spec
<1>2. Spec => []ReportInv
    BY Invariant, <1>1, ReportInit, ReportStep, PTL DEF Spec
<1>3. ReportInv => ReportIsTrue
    BY DEF ReportInv, WroteIsLanded, UnchangedForGood, ReportIsTrue
<1> QED BY <1>2, <1>3, PTL
=============================================================================
