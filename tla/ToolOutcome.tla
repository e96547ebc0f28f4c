----------------------------- MODULE ToolOutcome -----------------------------
(* What the journal promises of a file mutation made by a tool call: its fate  *)
(* is decided once, and nobody is told that the call is settled before that.   *)
CONSTANT Calls

VARIABLES
    fate,    \* what became of each call: still open, landed in the project, or closed without effect
    settled  \* calls of which a caller was told that they are settled

Init ==
    /\ fate = [t \in Calls |-> "open"]
    /\ settled = {}

Decide(t) ==
    /\ fate[t] = "open"
    /\ \E decision \in {"landed", "closed"} : fate' = [fate EXCEPT ![t] = decision]
    /\ UNCHANGED settled

Settle(t) ==
    /\ fate[t] # "open"
    /\ settled' = settled \cup {t}
    /\ UNCHANGED fate

\* A caller that finds the call open and is the one to close it.
CloseAndSettle(t) ==
    /\ fate[t] = "open"
    /\ fate' = [fate EXCEPT ![t] = "closed"]
    /\ settled' = settled \cup {t}

Next == \E t \in Calls : Decide(t) \/ Settle(t) \/ CloseAndSettle(t)

Spec == Init /\ [][Next]_<<fate, settled>>
=============================================================================
