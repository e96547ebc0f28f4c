---------------------------- MODULE MCConnections ----------------------------
(* Instances of Connections for TLC: a person's own space and a team's of two *)
(* admins, the person among them. Accounts and flows may be exchanged.        *)
EXTENDS Connections, TLC

CONSTANTS own, team, ann, bea, a1, a2, f1, f2, k1

TwoSpaces == own :> {ann} @@ team :> {ann, bea}

Exchanged == Permutations(Accounts) \cup Permutations(Flows)
=============================================================================
