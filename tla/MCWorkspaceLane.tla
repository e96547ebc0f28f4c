--------------------------- MODULE MCWorkspaceLane ---------------------------
(* An instance of WorkspaceLane for TLC: two attempts at one exec tool call,  *)
(* and two at a seed step, whose key no journal records.                      *)
EXTENDS WorkspaceLane, TLC

CONSTANTS r1, r2, r3, r4, k1, k2

MixedKeyOf == (r1 :> k1) @@ (r2 :> k1) @@ (r3 :> k2) @@ (r4 :> k2)
MixedKindOf == (k1 :> "exec") @@ (k2 :> "seed")
=============================================================================
