--------------------------- MODULE MCUpgradeWindow ---------------------------
(* Instances of UpgradeWindow for TLC: one agent with two pieces of work, one *)
(* project builder, and one or two upgrades.                                  *)
EXTENDS UpgradeWindow, TLC

CONSTANTS a1, w1, w2, b1, u1, u2

OneAgent == (w1 :> a1) @@ (w2 :> a1)
OneWork == w1 :> a1
=============================================================================
