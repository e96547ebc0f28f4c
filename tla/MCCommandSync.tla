---------------------------- MODULE MCCommandSync ----------------------------
(* Instances of CommandSync for TLC.                                          *)
EXTENDS CommandSync, TLC

CONSTANTS t1, t2

\* The two calls are alike in an instance where both or neither can be given up.
Symmetry == Permutations({t1, t2})

=============================================================================
