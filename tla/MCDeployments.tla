---------------------------- MODULE MCDeployments ----------------------------
(* Instances of Deployments for TLC. The builders may be exchanged.           *)
EXTENDS Deployments, TLC

CONSTANTS b1, b2

Exchanged == Permutations(Builders)
=============================================================================
