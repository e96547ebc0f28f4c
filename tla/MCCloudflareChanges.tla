------------------------- MODULE MCCloudflareChanges -------------------------
(* Instances of CloudflareChanges for TLC.                                    *)
EXTENDS CloudflareChanges

CONSTANTS c1, c2
=============================================================================
