--------------------------- MODULE MCBearerWarnings ---------------------------
(* Instances of BearerWarnings for TLC.                                    *)
EXTENDS BearerWarnings, TLC

CONSTANTS k1, k2, t1, t2, t3

(* One token in use throughout, one that expires and is cleaned up.        *)
OpensAt == (k1 :> 1) @@ (k2 :> 0)
ExpiresAt == (k1 :> 9) @@ (k2 :> 1)
================================================================================
