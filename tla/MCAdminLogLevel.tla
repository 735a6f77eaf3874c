--------------------------- MODULE MCAdminLogLevel ---------------------------
(***************************************************************************)
(* Instances of AdminLogLevel for TLC.                                     *)
(***************************************************************************)
EXTENDS AdminLogLevel, TLC

CONSTANTS r1, r2

(* One request for a level, one that goes back to the configured level.    *)
OneReset == (r1 :> "DEBUG") @@ (r2 :> Default)
(* One client's clock is right, the other's is ahead by all the skew.      *)
OneAhead == (r1 :> 0) @@ (r2 :> 1)
================================================================================
