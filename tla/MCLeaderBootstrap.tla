--------------------------- MODULE MCLeaderBootstrap ---------------------------
(***************************************************************************)
(* Instances of LeaderBootstrap for TLC.                                   *)
(***************************************************************************)
EXTENDS LeaderBootstrap, TLC

CONSTANTS w1, w2, blue, green

(* Two workers of one deployment, or of two that overlap.                  *)
MasterOfTwo == (w1 :> blue) @@ (w2 :> blue)
MasterEach == (w1 :> blue) @@ (w2 :> green)

(* Rows an earlier deployment can leave: none, a finished, a failed or an  *)
(* interrupted init.  The ticket only matters relative to later ones.      *)
LeftRow(s) == [ticket |-> 1, state |-> s]
AnyLeftover == {NoRow, LeftRow("running"), LeftRow("done"), LeftRow("failed")}
================================================================================
