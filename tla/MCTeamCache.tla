----------------------------- MODULE MCTeamCache -----------------------------
(* Instances of TeamCache for TLC.                                         *)
EXTENDS TeamCache, TLC

CONSTANTS b1, b2, c1, c2, p1

(* A bot in two processes; requests reach the first, in two threads, and   *)
(* the other one starts, stops and refreshes the row.                      *)
OneAsked == (c1 :> b1) @@ (c2 :> b1)
================================================================================
