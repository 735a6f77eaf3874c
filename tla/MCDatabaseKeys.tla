---------------------------- MODULE MCDatabaseKeys ----------------------------
(***************************************************************************)
(* Instances of DatabaseKeys for TLC.                                      *)
(***************************************************************************)
EXTENDS DatabaseKeys

CONSTANTS w1, w2, k0, k1, k2, k3, s1, s2
================================================================================
