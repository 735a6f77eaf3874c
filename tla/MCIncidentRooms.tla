--------------------------- MODULE MCIncidentRooms ---------------------------
(* Instances of IncidentRooms for TLC.                                     *)
EXTENDS IncidentRooms, TLC

CONSTANTS a1, k1, t1, t2, r1, r2
================================================================================
