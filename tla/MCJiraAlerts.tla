----------------------------- MODULE MCJiraAlerts -----------------------------
(***************************************************************************)
(* Instances of JiraAlerts for TLC.                                        *)
(***************************************************************************)
EXTENDS JiraAlerts, TLC

CONSTANTS r1, r2, b1, b2, m1, m2, s1, s2

(* Two requests to one bot, or to two bots on the same Jira site; always   *)
(* from different rooms.                                                   *)
SameBot == (r1 :> b1) @@ (r2 :> b1)
TwoBots == (r1 :> b1) @@ (r2 :> b2)
OwnRooms == (r1 :> m1) @@ (r2 :> m2)

(* Short ids are only compared for equality.                               *)
Sids == Permutations({s1, s2})
================================================================================
