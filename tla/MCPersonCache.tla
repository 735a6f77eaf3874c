---------------------------- MODULE MCPersonCache ----------------------------
(* Instances of PersonCache for TLC.                                       *)
EXTENDS PersonCache, TLC

CONSTANTS h1, h2, c1, c2

(* Somebody who writes to the bot, is looked up by email and is a member   *)
(* of a team, and somebody else, whom Jira is searched for.                *)
OneKnown ==
  [kind : {"event", "email", "member"}, human : {h1}]
    \cup [kind : {"account"}, human : {h2}]
================================================================================
