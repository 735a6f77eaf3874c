----------------------------- MODULE MCWebexHooks -----------------------------
(* Instances of WebexHooks for TLC.                                        *)
EXTENDS WebexHooks

(* What an earlier deployment may have left: a webhook of the address from *)
(* the days of plain HTTP and one of today's, for the same resource.       *)
MCOld == {[id |-> 0, resource |-> "messages", url |-> "http", active |-> TRUE],
          [id |-> 1, resource |-> "messages", url |-> "https", active |-> TRUE]}
================================================================================
