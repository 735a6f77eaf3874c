------------------------------ MODULE LevelLedger ------------------------------
(***************************************************************************)
(* What the signed log level requests promise ("Single-use nonces for      *)
(* signed POST" of AdminLogNonce, the poll of every worker), without       *)
(* transactions, clocks, expiry, pollers or restarts: a request takes      *)
(* effect at one moment, and a single-use one never again; its nonce is    *)
(* remembered from that moment and not before, and forgetting it does not  *)
(* make a single-use request usable; processes run at levels that were     *)
(* set.                                                                    *)
(***************************************************************************)
EXTENDS Naturals

CONSTANTS
  Worker, Request, LevelAsked, Default, Configured,
  SingleUse    \* the requests whose client's clock is not far ahead

VARIABLES
  level,       \* the level all processes are to follow
  uses,        \* how often each request took effect
  remembered,  \* requests known to be used
  runs         \* the level each process runs at

lvars == <<level, uses, remembered, runs>>

LedgerInit ==
  /\ level = Default
  /\ uses = [r \in Request |-> 0]
  /\ remembered = {}
  /\ runs = [w \in Worker |-> Configured]

(* The levels that were set at some time.                                  *)
WasSet == {Default} \cup {LevelAsked[r] : r \in {q \in Request : uses[q] >= 1}}

(* A request for the level that is set already may be overtaken by one for *)
(* another level, which then stays; a request for a new level never is.    *)
Take(r) ==
  /\ r \in SingleUse => uses[r] = 0
  /\ uses' = [uses EXCEPT ![r] = @ + 1]
  /\ \/ level' = LevelAsked[r]
     \/ LevelAsked[r] \in WasSet /\ level' = level
  /\ r \in remembered' /\ remembered' \subseteq remembered \cup {r}
  /\ UNCHANGED runs

Forget ==
  /\ remembered' \subseteq remembered
  /\ UNCHANGED <<level, uses, runs>>

(* A process turns to a level that was set, not always the last one.       *)
Follow(w) ==
  /\ \E l \in WasSet :
       runs' = [runs EXCEPT ![w] = IF l = Default THEN Configured ELSE l]
  /\ UNCHANGED <<level, uses, remembered>>

LedgerNext ==
  \/ \E r \in Request : Take(r)
  \/ Forget
  \/ \E w \in Worker : Follow(w)

LedgerSpec == LedgerInit /\ [][LedgerNext]_lvars
================================================================================
