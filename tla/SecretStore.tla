------------------------------ MODULE SecretStore ------------------------------
(***************************************************************************)
(* What ensure_bot_webhook_hmac_secret promises ("Uses insert-or-race so   *)
(* multiple workers can converge on one row"), without rows, races, keys   *)
(* or tasks: a bot gets one secret, once and for all, from whichever       *)
(* process needs it first, and a process knows that secret or none.        *)
(***************************************************************************)
CONSTANTS Process, Bot, Secret, None

VARIABLES
  secret,    \* the secret of each bot, or None
  known      \* what each process takes for the secret of each bot

svars == <<secret, known>>

StoreInit ==
  /\ secret = [b \in Bot |-> None]
  /\ known = [p \in Process |-> [b \in Bot |-> None]]

(* The first process that needs the secret of a bot makes one.             *)
Make(p, b) ==
  /\ secret[b] = None
  /\ \E s \in Secret :
       /\ secret' = [secret EXCEPT ![b] = s]
       /\ known' = [known EXCEPT ![p][b] = s]

(* Whoever asks later gets the same.                                       *)
Learn(p, b) ==
  /\ secret[b] # None
  /\ known' = [known EXCEPT ![p][b] = secret[b]]
  /\ UNCHANGED secret

(* A process starts anew.                                                  *)
Forget(p) ==
  /\ known' = [known EXCEPT ![p] = [b \in Bot |-> None]]
  /\ UNCHANGED secret

StoreNext == \E p \in Process : Forget(p) \/ \E b \in Bot : Make(p, b) \/ Learn(p, b)

StoreSpec == StoreInit /\ [][StoreNext]_svars
================================================================================
