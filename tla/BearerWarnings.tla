---------------------------- MODULE BearerWarnings ----------------------------
(***************************************************************************)
(* The warnings that a webhook bearer token is about to expire             *)
(* (alerts/webhook_bearer.py).  Every request that carries a valid token   *)
(* inside its warning window asks the table webhook_bearer_warn_state      *)
(* whether to log one: the threads of all processes share a row per token  *)
(* with the time of the last warning.  The time is taken before the        *)
(* transaction begins, the transactions overlap (a row is read without a   *)
(* lock), and the warning is logged after the commit.                      *)
(*                                                                         *)
(* Time is counted in ticks, a day being Day of them.                      *)
(***************************************************************************)
EXTENDS Integers

CONSTANTS
  Token,
  Thread,     \* threads that serve status webhooks, of whatever process
  Opens,      \* when the warning window of each token opens
  Expires,
  Day,        \* _ROTATION_WARN_INTERVAL_SEC and _CLEANUP_EXPIRED_BEFORE
  Lag,        \* bound on the time a request takes
  MaxClock,   \* bound on the time that is looked at
  MaxMishaps, \* bound on failing transactions and crashes
  Never

ASSUME BearerAssumption ==
  /\ Opens \in [Token -> Nat] /\ Expires \in [Token -> Nat]
  /\ Day \in Nat \ {0} /\ Lag \in Nat /\ MaxClock \in Nat /\ MaxMishaps \in Nat
  /\ Token # {} /\ Never \notin Int

VARIABLES
  clock,
  row,     \* last_warn_at of each token
  call,    \* validate_webhook_bearer in each thread
  said,    \* history: the warnings, with the time each was for and the one it followed
  lost,    \* history: warnings recorded in the table and never logged
  mishaps

vars == <<clock, row, call, said, lost, mishaps>>

Time == 0..MaxClock
Stamp == Time \cup {Never}
Stage == {"idle", "read", "update", "insert", "log"}
Warning == [token : Token, at : Time, after : Stamp]
Idle == [at |-> "idle", token |-> CHOOSE k \in Token : TRUE, now |-> 0, saw |-> Never]

Init ==
  /\ clock = 0
  /\ row = [k \in Token |-> Never]
  /\ call = [t \in Thread |-> Idle]
  /\ said = {}
  /\ lost = {}
  /\ mishaps = 0

Mishap == mishaps < MaxMishaps /\ mishaps' = mishaps + 1
End(t) == call' = [call EXCEPT ![t] = Idle]
Goto(t, stage) == call' = [call EXCEPT ![t].at = stage]

(* Mutant: the window is not looked at.                                    *)
WarnsAlways(k) == clock <= Expires[k]

(* A token that has expired is refused, one before its window accepted     *)
(* without further ado.                                                    *)
Warns(k) == clock \in Opens[k]..Expires[k]

Validate(t, k) ==
  /\ call[t].at = "idle" /\ Warns(k)
  /\ call' = [call EXCEPT ![t] = [at |-> "read", token |-> k, now |-> clock, saw |-> Never]]
  /\ UNCHANGED <<clock, row, said, lost, mishaps>>

-----------------------------------------------------------------------------
(* _db_throttle_should_log.                                                *)

(* Mutant: the interval is two days.                                       *)
RecentTwice(at, now) == now - at < 2 * Day

Recent(at, now) == now - at < Day

(* Rows of tokens that expired more than a day ago are deleted, and the    *)
(* row of this token is read.                                              *)
Kept(now) == [k \in Token |-> IF Expires[k] < now - Day THEN Never ELSE row[k]]

Read(t) ==
  /\ call[t].at = "read"
  /\ row' = Kept(call[t].now)
  /\ LET seen == row'[call[t].token]
     IN  IF seen = Never THEN Goto(t, "insert")
         ELSE IF Recent(seen, call[t].now) THEN End(t)
         ELSE call' = [call EXCEPT ![t].at = "update", ![t].saw = seen]
  /\ UNCHANGED <<clock, said, lost, mishaps>>

Stamped(t) == row' = [row EXCEPT ![call[t].token] = call[t].now]

(* The row is written over whatever was committed since it was read; it    *)
(* cannot have been deleted, the token having expired a moment ago at most. *)
Update(t) ==
  /\ call[t].at = "update"
  /\ Stamped(t)
  /\ Goto(t, "log")
  /\ UNCHANGED <<clock, said, lost, mishaps>>

(* Mutant: a row that another transaction has inserted is not read again.  *)
ConflictWarns(at, now) == FALSE

(* Whether the row inserted by another transaction suppresses the warning. *)
ConflictRecent(at, now) == Recent(at, now)

Insert(t) ==
  /\ call[t].at = "insert"
  /\ LET there == row[call[t].token]
     IN  IF there # Never /\ ConflictRecent(there, call[t].now)
         THEN End(t) /\ UNCHANGED row
         ELSE /\ Stamped(t)
              /\ call' = [call EXCEPT ![t].at = "log", ![t].saw = there]
  /\ UNCHANGED <<clock, said, lost, mishaps>>

(* STORAGE_FAILED: the token is accepted and nothing is logged.            *)
StorageFails(t) ==
  /\ call[t].at \in {"read", "update", "insert"} /\ Mishap
  /\ End(t)
  /\ UNCHANGED <<clock, row, said, lost>>

(* EMIT.                                                                   *)
Log(t) ==
  /\ call[t].at = "log"
  /\ said' = said \cup {[token |-> call[t].token, at |-> call[t].now, after |-> call[t].saw]}
  /\ End(t)
  /\ UNCHANGED <<clock, row, lost, mishaps>>

Crash(t) ==
  /\ call[t].at = "log" /\ Mishap
  /\ lost' = lost \cup {<<call[t].token, call[t].now>>}
  /\ End(t)
  /\ UNCHANGED <<clock, row, said>>

Tick ==
  /\ clock < MaxClock
  /\ \A t \in Thread : call[t].at # "idle" => clock - call[t].now < Lag
  /\ clock' = clock + 1
  /\ UNCHANGED <<row, call, said, lost, mishaps>>

ThreadStep(t) ==
  \/ Read(t) \/ Update(t) \/ Insert(t) \/ StorageFails(t)
  \/ Log(t) \/ Crash(t)

Next ==
  \/ Tick
  \/ \E t \in Thread : ThreadStep(t) \/ \E k \in Token : Validate(t, k)

Spec == Init /\ [][Next]_vars

-----------------------------------------------------------------------------
(* A row holds the time of a request that came in the token's window.      *)
TypeOK ==
  /\ clock \in Time
  /\ row \in [Token -> Stamp]
  /\ call \in [Thread -> [at : Stage, token : Token, now : Time, saw : Stamp]]
  /\ said \subseteq Warning
  /\ lost \subseteq Token \X Time
  /\ mishaps \in 0..MaxMishaps
  /\ \A k \in Token : row[k] # Never => row[k] \in Opens[k]..Expires[k] /\ row[k] <= clock

(* Two warnings of a token are a day apart, less the time a request takes, *)
(* unless their transactions overlapped, both having read the same earlier *)
(* warning.  The first warnings of a token never do: of two transactions   *)
(* that find no row, one finds the other's when it inserts its own.        *)
DailyUnlessOverlapping ==
  \A u, v \in said :
    u.token = v.token /\ u # v =>
      \/ u.after = v.after /\ u.after # Never
      \/ u.at - v.at >= Day - Lag
      \/ v.at - u.at >= Day - Lag

(* Why a request gets no warning: there was one within the last day, or    *)
(* another thread is about to log it, or was stopped when it was.          *)
Explained(k, now) ==
  \/ \E w \in said : w.token = k /\ now - w.at < Day
  \/ \E t \in Thread : call[t].at = "log" /\ call[t].token = k /\ now - call[t].now < Day
  \/ \E l \in lost : l[1] = k /\ now - l[2] < Day

(* No silence without a cause: a request inside the window that gets no    *)
(* warning, and whose transaction did not fail, comes less than a day      *)
(* after a warning of its token, or after the one that a crash swallowed.  *)
SilenceExplained ==
  [][\A t \in Thread :
       call[t].at \in {"read", "insert"} /\ call'[t].at = "idle" /\ mishaps' = mishaps
         => Explained(call[t].token, call[t].now)]_vars
================================================================================
