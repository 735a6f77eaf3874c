------------------------ MODULE BearerWarningsProofs ------------------------
(***************************************************************************)
(* Theorems about BearerWarnings, for any tokens and threads, any windows, *)
(* and any Day and Lag.                                                    *)
(*                                                                         *)
(* A claim is a warning that was logged or that a thread is about to       *)
(* record or log.  The argument for DailyUnlessOverlapping: the time in a  *)
(* row lags behind the clock by Lag at most when it is written, so every   *)
(* claim is either based on the row or no more than Lag later than it      *)
(* (ClaimsNearRow); whoever reads the row and finds it a day old is        *)
(* therefore Day - Lag after every claim of another base.  While a thread  *)
(* is busy with a token its row is not deleted (RowsKept), so a first      *)
(* warning has no claim beside it.  A Lag of a day or more leaves nothing  *)
(* to prove.                                                               *)
(***************************************************************************)
EXTENDS BearerWarnings, TLAPS

USE BearerAssumption

Busy(t) == call[t].at # "idle"

(* A busy thread serves a token in its window, in time.                    *)
InTime ==
  \A t \in Thread : Busy(t) =>
    LET k == call[t].token
    IN  /\ call[t].now \in Opens[k]..Expires[k]
        /\ call[t].now <= clock /\ clock - call[t].now <= Lag

Typed == TypeOK /\ InTime

LEMMA CallTyped ==
  ASSUME TypeOK, NEW t \in Thread
  PROVE  /\ call[t] \in [at : Stage, token : Token, now : Time, saw : Stamp]
         /\ call[t].token \in Token /\ call[t].now \in Nat
BY DEF TypeOK, Time

(* What a thread stays busy with does not change.                          *)
LEMMA StageChanges ==
  ASSUME Typed, NEW t \in Thread, NEW stage \in Stage, NEW s \in Stamp,
         Busy(t), clock' = clock,
         call' \in {[call EXCEPT ![t].at = stage], [call EXCEPT ![t].at = stage, ![t].saw = s]}
  PROVE  /\ call' \in [Thread -> [at : Stage, token : Token, now : Time, saw : Stamp]]
         /\ InTime'
<1>1. call' \in [Thread -> [at : Stage, token : Token, now : Time, saw : Stamp]]
  BY CallTyped DEF Typed, TypeOK
<1>2. \A u \in Thread : call'[u].token = call[u].token /\ call'[u].now = call[u].now
                          /\ (u # t => call'[u].at = call[u].at)
  BY CallTyped DEF Typed, TypeOK
<1> QED BY <1>1, <1>2 DEF Typed, InTime, Busy

LEMMA Ends ==
  ASSUME Typed, NEW t \in Thread, End(t), clock' = clock
  PROVE  /\ call' \in [Thread -> [at : Stage, token : Token, now : Time, saw : Stamp]]
         /\ InTime'
<1>2. call[t].token \in Token
  BY CallTyped DEF Typed
<1>3. Idle \in [at : Stage, token : Token, now : Time, saw : Stamp] /\ Idle.at = "idle"
  BY <1>2 DEF Idle, Stage, Time, Stamp
<1>4. call' = [call EXCEPT ![t] = Idle]
  BY DEF End
<1>5. call' \in [Thread -> [at : Stage, token : Token, now : Time, saw : Stamp]]
  BY <1>3, <1>4 DEF Typed, TypeOK
<1>6. \A u \in Thread : u # t => call'[u] = call[u]
  BY <1>4 DEF Typed, TypeOK
<1>7. call'[t].at = "idle"
  BY <1>3, <1>4 DEF Typed, TypeOK
<1> QED BY <1>5, <1>6, <1>7 DEF InTime, Busy, Typed
LEMMA InitTyped == ASSUME Init PROVE Typed
<1>1. Idle \in [at : Stage, token : Token, now : Time, saw : Stamp] /\ Idle.at = "idle"
  BY DEF Idle, Stage, Time, Stamp
<1>2. TypeOK
  BY <1>1 DEF Init, TypeOK, Time, Stamp
<1>3. InTime
  BY <1>1 DEF Init, InTime, Busy
<1> QED BY <1>2, <1>3 DEF Typed

LEMMA KeptTyped ==
  ASSUME Typed, NEW now \in Time, row' = Kept(now)
  PROVE  /\ row' \in [Token -> Stamp]
         /\ \A k \in Token : row'[k] = row[k] \/ (row'[k] = Never /\ Expires[k] < now - Day)
         /\ \A k \in Token : row'[k] # Never => row'[k] \in Opens[k]..Expires[k] /\ row'[k] <= clock
BY DEF Typed, TypeOK, Kept, Stamp

(* A row that is written gets the time of its thread.                      *)
LEMMA StampedTyped ==
  ASSUME Typed, NEW t \in Thread, Busy(t), Stamped(t)
  PROVE  /\ row' \in [Token -> Stamp]
         /\ row'[call[t].token] = call[t].now
         /\ \A k \in Token \ {call[t].token} : row'[k] = row[k]
         /\ \A k \in Token : row'[k] # Never => row'[k] \in Opens[k]..Expires[k] /\ row'[k] <= clock
<1>1. row' = [row EXCEPT ![call[t].token] = call[t].now]
  BY DEF Stamped
<1>2. row \in [Token -> Stamp] /\ call[t].now \in Stamp
  BY CallTyped DEF Typed, TypeOK, Stamp
<1> QED BY <1>1, <1>2, CallTyped DEF Typed, TypeOK, InTime

LEMMA ThreadTyped ==
  ASSUME Typed, NEW t \in Thread, ThreadStep(t) PROVE Typed'
<1> DEFINE Calls == [Thread -> [at : Stage, token : Token, now : Time, saw : Stamp]]
<1>1. CASE Read(t)
  <2>1. Busy(t) /\ clock' = clock /\ row' = Kept(call[t].now) /\ UNCHANGED <<said, lost, mishaps>>
    BY <1>1 DEF Read, Busy
  <2>2. /\ row' \in [Token -> Stamp]
        /\ \A k \in Token : row'[k] # Never => row'[k] \in Opens[k]..Expires[k] /\ row'[k] <= clock
    BY <2>1, KeptTyped, CallTyped DEF Typed
  <2>3. row'[call[t].token] \in Stamp
    BY <2>2, CallTyped DEF Typed
  <2>4. \/ Goto(t, "insert") \/ End(t)
        \/ call' = [call EXCEPT ![t].at = "update", ![t].saw = row'[call[t].token]]
    BY <1>1 DEF Read
  <2>5. call' \in Calls /\ InTime'
    BY <2>1, <2>3, <2>4, StageChanges, Ends DEF Goto, Stage
  <2> QED BY <2>1, <2>2, <2>5 DEF Typed, TypeOK
<1>2. CASE Update(t)
  <2>1. call' \in Calls /\ InTime'
    BY <1>2, StageChanges DEF Update, Goto, Stage, Busy, Stamp
  <2> QED BY <1>2, <2>1, StampedTyped DEF Update, Busy, Typed, TypeOK
<1>3. CASE Insert(t)
  <2>1. row[call[t].token] \in Stamp
    BY CallTyped DEF Typed, TypeOK
  <2>2. /\ Busy(t) /\ UNCHANGED <<clock, said, lost, mishaps>>
        /\ \/ End(t) /\ row' = row
           \/ /\ Stamped(t)
              /\ call' = [call EXCEPT ![t].at = "log", ![t].saw = row[call[t].token]]
    BY <1>3 DEF Insert, Busy
  <2>3. call' \in Calls /\ InTime'
    BY <2>1, <2>2, StageChanges, Ends DEF Stage
  <2>4. CASE row' = row
    BY <2>2, <2>3, <2>4 DEF Typed, TypeOK
  <2>5. CASE Stamped(t)
    BY <2>2, <2>3, <2>5, StampedTyped DEF Typed, TypeOK
  <2> QED BY <2>2, <2>4, <2>5
<1>4. CASE StorageFails(t)
  BY <1>4, Ends DEF StorageFails, Mishap, Typed, TypeOK
<1>5. CASE Log(t)
  <2>1. [token |-> call[t].token, at |-> call[t].now, after |-> call[t].saw] \in Warning
    BY CallTyped DEF Typed, Warning
  <2> QED BY <1>5, <2>1, Ends DEF Log, Typed, TypeOK
<1>6. CASE Crash(t)
  <2>1. <<call[t].token, call[t].now>> \in Token \X Time
    BY CallTyped DEF Typed
  <2> QED BY <1>6, <2>1, Ends DEF Crash, Mishap, Typed, TypeOK
<1> QED BY <1>1, <1>2, <1>3, <1>4, <1>5, <1>6 DEF ThreadStep

LEMMA StepTyped == ASSUME Typed, [Next]_vars PROVE Typed'
<1>1. CASE Tick
  <2>1. clock' \in Time
    BY <1>1 DEF Tick, Typed, TypeOK, Time
  <2>2. \A k \in Token : row[k] # Never => row[k] \in Nat
    BY DEF Typed, TypeOK, Stamp, Time
  <2>3. TypeOK'
    BY <1>1, <2>1, <2>2 DEF Tick, Typed, TypeOK, Time
  <2>4. InTime'
    BY <1>1, CallTyped DEF Tick, Typed, InTime, Busy, TypeOK, Time
  <2> QED BY <2>3, <2>4 DEF Typed
<1>2. ASSUME NEW t \in Thread, NEW k \in Token, Validate(t, k) PROVE Typed'
  <2> DEFINE c == [at |-> "read", token |-> k, now |-> clock, saw |-> Never]
  <2>1. c \in [at : Stage, token : Token, now : Time, saw : Stamp]
    BY DEF Stage, Stamp, Typed, TypeOK
  <2>2. call' = [call EXCEPT ![t] = c]
    BY <1>2 DEF Validate
  <2>3. TypeOK'
    BY <1>2, <2>1, <2>2 DEF Validate, Typed, TypeOK
  <2>4. clock \in Opens[k]..Expires[k] /\ clock' = clock
    BY <1>2 DEF Validate, Warns
  <2>5. InTime'
    BY <2>2, <2>4 DEF InTime, Busy, Typed, TypeOK, Time
  <2> QED BY <2>3, <2>5 DEF Typed
<1>3. CASE UNCHANGED vars
  BY <1>3 DEF vars, Typed, TypeOK, InTime, Busy
<1> QED BY <1>1, <1>2, <1>3, ThreadTyped DEF Next

(* Every value keeps its type, and a row holds the time of a request that  *)
(* came inside the window of its token.                                    *)
THEOREM WarningsTyped == Spec => []TypeOK
<1>1. Init => Typed
  BY InitTyped
<1>2. Typed /\ [Next]_vars => Typed'
  BY StepTyped
<1>3. Typed => TypeOK
  BY DEF Typed
<1> QED BY <1>1, <1>2, <1>3, PTL DEF Spec

-----------------------------------------------------------------------------
(* Claims.                                                                 *)

Claim(t) == [token |-> call[t].token, at |-> call[t].now, after |-> call[t].saw]
Claims == said \cup {Claim(t) : t \in {u \in Thread : call[u].at \in {"update", "log"}}}

Far(u, v) == u.at - v.at >= Day - Lag \/ v.at - u.at >= Day - Lag
Compatible(u, v) ==
  u.token = v.token /\ u # v => (u.after = v.after /\ u.after # Never) \/ Far(u, v)

RowsKept == \A u \in Claims : row[u.token] = Never => clock > Expires[u.token] + Day
ClaimsNearRow ==
  \A u \in Claims : row[u.token] # Never => u.after = row[u.token] \/ u.at <= row[u.token] + Lag
InsertsNearRow ==
  \A t \in Thread : call[t].at = "insert" =>
    row[call[t].token] = Never \/ call[t].now <= row[call[t].token] + Lag

ClaimInv ==
  /\ \A u \in Claims : u.at <= clock
  /\ RowsKept /\ ClaimsNearRow /\ InsertsNearRow
  /\ \A u, v \in Claims : Compatible(u, v)

LEMMA ClaimsTyped == ASSUME Typed PROVE Claims \subseteq Warning
<1>1. \A t \in Thread : Claim(t) \in Warning
  BY CallTyped DEF Typed, Claim, Warning
<1> QED BY <1>1 DEF Claims, Typed, TypeOK

(* A step of one thread makes no claim but its own.                        *)
LEMMA ClaimsOfStep ==
  ASSUME Typed, NEW t \in Thread, NEW c, call' = [call EXCEPT ![t] = c], said' = said
  PROVE  Claims' \subseteq Claims \cup
           (IF c.at \in {"update", "log"}
            THEN {[token |-> c.token, at |-> c.now, after |-> c.saw]} ELSE {})
<1>1. \A u \in Thread : call'[u] = IF u = t THEN c ELSE call[u]
  BY DEF Typed, TypeOK
<1> QED BY <1>1 DEF Claims, Claim

(* While a thread is busy with a token its row is not deleted: if there is *)
(* none there never was one, and nobody claims a warning.                  *)
LEMMA NoRowNoClaim ==
  ASSUME Typed, ClaimInv, Lag < Day, NEW t \in Thread, Busy(t), row[call[t].token] = Never
  PROVE  \A u \in Claims : u.token # call[t].token
<1>1. PICK k \in Token : k = call[t].token
  BY CallTyped DEF Typed
<1>2. clock - call[t].now <= Lag /\ call[t].now <= Expires[k]
  BY <1>1 DEF Typed, InTime
<1>3. clock <= Expires[k] + Day
  BY <1>2, CallTyped DEF Typed, TypeOK, Time
<1> QED BY <1>1, <1>3 DEF ClaimInv, RowsKept, Typed, TypeOK, Time

(* No new claim: what rows lose, they lose when their tokens are long      *)
(* expired.                                                                *)
LEMMA NoNewClaim ==
  ASSUME Typed, ClaimInv, Claims' \subseteq Claims, clock' = clock,
         NEW t \in Thread, NEW now \in Time, now <= clock,
         row' = row \/ row' = Kept(now),
         \A u \in Thread : call'[u].at = "insert" =>
            \/ row'[call'[u].token] = Never
            \/ /\ call[u].at = "insert"
               /\ call'[u].token = call[u].token /\ call'[u].now = call[u].now
  PROVE  ClaimInv'
<1>1. \A k \in Token : row'[k] = row[k] \/ (row'[k] = Never /\ Expires[k] < now - Day)
  BY KeptTyped DEF Typed, TypeOK
<1>2. \A u \in Claims : u.token \in Token
  BY ClaimsTyped DEF Warning
<1>3. RowsKept'
  BY <1>1, <1>2 DEF ClaimInv, RowsKept, Typed, TypeOK, Time
<1>4. ClaimsNearRow'
  BY <1>1, <1>2 DEF ClaimInv, ClaimsNearRow
<1>5. InsertsNearRow'
  BY <1>1, CallTyped DEF ClaimInv, InsertsNearRow, Typed
<1> QED BY <1>3, <1>4, <1>5 DEF ClaimInv, Compatible, Far

(* Every claim and every insertion is near a row that is written.          *)
LEMMA StampedNear ==
  ASSUME Typed, ClaimInv, NEW t \in Thread, Busy(t), Stamped(t), clock' = clock,
         \A u \in Claims' : u \in Claims \/ (u = Claim(t)' /\ u.token = call[t].token),
         \A u \in Thread : call'[u].at = "insert" =>
            call[u].at = "insert" /\ call'[u].token = call[u].token /\ call'[u].now = call[u].now,
         Claim(t)'.at = call[t].now
  PROVE  (\A u \in Claims : u.at <= clock)' /\ RowsKept' /\ ClaimsNearRow' /\ InsertsNearRow'
<1>1. PICK k \in Token : k = call[t].token
  BY CallTyped DEF Typed
<1>2. row'[k] = call[t].now /\ call[t].now # Never /\ call[t].now \in Nat
  BY <1>1, StampedTyped, CallTyped DEF Typed
<1>3. \A j \in Token \ {k} : row'[j] = row[j]
  BY <1>1, StampedTyped
<1>4. clock \in Nat /\ call[t].now <= clock /\ clock <= call[t].now + Lag
  BY <1>2 DEF Typed, InTime, TypeOK, Time
<1>5. \A u \in Claims : u.token \in Token /\ u.at \in Nat /\ u.at <= clock
  BY ClaimsTyped DEF Warning, Time, ClaimInv
<1>6. \A u \in Claims' : u.at <= clock /\ u.at \in Nat /\ u.token \in Token
  BY <1>1, <1>2, <1>4, <1>5
<1>7. RowsKept'
  BY <1>1, <1>2, <1>3, <1>5 DEF RowsKept, ClaimInv
<1>8. ClaimsNearRow'
  BY <1>1, <1>2, <1>3, <1>4, <1>6 DEF ClaimsNearRow, ClaimInv
<1>9. \A u \in Thread : call[u].at = "insert" =>
         call[u].token \in Token /\ call[u].now \in Nat /\ call[u].now <= clock
  BY CallTyped DEF Typed, InTime, Busy
<1>10. InsertsNearRow'
  BY <1>2, <1>3, <1>4, <1>9 DEF InsertsNearRow, ClaimInv
<1> QED BY <1>6, <1>7, <1>8, <1>10

LEMMA InitClaims == ASSUME Init PROVE ClaimInv
<1>1. \A t \in Thread : call[t].at = "idle"
  BY DEF Init, Idle
<1>2. Claims = {}
  BY <1>1 DEF Claims, Init
<1> QED BY <1>1, <1>2 DEF ClaimInv, RowsKept, ClaimsNearRow, InsertsNearRow

LEMMA ReadClaims ==
  ASSUME Typed, ClaimInv, Lag < Day, NEW t \in Thread, Read(t) PROVE ClaimInv'
<1> DEFINE k == call[t].token
           now == call[t].now
<1>1. /\ Busy(t) /\ clock' = clock /\ said' = said /\ row' = Kept(now)
      /\ \/ row'[k] = Never /\ Goto(t, "insert")
         \/ End(t)
         \/ /\ row'[k] # Never /\ ~Recent(row'[k], now)
            /\ call' = [call EXCEPT ![t].at = "update", ![t].saw = row'[k]]
  BY DEF Read, Busy
<1>2. k \in Token /\ now \in Time /\ now \in Nat /\ now <= clock
  BY <1>1, CallTyped DEF Typed, InTime
<1>3. \A u \in Thread : u # t => call'[u] = call[u]
  BY <1>1 DEF End, Goto, Typed, TypeOK
<1>4. CASE End(t)
  <2>1. call'[t] = Idle /\ Idle.at = "idle"
    BY <1>4 DEF End, Idle, Typed, TypeOK
  <2>2. Claims' \subseteq Claims
    BY <1>1, <1>4, <2>1, ClaimsOfStep DEF End
  <2> HIDE DEF k, now
  <2> QED BY <1>1, <1>2, <1>3, <2>1, <2>2, NoNewClaim
<1>5. CASE row'[k] = Never /\ Goto(t, "insert")
  <2>1. call' = [call EXCEPT ![t] = [call[t] EXCEPT !.at = "insert"]]
    BY <1>5 DEF Goto
  <2>2. call'[t].at = "insert" /\ call'[t].token = k
    BY <2>1, CallTyped DEF Typed, TypeOK
  <2>3. Claims' \subseteq Claims
    BY <1>1, <2>1, <2>2, ClaimsOfStep DEF Typed, TypeOK
  <2> HIDE DEF k, now
  <2> QED BY <1>1, <1>2, <1>3, <1>5, <2>2, <2>3, NoNewClaim
<1>6. CASE /\ row'[k] # Never /\ ~Recent(row'[k], now)
           /\ call' = [call EXCEPT ![t].at = "update", ![t].saw = row'[k]]
  <2> DEFINE c == [token |-> k, at |-> now, after |-> row'[k]]
             f == [call[t] EXCEPT !.at = "update", !.saw = row'[k]]
  <2>1. call' = [call EXCEPT ![t] = f]
    BY <1>6
  <2>2. f.at = "update" /\ f.token = k /\ f.now = now /\ f.saw = row'[k]
    BY CallTyped DEF Typed
  <2>3. Claims' \subseteq Claims \cup {c}
    BY <1>1, <2>1, <2>2, ClaimsOfStep
  <2>4. row'[k] = row[k] /\ row[k] \in Nat /\ now - row[k] >= Day
    BY <1>1, <1>2, <1>6, KeptTyped DEF Typed, TypeOK, Recent, Stamp, Time
  <2> HIDE DEF c, f, k, now
  <2>5. \A j \in Token : row'[j] = row[j] \/ (row'[j] = Never /\ Expires[j] < now - Day)
    BY <1>1, <1>2, KeptTyped
  <2>6. \A u \in Claims : u.token \in Token /\ u.at \in Nat
    BY ClaimsTyped DEF Warning, Time
  <2>7. c.token = k /\ c.at = now /\ c.after = row[k]
    BY <2>4 DEF c
  <2>8. clock \in Nat
    BY DEF Typed, TypeOK, Time
  <2>9. RowsKept'
    BY <1>1, <1>2, <1>6, <2>3, <2>5, <2>6, <2>7, <2>8 DEF ClaimInv, RowsKept
  <2>10. ClaimsNearRow'
    BY <2>3, <2>4, <2>5, <2>6, <2>7 DEF ClaimInv, ClaimsNearRow
  <2>11. InsertsNearRow'
    <3>1. \A u \in Thread : call'[u].at = "insert" => u # t /\ call'[u] = call[u]
      BY <1>3, <2>1, <2>2 DEF Typed, TypeOK
    <3>2. \A u \in Thread : call[u].token \in Token
      BY CallTyped DEF Typed
    <3> QED BY <2>5, <3>1, <3>2 DEF ClaimInv, InsertsNearRow
  <2>12. \A u \in Claims : Compatible(u, c) /\ Compatible(c, u)
    <3> SUFFICES ASSUME NEW u \in Claims, u.token = k, u.after # row[k] PROVE Far(u, c) /\ Far(c, u)
      BY <2>4, <2>7 DEF Compatible, Stamp
    <3>1. u.at <= row[k] + Lag
      BY <2>4 DEF ClaimInv, ClaimsNearRow
    <3> QED BY <1>2, <2>4, <2>6, <2>7, <3>1 DEF Far
  <2>13. \A u, v \in Claims' : Compatible(u, v)
    BY <2>3, <2>12 DEF ClaimInv, Compatible
  <2>14. \A u \in Claims' : u.at <= clock'
    BY <1>1, <1>2, <2>3, <2>7 DEF ClaimInv
  <2> QED BY <2>9, <2>10, <2>11, <2>13, <2>14 DEF ClaimInv, Compatible, Far
<1> QED BY <1>1, <1>4, <1>5, <1>6

(* Update writes what its thread claims already.                           *)
LEMMA UpdateClaims ==
  ASSUME Typed, ClaimInv, NEW t \in Thread, Update(t) PROVE ClaimInv'
<1> DEFINE f == [call[t] EXCEPT !.at = "log"]
<1>1. /\ Busy(t) /\ call[t].at = "update" /\ Stamped(t) /\ clock' = clock /\ said' = said
      /\ call' = [call EXCEPT ![t] = f]
  BY DEF Update, Busy, Goto
<1>2. f.at = "log" /\ f.token = call[t].token /\ f.now = call[t].now /\ f.saw = call[t].saw
  BY CallTyped DEF Typed
<1> HIDE DEF f
<1>3. Claim(t) \in Claims
  BY <1>1 DEF Claims
<1>4. Claims' \subseteq Claims
  <2>1. Claims' \subseteq Claims \cup {[token |-> f.token, at |-> f.now, after |-> f.saw]}
    BY <1>1, <1>2, ClaimsOfStep
  <2>2. [token |-> f.token, at |-> f.now, after |-> f.saw] = Claim(t)
    BY <1>2 DEF Claim
  <2> QED BY <1>3, <2>1, <2>2
<1>5. \A u \in Thread : call'[u] = IF u = t THEN f ELSE call[u]
  BY <1>1 DEF Typed, TypeOK
<1>6. (\A u \in Claims : u.at <= clock)' /\ RowsKept' /\ ClaimsNearRow' /\ InsertsNearRow'
  <2>1. Claim(t)'.at = call[t].now
    BY <1>2, <1>5 DEF Claim
  <2>2. \A u \in Thread : call'[u].at = "insert" =>
            call[u].at = "insert" /\ call'[u].token = call[u].token /\ call'[u].now = call[u].now
    BY <1>2, <1>5
  <2>3. \A u \in Claims' : u \in Claims \/ (u = Claim(t)' /\ u.token = call[t].token)
    BY <1>4
  <2>4. Busy(t) /\ Stamped(t) /\ clock' = clock
    BY <1>1
  <2> QED BY <2>1, <2>2, <2>3, <2>4, StampedNear
<1> QED BY <1>4, <1>6 DEF ClaimInv, Compatible, Far

(* Insert makes a claim only where there is no other: a row that is there  *)
(* was written since this thread found none, less than a day ago.          *)
LEMMA InsertClaims ==
  ASSUME Typed, ClaimInv, Lag < Day, NEW t \in Thread, Insert(t) PROVE ClaimInv'
<1> DEFINE k == call[t].token
           now == call[t].now
           there == row[k]
<1>1. /\ Busy(t) /\ call[t].at = "insert" /\ clock' = clock /\ said' = said
      /\ \/ End(t) /\ row' = row
         \/ /\ there = Never \/ ~Recent(there, now)
            /\ Stamped(t)
            /\ call' = [call EXCEPT ![t].at = "log", ![t].saw = there]
  BY DEF Insert, Busy, ConflictRecent
<1>2. k \in Token /\ now \in Time /\ now \in Nat /\ now <= clock
  BY <1>1, CallTyped DEF Typed, InTime
<1>3. CASE End(t) /\ row' = row
  <2>1. call'[t] = Idle /\ Idle.at = "idle"
    BY <1>3 DEF End, Idle, Typed, TypeOK
  <2>2. Claims' \subseteq Claims
    BY <1>1, <1>3, <2>1, ClaimsOfStep DEF End
  <2>3. \A u \in Thread : u # t => call'[u] = call[u]
    BY <1>3 DEF End, Typed, TypeOK
  <2> HIDE DEF k, now, there
  <2> QED BY <1>1, <1>2, <1>3, <2>1, <2>2, <2>3, NoNewClaim
<1>4. CASE /\ there = Never \/ ~Recent(there, now)
           /\ Stamped(t)
           /\ call' = [call EXCEPT ![t].at = "log", ![t].saw = there]
  <2> DEFINE f == [call[t] EXCEPT !.at = "log", !.saw = there]
  <2>1. there = Never
    <3>1. there # Never => there \in Nat /\ now <= there + Lag
      BY <1>1, <1>2 DEF ClaimInv, InsertsNearRow, Typed, TypeOK, Stamp, Time
    <3> QED BY <1>2, <1>4, <3>1 DEF Recent
  <2>2. \A u \in Claims : u.token # k
    BY <1>1, <2>1, NoRowNoClaim
  <2>3. call' = [call EXCEPT ![t] = f]
    BY <1>4
  <2>4. f.at = "log" /\ f.token = k /\ f.now = now /\ f.saw = there
    BY CallTyped DEF Typed
  <2> HIDE DEF f
  <2>5. \A u \in Thread : call'[u] = IF u = t THEN f ELSE call[u]
    BY <2>3 DEF Typed, TypeOK
  <2>6. Claim(t)' = [token |-> k, at |-> now, after |-> there]
    BY <2>4, <2>5 DEF Claim
  <2>7. Claims' \subseteq Claims \cup {Claim(t)'}
    <3>1. Claims' \subseteq Claims \cup {[token |-> f.token, at |-> f.now, after |-> f.saw]}
      BY <1>1, <2>3, <2>4, ClaimsOfStep
    <3>2. [token |-> f.token, at |-> f.now, after |-> f.saw] = Claim(t)'
      BY <2>4, <2>6
    <3> QED BY <3>1, <3>2
  <2>8. \A u \in Thread : call'[u].at = "insert" =>
            call[u].at = "insert" /\ call'[u].token = call[u].token /\ call'[u].now = call[u].now
    BY <2>4, <2>5
  <2>9. \A u \in Claims' : u \in Claims \/ (u = Claim(t)' /\ u.token = call[t].token)
    <3>1. Claim(t)'.token = k
      BY <2>6
    <3> QED BY <2>7, <3>1
  <2>10. Claim(t)'.at = call[t].now
    BY <2>6
  <2>11. (\A u \in Claims : u.at <= clock)' /\ RowsKept' /\ ClaimsNearRow' /\ InsertsNearRow'
    BY <1>1, <1>4, <2>8, <2>9, <2>10, StampedNear
  <2>12. \A u, v \in Claims' : Compatible(u, v)
    BY <2>2, <2>9 DEF ClaimInv, Compatible
  <2> QED BY <2>11, <2>12 DEF ClaimInv, Compatible, Far
<1> QED BY <1>1, <1>3, <1>4

LEMMA StepClaims ==
  ASSUME Typed, ClaimInv, Lag < Day, [Next]_vars PROVE ClaimInv'
<1>1. CASE Tick
  <2>1. clock' = clock + 1 /\ UNCHANGED <<row, call, said>>
    BY <1>1 DEF Tick
  <2>2. Claims' = Claims
    BY <2>1 DEF Claims, Claim
  <2>3. \A u \in Claims : u.token \in Token /\ u.at \in Nat
    BY ClaimsTyped DEF Warning, Time
  <2>4. clock \in Nat
    BY DEF Typed, TypeOK, Time
  <2> QED BY <2>1, <2>2, <2>3, <2>4 DEF ClaimInv, RowsKept, ClaimsNearRow, InsertsNearRow, Compatible, Far
<1>2. ASSUME NEW t \in Thread, NEW k \in Token, Validate(t, k) PROVE ClaimInv'
  <2> DEFINE c == [at |-> "read", token |-> k, now |-> clock, saw |-> Never]
  <2>1. /\ call' = [call EXCEPT ![t] = c] /\ UNCHANGED <<clock, row, said>>
        /\ clock \in Time /\ clock <= clock
    BY <1>2 DEF Validate, Typed, TypeOK, Time
  <2>2. Claims' \subseteq Claims
    <3>1. c.at = "read" /\ said' = said
      BY <2>1
    <3> HIDE DEF c
    <3> QED BY <2>1, <3>1, ClaimsOfStep
  <2>3. \A u \in Thread : call'[u].at = "insert" => call'[u] = call[u]
    BY <2>1 DEF Typed, TypeOK
  <2> QED BY <2>1, <2>2, <2>3, NoNewClaim
<1>3. ASSUME NEW t \in Thread, ThreadStep(t) PROVE ClaimInv'
  <2>1. ASSUME End(t), Claims' \subseteq Claims, UNCHANGED <<clock, row>> PROVE ClaimInv'
    <3>1. \A u \in Thread : call'[u].at = "insert" => call'[u] = call[u]
      BY <2>1 DEF End, Idle, Typed, TypeOK
    <3>2. clock \in Time /\ clock <= clock
      BY DEF Typed, TypeOK, Time
    <3> QED BY <2>1, <3>1, <3>2, NoNewClaim
  <2>2. ASSUME End(t), said' = said PROVE Claims' \subseteq Claims
    <3>1. Idle.at = "idle"
      BY DEF Idle
    <3> QED BY <2>2, <3>1, ClaimsOfStep DEF End
  <2>3. CASE StorageFails(t) \/ Crash(t)
    BY <2>1, <2>2, <2>3 DEF StorageFails, Crash
  <2>4. CASE Log(t)
    <3>1. Claim(t) \in Claims /\ said' = said \cup {Claim(t)} /\ End(t)
      BY <2>4 DEF Log, Claim, Claims
    <3>2. \A u \in Thread : call'[u] = IF u = t THEN Idle ELSE call[u]
      BY <3>1 DEF End, Typed, TypeOK
    <3>3. Claims' \subseteq Claims
      <4>1. Idle.at = "idle"
        BY DEF Idle
      <4>2. \A u \in Thread : call'[u].at \in {"update", "log"} => Claim(u)' = Claim(u) /\ u # t
        BY <3>2, <4>1 DEF Claim
      <4>3. \A u \in Thread : call'[u].at \in {"update", "log"} => call[u].at \in {"update", "log"}
        BY <3>2, <4>1
      <4> QED BY <3>1, <4>2, <4>3 DEF Claims
    <3> QED BY <2>1, <2>4, <3>1, <3>3 DEF Log
  <2> QED BY <1>3, <2>3, <2>4, ReadClaims, UpdateClaims, InsertClaims DEF ThreadStep
<1>4. CASE UNCHANGED vars
  <2>1. Claims' = Claims
    BY <1>4 DEF vars, Claims, Claim
  <2> QED BY <1>4, <2>1 DEF vars, ClaimInv, RowsKept, ClaimsNearRow, InsertsNearRow, Compatible, Far
<1> QED BY <1>1, <1>2, <1>3, <1>4 DEF Next

(* Two warnings of a token are a day apart, less the time a request takes, *)
(* or overlapped after the same earlier warning: for any number of threads *)
(* and tokens, and however slow requests write over each other's rows.     *)
THEOREM WarnedOncePerDay == Spec => []DailyUnlessOverlapping
<1> DEFINE Inv == Typed /\ (Lag < Day => ClaimInv)
<1>1. Init => Inv
  BY InitTyped, InitClaims
<1>2. Inv /\ [Next]_vars => Inv'
  <2> SUFFICES ASSUME Inv, [Next]_vars PROVE Inv'
    OBVIOUS
  <2> QED BY StepTyped, StepClaims
<1>3. Inv => DailyUnlessOverlapping
  <2> SUFFICES ASSUME Inv, NEW u \in said, NEW v \in said, u.token = v.token, u # v
               PROVE  \/ u.after = v.after /\ u.after # Never
                      \/ u.at - v.at >= Day - Lag \/ v.at - u.at >= Day - Lag
    BY DEF DailyUnlessOverlapping
  <2>1. CASE Lag < Day
    BY <2>1 DEF ClaimInv, Compatible, Far, Claims
  <2>2. CASE ~(Lag < Day)
    <3>1. u.at \in Nat /\ v.at \in Nat
      BY DEF Typed, TypeOK, Warning, Time
    <3> QED BY <2>2, <3>1
  <2> QED BY <2>1, <2>2
<1> QED BY <1>1, <1>2, <1>3, PTL DEF Spec

-----------------------------------------------------------------------------
(* Silence.                                                                *)

(* The time in a row is that of a warning that was logged, is about to be, *)
(* or was swallowed by a crash.                                            *)
RowsExplained ==
  \A k \in Token : row[k] # Never =>
    \/ \E w \in said : w.token = k /\ w.at = row[k]
    \/ \E t \in Thread : call[t].at = "log" /\ call[t].token = k /\ call[t].now = row[k]
    \/ \E l \in lost : l[1] = k /\ l[2] = row[k]

LEMMA StepExplained ==
  ASSUME Typed, RowsExplained, [Next]_vars PROVE RowsExplained'
<1>1. CASE Tick
  BY <1>1 DEF Tick, RowsExplained
<1>2. ASSUME NEW t \in Thread, NEW k \in Token, Validate(t, k) PROVE RowsExplained'
  <2>1. \A u \in Thread : call[u].at = "log" => call'[u] = call[u]
    BY <1>2 DEF Validate, Typed, TypeOK
  <2> QED BY <1>2, <2>1 DEF Validate, RowsExplained
<1>3. ASSUME NEW t \in Thread, Read(t) PROVE RowsExplained'
  <2>1. \A u \in Thread : call[u].at = "log" => call'[u] = call[u]
    BY <1>3 DEF Read, Goto, End, Typed, TypeOK
  <2>2. \A k \in Token : row'[k] # Never => row'[k] = row[k]
    BY <1>3, KeptTyped, CallTyped DEF Read, Typed
  <2> QED BY <1>3, <2>1, <2>2 DEF Read, RowsExplained
<1>4. ASSUME NEW t \in Thread, Update(t) \/ Insert(t) PROVE RowsExplained'
  <2>1. Busy(t) /\ call[t].at # "log" /\ UNCHANGED <<said, lost>>
    BY <1>4 DEF Update, Insert, Busy
  <2>2. \A u \in Thread \ {t} : call'[u] = call[u]
    BY <1>4 DEF Update, Insert, Goto, End, Typed, TypeOK
  <2>3. CASE row' = row
    BY <2>1, <2>2, <2>3 DEF RowsExplained
  <2>4. CASE /\ Stamped(t)
             /\ call'[t].at = "log" /\ call'[t].token = call[t].token /\ call'[t].now = call[t].now
    <3>1. row'[call[t].token] = call[t].now
      BY <2>1, <2>4, StampedTyped
    <3>2. \A k \in Token \ {call[t].token} : row'[k] = row[k]
      BY <2>1, <2>4, StampedTyped
    <3> QED BY <2>1, <2>2, <2>4, <3>1, <3>2 DEF RowsExplained
  <2> QED BY <1>4, <2>3, <2>4, CallTyped DEF Update, Insert, Goto, Typed, TypeOK
<1>5. ASSUME NEW t \in Thread, StorageFails(t) \/ Log(t) \/ Crash(t) PROVE RowsExplained'
  <2>1. /\ row' = row /\ said \subseteq said' /\ lost \subseteq lost'
        /\ \A u \in Thread \ {t} : call'[u] = call[u]
    BY <1>5 DEF StorageFails, Log, Crash, End, Typed, TypeOK
  <2>2. CASE call[t].at # "log"
    BY <2>1, <2>2 DEF RowsExplained
  <2>3. CASE call[t].at = "log"
    <3>1. \/ \E w \in said' : w.token = call[t].token /\ w.at = call[t].now
          \/ \E l \in lost' : l[1] = call[t].token /\ l[2] = call[t].now
      <4>1. CASE Log(t)
        <5> DEFINE w == [token |-> call[t].token, at |-> call[t].now, after |-> call[t].saw]
        <5>1. w \in said' /\ w.token = call[t].token /\ w.at = call[t].now
          BY <4>1 DEF Log
        <5> QED BY <5>1
      <4>2. CASE Crash(t)
        <5> DEFINE l == <<call[t].token, call[t].now>>
        <5>1. l \in lost' /\ l[1] = call[t].token /\ l[2] = call[t].now
          BY <4>2 DEF Crash
        <5> QED BY <5>1
      <4> QED BY <1>5, <2>3, <4>1, <4>2 DEF StorageFails
    <3> QED BY <2>1, <3>1 DEF RowsExplained
  <2> QED BY <2>2, <2>3
<1>6. CASE UNCHANGED vars
  BY <1>6 DEF vars, RowsExplained
<1> QED BY <1>1, <1>2, <1>3, <1>4, <1>5, <1>6 DEF Next, ThreadStep

Unwarned ==
  \A t \in Thread :
    call[t].at \in {"read", "insert"} /\ call'[t].at = "idle" /\ mishaps' = mishaps
      => Explained(call[t].token, call[t].now)

LEMMA StepUnwarned ==
  ASSUME Typed, RowsExplained, [Next]_vars PROVE Unwarned
<1> SUFFICES ASSUME NEW t \in Thread, call[t].at \in {"read", "insert"}, call'[t].at = "idle",
                    mishaps' = mishaps
             PROVE  Explained(call[t].token, call[t].now)
  BY DEF Unwarned
<1>1. Read(t) \/ Insert(t)
  <2>1. ~UNCHANGED call
    OBVIOUS
  <2>2. \A u \in Thread : call' = [call EXCEPT ![u] = call'[u]] => u = t
    BY <2>1 DEF Typed, TypeOK
  <2>3. mishaps \in Nat
    BY DEF Typed, TypeOK
  <2>4. ASSUME NEW u \in Thread, ThreadStep(u) PROVE u = t
    BY <2>1, <2>4 DEF ThreadStep, Read, Update, Insert, StorageFails, Log, Crash, Goto, End, Typed, TypeOK
  <2>5. ASSUME NEW u \in Thread, NEW k \in Token PROVE ~Validate(u, k)
    BY <2>5 DEF Validate, Typed, TypeOK
  <2>6. ThreadStep(t)
    BY <2>1, <2>4, <2>5 DEF Next, Tick, vars
  <2> QED BY <2>3, <2>6 DEF ThreadStep, Update, StorageFails, Mishap, Log, Crash
<1> DEFINE k == call[t].token
           now == call[t].now
<1>2. Busy(t) /\ k \in Token /\ now \in Time
  BY CallTyped DEF Busy, Typed
<1>3. row[k] # Never /\ Recent(row[k], now)
  <2>1. CASE Read(t)
    <3>1. row'[k] # Never /\ Recent(row'[k], now)
      BY <2>1, CallTyped DEF Read, Goto, Typed, TypeOK
    <3>2. row'[k] = row[k]
      BY <1>2, <2>1, <3>1, KeptTyped DEF Read
    <3> QED BY <3>1, <3>2
  <2>2. CASE Insert(t)
    BY <2>2, CallTyped DEF Insert, ConflictRecent, Typed, TypeOK
  <2> QED BY <1>1, <2>1, <2>2
<1> QED BY <1>2, <1>3 DEF RowsExplained, Explained, Recent

(* No silence without a cause: a request in the window of its token gets   *)
(* no warning, unless its transaction failed, only because there was one   *)
(* within the last day, or is about to be, or a crash swallowed it.        *)
THEOREM SilencesExplained == Spec => SilenceExplained
<1>1. Init => Typed /\ RowsExplained
  BY InitTyped DEF Init, RowsExplained
<1>2. Typed /\ RowsExplained /\ [Next]_vars => (Typed /\ RowsExplained)'
  BY StepTyped, StepExplained
<1>3. Typed /\ RowsExplained /\ [Next]_vars => [Unwarned]_vars
  BY StepUnwarned
<1>4. Spec => [][Unwarned]_vars
  BY <1>1, <1>2, <1>3, PTL DEF Spec
<1>5. SilenceExplained <=> [][Unwarned]_vars
  BY DEF SilenceExplained, Unwarned
<1> QED BY <1>4, <1>5
=============================================================================
