------------------------- MODULE AdminLogLevelProofs -------------------------
(***************************************************************************)
(* Theorems about AdminLogLevel, for any processes, requests, handlers and *)
(* levels, any interleaving of handlers, pollers, restarts and purges, and *)
(* any value of Skew, Grace and MaxHandling and of the clients' clocks.    *)
(*                                                                         *)
(* The argument for StoredOnce: a handler that may still commit a request  *)
(* is no later than LastUse of it (HandlersInTime); the nonce of a stored  *)
(* single-use request expires no earlier (NonceOutlivesRequest, where the  *)
(* definition of SingleUse is used); so a handler that finds no nonce of   *)
(* it is the first (OpenIsFirst).  That is also what the refinement of     *)
(* LevelLedger needs at a commit.                                          *)
(***************************************************************************)
EXTENDS AdminLogLevel, TLAPS

USE AdminAssumption

(* A handler that has been given a request has one, and a worker.          *)
LEMMA ServeTyped ==
  ASSUME TypeOK, NEW p \in Handler, post[p].stage # "idle"
  PROVE  post[p] \in Serve
BY DEF TypeOK, Deliver

LEMMA LevelTyped ==
  ASSUME NEW s \in State PROVE LevelOf(s) \in Level \cup {Configured}
BY DEF LevelOf, State

LEMMA NoRowTyped == NoRow \in State
BY DEF NoRow, State

(* Live is the part of the table that has not expired.                     *)
LEMMA LiveIs ==
  ASSUME NEW c, TypeOK
  PROVE  /\ DOMAIN Live(c) = {r \in DOMAIN nonces : nonces[r] >= c}
         /\ \A r \in DOMAIN Live(c) : Live(c)[r] = nonces[r]
         /\ Live(c) \in [DOMAIN Live(c) -> Nat]
BY DEF Live, Restrict, TypeOK

(* The stage of one handler changes, and what it read: it stays typed.     *)
LEMMA StageTyped ==
  ASSUME TypeOK, NEW p \in Handler, post[p].stage # "idle",
         NEW s \in {"checked", "open", "stored", "levelled", "ok", "refused", "failed"},
         NEW d \in State,
         post' = [post EXCEPT ![p].stage = s] \/ post' = [post EXCEPT ![p].stage = s, ![p].read = d]
  PROVE  post' \in [Handler -> Deliver \cup Serve]
<1>1. post[p] \in Serve
  BY ServeTyped
<1>2. [post[p] EXCEPT !.stage = s] \in Serve /\ [post[p] EXCEPT !.stage = s, !.read = d] \in Serve
  BY <1>1 DEF Serve
<1> QED BY <1>2 DEF TypeOK

LEMMA InitTyped == Init => TypeOK
BY NoRowTyped DEF Init, TypeOK, Time, Idle, Deliver

LEMMA RowAfterTyped ==
  ASSUME TypeOK, NEW p \in Handler, post[p].stage = "open" PROVE RowAfter(p) \in State
<1>1. post[p].request \in Request
  BY ServeTyped DEF Serve
<1> QED BY <1>1 DEF RowAfter, State, TypeOK

LEMMA BeginTyped ==
  ASSUME TypeOK, NEW p \in Handler, NEW w \in Worker, NEW r \in Request,
         NEW s \in {"checked", "refused"}, Begin(p, w, r, s)
  PROVE  TypeOK'
<1> DEFINE h == [stage |-> s, worker |-> w, request |-> r, at |-> now, read |-> NoRow]
<1>1. h \in Serve
  BY NoRowTyped DEF Serve, TypeOK
<1>2. post' = [post EXCEPT ![p] = h]
  BY DEF Begin
<1> QED BY <1>1, <1>2 DEF Begin, TypeOK

LEMMA PostTyped ==
  ASSUME TypeOK, NEW p \in Handler, PostStep(p) PROVE TypeOK'
<1>1. CASE PostOpens(p)
  <2>1. post' \in [Handler -> Deliver \cup Serve]
    BY <1>1, StageTyped DEF PostOpens, TypeOK
  <2> QED BY <1>1, <2>1 DEF PostOpens, TypeOK
<1>2. CASE PostRepeated(p)
  <2>1. post' \in [Handler -> Deliver \cup Serve]
    BY <1>2, StageTyped, NoRowTyped DEF PostRepeated
  <2> QED BY <1>2, <2>1, LiveIs DEF PostRepeated, TypeOK
<1>3. CASE PostStores(p)
  <2>1. post' \in [Handler -> Deliver \cup Serve]
    BY <1>3, StageTyped, NoRowTyped DEF PostStores
  <2>2. post[p].request \in Request /\ post[p].at \in Nat
    BY <1>3, ServeTyped DEF PostStores, Serve, Time
  <2>3. row' \in State
    BY <1>3, RowAfterTyped DEF PostStores
  <2>4. DOMAIN nonces' \subseteq Request /\ nonces' \in [DOMAIN nonces' -> Nat]
    <3> DEFINE D == DOMAIN Live(post[p].at) \cup {post[p].request}
    <3>1. nonces' = [q \in D |-> IF q = post[p].request THEN ExpiresAt(p) ELSE nonces[q]]
      BY <1>3 DEF PostStores
    <3>2. ExpiresAt(p) \in Nat
      BY <2>2 DEF ExpiresAt
    <3>3. DOMAIN Live(post[p].at) \subseteq DOMAIN nonces
      BY LiveIs
    <3> HIDE DEF D
    <3>4. D \subseteq DOMAIN nonces \cup {post[p].request}
      BY <3>3 DEF D
    <3>5. \A q \in D : (IF q = post[p].request THEN ExpiresAt(p) ELSE nonces[q]) \in Nat
      BY <3>2, <3>4 DEF TypeOK
    <3> QED BY <3>1, <3>4, <3>5, <2>2 DEF TypeOK
  <2>5. stored' \in [Request -> Nat]
    BY <1>3, <2>2 DEF PostStores, TypeOK
  <2> QED BY <1>3, <2>1, <2>3, <2>4, <2>5 DEF PostStores, TypeOK
<1>4. CASE PostFails(p)
  <2>1. post' \in [Handler -> Deliver \cup Serve]
    BY <1>4, StageTyped, NoRowTyped DEF PostFails
  <2> QED BY <1>4, <2>1 DEF PostFails, TypeOK
<1>5. CASE PostSetsLevel(p)
  <2>1. post' \in [Handler -> Deliver \cup Serve]
    BY <1>5, StageTyped, NoRowTyped DEF PostSetsLevel
  <2>2. [level |-> LevelAsked[post[p].request], at |-> p] \in State
    BY <1>5, ServeTyped DEF PostSetsLevel, Serve, State
  <2> QED BY <1>5, <2>1, <2>2, LevelTyped DEF PostSetsLevel, TypeOK
<1>6. CASE PostMarks(p)
  <2>1. post' \in [Handler -> Deliver \cup Serve]
    BY <1>6, StageTyped, NoRowTyped DEF PostMarks
  <2>2. [level |-> LevelAsked[post[p].request], at |-> p] \in State
    BY <1>6, ServeTyped DEF PostMarks, Serve, State
  <2> QED BY <1>6, <2>1, <2>2 DEF PostMarks, TypeOK
<1> QED BY <1>1, <1>2, <1>3, <1>4, <1>5, <1>6 DEF PostStep

LEMMA PollTyped ==
  ASSUME TypeOK, NEW w \in Worker, Poll(w) PROVE TypeOK'
<1>1. LevelOf(poller[w].key) \in Level \cup {Configured}
  BY LevelTyped DEF TypeOK
<1>2. CASE PollReads(w)
  BY <1>2 DEF PollReads, TypeOK
<1>3. CASE PollSkips(w)
  BY <1>3 DEF PollSkips, TypeOK
<1>4. CASE PollRemembers(w)
  BY <1>4 DEF PollRemembers, TypeOK
<1>5. CASE PollApplies(w)
  BY <1>1, <1>5 DEF PollApplies, TypeOK
<1> QED BY <1>2, <1>3, <1>4, <1>5 DEF Poll

LEMMA RestartTyped ==
  ASSUME TypeOK, NEW w \in Worker, WorkerRestarts(w) PROVE TypeOK'
<1>1. post' \in [Handler -> Deliver \cup Serve]
  <2>1. \A p \in Handler : Busy(p) => [post[p] EXCEPT !.stage = "failed"] \in Serve
    BY ServeTyped DEF Busy, Serve
  <2> QED BY <2>1 DEF WorkerRestarts, TypeOK
<1>2. LevelOf(row) \in Level \cup {Configured}
  BY LevelTyped DEF TypeOK
<1> QED BY <1>1, <1>2, NoRowTyped DEF WorkerRestarts, TypeOK

LEMMA NextTyped == TypeOK /\ [Next]_vars => TypeOK'
<1> SUFFICES ASSUME TypeOK, [Next]_vars PROVE TypeOK'
  OBVIOUS
<1>1. CASE UNCHANGED vars
  BY <1>1 DEF vars, TypeOK
<1>2. ASSUME NEW p \in Handler, NEW w \in Worker, NEW r \in Request,
             PostChecked(p, w, r) \/ PostOutdated(p, w, r)
      PROVE  TypeOK'
  BY <1>2, BeginTyped DEF PostChecked, PostOutdated
<1>3. CASE LeaderPurges
  BY <1>3, LiveIs DEF LeaderPurges, TypeOK
<1>4. CASE Tick
  BY <1>4 DEF Tick, TypeOK, Time
<1> QED BY <1>1, <1>2, <1>3, <1>4, PostTyped, PollTyped, RestartTyped DEF Next

(* Every value of the state is of its type.                                *)
THEOREM LevelsTyped == Spec => []TypeOK
<1> QED BY InitTyped, NextTyped, PTL DEF Spec

-----------------------------------------------------------------------------
(* Only a commit adds a nonce, and the commit counts its request.          *)
LEMMA NoncesStep == TypeOK /\ NoncesAreSpent /\ [Next]_vars => NoncesAreSpent'
<1> SUFFICES ASSUME TypeOK, NoncesAreSpent, [Next]_vars PROVE NoncesAreSpent'
  OBVIOUS
<1>1. CASE UNCHANGED <<nonces, stored>>
  BY <1>1 DEF NoncesAreSpent
<1>2. ASSUME NEW c, nonces' = Live(c), UNCHANGED stored PROVE NoncesAreSpent'
  BY <1>2, LiveIs DEF NoncesAreSpent
<1>3. ASSUME NEW p \in Handler, PostStores(p) PROVE NoncesAreSpent'
  <2> DEFINE r == post[p].request
  <2>1. r \in Request
    BY <1>3, ServeTyped DEF PostStores, Serve
  <2>2. stored' = [stored EXCEPT ![r] = @ + 1]
    BY <1>3 DEF PostStores
  <2>3. DOMAIN nonces' = DOMAIN Live(post[p].at) \cup {r}
    BY <1>3 DEF PostStores
  <2>4. DOMAIN nonces' \subseteq DOMAIN nonces \cup {r}
    BY <2>3, LiveIs
  <2> HIDE DEF r
  <2> QED BY <2>1, <2>2, <2>4 DEF NoncesAreSpent, TypeOK
<1> QED BY <1>1, <1>2, <1>3 DEF Next, vars, PostChecked, PostOutdated, Begin, PostStep, PostOpens,
       PostRepeated, PostFails, PostSetsLevel, PostMarks, Poll, PollReads, PollSkips, PollRemembers,
       PollApplies, WorkerRestarts, LeaderPurges, Tick

(* A request that failed has not used up its nonce.                        *)
THEOREM NonceAndLevelTogether == Spec => []NoncesAreSpent
<1>1. Init => NoncesAreSpent
  BY DEF Init, NoncesAreSpent
<1> QED BY <1>1, NoncesStep, LevelsTyped, PTL DEF Spec

-----------------------------------------------------------------------------
(* A stage changes to one outside checked and open: no handler becomes     *)
(* able to commit, and the times of the others stay.                       *)
LEMMA TimeStep == TypeOK /\ HandlersInTime /\ [Next]_vars => HandlersInTime'
<1> SUFFICES ASSUME TypeOK, HandlersInTime, [Next]_vars PROVE HandlersInTime'
  OBVIOUS
<1>1. CASE UNCHANGED <<now, post>>
  BY <1>1 DEF HandlersInTime
<1>2. ASSUME NEW p \in Handler, NEW w \in Worker, NEW r \in Request,
             PostChecked(p, w, r) \/ PostOutdated(p, w, r)
      PROVE  HandlersInTime'
  <2>1. Fresh(r) \/ post'[p].stage = "refused"
    BY <1>2 DEF PostChecked, PostOutdated, Begin, TypeOK
  <2>2. /\ now' = now /\ Epoch[r] <= now + Ahead[r] /\ post'[p].request = r /\ post'[p].at = now
        /\ \A q \in Handler : q # p => post'[q] = post[q]
    BY <1>2 DEF PostChecked, PostOutdated, Begin, TypeOK
  <2> QED BY <2>1, <2>2 DEF HandlersInTime, Fresh, TypeOK, Time
<1>3. ASSUME NEW p \in Handler, PostStep(p) PROVE HandlersInTime'
  <2>1. /\ now' = now
        /\ post[p].stage # "idle"
        /\ post'[p].stage \in {"checked", "open"} => post[p].stage \in {"checked", "open"}
        /\ post'[p].request = post[p].request /\ post'[p].at = post[p].at
        /\ \A q \in Handler : q # p => post'[q] = post[q]
    BY <1>3, ServeTyped DEF PostStep, PostOpens, PostRepeated, PostStores, PostFails,
       PostSetsLevel, PostMarks, TypeOK, Serve
  <2> QED BY <2>1 DEF HandlersInTime
<1>4. ASSUME NEW w \in Worker, WorkerRestarts(w) PROVE HandlersInTime'
  <2>1. \A q \in Handler : post'[q] = post[q] \/ post'[q].stage = "failed"
    BY <1>4, ServeTyped DEF WorkerRestarts, Busy, Serve
  <2> QED BY <1>4, <2>1 DEF HandlersInTime, WorkerRestarts
<1>5. CASE Tick
  <2>1. \A p \in Handler : post[p].stage \in {"checked", "open"} => post[p].at \in Nat
    BY ServeTyped DEF Serve, Time
  <2> QED BY <1>5, <2>1 DEF HandlersInTime, Tick, TypeOK, Time
<1> QED BY <1>1, <1>2, <1>3, <1>4, <1>5 DEF Next, vars, Poll, PollReads, PollSkips, PollRemembers,
       PollApplies, LeaderPurges

(* Nonces are deleted only when they have expired, and a commit keeps its  *)
(* nonce beyond the last use of the request.                               *)
LEMMA KeptStep ==
  ASSUME TypeOK, HandlersInTime, NonceOutlivesRequest, [Next]_vars
  PROVE  NonceOutlivesRequest'
<1>0. \A r \in Request : LastUse(r) \in Int
  BY DEF LastUse
<1>1. ASSUME now' \in Nat, now <= now', UNCHANGED <<nonces, stored>> PROVE NonceOutlivesRequest'
  BY <1>0, <1>1 DEF NonceOutlivesRequest, SingleUse, TypeOK, Time, LastUse
<1>2. ASSUME NEW c \in Nat, c <= now, nonces' = Live(c), UNCHANGED <<now, stored>>
      PROVE  NonceOutlivesRequest'
  <2> SUFFICES ASSUME NEW r \in SingleUse, stored[r] >= 1, now <= LastUse(r)
               PROVE  r \in DOMAIN nonces' /\ nonces'[r] >= LastUse(r)
    BY <1>0, <1>2 DEF NonceOutlivesRequest, LastUse, SingleUse, TypeOK, Time
  <2>0. r \in Request
    BY DEF SingleUse
  <2>1. r \in DOMAIN nonces /\ nonces[r] >= LastUse(r)
    BY <1>0, <2>0 DEF NonceOutlivesRequest, TypeOK, Time
  <2>2. nonces[r] \in Nat /\ now \in Nat
    BY <2>1 DEF TypeOK, Time
  <2>3. nonces[r] >= c
    BY <1>0, <1>2, <2>0, <2>1, <2>2
  <2> QED BY <1>2, <2>1, <2>3, LiveIs
<1>3. ASSUME NEW p \in Handler, PostStores(p) PROVE NonceOutlivesRequest'
  <2> DEFINE r == post[p].request
  <2>1. /\ r \in Request /\ post[p].at \in Nat /\ now \in Nat /\ post[p].at <= now
        /\ Epoch[r] <= post[p].at + Ahead[r]
    BY <1>3, ServeTyped DEF PostStores, Serve, Time, TypeOK, HandlersInTime
  <2>2. r \in SingleUse => ExpiresAt(p) >= LastUse(r)
    BY <2>1 DEF ExpiresAt, LastUse, SingleUse
  <2>3. /\ stored' = [stored EXCEPT ![r] = @ + 1] /\ now' = now
        /\ nonces' = [q \in DOMAIN Live(post[p].at) \cup {r} |->
                        IF q = r THEN ExpiresAt(p) ELSE nonces[q]]
    BY <1>3 DEF PostStores
  <2>4. r \in SingleUse => r \in DOMAIN nonces' /\ nonces'[r] >= LastUse(r)
    BY <2>2, <2>3
  <2>9. \A q \in Request : q # r => stored'[q] = stored[q]
    BY <2>3 DEF TypeOK
  <2>10. \A q \in Request : now > LastUse(q) \/ now <= LastUse(q)
    BY <1>0, <2>1
  <2> HIDE DEF r
  <2>11. SingleUse \subseteq Request
    BY DEF SingleUse
  <2> SUFFICES ASSUME NEW q \in SingleUse, q # r, stored[q] >= 1, now <= LastUse(q)
               PROVE  q \in DOMAIN nonces' /\ nonces'[q] >= LastUse(q)
    BY <2>3, <2>4, <2>9, <2>10, <2>11 DEF NonceOutlivesRequest, LastUse
  <2>12. q \in Request
    BY <2>11
  <2>5. q \in DOMAIN nonces /\ nonces[q] >= LastUse(q)
    BY <1>0, <2>1, <2>12 DEF NonceOutlivesRequest
  <2>6. nonces[q] \in Nat
    BY <2>5 DEF TypeOK
  <2>7. nonces[q] >= post[p].at
    BY <1>0, <2>1, <2>5, <2>6, <2>12
  <2>8. q \in DOMAIN Live(post[p].at)
    BY <2>5, <2>7, LiveIs
  <2> QED BY <2>3, <2>5, <2>8
<1>4. ASSUME NEW p \in Handler, PostRepeated(p) PROVE NonceOutlivesRequest'
  <2>1. post[p].at \in Nat /\ post[p].at <= now
    BY <1>4, ServeTyped DEF PostRepeated, Serve, Time, HandlersInTime
  <2> QED BY <1>2, <1>4, <2>1 DEF PostRepeated
<1>5. CASE LeaderPurges
  BY <1>2, <1>5 DEF LeaderPurges, TypeOK, Time
<1>6. CASE Tick
  BY <1>1, <1>6 DEF Tick, TypeOK, Time
<1>7. CASE UNCHANGED <<now, nonces, stored>>
  BY <1>1, <1>7 DEF TypeOK, Time
<1> QED BY <1>3, <1>4, <1>5, <1>6, <1>7 DEF Next, vars, PostChecked, PostOutdated, Begin, PostStep,
       PostOpens, PostFails, PostSetsLevel, PostMarks, Poll, PollReads, PollSkips, PollRemembers,
       PollApplies, WorkerRestarts

(* A handler opens its transaction only when its request, if it is         *)
(* single-use, is not stored.                                              *)
LEMMA NotStoredYet ==
  ASSUME TypeOK, HandlersInTime, NonceOutlivesRequest, NEW p \in Handler, PostOpens(p),
         post[p].request \in SingleUse
  PROVE  stored[post[p].request] = 0
<1> DEFINE r == post[p].request
<1>1. /\ r \in Request /\ post[p].at \in Nat /\ now \in Nat /\ stored[r] \in Nat
      /\ post[p].at <= now /\ now <= LastUse(r) /\ post[p].at <= LastUse(r)
  BY ServeTyped DEF PostOpens, Serve, Time, TypeOK, HandlersInTime, LastUse
<1>2. LastUse(r) \in Int
  BY <1>1 DEF LastUse
<1> SUFFICES ASSUME stored[r] >= 1 PROVE FALSE
  BY <1>1
<1>3. r \in DOMAIN nonces /\ nonces[r] >= LastUse(r)
  BY <1>1, <1>2 DEF NonceOutlivesRequest
<1>4. nonces[r] \in Nat
  BY <1>3 DEF TypeOK
<1>5. nonces[r] >= post[p].at
  BY <1>1, <1>2, <1>3, <1>4
<1> QED BY <1>3, <1>5, LiveIs DEF PostOpens

LEMMA OpenStep ==
  ASSUME TypeOK, HandlersInTime, NonceOutlivesRequest, OpenIsFirst, StoredOnce, [Next]_vars
  PROVE  OpenIsFirst' /\ StoredOnce'
<1>1. ASSUME \A q \in Handler : post'[q].stage = "open" => post'[q] = post[q], UNCHANGED stored
      PROVE  OpenIsFirst' /\ StoredOnce'
  BY <1>1 DEF OpenIsFirst, StoredOnce
<1>2. ASSUME NEW p \in Handler, PostOpens(p) PROVE OpenIsFirst' /\ StoredOnce'
  <2>1. post[p].request \in SingleUse => stored[post[p].request] = 0
    BY <1>2, NotStoredYet
  <2>2. /\ post'[p].request = post[p].request /\ UNCHANGED stored
        /\ \A q \in Handler : q # p => post'[q] = post[q]
    BY <1>2, ServeTyped DEF PostOpens, TypeOK, Serve
  <2>3. \A q \in Handler : post[q].stage = "open" => post[q].request # post[p].request
    BY <1>2 DEF PostOpens, NotPending
  <2>4. \A q \in Handler : post'[q].stage = "open" => q = p \/ post[q].stage = "open"
    BY <2>2
  <2>5. \A q \in Handler : post'[q].request = post[q].request
    BY <2>2
  <2>6. OpenIsFirst'
    BY <2>1, <2>2, <2>3, <2>4, <2>5 DEF OpenIsFirst
  <2> QED BY <2>2, <2>6 DEF StoredOnce
<1>3. ASSUME NEW p \in Handler, PostStores(p) PROVE OpenIsFirst' /\ StoredOnce'
  <2>1. post[p].stage = "open" /\ post[p].request \in Request
    BY <1>3, ServeTyped DEF PostStores, Serve
  <2>2. /\ stored' = [stored EXCEPT ![post[p].request] = @ + 1]
        /\ post'[p].stage = "stored" /\ \A q \in Handler : q # p => post'[q] = post[q]
    BY <1>3 DEF PostStores, TypeOK
  <2>3. post[p].request \in SingleUse => stored[post[p].request] = 0
    BY <2>1 DEF OpenIsFirst
  <2>4. StoredOnce'
    BY <2>1, <2>2, <2>3 DEF StoredOnce, SingleUse, TypeOK
  <2>5. \A q \in Handler : post'[q].stage = "open" =>
           q # p /\ post'[q] = post[q] /\ post[q].request # post[p].request
    BY <2>1, <2>2 DEF OpenIsFirst
  <2>6. \A q \in Handler : post[q].stage = "open" => post[q].request \in Request
    BY ServeTyped DEF Serve
  <2>7. OpenIsFirst'
    BY <2>2, <2>5, <2>6 DEF OpenIsFirst, TypeOK
  <2> QED BY <2>4, <2>7
<1>4. ASSUME NEW p \in Handler, NEW w \in Worker, NEW r \in Request,
             PostChecked(p, w, r) \/ PostOutdated(p, w, r)
      PROVE  OpenIsFirst' /\ StoredOnce'
  BY <1>1, <1>4 DEF PostChecked, PostOutdated, Begin, TypeOK
<1>5. ASSUME NEW p \in Handler,
             PostRepeated(p) \/ PostFails(p) \/ PostSetsLevel(p) \/ PostMarks(p)
      PROVE  OpenIsFirst' /\ StoredOnce'
  <2>1. PICK s \in {"refused", "failed", "levelled", "ok"} : post' = [post EXCEPT ![p].stage = s]
    BY <1>5 DEF PostRepeated, PostFails, PostSetsLevel, PostMarks
  <2>2. UNCHANGED stored
    BY <1>5 DEF PostRepeated, PostFails, PostSetsLevel, PostMarks
  <2>3. \A q \in Handler : post'[q].stage = "open" => post'[q] = post[q]
    BY <2>1 DEF TypeOK
  <2> QED BY <1>1, <2>2, <2>3
<1>6. ASSUME NEW w \in Worker, WorkerRestarts(w) PROVE OpenIsFirst' /\ StoredOnce'
  <2>1. \A q \in Handler : post'[q] = post[q] \/ post'[q].stage = "failed"
    BY <1>6, ServeTyped DEF WorkerRestarts, Busy, Serve
  <2> QED BY <1>1, <1>6, <2>1 DEF WorkerRestarts
<1>7. CASE UNCHANGED <<post, stored>>
  BY <1>1, <1>7
<1> QED BY <1>2, <1>3, <1>4, <1>5, <1>6, <1>7 DEF Next, vars, PostStep, Poll, PollReads, PollSkips,
       PollRemembers, PollApplies, LeaderPurges, Tick

(* Every request whose client is not too far ahead takes effect once,      *)
(* whatever the clocks of the other clients are.                           *)
THEOREM RequestTakesEffectOnce == Spec => []StoredOnce
<1>1. Init => OnceInv
  BY DEF Init, Idle, OnceInv, HandlersInTime, NonceOutlivesRequest, OpenIsFirst, StoredOnce, SingleUse
<1>2. TypeOK /\ OnceInv /\ [Next]_vars => OnceInv'
  BY TimeStep, KeptStep, OpenStep DEF OnceInv
<1>3. OnceInv => StoredOnce
  BY DEF OnceInv
<1> QED BY <1>1, <1>2, <1>3, LevelsTyped, PTL DEF Spec

-----------------------------------------------------------------------------
(* Wherever a level comes from, it is the default or a stored request      *)
(* asked for it: the row, what a poller has read, what a handler applies.  *)
Stored(level) == \/ level = Default
                 \/ \E r \in Request : stored[r] >= 1 /\ LevelAsked[r] = level
LevelsStored ==
  /\ Stored(row.level)
  /\ \A w \in Worker : Stored(poller[w].key.level)
  /\ \A p \in Handler : post[p].stage \in {"stored", "levelled"} => stored[post[p].request] >= 1
  /\ RootWasStored

(* A stored request stays stored.                                          *)
LEMMA StoredGrows ==
  ASSUME TypeOK, [Next]_vars
  PROVE  \A r \in Request : stored[r] >= 1 => stored'[r] >= 1
<1>1. ASSUME NEW p \in Handler, PostStores(p)
      PROVE  \A r \in Request : stored[r] >= 1 => stored'[r] >= 1
  <2>1. stored' = [stored EXCEPT ![post[p].request] = @ + 1]
    BY <1>1 DEF PostStores
  <2> QED BY <2>1 DEF TypeOK
<1> QED BY <1>1 DEF Next, vars, PostChecked, PostOutdated, Begin, PostStep, PostOpens,
       PostRepeated, PostFails, PostSetsLevel, PostMarks, Poll, PollReads, PollSkips, PollRemembers,
       PollApplies, WorkerRestarts, LeaderPurges, Tick

LEMMA StoredStep ==
  ASSUME TypeOK, LevelsStored, [Next]_vars PROVE LevelsStored'
<1> DEFINE Kept(l) == l = Default \/ \E r \in Request : stored'[r] >= 1 /\ LevelAsked[r] = l
           Sound(l) == l = Configured \/ \E r \in Request : stored'[r] >= 1 /\ l = LevelAsked[r]
           Sent(p) == post[p].stage \in {"stored", "levelled"}
<1>1. /\ Kept(row.level)
      /\ \A w \in Worker : Kept(poller[w].key.level) /\ Sound(root[w])
      /\ \A p \in Handler : Sent(p) => post[p].request \in Request /\ stored'[post[p].request] >= 1
  BY StoredGrows, ServeTyped DEF LevelsStored, Stored, RootWasStored, Serve
<1>2. \A s \in State : Kept(s.level) => Sound(LevelOf(s))
  BY DEF LevelOf
<1>3. SUFFICES /\ Kept(row'.level)
               /\ \A w \in Worker : Kept(poller'[w].key.level) /\ Sound(root'[w])
               /\ \A p \in Handler : post'[p].stage \in {"stored", "levelled"} =>
                                       stored'[post'[p].request] >= 1
  BY DEF LevelsStored, Stored, RootWasStored
<1> HIDE DEF Kept, Sound
<1>4. ASSUME UNCHANGED <<row, poller, root>>,
             \A p \in Handler : post'[p].stage \in {"stored", "levelled"} =>
                                  Sent(p) /\ post'[p].request = post[p].request
      PROVE  /\ Kept(row'.level)
             /\ \A w \in Worker : Kept(poller'[w].key.level) /\ Sound(root'[w])
             /\ \A p \in Handler : post'[p].stage \in {"stored", "levelled"} =>
                                     stored'[post'[p].request] >= 1
  BY <1>1, <1>4
<1>5. CASE \E p \in Handler, w \in Worker, r \in Request : PostChecked(p, w, r) \/ PostOutdated(p, w, r)
  BY <1>4, <1>5 DEF PostChecked, PostOutdated, Begin, TypeOK
<1>6. CASE \E p \in Handler : PostOpens(p) \/ PostRepeated(p) \/ PostFails(p) \/ PostMarks(p)
  <2>1. UNCHANGED <<row, poller, root>>
    BY <1>6 DEF PostOpens, PostRepeated, PostFails, PostMarks
  <2>2. PICK p \in Handler, s \in {"open", "refused", "failed", "ok"} :
          post' = [post EXCEPT ![p].stage = s] \/ post' = [post EXCEPT ![p].stage = s, ![p].read = row]
    BY <1>6 DEF PostOpens, PostRepeated, PostFails, PostMarks
  <2>3. \A q \in Handler : post'[q].stage \in {"stored", "levelled"} => post'[q] = post[q]
    <3>1. \A q \in Handler : q # p => post'[q] = post[q]
      BY <2>2 DEF TypeOK
    <3>2. post'[p].stage = s
      BY <2>2 DEF TypeOK, Deliver, Serve
    <3> QED BY <3>1, <3>2
  <2> QED BY <1>4, <2>1, <2>3
<1>7. ASSUME NEW p \in Handler, PostStores(p)
      PROVE  /\ Kept(row'.level)
             /\ \A w \in Worker : Kept(poller'[w].key.level) /\ Sound(root'[w])
             /\ \A q \in Handler : post'[q].stage \in {"stored", "levelled"} =>
                                     stored'[post'[q].request] >= 1
  <2>1. post[p].request \in Request
    BY <1>7, ServeTyped DEF PostStores, Serve
  <2>2. stored'[post[p].request] >= 1
    BY <1>7, <2>1 DEF PostStores, TypeOK
  <2>3. Kept(LevelAsked[post[p].request])
    BY <2>1, <2>2 DEF Kept
  <2>4. Kept(row'.level)
    BY <1>1, <1>7, <2>3 DEF PostStores, RowAfter
  <2>5. \A q \in Handler : post'[q].request = post[q].request /\ (q # p => post'[q] = post[q])
    BY <1>7, ServeTyped DEF PostStores, TypeOK, Serve
  <2>6. UNCHANGED <<poller, root>>
    BY <1>7 DEF PostStores
  <2> QED BY <1>1, <2>2, <2>4, <2>5, <2>6
<1>8. ASSUME NEW p \in Handler, PostSetsLevel(p)
      PROVE  /\ Kept(row'.level)
             /\ \A w \in Worker : Kept(poller'[w].key.level) /\ Sound(root'[w])
             /\ \A q \in Handler : post'[q].stage \in {"stored", "levelled"} =>
                                     stored'[post'[q].request] >= 1
  <2> DEFINE s == [level |-> LevelAsked[post[p].request], at |-> p]
  <2>1. Sent(p)
    BY <1>8 DEF PostSetsLevel
  <2>2. s \in State /\ Kept(s.level)
    BY <1>1, <2>1 DEF State, Kept
  <2>3. Sound(LevelOf(s))
    BY <1>2, <2>2
  <2>4. \A w \in Worker : root'[w] = root[w] \/ root'[w] = LevelOf(s)
    BY <1>8 DEF PostSetsLevel, TypeOK
  <2>5. \A q \in Handler : /\ post'[q].request = post[q].request
                           /\ post'[q].stage \in {"stored", "levelled"} => Sent(q)
    BY <1>8, <2>1, ServeTyped DEF PostSetsLevel, TypeOK, Serve
  <2>6. UNCHANGED <<row, poller>>
    BY <1>8 DEF PostSetsLevel
  <2> HIDE DEF s
  <2> QED BY <1>1, <2>3, <2>4, <2>5, <2>6
<1>9. ASSUME NEW w \in Worker, Poll(w)
      PROVE  /\ Kept(row'.level)
             /\ \A v \in Worker : Kept(poller'[v].key.level) /\ Sound(root'[v])
             /\ \A q \in Handler : post'[q].stage \in {"stored", "levelled"} =>
                                     stored'[post'[q].request] >= 1
  <2>1. UNCHANGED <<row, post>>
    BY <1>9 DEF Poll, PollReads, PollSkips, PollRemembers, PollApplies
  <2>2. \A v \in Worker : poller'[v].key = poller[v].key \/ poller'[v].key = row
    <3>1. CASE PollReads(w)
      BY <3>1 DEF PollReads, TypeOK
    <3>2. CASE PollSkips(w) \/ PollRemembers(w) \/ PollApplies(w)
      BY <3>2 DEF PollSkips, PollRemembers, PollApplies, TypeOK
    <3> QED BY <1>9, <3>1, <3>2 DEF Poll
  <2>3. \A v \in Worker : root'[v] = root[v] \/ root'[v] = LevelOf(poller[v].key)
    <3>1. CASE PollApplies(w)
      BY <3>1 DEF PollApplies, TypeOK
    <3>2. CASE UNCHANGED root
      BY <3>2
    <3> QED BY <1>9, <3>1, <3>2 DEF Poll, PollReads, PollSkips, PollRemembers
  <2>4. \A v \in Worker : Sound(LevelOf(poller[v].key))
    BY <1>1, <1>2 DEF TypeOK
  <2> QED BY <1>1, <2>1, <2>2, <2>3, <2>4
<1>10. ASSUME NEW w \in Worker, WorkerRestarts(w)
      PROVE  /\ Kept(row'.level)
             /\ \A v \in Worker : Kept(poller'[v].key.level) /\ Sound(root'[v])
             /\ \A q \in Handler : post'[q].stage \in {"stored", "levelled"} =>
                                     stored'[post'[q].request] >= 1
  <2>1. Sound(LevelOf(row)) /\ Kept(NoRow.level)
    BY <1>1, <1>2 DEF TypeOK, Kept, NoRow
  <2>2. \A v \in Worker : /\ poller'[v].key = poller[v].key \/ poller'[v].key = NoRow
                          /\ root'[v] = root[v] \/ root'[v] = LevelOf(row)
    BY <1>10 DEF WorkerRestarts, TypeOK
  <2>3. \A q \in Handler : post'[q] = post[q] \/ post'[q].stage = "failed"
    BY <1>10, ServeTyped DEF WorkerRestarts, Busy, Serve
  <2>4. row' = row
    BY <1>10 DEF WorkerRestarts
  <2> QED BY <1>1, <2>1, <2>2, <2>3, <2>4
<1>11. CASE UNCHANGED <<row, poller, root, post>>
  BY <1>4, <1>11
<1> QED BY <1>5, <1>6, <1>7, <1>8, <1>9, <1>10, <1>11
        DEF Next, vars, PostStep, LeaderPurges, Tick

(* No process ever runs at a level only a refused or failed request asked  *)
(* for.                                                                    *)
THEOREM OnlyStoredLevelsApplied == Spec => []RootWasStored
<1>1. Init => LevelsStored
  BY DEF Init, Idle, NoRow, LevelsStored, Stored, RootWasStored
<1>2. LevelsStored => RootWasStored
  BY DEF LevelsStored
<1> QED BY <1>1, <1>2, StoredStep, LevelsTyped, PTL DEF Spec
-----------------------------------------------------------------------------
(* What an open transaction has read from the row was set by then.         *)
ReadsStored == \A p \in Handler : post[p].stage = "open" => Stored(post[p].read.level)

LEMMA ReadStep ==
  ASSUME TypeOK, LevelsStored, ReadsStored, [Next]_vars PROVE ReadsStored'
<1>1. \A l : Stored(l) => Stored(l)'
  BY StoredGrows DEF Stored
<1>2. ASSUME \A p \in Handler : post'[p].stage = "open" =>
               post[p].stage = "open" /\ post'[p].read = post[p].read
      PROVE  ReadsStored'
  BY <1>1, <1>2 DEF ReadsStored, Stored
<1>3. CASE UNCHANGED post
  BY <1>2, <1>3
<1>4. ASSUME NEW p \in Handler, NEW w \in Worker, NEW r \in Request,
             PostChecked(p, w, r) \/ PostOutdated(p, w, r)
      PROVE  ReadsStored'
  BY <1>2, <1>4 DEF PostChecked, PostOutdated, Begin, TypeOK
<1>5. ASSUME NEW p \in Handler, PostOpens(p) PROVE ReadsStored'
  <2>1. post'[p].read = row /\ \A q \in Handler : q # p => post'[q] = post[q]
    BY <1>5, ServeTyped DEF PostOpens, TypeOK, Serve
  <2>2. \/ row.level = Default
        \/ \E r \in Request : stored'[r] >= 1 /\ LevelAsked[r] = row.level
    BY <1>1 DEF LevelsStored, Stored
  <2>3. \A q \in Handler : q # p /\ post[q].stage = "open" =>
          \/ post[q].read.level = Default
          \/ \E r \in Request : stored'[r] >= 1 /\ LevelAsked[r] = post[q].read.level
    BY <1>1 DEF ReadsStored, Stored
  <2> QED BY <2>1, <2>2, <2>3 DEF ReadsStored, Stored
<1>6. ASSUME NEW p \in Handler,
             PostRepeated(p) \/ PostStores(p) \/ PostFails(p) \/ PostSetsLevel(p) \/ PostMarks(p)
      PROVE  ReadsStored'
  <2>1. PICK s \in {"refused", "stored", "failed", "levelled", "ok"} :
          post' = [post EXCEPT ![p].stage = s]
    BY <1>6 DEF PostRepeated, PostStores, PostFails, PostSetsLevel, PostMarks
  <2>2. \A q \in Handler : post'[q].stage = "open" => post'[q] = post[q]
    BY <2>1 DEF TypeOK
  <2> QED BY <1>2, <2>2
<1>7. ASSUME NEW w \in Worker, WorkerRestarts(w) PROVE ReadsStored'
  <2>1. \A q \in Handler : post'[q] = post[q] \/ post'[q].stage = "failed"
    BY <1>7, ServeTyped DEF WorkerRestarts, Busy, Serve
  <2> QED BY <1>2, <2>1
<1> QED BY <1>3, <1>4, <1>5, <1>6, <1>7 DEF Next, vars, PostStep, Poll, PollReads, PollSkips,
       PollRemembers, PollApplies, LeaderPurges, Tick

(* The ledger's set of levels, under the mapping.                          *)
LEMMA WasSetIs ==
  ASSUME NEW l PROVE l \in Ledger!WasSet <=> Stored(l)
BY DEF Ledger!WasSet, Stored

(* A process that turns to a level Stored holds of makes a step of the     *)
(* ledger.                                                                 *)
LEMMA Follows ==
  ASSUME NEW w \in Worker, NEW s, Stored(s.level), root' = [root EXCEPT ![w] = LevelOf(s)],
         UNCHANGED <<row, nonces, stored>>
  PROVE  Ledger!LedgerNext
<1>1. s.level \in Ledger!WasSet
  BY WasSetIs
<1>2. Ledger!Follow(w)
  BY <1>1 DEF Ledger!Follow, LevelOf
<1> QED BY <1>2 DEF Ledger!LedgerNext

LEMMA Forgets ==
  ASSUME TypeOK, NEW c, nonces' = Live(c), UNCHANGED <<row, root, stored>>
  PROVE  Ledger!LedgerNext
BY LiveIs DEF Ledger!LedgerNext, Ledger!Forget

(* A commit takes its request: the open transaction of a single-use one is *)
(* the first with its nonce, and it leaves the level alone only if it is one that was set.    *)
LEMMA CommitTakes ==
  ASSUME TypeOK, OpenIsFirst, ReadsStored, NEW p \in Handler, PostStores(p)
  PROVE  Ledger!LedgerNext
<1> DEFINE r == post[p].request
<1>1. post[p].stage = "open" /\ r \in Request
  BY ServeTyped DEF PostStores, Serve
<1>2. r \in SingleUse => stored[r] = 0
  BY <1>1 DEF OpenIsFirst
<1>3. stored' = [stored EXCEPT ![r] = @ + 1]
  BY DEF PostStores
<1>4. \/ row'.level = LevelAsked[r]
      \/ LevelAsked[r] \in Ledger!WasSet /\ row'.level = row.level
  <2>1. Stored(post[p].read.level)
    BY <1>1 DEF ReadsStored
  <2>2. post[p].read.level \in Ledger!WasSet
    BY <2>1, WasSetIs
  <2>3. row' = RowAfter(p)
    BY DEF PostStores
  <2>4. row'.level = IF post[p].read # NoRow /\ LevelAsked[r] = post[p].read.level
                    THEN row.level ELSE LevelAsked[r]
    BY <2>3 DEF RowAfter
  <2> QED BY <2>2, <2>4
<1>5. r \in DOMAIN nonces' /\ DOMAIN nonces' \subseteq DOMAIN nonces \cup {r}
  <2>1. DOMAIN nonces' = DOMAIN Live(post[p].at) \cup {r}
    BY DEF PostStores
  <2> QED BY <2>1, LiveIs
<1>6. UNCHANGED root
  BY DEF PostStores
<1> HIDE DEF r
<1>7. Ledger!Take(r)
  BY <1>2, <1>3, <1>4, <1>5, <1>6 DEF Ledger!Take
<1> QED BY <1>1, <1>7 DEF Ledger!LedgerNext

LEMMA LedgerStep ==
  ASSUME TypeOK, OpenIsFirst, LevelsStored, ReadsStored, [Next]_vars
  PROVE  [Ledger!LedgerNext]_(Ledger!lvars)
<1>1. ASSUME UNCHANGED <<row, nonces, root, stored>> PROVE UNCHANGED Ledger!lvars
  BY <1>1 DEF Ledger!lvars
<1>2. ASSUME NEW p \in Handler, PostStep(p) PROVE [Ledger!LedgerNext]_(Ledger!lvars)
  <2>1. CASE PostRepeated(p)
    BY <2>1, Forgets DEF PostRepeated
  <2>2. CASE PostStores(p)
    BY <2>2, CommitTakes
  <2>3. CASE PostSetsLevel(p)
    <3> DEFINE s == [level |-> LevelAsked[post[p].request], at |-> p]
    <3>1. post[p].worker \in Worker /\ post[p].request \in Request
      BY <2>3, ServeTyped DEF PostSetsLevel, Serve
    <3>2. stored[post[p].request] >= 1
      BY <2>3 DEF PostSetsLevel, LevelsStored
    <3>3. Stored(s.level)
      BY <3>1, <3>2 DEF Stored
    <3>4. root' = [root EXCEPT ![post[p].worker] = LevelOf(s)] /\ UNCHANGED <<row, nonces, stored>>
      BY <2>3 DEF PostSetsLevel
    <3> HIDE DEF s
    <3> QED BY <3>1, <3>3, <3>4, Follows
  <2>4. CASE PostOpens(p) \/ PostFails(p) \/ PostMarks(p)
    BY <1>1, <2>4 DEF PostOpens, PostFails, PostMarks
  <2> QED BY <1>2, <2>1, <2>2, <2>3, <2>4 DEF PostStep
<1>3. ASSUME NEW w \in Worker, Poll(w) PROVE [Ledger!LedgerNext]_(Ledger!lvars)
  <2>1. CASE PollApplies(w)
    <3>1. Stored(poller[w].key.level)
      BY DEF LevelsStored
    <3> QED BY <2>1, <3>1, Follows DEF PollApplies
  <2>2. CASE PollReads(w) \/ PollSkips(w) \/ PollRemembers(w)
    BY <1>1, <2>2 DEF PollReads, PollSkips, PollRemembers
  <2> QED BY <1>3, <2>1, <2>2 DEF Poll
<1>4. ASSUME NEW w \in Worker, WorkerRestarts(w) PROVE [Ledger!LedgerNext]_(Ledger!lvars)
  BY <1>4, Follows DEF WorkerRestarts, LevelsStored
<1>5. CASE LeaderPurges
  BY <1>5, Forgets DEF LeaderPurges
<1>6. CASE UNCHANGED vars \/ Tick \/
           \E p \in Handler, w \in Worker, r \in Request : PostChecked(p, w, r) \/ PostOutdated(p, w, r)
  BY <1>1, <1>6 DEF vars, Tick, PostChecked, PostOutdated, Begin
<1> QED BY <1>2, <1>3, <1>4, <1>5, <1>6 DEF Next

(* The handlers, pollers, purges and restarts implement LevelLedger, where *)
(* the single-use requests are those whose client is not too far ahead.    *)
THEOREM LevelsKeepTheLedger == Spec => RefinesLedger
<1>1. Init => OnceInv /\ LevelsStored /\ ReadsStored
  BY DEF Init, Idle, NoRow, OnceInv, HandlersInTime, NonceOutlivesRequest, OpenIsFirst, StoredOnce,
     SingleUse, LevelsStored, Stored, RootWasStored, ReadsStored
<1>2. TypeOK /\ OnceInv /\ LevelsStored /\ ReadsStored /\ [Next]_vars =>
        OnceInv' /\ LevelsStored' /\ ReadsStored'
  BY TimeStep, KeptStep, OpenStep, StoredStep, ReadStep DEF OnceInv
<1>3. Init => Ledger!LedgerInit
  BY DEF Init, Ledger!LedgerInit, NoRow
<1>4. TypeOK /\ OnceInv /\ LevelsStored /\ ReadsStored /\ [Next]_vars =>
        [Ledger!LedgerNext]_(Ledger!lvars)
  BY LedgerStep DEF OnceInv
<1> QED BY <1>1, <1>2, <1>3, <1>4, LevelsTyped, PTL DEF Spec, RefinesLedger, Ledger!LedgerSpec
================================================================================
