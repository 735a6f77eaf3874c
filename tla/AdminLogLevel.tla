---------------------------- MODULE AdminLogLevel ----------------------------
(***************************************************************************)
(* The runtime log level of Thaum.  A signed POST, served by any worker    *)
(* process, stores the level in the one row of admin_log_level_state       *)
(* together with the nonce that makes the request single-use, and then     *)
(* changes the serving process (thaum/admin_log_level.py).  In every       *)
(* process a polling thread compares the row with what it applied last     *)
(* and follows it (log_setup.py).  The handler's threads and the poller    *)
(* share two module variables, the level of the root logger and the last   *)
(* state applied, without a lock.                                          *)
(*                                                                         *)
(* A request is its nonce, its time and its level; the client or a proxy   *)
(* may deliver it more than once.  The database is modelled at the         *)
(* isolation PostgreSQL gives by default: a transaction sees what is       *)
(* committed, and a second insertion of a key waits for the first.         *)
(***************************************************************************)
EXTENDS Integers, FiniteSets, Functions

CONSTANTS
  Worker,       \* processes
  Pollers,      \* those configured to poll: log_state_poll_seconds > 0, by default 0
  Request,      \* signed requests, each with a nonce of its own
  Handler,      \* bound: executions of the POST handler
  Level,        \* names of log levels
  Default,      \* "DEFAULT", stored as NULL: back to the configured level
  Configured,   \* the level of the configuration file
  LevelAsked,   \* the level each request asks for
  Epoch,        \* the time each request carries
  Skew,         \* admin.clock_skew_seconds
  Grace,        \* what a nonce is kept beyond Skew (120 s in the code)
  Ahead,        \* how far the clock of each request's client is ahead of the server's
  MaxHandling,  \* how long a handler may take from its checks to its commit
  MaxTime,      \* bound: the clock stops there
  Threaded,     \* whether a process serves several requests at a time
  NoHandler,    \* stands for "no row" and "not read yet"
  Nothing

ASSUME AdminAssumption ==
  /\ Pollers \subseteq Worker
  /\ Skew \in Nat /\ Grace \in Nat /\ Ahead \in [Request -> Nat]
  /\ MaxHandling \in Nat /\ MaxTime \in Nat /\ Threaded \in BOOLEAN
  /\ LevelAsked \in [Request -> Level \cup {Default}]
  /\ Epoch \in [Request -> Nat]
  /\ Default \notin Level
  /\ Nothing \notin Request \cup Worker
  /\ NoHandler \notin Handler

VARIABLES
  now,      \* the time, the same for every process
  row,      \* admin_log_level_state: its row, or the key of a missing one
  nonces,   \* admin_log_nonce: the time each stored nonce expires
  root,     \* the level of the root logger of each process
  last,     \* _last_db_log_state of each process
  post,     \* each execution of handle_admin_log_level_post
  poller,   \* the polling thread of each process
  stored    \* history: how often each request was stored

vars == <<now, row, nonces, root, last, post, poller, stored>>

Time == 0..MaxTime
(* updated_at has microseconds: the handler that took it stands for it.    *)
State == [level : Level \cup {Default}, at : Handler \cup {NoHandler}]
(* The key (None, -1.0) of a row that is not there.                        *)
NoRow == [level |-> Default, at |-> NoHandler]

LevelOf(state) == IF state.level = Default THEN Configured ELSE state.level

Live(cutoff) == Restrict(nonces, {r \in DOMAIN nonces : nonces[r] >= cutoff})

Deliver == [stage : {"idle"}, worker : {Nothing}, request : {Nothing}, at : {0}, read : {NoRow}]
Serve == [stage : {"checked", "open", "stored", "levelled", "ok", "refused", "failed"},
          worker : Worker, request : Request, at : Time, read : State]
Idle == [stage |-> "idle", worker |-> Nothing, request |-> Nothing, at |-> 0, read |-> NoRow]

TypeOK ==
  /\ now \in Time
  /\ row \in State
  /\ DOMAIN nonces \subseteq Request /\ nonces \in [DOMAIN nonces -> Nat]
  /\ root \in [Worker -> Level \cup {Configured}]
  /\ last \in [Worker -> State]
  /\ post \in [Handler -> Deliver \cup Serve]
  /\ poller \in [Worker -> [stage : {"sleeping", "read", "remembered"}, key : State]]
  /\ stored \in [Request -> Nat]

Init ==
  /\ now = 0
  /\ row = NoRow
  /\ nonces = <<>>
  /\ root = [w \in Worker |-> Configured]
  /\ last = [w \in Worker |-> NoRow]
  /\ post = [p \in Handler |-> Idle]
  /\ poller = [w \in Worker |-> [stage |-> "sleeping", key |-> NoRow]]
  /\ stored = [r \in Request |-> 0]

-----------------------------------------------------------------------------
(* The POST handler.                                                       *)

Busy(p) == post[p].stage \in {"checked", "open", "stored", "levelled"}

(* Under gunicorn's synchronous workers a process serves one request at a  *)
(* time, beside its polling thread.                                        *)
Serves(w) == Threaded \/ \A q \in Handler : post[q].worker = w => ~Busy(q)

Fresh(r) == now - Epoch[r] <= Skew /\ Epoch[r] - now <= Skew

(* A request reaches worker w and the handler notes the time.  It cannot   *)
(* come from further in the future than its client's clock is ahead.       *)
Begin(p, w, r, stage) ==
  /\ post[p].stage = "idle" /\ Serves(w)
  /\ Epoch[r] <= now + Ahead[r]
  /\ post' = [post EXCEPT ![p] = [stage |-> stage, worker |-> w, request |-> r,
                                  at |-> now, read |-> NoRow]]
  /\ UNCHANGED <<now, row, nonces, root, last, poller, stored>>

(* Every check is passed; a request out of time is answered 401.           *)
PostChecked(p, w, r) == Fresh(r) /\ Begin(p, w, r, "checked")
PostOutdated(p, w, r) == ~Fresh(r) /\ Begin(p, w, r, "refused")

(* The insertion of a nonce waits for another transaction's insertion.     *)
NotPending(r) == \A q \in Handler : post[q].stage = "open" => post[q].request # r

(* The transaction: expired nonces are deleted, the nonce is inserted and  *)
(* the row is read.  Nothing of it is seen by others before the commit.    *)
PostOpens(p) ==
  /\ post[p].stage = "checked"
  /\ NotPending(post[p].request)
  /\ post[p].request \notin DOMAIN Live(post[p].at)
  /\ post' = [post EXCEPT ![p].stage = "open", ![p].read = row]
  /\ UNCHANGED <<now, row, nonces, root, last, poller, stored>>

(* The nonce is there already: 401, and the deletion is committed.         *)
PostRepeated(p) ==
  /\ post[p].stage = "checked"
  /\ NotPending(post[p].request)
  /\ post[p].request \in DOMAIN Live(post[p].at)
  /\ nonces' = Live(post[p].at)
  /\ post' = [post EXCEPT ![p].stage = "refused"]
  /\ UNCHANGED <<now, row, root, last, poller, stored>>

(* Mutant: "DEFAULT" is resolved before it is stored.                      *)
RowResolved(p) == [level |-> LevelOf([level |-> LevelAsked[post[p].request], at |-> p]), at |-> p]

(* What the commit leaves in the row: the session writes the columns that  *)
(* differ from what it read, so a level equal to the one read is left as   *)
(* another transaction may have set it meanwhile.                          *)
RowAfter(p) ==
  LET asked == LevelAsked[post[p].request]
  IN  [level |-> IF post[p].read # NoRow /\ asked = post[p].read.level THEN row.level ELSE asked,
       at |-> p]

(* When the nonce may be forgotten.  Mutant: there is no Grace.            *)
ExpiresEarly(p) == post[p].at + Skew
ExpiresAt(p) == post[p].at + Skew + Grace

(* Commit.  A first row that somebody else has inserted meanwhile makes    *)
(* this insertion fail (see PostFails).                                    *)
PostStores(p) ==
  LET r == post[p].request
  IN  /\ post[p].stage = "open"
      /\ post[p].read = NoRow => row = NoRow
      /\ row' = RowAfter(p)
      /\ nonces' = [q \in DOMAIN Live(post[p].at) \cup {r} |->
                      IF q = r THEN ExpiresAt(p) ELSE nonces[q]]
      /\ stored' = [stored EXCEPT ![r] = @ + 1]
      /\ post' = [post EXCEPT ![p].stage = "stored"]
      /\ UNCHANGED <<now, root, last, poller>>

(* Mutant: the nonce is committed in a transaction of its own.             *)
FailsAfterNonce(p) ==
  /\ post[p].stage \in {"checked", "open"}
  /\ nonces' = [r \in DOMAIN nonces \cup {post[p].request} |-> ExpiresAt(p)]
  /\ post' = [post EXCEPT ![p].stage = "failed"]
  /\ UNCHANGED <<now, row, root, last, poller, stored>>

(* Mutant: the database error is logged, and the handler goes on.          *)
FailsOn(p) ==
  /\ post[p].stage \in {"checked", "open"}
  /\ post' = [post EXCEPT ![p].stage = "stored"]
  /\ UNCHANGED <<now, row, nonces, root, last, poller, stored>>

(* Any database error rolls the transaction back; the answer is 500.       *)
PostFails(p) ==
  /\ post[p].stage \in {"checked", "open"}
  /\ post' = [post EXCEPT ![p].stage = "failed"]
  /\ UNCHANGED <<now, row, nonces, root, last, poller, stored>>

(* set_runtime_root_log_level with the level asked for.                    *)
PostSetsLevel(p) ==
  /\ post[p].stage = "stored"
  /\ root' = [root EXCEPT ![post[p].worker] =
                LevelOf([level |-> LevelAsked[post[p].request], at |-> p])]
  /\ post' = [post EXCEPT ![p].stage = "levelled"]
  /\ UNCHANGED <<now, row, nonces, last, poller, stored>>

(* mark_db_log_state_applied with what this handler stored; 200.           *)
PostMarks(p) ==
  /\ post[p].stage = "levelled"
  /\ last' = [last EXCEPT ![post[p].worker] =
                [level |-> LevelAsked[post[p].request], at |-> p]]
  /\ post' = [post EXCEPT ![p].stage = "ok"]
  /\ UNCHANGED <<now, row, nonces, root, poller, stored>>

PostStep(p) == PostOpens(p) \/ PostRepeated(p) \/ PostStores(p) \/ PostFails(p)
                 \/ PostSetsLevel(p) \/ PostMarks(p)

-----------------------------------------------------------------------------
(* The polling thread, where one is configured:                            *)
(* apply_runtime_log_level_from_db.                                        *)

PollReads(w) ==
  /\ w \in Pollers
  /\ poller[w].stage = "sleeping"
  /\ poller' = [poller EXCEPT ![w] = [stage |-> "read", key |-> row]]
  /\ UNCHANGED <<now, row, nonces, root, last, post, stored>>

(* What was applied last is left alone.                                    *)
PollSkips(w) ==
  /\ poller[w].stage = "read"
  /\ poller[w].key = last[w]
  /\ poller' = [poller EXCEPT ![w].stage = "sleeping"]
  /\ UNCHANGED <<now, row, nonces, root, last, post, stored>>

PollRemembers(w) ==
  /\ poller[w].stage = "read"
  /\ poller[w].key # last[w]
  /\ last' = [last EXCEPT ![w] = poller[w].key]
  /\ poller' = [poller EXCEPT ![w].stage = "remembered"]
  /\ UNCHANGED <<now, row, nonces, root, post, stored>>

(* Mutant: a NULL level in the row changes nothing.                        *)
AppliesUnlessNull(w) ==
  /\ poller[w].stage = "remembered"
  /\ root' = [root EXCEPT ![w] = IF poller[w].key.level = Default THEN @ ELSE LevelOf(poller[w].key)]
  /\ poller' = [poller EXCEPT ![w].stage = "sleeping"]
  /\ UNCHANGED <<now, row, nonces, last, post, stored>>

PollApplies(w) ==
  /\ poller[w].stage = "remembered"
  /\ root' = [root EXCEPT ![w] = LevelOf(poller[w].key)]
  /\ poller' = [poller EXCEPT ![w].stage = "sleeping"]
  /\ UNCHANGED <<now, row, nonces, last, post, stored>>

Poll(w) == PollReads(w) \/ PollSkips(w) \/ PollRemembers(w) \/ PollApplies(w)

-----------------------------------------------------------------------------
(* The process dies, the handlers in it with it, and starts again: the     *)
(* configured level, then the row, before it serves anything.              *)
WorkerRestarts(w) ==
  /\ root' = [root EXCEPT ![w] = LevelOf(row)]
  /\ last' = [last EXCEPT ![w] = row]
  /\ poller' = [poller EXCEPT ![w] = [stage |-> "sleeping", key |-> NoRow]]
  /\ post' = [p \in Handler |->
                IF post[p].worker = w /\ Busy(p)
                THEN [post[p] EXCEPT !.stage = "failed"] ELSE post[p]]
  /\ UNCHANGED <<now, row, nonces, stored>>

(* The leader's hourly task admin_log_nonce_gc.                            *)
LeaderPurges ==
  /\ nonces' = Live(now)
  /\ UNCHANGED <<now, row, root, last, post, poller, stored>>

(* Time passes, but not while a handler would take longer than            *)
(* MaxHandling.                                                            *)
Tick ==
  /\ now < MaxTime
  /\ \A p \in Handler : post[p].stage \in {"checked", "open"} => now < post[p].at + MaxHandling
  /\ now' = now + 1
  /\ UNCHANGED <<row, nonces, root, last, post, poller, stored>>

Next ==
  \/ \E p \in Handler, w \in Worker, r \in Request : PostChecked(p, w, r) \/ PostOutdated(p, w, r)
  \/ \E p \in Handler : PostStep(p)
  \/ \E w \in Worker : Poll(w) \/ WorkerRestarts(w)
  \/ LeaderPurges
  \/ Tick

Spec == Init /\ [][Next]_vars

(* A polling thread sleeps and polls for ever, and a handler ends.         *)
Fairness ==
  /\ \A w \in Pollers : WF_vars(Poll(w))
  /\ \A p \in Handler : WF_vars(PostStep(p))

FairSpec == Spec /\ Fairness

-----------------------------------------------------------------------------
(* The requests that are single-use: those whose client is ahead by no     *)
(* more than what Grace leaves beside the time a handler takes.  The time  *)
(* check lets a client be ahead by Skew, 300 s, which is more than the     *)
(* 120 s of Grace: such a request can be stored again.                     *)
SingleUse == {r \in Request : Ahead[r] + MaxHandling <= Grace}

(* A single-use request takes effect once, however often it is delivered,  *)
(* to whatever workers, at the same time or one after another: while a     *)
(* copy could still pass the check of its time its nonce is in the table,  *)
(* although every POST and the leader delete expired nonces.               *)
StoredOnce == \A r \in SingleUse : stored[r] <= 1

(* admin_models.py: "Single-use nonces" of every request.                  *)
EveryRequestOnce == \A r \in Request : stored[r] <= 1

(* Nonce and level are stored together: a request that failed, at          *)
(* whatever point, has not used up its nonce, so it can be sent again.     *)
NoncesAreSpent == \A r \in DOMAIN nonces : stored[r] >= 1

(* handle_admin_log_level_post and the pollers keep LevelLedger: although  *)
(* copies of a request are in transactions at the same time, expired       *)
(* nonces are deleted by everybody and commits overlap, every step is that *)
(* a request takes effect at once, with its nonce, for the first time if   *)
(* it is single-use, or that nonces are forgotten, or that a process turns *)
(* to a level that was set, or nothing at all.                             *)
Ledger == INSTANCE LevelLedger WITH
            level <- row.level,
            uses <- stored,
            remembered <- DOMAIN nonces,
            runs <- root

RefinesLedger == Ledger!LedgerSpec

(* No process runs at a level that only a refused or failed request asked  *)
(* for, whoever applied it, handler, poller or a restart.                  *)
RootWasStored ==
  \A w \in Worker : \/ root[w] = Configured
                    \/ \E r \in Request : stored[r] >= 1 /\ root[w] = LevelAsked[r]

(* A worker on which no POST has gone through.                             *)
Follower(w) == \A p \in Handler : post[p].worker = w => post[p].stage \in {"refused", "failed"}

(* A worker that polls and serves no POST itself ends at the level of the  *)
(* row, in whatever order the POSTs of the others took their times and     *)
(* committed.  One that does not poll keeps the level it started with.     *)
FollowersConverge ==
  \A w \in Pollers : <>[](Follower(w) => root[w] = LevelOf(row))

(* docs/admin-log-level.md: each worker polls to stay in sync.  Every      *)
(* polling worker, one that served a POST included, ends at the level of   *)
(* the row, however its handler and its polling thread interleave.         *)
WorkersStayInSync == \A w \in Pollers : <>[](root[w] = LevelOf(row))

-----------------------------------------------------------------------------
(* What the proof of StoredOnce rests on.                                  *)

(* A handler between its checks and its commit is still within the time    *)
(* it may take, and its request was in time when it was checked.           *)
HandlersInTime ==
  \A p \in Handler : post[p].stage \in {"checked", "open"} =>
    LET r == post[p].request
    IN  /\ post[p].at <= now /\ now <= post[p].at + MaxHandling
        /\ Epoch[r] <= post[p].at + Ahead[r] /\ post[p].at <= Epoch[r] + Skew

(* The nonce of a single-use request is kept until no handler can hold a   *)
(* copy.                                                                   *)
LastUse(r) == Epoch[r] + Skew + MaxHandling
NonceOutlivesRequest ==
  \A r \in SingleUse : stored[r] >= 1 =>
    (r \in DOMAIN nonces /\ nonces[r] >= LastUse(r)) \/ now > LastUse(r)

(* An open transaction is the only one with its nonce, and the first of a  *)
(* single-use one.                                                         *)
OpenIsFirst ==
  \A p \in Handler : post[p].stage = "open" =>
    /\ post[p].request \in SingleUse => stored[post[p].request] = 0
    /\ \A q \in Handler : post[q].stage = "open" /\ post[q].request = post[p].request => q = p

OnceInv == HandlersInTime /\ NonceOutlivesRequest /\ OpenIsFirst /\ StoredOnce
================================================================================
