----------------------------- MODULE DatabaseKeys -----------------------------
(***************************************************************************)
(* The keys that encrypt fields of the database, and the one kind of field *)
(* they encrypt: the HMAC secret each Webex bot shares between the         *)
(* processes (thaum/database_crypto.py, thaum/bot_webhook_state.py).       *)
(*                                                                         *)
(* A process encrypts with the key it holds in memory, and decrypts with   *)
(* the key a ciphertext names.  The leader puts a new active key beside    *)
(* the old ones when the active one is old, and later rewrites the rows    *)
(* that name another one.  Meanwhile every process reads the secret of its *)
(* bots, or inserts one where there is none.  The first key is there: its  *)
(* creation is part of LeaderBootstrap.                                    *)
(*                                                                         *)
(* Maintenance runs in the leader loop: who the leader is was asked before *)
(* a task, so a process that has lost the lease finishes its task, and two *)
(* rotations may overlap.  A rotation takes the flag from the active key   *)
(* its transaction sees, which need not be all there are by then.          *)
(***************************************************************************)
EXTENDS Naturals, FiniteSets

CONSTANTS
  Worker,     \* processes
  Bot,        \* bots in shared_db mode
  Key,        \* data encryption keys (bound)
  Secret,     \* secrets a process may draw
  FirstKey,   \* the key that leader init has created
  Leaders,    \* the processes that may become the leader
  Batch,      \* _ENCRYPTED_FIELD_CATCHUP_BATCH
  NoKey, NoSecret

ASSUME KeysAssumption ==
  /\ FirstKey \in Key /\ NoKey \notin Key /\ NoSecret \notin Secret
  /\ Leaders \subseteq Worker /\ Leaders # {} /\ Batch \in Nat

VARIABLES
  keys,    \* gemstone_key_record: every data key that is stored
  active,  \* those with is_active
  due,     \* whether it is older than data_key_rotate_days
  table,   \* bot_webhook_hmac: the secret of each bot and the key that encrypts it
  leader,  \* who holds the lease
  ctx,     \* EncryptedString's current context: the key each process writes
           \* with, NoKey if it could not be started
  cache,   \* _hmac_cache_plain of each process and bot
  ensure,  \* the bot whose secret a process is about to insert, if any
  job      \* the maintenance task of each process

vars == <<keys, active, due, table, leader, ctx, cache, ensure, job>>

Row == [plain : Secret \cup {NoSecret}, key : Key \cup {NoKey}]
NoRow == [plain |-> NoSecret, key |-> NoKey]

Pending == SUBSET (Bot \X Secret)
(* The key of a task is the one it has made, seen the active one it read.  *)
Job == [stage : {"idle", "rotate", "switch", "rewrite"}, key : Key \cup {NoKey},
        seen : SUBSET Key, pending : Pending]
NoJob == [stage |-> "idle", key |-> NoKey, seen |-> {}, pending |-> {}]

TypeOK ==
  /\ keys \subseteq Key /\ active \subseteq keys /\ active # {} /\ due \in BOOLEAN
  /\ table \in [Bot -> Row]
  /\ leader \in Leaders
  /\ ctx \in [Worker -> Key \cup {NoKey}]
  /\ cache \in [Worker -> [Bot -> Secret \cup {NoSecret}]]
  /\ ensure \in [Worker -> SUBSET Bot]
  /\ job \in [Worker -> Job]

Init ==
  /\ keys = {FirstKey} /\ active = {FirstKey} /\ due = FALSE
  /\ table = [b \in Bot |-> NoRow]
  /\ leader \in Leaders
  /\ ctx = [w \in Worker |-> FirstKey]
  /\ cache = [w \in Worker |-> [b \in Bot |-> NoSecret]]
  /\ ensure = [w \in Worker |-> {}]
  /\ job = [w \in Worker |-> NoJob]

-----------------------------------------------------------------------------
(* The secret of a bot: ensure_bot_webhook_hmac_secret, when a process     *)
(* starts and whenever its cache is older than the refresh interval.       *)

Runs(w) == ctx[w] # NoKey

(* The row is there: its secret is decrypted with the key the row names.   *)
EnsureReads(w, b) ==
  /\ Runs(w) /\ ensure[w] = {}
  /\ table[b] # NoRow
  /\ table[b].key \in keys
  /\ cache' = [cache EXCEPT ![w][b] = table[b].plain]
  /\ UNCHANGED <<keys, active, due, table, leader, ctx, ensure, job>>

EnsureMisses(w, b) ==
  /\ Runs(w) /\ ensure[w] = {}
  /\ table[b] = NoRow
  /\ ensure' = [ensure EXCEPT ![w] = {b}]
  /\ UNCHANGED <<keys, active, due, table, leader, ctx, cache, job>>

(* Mutant: the insertion replaces a row that is there by now.              *)
UpsertsSecret(w, b) ==
  /\ b \in ensure[w]
  /\ \E s \in Secret :
       /\ table' = [table EXCEPT ![b] = [plain |-> s, key |-> ctx[w]]]
       /\ cache' = [cache EXCEPT ![w][b] = s]
  /\ ensure' = [ensure EXCEPT ![w] = {}]
  /\ UNCHANGED <<keys, active, due, leader, ctx, job>>

(* A random secret is encrypted with the key in memory and inserted.       *)
EnsureInserts(w, b) ==
  /\ b \in ensure[w]
  /\ table[b] = NoRow
  /\ \E s \in Secret :
       /\ table' = [table EXCEPT ![b] = [plain |-> s, key |-> ctx[w]]]
       /\ cache' = [cache EXCEPT ![w][b] = s]
  /\ ensure' = [ensure EXCEPT ![w] = {}]
  /\ UNCHANGED <<keys, active, due, leader, ctx, job>>

(* IntegrityError: another process was first; the row is read again.  Rows *)
(* are never deleted, so the second of the three attempts finds it.        *)
EnsureRaces(w, b) ==
  /\ b \in ensure[w]
  /\ table[b] # NoRow
  /\ ensure' = [ensure EXCEPT ![w] = {}]
  /\ UNCHANGED <<keys, active, due, table, leader, ctx, cache, job>>

Ensure(w, b) == EnsureReads(w, b) \/ EnsureMisses(w, b) \/ EnsureInserts(w, b) \/ EnsureRaces(w, b)

-----------------------------------------------------------------------------
(* rotate_data_encryption_key_if_due.                                      *)

(* active_dek_row, which raises unless there is one.                       *)
OneActive == Cardinality(active) = 1

Leads(w) == leader = w /\ Runs(w) /\ job[w].stage = "idle" /\ OneActive

(* Keys that no process has generated.                                     *)
Unused == Key \ (keys \cup {job[v].key : v \in Worker})

(* Mutant: the process switches to the new key before it is stored.        *)
SwitchesFirst(w) ==
  /\ Leads(w) /\ due
  /\ \E k \in Unused :
       /\ ctx' = [ctx EXCEPT ![w] = k]
       /\ job' = [job EXCEPT ![w] = [stage |-> "rotate", key |-> k, seen |-> active, pending |-> {}]]
  /\ UNCHANGED <<keys, active, due, table, leader, cache, ensure>>

(* The active key is old: a new one is generated.                          *)
RotateBegins(w) ==
  /\ Leads(w) /\ due
  /\ \E k \in Unused :
       job' = [job EXCEPT ![w] = [stage |-> "rotate", key |-> k, seen |-> active, pending |-> {}]]
  /\ UNCHANGED <<keys, active, due, table, leader, ctx, cache, ensure>>

(* Mutant: the flag is set, the key is not stored.                         *)
ActivatesOnly(w) ==
  /\ job[w].stage = "rotate"
  /\ active' = {job[w].key}
  /\ job' = [job EXCEPT ![w].stage = "switch"]
  /\ due' = FALSE
  /\ UNCHANGED <<keys, table, leader, ctx, cache, ensure>>

(* It is stored as the active one (put_keyrecord).  The flag is taken from *)
(* the keys the transaction sees: a key that another rotation has stored   *)
(* since may be among them or not.                                         *)
RotateCommits(w) ==
  /\ job[w].stage = "rotate"
  /\ keys' = keys \cup {job[w].key}
  /\ \E unseen \in {{}, active \ job[w].seen} : active' = unseen \cup {job[w].key}
  /\ job' = [job EXCEPT ![w].stage = "switch"]
  /\ due' = FALSE
  /\ UNCHANGED <<table, leader, ctx, cache, ensure>>

(* This process, and no other, writes with the new key from now on.        *)
RotateSwitches(w) ==
  /\ job[w].stage = "switch"
  /\ ctx' = [ctx EXCEPT ![w] = job[w].key]
  /\ job' = [job EXCEPT ![w] = NoJob]
  /\ UNCHANGED <<keys, active, due, table, leader, cache, ensure>>

-----------------------------------------------------------------------------
(* progressive_reencrypt_encrypted_strings_if_needed and                   *)
(* re_encrypt_stale_bot_webhook_hmac_batch.                                *)

Stored == {b \in Bot : table[b] # NoRow}

(* SELECT ... LIMIT without an order: any Batch of the rows.               *)
Selection == {S \in SUBSET Stored : Cardinality(S) = Batch \/ (S = Stored /\ Cardinality(S) <= Batch)}

(* Of the rows selected those under another key than the active one are    *)
(* decrypted, to be written again; there may be none among them.           *)
Stale(S) == {<<b, table[b].plain>> : b \in {c \in S : table[c].key \notin active}}

RewriteBegins(w) ==
  /\ Leads(w)
  /\ Stored # {}
  /\ \E S \in Selection :
       job' = [job EXCEPT ![w] = [NoJob EXCEPT !.stage = "rewrite", !.pending = Stale(S)]]
  /\ UNCHANGED <<keys, active, due, table, leader, ctx, cache, ensure>>

(* Mutant: equal values are no change, so nothing is written.              *)
WritesNothing(w) ==
  /\ job[w].stage = "rewrite"
  /\ job' = [job EXCEPT ![w] = NoJob]
  /\ UNCHANGED <<keys, active, due, table, leader, ctx, cache, ensure>>

(* The secrets are assigned again and encrypted with the key in memory,    *)
(* which is the active one only in a process that has loaded it.           *)
RewriteCommits(w) ==
  /\ job[w].stage = "rewrite"
  /\ table' = [b \in Bot |-> IF \E s \in Secret : <<b, s>> \in job[w].pending
                             THEN [plain |-> CHOOSE s \in Secret : <<b, s>> \in job[w].pending,
                                   key |-> ctx[w]]
                             ELSE table[b]]
  /\ job' = [job EXCEPT ![w] = NoJob]
  /\ UNCHANGED <<keys, active, due, leader, ctx, cache, ensure>>

(* A database error in any task: it is logged, the loop goes on.           *)
JobFails(w) ==
  /\ job[w].stage \in {"rotate", "rewrite"}
  /\ job' = [job EXCEPT ![w] = NoJob]
  /\ UNCHANGED <<keys, active, due, table, leader, ctx, cache, ensure>>

-----------------------------------------------------------------------------
(* The process dies and starts again: wire_database_crypto loads the       *)
(* active key, and with more than one of them ends the process.            *)
Restarts(w) ==
  /\ IF OneActive THEN \E k \in active : ctx' = [ctx EXCEPT ![w] = k]
                  ELSE ctx' = [ctx EXCEPT ![w] = NoKey]
  /\ cache' = [cache EXCEPT ![w] = [b \in Bot |-> NoSecret]]
  /\ ensure' = [ensure EXCEPT ![w] = {}]
  /\ job' = [job EXCEPT ![w] = NoJob]
  /\ UNCHANGED <<keys, active, due, table, leader>>

(* The lease expires or is given up and another process takes it.          *)
LeaderMoves ==
  /\ leader' \in Leaders \ {leader}
  /\ UNCHANGED <<keys, active, due, table, ctx, cache, ensure, job>>

KeyAges ==
  /\ ~due
  /\ due' = TRUE
  /\ UNCHANGED <<keys, active, table, leader, ctx, cache, ensure, job>>

Next ==
  \/ \E w \in Worker :
       \/ \E b \in Bot : Ensure(w, b)
       \/ RotateBegins(w) \/ RotateCommits(w) \/ RotateSwitches(w)
       \/ RewriteBegins(w) \/ RewriteCommits(w) \/ JobFails(w)
       \/ Restarts(w)
  \/ LeaderMoves
  \/ KeyAges

Spec == Init /\ [][Next]_vars

(* A rotation ends, and a rewrite that is begun again and again, whatever  *)
(* fails and whoever restarts, is finished at some time.                   *)
Fairness ==
  \A w \in Worker : /\ SF_vars(RewriteBegins(w))
                    /\ SF_vars(RewriteCommits(w))
                    /\ WF_vars(RotateCommits(w))
                    /\ WF_vars(RotateSwitches(w))

FairSpec == Spec /\ Fairness

-----------------------------------------------------------------------------
(* All processes use the same secret for a bot, the one in the table,      *)
(* however their insertions race and while the leader writes it again      *)
(* under other keys: what one process registers with Webex the others can  *)
(* verify.                                                                 *)
SecretsAgree ==
  \A w \in Worker, b \in Bot : cache[w][b] # NoSecret => cache[w][b] = table[b].plain

(* All of this together implements a store that gives each bot one secret, *)
(* once and for all: no insertion that lost a race, no rotation and no     *)
(* rewrite of old rows, begun before or after, ever changes a secret.      *)
Store == INSTANCE SecretStore WITH
           Process <- Worker,
           None <- NoSecret,
           secret <- [b \in Bot |-> table[b].plain],
           known <- cache

RefinesStore == Store!StoreSpec

(* A key that encrypts a row is stored, so that the row can be read after  *)
(* any failure or restart of the process that wrote it.                    *)
RowsReadable == \A b \in Bot : table[b] # NoRow => table[b].key \in keys

(* What these rest on: every process writes with a stored key, a task has  *)
(* the key it needs, and what a task is about to write again is still the  *)
(* secret of its row.                                                      *)
WritersReady ==
  \A w \in Worker : /\ ctx[w] \in keys \cup {NoKey}
                    /\ ensure[w] # {} \/ job[w].stage # "idle" => Runs(w)
RowsWhole == \A b \in Bot : table[b] # NoRow => table[b].plain \in Secret
JobsSound ==
  \A w \in Worker :
    /\ job[w].stage = "rotate" => job[w].key \in Key
    /\ job[w].stage = "switch" => job[w].key \in keys
    /\ \A p \in job[w].pending : table[p[1]] # NoRow /\ table[p[1]].plain = p[2]

(* Once the lease stays with a process that writes with the one active     *)
(* key, all rows end under that key, whatever tasks of former leaders are  *)
(* still under way.                                                        *)
SettledOn(w) == leader = w /\ active = {ctx[w]}
RowsUpToDate == \A b \in Bot : table[b] # NoRow => active = {table[b].key}
SettledRowsCatchUp == \A w \in Worker : <>[]SettledOn(w) => <>[]RowsUpToDate

(* database_crypto.py: stale ciphertext is upgraded by                     *)
(* progressive_reencrypt_encrypted_strings_if_needed.  When no more keys   *)
(* are made every row ends under the active key.                           *)
RowsCatchUp == <>[]RowsUpToDate

(* database_crypto.py: "multiple active DEK rows in gemstone_key_record"   *)
(* is an error of its own.  Rotations that overlap may leave two, and then *)
(* no rotation, no rewrite and no start of a process succeeds any more.    *)
OneActiveKey == OneActive
================================================================================
