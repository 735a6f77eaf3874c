-------------------------- MODULE DatabaseKeysProofs --------------------------
(***************************************************************************)
(* Theorems about DatabaseKeys, for any processes, bots, keys and secrets, *)
(* any batch, any moves of the lease, overlapping tasks included.          *)
(*                                                                         *)
(* The argument: rows are never deleted and a row keeps its secret,        *)
(* because whatever a task is about to write again is what the row still   *)
(* holds (JobsSound); a key is used only after it is stored                *)
(* (WritersReady).  That nothing but the first insertion changes a secret  *)
(* is what the refinement of SecretStore needs.  None of this depends on   *)
(* how many keys are active.                                               *)
(***************************************************************************)
EXTENDS DatabaseKeys, TLAPS

USE KeysAssumption

KeysInv == TypeOK /\ RowsWhole /\ WritersReady /\ JobsSound /\ RowsReadable /\ SecretsAgree

LEMMA InitKeys == Init => KeysInv
<1> SUFFICES ASSUME Init PROVE KeysInv
  OBVIOUS
<1>1. NoRow \in Row /\ NoJob \in Job
  BY DEF NoRow, Row, NoJob, Job, Pending
<1> QED BY <1>1 DEF Init, KeysInv, TypeOK, RowsWhole, WritersReady, JobsSound, RowsReadable,
        SecretsAgree, NoJob, NoRow

(* Keys and active key never get lost: what holds of a row's key, a        *)
(* writer's key or a task's key goes on to hold.                           *)
LEMMA EnsureKeeps ==
  ASSUME KeysInv, NEW w \in Worker, NEW b \in Bot, Ensure(w, b) PROVE KeysInv'
<1>1. CASE EnsureReads(w, b)
  <2>1. cache' \in [Worker -> [Bot -> Secret \cup {NoSecret}]]
    BY <1>1 DEF EnsureReads, KeysInv, TypeOK, Row
  <2>2. SecretsAgree'
    BY <1>1 DEF EnsureReads, KeysInv, TypeOK, SecretsAgree
  <2> QED BY <1>1, <2>1, <2>2 DEF EnsureReads, KeysInv, TypeOK, RowsWhole, WritersReady,
          JobsSound, RowsReadable, Runs
<1>2. CASE EnsureMisses(w, b) \/ EnsureRaces(w, b)
  <2>1. ensure' \in [Worker -> SUBSET Bot]
    BY <1>2 DEF EnsureMisses, EnsureRaces, KeysInv, TypeOK
  <2>2. WritersReady'
    BY <1>2 DEF EnsureMisses, EnsureRaces, KeysInv, TypeOK, WritersReady, Runs
  <2> QED BY <1>2, <2>1, <2>2 DEF EnsureMisses, EnsureRaces, KeysInv, TypeOK, RowsWhole,
          JobsSound, RowsReadable, SecretsAgree
<1>3. CASE EnsureInserts(w, b)
  <2>1. PICK s \in Secret : /\ table' = [table EXCEPT ![b] = [plain |-> s, key |-> ctx[w]]]
                            /\ cache' = [cache EXCEPT ![w][b] = s]
    BY <1>3 DEF EnsureInserts
  <2>2. UNCHANGED <<keys, active, due, leader, ctx, job>> /\ ensure' = [ensure EXCEPT ![w] = {}]
    BY <1>3 DEF EnsureInserts
  <2>3. table[b] = NoRow
    BY <1>3 DEF EnsureInserts
  <2>4. [plain |-> s, key |-> ctx[w]] \in Row /\ ctx[w] \in keys
    <3>1. ensure[w] # {}
      BY <1>3 DEF EnsureInserts
    <3> QED BY <3>1 DEF KeysInv, TypeOK, WritersReady, Runs, Row
  <2>5. TypeOK'
    BY <2>1, <2>2, <2>4 DEF KeysInv, TypeOK
  <2>6. RowsWhole' /\ RowsReadable'
    BY <2>1, <2>2, <2>4 DEF KeysInv, TypeOK, RowsWhole, RowsReadable
  <2>9. WritersReady'
    BY <2>2 DEF KeysInv, TypeOK, WritersReady, Runs
  <2>7. JobsSound'
    <3>1. \A v \in Worker : \A p \in job[v].pending : p[1] \in Bot /\ p[1] # b
      BY <2>3 DEF KeysInv, TypeOK, Job, Pending, JobsSound
    <3> QED BY <2>1, <2>2, <3>1 DEF KeysInv, TypeOK, JobsSound
  <2>8. SecretsAgree'
    <3>1. \A v \in Worker : cache[v][b] = NoSecret
      BY <2>3 DEF KeysInv, SecretsAgree, NoRow
    <3>2. \A v \in Worker, c \in Bot : \/ v = w /\ c = b /\ cache'[v][c] = s
                                       \/ (v # w \/ c # b) /\ cache'[v][c] = cache[v][c]
      BY <2>1 DEF KeysInv, TypeOK
    <3>3. \A c \in Bot : table'[c] = IF c = b THEN [plain |-> s, key |-> ctx[w]] ELSE table[c]
      BY <2>1 DEF KeysInv, TypeOK
    <3> QED BY <3>1, <3>2, <3>3 DEF KeysInv, SecretsAgree
  <2> QED BY <2>5, <2>6, <2>7, <2>8, <2>9 DEF KeysInv
<1> QED BY <1>1, <1>2, <1>3 DEF Ensure

(* A task's record changes for one process; the rest of the state stays.   *)
LEMMA JobKeeps ==
  ASSUME KeysInv, NEW w \in Worker, NEW j \in Job, job' = [job EXCEPT ![w] = j],
         UNCHANGED <<keys, active, due, table, leader, ctx, cache, ensure>>,
         j.stage # "idle" => Runs(w),
         j.stage = "rotate" => j.key \in Key,
         j.stage = "switch" => j.key \in keys,
         \A p \in j.pending : table[p[1]] # NoRow /\ table[p[1]].plain = p[2]
  PROVE  KeysInv'
<1>1. TypeOK'
  BY DEF KeysInv, TypeOK
<1>2. JobsSound'
  BY DEF KeysInv, TypeOK, JobsSound
<1>3. WritersReady'
  BY DEF KeysInv, TypeOK, WritersReady, Runs
<1> QED BY <1>1, <1>2, <1>3 DEF KeysInv, RowsWhole, RowsReadable, SecretsAgree

LEMMA NoJobTyped == NoJob \in Job
BY DEF NoJob, Job, Pending

LEMMA RotateKeeps ==
  ASSUME KeysInv, NEW w \in Worker, RotateBegins(w) \/ RotateCommits(w) \/ RotateSwitches(w)
  PROVE  KeysInv'
<1>1. CASE RotateBegins(w)
  <2>1. PICK k \in Unused : job' = [job EXCEPT ![w] = [stage |-> "rotate", key |-> k, seen |-> active, pending |-> {}]]
    BY <1>1 DEF RotateBegins
  <2>2. [stage |-> "rotate", key |-> k, seen |-> active, pending |-> {}] \in Job /\ k \in Key
    BY DEF Unused, Job, Pending, KeysInv, TypeOK
  <2>3. Runs(w)
    BY <1>1 DEF RotateBegins, Leads
  <2> QED BY <1>1, <2>1, <2>2, <2>3, JobKeeps DEF RotateBegins
<1>2. CASE RotateCommits(w)
  <2>1. job[w].key \in Key
    BY <1>2 DEF RotateCommits, KeysInv, JobsSound
  <2>2. /\ keys' = keys \cup {job[w].key} /\ due' = FALSE
        /\ active' = {job[w].key} \/ active' = (active \ job[w].seen) \cup {job[w].key}
        /\ job' = [job EXCEPT ![w].stage = "switch"]
        /\ UNCHANGED <<table, leader, ctx, cache, ensure>>
    BY <1>2 DEF RotateCommits
  <2>3. job[w] \in Job
    BY DEF KeysInv, TypeOK
  <2>4. [job[w] EXCEPT !.stage = "switch"] \in Job
    BY <2>3 DEF Job
  <2>5. job' \in [Worker -> Job] /\ \A v \in Worker : v # w => job'[v] = job[v]
    BY <2>2, <2>4 DEF KeysInv, TypeOK
  <2>6. job'[w].stage = "switch" /\ job'[w].key = job[w].key /\ job'[w].pending = job[w].pending
    BY <2>2, <2>3 DEF KeysInv, TypeOK, Job
  <2>7. TypeOK'
    BY <2>1, <2>2, <2>5 DEF KeysInv, TypeOK
  <2>8. JobsSound'
    BY <2>1, <2>2, <2>5, <2>6 DEF KeysInv, JobsSound
  <2>9. WritersReady'
    <3>1. \A v \in Worker : job'[v].stage # "idle" => job[v].stage # "idle"
      BY <1>2, <2>5, <2>6 DEF RotateCommits
    <3> QED BY <2>2, <3>1 DEF KeysInv, TypeOK, WritersReady, Runs
  <2> QED BY <2>2, <2>7, <2>8, <2>9 DEF KeysInv, RowsWhole, RowsReadable, SecretsAgree
<1>3. CASE RotateSwitches(w)
  <2>1. job[w].key \in keys
    BY <1>3 DEF RotateSwitches, KeysInv, JobsSound
  <2>2. /\ ctx' = [ctx EXCEPT ![w] = job[w].key] /\ job' = [job EXCEPT ![w] = NoJob]
        /\ UNCHANGED <<keys, active, due, table, leader, cache, ensure>>
    BY <1>3 DEF RotateSwitches
  <2>3. TypeOK'
    BY <2>1, <2>2, NoJobTyped DEF KeysInv, TypeOK
  <2>4. WritersReady'
    BY <2>1, <2>2 DEF KeysInv, TypeOK, WritersReady, Runs, NoJob
  <2>5. JobsSound'
    BY <2>2 DEF KeysInv, TypeOK, JobsSound, NoJob
  <2> QED BY <2>2, <2>3, <2>4, <2>5 DEF KeysInv, RowsWhole, RowsReadable, SecretsAgree
<1> QED BY <1>1, <1>2, <1>3

LEMMA RewriteKeeps ==
  ASSUME KeysInv, NEW w \in Worker, RewriteBegins(w) \/ RewriteCommits(w) \/ JobFails(w)
  PROVE  KeysInv'
<1>1. CASE RewriteBegins(w)
  <2>1. PICK S \in Selection :
          job' = [job EXCEPT ![w] = [NoJob EXCEPT !.stage = "rewrite", !.pending = Stale(S)]]
    BY <1>1 DEF RewriteBegins
  <2> DEFINE P == Stale(S)
             j == [NoJob EXCEPT !.stage = "rewrite", !.pending = P]
  <2>2. \A p \in P : p[1] \in Bot /\ table[p[1]] # NoRow /\ table[p[1]].plain = p[2]
    BY DEF Selection, Stored, Stale
  <2>3. P \in Pending
    BY DEF Selection, Stored, Stale, KeysInv, RowsWhole, Pending
  <2>4. j \in Job
    BY <2>3 DEF Job, NoJob
  <2>5. j.stage = "rewrite" /\ j.pending = P /\ Runs(w)
    BY <1>1 DEF NoJob, RewriteBegins, Leads
  <2>6. job' = [job EXCEPT ![w] = j]
    BY <2>1
  <2> HIDE DEF P, j
  <2> QED BY <1>1, <2>2, <2>4, <2>5, <2>6, JobKeeps DEF RewriteBegins
<1>2. CASE RewriteCommits(w)
  <2> DEFINE Has(b) == \E s \in Secret : <<b, s>> \in job[w].pending
             Its(b) == CHOOSE s \in Secret : <<b, s>> \in job[w].pending
  <2>1. /\ table' = [b \in Bot |-> IF Has(b) THEN [plain |-> Its(b), key |-> ctx[w]] ELSE table[b]]
        /\ job' = [job EXCEPT ![w] = NoJob]
        /\ UNCHANGED <<keys, active, due, leader, ctx, cache, ensure>>
    BY <1>2 DEF RewriteCommits
  <2>2. \A b \in Bot : Has(b) => Its(b) \in Secret /\ <<b, Its(b)>> \in job[w].pending
    OBVIOUS
  <2>3. \A b \in Bot : Has(b) => Its(b) \in Secret /\ table[b].plain = Its(b) /\ table[b] # NoRow
    BY <2>2 DEF KeysInv, JobsSound
  <2>4. ctx[w] \in keys /\ ctx[w] \in Key
    <3>1. job[w].stage # "idle"
      BY <1>2 DEF RewriteCommits
    <3> QED BY <3>1 DEF KeysInv, WritersReady, TypeOK, Runs
  <2> HIDE DEF Has, Its
  <2>5. \A b \in Bot : /\ table'[b] \in Row
                       /\ table'[b].plain = table[b].plain
                       /\ table[b] # NoRow => table'[b] # NoRow
                       /\ table'[b] # NoRow => /\ table[b] # NoRow
                                               /\ table'[b].key \in keys
    <3> SUFFICES ASSUME NEW b \in Bot
                 PROVE  /\ table'[b] \in Row
                        /\ table'[b].plain = table[b].plain
                        /\ table[b] # NoRow => table'[b] # NoRow
                        /\ table'[b] # NoRow => table[b] # NoRow /\ table'[b].key \in keys
      OBVIOUS
    <3>1. CASE Has(b)
      <4>1. table'[b] = [plain |-> Its(b), key |-> ctx[w]]
        BY <2>1, <3>1
      <4> QED BY <2>3, <2>4, <3>1, <4>1 DEF Row, NoRow
    <3>2. CASE ~Has(b)
      <4>1. table'[b] = table[b]
        BY <2>1, <3>2
      <4> QED BY <4>1 DEF KeysInv, TypeOK, RowsReadable
    <3> QED BY <3>1, <3>2
  <2>6. table' \in [Bot -> Row]
    <3>1. table' = [b \in Bot |-> table'[b]]
      BY <2>1
    <3> QED BY <2>5, <3>1
  <2>7. TypeOK'
    BY <2>1, <2>6, NoJobTyped DEF KeysInv, TypeOK
  <2>8. RowsWhole' /\ RowsReadable' /\ SecretsAgree'
    BY <2>1, <2>5 DEF KeysInv, RowsWhole, RowsReadable, SecretsAgree
  <2>10. WritersReady'
    BY <2>1 DEF KeysInv, TypeOK, WritersReady, Runs, NoJob
  <2>9. JobsSound'
    <3>1. \A v \in Worker : \A p \in job[v].pending : p[1] \in Bot
      BY DEF KeysInv, TypeOK, Job, Pending
    <3>2. \A v \in Worker : job'[v] = job[v] \/ job'[v] = NoJob
      BY <2>1 DEF KeysInv, TypeOK
    <3> QED BY <2>1, <2>5, <3>1, <3>2 DEF KeysInv, JobsSound, NoJob
  <2> QED BY <2>7, <2>8, <2>9, <2>10 DEF KeysInv
<1>3. CASE JobFails(w)
  BY <1>3, NoJobTyped, JobKeeps DEF JobFails, NoJob
<1> QED BY <1>1, <1>2, <1>3

LEMMA RestartKeeps ==
  ASSUME KeysInv, NEW w \in Worker, Restarts(w) PROVE KeysInv'
<1>1. /\ \E k \in active \cup {NoKey} : ctx' = [ctx EXCEPT ![w] = k]
      /\ cache' = [cache EXCEPT ![w] = [b \in Bot |-> NoSecret]]
      /\ ensure' = [ensure EXCEPT ![w] = {}] /\ job' = [job EXCEPT ![w] = NoJob]
      /\ UNCHANGED <<keys, active, due, table, leader>>
  BY DEF Restarts, OneActive
<1>2. TypeOK'
  BY <1>1, NoJobTyped DEF KeysInv, TypeOK
<1>3. WritersReady'
  BY <1>1 DEF KeysInv, TypeOK, WritersReady, Runs, NoJob
<1>4. JobsSound'
  BY <1>1 DEF KeysInv, TypeOK, JobsSound, NoJob
<1>5. SecretsAgree'
  BY <1>1 DEF KeysInv, TypeOK, SecretsAgree
<1> QED BY <1>1, <1>2, <1>3, <1>4, <1>5 DEF KeysInv, RowsWhole, RowsReadable

LEMMA NextKeeps == KeysInv /\ [Next]_vars => KeysInv'
<1> SUFFICES ASSUME KeysInv, [Next]_vars PROVE KeysInv'
  OBVIOUS
<1>1. CASE UNCHANGED <<keys, active, table, ctx, cache, ensure, job>> /\ leader' \in Leaders
            /\ due' \in BOOLEAN
  BY <1>1 DEF KeysInv, TypeOK, RowsWhole, WritersReady, Runs, JobsSound, RowsReadable, SecretsAgree
<1>2. CASE LeaderMoves \/ KeyAges \/ UNCHANGED vars
  BY <1>1, <1>2 DEF LeaderMoves, KeyAges, vars, KeysInv, TypeOK
<1> QED BY <1>2, EnsureKeeps, RotateKeeps, RewriteKeeps, RestartKeeps DEF Next

LEMMA KeysInvariant == Spec => []KeysInv
<1> QED BY InitKeys, NextKeeps, PTL DEF Spec

(* Every value of the state is of its type.                                *)
THEOREM KeysTyped == Spec => []TypeOK
<1>1. KeysInv => TypeOK
  BY DEF KeysInv
<1> QED BY <1>1, KeysInvariant, PTL

(* All processes hold the same secret for a bot, the one of the table.     *)
THEOREM OneSecretPerBot == Spec => []SecretsAgree
<1>1. KeysInv => SecretsAgree
  BY DEF KeysInv
<1> QED BY <1>1, KeysInvariant, PTL

(* No row is ever encrypted under a key that is not stored.                *)
THEOREM NoRowIsLost == Spec => []RowsReadable
<1>1. KeysInv => RowsReadable
  BY DEF KeysInv
<1> QED BY <1>1, KeysInvariant, PTL

-----------------------------------------------------------------------------
(* The store of secrets.  Only an insertion changes what the table means.  *)
Secrets == [b \in Bot |-> table[b].plain]

LEMMA EnsureStores ==
  ASSUME KeysInv, NEW w \in Worker, NEW b \in Bot, Ensure(w, b)
  PROVE  Store!StoreNext \/ UNCHANGED <<Secrets, cache>>
<1>1. CASE EnsureReads(w, b)
  <2>1. table[b].plain # NoSecret
    BY <1>1 DEF EnsureReads, KeysInv, RowsWhole
  <2>2. Store!Learn(w, b)
    BY <1>1, <2>1 DEF EnsureReads, Store!Learn
  <2> QED BY <2>2 DEF Store!StoreNext
<1>2. CASE EnsureMisses(w, b) \/ EnsureRaces(w, b)
  BY <1>2 DEF EnsureMisses, EnsureRaces, Secrets
<1>3. CASE EnsureInserts(w, b)
  <2>1. PICK s \in Secret : /\ table' = [table EXCEPT ![b] = [plain |-> s, key |-> ctx[w]]]
                            /\ cache' = [cache EXCEPT ![w][b] = s]
    BY <1>3 DEF EnsureInserts
  <2>2. [c \in Bot |-> table'[c].plain] = [[c \in Bot |-> table[c].plain] EXCEPT ![b] = s]
    BY <2>1 DEF KeysInv, TypeOK
  <2>3. [c \in Bot |-> table[c].plain][b] = NoSecret
    BY <1>3 DEF EnsureInserts, NoRow
  <2>4. Store!Make(w, b)
    BY <2>1, <2>2, <2>3 DEF Store!Make
  <2> QED BY <2>4 DEF Store!StoreNext
<1> QED BY <1>1, <1>2, <1>3 DEF Ensure

(* A task writes the secrets that the rows hold, if under another key.     *)
LEMMA RewriteStores ==
  ASSUME KeysInv, NEW w \in Worker, RewriteCommits(w)
  PROVE  UNCHANGED <<Secrets, cache>>
<1> DEFINE Has(b) == \E s \in Secret : <<b, s>> \in job[w].pending
           Its(b) == CHOOSE s \in Secret : <<b, s>> \in job[w].pending
<1>1. /\ table' = [b \in Bot |-> IF Has(b) THEN [plain |-> Its(b), key |-> ctx[w]] ELSE table[b]]
      /\ UNCHANGED cache
  BY DEF RewriteCommits
<1>2. \A b \in Bot : Has(b) => <<b, Its(b)>> \in job[w].pending
  OBVIOUS
<1>3. \A b \in Bot : Has(b) => table[b].plain = Its(b)
  BY <1>2 DEF KeysInv, JobsSound
<1> HIDE DEF Has, Its
<1>4. \A b \in Bot : table'[b].plain = table[b].plain
  BY <1>1, <1>3
<1> QED BY <1>1, <1>4 DEF Secrets

LEMMA StepStores ==
  KeysInv /\ [Next]_vars => Store!StoreNext \/ UNCHANGED <<Secrets, cache>>
<1> SUFFICES ASSUME KeysInv, [Next]_vars
             PROVE  Store!StoreNext \/ UNCHANGED <<Secrets, cache>>
  OBVIOUS
<1>1. ASSUME NEW w \in Worker, Restarts(w) PROVE Store!StoreNext
  <2>1. Store!Forget(w)
    BY <1>1 DEF Restarts, Store!Forget
  <2> QED BY <2>1 DEF Store!StoreNext
<1>2. ASSUME NEW w \in Worker, \/ RotateBegins(w) \/ RotateCommits(w) \/ RotateSwitches(w)
                               \/ RewriteBegins(w) \/ JobFails(w)
      PROVE  UNCHANGED <<Secrets, cache>>
  BY <1>2 DEF RotateBegins, RotateCommits, RotateSwitches, RewriteBegins, JobFails, Secrets
<1>3. CASE LeaderMoves \/ KeyAges \/ UNCHANGED vars
  BY <1>3 DEF LeaderMoves, KeyAges, vars, Secrets
<1> QED BY <1>1, <1>2, <1>3, EnsureStores, RewriteStores DEF Next

(* The rows, the races and the tasks implement the abstract store: the     *)
(* first insertion gives a bot its secret, and nothing changes it again.   *)
THEOREM KeysRefineStore == Spec => RefinesStore
<1>1. Init => Store!StoreInit
  BY DEF Init, Store!StoreInit, NoRow
<1>2. KeysInv /\ [Next]_vars => [Store!StoreNext]_(Store!svars)
  BY StepStores DEF Store!svars, Secrets
<1> QED BY <1>1, <1>2, KeysInvariant, PTL DEF Spec, RefinesStore, Store!StoreSpec
================================================================================
