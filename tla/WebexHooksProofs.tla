--------------------------- MODULE WebexHooksProofs ---------------------------
(***************************************************************************)
(* Theorems about WebexHooks, for any processes, old webhooks, interval    *)
(* and number of mishaps.                                                  *)
(*                                                                         *)
(* For the types: every id in use is in some finite set of numbers, so     *)
(* there always is a new one (Typed).  For NeverTwice: as long as leases   *)
(* outlive the tasks and no call fails, only the leader is in a task       *)
(* (OneTask), what it has still to delete are all the webhooks there are   *)
(* (Prunes), and after its first creation there is that webhook alone      *)
(* (HalfWay).                                                              *)
(***************************************************************************)
EXTENDS WebexHooks, FiniteSetTheorems, SequenceTheorems, TLAPS

USE HooksAssumption

-----------------------------------------------------------------------------
(* Types, with the ids in a set K.                                         *)
HookIn(K) == [id : K, resource : Resource, url : {"http", "https"}, active : BOOLEAN]
TaskIn(K) == [stage : Stage, startup : BOOLEAN, todo : SUBSET K, check : Seq(K), first : K]
IdsIn(K) == {s \in Seq(K) : Len(s) \in {0, 2}}

TypeIn(K) ==
  /\ hooks \subseteq HookIn(K)
  /\ leader \in Worker \cup {NoWorker}
  /\ ids \in [Worker -> IdsIn(K)]
  /\ task \in [Worker -> TaskIn(K)]
  /\ \A w \in Worker : task[w].stage = "check" => task[w].check # <<>>
  /\ runAge \in [Worker -> Age] /\ probeAge \in [Worker -> Age]
  /\ mishaps \in [number : 0..MaxMishaps, benign : BOOLEAN]

Enough(K) == IsFiniteSet(K) /\ K \subseteq Nat /\ OldId \cup {0} \subseteq K

Typed == \E K : Enough(K) /\ TypeIn(K)

LEMMA SeqGrows ==
  ASSUME NEW K, NEW L, K \subseteq L, NEW s \in Seq(K) PROVE s \in Seq(L)
<1>1. Len(s) \in Nat /\ s \in [1..Len(s) -> K]
  BY LenProperties
<1>2. s \in [1..Len(s) -> L]
  BY <1>1
<1> QED BY <1>1, <1>2

LEMMA TypeGrows ==
  ASSUME NEW K, NEW L, K \subseteq L, TypeIn(K) PROVE TypeIn(L)
<1>1. HookIn(K) \subseteq HookIn(L)
  BY DEF HookIn
<1>2. TaskIn(K) \subseteq TaskIn(L)
  BY SeqGrows DEF TaskIn
<1>3. IdsIn(K) \subseteq IdsIn(L)
  BY SeqGrows DEF IdsIn
<1> QED BY <1>1, <1>2, <1>3 DEF TypeIn

LEMMA ImpliesTypeOK == ASSUME Typed PROVE TypeOK
<1>1. TypeIn(Nat)
  BY TypeGrows DEF Typed, Enough
<1> QED BY <1>1 DEF TypeIn, TypeOK, HookIn, Hook, TaskIn, IdsIn

LEMMA OldIdFinite == IsFiniteSet(OldId \cup {0}) /\ OldId \cup {0} \subseteq Nat
<1> DEFINE f == [h \in Old |-> h.id]
<1>1. f \in Surjection(Old, OldId)
  BY DEF Surjection, OldId
<1>2. IsFiniteSet(OldId)
  BY <1>1, FS_Surjection
<1> QED BY <1>2, FS_AddElement DEF OldId, Hook

(* There is an id nobody uses.                                             *)
LEMMA NewIdIsNew ==
  ASSUME NEW K, Enough(K), TypeIn(K)
  PROVE  NewId \in Nat /\ NewId \notin Known \cup OldId
<1> DEFINE S == Known \cup OldId
<1>1. S \subseteq K
  <2>1. {h.id : h \in hooks} \subseteq K
    BY DEF TypeIn, HookIn
  <2>2. ASSUME NEW w \in Worker PROVE Remembered(w) \subseteq K
    <3>1. task[w].todo \cup {task[w].first} \subseteq K
      BY DEF TypeIn, TaskIn
    <3>2. ids[w] \in Seq(K) /\ task[w].check \in Seq(K)
      BY DEF TypeIn, TaskIn, IdsIn
    <3>3. ids[w] \in [1..Len(ids[w]) -> K] /\ task[w].check \in [1..Len(task[w].check) -> K]
      BY <3>2, LenProperties
    <3> QED BY <3>1, <3>3 DEF Remembered
  <2>3. OldId \subseteq K
    BY DEF Enough
  <2>4. Known \subseteq K
    BY <2>1, <2>2 DEF Known
  <2> QED BY <2>3, <2>4
<1>2. IsFiniteSet(S) /\ Cardinality(S) \in Nat
  BY <1>1, FS_Subset, FS_CardinalityType DEF Enough
<1> HIDE DEF S
<1>3. \E i \in 0..Cardinality(S) : i \notin S
  <2> SUFFICES ASSUME 0..Cardinality(S) \subseteq S PROVE FALSE
    OBVIOUS
  <2>1. Cardinality(0..Cardinality(S)) = Cardinality(S) + 1
    BY <1>2, FS_Interval
  <2>2. Cardinality(0..Cardinality(S)) <= Cardinality(S)
    BY <1>2, FS_Subset
  <2> QED BY <1>2, <2>1, <2>2
<1>4. NewId = CHOOSE i \in 0..Cardinality(S) : i \notin S
  BY DEF NewId, S
<1>5. NewId \in 0..Cardinality(S) /\ NewId \notin S
  BY <1>3, <1>4
<1> QED BY <1>2, <1>5 DEF S

-----------------------------------------------------------------------------
LEMMA AtTyped ==
  ASSUME NEW K, Enough(K), NEW stage \in Stage \ {"check"}, NEW startup \in BOOLEAN
  PROVE  /\ At(stage, startup) \in TaskIn(K)
         /\ At(stage, startup).stage = stage /\ At(stage, startup).startup = startup
BY EmptySeq DEF At, TaskIn, Enough

(* A step that changes the task of one process.                            *)
LEMMA TaskChanges ==
  ASSUME NEW K, TypeIn(K), NEW w \in Worker, NEW t \in TaskIn(K), task' = [task EXCEPT ![w] = t],
         t.stage = "check" => t.check # <<>>
  PROVE  /\ task' \in [Worker -> TaskIn(K)]
         /\ \A v \in Worker : task'[v].stage = "check" => task'[v].check # <<>>
         /\ task'[w] = t /\ \A v \in Worker : v # w => task'[v] = task[v]
BY DEF TypeIn

LEMMA InitTyped == ASSUME Init PROVE Typed
<1> DEFINE K == OldId \cup {0}
<1>1. Enough(K)
  BY OldIdFinite DEF Enough
<1>2. Old \subseteq HookIn(K)
  BY DEF OldId, HookIn, Hook
<1> HIDE DEF K
<1>3. At("down", FALSE) \in TaskIn(K) /\ At("down", FALSE).stage = "down"
  BY <1>1, AtTyped DEF Stage
<1>4. <<>> \in IdsIn(K)
  BY EmptySeq DEF IdsIn
<1>5. task \in [Worker -> TaskIn(K)] /\ \A w \in Worker : task[w].stage # "check"
  BY <1>3 DEF Init
<1>6. hooks \subseteq HookIn(K) /\ ids \in [Worker -> IdsIn(K)]
  BY <1>2, <1>4 DEF Init
<1>7. runAge \in [Worker -> Age] /\ probeAge \in [Worker -> Age]
  BY DEF Init, Age
<1>8. TypeIn(K)
  <2>1. leader = NoWorker /\ mishaps = [number |-> 0, benign |-> TRUE]
    BY DEF Init
  <2>2. mishaps \in [number : 0..MaxMishaps, benign : BOOLEAN]
    BY <2>1
  <2> QED BY <1>5, <1>6, <1>7, <2>1, <2>2 DEF TypeIn
<1> QED BY <1>1, <1>8 DEF Typed

LEMMA MishapTyped ==
  ASSUME NEW K, TypeIn(K), NEW kind, Mishap(kind)
  PROVE  mishaps' \in [number : 0..MaxMishaps, benign : BOOLEAN]
BY DEF TypeIn, Mishap

LEMMA LeaderTyped ==
  ASSUME NEW K, TypeIn(K), NEW w \in Worker
  PROVE  Lease(w) \in Worker \cup {NoWorker}
BY DEF TypeIn, Lease

LEMMA EndTyped ==
  ASSUME NEW K, Enough(K), TypeIn(K), NEW w \in Worker
  PROVE  /\ Raised(w) \in TaskIn(K) /\ Raised(w).stage \in {"down", "idle"}
         /\ Finished(w) \in TaskIn(K) /\ Finished(w).stage = "idle"
BY AtTyped DEF Raised, Finished, Stage

LEMMA BeginTyped ==
  ASSUME NEW K, Enough(K), TypeIn(K), NEW w \in Worker, Start(w) \/ Elected(w) \/ RunDue(w)
  PROVE  TypeIn(K)'
<1>1. CASE Start(w)
  <2>1. PICK t \in {At("probe", TRUE), At("idle", FALSE)} : task' = [task EXCEPT ![w] = t]
    BY <1>1 DEF Start
  <2>2. t \in TaskIn(K) /\ t.stage # "check"
    <3>1. "probe" \in Stage \ {"check"} /\ "idle" \in Stage \ {"check"}
      BY DEF Stage
    <3>2. /\ At("probe", TRUE) \in TaskIn(K) /\ At("probe", TRUE).stage = "probe"
          /\ At("idle", FALSE) \in TaskIn(K) /\ At("idle", FALSE).stage = "idle"
      BY <3>1, AtTyped
    <3> QED BY <3>2
  <2>3. leader' \in Worker \cup {NoWorker} /\ runAge' \in [Worker -> Age] /\ probeAge' \in [Worker -> Age]
    BY <1>1 DEF Start, TypeIn, Age
  <2> QED BY <1>1, <2>1, <2>2, <2>3, TaskChanges DEF Start, TypeIn
<1>2. CASE Elected(w)
  BY <1>2 DEF Elected, TypeIn
<1>3. CASE RunDue(w)
  <2>1. At("probe", FALSE) \in TaskIn(K) /\ At("probe", FALSE).stage # "check"
    <3>1. "probe" \in Stage \ {"check"}
      BY DEF Stage
    <3> QED BY <3>1, AtTyped
  <2>2. runAge' \in [Worker -> Age]
    BY <1>3 DEF RunDue, TypeIn, Age
  <2> QED BY <1>3, <2>1, <2>2, TaskChanges DEF RunDue, TypeIn
<1> QED BY <1>1, <1>2, <1>3

LEMMA ProbeTyped ==
  ASSUME NEW K, Enough(K), TypeIn(K), NEW w \in Worker,
         ProbeTooEarly(w) \/ ProbeBegins(w) \/ CheckPasses(w) \/ CheckFails(w)
  PROVE  TypeIn(K)'
<1>0. task[w] \in TaskIn(K) /\ ids[w] \in IdsIn(K) /\ ids[w] \in Seq(K) /\ <<>> \in Seq(K) /\ <<>> \in IdsIn(K)
  BY EmptySeq DEF TypeIn, IdsIn
<1>1. CASE ProbeTooEarly(w)
  BY <1>1, EndTyped, TaskChanges DEF ProbeTooEarly, TypeIn
<1>2. CASE ProbeBegins(w)
  <2> DEFINE t == [task[w] EXCEPT !.stage = IF ids[w] = <<>> THEN "list" ELSE "check", !.check = ids[w]]
  <2>1. t \in TaskIn(K) /\ (t.stage = "check" => t.check # <<>>)
    BY <1>0 DEF TaskIn, Stage
  <2>2. task' = [task EXCEPT ![w] = t]
    BY <1>2 DEF ProbeBegins
  <2> HIDE DEF t
  <2>3. probeAge' \in [Worker -> Age]
    BY <1>2 DEF ProbeBegins, TypeIn, Age
  <2> QED BY <1>2, <2>1, <2>2, <2>3, TaskChanges DEF ProbeBegins, TypeIn
<1>3. CASE CheckPasses(w)
  <2> DEFINE c == task[w].check
             t == IF Len(c) = 1 THEN Finished(w) ELSE [task[w] EXCEPT !.check = Tail(c)]
  <2>1. task' = [task EXCEPT ![w] = t] /\ task[w].stage = "check"
    BY <1>3 DEF CheckPasses, TypeIn
  <2>2. c \in Seq(K) /\ c # <<>>
    BY <1>0, <2>1 DEF TaskIn, TypeIn
  <2>3. Len(c) \in Nat /\ Tail(c) \in Seq(K) /\ Len(Tail(c)) = Len(c) - 1
    BY <2>2, HeadTailProperties, LenProperties
  <2>4. Len(c) # 1 => Tail(c) # <<>>
    <3> HIDE DEF c
    <3>1. Len(c) \in Nat \ {0}
      BY <2>2, EmptySeq
    <3>2. ASSUME Tail(c) = <<>> PROVE Len(Tail(c)) = 0
      BY <3>2, EmptySeq
    <3> QED BY <2>3, <3>1, <3>2
  <2>5. t \in TaskIn(K) /\ (t.stage = "check" => t.check # <<>>)
    <3>1. CASE Len(c) = 1
      BY <3>1, EndTyped
    <3>2. CASE Len(c) # 1
      BY <1>0, <2>3, <2>4, <3>2 DEF TaskIn
    <3> QED BY <3>1, <3>2
  <2> HIDE DEF t
  <2> QED BY <1>3, <2>1, <2>5, TaskChanges DEF CheckPasses, TypeIn
<1>4. CASE CheckFails(w)
  <2> DEFINE t == [task[w] EXCEPT !.stage = "list", !.check = <<>>]
  <2>1. t \in TaskIn(K) /\ t.stage = "list"
    BY <1>0 DEF TaskIn, Stage
  <2>2. task' = [task EXCEPT ![w] = t]
    BY <1>4 DEF CheckFails
  <2> HIDE DEF t
  <2>3. ids' \in [Worker -> IdsIn(K)]
    BY <1>0, <1>4 DEF CheckFails, TypeIn
  <2>4. mishaps' \in [number : 0..MaxMishaps, benign : BOOLEAN]
    BY <1>4, MishapTyped DEF CheckFails, TypeIn
  <2> QED BY <1>4, <2>1, <2>2, <2>3, <2>4, TaskChanges DEF CheckFails, TypeIn
<1> QED BY <1>1, <1>2, <1>3, <1>4

LEMMA PruneTyped ==
  ASSUME NEW K, Enough(K), TypeIn(K), NEW w \in Worker, List(w) \/ Delete(w) \/ DeleteFails(w)
  PROVE  TypeIn(K)'
<1>0. task[w] \in TaskIn(K) /\ hooks \subseteq HookIn(K)
  BY DEF TypeIn
<1>1. CASE List(w)
  <2>1. PICK todo \in {{h.id : h \in {g \in hooks : MatchesTarget(g)}}, task[w].todo} :
           task' = [task EXCEPT ![w] = [task[w] EXCEPT !.stage = "prune", !.todo = todo]]
    <3>1. CASE task' = [task EXCEPT ![w].stage = "prune"]
      <4>1. [task[w] EXCEPT !.stage = "prune"] = [task[w] EXCEPT !.stage = "prune", !.todo = task[w].todo]
        BY <1>0 DEF TaskIn
      <4> QED BY <3>1, <4>1
    <3>2. CASE task' # [task EXCEPT ![w].stage = "prune"]
      BY <1>1, <3>2 DEF List
    <3> QED BY <3>1, <3>2
  <2>2. \A h \in hooks : h.id \in K
    BY <1>0 DEF HookIn
  <2>3. task[w].todo \subseteq K
    BY <1>0 DEF TaskIn
  <2>4. todo \subseteq K
    BY <2>1, <2>2, <2>3
  <2> DEFINE t == [task[w] EXCEPT !.stage = "prune", !.todo = todo]
  <2>5. t \in TaskIn(K) /\ t.stage = "prune"
    BY <1>0, <2>4 DEF TaskIn, Stage
  <2>6. task' = [task EXCEPT ![w] = t]
    BY <2>1
  <2> HIDE DEF t
  <2>7. mishaps' \in [number : 0..MaxMishaps, benign : BOOLEAN]
    BY <1>1, MishapTyped DEF List, TypeIn
  <2> QED BY <1>1, <2>5, <2>6, <2>7, TaskChanges DEF List, TypeIn
<1>2. CASE Delete(w)
  <2>1. PICK id : /\ hooks' = {h \in hooks : h.id # id}
                  /\ task' = [task EXCEPT ![w].todo = @ \ {id}]
    BY <1>2 DEF Delete
  <2> DEFINE t == [task[w] EXCEPT !.todo = @ \ {id}]
  <2>2. t \in TaskIn(K) /\ t.stage = "prune"
    BY <1>0, <1>2 DEF TaskIn, Delete
  <2>3. task' = [task EXCEPT ![w] = t]
    BY <2>1
  <2> HIDE DEF t
  <2>4. hooks' \subseteq HookIn(K)
    BY <1>0, <2>1
  <2> QED BY <1>2, <2>2, <2>3, <2>4, TaskChanges DEF Delete, TypeIn
<1>3. CASE DeleteFails(w)
  <2> DEFINE t == [task[w] EXCEPT !.todo = {}]
  <2>1. t \in TaskIn(K) /\ t.stage = "prune"
    BY <1>0, <1>3 DEF TaskIn, DeleteFails
  <2>2. task' = [task EXCEPT ![w] = t]
    BY <1>3 DEF DeleteFails
  <2> HIDE DEF t
  <2>3. mishaps' \in [number : 0..MaxMishaps, benign : BOOLEAN]
    BY <1>3, MishapTyped DEF DeleteFails, TypeIn
  <2> QED BY <1>3, <2>1, <2>2, <2>3, TaskChanges DEF DeleteFails, TypeIn
<1> QED BY <1>1, <1>2, <1>3

LEMMA WithHookTyped ==
  ASSUME NEW K, TypeIn(K), NEW w \in Worker, NewId \in K
  PROVE  WithHook(w) \subseteq HookIn(K)
<1>1. Wanted(w) \in Resource
  BY DEF Wanted, Resource
<1>2. [id |-> NewId, resource |-> Wanted(w), url |-> "https", active |-> TRUE] \in HookIn(K)
  BY <1>1 DEF HookIn
<1> QED BY <1>2 DEF WithHook, TypeIn

LEMMA CreateTyped ==
  ASSUME NEW K, Enough(K), TypeIn(K), NewId \in K, NEW w \in Worker,
         CreateFirst(w) \/ CreateSecond(w) \/ CreateFails(w)
  PROVE  TypeIn(K)'
<1>0. task[w] \in TaskIn(K) /\ task[w].first \in K /\ hooks \subseteq HookIn(K)
  BY DEF TypeIn, TaskIn
<1>1. CASE CreateFirst(w)
  <2> DEFINE t == [task[w] EXCEPT !.stage = "second", !.first = NewId]
  <2>1. t \in TaskIn(K) /\ t.stage = "second"
    BY <1>0 DEF TaskIn, Stage
  <2>2. task' = [task EXCEPT ![w] = t]
    BY <1>1 DEF CreateFirst
  <2> HIDE DEF t
  <2> QED BY <1>1, <2>1, <2>2, WithHookTyped, TaskChanges DEF CreateFirst, TypeIn
<1>2. CASE CreateSecond(w)
  <2>1. <<task[w].first, NewId>> \in IdsIn(K)
    BY <1>0 DEF IdsIn
  <2>2. ids' \in [Worker -> IdsIn(K)]
    BY <1>2, <2>1 DEF CreateSecond, TypeIn
  <2> QED BY <1>2, <2>2, EndTyped, WithHookTyped, TaskChanges DEF CreateSecond, TypeIn
<1>3. CASE CreateFails(w)
  <2>1. hooks' \subseteq HookIn(K)
    BY <1>0, <1>3, WithHookTyped DEF CreateFails
  <2>2. mishaps' \in [number : 0..MaxMishaps, benign : BOOLEAN]
    BY <1>3, MishapTyped DEF CreateFails, TypeIn
  <2>3. Raised(w) \in TaskIn(K) /\ Raised(w).stage # "check"
    BY EndTyped
  <2> QED BY <1>3, <2>1, <2>2, <2>3, LeaderTyped, TaskChanges DEF CreateFails, TypeIn
<1> QED BY <1>1, <1>2, <1>3

LEMMA MishapStepTyped ==
  ASSUME NEW K, Enough(K), TypeIn(K), (\E w \in Worker : Crash(w)) \/ LeaseExpires \/ Disable \/ Tick
  PROVE  TypeIn(K)'
<1>1. ASSUME NEW w \in Worker, Crash(w) PROVE TypeIn(K)'
  <2>1. At("down", FALSE) \in TaskIn(K) /\ At("down", FALSE).stage = "down"
    <3>1. "down" \in Stage \ {"check"}
      BY DEF Stage
    <3> QED BY <3>1, AtTyped
  <2>2. ids' \in [Worker -> IdsIn(K)]
    BY <1>1, EmptySeq DEF Crash, TypeIn, IdsIn
  <2>3. mishaps' \in [number : 0..MaxMishaps, benign : BOOLEAN]
    BY <1>1, MishapTyped DEF Crash
  <2> QED BY <1>1, <2>1, <2>2, <2>3, TaskChanges DEF Crash, TypeIn
<1>2. CASE LeaseExpires
  BY <1>2, MishapTyped DEF LeaseExpires, TypeIn
<1>3. CASE Disable
  <2>1. PICK h \in hooks : hooks' = (hooks \ {h}) \cup {[h EXCEPT !.active = FALSE]}
    BY <1>3 DEF Disable
  <2>2. [h EXCEPT !.active = FALSE] \in HookIn(K)
    BY DEF TypeIn, HookIn
  <2> QED BY <1>3, <2>1, <2>2, MishapTyped DEF Disable, TypeIn
<1>4. CASE Tick
  <2>1. \A age \in [Worker -> Age] : Older(age) \in [Worker -> Age]
    BY DEF Older, Age
  <2> QED BY <1>4, <2>1 DEF Tick, TypeIn
<1> QED BY <1>1, <1>2, <1>3, <1>4

LEMMA StepTyped == ASSUME Typed, [Next]_vars PROVE Typed'
<1>1. PICK L : Enough(L) /\ TypeIn(L)
  BY DEF Typed
<1>2. PICK K : Enough(K) /\ TypeIn(K) /\ NewId \in K
  <2>1. Enough(L \cup {NewId})
    BY <1>1, NewIdIsNew, FS_AddElement DEF Enough
  <2>2. TypeIn(L \cup {NewId})
    BY <1>1, TypeGrows
  <2> QED BY <2>1, <2>2
<1>3. CASE UNCHANGED vars
  BY <1>2, <1>3 DEF vars, Typed, Enough, TypeIn
<1>4. CASE Next
  <2>1. TypeIn(K)'
    BY <1>2, <1>4, BeginTyped, ProbeTyped, PruneTyped, CreateTyped, MishapStepTyped DEF Next, TaskStep
  <2>2. Enough(K)'
    BY <1>2 DEF Enough, OldId
  <2>3. \E M : (Enough(M) /\ TypeIn(M))'
    BY <2>1, <2>2
  <2> QED BY <2>3 DEF Typed
<1> QED BY <1>3, <1>4

(* Every value keeps its type: in particular a process remembers two ids   *)
(* or none, and Webex never runs out of ids.                               *)
THEOREM HooksTyped == Spec => []TypeOK
BY InitTyped, StepTyped, ImpliesTypeOK, PTL DEF Spec

-----------------------------------------------------------------------------
(* One leader whose calls succeed.                                         *)
Busy(w) == task[w].stage \notin {"down", "idle"}
OneTask == \A w \in Worker : Busy(w) => leader = w
Prunes == \A w \in Worker : task[w].stage = "prune" => task[w].todo = {h.id : h \in hooks}
Alone == \A h, g \in hooks : h = g /\ h.resource = "messages"
HalfWay == \A w \in Worker : task[w].stage = "second" => Alone
Single ==
  \A h, g \in hooks : h.id \notin OldId /\ g.id \notin OldId /\ h.resource = g.resource => h = g

Orderly == OneTask /\ Prunes /\ HalfWay /\ Single
IInv == Typed /\ (OneLeader => Orderly)

LEMMA NatTyped ==
  ASSUME Typed
  PROVE  TypeIn(Nat) /\ hooks \subseteq Hook /\ \A w \in Worker : task[w] \in TaskIn(Nat)
<1>1. TypeIn(Nat)
  BY TypeGrows DEF Typed, Enough
<1> QED BY <1>1 DEF TypeIn, HookIn, Hook

(* The process in a task is the only one that has to be looked at.         *)
LEMMA TaskOrderly ==
  ASSUME Orderly, NEW w \in Worker, Busy(w), \A v \in Worker : v # w => task'[v] = task[v],
         leader' = leader \/ ~Busy(w)', Single',
         task'[w].stage = "prune" => task'[w].todo = {h.id : h \in hooks'},
         task'[w].stage = "second" => Alone'
  PROVE  Orderly'
<1>1. leader = w
  BY DEF Orderly, OneTask
<1>2. \A v \in Worker : v # w => task'[v].stage \in {"down", "idle"}
  BY <1>1 DEF Orderly, OneTask, Busy
<1>3. OneTask'
  BY <1>1, <1>2 DEF OneTask, Busy
<1>4. Prunes' /\ HalfWay'
  BY <1>2 DEF Prunes, HalfWay
<1> QED BY <1>3, <1>4 DEF Orderly

(* Only a crash or a webhook switched off leaves it at that.               *)
LEMMA MishapBenign ==
  ASSUME NEW kind, Mishap(kind), OneLeader' PROVE OneLeader /\ kind \in {"crash", "disable"}
<1> DEFINE n == mishaps.number + 1
           b == mishaps.benign /\ kind \in {"crash", "disable"}
<1>1. mishaps' = [number |-> n, benign |-> b]
  BY DEF Mishap
<1> HIDE DEF n, b
<1>2. mishaps'.benign = b
  BY <1>1, Zenon
<1>3. b
  BY <1>2 DEF OneLeader
<1> QED BY <1>3, Zenon DEF b, OneLeader

LEMMA SameSingle == ASSUME Single, hooks' = hooks PROVE Single'
BY DEF Single, OldId

LEMMA BeginOrderly ==
  ASSUME Typed, Orderly, NEW w \in Worker, Start(w) \/ Elected(w) \/ RunDue(w) \/ Crash(w)
  PROVE  Orderly'
<1>1. /\ hooks' = hooks /\ \A v \in Worker : v # w => task'[v] = task[v]
      /\ task'[w].stage \in {"probe", "idle", "down"}
  BY NatTyped DEF Start, Elected, RunDue, Crash, At, TypeIn
<1>2. Prunes' /\ HalfWay'
  BY <1>1 DEF Orderly, Prunes, HalfWay, Alone
<1>3. OneTask'
  <2>1. CASE Start(w)
    <3>1. task'[w] = IF leader' = w THEN At("probe", TRUE) ELSE At("idle", FALSE)
      BY <2>1, NatTyped DEF Start, TypeIn
    <3>2. Busy(w)' => leader' = w
      BY <3>1 DEF Busy, At
    <3>3. \A v \in Worker : leader = v => leader' = leader
      BY <2>1 DEF Start
    <3> QED BY <1>1, <3>2, <3>3 DEF Orderly, OneTask, Busy
  <2>2. CASE Elected(w)
    <3>1. \A v \in Worker : ~Busy(v)
      BY <2>2 DEF Elected, Orderly, OneTask
    <3> QED BY <2>2, <3>1 DEF Elected, OneTask, Busy
  <2>3. CASE RunDue(w)
    BY <1>1, <2>3 DEF RunDue, Orderly, OneTask, Busy
  <2>4. CASE Crash(w)
    <3>1. task'[w].stage = "down"
      BY <2>4, NatTyped DEF Crash, At, TypeIn
    <3>2. \A v \in Worker : v # w /\ leader = v => leader' = leader
      BY <2>4 DEF Crash
    <3> QED BY <1>1, <3>1, <3>2 DEF Orderly, OneTask, Busy
  <2> QED BY <2>1, <2>2, <2>3, <2>4
<1> QED BY <1>1, <1>2, <1>3, SameSingle DEF Orderly

LEMMA ProbeOrderly ==
  ASSUME Typed, Orderly, NEW w \in Worker,
         ProbeTooEarly(w) \/ ProbeBegins(w) \/ CheckPasses(w) \/ CheckFails(w)
  PROVE  Orderly'
<1>1. /\ hooks' = hooks /\ leader' = leader /\ Busy(w)
      /\ \A v \in Worker : v # w => task'[v] = task[v]
  BY NatTyped DEF ProbeTooEarly, ProbeBegins, CheckPasses, CheckFails, Busy, TypeIn
<1>2. task'[w].stage \in {"idle", "list", "check"}
  BY NatTyped DEF ProbeTooEarly, ProbeBegins, CheckPasses, CheckFails, Finished, At, TypeIn, TaskIn
<1> QED BY <1>1, <1>2, SameSingle, TaskOrderly DEF Orderly

LEMMA PruneOrderly ==
  ASSUME Typed, OneLeader', Orderly, NEW w \in Worker, List(w) \/ Delete(w) \/ DeleteFails(w)
  PROVE  Orderly'
<1>0. task[w] \in TaskIn(Nat) /\ task \in [Worker -> TaskIn(Nat)]
  BY NatTyped DEF TypeIn
<1>1. /\ leader' = leader /\ Busy(w)
      /\ \A v \in Worker : v # w => task'[v] = task[v]
  BY <1>0 DEF List, Delete, DeleteFails, Busy
<1>2. ~Mishap("call")
  BY MishapBenign
<1>3. CASE List(w)
  <2>1. \A h \in hooks : MatchesTarget(h)
    BY NatTyped DEF MatchesTarget, Hook
  <2>2. {h.id : h \in {g \in hooks : MatchesTarget(g)}} = {h.id : h \in hooks}
    BY <2>1
  <2>3. task'[w].todo = {h.id : h \in hooks} /\ task'[w].stage = "prune" /\ hooks' = hooks
    <3> DEFINE all == {h.id : h \in {g \in hooks : MatchesTarget(g)}}
    <3>1. task' = [task EXCEPT ![w].stage = "prune", ![w].todo = all] /\ hooks' = hooks
      BY <1>2, <1>3 DEF List
    <3> HIDE DEF all
    <3>2. task'[w].todo = all /\ task'[w].stage = "prune"
      BY <1>0, <3>1 DEF TaskIn
    <3> QED BY <2>2, <3>1, <3>2 DEF all
  <2> QED BY <1>1, <2>3, SameSingle, TaskOrderly DEF Orderly
<1>4. CASE Delete(w)
  <2>1. PICK id : hooks' = {h \in hooks : h.id # id} /\ task' = [task EXCEPT ![w].todo = @ \ {id}]
    BY <1>4 DEF Delete
  <2>2. task'[w].stage = "prune" /\ task'[w].todo = task[w].todo \ {id}
    BY <1>0, <1>4, <2>1 DEF Delete, TaskIn
  <2>3. task[w].todo = {h.id : h \in hooks}
    BY <1>4 DEF Delete, Orderly, Prunes
  <2>4. {h.id : h \in hooks'} = {h.id : h \in hooks} \ {id}
    BY <2>1
  <2>5. Single'
    BY <2>1 DEF Orderly, Single, OldId
  <2> QED BY <1>1, <2>2, <2>3, <2>4, <2>5, TaskOrderly
<1>5. CASE DeleteFails(w)
  BY <1>2, <1>5 DEF DeleteFails, Orderly, Prunes
<1> QED BY <1>3, <1>4, <1>5

LEMMA CreateOrderly ==
  ASSUME Typed, OneLeader', Orderly, NEW w \in Worker,
         CreateFirst(w) \/ CreateSecond(w) \/ CreateFails(w)
  PROVE  Orderly'
<1> DEFINE new == [id |-> NewId, resource |-> Wanted(w), url |-> "https", active |-> TRUE]
<1>0. task[w] \in TaskIn(Nat) /\ task \in [Worker -> TaskIn(Nat)]
  BY NatTyped DEF TypeIn
<1>1. WithHook(w) = hooks \cup {new} /\ new.resource = Wanted(w)
  BY DEF WithHook
<1> HIDE DEF new
<1>2. Busy(w) /\ \A v \in Worker : v # w => task'[v] = task[v]
  BY <1>0 DEF CreateFirst, CreateSecond, CreateFails, Creating, Busy
<1>3. CASE CreateFirst(w)
  <2>1. hooks = {}
    <3>1. {h.id : h \in hooks} = {}
      BY <1>3 DEF CreateFirst, Orderly, Prunes
    <3> QED BY <3>1
  <2>2. hooks' = {new} /\ new.resource = "messages"
    BY <1>1, <1>3, <2>1 DEF CreateFirst, Wanted
  <2>3. Alone' /\ Single'
    BY <2>2 DEF Alone, Single
  <2>4. task'[w].stage = "second" /\ leader' = leader
    BY <1>0, <1>3 DEF CreateFirst, TaskIn
  <2> QED BY <1>2, <2>3, <2>4, TaskOrderly
<1>4. CASE CreateSecond(w)
  <2>1. Alone /\ new.resource = "attachmentActions" /\ hooks' = hooks \cup {new}
    BY <1>1, <1>4 DEF CreateSecond, Orderly, HalfWay, Wanted
  <2>2. Single'
    BY <2>1 DEF Alone, Single
  <2>3. task'[w].stage = "idle" /\ leader' = leader
    BY <1>0, <1>4 DEF CreateSecond, Finished, At
  <2> QED BY <1>2, <2>2, <2>3, TaskOrderly
<1>5. CASE CreateFails(w)
  <2>1. hooks' = hooks
    BY <1>5, MishapBenign DEF CreateFails
  <2>2. task'[w].stage \in {"down", "idle"}
    BY <1>0, <1>5 DEF CreateFails, Raised, At
  <2> QED BY <1>2, <2>1, <2>2, SameSingle, TaskOrderly DEF Orderly, Busy
<1> QED BY <1>3, <1>4, <1>5

LEMMA DisableOrderly == ASSUME Typed, Orderly, Disable PROVE Orderly'
<1>1. PICK h \in hooks : hooks' = (hooks \ {h}) \cup {[h EXCEPT !.active = FALSE]}
  BY DEF Disable
<1> DEFINE off == [h EXCEPT !.active = FALSE]
<1>2. off.id = h.id /\ off.resource = h.resource
  BY NatTyped DEF Hook
<1> HIDE DEF off
<1>3. hooks' = (hooks \ {h}) \cup {off}
  BY <1>1 DEF off
<1>4. {k.id : k \in hooks'} = {k.id : k \in hooks}
  BY <1>2, <1>3
<1>5. Single' /\ (Alone => Alone')
  BY <1>2, <1>3 DEF Orderly, Single, Alone, OldId
<1>6. OneTask' /\ Prunes' /\ HalfWay'
  BY <1>4, <1>5 DEF Disable, Orderly, OneTask, Busy, Prunes, HalfWay
<1> QED BY <1>5, <1>6 DEF Orderly

LEMMA InitOrderly == ASSUME Init PROVE Orderly
<1>1. \A w \in Worker : task[w].stage = "down"
  BY DEF Init, At
<1>2. \A h \in hooks : h.id \in OldId
  BY DEF Init, OldId
<1> QED BY <1>1, <1>2 DEF Orderly, OneTask, Busy, Prunes, HalfWay, Single

LEMMA StepOrderly == ASSUME IInv, [Next]_vars PROVE IInv'
<1> SUFFICES ASSUME OneLeader' PROVE Orderly'
  BY StepTyped DEF IInv
<1>1. OneLeader
  <2>1. mishaps' = mishaps \/ \E kind : Mishap(kind)
    BY DEF Next, TaskStep, vars, Start, Elected, RunDue, ProbeTooEarly, ProbeBegins, CheckPasses,
           CheckFails, List, Delete, DeleteFails, CreateFirst, CreateSecond, CreateFails,
           Crash, LeaseExpires, Disable, Tick
  <2>2. mishaps' = mishaps => OneLeader
    BY DEF OneLeader
  <2> QED BY <2>1, <2>2, MishapBenign
<1>2. Typed /\ Orderly
  BY <1>1 DEF IInv
<1>3. CASE UNCHANGED vars
  BY <1>2, <1>3 DEF vars, Orderly, OneTask, Busy, Prunes, HalfWay, Alone, Single, OldId
<1>4. CASE Tick
  BY <1>2, <1>4 DEF Tick, Orderly, OneTask, Busy, Prunes, HalfWay, Alone, Single, OldId
<1>5. ~LeaseExpires
  BY MishapBenign DEF LeaseExpires
<1> QED BY <1>2, <1>3, <1>4, <1>5, BeginOrderly, ProbeOrderly, PruneOrderly, CreateOrderly,
           DisableOrderly DEF Next, TaskStep

(* No two webhooks of this deployment deliver the same event while leases  *)
(* outlive the tasks and no call fails, for any number of processes that   *)
(* crash and take over half-way, and whatever Webex switches off.          *)
THEOREM NothingIsHeardTwice == Spec => []NeverTwice
<1>1. IInv => NeverTwice
  BY DEF IInv, Orderly, Single, NeverTwice
<1>2. Init => IInv
  BY InitTyped, InitOrderly DEF IInv
<1> QED BY <1>1, <1>2, StepOrderly, PTL DEF Spec
=============================================================================
