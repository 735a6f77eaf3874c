------------------------- MODULE LeaderBootstrapProofs -------------------------
(***************************************************************************)
(* Theorems about LeaderBootstrap, for any set of processes and masters    *)
(* and any rows left behind.                                               *)
(*                                                                         *)
(* The argument about releases (FreshInv, KeyInv) needs nothing about the  *)
(* election.  The argument about exclusion (LeadInv, SlotInv) is one about *)
(* the processes whose lease has not run out: whoever outlives it, named   *)
(* by the history variable outrun, loses the promise and nobody else does. *)
(* Both together give WiringNeverEndsAProcess.                             *)
(***************************************************************************)
EXTENDS LeaderBootstrap, TLAPS

(* Variables that the actions leave alone are named through these tuples.  *)
USE DEF electionVars, pollVars, history

(* Init satisfies the type invariant.                                      *)
LEMMA InitTypeOK == Init => TypeOK
BY ConstantsAssumption DEF Init, TypeOK, Location, Row, RowState, Unset

(* Every step preserves the type invariant.                                *)
LEMMA NextTypeOK == TypeOK /\ [Next]_vars => TypeOK'
<1> SUFFICES ASSUME TypeOK, [Next]_vars PROVE TypeOK'
  OBVIOUS
<1> USE ConstantsAssumption DEF TypeOK, Goto
<1>1. ASSUME NEW p \in Proc, Join(p) PROVE TypeOK'
  BY <1>1 DEF Join, Location
<1>2. ASSUME NEW p \in Proc, Elect(p) PROVE TypeOK'
  BY <1>2 DEF Elect, ElectOutcome, Location
<1>3. ASSUME NEW p \in Proc, CheckLeader(p) PROVE TypeOK'
  BY <1>3 DEF CheckLeader, Location, InitSection
<1>4. ASSUME NEW p \in Proc, LeadStep(p) PROVE TypeOK'
  <2>1. CASE MarkRunning(p)
    BY <1>4, <2>1 DEF MarkRunning, Row, RowState, Location, InitSection
  <2>2. CASE VaultCheck(p)
    BY <1>4, <2>2 DEF VaultCheck, Location, InitSection
  <2>3. CASE VaultInsert(p)
    BY <1>4, <2>3 DEF VaultInsert, Location, InitSection
  <2>4. CASE PreloadTeams(p)
    BY <1>4, <2>4 DEF PreloadTeams, Location, InitSection
  <2>5. CASE MarkDone(p)
    BY <1>4, <2>5 DEF MarkDone, Row, RowState, Location, PastBarrier
  <2>6. CASE MarkFailed(p)
    BY <1>4, <2>6 DEF MarkFailed, Row, RowState, Location
  <2> QED BY <1>4, <2>1, <2>2, <2>3, <2>4, <2>5, <2>6 DEF LeadStep
<1>5. ASSUME NEW p \in Proc, Poll(p) PROVE TypeOK'
  <2>1. row.ticket \in Nat
    BY DEF Row
  <2>2. BaseTicket(p) \in Nat \cup {Unset}
    BY <2>1 DEF BaseTicket
  <2>3. CASE PollRunning(p)
    BY <2>2, <2>3 DEF PollRunning, NoteBaseline
  <2>4. CASE PollFailed(p)
    BY <2>2, <2>4 DEF PollFailed, NoteBaseline, Location
  <2>5. CASE PollDone(p)
    BY <2>2, <2>5 DEF PollDone, NoteBaseline, Location, PastBarrier
  <2> QED BY <1>5, <2>3, <2>4, <2>5 DEF Poll
<1>6. ASSUME NEW p \in Proc, AfterBarrierStep(p) PROVE TypeOK'
  <2>1. CASE ApplyCrypto(p)
    BY <2>1 DEF ApplyCrypto, Location, PastBarrier
  <2>2. CASE InitializeBots(p)
    BY <2>2 DEF InitializeBots, Location, PastBarrier
  <2>3. CASE StartupTasks(p)
    BY <2>3 DEF StartupTasks, Location, PastBarrier
  <2>4. CASE FailFast(p)
    BY <2>4 DEF FailFast, Location
  <2> QED BY <1>6, <2>1, <2>2, <2>3, <2>4 DEF AfterBarrierStep
<1>7. ASSUME NEW p \in Proc, TaskFails(p) PROVE TypeOK'
  BY <1>7 DEF TaskFails, Location, InitSection
<1>8. ASSUME NEW p \in Proc, PollTimeout(p) PROVE TypeOK'
  BY <1>8 DEF PollTimeout, Location
<1>9. ASSUME NEW p \in Proc, LoopTick(p) PROVE TypeOK'
  BY <1>9 DEF LoopTick, ElectOutcome
<1>10. ASSUME NEW p \in Proc, LeaseExpire(p) PROVE TypeOK'
  BY <1>10 DEF LeaseExpire
<1>11. ASSUME NEW p \in Proc, StopWorker(p) PROVE TypeOK'
  BY <1>11 DEF StopWorker, Location
<1>12. ASSUME NEW p \in Proc, Crash(p) PROVE TypeOK'
  BY <1>12 DEF Crash, Location
<1>13. ASSUME NEW m \in Master, Shutdown(m) PROVE TypeOK'
  BY <1>13 DEF Shutdown
<1>14. CASE UNCHANGED vars
  BY <1>14 DEF vars
<1> QED
  BY <1>1, <1>2, <1>3, <1>4, <1>5, <1>6, <1>7, <1>8, <1>9, <1>10, <1>11,
     <1>12, <1>13, <1>14 DEF Next, OwnStep

(* The variables keep their types in every reachable state.                *)
THEOREM TypeCorrect == Spec => []TypeOK
<1>1. Init => TypeOK
  BY InitTypeOK
<1>2. TypeOK /\ [Next]_vars => TypeOK'
  BY NextTypeOK
<1> QED BY <1>1, <1>2, PTL DEF Spec

--------------------------------------------------------------------------------
(* Releases: what a follower may conclude from the barrier row.            *)

(* The actions that write the row or move a follower past the barrier.     *)
BarrierAction(p) ==
  \/ MarkRunning(p) \/ MarkDone(p) \/ MarkFailed(p)
  \/ PollRunning(p) \/ PollFailed(p) \/ PollDone(p)

(* Any other step leaves the row, the polls and the history of DONE alone, *)
(* and takes nobody from before the barrier to after it.                   *)
LEMMA QuietStep ==
  ASSUME TypeOK, [Next]_vars, \A p \in Proc : ~BarrierAction(p)
  PROVE  /\ UNCHANGED <<row, baseline, sawRunning, dones, doneSeen>>
         /\ \A q \in Proc : pc'[q] \in PastBarrier => pc[q] \in PastBarrier
<1> DEFINE Quiet == /\ UNCHANGED <<row, baseline, sawRunning, dones, doneSeen>>
                    /\ \A q \in Proc : pc'[q] \in PastBarrier => pc[q] \in PastBarrier
<1> USE DEF TypeOK, Goto, PastBarrier
<1>1. ASSUME NEW p \in Proc, OwnStep(p) PROVE Quiet
  <2>1. \/ Elect(p) \/ CheckLeader(p) \/ VaultCheck(p) \/ VaultInsert(p) \/ PreloadTeams(p)
        \/ ApplyCrypto(p) \/ InitializeBots(p) \/ StartupTasks(p) \/ FailFast(p)
    BY <1>1 DEF OwnStep, LeadStep, Poll, AfterBarrierStep, BarrierAction
  <2> QED
    BY <2>1 DEF Elect, CheckLeader, VaultCheck, VaultInsert, PreloadTeams,
                ApplyCrypto, InitializeBots, StartupTasks, FailFast
<1>2. ASSUME NEW p \in Proc,
             \/ Join(p) \/ TaskFails(p) \/ PollTimeout(p) \/ LoopTick(p)
             \/ LeaseExpire(p) \/ StopWorker(p) \/ Crash(p)
      PROVE Quiet
  BY <1>2 DEF Join, TaskFails, PollTimeout, LoopTick, LeaseExpire, StopWorker, Crash
<1>3. ASSUME NEW m \in Master, Shutdown(m) PROVE Quiet
  BY <1>3 DEF Shutdown
<1>4. CASE UNCHANGED vars
  BY <1>4 DEF vars
<1> QED BY <1>1, <1>2, <1>3, <1>4 DEF Next

(* The strengthening of PassOnlyOnFreshDone.  A ticket never falls below a *)
(* follower's baseline; and where the row, as the follower would read it   *)
(* now, lets it go, a DONE was written since its first look.               *)
FreshInv ==
  /\ \A p \in Proc : dones >= doneSeen[p]
  /\ \A p \in Proc : baseline[p] # Unset => row.ticket >= baseline[p]
  /\ \A p \in Proc : sawRunning[p] => baseline[p] # Unset
  /\ \A p \in Proc :
       /\ baseline[p] # Unset
       /\ row.state = "done"
       /\ row.ticket > baseline[p] \/ sawRunning[p]
       => dones > doneSeen[p]
  /\ PassOnlyOnFreshDone

(* Nothing has been observed initially.                                    *)
LEMMA InitFreshInv == Init => FreshInv
BY DEF Init, FreshInv, PassOnlyOnFreshDone, PastBarrier

(* The clauses of FreshInv are preserved together.                         *)
LEMMA NextFreshInv == TypeOK /\ TypeOK' /\ FreshInv /\ [Next]_vars => FreshInv'
<1> SUFFICES ASSUME TypeOK, TypeOK', FreshInv, [Next]_vars PROVE FreshInv'
  OBVIOUS
<1>0. /\ row \in Row /\ row.ticket \in Nat /\ dones \in Nat
      /\ \A q \in Proc : doneSeen[q] \in Nat /\ baseline[q] \in Nat \cup {Unset}
  BY DEF TypeOK, Row
<1>1. ASSUME NEW p \in Proc, MarkRunning(p) PROVE FreshInv'
  <2>1. row'.ticket = row.ticket + 1 /\ row'.state = "running"
    BY <1>1 DEF MarkRunning
  <2> QED BY <1>0, <1>1, <2>1
          DEF MarkRunning, Goto, FreshInv, PassOnlyOnFreshDone, PastBarrier, TypeOK
<1>2. ASSUME NEW p \in Proc, MarkDone(p) PROVE FreshInv'
  <2>1. row'.ticket = row.ticket
    BY <1>0, <1>2 DEF MarkDone, Row
  <2> QED BY <1>0, <1>2, <2>1
          DEF MarkDone, Goto, FreshInv, PassOnlyOnFreshDone, PastBarrier, TypeOK
<1>3. ASSUME NEW p \in Proc, MarkFailed(p) PROVE FreshInv'
  <2>1. row'.ticket = row.ticket /\ row'.state = "failed"
    BY <1>0, <1>3 DEF MarkFailed, Row
  <2> QED BY <1>0, <1>3, <2>1
          DEF MarkFailed, Goto, FreshInv, PassOnlyOnFreshDone, PastBarrier, TypeOK
<1>4. ASSUME NEW p \in Proc, PollRunning(p) PROVE FreshInv'
  BY <1>0, <1>4 DEF PollRunning, Polling, NoteBaseline, BaseTicket, Goto, FreshInv,
                    PassOnlyOnFreshDone, PastBarrier, TypeOK, Unset
<1>5. ASSUME NEW p \in Proc, PollFailed(p) PROVE FreshInv'
  BY <1>0, <1>5 DEF PollFailed, Polling, NoteBaseline, BaseTicket, Goto, FreshInv,
                    PassOnlyOnFreshDone, PastBarrier, TypeOK, Unset
<1>6. ASSUME NEW p \in Proc, PollDone(p) PROVE FreshInv'
  BY <1>0, <1>6 DEF PollDone, Polling, NewCycle, NoteBaseline, BaseTicket, Goto, FreshInv,
                    PassOnlyOnFreshDone, PastBarrier, TypeOK, Unset
<1>7. CASE \A p \in Proc : ~BarrierAction(p)
  <2>1. UNCHANGED <<row, baseline, sawRunning, dones, doneSeen>>
    BY <1>7, QuietStep
  <2>2. \A q \in Proc : pc'[q] \in PastBarrier => pc[q] \in PastBarrier
    BY <1>7, QuietStep
  <2> QED BY <2>1, <2>2 DEF FreshInv, PassOnlyOnFreshDone
<1> QED BY <1>1, <1>2, <1>3, <1>4, <1>5, <1>6, <1>7 DEF BarrierAction

(* A follower is released only by a DONE written after its first look at   *)
(* the row, whatever row an earlier deployment left and whether or not     *)
(* leases expire while a leader runs its tasks.                            *)
THEOREM FreshRelease == Spec => []PassOnlyOnFreshDone
<1>1. Init => FreshInv
  BY InitFreshInv
<1>2. TypeOK /\ TypeOK' /\ FreshInv /\ [Next]_vars => FreshInv'
  BY NextFreshInv
<1>3. FreshInv => PassOnlyOnFreshDone
  BY DEF FreshInv
<1> QED BY <1>1, <1>2, <1>3, TypeCorrect, PTL DEF Spec

--------------------------------------------------------------------------------
(* Keys: what a worker finds when it wires its encryption.                 *)

(* A KEK slot is there once a leader has passed its vault task, hence once *)
(* a DONE was written in this history.                                     *)
KeyInv ==
  /\ \A p \in Proc : pc[p] \in {"preload", "finishing"} \cup PastBarrier => keySlots >= 1
  /\ dones > 0 => keySlots >= 1

(* Nobody is past the vault task initially.                                *)
LEMMA InitKeyInv == Init => KeyInv
BY DEF Init, KeyInv, PastBarrier

(* Slots are never removed, and a follower passes on a DONE it did not     *)
(* find there, so on one written in this history.                          *)
LEMMA NextKeyInv == TypeOK /\ FreshInv /\ KeyInv /\ [Next]_vars => KeyInv'
<1> SUFFICES ASSUME TypeOK, FreshInv, KeyInv, [Next]_vars PROVE KeyInv'
  OBVIOUS
<1> USE DEF TypeOK, Goto, KeyInv, PastBarrier
<1>1. ASSUME NEW p \in Proc, PollDone(p) PROVE KeyInv'
  <2>1. dones' = dones /\ keySlots' = keySlots
    BY <1>1 DEF PollDone
  <2>2. CASE ~NewCycle(p)
    BY <1>1, <2>1, <2>2 DEF PollDone
  <2>3. CASE NewCycle(p)
    <3>1. row.ticket \in Nat
      BY DEF Row
    <3>2. baseline[p] # Unset /\ (row.ticket > baseline[p] \/ sawRunning[p])
      BY <2>3, <3>1 DEF NewCycle, BaseTicket, FreshInv
    <3>3. dones > doneSeen[p]
      BY <1>1, <3>2 DEF PollDone, Polling, FreshInv
    <3> QED BY <1>1, <2>1, <3>3 DEF PollDone
  <2> QED BY <2>2, <2>3
<1>2. ASSUME NEW p \in Proc, LeadStep(p) PROVE KeyInv'
  BY <1>2 DEF LeadStep, MarkRunning, VaultCheck, VaultInsert, PreloadTeams, MarkDone, MarkFailed
<1>3. ASSUME NEW p \in Proc, PollRunning(p) \/ PollFailed(p) PROVE KeyInv'
  BY <1>3 DEF PollRunning, PollFailed
<1>4. ASSUME NEW p \in Proc, AfterBarrierStep(p) PROVE KeyInv'
  BY <1>4 DEF AfterBarrierStep, ApplyCrypto, InitializeBots, StartupTasks, FailFast
<1>5. ASSUME NEW p \in Proc, Join(p) \/ Elect(p) \/ CheckLeader(p) PROVE KeyInv'
  BY <1>5 DEF Join, Elect, CheckLeader
<1>6. ASSUME NEW p \in Proc,
             \/ TaskFails(p) \/ PollTimeout(p) \/ LoopTick(p)
             \/ LeaseExpire(p) \/ StopWorker(p) \/ Crash(p)
      PROVE KeyInv'
  BY <1>6 DEF TaskFails, PollTimeout, LoopTick, LeaseExpire, StopWorker, Crash
<1>7. ASSUME NEW m \in Master, Shutdown(m) PROVE KeyInv'
  BY <1>7 DEF Shutdown
<1>8. CASE UNCHANGED vars
  BY <1>8 DEF vars
<1> QED BY <1>1, <1>2, <1>3, <1>4, <1>5, <1>6, <1>7, <1>8 DEF Next, OwnStep, Poll

(* A worker that leaves the barrier, as leader or as follower, finds a KEK *)
(* slot: wire_database_crypto never runs ahead of ensure_vault_key_rows.   *)
THEOREM KeysBeforeCrypto == Spec => []KeysReady
<1>1. Init => FreshInv /\ KeyInv
  BY InitFreshInv, InitKeyInv
<1>2. TypeOK /\ TypeOK' /\ FreshInv /\ KeyInv /\ [Next]_vars => FreshInv' /\ KeyInv'
  BY NextFreshInv, NextKeyInv
<1>3. KeyInv => KeysReady
  BY DEF KeyInv, KeysReady
<1> QED BY <1>1, <1>2, <1>3, TypeCorrect, PTL DEF Spec

--------------------------------------------------------------------------------
(* Exclusion: one run of the init tasks at a time, among the leaders whose *)
(* lease lasts.                                                            *)

(* Whoever is in the init section within its lease is the recorded leader, *)
(* registered, and was so on the way there.                                *)
LeadInv ==
  \A p \in Proc \ outrun :
    /\ pc[p] \in Leading => p \in candidates \cap fresh
    /\ pc[p] \in InitSection => leader = p

(* Nobody has joined initially.                                            *)
LEMMA InitLeadInv == Init => LeadInv
BY DEF Init, LeadInv, Leading, InitSection

(* No call of elect displaces a leader that is registered and fresh.       *)
LEMMA ElectKeepsLeader ==
  ASSUME NEW A, NEW B, leader \in A \cap B
  PROVE  ElectOutcome(A, B) = {leader}
BY DEF ElectOutcome

(* LeadInv is inductive: a lease that runs out makes its process an        *)
(* exception, and elect displaces no leader within its lease.              *)
LEMMA NextLeadInv ==
  ASSUME TypeOK, LeadInv, [Next]_vars
  PROVE  LeadInv'
<1> USE DEF TypeOK, Goto, LeadInv, Leading, InitSection
<1>1. ASSUME NEW p \in Proc, Join(p) PROVE LeadInv'
  BY <1>1 DEF Join
<1>2. ASSUME NEW p \in Proc, Elect(p) PROVE LeadInv'
  <2>1. \A q \in Proc \ outrun : pc[q] \in InitSection => leader' = leader
    BY <1>2, ElectKeepsLeader DEF Elect
  <2> QED BY <1>2, <2>1 DEF Elect
<1>3. ASSUME NEW p \in Proc, CheckLeader(p) PROVE LeadInv'
  BY <1>3 DEF CheckLeader
<1>4. ASSUME NEW p \in Proc, LeadStep(p) PROVE LeadInv'
  BY <1>4 DEF LeadStep, MarkRunning, VaultCheck, VaultInsert, PreloadTeams, MarkDone, MarkFailed
<1>5. ASSUME NEW p \in Proc, Poll(p) PROVE LeadInv'
  BY <1>5 DEF Poll, PollRunning, PollFailed, PollDone
<1>6. ASSUME NEW p \in Proc, AfterBarrierStep(p) PROVE LeadInv'
  BY <1>6 DEF AfterBarrierStep, ApplyCrypto, InitializeBots, StartupTasks, FailFast
<1>7. ASSUME NEW p \in Proc, LoopTick(p) PROVE LeadInv'
  <2>1. \A q \in Proc \ outrun : pc[q] \in InitSection => leader' = leader
    BY <1>7, ElectKeepsLeader DEF LoopTick
  <2> QED BY <1>7, <2>1 DEF LoopTick
<1>8. ASSUME NEW p \in Proc, LeaseExpire(p) PROVE LeadInv'
  BY <1>8 DEF LeaseExpire
<1>9. ASSUME NEW p \in Proc, TaskFails(p) \/ PollTimeout(p) \/ StopWorker(p) \/ Crash(p)
      PROVE LeadInv'
  BY <1>9 DEF TaskFails, PollTimeout, StopWorker, Crash, Ended
<1>10. ASSUME NEW m \in Master, Shutdown(m) PROVE LeadInv'
  BY <1>10 DEF Shutdown
<1>11. CASE UNCHANGED vars
  BY <1>11 DEF vars
<1> QED BY <1>1, <1>2, <1>3, <1>4, <1>5, <1>6, <1>7, <1>8, <1>9, <1>10, <1>11 DEF Next, OwnStep

(* At most one worker of all overlapping deployments runs the init tasks   *)
(* within its lease: of any two that run them, one has outlived it.        *)
THEOREM ExclusiveInit == Spec => []SingleInit
<1>1. Init => LeadInv
  BY InitLeadInv
<1>2. TypeOK /\ LeadInv /\ [Next]_vars => LeadInv'
  BY NextLeadInv
<1>3. LeadInv => SingleInit
  BY DEF LeadInv, SingleInit
<1> QED BY <1>1, <1>2, <1>3, TypeCorrect, PTL DEF Spec

(* The insert of a KEK slot follows an empty look that is still true.      *)
SlotInv ==
  outrun = {} =>
    /\ keySlots <= 1
    /\ \A p \in Proc : pc[p] = "vaultInsert" => keySlots = 0

(* A lease that has run out is never forgotten.                            *)
LEMMA OutrunGrows == TypeOK /\ [Next]_vars => outrun \subseteq outrun'
<1> SUFFICES ASSUME TypeOK, [Next]_vars PROVE outrun \subseteq outrun'
  OBVIOUS
<1>1. ASSUME NEW p \in Proc, OwnStep(p) PROVE UNCHANGED outrun
  BY <1>1 DEF OwnStep, Elect, CheckLeader, LeadStep, MarkRunning, VaultCheck, VaultInsert,
              PreloadTeams, MarkDone, MarkFailed, Poll, PollRunning, PollFailed, PollDone,
              AfterBarrierStep, ApplyCrypto, InitializeBots, StartupTasks, FailFast
<1>2. ASSUME NEW p \in Proc,
             \/ Join(p) \/ TaskFails(p) \/ PollTimeout(p) \/ LoopTick(p)
             \/ LeaseExpire(p) \/ StopWorker(p) \/ Crash(p)
      PROVE  outrun \subseteq outrun'
  BY <1>2 DEF Join, TaskFails, PollTimeout, LoopTick, LeaseExpire, StopWorker, Crash
<1>3. ASSUME NEW m \in Master, Shutdown(m) PROVE UNCHANGED outrun
  BY <1>3 DEF Shutdown
<1>4. CASE UNCHANGED vars
  BY <1>4 DEF vars
<1> QED BY <1>1, <1>2, <1>3, <1>4 DEF Next

(* SlotInv is preserved because nobody else can be about to insert.        *)
LEMMA NextSlotInv == TypeOK /\ SingleInit /\ SlotInv /\ [Next]_vars => SlotInv'
<1> SUFFICES ASSUME TypeOK, SingleInit, SlotInv, [Next]_vars, outrun' = {} PROVE SlotInv'
  BY DEF SlotInv
<1>0. outrun = {}
  BY OutrunGrows
<1> USE <1>0 DEF TypeOK, Goto, SlotInv
<1>1. ASSUME NEW p \in Proc, VaultInsert(p) PROVE SlotInv'
  <2>1. \A q \in Proc : pc[q] = "vaultInsert" => q = p
    BY <1>1 DEF VaultInsert, SingleInit, InitSection
  <2> QED BY <1>1, <2>1 DEF VaultInsert
<1>2. ASSUME NEW p \in Proc, VaultCheck(p) PROVE SlotInv'
  BY <1>2 DEF VaultCheck
<1>3. ASSUME NEW p \in Proc,
             \/ MarkRunning(p) \/ PreloadTeams(p) \/ MarkDone(p) \/ MarkFailed(p)
             \/ Join(p) \/ Elect(p) \/ CheckLeader(p)
      PROVE SlotInv'
  BY <1>3 DEF MarkRunning, PreloadTeams, MarkDone, MarkFailed, Join, Elect, CheckLeader
<1>4. ASSUME NEW p \in Proc, Poll(p) PROVE SlotInv'
  BY <1>4 DEF Poll, PollRunning, PollFailed, PollDone
<1>5. ASSUME NEW p \in Proc, AfterBarrierStep(p) PROVE SlotInv'
  BY <1>5 DEF AfterBarrierStep, ApplyCrypto, InitializeBots, StartupTasks, FailFast
<1>6. ASSUME NEW p \in Proc,
             \/ TaskFails(p) \/ PollTimeout(p) \/ LoopTick(p)
             \/ LeaseExpire(p) \/ StopWorker(p) \/ Crash(p)
      PROVE SlotInv'
  BY <1>6 DEF TaskFails, PollTimeout, LoopTick, LeaseExpire, StopWorker, Crash
<1>7. ASSUME NEW m \in Master, Shutdown(m) PROVE SlotInv'
  BY <1>7 DEF Shutdown
<1>8. CASE UNCHANGED vars
  BY <1>8 DEF vars
<1> QED
  BY <1>1, <1>2, <1>3, <1>4, <1>5, <1>6, <1>7, <1>8 DEF Next, OwnStep, LeadStep

(* As long as no leader has outlived its lease the database has no second  *)
(* KEK slot, after which no worker could wire its encryption again.        *)
THEOREM NeverTwoKeySlots == Spec => []OneKeySlot
<1>1. Init => SlotInv
  BY DEF Init, SlotInv
<1>2. TypeOK /\ SingleInit /\ SlotInv /\ [Next]_vars => SlotInv'
  BY NextSlotInv
<1>3. SlotInv => OneKeySlot
  BY DEF SlotInv, OneKeySlot
<1> QED BY <1>1, <1>2, <1>3, TypeCorrect, ExclusiveInit, PTL DEF Spec

(* Only a look that does not find exactly one slot ends a process there.   *)
LEMMA StepWires ==
  ASSUME TypeOK, KeysReady, OneKeySlot, [Next]_vars,
         NEW p \in Proc, pc[p] = "crypto", pc'[p] # "crypto", outrun = {}
  PROVE  pc'[p] \in {"bots", "dead"}
<1> USE DEF TypeOK, Goto
<1>1. keySlots = 1
  BY DEF KeysReady, OneKeySlot, PastBarrier
<1>2. ASSUME NEW q \in Proc,
             \/ LeadStep(q) \/ Join(q) \/ Elect(q) \/ CheckLeader(q) \/ Poll(q) \/ TaskFails(q)
             \/ PollTimeout(q) \/ LoopTick(q) \/ LeaseExpire(q)
      PROVE  FALSE
  BY <1>2 DEF LeadStep, MarkRunning, VaultCheck, VaultInsert, PreloadTeams, MarkDone, MarkFailed,
              Join, Elect, CheckLeader, Poll, PollRunning, PollFailed, PollDone, Polling,
              TaskFails, PollTimeout, LoopTick, LeaseExpire
<1>3. ASSUME NEW q \in Proc, AfterBarrierStep(q) PROVE pc'[p] = "bots"
  BY <1>1, <1>3 DEF AfterBarrierStep, ApplyCrypto, InitializeBots, StartupTasks, FailFast
<1>4. ASSUME NEW q \in Proc, StopWorker(q) \/ Crash(q) PROVE pc'[p] = "dead"
  BY <1>4 DEF StopWorker, Crash
<1>5. CASE UNCHANGED vars \/ \E m \in Master : Shutdown(m)
  BY <1>5 DEF vars, Shutdown
<1> QED BY <1>2, <1>3, <1>4, <1>5 DEF Next, OwnStep

(* As long as no leader has outlived its lease, whoever passes the barrier *)
(* gets its encryption wired.                                              *)
THEOREM WiringNeverEndsAProcess == Spec => WiringSucceeds
<1>1. TypeOK /\ KeysReady /\ OneKeySlot /\ [Next]_vars =>
        [\A p \in Proc :
           pc[p] = "crypto" /\ pc'[p] # "crypto" /\ outrun = {} => pc'[p] \in {"bots", "dead"}]_vars
  BY StepWires
<1> QED BY <1>1, TypeCorrect, KeysBeforeCrypto, NeverTwoKeySlots, PTL DEF Spec, WiringSucceeds

--------------------------------------------------------------------------------
(* Refinement: the bootstrap implements InitBarrier.                       *)

MemberStatuses == [p \in Proc |-> MemberStatus(p)]

(* Changing one process changes the status of that member only.            *)
LEMMA OneMember ==
  ASSUME NEW p \in Proc, NEW where,
         MemberStatus(p)' = where,
         \A q \in Proc \ {p} : pc'[q] = pc[q] /\ baseline'[q] = baseline[q]
  PROVE  MemberStatuses' = [MemberStatuses EXCEPT ![p] = where]
<1>1. \A q \in Proc \ {p} : MemberStatus(q)' = MemberStatus(q)
  BY DEF MemberStatus
<1> QED BY <1>1 DEF MemberStatuses

(* A step that leaves each member where it is on the map is a stutter.     *)
LEMMA SameMembers ==
  ASSUME NEW p \in Proc,
         MemberStatus(p)' = MemberStatus(p),
         \A q \in Proc \ {p} : pc'[q] = pc[q] /\ baseline'[q] = baseline[q]
  PROVE  MemberStatuses' = MemberStatuses
<1>1. \A q \in Proc : MemberStatus(q)' = MemberStatus(q)
  BY DEF MemberStatus
<1> QED BY <1>1 DEF MemberStatuses

(* A process has polled only if it has reached the wait, and has noted a   *)
(* FAILED only if it has polled.                                           *)
ArrivedInv ==
  \A p \in Proc :
    /\ pc[p] \in InitSection \cup {"off", "joined", "elected"} => baseline[p] = Unset
    /\ failedSeen[p] => baseline[p] # Unset

(* Polls are taken in the wait, and the wait is not left backwards.        *)
LEMMA NextArrivedInv == TypeOK /\ ArrivedInv /\ [Next]_vars => ArrivedInv'
<1> SUFFICES ASSUME TypeOK, ArrivedInv, [Next]_vars PROVE ArrivedInv'
  OBVIOUS
<1> USE DEF TypeOK, Goto, ArrivedInv, InitSection
<1>1. ASSUME NEW p \in Proc, LeadStep(p) PROVE ArrivedInv'
  BY <1>1 DEF LeadStep, MarkRunning, VaultCheck, VaultInsert, PreloadTeams, MarkDone, MarkFailed
<1>2. ASSUME NEW p \in Proc, Join(p) \/ Elect(p) \/ CheckLeader(p) PROVE ArrivedInv'
  BY <1>2 DEF Join, Elect, CheckLeader
<1>3. ASSUME NEW p \in Proc, Poll(p) PROVE ArrivedInv'
  <2>1. row.ticket # Unset
    BY DEF Row, Unset
  <2> QED
    BY <1>3, <2>1 DEF Poll, PollRunning, PollFailed, PollDone, Polling, NoteBaseline, BaseTicket
<1>4. ASSUME NEW p \in Proc, AfterBarrierStep(p) PROVE ArrivedInv'
  BY <1>4 DEF AfterBarrierStep, ApplyCrypto, InitializeBots, StartupTasks, FailFast
<1>5. ASSUME NEW p \in Proc,
             \/ TaskFails(p) \/ PollTimeout(p) \/ LoopTick(p)
             \/ LeaseExpire(p) \/ StopWorker(p) \/ Crash(p)
      PROVE ArrivedInv'
  BY <1>5 DEF TaskFails, PollTimeout, LoopTick, LeaseExpire, StopWorker, Crash
<1>6. ASSUME NEW m \in Master, Shutdown(m) PROVE ArrivedInv'
  BY <1>6 DEF Shutdown
<1>7. CASE UNCHANGED vars
  BY <1>7 DEF vars
<1> QED BY <1>1, <1>2, <1>3, <1>4, <1>5, <1>6, <1>7 DEF Next, OwnStep

(* Raising and dying take a member away, unless it is away already.        *)
LEMMA Leaving ==
  ASSUME TypeOK, NEW p \in Proc, NEW where \in {"fatal", "dead"},
         Goto(p, where), UNCHANGED <<baseline, dones, doneSeen>>
  PROVE  Barrier!Leave(p) \/ UNCHANGED <<MemberStatuses, dones, doneSeen>>
<1>1. MemberStatus(p)' = "gone"
  BY DEF TypeOK, Goto, MemberStatus
<1>2. \A q \in Proc \ {p} : pc'[q] = pc[q] /\ baseline'[q] = baseline[q]
  BY DEF TypeOK, Goto
<1>3. CASE MemberStatus(p) = "gone"
  BY <1>1, <1>2, <1>3, SameMembers
<1>4. CASE MemberStatus(p) # "gone"
  <2>1. MemberStatuses' = [MemberStatuses EXCEPT ![p] = "gone"]
    BY <1>1, <1>2, OneMember
  <2>2. MemberStatuses[p] # "gone"
    BY <1>4 DEF MemberStatuses
  <2> QED BY <2>1, <2>2 DEF Barrier!Leave, MemberStatuses
<1> QED BY <1>3, <1>4

(* Moving about before the barrier, or after it, changes no status.        *)
LEMMA Moving ==
  ASSUME TypeOK, ArrivedInv, NEW p \in Proc, NEW where,
         Goto(p, where), UNCHANGED <<baseline, dones, doneSeen>>,
         \/ pc[p] \in PastBarrier /\ where \in PastBarrier
         \/ /\ pc[p] \in InitSection \cup {"off", "joined", "elected"}
            /\ where \in InitSection \cup {"joined", "elected", "wait"}
  PROVE  UNCHANGED <<MemberStatuses, dones, doneSeen>>
<1>1. MemberStatus(p)' = MemberStatus(p)
  BY DEF TypeOK, Goto, MemberStatus, ArrivedInv, PastBarrier, InitSection
<1>2. \A q \in Proc \ {p} : pc'[q] = pc[q] /\ baseline'[q] = baseline[q]
  BY DEF TypeOK, Goto
<1> QED BY <1>1, <1>2, SameMembers

(* A poll that does not end the wait is the arrival, or a stutter.         *)
LEMMA Waiting ==
  ASSUME TypeOK, NEW p \in Proc, Polling(p), NoteBaseline(p), UNCHANGED <<pc, row, dones>>
  PROVE  Barrier!Arrive(p) \/ UNCHANGED <<MemberStatuses, dones, doneSeen>>
<1> USE DEF TypeOK, Polling, NoteBaseline, BaseTicket
<1>1. row.ticket \in Nat /\ row.ticket # Unset
  BY DEF Row, Unset
<1>2. \A q \in Proc \ {p} : pc'[q] = pc[q] /\ baseline'[q] = baseline[q]
  OBVIOUS
<1>3. MemberStatus(p)' = "waiting"
  BY <1>1 DEF MemberStatus, PastBarrier
<1>4. CASE baseline[p] = Unset
  <2>1. MemberStatuses' = [MemberStatuses EXCEPT ![p] = "waiting"]
    BY <1>2, <1>3, OneMember
  <2>2. MemberStatuses[p] = "outside"
    BY <1>4 DEF MemberStatuses, MemberStatus, PastBarrier
  <2> QED BY <1>4, <2>1, <2>2 DEF Barrier!Arrive, MemberStatuses
<1>5. CASE baseline[p] # Unset
  <2>1. MemberStatus(p) = "waiting"
    BY <1>5 DEF MemberStatus, PastBarrier
  <2>2. MemberStatuses' = MemberStatuses
    BY <1>2, <1>3, <2>1, SameMembers
  <2>3. UNCHANGED <<dones, doneSeen>>
    BY <1>5
  <2> QED BY <2>2, <2>3
<1> QED BY <1>4, <1>5

(* A poll that ends the wait finds a baseline from an earlier poll.        *)
LEMMA LeavingPoll ==
  ASSUME TypeOK, FreshInv, ArrivedInv, NEW p \in Proc, NewCycle(p) \/ failedSeen[p],
         NoteBaseline(p)
  PROVE  /\ baseline[p] # Unset /\ UNCHANGED <<baseline, doneSeen>>
         /\ NewCycle(p) => row.ticket > baseline[p] \/ sawRunning[p]
<1>1. row.ticket \in Nat
  BY DEF TypeOK, Row
<1> QED BY <1>1 DEF TypeOK, FreshInv, ArrivedInv, NewCycle, NoteBaseline, BaseTicket

(* Every step is a step of the abstract barrier or a stutter of it.        *)
LEMMA StepRefines ==
  ASSUME TypeOK, FreshInv, ArrivedInv, [Next]_vars
  PROVE  Barrier!BarrierNext \/ UNCHANGED <<MemberStatuses, dones, doneSeen>>
<1> DEFINE Goal == Barrier!BarrierNext \/ UNCHANGED <<MemberStatuses, dones, doneSeen>>
<1> USE DEF Barrier!BarrierNext
<1>1. ASSUME NEW p \in Proc,
             \/ Join(p) \/ Elect(p) \/ CheckLeader(p) \/ MarkRunning(p) \/ VaultCheck(p)
             \/ VaultInsert(p) \/ PreloadTeams(p) \/ TaskFails(p)
      PROVE  Goal
  BY <1>1, Moving DEF Join, Elect, CheckLeader, MarkRunning, VaultCheck, VaultInsert,
                      PreloadTeams, TaskFails, InitSection
<1>2. ASSUME NEW p \in Proc,
             MarkFailed(p) \/ FailFast(p) \/ PollTimeout(p) \/ StopWorker(p) \/ Crash(p)
      PROVE  Goal
  BY <1>2, Leaving DEF MarkFailed, FailFast, PollTimeout, StopWorker, Crash
<1>3. ASSUME NEW p \in Proc, ApplyCrypto(p) \/ InitializeBots(p) \/ StartupTasks(p)
      PROVE  Goal
  BY <1>3, Moving, Leaving DEF ApplyCrypto, InitializeBots, StartupTasks, PastBarrier
<1>4. ASSUME NEW p \in Proc, MarkDone(p) PROVE Goal
  <2>1. MemberStatus(p)' = "through" /\ MemberStatus(p) = "outside"
    BY <1>4 DEF MarkDone, Goto, TypeOK, MemberStatus, PastBarrier
  <2>2. \A q \in Proc \ {p} : pc'[q] = pc[q] /\ baseline'[q] = baseline[q]
    BY <1>4 DEF MarkDone, Goto, TypeOK
  <2>3. MemberStatuses' = [MemberStatuses EXCEPT ![p] = "through"]
    BY <2>1, <2>2, OneMember
  <2>4. Barrier!Complete(p)
    BY <1>4, <2>1, <2>3 DEF MarkDone, Barrier!Complete, MemberStatuses
  <2> QED BY <2>4
<1>5. ASSUME NEW p \in Proc, PollRunning(p) PROVE Goal
  BY <1>5, Waiting DEF PollRunning
<1>6. ASSUME NEW p \in Proc, PollFailed(p) PROVE Goal
  <2>1. CASE ~(NewCycle(p) \/ failedSeen[p])
    BY <1>6, <2>1, Waiting DEF PollFailed
  <2>2. CASE NewCycle(p) \/ failedSeen[p]
    <3>1. UNCHANGED <<baseline, dones, doneSeen>>
      BY <1>6, <2>2, LeavingPoll DEF PollFailed
    <3> QED BY <1>6, <2>2, <3>1, Leaving DEF PollFailed
  <2> QED BY <2>1, <2>2
<1>7. ASSUME NEW p \in Proc, PollDone(p) PROVE Goal
  <2>1. CASE ~NewCycle(p)
    BY <1>7, <2>1, Waiting DEF PollDone
  <2>2. CASE NewCycle(p)
    <3>1. /\ baseline[p] # Unset /\ UNCHANGED <<baseline, dones, doneSeen>>
          /\ dones > doneSeen[p]
      BY <1>7, <2>2, LeavingPoll DEF PollDone, Polling, FreshInv
    <3>2. MemberStatus(p)' = "through" /\ MemberStatus(p) = "waiting"
      BY <1>7, <2>2, <3>1 DEF PollDone, Polling, Goto, TypeOK, MemberStatus, PastBarrier
    <3>3. MemberStatuses' = [MemberStatuses EXCEPT ![p] = "through"]
      BY <1>7, <2>2, <3>1, <3>2, OneMember DEF PollDone, Goto, TypeOK
    <3>4. Barrier!Release(p)
      BY <3>1, <3>2, <3>3 DEF Barrier!Release, MemberStatuses
    <3> QED BY <3>4
  <2> QED BY <2>1, <2>2
<1>8. ASSUME NEW p \in Proc, LoopTick(p) \/ LeaseExpire(p) PROVE Goal
  BY <1>8 DEF LoopTick, LeaseExpire, MemberStatuses, MemberStatus
<1>9. ASSUME NEW m \in Master, Shutdown(m) PROVE Goal
  BY <1>9 DEF Shutdown, MemberStatuses, MemberStatus
<1>10. CASE UNCHANGED vars
  BY <1>10 DEF vars, MemberStatuses, MemberStatus
<1> QED
  BY <1>1, <1>2, <1>3, <1>4, <1>5, <1>6, <1>7, <1>8, <1>9, <1>10
  DEF Next, OwnStep, LeadStep, Poll, AfterBarrierStep

(* The bootstrap implements the abstract barrier, whatever was left in the *)
(* row, whoever crashes and whatever lease expires.                        *)
THEOREM BootstrapRefinesBarrier == Spec => RefinesBarrier
<1>1. Init => Barrier!BarrierInit /\ ArrivedInv
  BY DEF Init, Barrier!BarrierInit, MemberStatus, PastBarrier, ArrivedInv
<1>2. TypeOK /\ ArrivedInv /\ [Next]_vars => ArrivedInv'
  BY NextArrivedInv
<1>3. TypeOK /\ FreshInv /\ ArrivedInv /\ [Next]_vars => [Barrier!BarrierNext]_(Barrier!bvars)
  BY StepRefines DEF Barrier!bvars, MemberStatuses
<1>4. Init => FreshInv
  BY InitFreshInv
<1>5. TypeOK /\ TypeOK' /\ FreshInv /\ [Next]_vars => FreshInv'
  BY NextFreshInv
<1> QED
  BY <1>1, <1>2, <1>3, <1>4, <1>5, TypeCorrect, PTL
  DEF Spec, RefinesBarrier, Barrier!BarrierSpec
================================================================================
