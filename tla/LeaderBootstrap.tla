---------------------------- MODULE LeaderBootstrap ----------------------------
(***************************************************************************)
(* Start-up of the worker processes of Thaum (bootstrap.py,                *)
(* thaum/leader_bootstrap.py, thaum/leader_init.py, thaum/fatal.py).       *)
(*                                                                         *)
(* Every Gunicorn worker imports app.py and so runs bootstrap() by itself. *)
(* The workers share a database: the election tables of gemstone_utils (a  *)
(* library outside this repository, modelled from its use) and one row of  *)
(* schema_leader_init_status, the barrier.  The worker that finds itself   *)
(* leader runs the one-shot init tasks; the others poll the row.  A worker *)
(* that raises sends SIGTERM to its Gunicorn master, which stops all of    *)
(* that master's workers.                                                  *)
(*                                                                         *)
(* A member of Proc is one operating-system process: it starts once.  A    *)
(* respawned worker, or a worker of the next deployment, is another member *)
(* of Proc; MasterOf tells which Gunicorn master it belongs to.            *)
(***************************************************************************)
EXTENDS Integers

CONSTANTS
  Proc,       \* worker processes, over the whole history considered
  NoProc,     \* stands for "no leader recorded"
  Master,     \* Gunicorn masters (deployments; they may overlap)
  MasterOf,   \* the master of each process
  Leftover,   \* barrier rows an earlier deployment may have left
  Crashy,     \* processes that may die at any point
  Failing,    \* processes whose tasks or bot initialisation may raise
  TimeoutsHappen  \* whether leader_init_wait_timeout_seconds may elapse

RowState == {"absent", "idle", "running", "done", "failed"}
Row == [ticket : Nat, state : RowState]
NoRow == [ticket |-> 0, state |-> "absent"]

ASSUME ConstantsAssumption ==
  /\ NoProc \notin Proc
  /\ MasterOf \in [Proc -> Master]
  /\ Leftover \subseteq Row
  /\ Crashy \subseteq Proc
  /\ Failing \subseteq Proc
  /\ TimeoutsHappen \in BOOLEAN

VARIABLES
  pc,          \* where each process is in bootstrap()
  candidates,  \* processes registered with the election
  fresh,       \* processes whose last heartbeat is within the lease
  leader,      \* the leader the election has recorded
  row,         \* the singleton LeaderInitStatus row
  baseline,    \* first barrier_ticket a follower observed, or Unset
  sawRunning,  \* whether a follower observed RUNNING
  failedSeen,  \* whether a follower has noted FAILED at its baseline
  keySlots,    \* rows of gemstone_key_kdf (each with its active DEK)
  stopping,    \* masters that received SIGTERM
  dones,       \* history: how often DONE was written
  doneSeen,    \* history: value of dones at a follower's first poll
  outrun       \* history: processes whose lease ran out on the way to, or in, the tasks

electionVars == <<candidates, fresh, leader>>
pollVars == <<baseline, sawRunning, failedSeen>>
history == <<dones, doneSeen, outrun>>
vars == <<pc, candidates, fresh, leader, row, baseline, sawRunning, failedSeen,
          keySlots, stopping, dones, doneSeen, outrun>>

Unset == -1

InitSection == {"lead", "vaultCheck", "vaultInsert", "preload", "finishing", "failing"}
(* Where a process relies on the lease of its only heartbeat.              *)
Leading == InitSection \cup {"joined", "elected"}
PastBarrier == {"crypto", "bots", "startup", "up"}
Location == {"off", "joined", "elected", "wait", "fatal", "dead"}
              \cup InitSection \cup PastBarrier

Ended == {"off", "dead"}
Goto(p, where) == pc' = [pc EXCEPT ![p] = where]

Init ==
  /\ pc = [p \in Proc |-> "off"]
  /\ candidates = {} /\ fresh = {} /\ leader = NoProc
  /\ row \in Leftover
  /\ baseline = [p \in Proc |-> Unset]
  /\ sawRunning = [p \in Proc |-> FALSE]
  /\ failedSeen = [p \in Proc |-> FALSE]
  /\ keySlots \in {0, 1}
  /\ stopping = {}
  /\ dones = 0
  /\ doneSeen = [p \in Proc |-> 0]
  /\ outrun = {}

--------------------------------------------------------------------------------
(* The election: register, heartbeat, elect, is_leader.                    *)

(* election.elect: a registered leader with a fresh heartbeat stays;       *)
(* otherwise the call records some registered candidate with a fresh one.  *)
ElectOutcome(registered, alive) ==
  LET eligible == registered \cap alive
  IN  IF leader \in eligible THEN {leader}
      ELSE IF eligible # {} THEN eligible ELSE {NoProc}

(* A worker reaches run_leader_bootstrap_phase, registers and beats once.  *)
Join(p) ==
  /\ pc[p] = "off"
  /\ MasterOf[p] \notin stopping
  /\ Goto(p, "joined")
  /\ candidates' = candidates \cup {p}
  /\ fresh' = fresh \cup {p}
  /\ UNCHANGED <<leader, row, pollVars, keySlots, stopping, history>>

Elect(p) ==
  /\ pc[p] = "joined"
  /\ leader' \in ElectOutcome(candidates, fresh)
  /\ Goto(p, "elected")
  /\ UNCHANGED <<candidates, fresh, row, pollVars, keySlots, stopping, history>>

(* Mutant: the return value of elect, some leader's id, taken as "I lead". *)
CheckLeaderTruthy(p) ==
  /\ pc[p] = "elected"
  /\ Goto(p, IF leader # NoProc THEN "lead" ELSE "wait")
  /\ UNCHANGED <<electionVars, row, pollVars, keySlots, stopping, history>>

(* election.is_leader decides the branch: run the tasks, or wait.          *)
CheckLeader(p) ==
  /\ pc[p] = "elected"
  /\ Goto(p, IF leader = p THEN "lead" ELSE "wait")
  /\ UNCHANGED <<electionVars, row, pollVars, keySlots, stopping, history>>

(* Nothing renews a lease during bootstrap: the single heartbeat of Join   *)
(* ages, and the init tasks may well outlive it.                           *)
LeaseExpire(p) ==
  /\ p \in fresh
  /\ fresh' = fresh \ {p}
  /\ outrun' = outrun \cup ({p} \cap {q \in Proc : pc[q] \in Leading})
  /\ UNCHANGED <<pc, candidates, leader, row, pollVars, keySlots, stopping, dones, doneSeen>>

--------------------------------------------------------------------------------
(* The leader's path: RUNNING, the init tasks, DONE or FAILED.             *)

(* mark_leader_init_running creates the row when it is absent.             *)
MarkRunning(p) ==
  /\ pc[p] = "lead"
  /\ row' = [ticket |-> row.ticket + 1, state |-> "running"]
  /\ Goto(p, "vaultCheck")
  /\ UNCHANGED <<electionVars, pollVars, keySlots, stopping, history>>

(* ensure_vault_key_rows: look for a KEK slot; insert one when there is    *)
(* none; exactly one must be there after the commit.                       *)
VaultCheck(p) ==
  /\ pc[p] = "vaultCheck"
  /\ Goto(p, CASE keySlots = 0 -> "vaultInsert"
               [] keySlots = 1 -> "preload"
               [] OTHER        -> "failing")
  /\ UNCHANGED <<electionVars, row, pollVars, keySlots, stopping, history>>

(* The insert that follows an empty look commits, or fails on a conflict   *)
(* with a slot committed meanwhile and is tried again from the look.       *)
VaultInsert(p) ==
  /\ pc[p] = "vaultInsert"
  /\ \/ keySlots' = keySlots + 1
     \/ keySlots > 0 /\ UNCHANGED keySlots
  /\ Goto(p, "vaultCheck")
  /\ UNCHANGED <<electionVars, row, pollVars, stopping, history>>

(* The second registered task: atlassian_preload_teams, or nothing.        *)
PreloadTeams(p) ==
  /\ pc[p] = "preload"
  /\ Goto(p, "finishing")
  /\ UNCHANGED <<electionVars, row, pollVars, keySlots, stopping, history>>

(* A task raises: the tasks after it are skipped.                          *)
TaskFails(p) ==
  /\ p \in Failing
  /\ pc[p] \in {"vaultCheck", "vaultInsert", "preload"}
  /\ Goto(p, "failing")
  /\ UNCHANGED <<electionVars, row, pollVars, keySlots, stopping, history>>

(* Mutant: a state word no reader of the row knows.                        *)
MarkDoneMisspelt(p) ==
  /\ pc[p] = "finishing"
  /\ row' = [row EXCEPT !.state = "complete"]
  /\ dones' = dones + 1
  /\ Goto(p, "crypto")
  /\ UNCHANGED <<electionVars, pollVars, keySlots, stopping, doneSeen, outrun>>

MarkDone(p) ==
  /\ pc[p] = "finishing"
  /\ row' = [row EXCEPT !.state = "done"]
  /\ dones' = dones + 1
  /\ Goto(p, "crypto")
  /\ UNCHANGED <<electionVars, pollVars, keySlots, stopping, doneSeen, outrun>>

(* Mutant: DONE written in a "finally", also after a failed task.          *)
MarkFailedAsDone(p) ==
  /\ pc[p] = "failing"
  /\ row' = [row EXCEPT !.state = "done"]
  /\ Goto(p, "fatal")
  /\ UNCHANGED <<electionVars, pollVars, keySlots, stopping, history>>

MarkFailed(p) ==
  /\ pc[p] = "failing"
  /\ row' = [row EXCEPT !.state = "failed"]
  /\ Goto(p, "fatal")
  /\ UNCHANGED <<electionVars, pollVars, keySlots, stopping, history>>

--------------------------------------------------------------------------------
(* The follower's path: wait_for_leader_init_barrier, one action per poll. *)

Polling(p) == pc[p] = "wait" /\ row.state # "absent"
BaseTicket(p) == IF baseline[p] = Unset THEN row.ticket ELSE baseline[p]
(* Mutant: DONE at the baseline is accepted.                               *)
NewCycleAtBaseline(p) == row.ticket >= BaseTicket(p)

NewCycle(p) == row.ticket > BaseTicket(p) \/ sawRunning[p]

(* Every poll that finds the row notes the baseline the first time.        *)
NoteBaseline(p) ==
  /\ baseline' = [baseline EXCEPT ![p] = BaseTicket(p)]
  /\ doneSeen' = IF baseline[p] = Unset THEN [doneSeen EXCEPT ![p] = dones] ELSE doneSeen

(* Mutant: a follower goes on as soon as the leader has started.           *)
PollRunningReleases(p) ==
  /\ Polling(p) /\ row.state = "running"
  /\ NoteBaseline(p)
  /\ Goto(p, "crypto")
  /\ UNCHANGED <<electionVars, row, sawRunning, failedSeen, keySlots, stopping, dones, outrun>>

PollRunning(p) ==
  /\ Polling(p) /\ row.state = "running"
  /\ NoteBaseline(p)
  /\ sawRunning' = [sawRunning EXCEPT ![p] = TRUE]
  /\ failedSeen' = [failedSeen EXCEPT ![p] = FALSE]
  /\ UNCHANGED <<pc, electionVars, row, keySlots, stopping, dones, outrun>>

(* FAILED of a new cycle raises at once; FAILED at the baseline is noted,  *)
(* and raises when a poll two seconds later still finds it.                *)
PollFailed(p) ==
  /\ Polling(p) /\ row.state = "failed"
  /\ NoteBaseline(p)
  /\ IF NewCycle(p) \/ failedSeen[p]
     THEN Goto(p, "fatal") /\ UNCHANGED failedSeen
     ELSE failedSeen' = [failedSeen EXCEPT ![p] = TRUE] /\ UNCHANGED pc
  /\ UNCHANGED <<electionVars, row, sawRunning, keySlots, stopping, dones, outrun>>

PollDone(p) ==
  /\ Polling(p) /\ row.state = "done"
  /\ NoteBaseline(p)
  /\ IF NewCycle(p) THEN Goto(p, "crypto") ELSE UNCHANGED pc
  /\ UNCHANGED <<electionVars, row, sawRunning, failedSeen, keySlots, stopping,
                 dones, outrun>>

(* Mutant: the deadline is only looked at after the row was found.         *)
PollTimeoutWithRow(p) ==
  /\ TimeoutsHappen
  /\ Polling(p)
  /\ Goto(p, "fatal")
  /\ UNCHANGED <<electionVars, row, pollVars, keySlots, stopping, history>>

PollTimeout(p) ==
  /\ TimeoutsHappen
  /\ pc[p] = "wait"
  /\ Goto(p, "fatal")
  /\ UNCHANGED <<electionVars, row, pollVars, keySlots, stopping, history>>

Poll(p) == PollRunning(p) \/ PollFailed(p) \/ PollDone(p)

--------------------------------------------------------------------------------
(* After the barrier, and the ways a process ends.                         *)

(* wire_database_crypto raises unless there is exactly one KEK slot.       *)
ApplyCrypto(p) ==
  /\ pc[p] = "crypto"
  /\ Goto(p, IF keySlots = 1 THEN "bots" ELSE "fatal")
  /\ UNCHANGED <<electionVars, row, pollVars, keySlots, stopping, history>>

InitializeBots(p) ==
  /\ pc[p] = "bots"
  /\ \/ Goto(p, "startup")
     \/ p \in Failing /\ Goto(p, "fatal")
  /\ UNCHANGED <<electionVars, row, pollVars, keySlots, stopping, history>>

(* The leader of this moment also runs the run_on_startup tasks.           *)
StartupTasks(p) ==
  /\ pc[p] = "startup"
  /\ \/ Goto(p, "up")
     \/ p \in Failing /\ leader = p /\ Goto(p, "fatal")
  /\ UNCHANGED <<electionVars, row, pollVars, keySlots, stopping, history>>

(* One turn of the leader loop of a serving worker: heartbeat and elect.   *)
LoopTick(p) ==
  /\ pc[p] = "up"
  /\ fresh' = fresh \cup {p}
  /\ leader' \in ElectOutcome(candidates, fresh')
  /\ UNCHANGED <<pc, candidates, row, pollVars, keySlots, stopping, history>>

(* fail_fast_fatal: the exception leaves bootstrap(), the master gets      *)
(* SIGTERM.  Nothing unregisters the candidate.                            *)
FailFast(p) ==
  /\ pc[p] = "fatal"
  /\ stopping' = stopping \cup {MasterOf[p]}
  /\ Goto(p, "dead")
  /\ UNCHANGED <<electionVars, row, pollVars, keySlots, history>>

(* The operator, or an orchestrator, stops a deployment.                   *)
Shutdown(m) ==
  /\ m \notin stopping
  /\ stopping' = stopping \cup {m}
  /\ UNCHANGED <<pc, electionVars, row, pollVars, keySlots, history>>

(* A stopping master ends its workers; only a serving one that exits in    *)
(* order unregisters (the atexit hook of start_leader_loop).               *)
StopWorker(p) ==
  /\ MasterOf[p] \in stopping
  /\ pc[p] \notin Ended
  /\ Goto(p, "dead")
  /\ \/ UNCHANGED candidates
     \/ pc[p] = "up" /\ candidates' = candidates \ {p}
  /\ UNCHANGED <<fresh, leader, row, pollVars, keySlots, stopping, history>>

Crash(p) ==
  /\ p \in Crashy
  /\ pc[p] \notin Ended
  /\ Goto(p, "dead")
  /\ UNCHANGED <<electionVars, row, pollVars, keySlots, stopping, history>>

LeadStep(p) ==
  \/ MarkRunning(p) \/ VaultCheck(p) \/ VaultInsert(p) \/ PreloadTeams(p)
  \/ MarkDone(p) \/ MarkFailed(p)

AfterBarrierStep(p) == ApplyCrypto(p) \/ InitializeBots(p) \/ StartupTasks(p) \/ FailFast(p)

(* bootstrap() is one thread: at most one of these is enabled at a time.   *)
OwnStep(p) == Elect(p) \/ CheckLeader(p) \/ LeadStep(p) \/ Poll(p) \/ AfterBarrierStep(p)

Next ==
  \/ \E p \in Proc :
       \/ Join(p) \/ OwnStep(p) \/ TaskFails(p) \/ PollTimeout(p)
       \/ LoopTick(p) \/ LeaseExpire(p) \/ StopWorker(p) \/ Crash(p)
  \/ \E m \in Master : Shutdown(m)

(* A started process keeps taking its own steps; deadlines pass; a master  *)
(* that stops ends its workers.  Nothing makes a process start, a lease    *)
(* expire, a task fail or an operator stop a deployment.                   *)
Fairness ==
  \A p \in Proc :
    /\ WF_vars(OwnStep(p))
    /\ WF_vars(PollTimeout(p))
    /\ WF_vars(StopWorker(p))

Spec == Init /\ [][Next]_vars
FairSpec == Spec /\ Fairness

--------------------------------------------------------------------------------
(* Properties.                                                             *)

(* Every variable stays in its type: in particular the barrier row is a    *)
(* ticket with one of the four states, and a baseline is a ticket.         *)
TypeOK ==
  /\ pc \in [Proc -> Location]
  /\ candidates \subseteq Proc
  /\ fresh \subseteq Proc
  /\ leader \in Proc \cup {NoProc}
  /\ row \in Row
  /\ baseline \in [Proc -> Nat \cup {Unset}]
  /\ sawRunning \in [Proc -> BOOLEAN]
  /\ failedSeen \in [Proc -> BOOLEAN]
  /\ keySlots \in Nat
  /\ stopping \subseteq Master
  /\ dones \in Nat
  /\ doneSeen \in [Proc -> Nat]
  /\ outrun \subseteq Proc

(* A follower leaves wait_for_leader_init_barrier only after some leader   *)
(* wrote DONE later than the follower's first look at the row: a row left  *)
(* by an earlier deployment never releases it (the reason for baseline and *)
(* saw_running in leader_init.py).                                         *)
PassOnlyOnFreshDone ==
  \A p \in Proc :
    pc[p] \in PastBarrier /\ baseline[p] # Unset => dones > doneSeen[p]

(* A process that is about to wire its encryption finds a KEK slot: a row  *)
(* left behind, a failed task, a leader that dies half-way, or one that    *)
(* outlived its lease and writes DONE over its successor's RUNNING, never  *)
(* releases it into a database without keys.                               *)
KeysReady ==
  \A p \in Proc : pc[p] \in PastBarrier => keySlots >= 1

(* At most one process runs the one-shot init tasks at a time: whenever    *)
(* two do, one of them has outlived the lease of its only heartbeat.  That *)
(* the code allows, for the tasks have no deadline.                        *)
SingleInit ==
  \A p, q \in Proc :
    pc[p] \in InitSection /\ pc[q] \in InitSection => p = q \/ p \in outrun \/ q \in outrun

(* The database gets a second KEK slot, which no process could start with  *)
(* again (database_crypto.py, _single_kek_slot), only after a leader has   *)
(* outlived its lease.                                                     *)
OneKeySlot == outrun = {} => keySlots <= 1

(* Until a leader outlives its lease, wiring the encryption never ends a   *)
(* process: whoever leads, crashes or is elected next, each process that   *)
(* gets past the barrier finds exactly the one KEK slot _single_kek_slot   *)
(* asks for.  With it the keys are what DatabaseKeys begins with.          *)
WiringSucceeds ==
  [][\A p \in Proc :
       pc[p] = "crypto" /\ pc'[p] # "crypto" /\ outrun = {} => pc'[p] \in {"bots", "dead"}]_vars

(* Every process that joins the election ends up serving or dead: the wait *)
(* of a follower ends even when no leader ever writes the row.             *)
Decided == \A p \in Proc : pc[p] = "joined" ~> pc[p] \in {"up", "dead"}

(* A follower that waits while the row says DONE, written by a leader of   *)
(* this history, is let go without its deadline.                           *)
DoneReleasesWaiters ==
  \A p \in Proc :
    (pc[p] = "wait" /\ row.state = "done" /\ dones > 0) ~> pc[p] # "wait"

(* The bootstrap implements the abstract barrier: a member arrives with    *)
(* its first poll, is through when it leaves the barrier or marks DONE,    *)
(* and is gone when it raises or dies.                                     *)
MemberStatus(p) ==
  IF pc[p] \in {"fatal", "dead"} THEN "gone"
  ELSE IF pc[p] \in PastBarrier THEN "through"
  ELSE IF pc[p] = "wait" /\ baseline[p] # Unset THEN "waiting"
  ELSE "outside"

Barrier == INSTANCE InitBarrier WITH
             Member <- Proc,
             status <- [p \in Proc |-> MemberStatus(p)],
             epoch <- dones,
             arrival <- doneSeen

(* Every step of the bootstrap is a step of the abstract barrier or leaves *)
(* it unchanged.                                                           *)
RefinesBarrier == Barrier!BarrierSpec
================================================================================
