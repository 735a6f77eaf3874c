------------------------------ MODULE InitBarrier ------------------------------
(***************************************************************************)
(* What the leader-init barrier of Thaum promises, without elections,      *)
(* database rows or polling: the workers that do not run the one-shot init *)
(* tasks themselves leave the barrier only after somebody completed a run  *)
(* of those tasks that was still incomplete when they arrived.             *)
(***************************************************************************)
EXTENDS Naturals

CONSTANT Member   \* the worker processes that come to the barrier

VARIABLES
  status,    \* where each member stands
  epoch,     \* completed runs of the init tasks
  arrival    \* value of epoch when a member arrived at the barrier

bvars == <<status, epoch, arrival>>

Status == {"outside", "waiting", "through", "gone"}

BarrierTypeOK ==
  /\ status \in [Member -> Status]
  /\ epoch \in Nat
  /\ arrival \in [Member -> Nat]

BarrierInit ==
  /\ status = [m \in Member |-> "outside"]
  /\ epoch = 0
  /\ arrival = [m \in Member |-> 0]

(* A follower looks at the barrier for the first time. *)
Arrive(m) ==
  /\ status[m] = "outside"
  /\ status' = [status EXCEPT ![m] = "waiting"]
  /\ arrival' = [arrival EXCEPT ![m] = epoch]
  /\ UNCHANGED epoch

(* The member that ran the init tasks completes them and is through itself. *)
Complete(m) ==
  /\ status[m] = "outside"
  /\ status' = [status EXCEPT ![m] = "through"]
  /\ epoch' = epoch + 1
  /\ UNCHANGED arrival

(* A waiting member is released by a completion later than its arrival. *)
Release(m) ==
  /\ status[m] = "waiting"
  /\ epoch > arrival[m]
  /\ status' = [status EXCEPT ![m] = "through"]
  /\ UNCHANGED <<epoch, arrival>>

(* A member fails, is stopped or dies, wherever it stands. *)
Leave(m) ==
  /\ status[m] # "gone"
  /\ status' = [status EXCEPT ![m] = "gone"]
  /\ UNCHANGED <<epoch, arrival>>

BarrierNext ==
  \E m \in Member : Arrive(m) \/ Complete(m) \/ Release(m) \/ Leave(m)

BarrierSpec == BarrierInit /\ [][BarrierNext]_bvars
================================================================================
