------------------------------ MODULE WebexHooks ------------------------------
(***************************************************************************)
(* The webhooks of a Webex bot: the leader registers one per resource with *)
(* Webex, looks after them periodically and registers them anew when they  *)
(* are gone (bots/plugins/webex_bot.py, run by thaum/leader_service.py).   *)
(*                                                                         *)
(* A registration removes every webhook of the bot's address it finds and  *)
(* creates two; each is a call of the Webex API.  The task runs in the     *)
(* thread that renews the lease, at the start of the process and then in   *)
(* the leader loop, so a task that takes longer than the lease goes on     *)
(* while another process becomes the leader.  What may go wrong, a crash,  *)
(* a failing call, a lost lease or a webhook that Webex switches off, is   *)
(* recorded in mishaps.  Whether Webex accepts a second webhook for the    *)
(* same address and resource is not known from the code: it may.           *)
(***************************************************************************)
EXTENDS Naturals, FiniteSets, Sequences

CONSTANTS
  Worker,     \* processes
  Interval,   \* seconds between two runs of the task and between two probes
  Old,        \* webhooks that an earlier deployment may have left
  MaxMishaps, \* bound on the number of mishaps
  NoWorker

Resource == {"messages", "attachmentActions"}
Hook == [id : Nat, resource : Resource, url : {"http", "https"}, active : BOOLEAN]

ASSUME HooksAssumption ==
  /\ Interval \in Nat \ {0} /\ MaxMishaps \in Nat
  /\ Old \subseteq Hook /\ IsFiniteSet(Old)
  /\ NoWorker \notin Worker

VARIABLES
  hooks,     \* the webhooks Webex has for the bot's address
  leader,    \* who holds the lease
  ids,       \* _webhook_ids of each process: two ids, or none
  task,      \* the maintenance task of each process
  runAge,    \* time since the task ran last, capped
  probeAge,  \* time since _last_probe_monotonic, capped
  mishaps    \* how much went wrong so far, and whether only in the ways
             \* that leave a single leader whose calls succeed

vars == <<hooks, leader, ids, task, runAge, probeAge, mishaps>>

Age == 0..Interval
Stage == {"down", "idle", "probe", "check", "list", "prune", "second"}
Task == [stage : Stage, startup : BOOLEAN, todo : SUBSET Nat, check : Seq(Nat), first : Nat]
At(stage, startup) == [stage |-> stage, startup |-> startup, todo |-> {}, check |-> <<>>, first |-> 0]

TypeOK ==
  /\ hooks \subseteq Hook
  /\ leader \in Worker \cup {NoWorker}
  /\ \A w \in Worker : ids[w] \in Seq(Nat) /\ Len(ids[w]) \in {0, 2}
  /\ \A w \in Worker : /\ task[w].stage \in Stage /\ task[w].startup \in BOOLEAN
                       /\ task[w].todo \subseteq Nat /\ task[w].check \in Seq(Nat)
  /\ runAge \in [Worker -> Age] /\ probeAge \in [Worker -> Age]
  /\ mishaps \in [number : 0..MaxMishaps, benign : BOOLEAN]

Init ==
  /\ hooks \in SUBSET Old
  /\ leader = NoWorker
  /\ ids = [w \in Worker |-> <<>>]
  /\ task = [w \in Worker |-> At("down", FALSE)]
  /\ runAge = [w \in Worker |-> 0]
  /\ probeAge = [w \in Worker |-> 0]
  /\ mishaps = [number |-> 0, benign |-> TRUE]

Mishap(kind) ==
  /\ mishaps.number < MaxMishaps
  /\ mishaps' = [number |-> mishaps.number + 1,
                 benign |-> mishaps.benign /\ kind \in {"crash", "disable"}]

(* An id Webex has not given to a webhook anybody still knows of.          *)
Remembered(w) ==
  task[w].todo \cup {task[w].first} \cup {ids[w][i] : i \in DOMAIN ids[w]}
    \cup {task[w].check[i] : i \in DOMAIN task[w].check}
Known == {h.id : h \in hooks} \cup (UNION {Remembered(w) : w \in Worker})
OldId == {h.id : h \in Old}
NewId == CHOOSE i \in 0..Cardinality(Known \cup OldId) : i \notin Known \cup OldId

-----------------------------------------------------------------------------
(* The task begins.                                                        *)

(* A process starts.  The leader runs the task before it serves, as a      *)
(* startup task.  Uptime is monotonic time: how long ago the task ran is   *)
(* whatever the uptime of the host is.                                     *)
Start(w) ==
  /\ task[w].stage = "down"
  /\ leader' = IF leader = NoWorker THEN w ELSE leader
  /\ task' = [task EXCEPT ![w] = IF leader' = w THEN At("probe", TRUE) ELSE At("idle", FALSE)]
  /\ \E uptime \in Age : runAge' = [runAge EXCEPT ![w] = uptime]
  /\ probeAge' = [probeAge EXCEPT ![w] = Interval]
  /\ UNCHANGED <<hooks, ids, mishaps>>

(* A tick of the leader loop finds the lease free.                         *)
Elected(w) ==
  /\ task[w].stage = "idle" /\ leader = NoWorker
  /\ leader' = w
  /\ UNCHANGED <<hooks, ids, task, runAge, probeAge, mishaps>>

(* A tick of the leader loop finds the task due.                           *)
RunDue(w) ==
  /\ task[w].stage = "idle" /\ leader = w
  /\ runAge[w] = Interval
  /\ task' = [task EXCEPT ![w] = At("probe", FALSE)]
  /\ runAge' = [runAge EXCEPT ![w] = 0]
  /\ UNCHANGED <<hooks, leader, ids, probeAge, mishaps>>

Finished(w) == At("idle", FALSE)

(* An exception leaves the task: logged in the loop, fatal at the start.   *)
Raised(w) == IF task[w].startup THEN At("down", FALSE) ELSE At("idle", FALSE)
Lease(w) == IF task[w].startup /\ leader = w THEN NoWorker ELSE leader

-----------------------------------------------------------------------------
(* _probe_webhook_status.                                                  *)

ProbeTooEarly(w) ==
  /\ task[w].stage = "probe" /\ probeAge[w] < Interval
  /\ task' = [task EXCEPT ![w] = Finished(w)]
  /\ UNCHANGED <<hooks, leader, ids, runAge, probeAge, mishaps>>

ProbeBegins(w) ==
  /\ task[w].stage = "probe" /\ probeAge[w] = Interval
  /\ probeAge' = [probeAge EXCEPT ![w] = 0]
  /\ task' = [task EXCEPT ![w].stage = IF ids[w] = <<>> THEN "list" ELSE "check",
                          ![w].check = ids[w]]
  /\ UNCHANGED <<hooks, leader, ids, runAge, mishaps>>

(* Mutant: a webhook that is there is taken for good.                      *)
Present(id) == \E h \in hooks : h.id = id /\ h.url = "https"

(* The webhook is there, has the bot's address and is active.              *)
Good(id) == \E h \in hooks : h.id = id /\ h.url = "https" /\ h.active

CheckPasses(w) ==
  /\ task[w].stage = "check" /\ Good(Head(task[w].check))
  /\ task' = [task EXCEPT ![w] = IF Len(task[w].check) = 1 THEN Finished(w)
                                 ELSE [task[w] EXCEPT !.check = Tail(task[w].check)]]
  /\ UNCHANGED <<hooks, leader, ids, runAge, probeAge, mishaps>>

(* It is not, or the call fails: the webhooks are registered anew.         *)
CheckFails(w) ==
  /\ task[w].stage = "check"
  /\ (~Good(Head(task[w].check)) /\ UNCHANGED mishaps) \/ Mishap("call")
  /\ ids' = [ids EXCEPT ![w] = <<>>]
  /\ task' = [task EXCEPT ![w].stage = "list", ![w].check = <<>>]
  /\ UNCHANGED <<hooks, leader, runAge, probeAge>>

-----------------------------------------------------------------------------
(* register_bot_webhook.                                                   *)

(* Mutants: only webhooks with the very same address are found; none is.   *)
MatchesExactly(h) == h.url = "https"
MatchesNone(h) == FALSE

(* The address without its protocol is the same: all webhooks considered.  *)
MatchesTarget(h) == h.url \in {"http", "https"}

List(w) ==
  /\ task[w].stage = "list"
  /\ \/ /\ task' = [task EXCEPT ![w].stage = "prune",
                                ![w].todo = {h.id : h \in {g \in hooks : MatchesTarget(g)}}]
        /\ UNCHANGED mishaps
     \/ /\ Mishap("call")
        /\ task' = [task EXCEPT ![w].stage = "prune"]
  /\ UNCHANGED <<hooks, leader, ids, runAge, probeAge>>

Delete(w) ==
  /\ task[w].stage = "prune"
  /\ \E id \in task[w].todo \cap {h.id : h \in hooks} :
       /\ hooks' = {h \in hooks : h.id # id}
       /\ task' = [task EXCEPT ![w].todo = @ \ {id}]
  /\ UNCHANGED <<leader, ids, runAge, probeAge, mishaps>>

(* Deleting a webhook that is gone, or any call that fails, ends the       *)
(* pruning; the registration goes on.                                      *)
DeleteFails(w) ==
  /\ task[w].stage = "prune" /\ task[w].todo # {}
  /\ (~(task[w].todo \subseteq {h.id : h \in hooks}) /\ UNCHANGED mishaps) \/ Mishap("call")
  /\ task' = [task EXCEPT ![w].todo = {}]
  /\ UNCHANGED <<hooks, leader, ids, runAge, probeAge>>

Wanted(w) == IF task[w].stage = "second" THEN "attachmentActions" ELSE "messages"
Creating(w) == task[w].stage = "second" \/ (task[w].stage = "prune" /\ task[w].todo = {})

(* Webex may refuse a second webhook for the address and resource.         *)
MayRefuse(w) == \E h \in hooks : h.url = "https" /\ h.resource = Wanted(w)
WithHook(w) == hooks \cup {[id |-> NewId, resource |-> Wanted(w), url |-> "https", active |-> TRUE]}

CreateFirst(w) ==
  /\ task[w].stage = "prune" /\ task[w].todo = {}
  /\ hooks' = WithHook(w)
  /\ task' = [task EXCEPT ![w].stage = "second", ![w].first = NewId]
  /\ UNCHANGED <<leader, ids, runAge, probeAge, mishaps>>

(* Mutant: one id is remembered.                                           *)
RemembersOne(w) ==
  /\ task[w].stage = "second"
  /\ hooks' = WithHook(w)
  /\ ids' = [ids EXCEPT ![w] = <<NewId>>]
  /\ task' = [task EXCEPT ![w] = Finished(w)]
  /\ UNCHANGED <<leader, runAge, probeAge, mishaps>>

CreateSecond(w) ==
  /\ task[w].stage = "second"
  /\ hooks' = WithHook(w)
  /\ ids' = [ids EXCEPT ![w] = <<task[w].first, NewId>>]
  /\ task' = [task EXCEPT ![w] = Finished(w)]
  /\ UNCHANGED <<leader, runAge, probeAge, mishaps>>

(* Webex refuses the webhook, or the call fails, or only its answer does;  *)
(* the exception leaves the task, and a first webhook stays.               *)
CreateFails(w) ==
  /\ Creating(w)
  /\ \/ MayRefuse(w) /\ UNCHANGED <<hooks, mishaps>>
     \/ Mishap("call") /\ hooks' \in {hooks, WithHook(w)}
  /\ task' = [task EXCEPT ![w] = Raised(w)]
  /\ leader' = Lease(w)
  /\ UNCHANGED <<ids, runAge, probeAge>>

TaskStep(w) ==
  \/ ProbeTooEarly(w) \/ ProbeBegins(w) \/ CheckPasses(w) \/ CheckFails(w)
  \/ List(w) \/ Delete(w) \/ DeleteFails(w) \/ CreateFirst(w) \/ CreateSecond(w) \/ CreateFails(w)

-----------------------------------------------------------------------------
Crash(w) ==
  /\ task[w].stage # "down" /\ Mishap("crash")
  /\ task' = [task EXCEPT ![w] = At("down", FALSE)]
  /\ ids' = [ids EXCEPT ![w] = <<>>]
  /\ leader' = IF leader = w THEN NoWorker ELSE leader
  /\ UNCHANGED <<hooks, runAge, probeAge>>

(* The task takes longer than the lease.                                   *)
LeaseExpires ==
  /\ leader \in Worker /\ task[leader].stage \notin {"down", "idle"} /\ Mishap("lease")
  /\ leader' = NoWorker
  /\ UNCHANGED <<hooks, ids, task, runAge, probeAge>>

(* Webex switches off a webhook whose address did not answer.              *)
Disable ==
  /\ Mishap("disable")
  /\ \E h \in hooks : hooks' = (hooks \ {h}) \cup {[h EXCEPT !.active = FALSE]}
  /\ UNCHANGED <<leader, ids, task, runAge, probeAge>>

Older(age) == [w \in Worker |-> IF age[w] < Interval THEN age[w] + 1 ELSE Interval]

Tick ==
  /\ runAge' = Older(runAge) /\ probeAge' = Older(probeAge)
  /\ UNCHANGED <<hooks, leader, ids, task, mishaps>>

Next ==
  \/ \E w \in Worker : Start(w) \/ Elected(w) \/ RunDue(w) \/ TaskStep(w) \/ Crash(w)
  \/ LeaseExpires \/ Disable \/ Tick

Spec == Init /\ [][Next]_vars

(* The leader loop ticks for ever, a task ends, a process that died is     *)
(* started again, and time passes.                                         *)
Fairness ==
  /\ \A w \in Worker : /\ WF_vars(Start(w)) /\ WF_vars(TaskStep(w))
                       /\ WF_vars(Elected(w)) /\ WF_vars(RunDue(w))
  /\ WF_vars(Tick)

FairSpec == Spec /\ Fairness

-----------------------------------------------------------------------------
OfResource(r) == {h \in hooks : h.resource = r /\ h.active}

(* Whatever crashes, fails, expires or is switched off, the bot hears its  *)
(* messages and cards again in the end.                                    *)
HeardAgain == <>[](\A r \in Resource : OfResource(r) # {})

(* Leases outlived the tasks and no call failed so far.                    *)
OneLeader == mishaps.benign

(* As long as leases outlive the tasks and no call fails, never do two     *)
(* webhooks of this deployment deliver the same event, not even while a    *)
(* new leader takes over from one that died half-way.                      *)
NeverTwice ==
  OneLeader => \A h, g \in {k \in hooks : k.id \notin OldId} : h.resource = g.resource => h = g

(* app.py: leader election registers Webex webhooks once per deployment.   *)
(* Where leases outlive the tasks and no call fails, every event is in the *)
(* end delivered by exactly one webhook, whatever earlier deployments left *)
(* and whatever was switched off.                                          *)
OncePerDeployment ==
  []OneLeader => <>[](\A r \in Resource : Cardinality(OfResource(r)) = 1)
================================================================================
