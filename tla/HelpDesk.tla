-------------------------------- MODULE HelpDesk --------------------------------
(***************************************************************************)
(* What whoever asks a bot for help may rely on (create_incident_room,     *)
(* handle_actions), without events, threads, copies, deployments or        *)
(* implosions: somebody is paged only for a request that was made, into a  *)
(* room made ready for this page alone, and a card goes only when its      *)
(* request was paged for or has failed itself.                             *)
(***************************************************************************)
CONSTANTS Request, Card, Room

VARIABLES
  made,     \* requests made
  failed,   \* requests that something went wrong with, or that were refused
  ready,    \* rooms in which the summary was said
  pages,    \* who was paged for: room, request, urgency
  offered   \* cards on show, and cards taken away

dvars == <<made, failed, ready, pages, offered>>

DeskInit ==
  /\ made = {} /\ failed = {} /\ ready = {} /\ pages = {}
  /\ offered = [k \in Card |-> "none"]

Make(q) ==
  /\ q \notin made
  /\ made' = made \cup {q}
  /\ UNCHANGED <<failed, ready, pages, offered>>

Fail(q) ==
  /\ q \in made
  /\ failed' = failed \cup {q}
  /\ UNCHANGED <<made, ready, pages, offered>>

Prepare(r) ==
  /\ \A a \in pages : a.room # r
  /\ ready' = ready \cup {r}
  /\ UNCHANGED <<made, failed, pages, offered>>

PageIn(q, r, urgent) ==
  /\ q \in made /\ r \in ready
  /\ \A a \in pages : a.room # r
  /\ pages' = pages \cup {[room |-> r, of |-> q, urgent |-> urgent]}
  /\ UNCHANGED <<made, failed, ready, offered>>

Show(k) ==
  /\ k \in made
  /\ offered' = [offered EXCEPT ![k] = "shown"]
  /\ UNCHANGED <<made, failed, ready, pages>>

Withdraw(k) ==
  /\ k \in failed \/ \E a \in pages : a.of = k
  /\ offered' = [offered EXCEPT ![k] = "gone"]
  /\ UNCHANGED <<made, failed, ready, pages>>

DeskNext ==
  \/ \E q \in Request : Make(q) \/ Fail(q)
  \/ \E r \in Room : Prepare(r)
  \/ \E q \in Request, r \in Room, urgent \in BOOLEAN : PageIn(q, r, urgent)
  \/ \E k \in Card : Show(k) \/ Withdraw(k)

DeskSpec == DeskInit /\ [][DeskNext]_dvars
================================================================================
