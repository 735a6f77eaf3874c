---------------------------- MODULE IncidentRooms ----------------------------
(***************************************************************************)
(* From a chat message to an incident room (bots/plugins/webex_bot.py,     *)
(* thaum/handlers.py, thaum/engine.py).  Somebody asks a bot for help, in  *)
(* one message or through a card the bot shows; a worker thread makes a    *)
(* room, invites the asker and the responders, tells the summary, raises   *)
(* the alert, and takes the card away.  Webex delivers an event late,      *)
(* never, or twice (over two webhooks); every call may fail; a room may be *)
(* deleted by the implode command while it is being filled; and the bot    *)
(* may be deployed anew with other settings while old cards are around.    *)
(*                                                                         *)
(* What the alert plugin does with an alert is in JiraAlerts, where the    *)
(* responders come from in TeamCache; texts are left out.                  *)
(***************************************************************************)
EXTENDS Naturals, FiniteSets

CONSTANTS
  Ask,        \* requests made in one message
  Card,       \* requests made through a card
  Thread,     \* threads of the workers
  Room,
  Foreign,    \* rooms the bot did not create
  Deploys,    \* whether the bot is deployed with other settings
  MaxEngine,  \* bound on the events that make a room, copies included
  MaxMishaps, \* bound on failures, losses and duplicates
  NoRoom

Request == Ask \cup Card

ASSUME RoomsAssumption ==
  /\ Ask \cap Card = {} /\ Foreign \subseteq Room /\ NoRoom \notin Room /\ Room # {}
  /\ Deploys \in BOOLEAN /\ MaxEngine \in Nat /\ MaxMishaps \in Nat
  /\ MaxEngine <= Cardinality(Room \ Foreign)

(* What Webex tells the bot of: "help" or "emergency" with a summary in    *)
(* one line, in more than one, or without, a card that is submitted, and   *)
(* "implode" in a room.                                                    *)
Told == {"summary"} \X Ask \X BOOLEAN
Rambled == {"lines"} \X Ask \X {FALSE}
Asked == {"prompt"} \X Card \X BOOLEAN
Submitted == {"submit"} \X Card \X BOOLEAN
Imploding == {"implode"} \X Room \X {FALSE}
Event == Told \cup Rambled \cup Asked \cup Submitted \cup Imploding
Kind(e) == e[1]
Of(e) == e[2]
Urgent(e) == e[3]

Invitee == {"speaker", "responders"}
RoomState == [at : {"unused", "open", "gone"}, invited : SUBSET Invitee, told : BOOLEAN]
Alert == [room : Room, of : Request, urgent : BOOLEAN]
Stage == {"idle", "prompt", "create", "invite", "tell", "page", "clean", "implode"}

VARIABLES
  high,    \* bot.high_pri_on of what is deployed
  card,    \* whether a card is shown, with the priority toggle or without
  inbox,   \* undelivered copies of each event
  room,
  alerts,  \* history: the alerts raised
  call,    \* handle_event in each thread
  asked,   \* history: the requests and implosions made
  excused, \* history: requests that were refused, or that a mishap hit
  posted,  \* how many events that make a room there have been
  mishaps

vars == <<high, card, inbox, room, alerts, call, asked, excused, posted, mishaps>>
history == <<asked, excused, posted>>

SomeEvent == CHOOSE e \in Event : TRUE
Idle == [at |-> "idle", event |-> SomeEvent, room |-> NoRoom]

Init ==
  /\ high \in BOOLEAN
  /\ card = [k \in Card |-> "none"]
  /\ inbox = [e \in Event |-> 0]
  /\ room = [r \in Room |-> [at |-> IF r \in Foreign THEN "open" ELSE "unused",
                             invited |-> {}, told |-> FALSE]]
  /\ alerts = {}
  /\ call = [t \in Thread |-> Idle]
  /\ asked = {}
  /\ excused = {}
  /\ posted = 0
  /\ mishaps = 0

Mishap == mishaps < MaxMishaps /\ mishaps' = mishaps + 1
Excuse(e) == excused' = excused \cup ({Of(e)} \cap Request)

(* Mutant: the card is taken away before the engine is called.             *)
CardFirst(e) ==
  CASE Kind(e) = "submit" -> "clean"
    [] Kind(e) \in {"prompt", "implode"} -> Kind(e)
    [] OTHER -> "create"

FirstStage(e) == IF Kind(e) \in {"prompt", "implode"} THEN Kind(e) ELSE "create"

Post(e) ==
  /\ inbox' = [inbox EXCEPT ![e] = @ + 1]
  /\ posted' = IF Kind(e) \in {"summary", "submit"} THEN posted + 1 ELSE posted
  /\ posted' <= MaxEngine

-----------------------------------------------------------------------------
(* People and Webex.                                                       *)

(* Implode is written by somebody who is in the room.                      *)
CanWrite(e) ==
  /\ Kind(e) # "submit" /\ Of(e) \notin asked
  /\ Kind(e) = "implode" =>
       room[Of(e)].at = "open" /\ (Of(e) \in Foreign \/ room[Of(e)].invited # {})

Write(e) ==
  /\ CanWrite(e)
  /\ Post(e)
  /\ asked' = asked \cup {Of(e)}
  /\ UNCHANGED <<high, card, room, alerts, call, excused, mishaps>>

(* A card is submitted as often as somebody does while it is shown.        *)
Submit(e) ==
  /\ Kind(e) = "submit" /\ card[Of(e)] \in {"plain", "toggle"}
  /\ Urgent(e) => card[Of(e)] = "toggle"
  /\ Post(e)
  /\ UNCHANGED <<high, card, room, alerts, call, asked, excused, mishaps>>

(* A second card for one request would be a request of its own.            *)
Duplicate(e) ==
  /\ inbox[e] > 0 /\ Kind(e) # "prompt" /\ Post(e) /\ Mishap
  /\ UNCHANGED <<high, card, room, alerts, call, asked, excused>>

(* Webex gives up, or a call fails before the event is dispatched: the     *)
(* answer is an error (web.py), and nothing is tried again.                *)
Lose(e) ==
  /\ inbox[e] > 0 /\ Mishap
  /\ inbox' = [inbox EXCEPT ![e] = @ - 1]
  /\ Excuse(e)
  /\ UNCHANGED <<high, card, room, alerts, call, asked, posted>>

(* A new deployment; the threads have finished what they were doing.       *)
Deploy ==
  /\ Deploys /\ \A t \in Thread : call[t].at = "idle"
  /\ high' = ~high
  /\ UNCHANGED <<card, inbox, room, alerts, call, history, mishaps>>

-----------------------------------------------------------------------------
(* handle_event.                                                           *)

(* Mutant: the emergency command has no route.                             *)
HearsHelpOnly(e) == ~(Kind(e) \in {"summary", "prompt"} /\ Urgent(e))

(* The routes of bind_thaum_handlers: "emergency" has one where high       *)
(* priority is enabled.  The patterns end in ".*$", which matches no line  *)
(* break, so a summary of several lines has no route at all.               *)
Hears(e) ==
  /\ Kind(e) # "lines"
  /\ Kind(e) \in {"summary", "prompt"} /\ Urgent(e) => high

(* The route of unknown commands, which answers.                           *)
Refused(e) == Kind(e) \in {"summary", "prompt"} /\ Urgent(e) /\ ~high

Deliver(t, e) ==
  /\ call[t].at = "idle" /\ inbox[e] > 0
  /\ inbox' = [inbox EXCEPT ![e] = @ - 1]
  /\ IF Hears(e)
     THEN /\ call' = [call EXCEPT ![t] = [at |-> FirstStage(e), event |-> e, room |-> NoRoom]]
          /\ UNCHANGED excused
     ELSE /\ IF Refused(e) THEN Excuse(e) ELSE UNCHANGED excused
          /\ UNCHANGED call
  /\ UNCHANGED <<high, card, room, alerts, asked, posted, mishaps>>

End(t) == call' = [call EXCEPT ![t] = Idle]
Goto(t, stage) == call' = [call EXCEPT ![t].at = stage]

(* The toggle is shown where high priority is enabled.                     *)
Shown == IF high THEN "toggle" ELSE "plain"

SendCard(t) ==
  /\ call[t].at = "prompt"
  /\ card' = [card EXCEPT ![Of(call[t].event)] = Shown]
  /\ End(t)
  /\ UNCHANGED <<high, inbox, room, alerts, history, mishaps>>

-----------------------------------------------------------------------------
(* Mutant: after any request a card is looked for.                         *)
LeftWithCard(t) == Goto(t, "clean")

(* create_incident_room; whatever raises in it is logged, and the handler  *)
(* of a card goes on to take the card away.                                *)
Left(t) == IF Kind(call[t].event) = "submit" THEN Goto(t, "clean") ELSE End(t)

CreateRoom(t) ==
  /\ call[t].at = "create"
  /\ \E r \in Room :
       /\ room[r].at = "unused"
       /\ room' = [room EXCEPT ![r].at = "open"]
       /\ call' = [call EXCEPT ![t].at = "invite", ![t].room = r]
  /\ UNCHANGED <<high, card, inbox, alerts, history, mishaps>>

(* add_members: one who cannot be added is logged and left out.            *)
AddMembers(t) ==
  /\ call[t].at = "invite"
  /\ \E who \in SUBSET Invitee :
       /\ (who = Invitee /\ UNCHANGED mishaps) \/ (who # Invitee /\ Mishap)
       /\ room' = [room EXCEPT ![call[t].room].invited = who]
  /\ Goto(t, "tell")
  /\ UNCHANGED <<high, card, inbox, alerts, history>>

(* Mutant: a message that cannot be said is logged, as a member is.        *)
TellsAnyway(r) == TRUE

(* A room that is gone takes no message.                                   *)
Tells(r) == room[r].at = "open"

TellSummary(t) ==
  /\ call[t].at = "tell" /\ Tells(call[t].room)
  /\ room' = [room EXCEPT ![call[t].room].told = (@ \/ room[call[t].room].at = "open")]
  /\ Goto(t, "page")
  /\ UNCHANGED <<high, card, inbox, alerts, history, mishaps>>

TellFails(t) ==
  /\ call[t].at = "tell" /\ ~Tells(call[t].room)
  /\ Left(t) /\ Excuse(call[t].event)
  /\ UNCHANGED <<high, card, inbox, room, alerts, asked, posted, mishaps>>

(* trigger_alert; what is said of it afterwards changes nothing, whether   *)
(* the room is still there or not.                                         *)
Page(t) ==
  /\ call[t].at = "page"
  /\ alerts' = alerts \cup {[room |-> call[t].room, of |-> Of(call[t].event),
                             urgent |-> Urgent(call[t].event)]}
  /\ Left(t)
  /\ UNCHANGED <<high, card, inbox, room, history, mishaps>>

(* A call to Webex, to Jira or to the database fails.                      *)
EngineFails(t) ==
  /\ call[t].at \in {"create", "invite", "tell", "page"} /\ Mishap
  /\ Left(t) /\ Excuse(call[t].event)
  /\ UNCHANGED <<high, card, inbox, room, alerts, asked, posted>>

(* delete_message; a failure is logged.                                    *)
CleanCard(t) ==
  /\ call[t].at = "clean"
  /\ (card' = [card EXCEPT ![Of(call[t].event)] = "gone"] /\ UNCHANGED mishaps) \/ (Mishap /\ UNCHANGED card)
  /\ End(t)
  /\ UNCHANGED <<high, inbox, room, alerts, history>>

(* delete_room: not of a room somebody else created; a room that is gone   *)
(* raises once more when that is said, which ends the call as well.        *)
Implode(t) ==
  /\ call[t].at = "implode"
  /\ LET r == Of(call[t].event)
     IN  room' = IF r \in Foreign THEN room ELSE [room EXCEPT ![r].at = "gone"]
  /\ End(t)
  /\ UNCHANGED <<high, card, inbox, alerts, history, mishaps>>

(* The prompt cannot be sent, the room not be deleted, or the worker ends. *)
Breaks(t) ==
  /\ call[t].at # "idle" /\ Mishap
  /\ End(t) /\ Excuse(call[t].event)
  /\ UNCHANGED <<high, card, inbox, room, alerts, asked, posted>>

CallStep(t) ==
  \/ SendCard(t) \/ CreateRoom(t) \/ AddMembers(t) \/ TellSummary(t) \/ TellFails(t)
  \/ Page(t) \/ EngineFails(t) \/ CleanCard(t) \/ Implode(t)

Next ==
  \/ Deploy
  \/ \E e \in Event : Write(e) \/ Submit(e) \/ Duplicate(e) \/ Lose(e)
  \/ \E t \in Thread : CallStep(t) \/ Breaks(t) \/ \E e \in Event : Deliver(t, e)

Spec == Init /\ [][Next]_vars

(* Webex delivers what it does not lose, and calls end.                    *)
Serve(t) == CallStep(t) \/ \E e \in Event : Deliver(t, e)

FairSpec == Spec /\ \A t \in Thread : WF_vars(Serve(t))

-----------------------------------------------------------------------------
TypeOK ==
  /\ high \in BOOLEAN
  /\ card \in [Card -> {"none", "plain", "toggle", "gone"}]
  /\ inbox \in [Event -> 0..MaxEngine + MaxMishaps + 1]
  /\ room \in [Room -> RoomState]
  /\ alerts \subseteq Alert
  /\ call \in [Thread -> [at : Stage, event : Event, room : Room \cup {NoRoom}]]
  /\ asked \subseteq Request \cup Room
  /\ excused \subseteq Request
  /\ posted \in 0..MaxEngine
  /\ mishaps \in 0..MaxMishaps
  /\ \A t \in Thread : call[t].at = "clean" => Kind(call[t].event) = "submit"

Alerted(q) == \E a \in alerts : a.of = q

(* Whoever is alerted finds a room of this alert alone, in which the       *)
(* summary was said and everybody is, but for those that could not be      *)
(* added: whichever calls fail, however often the request was delivered,   *)
(* and although members implode rooms that are still being set up.         *)
AlertedRoomsReady ==
  \A a \in alerts :
    /\ room[a.room].told
    /\ room[a.room].invited = Invitee \/ mishaps > 0
    /\ \A b \in alerts : b.room = a.room => b = a

(* A card is only taken away from somebody whose request raised an alert,  *)
(* or was itself hit by a failure or an implosion: never for the sake of   *)
(* another request that failed or was served.                              *)
CardsKeptForAsker == \A k \in Card : card[k] = "gone" => k \in excused \/ Alerted(k)

(* The handlers keep HelpDesk: each of their steps, whichever threads,     *)
(* copies and deployments it falls between, is one of what the asker may   *)
(* rely on.  No page without a request, none into a room of another page   *)
(* or before the summary was said there, none is lost, and a card goes     *)
(* only when the page is out or the request has failed.                    *)
Desk == INSTANCE HelpDesk WITH
          made <- asked \cap Request,
          failed <- excused,
          ready <- {r \in Room : room[r].told},
          pages <- alerts,
          offered <- [k \in Card |-> IF card[k] \in {"plain", "toggle"} THEN "shown" ELSE card[k]]

RefinesDesk == Desk!DeskSpec

(* What these rest on.  A thread that sets a room up has a room of its     *)
(* own, which no alert names yet, and has left its mark on the room by the *)
(* time it goes on.                                                        *)
SetsUp(t) == call[t].at \in {"invite", "tell", "page"}

RoomsOwned ==
  /\ \A a \in alerts : room[a.room].at # "unused"
  /\ \A t \in Thread : SetsUp(t) =>
       /\ call[t].room \in Room /\ room[call[t].room].at # "unused"
       /\ \A u \in Thread : SetsUp(u) /\ call[u].room = call[t].room => u = t
       /\ \A a \in alerts : a.room # call[t].room

StagesDone ==
  \A t \in Thread :
    /\ call[t].at \in {"tell", "page"} =>
         room[call[t].room].invited = Invitee \/ mishaps > 0
    /\ call[t].at = "page" => room[call[t].room].told

(* A thread with a request in hand serves one that makes a room, and gets  *)
(* to the card only after the alert or a mishap.                           *)
ServesRequest ==
  \A t \in Thread :
    /\ SetsUp(t) \/ call[t].at = "create" => Kind(call[t].event) \in {"summary", "submit"}
    /\ call[t].at = "clean" => Of(call[t].event) \in excused \/ Alerted(Of(call[t].event))

(* An event is under way as often as it was posted and doubled.            *)
FewCopies ==
  \A e \in Event :
    inbox[e] <= IF Kind(e) \in {"summary", "submit"} THEN posted ELSE mishaps + 1

(* Nobody is paged who did not ask: an alert, a card and a call go back to *)
(* something that was written to the bot.                                  *)
OnlyAskedPage ==
  /\ \A a \in alerts : a.of \in asked
  /\ \A k \in Card : card[k] # "none" => k \in asked
  /\ \A t \in Thread : call[t].at # "idle" => Of(call[t].event) \in asked
  /\ \A e \in Event : inbox[e] > 0 => Of(e) \in asked

(* Everybody is helped who asked through a card or in one line: a request  *)
(* that reached Webex leads to an alert, unless a mishap hit this very     *)
(* request, somebody imploded its room before the summary was said there,  *)
(* or it asked for a high priority the bot does not have.  What goes wrong *)
(* with one request costs no other.  A summary of several lines is dropped *)
(* without an answer.                                                      *)
Answered ==
  \A q \in Request :
    (\E e \in Told \cup Submitted : Of(e) = q /\ inbox[e] > 0) ~> (q \in excused \/ Alerted(q))
================================================================================
