-------------------------- MODULE IncidentRoomsProofs --------------------------
(***************************************************************************)
(* Theorems about IncidentRooms, for any requests, threads and rooms, any  *)
(* number of copies of an event and any number of mishaps.                 *)
(*                                                                         *)
(* The argument: a thread that sets a room up owns it (RoomsOwned), so     *)
(* what it did at one stage still holds at the next (StagesDone), whatever *)
(* other threads and implosions do meanwhile; and a thread reaches the     *)
(* card only through the alert or through a mishap of its own request      *)
(* (ServesRequest).  These are the guards of HelpDesk, which the module    *)
(* therefore implements.                                                   *)
(***************************************************************************)
EXTENDS IncidentRooms, TLAPS

Inbox == [Event -> 0..MaxEngine + MaxMishaps + 1]
Call == [at : Stage, event : Event, room : Room \cup {NoRoom}]

RoomsInv ==
  /\ TypeOK /\ RoomsOwned /\ StagesDone /\ ServesRequest /\ FewCopies /\ OnlyAskedPage
  /\ AlertedRoomsReady /\ CardsKeptForAsker

-----------------------------------------------------------------------------
(* Events.                                                                 *)

LEMMA EventShape ==
  ASSUME NEW e \in Event
  PROVE  /\ Kind(e) \in {"summary", "lines", "prompt", "submit", "implode"}
         /\ Kind(e) \in {"summary", "lines"} => Of(e) \in Ask
         /\ Kind(e) \in {"prompt", "submit"} => Of(e) \in Card
         /\ Kind(e) = "implode" => Of(e) \in Room
         /\ Urgent(e) \in BOOLEAN
<1>1. CASE e \in Told
  BY <1>1 DEF Told, Kind, Of, Urgent
<1>2. CASE e \in Asked
  BY <1>2 DEF Asked, Kind, Of, Urgent
<1>3. CASE e \in Submitted
  BY <1>3 DEF Submitted, Kind, Of, Urgent
<1>4. CASE e \in Imploding
  BY <1>4 DEF Imploding, Kind, Of, Urgent
<1>5. CASE e \in Rambled
  BY <1>5 DEF Rambled, Kind, Of, Urgent
<1> QED BY <1>1, <1>2, <1>3, <1>4, <1>5 DEF Event

LEMMA SomeEventIs == SomeEvent \in Event
<1>1. PICK r \in Room : TRUE
  BY RoomsAssumption
<1>2. <<"implode", r, FALSE>> \in Event
  BY DEF Event, Imploding
<1> QED BY <1>2 DEF SomeEvent

LEMMA IdleIs == Idle \in Call /\ Idle.at = "idle"
BY SomeEventIs DEF Idle, Call, Stage

(* A request that is excused is excused for good, and so is an alerted one.*)
LEMMA ExcuseGrows ==
  ASSUME NEW e \in Event, excused \subseteq Request, Excuse(e)
  PROVE  /\ excused \subseteq excused' /\ excused' \subseteq Request
         /\ Of(e) \in Request => Of(e) \in excused'
BY DEF Excuse

-----------------------------------------------------------------------------
LEMMA InitRooms == Init => RoomsInv
<1> SUFFICES ASSUME Init PROVE RoomsInv
  OBVIOUS
<1>1. TypeOK
  <2>1. inbox \in [Event -> 0..MaxEngine + MaxMishaps + 1]
    BY RoomsAssumption DEF Init
  <2>2. room \in [Room -> RoomState]
    BY DEF Init, RoomState
  <2>3. call \in [Thread -> Call] /\ \A t \in Thread : call[t].at = "idle"
    BY IdleIs DEF Init
  <2> QED BY <2>1, <2>2, <2>3, RoomsAssumption DEF Init, TypeOK, Call
<1>2. \A t \in Thread : call[t].at = "idle"
  BY IdleIs DEF Init
<1>3. FewCopies
  BY RoomsAssumption DEF Init, FewCopies
<1> QED BY <1>1, <1>2, <1>3
    DEF Init, RoomsInv, RoomsOwned, StagesDone, ServesRequest, OnlyAskedPage, SetsUp,
        AlertedRoomsReady, CardsKeptForAsker

-----------------------------------------------------------------------------
(* People and Webex: events are posted, doubled and lost; the calls, the   *)
(* rooms and the alerts stay.                                              *)

(* What does not touch a call, a room or an alert leaves the invariants    *)
(* about them alone, if nothing is forgotten.                              *)
LEMMA OthersKeep ==
  ASSUME RoomsInv, UNCHANGED <<room, alerts, call>>,
         excused \subseteq excused', asked \subseteq asked', mishaps' >= mishaps, mishaps' \in Nat,
         \A k \in Card : card'[k] = card[k]
  PROVE  /\ RoomsOwned' /\ StagesDone' /\ ServesRequest' /\ AlertedRoomsReady'
         /\ CardsKeptForAsker'
<1>1. mishaps \in Nat /\ (mishaps > 0 => mishaps' > 0)
  BY RoomsAssumption DEF RoomsInv, TypeOK
<1>2. RoomsOwned'
  BY DEF RoomsInv, RoomsOwned, SetsUp
<1>3. StagesDone' /\ AlertedRoomsReady'
  BY <1>1 DEF RoomsInv, StagesDone, AlertedRoomsReady
<1>4. ServesRequest' /\ CardsKeptForAsker'
  BY DEF RoomsInv, ServesRequest, CardsKeptForAsker, SetsUp, Alerted
<1> QED BY <1>2, <1>3, <1>4

LEMMA PostKeeps ==
  ASSUME RoomsInv, NEW e \in Event, Post(e), Of(e) \in asked', asked \subseteq asked',
         mishaps' \in {mishaps, mishaps + 1}, mishaps' \in 0..MaxMishaps,
         Kind(e) = "prompt" => inbox[e] = 0,
         Kind(e) \in {"lines", "implode"} => inbox[e] = 0 \/ mishaps' = mishaps + 1
  PROVE  /\ inbox' \in Inbox /\ posted' \in 0..MaxEngine /\ FewCopies'
         /\ \A f \in Event : inbox'[f] > 0 => Of(f) \in asked'
<1> USE RoomsAssumption
<1>1. /\ inbox \in [Event -> Nat] /\ posted \in Nat /\ mishaps \in Nat
      /\ mishaps' \in Nat /\ mishaps' >= mishaps
  BY DEF RoomsInv, TypeOK
<1>2. posted' \in 0..MaxEngine /\ posted' >= posted
      /\ (Kind(e) \in {"summary", "submit"} => posted' = posted + 1)
  BY <1>1 DEF Post
<1>3. \A f \in Event : inbox'[f] = IF f = e THEN inbox[e] + 1 ELSE inbox[f]
  BY <1>1 DEF Post
<1>4. FewCopies'
  <2> SUFFICES ASSUME NEW f \in Event
               PROVE  inbox'[f] <= IF Kind(f) \in {"summary", "submit"} THEN posted' ELSE mishaps' + 1
    BY DEF FewCopies
  <2>1. inbox[f] <= IF Kind(f) \in {"summary", "submit"} THEN posted ELSE mishaps + 1
    BY DEF RoomsInv, FewCopies
  <2>2. CASE f # e
    BY <1>1, <1>2, <1>3, <2>1, <2>2
  <2>3. CASE f = e
    BY <1>1, <1>2, <1>3, <2>1, <2>3, EventShape
  <2> QED BY <2>2, <2>3
<1>5. inbox' \in Inbox
  <2>1. \A f \in Event : inbox'[f] \in 0..MaxEngine + MaxMishaps + 1
    <3> SUFFICES ASSUME NEW f \in Event PROVE inbox'[f] \in 0..MaxEngine + MaxMishaps + 1
      OBVIOUS
    <3>1. inbox'[f] <= posted' \/ inbox'[f] <= mishaps' + 1
      BY <1>4 DEF FewCopies
    <3>2. inbox'[f] \in Nat
      BY <1>1, <1>3
    <3> QED BY <1>2, <3>1, <3>2
  <2> QED BY <2>1 DEF Post, Inbox, RoomsInv, TypeOK
<1>6. \A f \in Event : inbox'[f] > 0 => Of(f) \in asked'
  BY <1>3 DEF RoomsInv, OnlyAskedPage
<1> QED BY <1>2, <1>4, <1>5, <1>6

LEMMA PeopleKeep ==
  ASSUME RoomsInv, NEW e \in Event, Write(e) \/ Submit(e) \/ Duplicate(e)
  PROVE  RoomsInv'
<1> USE RoomsAssumption
<1>1. /\ UNCHANGED <<high, card, room, alerts, call, excused>> /\ Post(e)
      /\ mishaps \in Nat /\ mishaps' \in {mishaps, mishaps + 1} /\ mishaps' \in 0..MaxMishaps
      /\ asked \subseteq asked' /\ asked' \subseteq Request \cup Room
  <2>1. Of(e) \in Request \cup Room
    BY EventShape DEF Request
  <2> QED BY <2>1 DEF Write, Submit, Duplicate, Mishap, RoomsInv, TypeOK
<1>2. Of(e) \in asked'
  <2>1. CASE Write(e)
    BY <2>1 DEF Write
  <2>2. CASE Submit(e)
    BY <2>2, EventShape DEF Submit, RoomsInv, OnlyAskedPage
  <2>3. CASE Duplicate(e)
    BY <2>3 DEF Duplicate, RoomsInv, OnlyAskedPage
  <2> QED BY <2>1, <2>2, <2>3
<1>3. /\ Kind(e) = "prompt" => inbox[e] = 0
      /\ Kind(e) \in {"lines", "implode"} => inbox[e] = 0 \/ mishaps' = mishaps + 1
  <2>1. CASE Write(e)
    <3>1. Of(e) \notin asked /\ inbox[e] \in Nat
      BY <2>1 DEF Write, CanWrite, RoomsInv, TypeOK
    <3> QED BY <3>1 DEF RoomsInv, OnlyAskedPage
  <2>2. CASE Submit(e)
    BY <2>2 DEF Submit
  <2>3. CASE Duplicate(e)
    BY <2>3 DEF Duplicate, Mishap
  <2> QED BY <2>1, <2>2, <2>3
<1>4. /\ inbox' \in Inbox /\ posted' \in 0..MaxEngine /\ FewCopies'
      /\ \A f \in Event : inbox'[f] > 0 => Of(f) \in asked'
  BY <1>1, <1>2, <1>3, PostKeeps
<1>5. TypeOK'
  BY <1>1, <1>4 DEF RoomsInv, TypeOK, Inbox
<1>6. OnlyAskedPage'
  BY <1>1, <1>4 DEF RoomsInv, OnlyAskedPage
<1>7. /\ RoomsOwned' /\ StagesDone' /\ ServesRequest' /\ AlertedRoomsReady'
      /\ CardsKeptForAsker'
  BY <1>1, OthersKeep
<1> QED BY <1>4, <1>5, <1>6, <1>7 DEF RoomsInv

(* A copy is taken from the inbox.                                         *)
LEMMA TakenKeeps ==
  ASSUME RoomsInv, NEW e \in Event, inbox[e] > 0, inbox' = [inbox EXCEPT ![e] = @ - 1],
         UNCHANGED <<asked, posted>>, mishaps' >= mishaps, mishaps' \in Nat
  PROVE  /\ inbox' \in Inbox /\ FewCopies'
         /\ \A f \in Event : inbox'[f] > 0 => Of(f) \in asked'
         /\ Of(e) \in asked
<1> USE RoomsAssumption
<1>1. inbox \in Inbox /\ mishaps \in Nat /\ posted \in Nat
  BY DEF RoomsInv, TypeOK, Inbox
<1>2. \A f \in Event : inbox'[f] \in 0..MaxEngine + MaxMishaps + 1 /\ inbox'[f] <= inbox[f]
  BY <1>1 DEF Inbox
<1>3. inbox' \in Inbox
  BY <1>1, <1>2 DEF Inbox
<1>4. FewCopies'
  <2> SUFFICES ASSUME NEW f \in Event
               PROVE  inbox'[f] <= IF Kind(f) \in {"summary", "submit"} THEN posted ELSE mishaps' + 1
    BY DEF FewCopies
  <2>1. inbox[f] <= IF Kind(f) \in {"summary", "submit"} THEN posted ELSE mishaps + 1
    BY DEF RoomsInv, FewCopies
  <2> QED BY <1>1, <1>2, <2>1 DEF Inbox
<1>5. \A f \in Event : inbox'[f] > 0 => Of(f) \in asked'
  <2>1. \A f \in Event : inbox'[f] > 0 => inbox[f] > 0
    BY <1>1, <1>2 DEF Inbox
  <2> QED BY <2>1 DEF RoomsInv, OnlyAskedPage
<1>6. Of(e) \in asked
  BY DEF RoomsInv, OnlyAskedPage
<1> QED BY <1>3, <1>4, <1>5, <1>6

LEMMA LoseKeeps ==
  ASSUME RoomsInv, NEW e \in Event, Lose(e) PROVE RoomsInv'
<1> USE RoomsAssumption
<1>1. /\ UNCHANGED <<high, card, room, alerts, call, asked, posted>>
      /\ inbox[e] > 0 /\ inbox' = [inbox EXCEPT ![e] = @ - 1] /\ Excuse(e)
      /\ mishaps \in Nat /\ mishaps' = mishaps + 1 /\ mishaps' \in 0..MaxMishaps
  BY DEF Lose, Mishap, RoomsInv, TypeOK
<1>2. excused \subseteq excused' /\ excused' \subseteq Request
  BY <1>1, ExcuseGrows DEF RoomsInv, TypeOK
<1>3. /\ inbox' \in Inbox /\ FewCopies'
      /\ \A f \in Event : inbox'[f] > 0 => Of(f) \in asked'
  <2>1. mishaps' >= mishaps /\ mishaps' \in Nat
    BY <1>1
  <2> QED BY <1>1, <2>1, TakenKeeps
<1>4. TypeOK'
  BY <1>1, <1>2, <1>3 DEF RoomsInv, TypeOK, Inbox
<1>5. OnlyAskedPage'
  BY <1>1, <1>3 DEF RoomsInv, OnlyAskedPage
<1>6. /\ RoomsOwned' /\ StagesDone' /\ ServesRequest' /\ AlertedRoomsReady'
      /\ CardsKeptForAsker'
  BY <1>1, <1>2, OthersKeep
<1> QED BY <1>3, <1>4, <1>5, <1>6 DEF RoomsInv

-----------------------------------------------------------------------------
(* Calls that do not go on with a room: they begin, end, or turn to the    *)
(* card.                                                                   *)

LEMMA CallTurns ==
  ASSUME RoomsInv, NEW t \in Thread, NEW c \in Call, call' = [call EXCEPT ![t] = c],
         c.at \notin {"invite", "tell", "page"},
         \A r \in Room : /\ room'[r].invited = room[r].invited /\ room'[r].told = room[r].told
                         /\ room'[r].at = "unused" => room[r].at = "unused",
         UNCHANGED <<alerts, asked>>,
         excused \subseteq excused', mishaps' >= mishaps, mishaps' \in Nat,
         c.at = "create" => Kind(c.event) \in {"summary", "submit"},
         c.at = "clean" => /\ Kind(c.event) = "submit"
                           /\ Of(c.event) \in excused' \/ Alerted(Of(c.event)),
         c.at # "idle" => Of(c.event) \in asked
  PROVE  /\ call' \in [Thread -> Call]
         /\ \A u \in Thread : call'[u].at = "clean" => Kind(call'[u].event) = "submit"
         /\ \A u \in Thread : call'[u].at # "idle" => Of(call'[u].event) \in asked
         /\ RoomsOwned' /\ StagesDone' /\ ServesRequest' /\ AlertedRoomsReady'
<1>1. call \in [Thread -> Call] /\ mishaps \in Nat
  BY RoomsAssumption DEF RoomsInv, TypeOK, Call
<1>2. \A u \in Thread : call'[u] = IF u = t THEN c ELSE call[u]
  BY <1>1
<1>3. call' \in [Thread -> Call]
  BY <1>1
<1>4. \A u \in Thread : /\ call'[u].at = "clean" => Kind(call'[u].event) = "submit"
                        /\ call'[u].at # "idle" => Of(call'[u].event) \in asked
  BY <1>2 DEF RoomsInv, TypeOK, OnlyAskedPage
<1>5. \A u \in Thread : call'[u].at \in {"invite", "tell", "page"} => u # t /\ call'[u] = call[u]
  BY <1>2
<1>6. \A a \in alerts : a.room \in Room
  BY DEF RoomsInv, TypeOK, Alert
<1>7. RoomsOwned'
  BY <1>5, <1>6 DEF RoomsInv, RoomsOwned, SetsUp
<1>8. StagesDone'
  BY <1>1, <1>5 DEF RoomsInv, StagesDone, RoomsOwned, SetsUp
<1>9. AlertedRoomsReady'
  BY <1>1, <1>6 DEF RoomsInv, AlertedRoomsReady
<1>10. ServesRequest'
  <2> SUFFICES ASSUME NEW u \in Thread
               PROVE  /\ call'[u].at \in {"invite", "tell", "page", "create"}
                           => Kind(call'[u].event) \in {"summary", "submit"}
                      /\ call'[u].at = "clean" => \/ Of(call'[u].event) \in excused'
                                                  \/ Alerted(Of(call'[u].event))
    BY DEF ServesRequest, SetsUp, Alerted
  <2>1. CASE u = t
    BY <1>2, <2>1
  <2>2. CASE u # t
    BY <1>2, <2>2 DEF RoomsInv, ServesRequest, SetsUp
  <2> QED BY <2>1, <2>2
<1> QED BY <1>3, <1>4, <1>7, <1>8, <1>9, <1>10

LEMMA DeliverKeeps ==
  ASSUME RoomsInv, NEW t \in Thread, NEW e \in Event, Deliver(t, e) PROVE RoomsInv'
<1> USE RoomsAssumption
<1>1. /\ UNCHANGED <<high, card, room, alerts, asked, posted, mishaps>>
      /\ inbox[e] > 0 /\ inbox' = [inbox EXCEPT ![e] = @ - 1] /\ mishaps \in Nat
  BY DEF Deliver, RoomsInv, TypeOK
<1>2. excused \subseteq excused' /\ excused' \subseteq Request
  BY ExcuseGrows DEF Deliver, RoomsInv, TypeOK
<1>3. /\ inbox' \in Inbox /\ FewCopies' /\ Of(e) \in asked
      /\ \A f \in Event : inbox'[f] > 0 => Of(f) \in asked'
  <2>1. mishaps' >= mishaps /\ mishaps' \in Nat
    BY <1>1
  <2> QED BY <1>1, <2>1, TakenKeeps
<1>4. CASE ~Hears(e)
  <2>1. UNCHANGED call /\ mishaps' >= mishaps /\ mishaps' \in Nat
    BY <1>1, <1>4 DEF Deliver
  <2>2. /\ RoomsOwned' /\ StagesDone' /\ ServesRequest' /\ AlertedRoomsReady'
        /\ CardsKeptForAsker'
    BY <1>1, <1>2, <2>1, OthersKeep
  <2>3. TypeOK'
    BY <1>1, <1>2, <1>3, <2>1 DEF RoomsInv, TypeOK, Inbox
  <2>4. OnlyAskedPage'
    BY <1>1, <1>3, <2>1 DEF RoomsInv, OnlyAskedPage
  <2> QED BY <1>3, <2>2, <2>3, <2>4 DEF RoomsInv
<1>5. CASE Hears(e)
  <2> DEFINE c == [at |-> FirstStage(e), event |-> e, room |-> NoRoom]
  <2>1. c \in Call /\ c.event = e
    BY EventShape DEF FirstStage, Call, Stage
  <2>2. /\ c.at \in {"prompt", "implode", "create"}
        /\ c.at = "create" => Kind(e) \in {"summary", "submit"}
    BY <1>5, EventShape DEF FirstStage, Hears
  <2>3. call' = [call EXCEPT ![t] = c]
    BY <1>5 DEF Deliver
  <2>4. mishaps' >= mishaps /\ mishaps' \in Nat
    BY <1>1
  <2> HIDE DEF c
  <2>5. /\ call' \in [Thread -> Call]
        /\ \A u \in Thread : call'[u].at = "clean" => Kind(call'[u].event) = "submit"
        /\ \A u \in Thread : call'[u].at # "idle" => Of(call'[u].event) \in asked
        /\ RoomsOwned' /\ StagesDone' /\ ServesRequest' /\ AlertedRoomsReady'
    BY <1>1, <1>2, <1>3, <2>1, <2>2, <2>3, <2>4, CallTurns
  <2>6. TypeOK'
    BY <1>1, <1>2, <1>3, <2>5 DEF RoomsInv, TypeOK, Inbox, Call
  <2>7. OnlyAskedPage' /\ CardsKeptForAsker'
    BY <1>1, <1>2, <1>3, <2>5 DEF RoomsInv, OnlyAskedPage, CardsKeptForAsker, Alerted
  <2> QED BY <1>3, <2>5, <2>6, <2>7 DEF RoomsInv
<1> QED BY <1>4, <1>5

(* A call that ends, or turns to the card.                                 *)
LEMMA EndingKeeps ==
  ASSUME RoomsInv, NEW t \in Thread, NEW c \in Call, call' = [call EXCEPT ![t] = c],
         c.at \in {"idle", "clean"},
         c.at = "clean" => /\ Kind(c.event) = "submit" /\ Of(c.event) \in asked
                           /\ Of(c.event) \in excused' \/ Alerted(Of(c.event)),
         UNCHANGED <<high, inbox, alerts, asked, posted>>,
         excused \subseteq excused', excused' \subseteq Request,
         mishaps' \in {mishaps, mishaps + 1}, mishaps' \in 0..MaxMishaps,
         card' \in [Card -> {"none", "plain", "toggle", "gone"}],
         \A k \in Card : /\ card'[k] = "gone" => k \in excused' \/ Alerted(k)
                         /\ card'[k] # "none" => k \in asked,
         room' \in [Room -> RoomState],
         \A r \in Room : /\ room'[r].invited = room[r].invited /\ room'[r].told = room[r].told
                         /\ room'[r].at = "unused" => room[r].at = "unused"
  PROVE  RoomsInv'
<1>1. mishaps \in Nat /\ mishaps' \in Nat /\ mishaps' >= mishaps
  BY RoomsAssumption DEF RoomsInv, TypeOK
<1>2. /\ call' \in [Thread -> Call]
      /\ \A u \in Thread : call'[u].at = "clean" => Kind(call'[u].event) = "submit"
      /\ \A u \in Thread : call'[u].at # "idle" => Of(call'[u].event) \in asked
      /\ RoomsOwned' /\ StagesDone' /\ ServesRequest' /\ AlertedRoomsReady'
  BY <1>1, CallTurns
<1>3. TypeOK'
  BY <1>2 DEF RoomsInv, TypeOK, Call
<1>4. FewCopies'
  <2> SUFFICES ASSUME NEW f \in Event
               PROVE  inbox[f] <= IF Kind(f) \in {"summary", "submit"} THEN posted ELSE mishaps' + 1
    BY DEF FewCopies
  <2>1. inbox[f] <= IF Kind(f) \in {"summary", "submit"} THEN posted ELSE mishaps + 1
    BY DEF RoomsInv, FewCopies
  <2>2. inbox[f] \in Nat /\ posted \in Nat
    BY RoomsAssumption DEF RoomsInv, TypeOK
  <2> QED BY <1>1, <2>1, <2>2
<1>5. OnlyAskedPage' /\ CardsKeptForAsker'
  BY <1>2 DEF RoomsInv, OnlyAskedPage, CardsKeptForAsker, Alerted
<1> QED BY <1>2, <1>3, <1>4, <1>5 DEF RoomsInv

(* create_incident_room is left: the call ends, or goes on to the card.    *)
LEMMA LeftIs ==
  ASSUME RoomsInv, NEW t \in Thread, Left(t)
  PROVE  \E c \in Call : /\ call' = [call EXCEPT ![t] = c]
                         /\ c.at \in {"idle", "clean"}
                         /\ c.at = "clean" => /\ c.event = call[t].event
                                              /\ Kind(call[t].event) = "submit"
                                              /\ Of(call[t].event) \in Card
<1>1. call[t] \in Call
  BY DEF RoomsInv, TypeOK, Call
<1>2. CASE Kind(call[t].event) = "submit"
  <2> DEFINE c == [call[t] EXCEPT !.at = "clean"]
  <2>1. c \in Call /\ c.at = "clean" /\ c.event = call[t].event
    BY <1>1 DEF Call, Stage
  <2>2. call' = [call EXCEPT ![t] = c]
    BY <1>2 DEF Left, Goto
  <2>3. Of(call[t].event) \in Card
    BY <1>1, <1>2, EventShape DEF Call
  <2> HIDE DEF c
  <2> QED BY <1>2, <2>1, <2>2, <2>3
<1>3. CASE Kind(call[t].event) # "submit"
  BY <1>3, IdleIs DEF Left, End
<1> QED BY <1>2, <1>3

LEMMA EngineLeftKeeps ==
  ASSUME RoomsInv, NEW t \in Thread, EngineFails(t) \/ TellFails(t)
  PROVE  RoomsInv'
<1>1. /\ Left(t) /\ Excuse(call[t].event) /\ call[t].at # "idle"
      /\ UNCHANGED <<high, card, inbox, room, alerts, asked, posted>>
      /\ mishaps' \in {mishaps, mishaps + 1} /\ mishaps' \in 0..MaxMishaps
  BY RoomsAssumption DEF EngineFails, TellFails, Mishap, RoomsInv, TypeOK
<1>2. PICK c \in Call : /\ call' = [call EXCEPT ![t] = c]
                        /\ c.at \in {"idle", "clean"}
                        /\ c.at = "clean" => /\ c.event = call[t].event
                                             /\ Kind(call[t].event) = "submit"
                                             /\ Of(call[t].event) \in Card
  BY <1>1, LeftIs
<1>3. call[t].event \in Event /\ Of(call[t].event) \in asked
  BY <1>1 DEF RoomsInv, TypeOK, OnlyAskedPage
<1>4. /\ excused \subseteq excused' /\ excused' \subseteq Request
      /\ Of(call[t].event) \in Card => Of(call[t].event) \in excused'
  BY <1>1, <1>3, ExcuseGrows DEF RoomsInv, TypeOK, Request
<1>5. /\ card' \in [Card -> {"none", "plain", "toggle", "gone"}] /\ room' \in [Room -> RoomState]
      /\ \A k \in Card : /\ card'[k] = "gone" => k \in excused' \/ Alerted(k)
                         /\ card'[k] # "none" => k \in asked
  BY <1>1, <1>4 DEF RoomsInv, TypeOK, CardsKeptForAsker, OnlyAskedPage
<1> QED BY <1>1, <1>2, <1>3, <1>4, <1>5, EndingKeeps

LEMMA SendCardKeeps ==
  ASSUME RoomsInv, NEW t \in Thread, SendCard(t) PROVE RoomsInv'
<1>1. /\ call' = [call EXCEPT ![t] = Idle] /\ call[t].at # "idle"
      /\ card' = [card EXCEPT ![Of(call[t].event)] = Shown]
      /\ UNCHANGED <<high, inbox, room, alerts, asked, excused, posted, mishaps>>
  BY DEF SendCard, End, history
<1>2. Shown \in {"plain", "toggle"} /\ Of(call[t].event) \in asked
  BY <1>1 DEF Shown, RoomsInv, OnlyAskedPage
<1>3. /\ card' \in [Card -> {"none", "plain", "toggle", "gone"}]
      /\ \A k \in Card : /\ card'[k] = "gone" => k \in excused' \/ Alerted(k)
                         /\ card'[k] # "none" => k \in asked
  BY <1>1, <1>2 DEF RoomsInv, TypeOK, CardsKeptForAsker, OnlyAskedPage
<1>4. /\ excused' \subseteq Request /\ room' \in [Room -> RoomState]
      /\ mishaps' \in {mishaps, mishaps + 1} /\ mishaps' \in 0..MaxMishaps
  BY <1>1 DEF RoomsInv, TypeOK
<1> QED BY <1>1, <1>3, <1>4, IdleIs, EndingKeeps

LEMMA CleanCardKeeps ==
  ASSUME RoomsInv, NEW t \in Thread, CleanCard(t) PROVE RoomsInv'
<1>1. /\ call' = [call EXCEPT ![t] = Idle] /\ call[t].at = "clean"
      /\ card' = [card EXCEPT ![Of(call[t].event)] = "gone"] \/ UNCHANGED card
      /\ UNCHANGED <<high, inbox, room, alerts, asked, excused, posted>>
      /\ mishaps' \in {mishaps, mishaps + 1} /\ mishaps' \in 0..MaxMishaps
  BY RoomsAssumption DEF CleanCard, End, history, Mishap, RoomsInv, TypeOK
<1>2. /\ Of(call[t].event) \in asked
      /\ Of(call[t].event) \in excused \/ Alerted(Of(call[t].event))
  BY <1>1 DEF RoomsInv, OnlyAskedPage, ServesRequest
<1>3. /\ card' \in [Card -> {"none", "plain", "toggle", "gone"}]
      /\ \A k \in Card : /\ card'[k] = "gone" => k \in excused' \/ Alerted(k)
                         /\ card'[k] # "none" => k \in asked
  BY <1>1, <1>2 DEF RoomsInv, TypeOK, CardsKeptForAsker, OnlyAskedPage
<1>4. excused' \subseteq Request /\ room' \in [Room -> RoomState]
  BY <1>1 DEF RoomsInv, TypeOK
<1> QED BY <1>1, <1>3, <1>4, IdleIs, EndingKeeps

LEMMA ImplodeKeeps ==
  ASSUME RoomsInv, NEW t \in Thread, Implode(t) PROVE RoomsInv'
<1>1. /\ call' = [call EXCEPT ![t] = Idle]
      /\ room' = room \/ room' = [room EXCEPT ![Of(call[t].event)].at = "gone"]
      /\ UNCHANGED <<high, card, inbox, alerts, asked, excused, posted, mishaps>>
  BY DEF Implode, End, history
<1>2. /\ room' \in [Room -> RoomState]
      /\ \A r \in Room : /\ room'[r].invited = room[r].invited /\ room'[r].told = room[r].told
                         /\ room'[r].at = "unused" => room[r].at = "unused"
  <2>1. room \in [Room -> RoomState]
    BY DEF RoomsInv, TypeOK
  <2>2. \A r \in Room : room'[r] = room[r] \/ room'[r] = [room[r] EXCEPT !.at = "gone"]
    BY <1>1, <2>1
  <2>3. \A s \in RoomState : LET g == [s EXCEPT !.at = "gone"]
                             IN  /\ g \in RoomState /\ g.at = "gone"
                                 /\ g.invited = s.invited /\ g.told = s.told
    BY DEF RoomState
  <2>4. room' = [r \in Room |-> room'[r]]
    BY <1>1, <2>1
  <2> QED BY <2>1, <2>2, <2>3, <2>4
<1>3. /\ excused' \subseteq Request
      /\ card' \in [Card -> {"none", "plain", "toggle", "gone"}]
      /\ mishaps' \in {mishaps, mishaps + 1} /\ mishaps' \in 0..MaxMishaps
      /\ \A k \in Card : /\ card'[k] = "gone" => k \in excused' \/ Alerted(k)
                         /\ card'[k] # "none" => k \in asked
  BY <1>1 DEF RoomsInv, TypeOK, CardsKeptForAsker, OnlyAskedPage
<1> QED BY <1>1, <1>2, <1>3, IdleIs, EndingKeeps

LEMMA BreaksKeeps ==
  ASSUME RoomsInv, NEW t \in Thread, Breaks(t) PROVE RoomsInv'
<1>1. /\ call' = [call EXCEPT ![t] = Idle] /\ Excuse(call[t].event)
      /\ UNCHANGED <<high, card, inbox, room, alerts, asked, posted>>
      /\ mishaps' \in {mishaps, mishaps + 1} /\ mishaps' \in 0..MaxMishaps
  BY RoomsAssumption DEF Breaks, End, Mishap, RoomsInv, TypeOK
<1>2. excused \subseteq excused' /\ excused' \subseteq Request
  BY <1>1, ExcuseGrows DEF RoomsInv, TypeOK
<1>3. /\ card' \in [Card -> {"none", "plain", "toggle", "gone"}] /\ room' \in [Room -> RoomState]
      /\ \A k \in Card : /\ card'[k] = "gone" => k \in excused' \/ Alerted(k)
                         /\ card'[k] # "none" => k \in asked
  BY <1>1, <1>2 DEF RoomsInv, TypeOK, CardsKeptForAsker, OnlyAskedPage
<1> QED BY <1>1, <1>2, <1>3, IdleIs, EndingKeeps

-----------------------------------------------------------------------------
(* Calls that set a room up.                                               *)

(* The thread goes on with a room that is its own.                         *)
LEMMA SettingUpKeeps ==
  ASSUME RoomsInv, NEW t \in Thread, NEW c \in Call, call' = [call EXCEPT ![t] = c],
         call[t].at \in {"create", "invite", "tell", "page"}, c.event = call[t].event,
         c.at \in {"invite", "tell", "page"}, c.room \in Room,
         UNCHANGED <<high, card, inbox, alerts, asked, excused, posted>>,
         mishaps' \in {mishaps, mishaps + 1}, mishaps' \in 0..MaxMishaps,
         room' \in [Room -> RoomState],
         \A r \in Room : r # c.room => room'[r] = room[r],
         room'[c.room].at # "unused",
         \A u \in Thread : u # t /\ SetsUp(u) => call[u].room # c.room,
         \A a \in alerts : a.room # c.room,
         c.at \in {"tell", "page"} => room'[c.room].invited = Invitee \/ mishaps' > 0,
         c.at = "page" => room'[c.room].told
  PROVE  RoomsInv'
<1>1. /\ call \in [Thread -> Call] /\ mishaps \in Nat /\ mishaps' \in Nat
      /\ mishaps' >= mishaps
  BY RoomsAssumption DEF RoomsInv, TypeOK, Call
<1>2. \A u \in Thread : call'[u] = IF u = t THEN c ELSE call[u]
  BY <1>1
<1>3. TypeOK'
  <2>1. call' \in [Thread -> Call] /\ \A u \in Thread : call'[u].at = "clean" => u # t
    BY <1>1, <1>2
  <2>2. \A u \in Thread : call'[u].at = "clean" => Kind(call'[u].event) = "submit"
    BY <1>2, <2>1 DEF RoomsInv, TypeOK
  <2> QED BY <2>1, <2>2 DEF RoomsInv, TypeOK, Call
<1>4. \A a \in alerts : a.room \in Room /\ room'[a.room] = room[a.room]
  BY DEF RoomsInv, TypeOK, Alert
<1>5. \A u \in Thread : u # t /\ SetsUp(u) => room'[call[u].room] = room[call[u].room]
  BY DEF RoomsInv, RoomsOwned
<1>6. RoomsOwned'
  <2>1. \A a \in alerts : room'[a.room].at # "unused"
    BY <1>4 DEF RoomsInv, RoomsOwned
  <2> SUFFICES ASSUME NEW u \in Thread, call'[u].at \in {"invite", "tell", "page"}
               PROVE  /\ call'[u].room \in Room /\ room'[call'[u].room].at # "unused"
                      /\ \A v \in Thread : call'[v].at \in {"invite", "tell", "page"}
                                           /\ call'[v].room = call'[u].room => v = u
                      /\ \A a \in alerts : a.room # call'[u].room
    BY <2>1 DEF RoomsOwned, SetsUp
  <2>2. CASE u = t
    BY <1>2, <2>2 DEF SetsUp
  <2>3. CASE u # t
    BY <1>2, <1>5, <2>3 DEF SetsUp, RoomsInv, RoomsOwned
  <2> QED BY <2>2, <2>3
<1>7. StagesDone'
  <2> SUFFICES ASSUME NEW u \in Thread
               PROVE  /\ call'[u].at \in {"tell", "page"} =>
                           room'[call'[u].room].invited = Invitee \/ mishaps' > 0
                      /\ call'[u].at = "page" => room'[call'[u].room].told
    BY DEF StagesDone
  <2>1. CASE u = t
    BY <1>2, <2>1
  <2>2. CASE u # t
    BY <1>1, <1>2, <1>5, <2>2 DEF SetsUp, RoomsInv, StagesDone
  <2> QED BY <2>1, <2>2
<1>8. ServesRequest'
  <2> SUFFICES ASSUME NEW u \in Thread
               PROVE  /\ call'[u].at \in {"invite", "tell", "page", "create"}
                           => Kind(call'[u].event) \in {"summary", "submit"}
                      /\ call'[u].at = "clean" => \/ Of(call'[u].event) \in excused
                                                  \/ Alerted(Of(call'[u].event))
    BY DEF ServesRequest, SetsUp, Alerted
  <2>1. CASE u = t
    BY <1>2, <2>1 DEF RoomsInv, ServesRequest, SetsUp
  <2>2. CASE u # t
    BY <1>2, <2>2 DEF RoomsInv, ServesRequest, SetsUp
  <2> QED BY <2>1, <2>2
<1>9. FewCopies'
  <2> SUFFICES ASSUME NEW f \in Event
               PROVE  inbox[f] <= IF Kind(f) \in {"summary", "submit"} THEN posted ELSE mishaps' + 1
    BY DEF FewCopies
  <2>1. inbox[f] <= IF Kind(f) \in {"summary", "submit"} THEN posted ELSE mishaps + 1
    BY DEF RoomsInv, FewCopies
  <2>2. inbox[f] \in Nat /\ posted \in Nat
    BY RoomsAssumption DEF RoomsInv, TypeOK
  <2> QED BY <1>1, <2>1, <2>2
<1>10. OnlyAskedPage'
  <2>1. \A u \in Thread : call'[u].at # "idle" => Of(call'[u].event) \in asked
    BY <1>2 DEF RoomsInv, OnlyAskedPage
  <2> QED BY <2>1 DEF RoomsInv, OnlyAskedPage
<1>11. AlertedRoomsReady' /\ CardsKeptForAsker'
  BY <1>1, <1>4 DEF RoomsInv, AlertedRoomsReady, CardsKeptForAsker, Alerted
<1> QED BY <1>3, <1>6, <1>7, <1>8, <1>9, <1>10, <1>11 DEF RoomsInv

LEMMA CreateRoomKeeps ==
  ASSUME RoomsInv, NEW t \in Thread, CreateRoom(t) PROVE RoomsInv'
<1>1. PICK r \in Room : /\ room[r].at = "unused" /\ room' = [room EXCEPT ![r].at = "open"]
                        /\ call' = [call EXCEPT ![t].at = "invite", ![t].room = r]
  BY DEF CreateRoom
<1>2. /\ call[t].at = "create"
      /\ UNCHANGED <<high, card, inbox, alerts, asked, excused, posted, mishaps>>
  BY DEF CreateRoom, history
<1>3. room \in [Room -> RoomState] /\ call \in [Thread -> Call] /\ mishaps \in 0..MaxMishaps
  BY DEF RoomsInv, TypeOK, Call
<1> DEFINE c == [call[t] EXCEPT !.at = "invite", !.room = r]
           s == [room[r] EXCEPT !.at = "open"]
<1>4. c \in Call /\ c.at = "invite" /\ c.room = r /\ c.event = call[t].event
  BY <1>3 DEF Call, Stage
<1>5. s \in RoomState /\ s.at = "open"
  BY <1>3 DEF RoomState
<1>6. call' = [call EXCEPT ![t] = c] /\ room' = [room EXCEPT ![r] = s]
  BY <1>1, <1>3
<1> HIDE DEF c, s
<1>7. /\ room' \in [Room -> RoomState] /\ room'[r].at # "unused"
      /\ \A q \in Room : q # r => room'[q] = room[q]
  BY <1>3, <1>5, <1>6
<1>8. /\ \A u \in Thread : u # t /\ SetsUp(u) => call[u].room # r
      /\ \A a \in alerts : a.room # r
  BY <1>1 DEF RoomsInv, RoomsOwned
<1>9. /\ mishaps' \in {mishaps, mishaps + 1} /\ mishaps' \in 0..MaxMishaps
      /\ UNCHANGED <<high, card, inbox, alerts, asked, excused, posted>>
      /\ call[t].at \in {"create", "invite", "tell", "page"}
  BY <1>2, <1>3
<1>10. /\ call' = [call EXCEPT ![t] = c] /\ c \in Call /\ c.event = call[t].event
       /\ c.at \in {"invite", "tell", "page"} /\ c.at \notin {"tell", "page"} /\ c.at # "page"
  BY <1>4, <1>6
<1>11. /\ c.room \in Room /\ room'[c.room].at # "unused"
       /\ \A u \in Thread : u # t /\ SetsUp(u) => call[u].room # c.room
       /\ \A a \in alerts : a.room # c.room
       /\ \A q \in Room : q # c.room => room'[q] = room[q]
  BY <1>4, <1>7, <1>8
<1> QED BY <1>7, <1>9, <1>10, <1>11, SettingUpKeeps

(* What a thread that sets a room up may rely on.                          *)
LEMMA OwnRoom ==
  ASSUME RoomsInv, NEW t \in Thread, SetsUp(t)
  PROVE  /\ call[t].room \in Room /\ room[call[t].room] \in RoomState /\ call[t] \in Call
         /\ room[call[t].room].at # "unused"
         /\ \A u \in Thread : u # t /\ SetsUp(u) => call[u].room # call[t].room
         /\ \A a \in alerts : a.room # call[t].room
         /\ call[t].at \in {"tell", "page"} =>
              room[call[t].room].invited = Invitee \/ mishaps > 0
         /\ call[t].at = "page" => room[call[t].room].told
BY DEF RoomsInv, RoomsOwned, StagesDone, TypeOK, Call

(* The next stage of a call.                                               *)
LEMMA GotoIs ==
  ASSUME RoomsInv, NEW t \in Thread, NEW where \in {"tell", "page"}, Goto(t, where)
  PROVE  \E c \in Call : /\ call' = [call EXCEPT ![t] = c] /\ c.at = where
                         /\ c.room = call[t].room /\ c.event = call[t].event
<1> DEFINE c == [call[t] EXCEPT !.at = where]
<1>1. c \in Call /\ c.at = where /\ c.room = call[t].room /\ c.event = call[t].event
  BY DEF Call, Stage, RoomsInv, TypeOK
<1>2. call' = [call EXCEPT ![t] = c]
  BY DEF Goto
<1> HIDE DEF c
<1> QED BY <1>1, <1>2

LEMMA AddMembersKeeps ==
  ASSUME RoomsInv, NEW t \in Thread, AddMembers(t) PROVE RoomsInv'
<1> DEFINE r == call[t].room
<1>1. /\ call[t].at = "invite" /\ Goto(t, "tell")
      /\ UNCHANGED <<high, card, inbox, alerts, asked, excused, posted>>
  BY DEF AddMembers, history
<1>2. PICK who \in SUBSET Invitee :
        /\ (who = Invitee /\ UNCHANGED mishaps) \/ (who # Invitee /\ Mishap)
        /\ room' = [room EXCEPT ![r].invited = who]
  BY DEF AddMembers
<1>3. PICK c \in Call : /\ call' = [call EXCEPT ![t] = c] /\ c.at = "tell"
                        /\ c.room = r /\ c.event = call[t].event
  BY <1>1, GotoIs
<1>4. /\ r \in Room /\ room[r] \in RoomState /\ room[r].at # "unused"
      /\ \A u \in Thread : u # t /\ SetsUp(u) => call[u].room # r
      /\ \A a \in alerts : a.room # r
  BY <1>1, OwnRoom DEF SetsUp
<1>5. room \in [Room -> RoomState] /\ mishaps \in 0..MaxMishaps /\ MaxMishaps \in Nat
  BY RoomsAssumption DEF RoomsInv, TypeOK
<1>6. /\ mishaps' \in {mishaps, mishaps + 1} /\ mishaps' \in 0..MaxMishaps
      /\ who = Invitee \/ mishaps' > 0
  BY <1>2, <1>5 DEF Mishap
<1> DEFINE s == [room[r] EXCEPT !.invited = who]
<1>7. s \in RoomState /\ s.at = room[r].at /\ s.invited = who
  BY <1>4 DEF RoomState
<1>8. room' = [room EXCEPT ![r] = s]
  BY <1>2, <1>4, <1>5
<1> HIDE DEF s, r
<1>9. /\ room' \in [Room -> RoomState] /\ room'[r] = s
      /\ \A q \in Room : q # r => room'[q] = room[q]
  BY <1>4, <1>5, <1>7, <1>8
<1> QED BY <1>1, <1>3, <1>4, <1>6, <1>7, <1>9, SettingUpKeeps

LEMMA TellSummaryKeeps ==
  ASSUME RoomsInv, NEW t \in Thread, TellSummary(t) PROVE RoomsInv'
<1> DEFINE r == call[t].room
<1>1. /\ call[t].at = "tell" /\ Goto(t, "page") /\ room[r].at = "open"
      /\ room' = [room EXCEPT ![r].told = (@ \/ room[r].at = "open")]
      /\ UNCHANGED <<high, card, inbox, alerts, asked, excused, posted, mishaps>>
  BY DEF TellSummary, Tells, history
<1>2. PICK c \in Call : /\ call' = [call EXCEPT ![t] = c] /\ c.at = "page"
                        /\ c.room = r /\ c.event = call[t].event
  BY <1>1, GotoIs
<1>3. /\ r \in Room /\ room[r] \in RoomState /\ room[r].at # "unused"
      /\ room[r].invited = Invitee \/ mishaps > 0
      /\ \A u \in Thread : u # t /\ SetsUp(u) => call[u].room # r
      /\ \A a \in alerts : a.room # r
  BY <1>1, OwnRoom DEF SetsUp
<1>4. room \in [Room -> RoomState] /\ mishaps \in 0..MaxMishaps /\ MaxMishaps \in Nat
  BY RoomsAssumption DEF RoomsInv, TypeOK
<1> DEFINE s == [room[r] EXCEPT !.told = TRUE]
<1>5. s \in RoomState /\ s.at = room[r].at /\ s.invited = room[r].invited /\ s.told
  BY <1>3 DEF RoomState
<1>6. room' = [room EXCEPT ![r] = s]
  BY <1>1, <1>3, <1>4
<1> HIDE DEF s, r
<1>7. /\ room' \in [Room -> RoomState] /\ room'[r] = s
      /\ \A q \in Room : q # r => room'[q] = room[q]
  BY <1>3, <1>4, <1>5, <1>6
<1>8. mishaps' \in {mishaps, mishaps + 1} /\ mishaps' \in 0..MaxMishaps /\ mishaps' = mishaps
  BY <1>1, <1>4
<1>9. /\ UNCHANGED <<high, card, inbox, alerts, asked, excused, posted>>
      /\ call[t].at \in {"create", "invite", "tell", "page"}
  BY <1>1
<1>10. /\ c.room \in Room /\ room'[c.room].at # "unused" /\ room'[c.room].told
       /\ room'[c.room].invited = Invitee \/ mishaps' > 0
       /\ \A u \in Thread : u # t /\ SetsUp(u) => call[u].room # c.room
       /\ \A a \in alerts : a.room # c.room
       /\ \A q \in Room : q # c.room => room'[q] = room[q]
  BY <1>2, <1>3, <1>5, <1>7, <1>8
<1> QED BY <1>2, <1>7, <1>8, <1>9, <1>10, SettingUpKeeps

(* The alert is raised in the thread's own room, which is ready by now;    *)
(* then the room is nobody's.                                              *)
LEMMA PageKeeps ==
  ASSUME RoomsInv, NEW t \in Thread, Page(t) PROVE RoomsInv'
<1> DEFINE r == call[t].room
           e == call[t].event
           a == [room |-> r, of |-> Of(e), urgent |-> Urgent(e)]
<1>1. /\ call[t].at = "page" /\ Left(t) /\ alerts' = alerts \cup {a}
      /\ UNCHANGED <<high, card, inbox, room, asked, excused, posted, mishaps>>
  BY DEF Page, history
<1>2. PICK c \in Call : /\ call' = [call EXCEPT ![t] = c]
                        /\ c.at \in {"idle", "clean"}
                        /\ c.at = "clean" => /\ c.event = e /\ Kind(e) = "submit"
                                             /\ Of(e) \in Card
  BY <1>1, LeftIs
<1>3. /\ r \in Room /\ room[r].at # "unused" /\ room[r].told
      /\ room[r].invited = Invitee \/ mishaps > 0
      /\ \A u \in Thread : u # t /\ SetsUp(u) => call[u].room # r
      /\ \A b \in alerts : b.room # r
  BY <1>1, OwnRoom DEF SetsUp
<1>4. /\ e \in Event /\ Of(e) \in asked /\ Kind(e) \in {"summary", "submit"}
  BY <1>1 DEF RoomsInv, TypeOK, OnlyAskedPage, ServesRequest, SetsUp
<1>5. a \in Alert /\ a.room = r /\ a.of = Of(e)
  BY <1>3, <1>4, EventShape DEF Alert, Request
<1> HIDE DEF a, e, r
<1>6. /\ call \in [Thread -> Call]
      /\ \A u \in Thread : call'[u] = IF u = t THEN c ELSE call[u]
  BY <1>2 DEF RoomsInv, TypeOK, Call
<1>7. \A q : Alerted(q) => \E b \in alerts' : b.of = q
  BY <1>1 DEF Alerted
<1>8. \E b \in alerts' : b.of = Of(e)
  BY <1>1, <1>5
<1>9. TypeOK'
  <2>1. call' \in [Thread -> Call]
    BY <1>2, <1>6
  <2>2. \A u \in Thread : call'[u].at = "clean" => Kind(call'[u].event) = "submit"
    BY <1>2, <1>6 DEF RoomsInv, TypeOK
  <2> QED BY <1>1, <1>5, <2>1, <2>2 DEF RoomsInv, TypeOK, Call
<1>10. \A u \in Thread : call'[u].at \in {"invite", "tell", "page"} =>
         u # t /\ call'[u] = call[u] /\ SetsUp(u)
  BY <1>2, <1>6 DEF SetsUp
<1>11. RoomsOwned'
  <2>1. \A b \in alerts' : room[b.room].at # "unused"
    BY <1>1, <1>3, <1>5 DEF RoomsInv, RoomsOwned
  <2> SUFFICES ASSUME NEW u \in Thread, call'[u].at \in {"invite", "tell", "page"}
               PROVE  /\ call'[u].room \in Room /\ room[call'[u].room].at # "unused"
                      /\ \A v \in Thread : call'[v].at \in {"invite", "tell", "page"}
                                           /\ call'[v].room = call'[u].room => v = u
                      /\ \A b \in alerts' : b.room # call'[u].room
    BY <1>1, <2>1 DEF RoomsOwned, SetsUp
  <2>2. u # t /\ call'[u] = call[u] /\ SetsUp(u)
    BY <1>10
  <2>3. \A b \in alerts' : b.room # call[u].room
    BY <1>1, <1>3, <1>5, <2>2 DEF RoomsInv, RoomsOwned
  <2> QED BY <1>10, <2>2, <2>3 DEF RoomsInv, RoomsOwned
<1>12. StagesDone'
  BY <1>1, <1>10 DEF RoomsInv, StagesDone
<1>13. ServesRequest'
  <2> SUFFICES ASSUME NEW u \in Thread
               PROVE  /\ call'[u].at \in {"invite", "tell", "page", "create"}
                           => Kind(call'[u].event) \in {"summary", "submit"}
                      /\ call'[u].at = "clean" => \/ Of(call'[u].event) \in excused
                                                  \/ \E b \in alerts' : b.of = Of(call'[u].event)
    BY <1>1 DEF ServesRequest, SetsUp, Alerted
  <2>1. CASE u = t
    BY <1>2, <1>6, <1>8, <2>1
  <2>2. CASE u # t
    BY <1>6, <1>7, <2>2 DEF RoomsInv, ServesRequest, SetsUp
  <2> QED BY <2>1, <2>2
<1>14. OnlyAskedPage'
  <2>1. \A u \in Thread : call'[u].at # "idle" => Of(call'[u].event) \in asked
    BY <1>2, <1>4, <1>6 DEF RoomsInv, OnlyAskedPage
  <2>2. \A b \in alerts' : b.of \in asked
    BY <1>1, <1>4, <1>5 DEF RoomsInv, OnlyAskedPage
  <2> QED BY <1>1, <2>1, <2>2 DEF RoomsInv, OnlyAskedPage
<1>15. AlertedRoomsReady'
  BY <1>1, <1>3, <1>5 DEF RoomsInv, AlertedRoomsReady
<1>16. CardsKeptForAsker'
  <2>1. \A k \in Card : card[k] = "gone" => k \in excused \/ Alerted(k)
    BY DEF RoomsInv, CardsKeptForAsker
  <2>2. \A k \in Card : card[k] = "gone" => k \in excused \/ \E b \in alerts' : b.of = k
    BY <1>7, <2>1
  <2> QED BY <1>1, <2>2 DEF CardsKeptForAsker, Alerted
<1>17. FewCopies'
  BY <1>1 DEF RoomsInv, FewCopies
<1> QED BY <1>9, <1>11, <1>12, <1>13, <1>14, <1>15, <1>16, <1>17 DEF RoomsInv

-----------------------------------------------------------------------------
LEMMA NextKeeps == RoomsInv /\ [Next]_vars => RoomsInv'
<1> SUFFICES ASSUME RoomsInv, [Next]_vars PROVE RoomsInv'
  OBVIOUS
<1>1. CASE Deploy \/ UNCHANGED vars
  <2>1. /\ UNCHANGED <<card, inbox, room, alerts, call, asked, excused, posted, mishaps>>
        /\ high' \in BOOLEAN
    BY <1>1 DEF Deploy, history, vars, RoomsInv, TypeOK
  <2> QED BY <2>1 DEF RoomsInv, TypeOK, RoomsOwned, StagesDone, ServesRequest, FewCopies,
          OnlyAskedPage, AlertedRoomsReady, CardsKeptForAsker, SetsUp, Alerted
<1>2. ASSUME NEW t \in Thread, CallStep(t) PROVE RoomsInv'
  BY <1>2, SendCardKeeps, CreateRoomKeeps, AddMembersKeeps, TellSummaryKeeps, EngineLeftKeeps,
     PageKeeps, CleanCardKeeps, ImplodeKeeps DEF CallStep
<1> QED BY <1>1, <1>2, PeopleKeep, LoseKeeps, DeliverKeeps, BreaksKeeps DEF Next

LEMMA RoomsInvariant == Spec => []RoomsInv
<1> QED BY InitRooms, NextKeeps, PTL DEF Spec

(* Every value of the state is of its type; in particular no event is ever *)
(* under way more often than it was posted and doubled, and only a         *)
(* submitted card is taken away.                                           *)
THEOREM RoomsTyped == Spec => []TypeOK
<1>1. RoomsInv => TypeOK
  BY DEF RoomsInv
<1> QED BY <1>1, RoomsInvariant, PTL

(* Whoever is alerted finds a room of this alert alone, with the summary   *)
(* and, but for mishaps, everybody in it (create_incident_room).           *)
THEOREM AlertsHaveReadyRooms == Spec => []AlertedRoomsReady
<1>1. RoomsInv => AlertedRoomsReady
  BY DEF RoomsInv
<1> QED BY <1>1, RoomsInvariant, PTL

(* A card disappears only after its own request was alerted or hit by a    *)
(* mishap (handle_actions).                                                *)
THEOREM CardsOutliveOtherRequests == Spec => []CardsKeptForAsker
<1>1. RoomsInv => CardsKeptForAsker
  BY DEF RoomsInv
<1> QED BY <1>1, RoomsInvariant, PTL

(* Nobody is paged for a request nobody made, however events are doubled,  *)
(* cards submitted again and deployments changed (handle_event).           *)
THEOREM NobodyIsPagedUnasked == Spec => []OnlyAskedPage
<1>1. RoomsInv => OnlyAskedPage
  BY DEF RoomsInv
<1> QED BY <1>1, RoomsInvariant, PTL
-----------------------------------------------------------------------------
(* The refinement of HelpDesk.  What neither the table of requests, nor    *)
(* the alerts, nor a card, nor what was said in a room shows is a stutter. *)
LEMMA Unseen ==
  ASSUME UNCHANGED <<card, alerts, asked, excused>>,
         \A r \in Room : room'[r].told = room[r].told
  PROVE  [Desk!DeskNext]_(Desk!dvars)
BY DEF Desk!dvars

LEMMA Excuses ==
  ASSUME NEW e \in Event, Of(e) \in asked, Excuse(e), UNCHANGED <<card, room, alerts, asked>>
  PROVE  [Desk!DeskNext]_(Desk!dvars)
<1>1. CASE Of(e) \in Request
  <2>1. Desk!Fail(Of(e))
    BY <1>1 DEF Excuse, Desk!Fail
  <2> QED BY <1>1, <2>1 DEF Desk!DeskNext
<1>2. CASE Of(e) \notin Request
  <2>1. UNCHANGED excused
    BY <1>2 DEF Excuse
  <2> QED BY <2>1, Unseen
<1> QED BY <1>1, <1>2

LEMMA WriteMakes ==
  ASSUME RoomsInv, NEW e \in Event, Write(e) PROVE [Desk!DeskNext]_(Desk!dvars)
<1>1. /\ Of(e) \notin asked /\ asked' = asked \cup {Of(e)}
      /\ UNCHANGED <<card, room, alerts, excused>>
  BY DEF Write, CanWrite
<1>2. CASE Of(e) \in Request
  <2>1. Desk!Make(Of(e))
    BY <1>1, <1>2 DEF Desk!Make
  <2> QED BY <1>2, <2>1 DEF Desk!DeskNext
<1>3. CASE Of(e) \notin Request
  BY <1>1, <1>3 DEF Desk!dvars
<1> QED BY <1>2, <1>3

(* A card that is shown or taken away, if it is one of the bot's.          *)
LEMMA CardChanges ==
  ASSUME RoomsInv, NEW k \in Card, NEW c \in {"plain", "toggle", "gone"},
         card' = [card EXCEPT ![k] = c], UNCHANGED <<room, alerts, asked, excused>>,
         k \in asked,
         c = "gone" => k \in excused \/ Alerted(k)
  PROVE  Desk!DeskNext
<1> DEFINE On(d) == IF d \in {"plain", "toggle"} THEN "shown" ELSE d
<1>1. card \in [Card -> {"none", "plain", "toggle", "gone"}]
  BY DEF RoomsInv, TypeOK
<1>2. [j \in Card |-> On(card'[j])] = [[j \in Card |-> On(card[j])] EXCEPT ![k] = On(c)]
  BY <1>1
<1>3. CASE c = "gone"
  <2>1. Desk!Withdraw(k)
    BY <1>2, <1>3 DEF Desk!Withdraw, Alerted
  <2> QED BY <2>1 DEF Desk!DeskNext
<1>4. CASE c # "gone"
  <2>1. k \in asked \cap Request
    BY DEF Request
  <2>2. Desk!Show(k)
    BY <1>2, <1>4, <2>1 DEF Desk!Show
  <2> QED BY <2>2 DEF Desk!DeskNext
<1> QED BY <1>3, <1>4

LEMMA TellPrepares ==
  ASSUME RoomsInv, NEW t \in Thread, TellSummary(t) PROVE Desk!DeskNext
<1>1. /\ call[t].at = "tell" /\ call[t].room \in Room
      /\ \A a \in alerts : a.room # call[t].room
  BY OwnRoom DEF TellSummary, SetsUp
<1>2. PICK r \in Room : r = call[t].room
  BY <1>1
<1>3. /\ room[r].at = "open" /\ room' = [room EXCEPT ![r].told = (@ \/ room[r].at = "open")]
      /\ UNCHANGED <<card, alerts, asked, excused>>
  BY <1>2 DEF TellSummary, Tells, history
<1>4. room \in [Room -> RoomState]
  BY DEF RoomsInv, TypeOK
<1>5. room'[r].told /\ \A q \in Room : q # r => room'[q] = room[q]
  BY <1>3, <1>4 DEF RoomState
<1>6. {q \in Room : room'[q].told} = {q \in Room : room[q].told} \cup {r}
  BY <1>5
<1>7. Desk!Prepare(r)
  BY <1>1, <1>2, <1>3, <1>6 DEF Desk!Prepare
<1> QED BY <1>7 DEF Desk!DeskNext

LEMMA PagePages ==
  ASSUME RoomsInv, NEW t \in Thread, Page(t) PROVE Desk!DeskNext
<1> DEFINE r == call[t].room
           e == call[t].event
<1>1. /\ call[t].at = "page"
      /\ alerts' = alerts \cup {[room |-> r, of |-> Of(e), urgent |-> Urgent(e)]}
      /\ UNCHANGED <<card, room, asked, excused>>
  BY DEF Page, history
<1>2. r \in Room /\ room[r].told /\ \A a \in alerts : a.room # r
  BY <1>1, OwnRoom DEF SetsUp
<1>3. e \in Event /\ Of(e) \in asked /\ Kind(e) \in {"summary", "submit"}
  BY <1>1 DEF RoomsInv, TypeOK, OnlyAskedPage, ServesRequest, SetsUp
<1>4. Of(e) \in asked \cap Request /\ Urgent(e) \in BOOLEAN
  BY <1>3, EventShape DEF Request
<1> HIDE DEF r, e
<1>5. Desk!PageIn(Of(e), r, Urgent(e))
  BY <1>1, <1>2, <1>4 DEF Desk!PageIn
<1> QED BY <1>2, <1>4, <1>5 DEF Desk!DeskNext

LEMMA CallServes ==
  ASSUME RoomsInv, NEW t \in Thread, CallStep(t) \/ Breaks(t)
  PROVE  [Desk!DeskNext]_(Desk!dvars)
<1> DEFINE e == call[t].event
<1>0. /\ e \in Event /\ (call[t].at # "idle" => Of(e) \in asked)
      /\ room \in [Room -> RoomState]
  BY DEF RoomsInv, TypeOK, OnlyAskedPage
<1>1. CASE SendCard(t)
  <2>1. /\ card' = [card EXCEPT ![Of(e)] = Shown] /\ Of(e) \in asked
        /\ UNCHANGED <<room, alerts, asked, excused>> /\ Shown \in {"plain", "toggle"}
    BY <1>0, <1>1 DEF SendCard, history, Shown
  <2>2. CASE Of(e) \in Card
    BY <2>1, <2>2, CardChanges
  <2>3. CASE Of(e) \notin Card
    <3>1. UNCHANGED card
      BY <2>1, <2>3 DEF RoomsInv, TypeOK
    <3> QED BY <2>1, <3>1, Unseen
  <2> QED BY <2>2, <2>3
<1>2. CASE CreateRoom(t)
  <2>1. \A r \in Room : room'[r].told = room[r].told
    BY <1>0, <1>2 DEF CreateRoom, RoomState
  <2> QED BY <1>2, <2>1, Unseen DEF CreateRoom, history
<1>3. CASE AddMembers(t)
  <2>1. \A r \in Room : room'[r].told = room[r].told
    BY <1>0, <1>3 DEF AddMembers, RoomState
  <2> QED BY <1>3, <2>1, Unseen DEF AddMembers, history
<1>4. CASE TellFails(t) \/ EngineFails(t) \/ Breaks(t)
  <2>1. /\ Of(e) \in asked /\ Excuse(e) /\ UNCHANGED <<card, room, alerts, asked>>
    BY <1>0, <1>4 DEF TellFails, EngineFails, Breaks
  <2> HIDE DEF e
  <2> QED BY <1>0, <2>1, Excuses
<1>5. CASE CleanCard(t)
  <2>1. /\ call[t].at = "clean" /\ UNCHANGED <<room, alerts, asked, excused>>
        /\ card' = [card EXCEPT ![Of(e)] = "gone"] \/ UNCHANGED card
    BY <1>5 DEF CleanCard, history
  <2>2. Of(e) \in Card /\ Of(e) \in asked /\ (Of(e) \in excused \/ Alerted(Of(e)))
    BY <1>0, <2>1, EventShape DEF RoomsInv, TypeOK, ServesRequest
  <2>3. CASE UNCHANGED card
    BY <2>1, <2>3, Unseen
  <2>4. CASE card' = [card EXCEPT ![Of(e)] = "gone"]
    BY <2>1, <2>2, <2>4, CardChanges
  <2> QED BY <2>1, <2>3, <2>4
<1>6. CASE Implode(t)
  <2>1. \A r \in Room : room'[r].told = room[r].told
    BY <1>0, <1>6 DEF Implode, RoomState
  <2> QED BY <1>6, <2>1, Unseen DEF Implode, history
<1>7. CASE TellSummary(t) \/ Page(t)
  BY <1>7, TellPrepares, PagePages
<1> QED BY <1>1, <1>2, <1>3, <1>4, <1>5, <1>6, <1>7 DEF CallStep

LEMMA StepServes ==
  ASSUME RoomsInv, [Next]_vars PROVE [Desk!DeskNext]_(Desk!dvars)
<1>1. CASE UNCHANGED vars \/ Deploy \/ \E e \in Event : Submit(e) \/ Duplicate(e)
  BY <1>1, Unseen DEF vars, Deploy, Submit, Duplicate, history
<1>2. ASSUME NEW e \in Event, Lose(e) PROVE [Desk!DeskNext]_(Desk!dvars)
  <2>1. Of(e) \in asked
    BY <1>2 DEF Lose, RoomsInv, OnlyAskedPage
  <2> QED BY <1>2, <2>1, Excuses DEF Lose
<1>3. ASSUME NEW t \in Thread, NEW e \in Event, Deliver(t, e)
      PROVE  [Desk!DeskNext]_(Desk!dvars)
  <2>1. Of(e) \in asked /\ UNCHANGED <<card, room, alerts, asked>>
    BY <1>3 DEF Deliver, RoomsInv, OnlyAskedPage
  <2>2. Excuse(e) \/ UNCHANGED excused
    BY <1>3 DEF Deliver
  <2> QED BY <2>1, <2>2, Excuses, Unseen
<1> QED BY <1>1, <1>2, <1>3, WriteMakes, CallServes DEF Next

(* handle_event, create_incident_room and handle_actions implement         *)
(* HelpDesk.                                                               *)
THEOREM RoomsServeTheDesk == Spec => RefinesDesk
<1>1. Init => Desk!DeskInit
  BY DEF Init, Desk!DeskInit
<1>2. RoomsInv /\ [Next]_vars => [Desk!DeskNext]_(Desk!dvars)
  BY StepServes
<1> QED BY <1>1, <1>2, RoomsInvariant, PTL DEF Spec, RefinesDesk, Desk!DeskSpec
================================================================================
