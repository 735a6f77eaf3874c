------------------------------ MODULE JiraAlerts ------------------------------
(***************************************************************************)
(* The Jira alert plugin of Thaum (alerts/plugins/jira): how an alert      *)
(* requested in a chat room becomes a Jira alert, how the events Jira      *)
(* sends back find their way to that room, and how "ack <short id>" typed  *)
(* in a room finds the Jira alert.                                         *)
(*                                                                         *)
(* The link between the two worlds is the table jira_alert_map.  Every     *)
(* request and every webhook is served by some worker thread, and a        *)
(* handler reads and writes the table in transactions of its own, so the   *)
(* steps of triggers, webhooks and ack commands interleave.  Jira and the  *)
(* network are modelled from their use: a POST may be accepted although    *)
(* its answer is lost; an event may be lost, duplicated, delayed or        *)
(* overtaken, and is delivered to every bot that shares the Jira site.     *)
(***************************************************************************)
EXTENDS Naturals, FiniteSets

CONSTANTS
  Request,      \* calls of trigger_alert over the history considered
  Bot,          \* bot keys
  Room,         \* chat rooms
  ShortId,      \* tracking ids _generate_short_id can draw
  LastDay,      \* bound: UTC days 0..LastDay
  BotOf,        \* the bot each request is made to
  RoomOf,       \* the room each request is made in
  UserAction,   \* what Jira users may do to an alert
  Acking,       \* requests in whose room somebody types an ack
  Threads,      \* bound: status webhooks handled at the same time
  Unreliable,   \* whether webhooks may be delivered more than once
  Faulty,       \* whether HTTP calls and transactions may fail
  NoAlert, NoRoom

Day == 0..LastDay
Alias == [day : Day, sid : ShortId]
Action == UserAction \cup {"Create"}
(* An alert in Jira is named by the request whose POST created it.         *)
Event == [action : Action, alert : Request]

ASSUME JiraAssumption ==
  /\ LastDay \in Nat
  /\ BotOf \in [Request -> Bot]
  /\ RoomOf \in [Request -> Room]
  /\ Acking \subseteq Request
  /\ Threads \in Nat
  /\ "Acknowledge" \in UserAction
  /\ UserAction \subseteq {"Acknowledge", "UnAcknowledge", "Escalate", "Close"}
  /\ Unreliable \in BOOLEAN /\ Faulty \in BOOLEAN
  /\ NoAlert \notin Request
  /\ NoRoom \notin Room

VARIABLES
  today,    \* the UTC date
  phase,    \* where each trigger_alert call is
  aliasOf,  \* the alias build_trigger_alert_body made, as a set of at most one
  created,  \* alerts that exist in Jira
  rows,     \* the table jira_alert_map
  net,      \* events on their way to a bot's status webhook
  sent,     \* history: events Jira has emitted
  hook,     \* the status-webhook handler of each bot and event
  ack,      \* the ack command of each announced request
  said,     \* history: messages posted in rooms
  acked     \* history: for which request's ack which alert was acknowledged

vars == <<today, phase, aliasOf, created, rows, net, sent, hook, ack, said, acked>>

(* A row: its key is bot and alias; jid is NULL until Create links it.     *)
RowType == [bot : Bot, alias : Alias, sid : ShortId, room : Room,
            jid : Request \cup {NoAlert}]

Phase == {"new", "built", "posted", "stored", "announced", "failed"}
HookIdle == [at |-> "idle", room |-> NoRoom]
HookState == [at : {"idle", "link", "byAlias", "say"}, room : Room \cup {NoRoom}]
AckIdle == [at |-> "idle", alert |-> NoAlert, room |-> NoRoom, alias |-> {}]
AckState == [at : {"idle", "lookup", "resolve", "post", "assign"},
             alert : Request \cup {NoAlert}, room : Room \cup {NoRoom},
             alias : SUBSET Alias]

Init ==
  /\ today = 0
  /\ phase = [r \in Request |-> "new"]
  /\ aliasOf = [r \in Request |-> {}]
  /\ created = {}
  /\ rows = {}
  /\ net = {} /\ sent = {}
  /\ hook = [x \in Bot \X Event |-> HookIdle]
  /\ ack = [r \in Request |-> AckIdle]
  /\ said = {}
  /\ acked = {}

triggerVars == <<phase, aliasOf>>
jiraVars == <<created, net, sent>>
history == <<said, acked>>

Emitted(e) == /\ sent' = sent \cup {e}
              /\ net' = net \cup (Bot \X {e})
Tell(room, e) == said' = said \cup {[room |-> room, action |-> e.action, alert |-> e.alert]}
SetHook(b, e, at, room) == hook' = [hook EXCEPT ![<<b, e>>] = [at |-> at, room |-> room]]
At(r, where) == phase' = [phase EXCEPT ![r] = where]

(* A date nobody draws an id on any more makes no difference.              *)
NextDay ==
  /\ today < LastDay
  /\ \E r \in Request : phase[r] = "new"
  /\ today' = today + 1
  /\ UNCHANGED <<triggerVars, jiraVars, rows, hook, ack, history>>

--------------------------------------------------------------------------------
(* trigger_alert, and the message that announces the short id.             *)

(* The short id is drawn without memory: the same id may come again, on a  *)
(* later day or on the same one, where it makes the same alias.            *)
BuildAlert(r) ==
  /\ phase[r] = "new"
  /\ \E sid \in ShortId : aliasOf' = [aliasOf EXCEPT ![r] = {[day |-> today, sid |-> sid]}]
  /\ At(r, "built")
  /\ UNCHANGED <<today, jiraVars, rows, hook, ack, history>>

(* post_alert and raise_for_status.                                        *)
PostAlert(r) ==
  /\ phase[r] = "built"
  /\ created' = created \cup {r}
  /\ Emitted([action |-> "Create", alert |-> r])
  /\ \E answered \in IF Faulty THEN BOOLEAN ELSE {TRUE} :
       At(r, IF answered THEN "posted" ELSE "failed")
  /\ UNCHANGED <<today, aliasOf, rows, hook, ack, history>>

PostRefused(r) ==
  /\ Faulty
  /\ phase[r] = "built"
  /\ At(r, "failed")
  /\ UNCHANGED <<today, aliasOf, jiraVars, rows, hook, ack, history>>

Keyed(b, al) == {w \in rows : w.bot = b /\ w.alias = al}

(* upsert_pending_row: insert, or refresh sid and room of the row there.   *)
Upsert(b, al, room) ==
  IF Keyed(b, al) = {}
  THEN rows \cup {[bot |-> b, alias |-> al, sid |-> al.sid, room |-> room, jid |-> NoAlert]}
  ELSE (rows \ Keyed(b, al))
         \cup {[w EXCEPT !.sid = al.sid, !.room = room] : w \in Keyed(b, al)}

StoreRow(r) ==
  /\ phase[r] = "posted"
  /\ \E al \in aliasOf[r] : rows' = Upsert(BotOf[r], al, RoomOf[r])
  /\ At(r, "stored")
  /\ UNCHANGED <<today, aliasOf, jiraVars, hook, ack, history>>

(* The transaction fails: the exception leaves trigger_alert.              *)
StoreFails(r) ==
  /\ Faulty
  /\ phase[r] = "posted"
  /\ At(r, "failed")
  /\ UNCHANGED <<today, aliasOf, jiraVars, rows, hook, ack, history>>

(* Mutant: the short id is announced before the row is written.            *)
AnnounceEarly(r) ==
  /\ phase[r] = "posted"
  /\ At(r, "announced")
  /\ UNCHANGED <<today, aliasOf, jiraVars, rows, hook, ack, history>>

(* "Alert sent. Tracking ID: ..." in the room of the request.              *)
Announce(r) ==
  /\ phase[r] = "stored"
  /\ At(r, "announced")
  /\ UNCHANGED <<today, aliasOf, jiraVars, rows, hook, ack, history>>

--------------------------------------------------------------------------------
(* Jira: what its users do to an alert, and the delivery of its events.    *)

UserActs(r) ==
  /\ r \in created
  /\ \E a \in UserAction :
       LET e == [action |-> a, alert |-> r]
       IN  e \notin sent /\ Emitted(e)
  /\ UNCHANGED <<today, triggerVars, created, rows, hook, ack, history>>

(* Unreliable delivery leaves a delivered event to be delivered again, any *)
(* number of times; one that is lost is one that is never delivered.       *)
Arrives(b, e) ==
  /\ <<b, e>> \in net
  /\ hook[b, e].at = "idle"
  /\ Cardinality({x \in Bot \X Event : hook[x].at # "idle"}) < Threads
  /\ net' = IF Unreliable THEN net ELSE net \ {<<b, e>>}

--------------------------------------------------------------------------------
(* handle_jira_status_webhook.                                             *)

(* Create: mapping_for_alias supplies the fallback room.                   *)
ReceiveCreate(b, e) ==
  /\ e.action = "Create"
  /\ Arrives(b, e)
  /\ \E al \in aliasOf[e.alert] :
       \E room \in IF Keyed(b, al) = {} THEN {NoRoom} ELSE {w.room : w \in Keyed(b, al)} :
         SetHook(b, e, "link", room)
  /\ UNCHANGED <<today, triggerVars, created, sent, rows, ack, history>>

(* Mutants: the row found by short id instead of by alias; and a row made  *)
(* although no room is known.                                              *)
LinkedBySid(b, al, jid, room) ==
  {IF w.bot = b /\ w.sid = al.sid THEN [w EXCEPT !.jid = jid] ELSE w : w \in rows}
LinkedWithoutRoom(b, al, jid, room) ==
  IF Keyed(b, al) # {}
  THEN (rows \ Keyed(b, al)) \cup {[w EXCEPT !.jid = jid] : w \in Keyed(b, al)}
  ELSE rows \cup {[bot |-> b, alias |-> al, sid |-> al.sid, room |-> room, jid |-> jid]}

(* apply_create_webhook: set the alert id of the row, or insert a row when *)
(* there is none and a fallback room is known; jid is unique over the      *)
(* table, so a second row with it fails the transaction.                   *)
Linked(b, al, jid, room) ==
  IF \E w \in rows \ Keyed(b, al) : w.jid = jid THEN rows
  ELSE IF Keyed(b, al) # {}
  THEN (rows \ Keyed(b, al)) \cup {[w EXCEPT !.jid = jid] : w \in Keyed(b, al)}
  ELSE rows \cup {[bot |-> b, alias |-> al, sid |-> al.sid, room |-> room, jid |-> jid] :
                    x \in {room} \ {NoRoom}}

ApplyCreate(b, e) ==
  /\ hook[b, e].at = "link"
  /\ \E al \in aliasOf[e.alert] : rows' = Linked(b, al, e.alert, hook[b, e].room)
  /\ hook' = [hook EXCEPT ![<<b, e>>] = HookIdle]
  /\ UNCHANGED <<today, triggerVars, jiraVars, ack, history>>

(* Other actions: mapping_for_jira_alert_id, ...                           *)
ByJiraId(b, jid) == {w \in rows : w.bot = b /\ w.jid = jid}

ReceiveStatus(b, e) ==
  /\ e.action # "Create"
  /\ Arrives(b, e)
  /\ LET hits == ByJiraId(b, e.alert)
     IN  IF hits = {} THEN SetHook(b, e, "byAlias", NoRoom)
         ELSE \E w \in hits : SetHook(b, e, "say", w.room)
  /\ UNCHANGED <<today, triggerVars, created, sent, rows, ack, history>>

(* Mutants: the fallback dropped, and made by the short id of the alias.   *)
NoFallback(b, al) == {}
FallbackBySid(b, al) == {w \in rows : w.bot = b /\ w.sid = al.sid}

(* ... then mapping_for_alias; an event neither finds is dropped.          *)
Fallback(b, al) == Keyed(b, al)

LookupAlias(b, e) ==
  /\ hook[b, e].at = "byAlias"
  /\ \E al \in aliasOf[e.alert] :
       IF Fallback(b, al) = {} THEN SetHook(b, e, "idle", NoRoom)
       ELSE \E w \in Fallback(b, al) : SetHook(b, e, "say", w.room)
  /\ UNCHANGED <<today, triggerVars, jiraVars, rows, ack, history>>

(* Acknowledge and UnAcknowledge are always told; Escalate when configured *)
(* and Close when the alert is recent, which is left open.                 *)
ToldChoices(action) ==
  IF action \in {"Acknowledge", "UnAcknowledge"} THEN {TRUE} ELSE BOOLEAN

SayStatus(b, e) ==
  /\ hook[b, e].at = "say"
  /\ \E told \in ToldChoices(e.action) :
       IF told THEN Tell(hook[b, e].room, e) ELSE UNCHANGED said
  /\ hook' = [hook EXCEPT ![<<b, e>>] = HookIdle]
  /\ UNCHANGED <<today, triggerVars, jiraVars, rows, ack, acked>>

HookStep(b, e) == ApplyCreate(b, e) \/ LookupAlias(b, e) \/ SayStatus(b, e)

--------------------------------------------------------------------------------
(* "ack <short id>", typed in the room the id was announced in.            *)

AckCommand(r) ==
  /\ r \in Acking
  /\ phase[r] = "announced"
  /\ ack[r].at = "idle"
  /\ ack' = [ack EXCEPT ![r] = [AckIdle EXCEPT !.at = "lookup"]]
  /\ UNCHANGED <<today, triggerVars, jiraVars, rows, hook, history>>

(* Mutant: the lookup forgets the short id.                                *)
ByBotOnly(r) == {w \in rows : w.bot = BotOf[r]}

(* mapping_for_short_id: the rows its query selects.                       *)
BySid(r) == {w \in rows : w.bot = BotOf[r] /\ \E al \in aliasOf[r] : w.sid = al.sid}

(* .first() takes any of them: the query has no order.                     *)
AckLookup(r) ==
  /\ ack[r].at = "lookup"
  /\ IF BySid(r) = {} THEN ack' = [ack EXCEPT ![r] = AckIdle]
     ELSE \E w \in BySid(r) :
            ack' = [ack EXCEPT ![r] =
                      [at |-> IF w.jid = NoAlert THEN "resolve" ELSE "post",
                       alert |-> w.jid, room |-> w.room, alias |-> {w.alias}]]
  /\ UNCHANGED <<today, triggerVars, jiraVars, rows, hook, history>>

(* _lookup_alert_id_by_alias: Jira may not know the alias yet.             *)
AckResolve(r) ==
  /\ ack[r].at = "resolve"
  /\ \/ \E q \in created :
          /\ aliasOf[q] = ack[r].alias
          /\ ack' = [ack EXCEPT ![r].at = "post", ![r].alert = q]
     \/ Faulty /\ ack' = [ack EXCEPT ![r] = AckIdle]
  /\ UNCHANGED <<today, triggerVars, jiraVars, rows, hook, history>>

(* POST .../acknowledge; Jira emits the event if it was not acknowledged.  *)
AckPost(r) ==
  /\ ack[r].at = "post"
  /\ LET e == [action |-> "Acknowledge", alert |-> ack[r].alert]
     IN  IF e \in sent THEN UNCHANGED <<sent, net>> ELSE Emitted(e)
  /\ acked' = acked \cup {[request |-> r, alert |-> ack[r].alert]}
  /\ ack' = [ack EXCEPT ![r].at = "assign"]
  /\ UNCHANGED <<today, triggerVars, created, rows, hook, said>>

AckRefused(r) ==
  /\ Faulty
  /\ ack[r].at = "post"
  /\ ack' = [ack EXCEPT ![r] = AckIdle]
  /\ UNCHANGED <<today, triggerVars, jiraVars, rows, hook, history>>

(* POST .../assign; a failure is told in the room of the row.              *)
AckAssign(r) ==
  /\ ack[r].at = "assign"
  /\ \E failed \in IF Faulty THEN BOOLEAN ELSE {FALSE} :
       IF failed THEN Tell(ack[r].room, [action |-> "AssignFailed", alert |-> ack[r].alert])
       ELSE UNCHANGED said
  /\ ack' = [ack EXCEPT ![r] = AckIdle]
  /\ UNCHANGED <<today, triggerVars, jiraVars, rows, hook, acked>>

TriggerStep(r) == BuildAlert(r) \/ PostAlert(r) \/ StoreRow(r) \/ Announce(r)
AckStep(r) == AckLookup(r) \/ AckResolve(r) \/ AckPost(r) \/ AckAssign(r)

Next ==
  \/ NextDay
  \/ \E r \in Request :
       \/ TriggerStep(r) \/ PostRefused(r) \/ StoreFails(r) \/ UserActs(r)
       \/ AckCommand(r) \/ AckStep(r) \/ AckRefused(r)
  \/ \E b \in Bot, e \in Event :
       ReceiveCreate(b, e) \/ ReceiveStatus(b, e) \/ HookStep(b, e)

(* A call that has begun goes on, and an event Jira has emitted is         *)
(* delivered.  Nobody has to request, acknowledge or repeat anything.      *)
Fairness ==
  /\ \A r \in Request : WF_vars(PostAlert(r) \/ StoreRow(r) \/ Announce(r))
  /\ \A b \in Bot, e \in Event :
       WF_vars(ReceiveCreate(b, e) \/ ReceiveStatus(b, e) \/ HookStep(b, e))

Spec == Init /\ [][Next]_vars
FairSpec == Spec /\ Fairness

--------------------------------------------------------------------------------
(* Properties.                                                             *)

(* Every variable stays in its type: in particular every row names a room, *)
(* so an event that finds a row finds a room.                              *)
TypeOK ==
  /\ today \in Day
  /\ phase \in [Request -> Phase]
  /\ aliasOf \in [Request -> SUBSET Alias]
  /\ created \subseteq Request
  /\ rows \subseteq RowType
  /\ net \subseteq Bot \X Event
  /\ sent \subseteq Event
  /\ hook \in [Bot \X Event -> HookState]
  /\ ack \in [Request -> AckState]
  /\ said \subseteq [room : Room, action : Action \cup {"AssignFailed"}, alert : Request]
  /\ acked \subseteq [request : Request, alert : Request]

(* The requests whose alert has the alias of r's: r alone, unless the same *)
(* short id was drawn twice on one day, by one bot or by two.              *)
Namesakes(r) == {q \in Request : aliasOf[q] # {} /\ aliasOf[q] = aliasOf[r]}
SameSid(q, r) == \E a \in aliasOf[q], c \in aliasOf[r] : a.sid = c.sid

(* Whatever is told about an alert (its status, a failed assignment) is    *)
(* told in the room that asked for it, although every bot gets every event *)
(* in any order, twice or late, and short ids come again on later days.    *)
(* Only a room that asked for an alert with the very same alias, the same  *)
(* id drawn again on the same day, can be taken for it.                    *)
ToldInOrigin ==
  \A t \in said : \E q \in Namesakes(t.alert) : t.room = RoomOf[q]

(* A row is only ever linked to an alert that carries the row's alias, and *)
(* that was requested from the row's bot unless another bot drew the same  *)
(* id on the same day.                                                     *)
LinkedRight ==
  \A w \in rows :
    w.jid # NoAlert =>
      aliasOf[w.jid] = {w.alias} /\ \E q \in Namesakes(w.jid) : BotOf[q] = w.bot

(* When a room reads its tracking id, the row that routes the alert's      *)
(* events, and the ack of that id, is already there and names that room,   *)
(* or that of a later request to the bot that drew the same id that day.   *)
AnnouncedRoutable ==
  \A r \in Request :
    phase[r] = "announced" =>
      \E w \in rows : /\ w.bot = BotOf[r] /\ aliasOf[r] = {w.alias}
                      /\ \E q \in Namesakes(r) : BotOf[q] = BotOf[r] /\ w.room = RoomOf[q]

(* "ack <id>" typed to a bot acknowledges an alert this bot announced with *)
(* that id, whatever webhooks were lost or doubled before.  It is the one  *)
(* of the room the ack is typed in as long as the id was drawn once: the   *)
(* table keeps the rows of earlier days and the query has no order.        *)
AckHitsItsAlert ==
  \A k \in acked :
    \E q \in Namesakes(k.alert) : BotOf[q] = BotOf[k.request] /\ SameSid(q, k.request)

AckEvent(r) == [action |-> "Acknowledge", alert |-> r]
AckTold(r) ==
  \E q \in Namesakes(r) : [room |-> RoomOf[q], action |-> "Acknowledge", alert |-> r] \in said

(* An acknowledgement on its way while the row is stored is told in the    *)
(* room in the end, also when it overtakes the alert's Create event, which *)
(* alone sets the alert id of the row.                                     *)
StoredAckIsTold ==
  \A r \in Request :
    (<<BotOf[r], AckEvent(r)>> \in net /\ phase[r] \in {"stored", "announced"})
      ~> AckTold(r)

(* The same for an acknowledgement that arrives before trigger_alert has   *)
(* written the row, the case the documented pending-event buffer is for.   *)
EarlyAckIsTold ==
  \A r \in Request :
    <<BotOf[r], AckEvent(r)>> \in net ~> (AckTold(r) \/ phase[r] = "failed")
================================================================================
