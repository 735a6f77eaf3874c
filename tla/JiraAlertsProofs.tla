--------------------------- MODULE JiraAlertsProofs ---------------------------
(***************************************************************************)
(* Theorems about JiraAlerts, for any sets of requests, bots, rooms and    *)
(* short ids, any number of days, lossy or duplicating delivery and any    *)
(* number of webhook threads.                                              *)
(*                                                                         *)
(* The argument: nothing ties an alias to one request, for ids are drawn   *)
(* without memory.  But a row was written by some request whose alias it   *)
(* has (RowInv), so whatever a handler has read from a row belongs to a    *)
(* request with the alias of its alert, and stays so while the table       *)
(* changes under it (HookInv, AckInv).                                     *)
(***************************************************************************)
EXTENDS JiraAlerts, TLAPS

USE DEF triggerVars, jiraVars, history

(* An alert of an event, and an event that a hook works on, are typed.     *)
LEMMA EventTyped ==
  ASSUME NEW e \in Event PROVE e.alert \in Request /\ e.action \in Action
BY DEF Event

(* Requests in a table key: Upsert and Linked stay within the row type.    *)
LEMMA UpsertTyped ==
  ASSUME rows \subseteq RowType, NEW b \in Bot, NEW al \in Alias, NEW m \in Room
  PROVE  Upsert(b, al, m) \subseteq RowType
<1>1. al.sid \in ShortId
  BY DEF Alias
<1>2. [bot |-> b, alias |-> al, sid |-> al.sid, room |-> m, jid |-> NoAlert] \in RowType
  BY <1>1 DEF RowType
<1>3. \A w \in Keyed(b, al) : [w EXCEPT !.sid = al.sid, !.room = m] \in RowType
  BY <1>1 DEF RowType, Keyed
<1> QED BY <1>2, <1>3 DEF Upsert

LEMMA LinkedTyped ==
  ASSUME rows \subseteq RowType, NEW b \in Bot, NEW al \in Alias,
         NEW jid \in Request, NEW m \in Room \cup {NoRoom}
  PROVE  Linked(b, al, jid, m) \subseteq RowType
<1>1. al.sid \in ShortId
  BY DEF Alias
<1>2. \A x \in {m} \ {NoRoom} :
        [bot |-> b, alias |-> al, sid |-> al.sid, room |-> x, jid |-> jid] \in RowType
  BY <1>1 DEF RowType
<1>3. \A w \in Keyed(b, al) : [w EXCEPT !.jid = jid] \in RowType
  BY DEF RowType, Keyed
<1> DEFINE New == {[bot |-> b, alias |-> al, sid |-> al.sid, room |-> m, jid |-> jid] :
                     x \in {m} \ {NoRoom}}
<1>4. New \subseteq RowType
  BY <1>2
<1> QED BY <1>3, <1>4 DEF Linked

(* What a handler has found when it is about to use it: a room to speak    *)
(* in, an alert to acknowledge.  TypeOK alone is not inductive.            *)
HooksReady ==
  /\ hook \in [Bot \X Event -> HookState]
  /\ \A x \in Bot \X Event : hook[x].at = "say" => hook[x].room \in Room

AcksReady ==
  /\ ack \in [Request -> AckState]
  /\ \A r \in Request :
       /\ ack[r].at \in {"resolve", "post", "assign"} => ack[r].room \in Room
       /\ ack[r].at \in {"post", "assign"} => ack[r].alert \in Request

Typed == TypeOK /\ HooksReady /\ AcksReady

LEMMA InitTyped == Init => Typed
<1> SUFFICES ASSUME Init PROVE Typed
  OBVIOUS
<1>1. HooksReady
  BY DEF Init, HooksReady, HookIdle, HookState
<1>2. AcksReady
  BY DEF Init, AcksReady, AckIdle, AckState
<1> QED BY <1>1, <1>2, JiraAssumption DEF Init, Typed, TypeOK, HooksReady, AcksReady, Day, Phase

(* Setting a handler to a well-formed state keeps the handlers ready, and  *)
(* so does leaving all of them alone.                                      *)
LEMMA HookTyped ==
  ASSUME HooksReady, NEW b \in Bot, NEW e \in Event, NEW h \in HookState,
         hook' = [hook EXCEPT ![<<b, e>>] = h],
         h.at = "say" => h.room \in Room
  PROVE  HooksReady'
BY DEF HooksReady

LEMMA AckTyped ==
  ASSUME AcksReady, NEW r \in Request, NEW h \in AckState, ack' = [ack EXCEPT ![r] = h],
         h.at \in {"resolve", "post", "assign"} => h.room \in Room,
         h.at \in {"post", "assign"} => h.alert \in Request
  PROVE  AcksReady'
BY DEF AcksReady

LEMMA HandlersQuiet ==
  /\ HooksReady /\ UNCHANGED hook => HooksReady'
  /\ AcksReady /\ UNCHANGED ack => AcksReady'
BY DEF HooksReady, AcksReady

(* The idle states are well-formed.                                        *)
LEMMA IdleTyped == HookIdle \in HookState /\ AckIdle \in AckState
BY DEF HookIdle, HookState, AckIdle, AckState

(* Which actions write what: every other step leaves it alone.             *)
HookAction(b, e) == ReceiveCreate(b, e) \/ ReceiveStatus(b, e) \/ HookStep(b, e)
AckAction(r) == AckCommand(r) \/ AckStep(r) \/ AckRefused(r)

LEMMA Frame ==
  ASSUME [Next]_vars
  PROVE  /\ (\A b \in Bot, e \in Event : ~HookAction(b, e)) => UNCHANGED hook
         /\ (\A r \in Request : ~AckAction(r)) => UNCHANGED <<ack, acked>>
         /\ (\A r \in Request : ~StoreRow(r)) /\ (\A b \in Bot, e \in Event : ~ApplyCreate(b, e))
              => UNCHANGED rows
         /\ (\A r \in Request : ~AckAssign(r)) /\ (\A b \in Bot, e \in Event : ~SayStatus(b, e))
              => UNCHANGED said
         /\ (\A r \in Request : ~BuildAlert(r)) => UNCHANGED aliasOf
<1> DEFINE Quiet ==
         /\ (\A b \in Bot, e \in Event : ~HookAction(b, e)) => UNCHANGED hook
         /\ (\A r \in Request : ~AckAction(r)) => UNCHANGED <<ack, acked>>
         /\ (\A r \in Request : ~StoreRow(r)) /\ (\A b \in Bot, e \in Event : ~ApplyCreate(b, e))
              => UNCHANGED rows
         /\ (\A r \in Request : ~AckAssign(r)) /\ (\A b \in Bot, e \in Event : ~SayStatus(b, e))
              => UNCHANGED said
         /\ (\A r \in Request : ~BuildAlert(r)) => UNCHANGED aliasOf
<1>1. CASE NextDay
  BY <1>1 DEF NextDay
<1>2. ASSUME NEW r \in Request,
             TriggerStep(r) \/ PostRefused(r) \/ StoreFails(r) \/ UserActs(r) PROVE Quiet
  BY <1>2 DEF TriggerStep, BuildAlert, PostAlert, StoreRow, Announce, PostRefused,
              StoreFails, UserActs
<1>3. ASSUME NEW r \in Request, AckAction(r) PROVE Quiet
  BY <1>3 DEF AckAction, AckCommand, AckStep, AckRefused, AckLookup, AckResolve, AckPost, AckAssign
<1>4. ASSUME NEW b \in Bot, NEW e \in Event, HookAction(b, e) PROVE Quiet
  BY <1>4 DEF HookAction, HookStep, ReceiveCreate, ReceiveStatus, ApplyCreate, LookupAlias,
              SayStatus
<1>5. CASE UNCHANGED vars
  BY <1>5 DEF vars
<1> QED BY <1>1, <1>2, <1>3, <1>4, <1>5 DEF Next, HookAction, AckAction

(* A row has a room, an alias and an alert id, or none, of their types.    *)
LEMMA RowTyped ==
  ASSUME TypeOK, NEW w \in rows
  PROVE  w.room \in Room /\ w.jid \in Request \cup {NoAlert} /\ {w.alias} \subseteq Alias
BY DEF TypeOK, RowType

LEMMA NextHooksReady == Typed /\ [Next]_vars => HooksReady'
<1> SUFFICES ASSUME TypeOK, HooksReady, AcksReady, [Next]_vars PROVE HooksReady'
  BY DEF Typed
<1>1. ASSUME NEW b \in Bot, NEW e \in Event, ReceiveCreate(b, e) PROVE HooksReady'
  <2>1. PICK room \in Room \cup {NoRoom} : SetHook(b, e, "link", room)
    BY <1>1, RowTyped DEF ReceiveCreate, Keyed
  <2>2. [at |-> "link", room |-> room] \in HookState
    BY DEF HookState
  <2> QED BY <2>1, <2>2, HookTyped DEF SetHook
<1>2. ASSUME NEW b \in Bot, NEW e \in Event, NEW at \in {"idle", "byAlias"},
             \/ SetHook(b, e, at, NoRoom)
             \/ \E m \in Room : SetHook(b, e, "say", m)
      PROVE  HooksReady'
  <2>1. ASSUME SetHook(b, e, at, NoRoom) PROVE HooksReady'
    <3>1. [at |-> at, room |-> NoRoom] \in HookState /\ at # "say"
      BY DEF HookState
    <3> QED BY <2>1, <3>1, HookTyped DEF SetHook
  <2>2. ASSUME NEW m \in Room, SetHook(b, e, "say", m) PROVE HooksReady'
    <3>1. [at |-> "say", room |-> m] \in HookState
      BY DEF HookState
    <3> QED BY <2>2, <3>1, HookTyped DEF SetHook
  <2> QED BY <1>2, <2>1, <2>2
<1>3. ASSUME NEW b \in Bot, NEW e \in Event, ReceiveStatus(b, e) PROVE HooksReady'
  <2>1. SetHook(b, e, "byAlias", NoRoom) \/ \E m \in Room : SetHook(b, e, "say", m)
    BY <1>3, RowTyped DEF ReceiveStatus, ByJiraId
  <2> QED BY <1>2, <2>1
<1>4. ASSUME NEW b \in Bot, NEW e \in Event, LookupAlias(b, e) PROVE HooksReady'
  <2>1. SetHook(b, e, "idle", NoRoom) \/ \E m \in Room : SetHook(b, e, "say", m)
    BY <1>4, RowTyped DEF LookupAlias, Fallback, Keyed
  <2> QED BY <1>2, <2>1
<1>5. ASSUME NEW b \in Bot, NEW e \in Event, ApplyCreate(b, e) \/ SayStatus(b, e)
      PROVE  HooksReady'
  <2>1. hook' = [hook EXCEPT ![<<b, e>>] = HookIdle]
    BY <1>5 DEF ApplyCreate, SayStatus
  <2>2. HookIdle.at # "say"
    BY DEF HookIdle
  <2> QED BY <2>1, <2>2, IdleTyped, HookTyped
<1> QED BY <1>1, <1>3, <1>4, <1>5, Frame, HandlersQuiet DEF HookAction, HookStep

LEMMA NextAcksReady == Typed /\ [Next]_vars => AcksReady'
<1> SUFFICES ASSUME TypeOK, HooksReady, AcksReady, [Next]_vars PROVE AcksReady'
  BY DEF Typed
<1>1. ASSUME NEW r \in Request, ack' = [ack EXCEPT ![r] = AckIdle] PROVE AcksReady'
  <2>1. AckIdle.at = "idle"
    BY DEF AckIdle
  <2> QED BY <1>1, <2>1, IdleTyped, AckTyped
<1>2. ASSUME NEW r \in Request, AckCommand(r) PROVE AcksReady'
  <2> DEFINE h == [AckIdle EXCEPT !.at = "lookup"]
  <2>1. h \in AckState /\ h.at = "lookup"
    BY DEF AckIdle, AckState
  <2>2. ack' = [ack EXCEPT ![r] = h]
    BY <1>2 DEF AckCommand
  <2> HIDE DEF h
  <2> QED BY <2>1, <2>2, AckTyped
<1>3. ASSUME NEW r \in Request, AckLookup(r) PROVE AcksReady'
  <2>1. ASSUME NEW w \in rows,
               ack' = [ack EXCEPT ![r] =
                         [at |-> IF w.jid = NoAlert THEN "resolve" ELSE "post",
                          alert |-> w.jid, room |-> w.room, alias |-> {w.alias}]]
        PROVE  AcksReady'
    <3> DEFINE h == [at |-> IF w.jid = NoAlert THEN "resolve" ELSE "post",
                     alert |-> w.jid, room |-> w.room, alias |-> {w.alias}]
    <3>1. /\ h \in AckState
          /\ h.room \in Room
          /\ h.at \in {"post", "assign"} => h.alert \in Request
      BY RowTyped DEF AckState
    <3>2. ack' = [ack EXCEPT ![r] = h]
      BY <2>1
    <3> HIDE DEF h
    <3> QED BY <3>1, <3>2, AckTyped
  <2> QED BY <1>1, <1>3, <2>1 DEF AckLookup, BySid
<1>4. ASSUME NEW r \in Request, AckResolve(r) PROVE AcksReady'
  <2>1. ASSUME NEW q \in created, ack' = [ack EXCEPT ![r].at = "post", ![r].alert = q]
        PROVE  AcksReady'
    <3> DEFINE h == [ack[r] EXCEPT !.at = "post", !.alert = q]
    <3>1. ack[r] \in AckState /\ ack[r].room \in Room /\ q \in Request
      BY <1>4 DEF AckResolve, AcksReady, TypeOK
    <3>2. h \in AckState /\ h.room \in Room /\ h.alert \in Request
      BY <3>1 DEF AckState
    <3>3. ack' = [ack EXCEPT ![r] = h]
      BY <2>1
    <3> HIDE DEF h
    <3> QED BY <3>2, <3>3, AckTyped
  <2> QED BY <1>1, <1>4, <2>1 DEF AckResolve
<1>5. ASSUME NEW r \in Request, AckPost(r) PROVE AcksReady'
  <2> DEFINE h == [ack[r] EXCEPT !.at = "assign"]
  <2>1. ack[r] \in AckState /\ ack[r].alert \in Request /\ ack[r].room \in Room
    BY <1>5 DEF AckPost, AcksReady
  <2>2. h \in AckState /\ h.room \in Room /\ h.alert \in Request
    BY <2>1 DEF AckState
  <2>3. ack' = [ack EXCEPT ![r] = h]
    BY <1>5 DEF AckPost
  <2> HIDE DEF h
  <2> QED BY <2>2, <2>3, AckTyped
<1>6. ASSUME NEW r \in Request, AckAssign(r) \/ AckRefused(r) PROVE AcksReady'
  BY <1>1, <1>6 DEF AckAssign, AckRefused
<1> QED BY <1>2, <1>3, <1>4, <1>5, <1>6, Frame, HandlersQuiet DEF AckAction, AckStep

(* Every step preserves the type invariant.                                *)
LEMMA NextTypeOK == Typed /\ [Next]_vars => TypeOK'
<1> SUFFICES ASSUME TypeOK, HooksReady, AcksReady, HooksReady', AcksReady', [Next]_vars
             PROVE  TypeOK'
  BY NextHooksReady, NextAcksReady DEF Typed
<1>0. hook' \in [Bot \X Event -> HookState] /\ ack' \in [Request -> AckState]
  BY DEF HooksReady, AcksReady
<1> USE JiraAssumption, <1>0 DEF TypeOK
<1>1. CASE NextDay
  BY <1>1 DEF NextDay, Day
<1>2. ASSUME NEW r \in Request, BuildAlert(r) PROVE TypeOK'
  <2>1. \A sid \in ShortId : [day |-> today, sid |-> sid] \in Alias
    BY DEF Alias
  <2> QED BY <1>2, <2>1 DEF BuildAlert, At, Phase
<1>3. ASSUME NEW r \in Request, PostAlert(r) PROVE TypeOK'
  <2>1. [action |-> "Create", alert |-> r] \in Event
    BY DEF Event, Action
  <2> QED BY <1>3, <2>1 DEF PostAlert, Emitted, At, Phase
<1>4. ASSUME NEW r \in Request, PostRefused(r) \/ StoreFails(r) \/ Announce(r) PROVE TypeOK'
  BY <1>4 DEF PostRefused, StoreFails, Announce, At, Phase
<1>5. ASSUME NEW r \in Request, StoreRow(r) PROVE TypeOK'
  <2>1. PICK al \in aliasOf[r] : rows' = Upsert(BotOf[r], al, RoomOf[r])
    BY <1>5 DEF StoreRow
  <2>2. rows' \subseteq RowType
    BY <2>1, UpsertTyped
  <2> QED BY <1>5, <2>2 DEF StoreRow, At, Phase
<1>6. ASSUME NEW r \in Request, UserActs(r) PROVE TypeOK'
  <2>1. \A a \in UserAction : [action |-> a, alert |-> r] \in Event
    BY DEF Event, Action
  <2> QED BY <1>6, <2>1 DEF UserActs, Emitted
<1>7. ASSUME NEW b \in Bot, NEW e \in Event,
             ReceiveCreate(b, e) \/ ReceiveStatus(b, e) PROVE TypeOK'
  <2>1. net' \subseteq Bot \X Event
    BY <1>7 DEF ReceiveCreate, ReceiveStatus, Arrives
  <2> QED BY <1>7, <2>1 DEF ReceiveCreate, ReceiveStatus
<1>8. ASSUME NEW b \in Bot, NEW e \in Event, ApplyCreate(b, e) PROVE TypeOK'
  <2>1. PICK al \in aliasOf[e.alert] : rows' = Linked(b, al, e.alert, hook[b, e].room)
    BY <1>8 DEF ApplyCreate
  <2>2. hook[b, e].room \in Room \cup {NoRoom}
    BY DEF HookState
  <2>3. rows' \subseteq RowType
    BY <2>1, <2>2, LinkedTyped, EventTyped
  <2> QED BY <1>8, <2>3 DEF ApplyCreate
<1>9. ASSUME NEW b \in Bot, NEW e \in Event, LookupAlias(b, e) PROVE TypeOK'
  BY <1>9 DEF LookupAlias
<1> DEFINE Post == [room : Room, action : Action \cup {"AssignFailed"}, alert : Request]
<1>10. ASSUME NEW b \in Bot, NEW e \in Event, SayStatus(b, e) PROVE TypeOK'
  <2>1. hook[b, e].room \in Room
    BY <1>10 DEF SayStatus, HooksReady
  <2>2. [room |-> hook[b, e].room, action |-> e.action, alert |-> e.alert] \in Post
    BY <2>1, EventTyped
  <2>3. said' \subseteq Post
    BY <1>10, <2>2 DEF SayStatus, Tell
  <2> QED BY <1>10, <2>3 DEF SayStatus
<1>11. ASSUME NEW r \in Request,
              AckCommand(r) \/ AckRefused(r) \/ AckLookup(r) \/ AckResolve(r) PROVE TypeOK'
  BY <1>11 DEF AckCommand, AckRefused, AckLookup, AckResolve
<1>12. ASSUME NEW r \in Request, AckPost(r) PROVE TypeOK'
  <2>1. ack[r].alert \in Request
    BY <1>12 DEF AckPost, AcksReady
  <2>2. [action |-> "Acknowledge", alert |-> ack[r].alert] \in Event
    BY <2>1 DEF Event, Action
  <2>3. sent' \subseteq Event /\ net' \subseteq Bot \X Event
    BY <1>12, <2>2 DEF AckPost, Emitted
  <2>4. acked' \subseteq [request : Request, alert : Request]
    BY <1>12, <2>1 DEF AckPost
  <2> QED BY <1>12, <2>3, <2>4 DEF AckPost
<1>13. ASSUME NEW r \in Request, AckAssign(r) PROVE TypeOK'
  <2>1. ack[r].alert \in Request /\ ack[r].room \in Room
    BY <1>13 DEF AckAssign, AcksReady
  <2>2. said' \subseteq Post
    BY <1>13, <2>1 DEF AckAssign, Tell
  <2> QED BY <1>13, <2>2 DEF AckAssign
<1>14. CASE UNCHANGED vars
  BY <1>14 DEF vars
<1> QED
  BY <1>1, <1>2, <1>3, <1>4, <1>5, <1>6, <1>7, <1>8, <1>9, <1>10, <1>11, <1>12, <1>13, <1>14
     DEF Next, TriggerStep, HookStep, AckStep

(* Every variable keeps its type: no event is ever told in no room, and no *)
(* ack is ever posted for no alert.                                        *)
THEOREM AlertsTyped == Spec => []TypeOK
<1>1. Init => Typed
  BY InitTyped
<1>2. Typed /\ [Next]_vars => Typed'
  BY NextTypeOK, NextHooksReady, NextAcksReady DEF Typed
<1>3. Typed => TypeOK
  BY DEF Typed
<1> QED BY <1>1, <1>2, <1>3, PTL DEF Spec

--------------------------------------------------------------------------------
(* Routing: a row belongs to a request with the alias of its alert.        *)

(* A request has an alias once it has been built, and then one for good.   *)
AliasInv ==
  /\ \A r \in Request : phase[r] = "new" <=> aliasOf[r] = {}
  /\ \A r \in Request : \A a, b \in aliasOf[r] : a = b

LEMMA NextAliasInv ==
  ASSUME TypeOK, AliasInv, [Next]_vars
  PROVE  /\ AliasInv'
         /\ \A r \in Request : aliasOf[r] # {} => aliasOf'[r] = aliasOf[r]
<1> USE DEF AliasInv, TypeOK
<1> DEFINE Goal == AliasInv' /\ \A r \in Request : aliasOf[r] # {} => aliasOf'[r] = aliasOf[r]
<1>1. ASSUME NEW r \in Request, BuildAlert(r) PROVE Goal
  <2>1. PICK sid \in ShortId : aliasOf' = [aliasOf EXCEPT ![r] = {[day |-> today, sid |-> sid]}]
    BY <1>1 DEF BuildAlert
  <2>2. phase[r] = "new" /\ phase' = [phase EXCEPT ![r] = "built"]
    BY <1>1 DEF BuildAlert, At
  <2> QED BY <2>1, <2>2
<1>2. ASSUME NEW r \in Request,
             PostAlert(r) \/ PostRefused(r) \/ StoreRow(r) \/ StoreFails(r) \/ Announce(r)
      PROVE  Goal
  <2>1. phase[r] # "new" /\ UNCHANGED aliasOf
    BY <1>2 DEF PostAlert, PostRefused, StoreRow, StoreFails, Announce
  <2>2. \E p \in Phase \ {"new"} : phase' = [phase EXCEPT ![r] = p]
    BY <1>2 DEF PostAlert, PostRefused, StoreRow, StoreFails, Announce, At, Phase
  <2> QED BY <2>1, <2>2
<1>3. ASSUME NEW r \in Request, UserActs(r) \/ AckAction(r) PROVE UNCHANGED <<phase, aliasOf>>
  BY <1>3 DEF UserActs, AckAction, AckCommand, AckStep, AckRefused, AckLookup, AckResolve,
              AckPost, AckAssign
<1>4. ASSUME NEW b \in Bot, NEW e \in Event, HookAction(b, e) PROVE UNCHANGED <<phase, aliasOf>>
  BY <1>4 DEF HookAction, HookStep, ReceiveCreate, ReceiveStatus, ApplyCreate, LookupAlias,
              SayStatus
<1>5. CASE NextDay
  BY <1>5 DEF NextDay
<1>6. CASE UNCHANGED vars
  BY <1>6 DEF vars
<1>7. UNCHANGED <<phase, aliasOf>> => Goal
  OBVIOUS
<1> QED
  BY <1>1, <1>2, <1>3, <1>4, <1>5, <1>6, <1>7 DEF Next, TriggerStep, AckAction, HookAction

(* The row w can be the one of request r.                                  *)
RowFor(r, w) ==
  w.bot = BotOf[r] /\ aliasOf[r] = {w.alias} /\ w.room = RoomOf[r] /\ w.sid = w.alias.sid

(* A row is linked to no alert, or to one that carries its alias.          *)
LinkFits(w) == w.jid # NoAlert => w.jid \in Request /\ aliasOf[w.jid] = {w.alias}

RowInv == \A w \in rows : LinkFits(w) /\ \E r \in Request : RowFor(r, w)

(* What a status handler carries to its next step belongs to a request     *)
(* with the alias of its alert.                                            *)
HookInv ==
  \A b \in Bot, e \in Event :
    /\ hook[b, e].at = "say" => \E q \in Namesakes(e.alert) : hook[b, e].room = RoomOf[q]
    /\ hook[b, e].at = "link" /\ hook[b, e].room # NoRoom =>
         \E q \in Namesakes(e.alert) : hook[b, e].room = RoomOf[q] /\ b = BotOf[q]

(* What an ack carries comes from the row of a request to its bot that     *)
(* drew the id typed: first the room and alias of it, then its alert.      *)
Named(q, r) == BotOf[q] = BotOf[r] /\ SameSid(q, r)

AckInv ==
  \A r \in Request :
    /\ ack[r].at = "resolve" =>
         \E q \in Request : /\ Named(q, r) /\ aliasOf[q] # {}
                            /\ aliasOf[q] = ack[r].alias /\ ack[r].room = RoomOf[q]
    /\ ack[r].at \in {"post", "assign"} =>
         \E q \in Namesakes(ack[r].alert) : Named(q, r) /\ ack[r].room = RoomOf[q]

(* Aliases never change, so namesakes stay namesakes, ids stay the same,   *)
(* and a row keeps its request and its link while it stays.                *)
LEMMA NamesakesStay ==
  ASSUME \A x \in Request : aliasOf[x] # {} => aliasOf'[x] = aliasOf[x],
         NEW r \in Request, NEW q \in Namesakes(r)
  PROVE  q \in Request /\ aliasOf[q] # {} /\ aliasOf[q] = aliasOf[r] /\ q \in Namesakes(r)'
BY DEF Namesakes

LEMMA NamedStays ==
  ASSUME \A x \in Request : aliasOf[x] # {} => aliasOf'[x] = aliasOf[x],
         NEW r \in Request, NEW q \in Request, Named(q, r)
  PROVE  Named(q, r)'
BY DEF Named, SameSid

LEMMA RowForStable ==
  ASSUME \A x \in Request : aliasOf[x] # {} => aliasOf'[x] = aliasOf[x], NEW w
  PROVE  /\ \A r \in Request : RowFor(r, w) => RowFor(r, w)'
         /\ LinkFits(w) => LinkFits(w)'
BY DEF RowFor, LinkFits

(* The row an alert's alias finds is that of one of its namesakes.         *)
LEMMA KeyedFits ==
  ASSUME TypeOK, AliasInv, RowInv, NEW b \in Bot, NEW q \in Request,
         NEW al \in aliasOf[q], NEW w \in Keyed(b, al)
  PROVE  /\ w \in rows /\ w.bot = b /\ w.alias = al
         /\ \E p \in Namesakes(q) : RowFor(p, w)
<1>1. w \in rows /\ w.bot = b /\ w.alias = al
  BY DEF Keyed
<1>2. PICK p \in Request : RowFor(p, w)
  BY <1>1 DEF RowInv
<1>3. aliasOf[q] = {al}
  BY DEF AliasInv
<1>4. p \in Namesakes(q)
  BY <1>1, <1>2, <1>3 DEF RowFor, Namesakes
<1> QED BY <1>1, <1>2, <1>4

(* The row an alert id finds is that of one of the alert's namesakes.      *)
LEMMA LinkedFits ==
  ASSUME RowInv, NEW q \in Request, NEW w \in rows, w.jid = q
  PROVE  \E p \in Namesakes(q) : RowFor(p, w)
<1>1. PICK p \in Request : RowFor(p, w)
  BY DEF RowInv
<1>2. aliasOf[q] = {w.alias}
  BY JiraAssumption DEF RowInv, LinkFits
<1> QED BY <1>1, <1>2 DEF RowFor, Namesakes

LEMMA NextRowInv ==
  ASSUME TypeOK, AliasInv, RowInv, HookInv, [Next]_vars
  PROVE  RowInv'
<1>1. \A q \in Request : aliasOf[q] # {} => aliasOf'[q] = aliasOf[q]
  BY NextAliasInv
<1> DEFINE Fits(w) == LinkFits(w) /\ \E q \in Request : RowFor(q, w)
<1>2. ASSUME NEW w \in rows PROVE Fits(w)'
  BY <1>1, <1>2, RowForStable DEF RowInv
<1>3. ASSUME NEW r \in Request, StoreRow(r) PROVE RowInv'
  <2>1. PICK al \in aliasOf[r] : rows' = Upsert(BotOf[r], al, RoomOf[r])
    BY <1>3 DEF StoreRow
  <2> DEFINE new == [bot |-> BotOf[r], alias |-> al, sid |-> al.sid, room |-> RoomOf[r],
                     jid |-> NoAlert]
  <2>2. aliasOf[r] = {al} /\ aliasOf' = aliasOf
    BY <1>3 DEF AliasInv, StoreRow
  <2>3. Fits(new)'
    BY <2>2 DEF RowFor, LinkFits
  <2>4. ASSUME NEW w \in Keyed(BotOf[r], al)
        PROVE  Fits([w EXCEPT !.sid = al.sid, !.room = RoomOf[r]])'
    <3>1. w \in rows /\ w.bot = BotOf[r] /\ w.alias = al /\ w \in RowType
      BY DEF Keyed, TypeOK
    <3>2. LinkFits(w)
      BY <3>1 DEF RowInv
    <3>3. PICK v : v = [w EXCEPT !.sid = al.sid, !.room = RoomOf[r]]
      OBVIOUS
    <3>4. v.bot = BotOf[r] /\ v.alias = al /\ v.room = RoomOf[r] /\ v.sid = al.sid /\ v.jid = w.jid
      BY <3>1, <3>3 DEF RowType
    <3>5. RowFor(r, v)' /\ LinkFits(v)'
      BY <2>2, <3>1, <3>2, <3>4 DEF RowFor, LinkFits
    <3> QED BY <3>3, <3>5 DEF RowFor, LinkFits
  <2>5. \A v \in rows' :
          \/ v \in rows
          \/ v = new
          \/ \E w \in Keyed(BotOf[r], al) : v = [w EXCEPT !.sid = al.sid, !.room = RoomOf[r]]
    BY <2>1 DEF Upsert
  <2> SUFFICES ASSUME NEW v \in rows' PROVE Fits(v)'
    BY DEF RowInv
  <2>6. CASE v \in rows
    BY <1>2, <2>6
  <2>7. CASE v = new
    BY <2>3, <2>7 DEF RowFor, LinkFits
  <2>8. ASSUME NEW w \in Keyed(BotOf[r], al), v = [w EXCEPT !.sid = al.sid, !.room = RoomOf[r]]
        PROVE  Fits(v)'
    BY <2>4, <2>8 DEF RowFor, LinkFits
  <2> HIDE DEF Fits, new
  <2> QED BY <2>5, <2>6, <2>7, <2>8
<1>4. ASSUME NEW b \in Bot, NEW e \in Event, ApplyCreate(b, e) PROVE RowInv'
  <2>0. PICK m, q : m = hook[b, e].room /\ q = e.alert
    OBVIOUS
  <2>1. PICK al \in aliasOf[q] : rows' = Linked(b, al, q, m)
    BY <1>4, <2>0 DEF ApplyCreate
  <2>2. q \in Request /\ al \in aliasOf[q] /\ aliasOf' = aliasOf
    BY <1>4, <2>0, EventTyped DEF ApplyCreate
  <2>3. aliasOf[q] = {al}
    BY <2>2 DEF AliasInv
  <2> DEFINE new == [bot |-> b, alias |-> al, sid |-> al.sid, room |-> m, jid |-> q]
  <2>4. ASSUME m # NoRoom PROVE Fits(new)'
    <3>1. PICK p \in Namesakes(q) : m = RoomOf[p] /\ b = BotOf[p]
      BY <1>4, <2>0, <2>4 DEF ApplyCreate, HookInv
    <3>2. p \in Request /\ aliasOf[p] = {al}
      BY <2>3, <3>1 DEF Namesakes
    <3> QED BY <2>2, <2>3, <3>1, <3>2 DEF RowFor, LinkFits
  <2>5. ASSUME NEW w \in Keyed(b, al) PROVE Fits([w EXCEPT !.jid = q])'
    <3>1. PICK p \in Namesakes(q) : RowFor(p, w)
      BY <2>2, KeyedFits
    <3>2. w \in RowType /\ w.alias = al /\ p \in Request
      BY <3>1 DEF Keyed, TypeOK, Namesakes
    <3>3. PICK v : v = [w EXCEPT !.jid = q]
      OBVIOUS
    <3>4. v.bot = w.bot /\ v.alias = al /\ v.room = w.room /\ v.sid = w.sid /\ v.jid = q
      BY <3>2, <3>3 DEF RowType
    <3>5. RowFor(p, v)' /\ LinkFits(v)'
      BY <2>2, <2>3, <3>1, <3>2, <3>4 DEF RowFor, LinkFits
    <3> QED BY <3>2, <3>3, <3>5 DEF RowFor, LinkFits
  <2>6. \A v \in rows' :
          \/ v \in rows
          \/ m # NoRoom /\ v = new
          \/ \E w \in Keyed(b, al) : v = [w EXCEPT !.jid = q]
    BY <2>1 DEF Linked
  <2> SUFFICES ASSUME NEW v \in rows' PROVE Fits(v)'
    BY DEF RowInv
  <2>7. CASE v \in rows
    BY <1>2, <2>7
  <2>8. ASSUME m # NoRoom, v = new PROVE Fits(v)'
    BY <2>4, <2>8 DEF RowFor, LinkFits
  <2>9. ASSUME NEW w \in Keyed(b, al), v = [w EXCEPT !.jid = q] PROVE Fits(v)'
    BY <2>5, <2>9 DEF RowFor, LinkFits
  <2> HIDE DEF Fits, new
  <2> QED BY <2>6, <2>7, <2>8, <2>9
<1>5. ASSUME UNCHANGED rows PROVE RowInv'
  BY <1>2, <1>5 DEF RowInv
<1> QED BY <1>3, <1>4, <1>5, Frame

LEMMA NextHookInv ==
  ASSUME TypeOK, AliasInv, RowInv, HookInv, [Next]_vars
  PROVE  HookInv'
<1> DEFINE Good(b, e, h) ==
      /\ h.at = "say" => \E q \in Namesakes(e.alert) : h.room = RoomOf[q]
      /\ h.at = "link" /\ h.room # NoRoom =>
           \E q \in Namesakes(e.alert) : h.room = RoomOf[q] /\ b = BotOf[q]
<1>a. \A x \in Request : aliasOf[x] # {} => aliasOf'[x] = aliasOf[x]
  BY NextAliasInv
<1> DEFINE Kept(b, e, h) ==
      /\ h.at = "say" => \E q \in Namesakes(e.alert)' : h.room = RoomOf[q]
      /\ h.at = "link" /\ h.room # NoRoom =>
           \E q \in Namesakes(e.alert)' : h.room = RoomOf[q] /\ b = BotOf[q]
<1>b. ASSUME NEW b \in Bot, NEW e \in Event, NEW h, Good(b, e, h)
      PROVE  Kept(b, e, h)
  BY <1>a, <1>b, EventTyped, NamesakesStay
<1>0. \A b \in Bot, e \in Event : Good(b, e, hook[b, e])
  BY DEF HookInv
<1> HIDE DEF Good, Kept
<1>1. ASSUME NEW b \in Bot, NEW e \in Event, NEW h, Good(b, e, h),
             hook' = [hook EXCEPT ![<<b, e>>] = h]
      PROVE  HookInv'
  <2>1. \A c \in Bot, d \in Event : Good(c, d, hook'[c, d])
    BY <1>0, <1>1 DEF TypeOK
  <2>2. ASSUME NEW c \in Bot, NEW d \in Event
        PROVE  Kept(c, d, hook'[c, d])
    BY <1>b, <2>1
  <2> QED BY <2>2 DEF HookInv, Kept
<1>2. ASSUME NEW b \in Bot, NEW e \in Event, ReceiveCreate(b, e) PROVE HookInv'
  <2>0. PICK al \in aliasOf[e.alert] :
          \E room \in IF Keyed(b, al) = {} THEN {NoRoom} ELSE {w.room : w \in Keyed(b, al)} :
            SetHook(b, e, "link", room)
    BY <1>2 DEF ReceiveCreate
  <2>1. PICK room : /\ room = NoRoom \/ \E w \in Keyed(b, al) : room = w.room
                    /\ SetHook(b, e, "link", room)
    BY <2>0
  <2>2. ASSUME NEW w \in Keyed(b, al)
        PROVE  \E q \in Namesakes(e.alert) : w.room = RoomOf[q] /\ b = BotOf[q]
    BY EventTyped, KeyedFits DEF RowFor
  <2>3. Good(b, e, [at |-> "link", room |-> room])
    BY <2>1, <2>2 DEF Good
  <2> QED BY <1>1, <2>1, <2>3 DEF SetHook
<1>3. ASSUME NEW b \in Bot, NEW e \in Event, NEW m, SetHook(b, e, "say", m),
             \E q \in Namesakes(e.alert) : m = RoomOf[q]
      PROVE HookInv'
  <2>1. Good(b, e, [at |-> "say", room |-> m])
    BY <1>3 DEF Good
  <2> QED BY <1>1, <1>3, <2>1 DEF SetHook
<1>4. ASSUME NEW b \in Bot, NEW e \in Event, NEW at \in {"idle", "byAlias"}, SetHook(b, e, at, NoRoom)
      PROVE  HookInv'
  <2>1. Good(b, e, [at |-> at, room |-> NoRoom])
    BY DEF Good
  <2> QED BY <1>1, <1>4, <2>1 DEF SetHook
<1>5. ASSUME NEW b \in Bot, NEW e \in Event, ReceiveStatus(b, e) PROVE HookInv'
  <2>1. \A w \in rows : w.jid = e.alert => \E q \in Namesakes(e.alert) : w.room = RoomOf[q]
    BY EventTyped, LinkedFits DEF RowFor
  <2> QED BY <1>3, <1>4, <1>5, <2>1 DEF ReceiveStatus, ByJiraId
<1>6. ASSUME NEW b \in Bot, NEW e \in Event, LookupAlias(b, e) PROVE HookInv'
  <2>1. \A al \in aliasOf[e.alert] : \A w \in Keyed(b, al) :
          \E q \in Namesakes(e.alert) : w.room = RoomOf[q]
    BY EventTyped, KeyedFits DEF RowFor
  <2> QED BY <1>3, <1>4, <1>6, <2>1 DEF LookupAlias, Fallback
<1>7. ASSUME NEW b \in Bot, NEW e \in Event, ApplyCreate(b, e) \/ SayStatus(b, e) PROVE HookInv'
  <2>1. Good(b, e, HookIdle)
    BY DEF Good, HookIdle
  <2> QED BY <1>1, <1>7, <2>1 DEF ApplyCreate, SayStatus
<1>8. ASSUME UNCHANGED hook PROVE HookInv'
  <2>1. ASSUME NEW c \in Bot, NEW d \in Event
        PROVE  Kept(c, d, hook'[c, d])
    BY <1>0, <1>8, <1>b
  <2> QED BY <2>1 DEF HookInv, Kept
<1> QED BY <1>2, <1>5, <1>6, <1>7, <1>8, Frame DEF HookAction, HookStep

LEMMA NextAckInv ==
  ASSUME Typed, AliasInv, RowInv, AckInv, [Next]_vars
  PROVE  AckInv'
<1> DEFINE Good(r, h) ==
      /\ h.at = "resolve" =>
           \E q \in Request : /\ Named(q, r) /\ aliasOf[q] # {}
                              /\ aliasOf[q] = h.alias /\ h.room = RoomOf[q]
      /\ h.at \in {"post", "assign"} =>
           h.alert \in Request /\ \E q \in Namesakes(h.alert) : Named(q, r) /\ h.room = RoomOf[q]
<1>t. TypeOK /\ AcksReady
  BY DEF Typed
<1>a. \A x \in Request : aliasOf[x] # {} => aliasOf'[x] = aliasOf[x]
  BY <1>t, NextAliasInv
<1>b. ASSUME NEW r \in Request, NEW h, Good(r, h)
      PROVE  /\ h.at = "resolve" =>
                  \E q \in Request : /\ Named(q, r)' /\ aliasOf'[q] # {}
                                     /\ aliasOf'[q] = h.alias /\ h.room = RoomOf[q]
             /\ h.at \in {"post", "assign"} =>
                  \E q \in Namesakes(h.alert)' : Named(q, r)' /\ h.room = RoomOf[q]
  <2>1. ASSUME h.at = "resolve"
        PROVE  \E q \in Request : /\ Named(q, r)' /\ aliasOf'[q] # {}
                                  /\ aliasOf'[q] = h.alias /\ h.room = RoomOf[q]
    BY <1>a, <1>b, <2>1, NamedStays
  <2>2. ASSUME h.at \in {"post", "assign"}
        PROVE  \E q \in Namesakes(h.alert)' : Named(q, r)' /\ h.room = RoomOf[q]
    <3>1. h.alert \in Request
      BY <1>b, <2>2
    <3>2. PICK q \in Namesakes(h.alert) : Named(q, r) /\ h.room = RoomOf[q]
      BY <1>b, <2>2
    <3>3. q \in Request /\ q \in Namesakes(h.alert)'
      BY <1>a, <3>1, <3>2, NamesakesStay
    <3> QED BY <1>a, <3>2, <3>3, NamedStays
  <2> QED BY <2>1, <2>2
<1>3. \A r \in Request : Good(r, ack[r])
  BY <1>t DEF AckInv, AcksReady
<1> HIDE DEF Good
<1>1. ASSUME NEW r \in Request, NEW h, Good(r, h), ack' = [ack EXCEPT ![r] = h]
      PROVE  AckInv'
  <2>1. \A q \in Request : Good(q, ack'[q])
    BY <1>1, <1>3, <1>t DEF TypeOK
  <2> QED BY <1>b, <2>1 DEF AckInv
<1>2. ASSUME UNCHANGED ack PROVE AckInv'
  BY <1>2, <1>3, <1>b DEF AckInv
<1>4. ASSUME NEW r \in Request, ack' = [ack EXCEPT ![r] = AckIdle] PROVE AckInv'
  <2>1. Good(r, AckIdle)
    BY DEF Good, AckIdle
  <2> QED BY <1>1, <1>4, <2>1
<1>5. ASSUME NEW r \in Request, AckCommand(r) PROVE AckInv'
  <2>1. Good(r, [AckIdle EXCEPT !.at = "lookup"])
    BY DEF Good, AckIdle
  <2> QED BY <1>1, <1>5, <2>1 DEF AckCommand
<1>6. ASSUME NEW r \in Request, AckLookup(r) PROVE AckInv'
  <2>1. ASSUME NEW w \in BySid(r),
               ack' = [ack EXCEPT ![r] =
                         [at |-> IF w.jid = NoAlert THEN "resolve" ELSE "post",
                          alert |-> w.jid, room |-> w.room, alias |-> {w.alias}]]
        PROVE  AckInv'
    <3>0. PICK h : h = [at |-> IF w.jid = NoAlert THEN "resolve" ELSE "post",
                        alert |-> w.jid, room |-> w.room, alias |-> {w.alias}]
      OBVIOUS
    <3>1. w \in rows /\ w.bot = BotOf[r] /\ \E al \in aliasOf[r] : w.sid = al.sid
      BY DEF BySid
    <3>2. PICK q \in Request : RowFor(q, w)
      BY <3>1 DEF RowInv
    <3>3. Named(q, r) /\ aliasOf[q] = {w.alias} /\ w.room = RoomOf[q]
      BY <3>1, <3>2 DEF RowFor, Named, SameSid
    <3>4. w.jid # NoAlert => w.jid \in Request /\ q \in Namesakes(w.jid)
      BY <3>1, <3>3 DEF RowInv, LinkFits, Namesakes
    <3>5. Good(r, h)
      BY <3>0, <3>3, <3>4 DEF Good
    <3> QED BY <1>1, <2>1, <3>0, <3>5
  <2> QED BY <1>4, <1>6, <2>1 DEF AckLookup
<1>7. ASSUME NEW r \in Request, AckResolve(r) PROVE AckInv'
  <2>1. ASSUME NEW q \in created, aliasOf[q] = ack[r].alias,
               ack' = [ack EXCEPT ![r].at = "post", ![r].alert = q]
        PROVE  AckInv'
    <3>1. ack[r] \in AckState /\ q \in Request
      BY <1>t DEF TypeOK
    <3>2. PICK p \in Request : /\ Named(p, r) /\ aliasOf[p] # {}
                               /\ aliasOf[p] = ack[r].alias /\ ack[r].room = RoomOf[p]
      BY <1>3, <1>7 DEF Good, AckResolve
    <3>3. p \in Namesakes(q)
      BY <2>1, <3>2 DEF Namesakes
    <3>0. PICK h : h = [ack[r] EXCEPT !.at = "post", !.alert = q]
      OBVIOUS
    <3>4. h.at = "post" /\ h.alert = q /\ h.room = ack[r].room
      BY <3>0, <3>1 DEF AckState
    <3>5. Good(r, h)
      BY <3>1, <3>2, <3>3, <3>4 DEF Good
    <3>6. ack' = [ack EXCEPT ![r] = h]
      BY <2>1, <3>0
    <3> QED BY <1>1, <3>5, <3>6
  <2> QED BY <1>4, <1>7, <2>1 DEF AckResolve
<1>8. ASSUME NEW r \in Request, AckPost(r) PROVE AckInv'
  <2>1. ack[r] \in AckState
    BY <1>t DEF TypeOK
  <2>0. PICK h : h = [ack[r] EXCEPT !.at = "assign"]
    OBVIOUS
  <2>2. h.at = "assign" /\ h.alert = ack[r].alert /\ h.room = ack[r].room
    BY <2>0, <2>1 DEF AckState
  <2>3. Good(r, ack[r]) /\ ack[r].at = "post"
    BY <1>3, <1>8 DEF AckPost
  <2>4. Good(r, h)
    BY <2>2, <2>3 DEF Good
  <2>5. ack' = [ack EXCEPT ![r] = h]
    BY <1>8, <2>0 DEF AckPost
  <2> QED BY <1>1, <2>4, <2>5
<1>9. ASSUME NEW r \in Request, AckAssign(r) \/ AckRefused(r) PROVE AckInv'
  BY <1>4, <1>9 DEF AckAssign, AckRefused
<1> QED BY <1>2, <1>5, <1>6, <1>7, <1>8, <1>9, Frame DEF AckAction, AckStep

(* What is told or acknowledged comes from what a handler carries.         *)
LEMMA NextTold ==
  ASSUME Typed, AliasInv, HookInv, AckInv, ToldInOrigin, [Next]_vars
  PROVE  ToldInOrigin'
<1>t. TypeOK /\ AcksReady
  BY DEF Typed
<1>a. \A x \in Request : aliasOf[x] # {} => aliasOf'[x] = aliasOf[x]
  BY <1>t, NextAliasInv
<1>0. ASSUME NEW r \in Request, NEW m, \E q \in Namesakes(r) : m = RoomOf[q]
      PROVE  \E q \in Namesakes(r)' : m = RoomOf[q]
  BY <1>0, <1>a, NamesakesStay
<1>1. \A t \in said : \E q \in Namesakes(t.alert)' : t.room = RoomOf[q]
  BY <1>0, <1>t DEF ToldInOrigin, TypeOK
<1>2. ASSUME NEW b \in Bot, NEW e \in Event, SayStatus(b, e) PROVE ToldInOrigin'
  <2>1. e.alert \in Request /\ \E q \in Namesakes(e.alert) : hook[b, e].room = RoomOf[q]
    BY <1>2, EventTyped DEF SayStatus, HookInv
  <2>2. PICK t : t = [room |-> hook[b, e].room, action |-> e.action, alert |-> e.alert]
    OBVIOUS
  <2>3. said' \subseteq said \cup {t}
    BY <1>2, <2>2 DEF SayStatus, Tell
  <2>5. t.room = hook[b, e].room /\ t.alert = e.alert
    BY <2>2
  <2>6. \E q \in Namesakes(e.alert)' : hook[b, e].room = RoomOf[q]
    BY <1>0, <2>1
  <2>4. \E q \in Namesakes(t.alert)' : t.room = RoomOf[q]
    BY <2>5, <2>6
  <2> QED BY <1>1, <2>3, <2>4 DEF ToldInOrigin
<1>3. ASSUME NEW r \in Request, AckAssign(r) PROVE ToldInOrigin'
  <2>1. ack[r].alert \in Request /\ \E q \in Namesakes(ack[r].alert) : ack[r].room = RoomOf[q]
    BY <1>3, <1>t DEF AckAssign, AckInv, AcksReady
  <2>2. PICK t : t = [room |-> ack[r].room, action |-> "AssignFailed", alert |-> ack[r].alert]
    OBVIOUS
  <2>3. said' \subseteq said \cup {t}
    BY <1>3, <2>2 DEF AckAssign, Tell
  <2>4. \E q \in Namesakes(t.alert)' : t.room = RoomOf[q]
    BY <1>0, <2>1, <2>2
  <2> QED BY <1>1, <2>3, <2>4 DEF ToldInOrigin
<1>4. ASSUME UNCHANGED said PROVE ToldInOrigin'
  BY <1>1, <1>4 DEF ToldInOrigin
<1> QED BY <1>2, <1>3, <1>4, Frame

LEMMA NextAcked ==
  ASSUME Typed, AliasInv, AckInv, AckHitsItsAlert, [Next]_vars
  PROVE  AckHitsItsAlert'
<1>t. TypeOK /\ AcksReady
  BY DEF Typed
<1>a. \A x \in Request : aliasOf[x] # {} => aliasOf'[x] = aliasOf[x]
  BY <1>t, NextAliasInv
<1>0. ASSUME NEW r \in Request, NEW k \in Request, \E q \in Namesakes(k) : Named(q, r)
      PROVE  \E q \in Namesakes(k)' : BotOf[q] = BotOf[r] /\ SameSid(q, r)'
  <2>1. PICK q \in Namesakes(k) : Named(q, r)
    BY <1>0
  <2>2. q \in Request /\ q \in Namesakes(k)'
    BY <1>a, NamesakesStay
  <2>3. Named(q, r)'
    BY <1>a, <2>1, <2>2, NamedStays
  <2> QED BY <2>1, <2>2, <2>3 DEF Named
<1>1. \A k \in acked :
        \E q \in Namesakes(k.alert)' : BotOf[q] = BotOf[k.request] /\ SameSid(q, k.request)'
  BY <1>0, <1>t DEF AckHitsItsAlert, TypeOK, Named
<1>2. ASSUME NEW r \in Request, AckPost(r) PROVE AckHitsItsAlert'
  <2>1. ack[r].alert \in Request /\ \E q \in Namesakes(ack[r].alert) : Named(q, r)
    BY <1>2, <1>t DEF AckPost, AckInv, AcksReady
  <2>2. PICK k : k = [request |-> r, alert |-> ack[r].alert]
    OBVIOUS
  <2>3. acked' = acked \cup {k}
    BY <1>2, <2>2 DEF AckPost
  <2>4. \E q \in Namesakes(k.alert)' : BotOf[q] = BotOf[k.request] /\ SameSid(q, k.request)'
    BY <1>0, <2>1, <2>2
  <2> QED BY <1>1, <2>3, <2>4 DEF AckHitsItsAlert
<1>3. ASSUME NEW r \in Request, AckCommand(r) \/ AckLookup(r) \/ AckResolve(r) \/ AckAssign(r)
                                \/ AckRefused(r)
      PROVE  AckHitsItsAlert'
  <2>1. UNCHANGED acked
    BY <1>3 DEF AckCommand, AckLookup, AckResolve, AckAssign, AckRefused
  <2> QED BY <1>1, <2>1 DEF AckHitsItsAlert
<1>4. ASSUME UNCHANGED acked PROVE AckHitsItsAlert'
  BY <1>1, <1>4 DEF AckHitsItsAlert
<1> QED BY <1>2, <1>3, <1>4, Frame DEF AckAction, AckStep

Routing ==
  /\ Typed /\ AliasInv /\ RowInv /\ HookInv /\ AckInv
  /\ ToldInOrigin /\ AckHitsItsAlert

LEMMA InitRouting == Init => Routing
<1> SUFFICES ASSUME Init PROVE Routing
  OBVIOUS
<1>1. AliasInv /\ RowInv /\ ToldInOrigin /\ AckHitsItsAlert
  BY DEF Init, AliasInv, RowInv, ToldInOrigin, AckHitsItsAlert
<1>2. HookInv /\ AckInv
  BY DEF Init, HookInv, AckInv, HookIdle, AckIdle
<1> QED BY <1>1, <1>2, InitTyped DEF Routing

LEMMA NextRouting == Routing /\ [Next]_vars => Routing'
<1> SUFFICES ASSUME Routing, [Next]_vars PROVE Routing'
  OBVIOUS
<1>1. TypeOK /\ Typed /\ AliasInv /\ RowInv /\ HookInv /\ AckInv /\ ToldInOrigin /\ AckHitsItsAlert
  BY DEF Routing, Typed
<1>2. TypeOK' /\ HooksReady' /\ AcksReady'
  BY <1>1, NextTypeOK, NextHooksReady, NextAcksReady
<1>3. AliasInv' /\ RowInv'
  BY <1>1, NextAliasInv, NextRowInv
<1>4. HookInv' /\ AckInv'
  BY <1>1, NextHookInv, NextAckInv
<1>5. ToldInOrigin' /\ AckHitsItsAlert'
  BY <1>1, NextTold, NextAcked
<1> QED BY <1>2, <1>3, <1>4, <1>5 DEF Routing, Typed

LEMMA RoutingHolds == Spec => []Routing
<1> QED BY InitRouting, NextRouting, PTL DEF Spec

(* Nothing about an alert is ever told outside the room that asked for it, *)
(* except in a room that asked for an alert with the very same alias.      *)
THEOREM AlertsStayInTheirRoom == Spec => []ToldInOrigin
<1>1. Routing => ToldInOrigin
  BY DEF Routing
<1> QED BY <1>1, RoutingHolds, PTL

(* A row is linked to nothing but an alert with its alias.                 *)
THEOREM LinksAreRight == Spec => []LinkedRight
<1>1. ASSUME Routing PROVE LinkedRight
  <2> SUFFICES ASSUME NEW w \in rows, w.jid # NoAlert
               PROVE  aliasOf[w.jid] = {w.alias} /\ \E q \in Namesakes(w.jid) : BotOf[q] = w.bot
    BY DEF LinkedRight
  <2>1. RowInv
    BY <1>1 DEF Routing
  <2>2. w.jid \in Request /\ aliasOf[w.jid] = {w.alias}
    BY <2>1 DEF RowInv, LinkFits
  <2>3. \E q \in Namesakes(w.jid) : RowFor(q, w)
    BY <2>1, <2>2, LinkedFits
  <2> QED BY <2>2, <2>3 DEF RowFor
<1>2. Routing => LinkedRight
  BY <1>1
<1> QED BY <1>2, RoutingHolds, PTL

(* Whichever days and rooms an id was drawn in, and whatever webhooks were *)
(* lost or doubled, an ack reaches an alert of its bot with that id: the   *)
(* one announced where it is typed, if the id was drawn once.              *)
THEOREM AcksHitTheirAlert == Spec => []AckHitsItsAlert
<1>1. Routing => AckHitsItsAlert
  BY DEF Routing
<1> QED BY <1>1, RoutingHolds, PTL

--------------------------------------------------------------------------------
(* Announcements: an announced id has its row.                             *)

(* The row that routes the alert of r.                                     *)
RouteOf(r) == \E w \in rows : w.bot = BotOf[r] /\ aliasOf[r] = {w.alias}

RouteInv == \A r \in Request : phase[r] \in {"stored", "announced"} => RouteOf(r)

(* Upserts and links replace a row by one with the same key.               *)
LEMMA NextRouteInv ==
  ASSUME Routing, RouteInv, [Next]_vars
  PROVE  RouteInv'
<1>0. TypeOK /\ AliasInv
  BY DEF Routing, Typed
<1>1. \A q \in Request : aliasOf[q] # {} => aliasOf'[q] = aliasOf[q]
  BY <1>0, NextAliasInv
<1>2. ASSUME NEW r \in Request, StoreRow(r) PROVE RouteInv'
  <2>1. PICK al \in aliasOf[r] : rows' = Upsert(BotOf[r], al, RoomOf[r])
    BY <1>2 DEF StoreRow
  <2>2. aliasOf[r] = {al} /\ aliasOf' = aliasOf
    BY <1>0, <1>2 DEF AliasInv, StoreRow
  <2>3. \A w \in rows : \E v \in rows' : v.bot = w.bot /\ v.alias = w.alias
    <3> SUFFICES ASSUME NEW w \in rows
                 PROVE  \E v \in rows' : v.bot = w.bot /\ v.alias = w.alias
      OBVIOUS
    <3>1. CASE w \in Keyed(BotOf[r], al)
      <4>1. w \in RowType
        BY <1>0 DEF TypeOK
      <4> DEFINE v == [w EXCEPT !.sid = al.sid, !.room = RoomOf[r]]
      <4>2. v \in rows'
        BY <2>1, <3>1 DEF Upsert
      <4>3. v.bot = w.bot /\ v.alias = w.alias
        BY <4>1 DEF RowType
      <4> QED BY <4>2, <4>3
    <3>2. CASE w \notin Keyed(BotOf[r], al)
      BY <2>1, <3>2 DEF Upsert
    <3> QED BY <3>1, <3>2
  <2>4. \E v \in rows' : v.bot = BotOf[r] /\ v.alias = al
    <3>1. CASE Keyed(BotOf[r], al) = {}
      <4> DEFINE v == [bot |-> BotOf[r], alias |-> al, sid |-> al.sid, room |-> RoomOf[r],
                       jid |-> NoAlert]
      <4>1. v \in rows'
        BY <2>1, <3>1 DEF Upsert
      <4> QED BY <4>1
    <3>2. CASE Keyed(BotOf[r], al) # {}
      BY <2>3, <3>2 DEF Keyed
    <3> QED BY <3>1, <3>2
  <2>5. phase' = [phase EXCEPT ![r] = "stored"]
    BY <1>2 DEF StoreRow, At
  <2>6. ASSUME NEW q \in Request, q # r, phase'[q] \in {"stored", "announced"} PROVE RouteOf(q)'
    <3>1. RouteOf(q)
      BY <1>0, <2>5, <2>6 DEF RouteInv, TypeOK
    <3>2. PICK w \in rows : w.bot = BotOf[q] /\ aliasOf[q] = {w.alias}
      BY <3>1 DEF RouteOf
    <3>3. PICK v \in rows' : v.bot = w.bot /\ v.alias = w.alias
      BY <2>3
    <3> QED BY <2>2, <3>2, <3>3 DEF RouteOf
  <2>7. RouteOf(r)'
    BY <2>2, <2>4 DEF RouteOf
  <2> QED BY <2>6, <2>7 DEF RouteInv
<1>3. ASSUME NEW b \in Bot, NEW e \in Event, ApplyCreate(b, e) PROVE RouteInv'
  <2>0. PICK m : m = hook[b, e].room
    OBVIOUS
  <2>1. PICK al \in aliasOf[e.alert] : rows' = Linked(b, al, e.alert, m)
    BY <1>3, <2>0 DEF ApplyCreate
  <2>2. \A w \in rows : \E v \in rows' : v.bot = w.bot /\ v.alias = w.alias
    <3> SUFFICES ASSUME NEW w \in rows
                 PROVE  \E v \in rows' : v.bot = w.bot /\ v.alias = w.alias
      OBVIOUS
    <3>1. w \in RowType
      BY <1>0 DEF TypeOK
    <3> DEFINE v == [w EXCEPT !.jid = e.alert]
    <3>2. v.bot = w.bot /\ v.alias = w.alias
      BY <3>1 DEF RowType
    <3>3. w \in rows' \/ v \in rows'
      BY <2>1 DEF Linked
    <3> QED BY <3>2, <3>3
  <2>3. UNCHANGED <<phase, aliasOf>>
    BY <1>3 DEF ApplyCreate
  <2> QED BY <2>2, <2>3 DEF RouteInv, RouteOf
<1>4. ASSUME UNCHANGED <<rows, phase, aliasOf>> PROVE RouteInv'
  BY <1>4 DEF RouteInv, RouteOf
<1>5. ASSUME NEW r \in Request,
             BuildAlert(r) \/ PostAlert(r) \/ PostRefused(r) \/ StoreFails(r) \/ Announce(r)
      PROVE  RouteInv'
  <2>1. UNCHANGED rows
    BY <1>5 DEF BuildAlert, PostAlert, PostRefused, StoreFails, Announce
  <2>2. \A q \in Request : phase'[q] \in {"stored", "announced"} =>
                            phase[q] \in {"stored", "announced"}
    BY <1>0, <1>5 DEF BuildAlert, PostAlert, PostRefused, StoreFails, Announce, At, TypeOK
  <2>3. \A q \in Request : phase'[q] \in {"stored", "announced"} => aliasOf'[q] = aliasOf[q]
    BY <1>0, <1>1, <2>2 DEF AliasInv
  <2> QED BY <2>1, <2>2, <2>3 DEF RouteInv, RouteOf
<1>6. ASSUME NEW r \in Request, UserActs(r) \/ AckAction(r) PROVE RouteInv'
  BY <1>4, <1>6 DEF UserActs, AckAction, AckCommand, AckStep, AckRefused, AckLookup,
                    AckResolve, AckPost, AckAssign
<1>7. ASSUME NEW b \in Bot, NEW e \in Event,
             ReceiveCreate(b, e) \/ ReceiveStatus(b, e) \/ LookupAlias(b, e) \/ SayStatus(b, e)
      PROVE  RouteInv'
  BY <1>4, <1>7 DEF ReceiveCreate, ReceiveStatus, LookupAlias, SayStatus
<1>8. CASE NextDay \/ UNCHANGED vars
  BY <1>4, <1>8 DEF NextDay, vars
<1> QED
  BY <1>2, <1>3, <1>5, <1>6, <1>7, <1>8 DEF Next, TriggerStep, HookStep, AckAction

(* An announced tracking id always has its row, which names the room of    *)
(* the alert or of a namesake.                                             *)
THEOREM AnnouncedAlertsRoute == Spec => []AnnouncedRoutable
<1>1. Init => RouteInv
  BY DEF Init, RouteInv
<1>2. Routing /\ RouteInv /\ [Next]_vars => RouteInv'
  BY NextRouteInv
<1>3. ASSUME Routing, RouteInv PROVE AnnouncedRoutable
  <2> SUFFICES ASSUME NEW r \in Request, phase[r] = "announced"
               PROVE  \E w \in rows :
                        /\ w.bot = BotOf[r] /\ aliasOf[r] = {w.alias}
                        /\ \E q \in Namesakes(r) : BotOf[q] = BotOf[r] /\ w.room = RoomOf[q]
    BY DEF AnnouncedRoutable
  <2>1. PICK w \in rows : w.bot = BotOf[r] /\ aliasOf[r] = {w.alias}
    BY <1>3 DEF RouteInv, RouteOf
  <2>2. PICK q \in Request : RowFor(q, w)
    BY <1>3 DEF Routing, RowInv
  <2>3. q \in Namesakes(r) /\ BotOf[q] = BotOf[r] /\ w.room = RoomOf[q]
    BY <2>1, <2>2 DEF RowFor, Namesakes
  <2> QED BY <2>1, <2>3
<1>4. Routing /\ RouteInv => AnnouncedRoutable
  BY <1>3
<1> QED BY <1>1, <1>2, <1>4, RoutingHolds, PTL DEF Spec
================================================================================
