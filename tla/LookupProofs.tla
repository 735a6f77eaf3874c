----------------------------- MODULE LookupProofs -----------------------------
(***************************************************************************)
(* Theorems about the two caches of the look-up plugins (lookup/base.py):  *)
(* PersonCache, for any humans, threads, plugins and requests, and         *)
(* TeamCache, for any persons, bots, threads and durations.                *)
(*                                                                         *)
(* The argument for NobodyMixedUp: every fragment is of one human, the one *)
(* the caller wants, or of an account noted as guessed for that human      *)
(* (Meant), whatever service told it; a transaction inserts rows of its    *)
(* fragment only, so every id is written with an email of its owner or of  *)
(* the one it was guessed for (Rowed), and guesses stay noted.             *)
(*                                                                         *)
(* The argument for NobodyLongGone: what a thread has fetched was right    *)
(* when its look-up began (GotIsRecent), so what it merges into the copy   *)
(* is MaxCall old at most, and so is what any other thread of the process  *)
(* has put there meanwhile (StoredIsRecent); a copy that is stamped as     *)
(* fresh when it is stored is then at most 2 * MaxCall older than it       *)
(* looks, and so is the row it is written to and every copy loaded from    *)
(* it (CopiesAreRecent, TeamIsRecent of the row).                          *)
(***************************************************************************)
EXTENDS PersonCache, TeamCache, TLAPS

USE PersonAssumption, WantedAssumption, TeamAssumption, NoTeamAssumption

-----------------------------------------------------------------------------
(* Ids, emails and calls.                                                  *)

LEMMA IdIsNoEmail == ASSUME NEW i \in PlatformId PROVE i \notin Email
BY DEF PlatformId, Platform, Email

LEMMA NoEmailIsNoId == NoEmail \notin PlatformId
OBVIOUS

LEMMA EmailsOf ==
  ASSUME NEW h \in Human
  PROVE  /\ Own(h) \in Email /\ Owner(Own(h)) = h
         /\ Spelt(h) \in Email /\ Owner(Spelt(h)) = h
         /\ Made(h) \in Email /\ Owner(Made(h)) = h
BY DEF Own, Spelt, Made, Owner, Email

LEMMA IdsOf ==
  ASSUME NEW h \in Human, NEW p \in Platform
  PROVE  <<p, h>> \in PlatformId /\ Owner(<<p, h>>) = h
BY DEF PlatformId, Owner

LEMMA BlankTyped ==
  ASSUME NEW at \in Stage, NEW want \in Want
  PROVE  /\ Blank(at, want) \in Call
         /\ Blank(at, want).at = at /\ Blank(at, want).want = want
         /\ Blank(at, want).answer = NoEmail
<1>1. want.human \in Human
  BY DEF Want
<1> QED BY <1>1, EmailsOf DEF Blank, Call, Fragment

LEMMA IdleTyped == Idle \in Call /\ Idle.at = "idle" /\ Idle.answer = NoEmail
<1>1. [kind |-> "event", human |-> SomeHuman] \in Want
  BY DEF SomeHuman, Want
<1> QED BY <1>1, BlankTyped DEF Idle, Stage

Answer == Email \cup PlatformId \cup {NoEmail}

(* Only who wants an account is answered with one.                         *)
Fits(answer, want) == answer \in PlatformId => want.kind = "account"

LEMMA CallTyped ==
  ASSUME TypeOK, NEW c \in Caller
  PROVE  /\ call[c] \in Call /\ call[c].want \in Want /\ call[c].want.human \in Human
         /\ call[c].frag \in Fragment /\ call[c].answer \in Answer
         /\ Fits(call[c].answer, call[c].want)
BY DEF TypeOK, Call, Want, Answer, Fits

(* One call changes and fits: all calls stay typed.                        *)
Changes(c, k) ==
  /\ k \in Call /\ Fits(k.answer, k.want)
  /\ call' = [call EXCEPT ![c] = k]

CallsTyped ==
  /\ call \in [Caller -> Call]
  /\ \A c \in Caller : call[c].answer \in PlatformId => call[c].want.kind = "account"

LEMMA ChangesTyped ==
  ASSUME TypeOK, NEW c \in Caller, NEW k, Changes(c, k)
  PROVE  CallsTyped' /\ call'[c] = k /\ \A d \in Caller : d # c => call'[d] = call[d]
BY DEF Changes, CallsTyped, TypeOK, Fits

(* The three ways a step changes a call.                                   *)
LEMMA EndedTyped ==
  ASSUME TypeOK, NEW c \in Caller, NEW answer \in Answer, Fits(answer, call[c].want),
         Ended(c, answer)
  PROVE  /\ CallsTyped' /\ \A d \in Caller : d # c => call'[d] = call[d]
         /\ call'[c].at = "done" /\ call'[c].answer = answer /\ call'[c].want = call[c].want
<1> DEFINE k == [call[c] EXCEPT !.at = "done", !.answer = answer, !.frag = Idle.frag, !.insert = {}]
<1>1. call[c] \in Call /\ Idle.frag \in Fragment
  BY CallTyped, IdleTyped DEF Call
<1>2. k \in Call /\ k.at = "done" /\ k.answer = answer /\ k.want = call[c].want
  BY <1>1 DEF Call, Stage, Answer
<1>3. call' = [call EXCEPT ![c] = k]
  BY DEF Ended
<1> HIDE DEF k
<1>4. Changes(c, k)
  BY <1>2, <1>3 DEF Changes
<1> QED BY <1>2, <1>4, ChangesTyped

LEMMA RaisedTyped ==
  ASSUME TypeOK, NEW c \in Caller, Raised(c)
  PROVE  /\ CallsTyped' /\ \A d \in Caller : d # c => call'[d] = call[d]
         /\ call'[c].at = "raised" /\ call'[c].answer = call[c].answer /\ call'[c].want = call[c].want
<1> DEFINE k == [call[c] EXCEPT !.at = "raised", !.frag = Idle.frag, !.insert = {}]
<1>1. call[c] \in Call /\ Idle.frag \in Fragment /\ Fits(call[c].answer, call[c].want)
  BY CallTyped, IdleTyped DEF Call
<1>2. k \in Call /\ k.at = "raised" /\ k.answer = call[c].answer /\ k.want = call[c].want
  BY <1>1 DEF Call, Stage
<1>3. call' = [call EXCEPT ![c] = k]
  BY DEF Raised
<1> HIDE DEF k
<1>4. Changes(c, k)
  BY <1>1, <1>2, <1>3 DEF Changes
<1> QED BY <1>2, <1>4, ChangesTyped

LEMMA FoundTyped ==
  ASSUME TypeOK, NEW c \in Caller, NEW frag \in Fragment, NEW answer \in Answer,
         Fits(answer, call[c].want), Found(c, frag, answer)
  PROVE  /\ CallsTyped' /\ \A d \in Caller : d # c => call'[d] = call[d]
         /\ call'[c].at = "read" /\ call'[c].answer = answer /\ call'[c].want = call[c].want
         /\ call'[c].frag = frag
<1> DEFINE k == [call[c] EXCEPT !.at = "read", !.frag = frag, !.answer = answer]
<1>1. call[c] \in Call
  BY CallTyped
<1>2. k \in Call /\ k.at = "read" /\ k.answer = answer /\ k.want = call[c].want /\ k.frag = frag
  BY <1>1 DEF Call, Stage, Answer
<1>3. call' = [call EXCEPT ![c] = k]
  BY DEF Found
<1> HIDE DEF k
<1>4. Changes(c, k)
  BY <1>2, <1>3 DEF Changes
<1> QED BY <1>2, <1>4, ChangesTyped

LEMMA BegunTyped ==
  ASSUME TypeOK, NEW c \in Caller, NEW want \in Want,
         call' = [call EXCEPT ![c] = Blank("look", want)]
  PROVE  /\ CallsTyped' /\ \A d \in Caller : d # c => call'[d] = call[d]
         /\ call'[c].at = "look" /\ call'[c].answer = NoEmail
<1>1. NoEmail \notin PlatformId
  BY NoEmailIsNoId
<1>2. Changes(c, Blank("look", want))
  BY <1>1, BlankTyped DEF Changes, Fits, Stage
<1> QED BY <1>2, BlankTyped, ChangesTyped DEF Stage

LEMMA AskTyped ==
  ASSUME TypeOK, NEW c \in Caller, NEW answer \in Answer, Fits(answer, call[c].want),
         call' = [call EXCEPT ![c].at = "ask", ![c].answer = answer]
  PROVE  /\ CallsTyped' /\ \A d \in Caller : d # c => call'[d] = call[d]
         /\ call'[c].at = "ask" /\ call'[c].answer = answer /\ call'[c].want = call[c].want
<1> DEFINE k == [call[c] EXCEPT !.at = "ask", !.answer = answer]
<1>1. call[c] \in Call
  BY CallTyped
<1>2. k \in Call /\ k.at = "ask" /\ k.answer = answer /\ k.want = call[c].want
  BY <1>1 DEF Call, Stage, Answer
<1> HIDE DEF k
<1>4. Changes(c, k)
  BY <1>2 DEF Changes, k
<1> QED BY <1>2, <1>4, ChangesTyped

-----------------------------------------------------------------------------
(* What the services tell.                                                 *)

(* An id of a human, or one guessed for that human; a fragment of those.   *)
Right(i, h, g) == Owner(i) = h \/ <<i, h>> \in g
About(frag, h, g) == Owner(frag.email) = h /\ \A i \in frag.ids : Right(i, h, g)

LEMMA WebexTells ==
  ASSUME TypeOK, NEW c \in Caller, AskWebex(c)
  PROVE  \E frag \in Fragment :
           Found(c, frag, NoEmail) /\ About(frag, call[c].want.human, guessed')
<1> DEFINE h == call[c].want.human
           told(e, named) == [email |-> e, ids |-> {<<"webex", h>>}, named |-> named]
<1>1. h \in Human /\ "webex" \in Platform
  BY CallTyped DEF Platform
<1>2. \A e \in Email : \A named \in BOOLEAN :
        told(e, named) \in Fragment /\ (Owner(e) = h => About(told(e, named), h, guessed'))
  BY <1>1, IdsOf DEF Fragment, About, Right
<1>3. Found(c, told(Spelt(h), TRUE), NoEmail) \/ Found(c, told(Made(h), FALSE), NoEmail)
  BY DEF AskWebex
<1> HIDE DEF told, h
<1>4. Owner(Spelt(h)) = h /\ Owner(Made(h)) = h /\ Spelt(h) \in Email /\ Made(h) \in Email
  BY <1>1, EmailsOf
<1>5. \E frag \in Fragment : Found(c, frag, NoEmail) /\ About(frag, h, guessed')
  BY <1>2, <1>3, <1>4
<1> QED BY <1>5 DEF h

(* Jira tells of the human searched for, or a guess is noted.              *)
LEMMA JiraTells ==
  ASSUME TypeOK, NEW c \in Caller, AskJira(c)
  PROVE  /\ guessed \subseteq guessed' /\ guessed' \subseteq ({"jira"} \X Human) \X Human
         /\ \/ Ended(c, call[c].answer)
            \/ \E frag \in Fragment, answer \in Answer :
                 /\ Found(c, frag, answer) /\ About(frag, call[c].want.human, guessed')
                 /\ answer # NoEmail =>
                      call[c].want.kind = "account" /\ Right(answer, call[c].want.human, guessed')
<1> DEFINE want == call[c].want
           h == want.human
<1>1. h \in Human /\ "jira" \in Platform /\ guessed \subseteq ({"jira"} \X Human) \X Human
  BY CallTyped DEF Platform, TypeOK
<1>2. CASE Ended(c, call[c].answer) /\ UNCHANGED guessed
  BY <1>1, <1>2
<1>3. CASE ~(Ended(c, call[c].answer) /\ UNCHANGED guessed)
  <2>0. PICK users \in SUBSET Human : \E g \in Matches(h, users) :
          /\ Found(c, [email |-> Own(h), ids |-> {<<"jira", g>>}, named |-> TRUE],
                   IF want.kind = "account" THEN <<"jira", g>> ELSE NoEmail)
          /\ guessed' = IF g = h \/ h \in users \ Hides THEN guessed
                        ELSE guessed \cup {<<<<"jira", g>>, h>>}
    BY <1>3 DEF AskJira
  <2>1. PICK g \in Matches(h, users) :
          /\ Found(c, [email |-> Own(h), ids |-> {<<"jira", g>>}, named |-> TRUE],
                   IF want.kind = "account" THEN <<"jira", g>> ELSE NoEmail)
          /\ guessed' = IF g = h \/ h \in users \ Hides THEN guessed
                        ELSE guessed \cup {<<<<"jira", g>>, h>>}
    BY <2>0
  <2>2. g \in Human /\ (h \in users \ Hides => g = h)
    BY <1>1 DEF Matches
  <2>3. /\ <<"jira", g>> \in PlatformId /\ Owner(<<"jira", g>>) = g
        /\ Own(h) \in Email /\ Owner(Own(h)) = h
    BY <1>1, <2>2, IdsOf, EmailsOf
  <2>4. /\ guessed \subseteq guessed' /\ guessed' \subseteq ({"jira"} \X Human) \X Human
        /\ g = h \/ <<<<"jira", g>>, h>> \in guessed'
    BY <1>1, <2>1, <2>2
  <2>5. Right(<<"jira", g>>, h, guessed')
    BY <2>3, <2>4 DEF Right
  <2>6. PICK frag : frag = [email |-> Own(h), ids |-> {<<"jira", g>>}, named |-> TRUE]
    OBVIOUS
  <2>7. frag \in Fragment /\ About(frag, h, guessed')
    BY <2>3, <2>5, <2>6 DEF Fragment, About
  <2>8. PICK answer : answer = IF want.kind = "account" THEN <<"jira", g>> ELSE NoEmail
    OBVIOUS
  <2>9. /\ answer \in Answer
        /\ answer # NoEmail => want.kind = "account" /\ Right(answer, h, guessed')
    BY <2>3, <2>5, <2>8 DEF Answer
  <2>10. Found(c, frag, answer)
    BY <2>1, <2>6, <2>8
  <2> QED BY <2>4, <2>7, <2>9, <2>10
<1> QED BY <1>2, <1>3

LEMMA EntryTells ==
  ASSUME NEW h \in Human, NEW frag \in Entry(h)
  PROVE  frag \in Fragment /\ \A g : About(frag, h, g)
<1>1. \A i \in Platform \X {h} : i \in PlatformId /\ Owner(i) = h
  BY DEF PlatformId, Owner
<1>2. frag.ids \subseteq Platform \X {h} /\ frag.named \in BOOLEAN /\ frag.email \in {Own(h), Spelt(h)}
  <2>1. CASE plugin = "ldap_ad"
    <3>1. frag \in [email : {Spelt(h)}, ids : {keys \X {h} : keys \in SUBSET Platform}, named : BOOLEAN]
      BY <2>1 DEF Entry
    <3>2. PICK keys \in SUBSET Platform : frag.ids = keys \X {h}
      BY <3>1
    <3>3. \A i \in keys \X {h} : i \in Platform \X {h}
      OBVIOUS
    <3> QED BY <3>1, <3>2, <3>3
  <2>2. CASE plugin # "ldap_ad"
    <3>1. frag \in [email : {Own(h)}, ids : {{<<"jira", h>>}}, named : BOOLEAN]
      BY <2>2 DEF Entry
    <3> QED BY <3>1 DEF Platform
  <2> QED BY <2>1, <2>2
<1>3. frag = [email |-> frag.email, ids |-> frag.ids, named |-> frag.named]
  BY DEF Entry
<1> QED BY <1>1, <1>2, <1>3, EmailsOf DEF Fragment, About, Right

LEMMA DirectoryTells ==
  ASSUME TypeOK, NEW c \in Caller, AskDirectory(c)
  PROVE  \/ Ended(c, NoEmail)
         \/ \E frag \in Fragment :
              Found(c, frag, NoEmail) /\ About(frag, call[c].want.human, guessed')
BY CallTyped, EntryTells DEF AskDirectory

(* What the cache answers by itself.                                       *)
LEMMA CacheTells ==
  ASSUME TypeOK, NEW c \in Caller, Look(c)
  PROVE  \E answer \in Answer :
           /\ \/ Ended(c, answer)
              \/ call' = [call EXCEPT ![c].at = "ask", ![c].answer = answer]
           /\ \/ answer = NoEmail
              \/ answer = ids[<<"webex", call[c].want.human>>]
              \/ answer = Own(call[c].want.human)
              \/ /\ call[c].want.kind = "account" /\ answer \in {"jira"} \X Human
                 /\ ids[answer] = Own(call[c].want.human)
<1> DEFINE want == call[c].want
           h == want.human
           had == IF want.kind = "email" THEN Known(Own(h)) ELSE NoEmail
<1>1. h \in Human /\ "webex" \in Platform /\ <<"webex", h>> \in PlatformId /\ Own(h) \in Email
  BY CallTyped, IdsOf, EmailsOf DEF Platform
<1>2. Known(Own(h)) \in {NoEmail, Own(h)}
  BY DEF Known
<1>3. want.kind \in {"event", "email", "member", "account"}
  BY CallTyped DEF Want
<1>4. PICK hit \in CacheAnswers(want) :
        Ended(c, hit) \/ call' = [call EXCEPT ![c].at = "ask", ![c].answer = had]
  BY DEF Look
<1>5. \/ hit \in {NoEmail, Own(h), ids[<<"webex", h>>]}
      \/ want.kind = "account" /\ hit \in {"jira"} \X Human /\ ids[hit] = Own(h)
  BY <1>2, <1>3, <1>4 DEF CacheAnswers
<1>6. had \in {NoEmail, Own(h)}
  BY <1>2
<1>7. ids[<<"webex", h>>] \in Email \cup {NoEmail}
  BY <1>1 DEF TypeOK
<1>8. {"jira"} \X Human \subseteq PlatformId
  BY DEF PlatformId, Platform
<1> HIDE DEF want, h, had
<1>9. hit \in Answer /\ had \in Answer
  BY <1>1, <1>5, <1>6, <1>7, <1>8 DEF Answer
<1>10. \E answer \in Answer :
           /\ \/ Ended(c, answer)
              \/ call' = [call EXCEPT ![c].at = "ask", ![c].answer = answer]
           /\ \/ answer = NoEmail \/ answer = ids[<<"webex", h>>] \/ answer = Own(h)
              \/ want.kind = "account" /\ answer \in {"jira"} \X Human /\ ids[answer] = Own(h)
  BY <1>4, <1>5, <1>6, <1>9
<1> QED BY <1>10 DEF h, want

LEMMA CacheFits ==
  ASSUME TypeOK, NEW c \in Caller, NEW answer \in Answer,
         \/ answer = NoEmail
         \/ answer = ids[<<"webex", call[c].want.human>>]
         \/ answer = Own(call[c].want.human)
         \/ call[c].want.kind = "account"
  PROVE  Fits(answer, call[c].want)
<1>1. ids[<<"webex", call[c].want.human>>] \in Email \cup {NoEmail}
  BY CallTyped, IdsOf DEF TypeOK, Platform
<1>2. Own(call[c].want.human) \in Email
  BY CallTyped, EmailsOf
<1> QED BY <1>1, <1>2, IdIsNoEmail, NoEmailIsNoId DEF Fits

LEMMA ReadsTyped ==
  ASSUME TypeOK, NEW c \in Caller, MergeReads(c)
  PROVE  /\ CallsTyped' /\ \A d \in Caller : d # c => call'[d] = call[d]
         /\ call'[c].at = "commit" /\ call'[c].answer = call[c].answer
         /\ call'[c].want = call[c].want /\ call'[c].frag = call[c].frag
         /\ call'[c].insert \subseteq {call[c].frag.email} \cup call[c].frag.ids
<1> DEFINE k == [call[c] EXCEPT !.at = "commit", !.insert = Missing(call[c].frag)]
<1>1. Missing(call[c].frag) \subseteq {call[c].frag.email} \cup call[c].frag.ids
  BY DEF Missing
<1>2. Missing(call[c].frag) \subseteq Email \cup PlatformId
  BY <1>1, CallTyped DEF Fragment
<1>3. call[c] \in Call /\ Fits(call[c].answer, call[c].want)
  BY CallTyped
<1>4. /\ k \in Call /\ k.at = "commit" /\ k.answer = call[c].answer /\ k.want = call[c].want
      /\ k.frag = call[c].frag /\ k.insert = Missing(call[c].frag)
  BY <1>2, <1>3 DEF Call, Stage
<1>5. call' = [call EXCEPT ![c] = k]
  BY DEF MergeReads
<1> HIDE DEF k
<1>6. Changes(c, k)
  BY <1>3, <1>4, <1>5 DEF Changes
<1> QED BY <1>1, <1>4, <1>6, ChangesTyped

-----------------------------------------------------------------------------
LEMMA InitTyped == ASSUME Init PROVE TypeOK
BY IdleTyped, NoEmailIsNoId DEF Init, TypeOK, NameState

LEMMA ResultTyped ==
  ASSUME TypeOK, NEW c \in Caller
  PROVE  Result(c) \in Answer /\ Fits(Result(c), call[c].want)
<1>1. call[c].frag.email \in Email
  BY CallTyped DEF Fragment
<1> QED BY <1>1, CallTyped, IdIsNoEmail DEF Result, Answer, Fits

LEMMA CommitTyped ==
  ASSUME TypeOK, NEW c \in Caller, MergeCommits(c) PROVE TypeOK'
<1>1. call[c].frag.email \in Email /\ call[c].frag.named \in BOOLEAN
  BY CallTyped DEF Fragment
<1>2. CallsTyped'
  BY EndedTyped, ResultTyped DEF MergeCommits
<1>3. name' \in [Email -> NameState]
  BY <1>1 DEF MergeCommits, Named, TypeOK, NameState
<1>4. ids' \in [PlatformId -> Email \cup {NoEmail}]
  BY <1>1 DEF MergeCommits, TypeOK
<1> QED BY <1>2, <1>3, <1>4 DEF MergeCommits, TypeOK, CallsTyped

LEMMA StepTyped == ASSUME TypeOK, [Next]_vars PROVE TypeOK'
<1>1. ASSUME NEW c \in Caller, Begin(c) PROVE TypeOK'
  <2>1. PICK want \in Want : call' = [call EXCEPT ![c] = Blank("look", want)]
    BY <1>1 DEF Begin
  <2> QED BY <1>1, <2>1, BegunTyped DEF Begin, TypeOK, CallsTyped
<1>2. ASSUME NEW c \in Caller, Look(c) PROVE TypeOK'
  <2>1. CallsTyped'
    <3>1. PICK answer \in Answer :
            /\ \/ Ended(c, answer)
               \/ call' = [call EXCEPT ![c].at = "ask", ![c].answer = answer]
            /\ \/ answer = NoEmail
               \/ answer = ids[<<"webex", call[c].want.human>>]
               \/ answer = Own(call[c].want.human)
               \/ call[c].want.kind = "account"
      BY <1>2, CacheTells
    <3>2. Fits(answer, call[c].want)
      BY <3>1, CacheFits
    <3> QED BY <3>1, <3>2, EndedTyped, AskTyped
  <2> QED BY <1>2, <2>1 DEF Look, TypeOK, CallsTyped
<1>3. ASSUME NEW c \in Caller, AskWebex(c) \/ AskJira(c) \/ AskDirectory(c) PROVE TypeOK'
  <2>0. NoEmail \in Answer /\ Fits(NoEmail, call[c].want)
    BY NoEmailIsNoId DEF Answer, Fits
  <2>1. CallsTyped'
    <3>1. CASE AskWebex(c)
      BY <2>0, <3>1, WebexTells, FoundTyped
    <3>2. CASE AskJira(c)
      <4>1. CASE Ended(c, call[c].answer)
        BY <4>1, CallTyped, EndedTyped
      <4>2. CASE ~Ended(c, call[c].answer)
        <5>1. PICK frag \in Fragment, answer \in Answer :
                /\ Found(c, frag, answer)
                /\ answer # NoEmail => call[c].want.kind = "account"
          BY <3>2, <4>2, JiraTells
        <5>2. Fits(answer, call[c].want)
          BY <5>1, NoEmailIsNoId DEF Fits
        <5> QED BY <5>1, <5>2, FoundTyped
      <4> QED BY <4>1, <4>2
    <3>3. CASE AskDirectory(c)
      BY <2>0, <3>3, DirectoryTells, FoundTyped, EndedTyped
    <3> QED BY <1>3, <3>1, <3>2, <3>3
  <2>2. mishaps' \in 0..MaxMishaps /\ guessed' \subseteq ({"jira"} \X Human) \X Human
    <3>1. CASE AskWebex(c)
      BY <3>1 DEF AskWebex, Mishap, TypeOK
    <3>2. CASE AskJira(c)
      BY <3>2, JiraTells DEF AskJira, TypeOK
    <3>3. CASE AskDirectory(c)
      BY <3>3 DEF AskDirectory, TypeOK
    <3> QED BY <1>3, <3>1, <3>2, <3>3
  <2>3. UNCHANGED <<plugin, name, ids>>
    BY <1>3 DEF AskWebex, AskJira, AskDirectory
  <2> QED BY <2>1, <2>2, <2>3 DEF TypeOK, CallsTyped
<1>4. ASSUME NEW c \in Caller, MergeReads(c) PROVE TypeOK'
  BY <1>4, ReadsTyped DEF MergeReads, TypeOK, CallsTyped
<1>5. ASSUME NEW c \in Caller, MergeRaises(c) PROVE TypeOK'
  <2>1. mishaps' \in 0..MaxMishaps
    BY <1>5 DEF MergeRaises, Mishap, TypeOK
  <2>2. CallsTyped'
    BY <1>5, RaisedTyped, ResultTyped, EndedTyped DEF MergeRaises
  <2> QED BY <1>5, <2>1, <2>2 DEF MergeRaises, TypeOK, CallsTyped
<1>6. CASE UNCHANGED vars
  BY <1>6 DEF vars, TypeOK
<1> QED BY <1>1, <1>2, <1>3, <1>4, <1>5, <1>6, CommitTyped DEF Next, CallStep

(* Every row and every call keeps its type, whatever the services tell.    *)
THEOREM PeopleTyped == Spec => []TypeOK
BY InitTyped, StepTyped, PTL DEF Spec

-----------------------------------------------------------------------------
(* Whose rows and answers they are.                                        *)

Rowed == \A i \in PlatformId :
           ids[i] # NoEmail => /\ Owner(ids[i]) = Owner(i) \/ <<i, Owner(ids[i])>> \in guessed
                               /\ name[ids[i]] # "absent"

(* The answer to a want.                                                   *)
Suits(answer, want, g) ==
  answer # NoEmail =>
    \/ Owner(answer) = want.human
    \/ want.kind = "account" /\ <<answer, want.human>> \in g

(* A call answers with, and merges, the human it is about.                 *)
MeantBy(k, g) ==
  /\ Suits(k.answer, k.want, g)
  /\ k.at \in {"read", "commit"} => About(k.frag, k.want.human, g)
  /\ k.at = "commit" => k.insert \subseteq {k.frag.email} \cup k.frag.ids

Meant == \A c \in Caller : MeantBy(call[c], guessed)

IInv == TypeOK /\ Rowed /\ Meant

LEMMA InitMeant == ASSUME Init PROVE IInv
<1>1. Rowed
  BY DEF Init, Rowed
<1>2. Meant
  BY IdleTyped DEF Init, Meant, MeantBy, Suits
<1> QED BY <1>1, <1>2, InitTyped DEF IInv

(* Guesses are never forgotten, so what fits them goes on to.              *)
LEMMA MeantStays ==
  ASSUME NEW g, NEW k, NEW m, g \subseteq m, MeantBy(k, g) PROVE MeantBy(k, m)
BY DEF MeantBy, Suits, About, Right

LEMMA RowedStays ==
  ASSUME Rowed, UNCHANGED <<ids, name>>, guessed \subseteq guessed' PROVE Rowed'
BY DEF Rowed, Owner

LEMMA OthersMeant ==
  ASSUME Meant, NEW c \in Caller, \A d \in Caller : d # c => call'[d] = call[d],
         guessed \subseteq guessed', MeantBy(call'[c], guessed')
  PROVE  Meant'
<1>1. \A d \in Caller : MeantBy(call'[d], guessed')
  BY MeantStays DEF Meant
<1> QED BY <1>1 DEF Meant, MeantBy, Suits, About, Right, Owner

LEMMA EndedMeant ==
  ASSUME TypeOK, Meant, NEW c \in Caller, NEW answer \in Answer, Fits(answer, call[c].want),
         Ended(c, answer), guessed \subseteq guessed', Suits(answer, call[c].want, guessed')
  PROVE  Meant'
<1>1. MeantBy(call'[c], guessed')
  BY EndedTyped DEF MeantBy
<1> QED BY <1>1, EndedTyped, OthersMeant

LEMMA FoundMeant ==
  ASSUME TypeOK, Meant, NEW c \in Caller, NEW frag \in Fragment, NEW answer \in Answer,
         Fits(answer, call[c].want), Found(c, frag, answer), guessed \subseteq guessed',
         Suits(answer, call[c].want, guessed'), About(frag, call[c].want.human, guessed')
  PROVE  Meant'
<1>1. MeantBy(call'[c], guessed')
  BY FoundTyped DEF MeantBy
<1> QED BY <1>1, FoundTyped, OthersMeant

LEMMA LookMeant ==
  ASSUME TypeOK, Rowed, Meant, NEW c \in Caller, Look(c) PROVE Meant'
<1> DEFINE want == call[c].want
           h == want.human
<1>0. guessed' = guessed /\ guessed \subseteq ({"jira"} \X Human) \X Human
  BY DEF Look, TypeOK
<1>1. PICK answer \in Answer :
        /\ \/ Ended(c, answer)
           \/ call' = [call EXCEPT ![c].at = "ask", ![c].answer = answer]
        /\ \/ answer = NoEmail \/ answer = ids[<<"webex", h>>] \/ answer = Own(h)
           \/ want.kind = "account" /\ answer \in {"jira"} \X Human /\ ids[answer] = Own(h)
  BY CacheTells
<1>2. h \in Human /\ <<"webex", h>> \in PlatformId /\ Owner(<<"webex", h>>) = h
  BY CallTyped, IdsOf DEF Platform
<1>3. Suits(answer, want, guessed')
  <2>1. CASE answer = NoEmail \/ answer = Own(h)
    BY <1>2, <2>1, EmailsOf DEF Suits
  <2>2. CASE answer = ids[<<"webex", h>>]
    <3>1. \A x : <<<<"webex", h>>, x>> \notin guessed
      BY <1>0
    <3> QED BY <1>2, <2>2, <3>1 DEF Suits, Rowed
  <2>3. CASE want.kind = "account" /\ answer \in {"jira"} \X Human /\ ids[answer] = Own(h)
    <3>1. answer \in PlatformId /\ Own(h) # NoEmail /\ Owner(Own(h)) = h
      BY <1>2, <2>3, EmailsOf DEF PlatformId, Platform
    <3>2. h = Owner(answer) \/ <<answer, h>> \in guessed
      BY <2>3, <3>1 DEF Rowed
    <3> QED BY <1>0, <2>3, <3>2 DEF Suits
  <2> QED BY <1>1, <2>1, <2>2, <2>3
<1>4. Fits(answer, want)
  BY <1>1, CacheFits
<1>5. CASE Ended(c, answer)
  BY <1>0, <1>3, <1>4, <1>5, EndedMeant
<1>6. CASE call' = [call EXCEPT ![c].at = "ask", ![c].answer = answer]
  <2>1. MeantBy(call'[c], guessed')
    BY <1>3, <1>4, <1>6, AskTyped DEF MeantBy
  <2> QED BY <1>0, <1>4, <1>6, <2>1, AskTyped, OthersMeant
<1> QED BY <1>1, <1>5, <1>6

LEMMA AskMeant ==
  ASSUME TypeOK, Meant, NEW c \in Caller, AskWebex(c) \/ AskJira(c) \/ AskDirectory(c)
  PROVE  guessed \subseteq guessed' /\ Meant'
<1>0. NoEmail \in Answer /\ Fits(NoEmail, call[c].want) /\ Suits(NoEmail, call[c].want, guessed')
  BY NoEmailIsNoId DEF Answer, Fits, Suits
<1>1. CASE AskWebex(c)
  <2>1. guessed' = guessed
    BY <1>1 DEF AskWebex
  <2> QED BY <1>0, <1>1, <2>1, WebexTells, FoundMeant
<1>2. CASE AskDirectory(c)
  <2>1. guessed' = guessed
    BY <1>2 DEF AskDirectory
  <2> QED BY <1>0, <1>2, <2>1, DirectoryTells, FoundMeant, EndedMeant
<1>3. CASE AskJira(c)
  <2>1. guessed \subseteq guessed'
    BY <1>3, JiraTells
  <2>2. CASE Ended(c, call[c].answer)
    <3>1. Suits(call[c].answer, call[c].want, guessed')
      BY <2>1 DEF Meant, MeantBy, Suits
    <3> QED BY <2>1, <2>2, <3>1, CallTyped, EndedMeant
  <2>3. CASE ~Ended(c, call[c].answer)
    <3>1. PICK frag \in Fragment, answer \in Answer :
            /\ Found(c, frag, answer) /\ About(frag, call[c].want.human, guessed')
            /\ answer # NoEmail =>
                 call[c].want.kind = "account" /\ Right(answer, call[c].want.human, guessed')
      BY <1>3, <2>3, JiraTells
    <3>2. Fits(answer, call[c].want) /\ Suits(answer, call[c].want, guessed')
      BY <3>1, NoEmailIsNoId DEF Fits, Suits, Right
    <3> QED BY <2>1, <3>1, <3>2, FoundMeant
  <2> QED BY <2>1, <2>2, <2>3
<1> QED BY <1>1, <1>2, <1>3

(* The answer of a merge is the merged person, or the account found.       *)
LEMMA ResultMeant ==
  ASSUME TypeOK, Meant, NEW c \in Caller, call[c].at = "commit"
  PROVE  Suits(Result(c), call[c].want, guessed)
BY DEF Meant, MeantBy, About, Suits, Result

LEMMA CommitMeant ==
  ASSUME TypeOK, Rowed, Meant, NEW c \in Caller, MergeCommits(c) PROVE Rowed' /\ Meant'
<1> DEFINE e == call[c].frag.email
           h == call[c].want.human
<1>0. guessed' = guessed /\ call[c].at = "commit"
  BY DEF MergeCommits
<1>1. e \in Email /\ Owner(e) = h /\ \A i \in call[c].frag.ids : Right(i, h, guessed)
  BY <1>0, CallTyped DEF Meant, MeantBy, About, Fragment
<1>2. call[c].insert \subseteq {e} \cup call[c].frag.ids
  BY <1>0 DEF Meant, MeantBy
<1>3. Meant'
  BY <1>0, ResultTyped, ResultMeant, EndedMeant DEF MergeCommits
<1>4. \A i \in PlatformId : ids'[i] = IF i \in WritesIds(c) THEN e ELSE ids[i]
  BY DEF MergeCommits
<1>5. \A i \in WritesIds(c) : Right(i, h, guessed)
  BY <1>1, <1>2, IdIsNoEmail DEF WritesIds
<1>6. name'[e] # "absent" /\ \A f \in Email : name[f] # "absent" => name'[f] # "absent"
  BY <1>1 DEF MergeCommits, Named, TypeOK
<1>7. Rowed'
  <2> SUFFICES ASSUME NEW i \in PlatformId, ids'[i] # NoEmail
               PROVE  /\ Owner(ids'[i]) = Owner(i) \/ <<i, Owner(ids'[i])>> \in guessed'
                      /\ name'[ids'[i]] # "absent"
    BY DEF Rowed, Owner
  <2>1. CASE i \in WritesIds(c)
    <3>1. ids'[i] = e
      BY <1>4, <2>1
    <3>2. Owner(i) = h \/ <<i, h>> \in guessed
      BY <1>5, <2>1 DEF Right
    <3> QED BY <1>0, <1>1, <1>6, <3>1, <3>2
  <2>2. CASE i \notin WritesIds(c)
    <3>1. ids[i] \in Email /\ ids'[i] = ids[i]
      BY <1>4, <2>2 DEF TypeOK
    <3> QED BY <1>0, <1>6, <3>1 DEF Rowed
  <2> QED BY <2>1, <2>2
<1> QED BY <1>3, <1>7

LEMMA StepMeant == ASSUME IInv, [Next]_vars PROVE IInv'
<1> SUFFICES Rowed' /\ Meant'
  BY StepTyped DEF IInv
<1> USE DEF IInv
<1>1. ASSUME NEW c \in Caller, Begin(c) PROVE Rowed' /\ Meant'
  <2>1. PICK want \in Want : call' = [call EXCEPT ![c] = Blank("look", want)]
    BY <1>1 DEF Begin
  <2>2. MeantBy(call'[c], guessed')
    BY <2>1, BegunTyped DEF MeantBy, Suits
  <2>3. UNCHANGED <<ids, name, guessed>>
    BY <1>1 DEF Begin
  <2> QED BY <2>1, <2>2, <2>3, BegunTyped, OthersMeant, RowedStays
<1>2. ASSUME NEW c \in Caller, Look(c) \/ AskWebex(c) \/ AskJira(c) \/ AskDirectory(c)
      PROVE  Rowed' /\ Meant'
  <2>1. UNCHANGED <<ids, name>>
    BY <1>2 DEF Look, AskWebex, AskJira, AskDirectory
  <2>2. guessed \subseteq guessed' /\ Meant'
    <3>1. CASE Look(c)
      BY <3>1, LookMeant DEF Look
    <3>2. CASE ~Look(c)
      BY <1>2, <3>2, AskMeant
    <3> QED BY <3>1, <3>2
  <2> QED BY <2>1, <2>2, RowedStays
<1>3. ASSUME NEW c \in Caller, MergeReads(c) PROVE Rowed' /\ Meant'
  <2>0. UNCHANGED <<ids, name, guessed>>
    BY <1>3 DEF MergeReads
  <2>1. MeantBy(call'[c], guessed)
    <3>1. call[c].at = "read" /\ MeantBy(call[c], guessed)
      BY <1>3 DEF MergeReads, Meant
    <3>2. About(call[c].frag, call[c].want.human, guessed) /\ Suits(call[c].answer, call[c].want, guessed)
      BY <3>1 DEF MeantBy
    <3> QED BY <1>3, <3>2, ReadsTyped DEF MeantBy
  <2> QED BY <1>3, <2>0, <2>1, ReadsTyped, OthersMeant, RowedStays
<1>4. ASSUME NEW c \in Caller, MergeRaises(c) PROVE Rowed' /\ Meant'
  <2>0. UNCHANGED <<ids, name, guessed>> /\ call[c].at = "commit"
    BY <1>4 DEF MergeRaises
  <2>1. CASE Raised(c)
    <3>1. MeantBy(call'[c], guessed)
      BY <2>1, RaisedTyped DEF Meant, MeantBy
    <3> QED BY <2>0, <2>1, <3>1, RaisedTyped, OthersMeant, RowedStays
  <2>2. CASE Ended(c, Result(c))
    BY <2>0, <2>2, ResultTyped, ResultMeant, EndedMeant, RowedStays
  <2> QED BY <1>4, <2>1, <2>2 DEF MergeRaises
<1>5. CASE UNCHANGED vars
  <2>1. Meant'
    BY <1>5 DEF vars, Meant, MeantBy, Suits, About, Right, Owner
  <2> QED BY <1>5, <2>1, RowedStays DEF vars
<1> QED BY <1>1, <1>2, <1>3, <1>4, <1>5, CommitMeant DEF Next, CallStep

(* Nobody is taken for somebody else but by the guess of a Jira search,    *)
(* however many threads merge what they found over each other's rows, and  *)
(* whatever a search finds.                                                *)
THEOREM NobodyIsMixedUp == Spec => []NobodyMixedUp
<1>1. IInv => NobodyMixedUp
  BY DEF IInv, Rowed, Meant, MeantBy, Suits, NobodyMixedUp
<1> QED BY <1>1, InitMeant, StepMeant, PTL DEF Spec

-----------------------------------------------------------------------------
(* What is known is kept.                                                  *)
Keeps ==
  /\ \A i \in PlatformId : ids[i] # NoEmail => ids'[i] = ids[i]
  /\ \A e \in Email :
       /\ name[e] # "absent" => name'[e] # "absent"
       /\ name[e] = "named" => name'[e] = "named"

LEMMA CommitKeeps == ASSUME TypeOK, NEW c \in Caller, MergeCommits(c) PROVE Keeps
<1>1. \A i \in WritesIds(c) : ids[i] = NoEmail
  BY IdIsNoEmail DEF MergeCommits, Conflicts, Taken, WritesIds
<1>2. \A i \in PlatformId : ids[i] # NoEmail => ids'[i] = ids[i]
  BY <1>1 DEF MergeCommits
<1>3. call[c].frag.email \in Email
  BY CallTyped DEF Fragment
<1> QED BY <1>2, <1>3 DEF MergeCommits, Named, TypeOK, Keeps

(* An id stays with its row and a name is not taken away, whatever the     *)
(* transactions read before they commit: the primary key alone sees to it. *)
THEOREM NothingIsForgotten == Spec => NeverForgets
<1>1. TypeOK /\ [Next]_vars => [Keeps]_vars
  <2> SUFFICES ASSUME TypeOK, [Next]_vars PROVE [Keeps]_vars
    OBVIOUS
  <2>1. ASSUME NEW c \in Caller, ~MergeCommits(c), Begin(c) \/ CallStep(c) PROVE Keeps
    <3>1. UNCHANGED <<ids, name>>
      BY <2>1 DEF Begin, CallStep, Look, AskWebex, AskJira, AskDirectory, MergeReads, MergeRaises
    <3> QED BY <3>1 DEF Keeps
  <2> QED BY <2>1, CommitKeeps DEF Next
<1>2. [][Keeps]_vars => NeverForgets
  BY PTL DEF NeverForgets, Keeps
<1> QED BY <1>1, <1>2, PeopleTyped, PTL DEF Spec

-----------------------------------------------------------------------------
(* The team cache.                                                         *)

LookupState == [at : LookupStage, got : SUBSET Person, since : 0..MaxCall]

(* A thread that is busy belongs to a process that is up.                  *)
BusyUp == \A c \in Thread : lookup[c].at # "idle" => life[BotOf[c]] = "up"

TeamsOK == TeamTypeOK /\ BusyUp

LEMMA LookupIdle ==
  NoLookup \in LookupState /\ NoLookup.at = "idle" /\ NoLookup.got = {}
BY DEF NoLookup, LookupState, LookupStage

LEMMA LookupTyped ==
  ASSUME TeamsOK, NEW c \in Thread
  PROVE  /\ lookup[c] \in LookupState /\ BotOf[c] \in Bot
         /\ copy[BotOf[c]] \in Team \cup {NoTeam}
         /\ lookup[c].at # "idle" => copy[BotOf[c]] \in Team /\ life[BotOf[c]] = "up"
BY DEF TeamsOK, TeamTypeOK, LookupState, BusyUp

LEMMA MemberlessTyped ==
  ASSUME NEW a \in 0..Ttl
  PROVE  Memberless(a) \in Team /\ Memberless(a).members = {}
BY DEF Memberless, Team

LEMMA RefreshedTyped ==
  ASSUME TeamsOK
  PROVE  Refreshed \subseteq Team \cup {NoTeam}
BY MemberlessTyped DEF Refreshed, TeamsOK, TeamTypeOK

LEMMA OlderTyped ==
  ASSUME NEW team \in Team \cup {NoTeam}
  PROVE  /\ Older(team) \in Team \cup {NoTeam}
         /\ Older(team) = NoTeam <=> team = NoTeam
BY DEF Older, Team

LEMMA TeamsInitTyped == ASSUME TeamInit PROVE TeamsOK
<1>1. Window \in Nat
  BY DEF Window
<1>2. lookup \in [Thread -> LookupState] /\ \A c \in Thread : lookup[c].at = "idle"
  BY LookupIdle DEF TeamInit
<1> QED BY <1>1, <1>2 DEF TeamInit, TeamsOK, TeamTypeOK, BusyUp, Life, LookupState

(* The steps of a thread.                                                  *)
LEMMA LookupStepTyped ==
  ASSUME TeamsOK, NEW c \in Thread, LookupStep(c) \/ Ask(c) PROVE TeamsOK'
<1> DEFINE b == BotOf[c]
<1>0. /\ lookup \in [Thread -> LookupState] /\ lookup[c] \in LookupState /\ b \in Bot
      /\ copy \in [Bot -> Team \cup {NoTeam}]
  BY LookupTyped DEF TeamsOK, TeamTypeOK, LookupState
<1>1. CASE Ask(c)
  <2>1. [NoLookup EXCEPT !.at = "fetch"] \in LookupState
    BY LookupIdle DEF LookupState, LookupStage
  <2>2. lookup' \in [Thread -> LookupState] /\ \A d \in Thread : d # c => lookup'[d] = lookup[d]
    BY <1>0, <1>1, <2>1 DEF Ask
  <2>3. copy[b] # NoTeam /\ life[b] = "up"
    BY <1>1 DEF Ask
  <2> QED BY <1>1, <2>2, <2>3
     DEF Ask, TeamsOK, TeamTypeOK, BusyUp, directory, LookupState
<1>2. CASE Fetch(c)
  <2>1. PICK got \in SUBSET source :
           /\ lookup' = [lookup EXCEPT ![c].at = "merge", ![c].got = got]
           /\ copy' = [copy EXCEPT ![b].members = got, ![b].asked = TRUE]
           /\ failures' \in 0..MaxFailures
    <3>1. PICK listed \in MembersListed : \E got \in UsersFetched(listed) :
             /\ FineOr(got = source \cap shown)
             /\ lookup' = [lookup EXCEPT ![c].at = "merge", ![c].got = got]
             /\ copy' = [copy EXCEPT ![b].members = got, ![b].asked = TRUE]
      BY <1>2 DEF Fetch
    <3>2. listed \subseteq source
      BY DEF MembersListed
    <3>3. ASSUME NEW fine, FineOr(fine) PROVE failures' \in 0..MaxFailures
      BY <3>3 DEF FineOr, Failure, TeamsOK, TeamTypeOK
    <3> QED BY <3>1, <3>2, <3>3 DEF UsersFetched
  <2>2. got \subseteq Person
    BY DEF TeamsOK, TeamTypeOK
  <2>3. lookup[c].at = "fetch" /\ copy[b] \in Team /\ life[b] = "up"
    BY <1>2, LookupTyped DEF Fetch
  <2>4. /\ copy' \in [Bot -> Team \cup {NoTeam}] /\ copy'[b] # NoTeam
        /\ \A a \in Bot : a # b => copy'[a] = copy[a]
    BY <1>0, <2>1, <2>2, <2>3 DEF Team
  <2>5. lookup' \in [Thread -> LookupState] /\ \A d \in Thread : d # c => lookup'[d] = lookup[d]
    BY <1>0, <2>1, <2>2 DEF LookupState, LookupStage
  <2>6. UNCHANGED <<source, shown, left, people, row, life, warmed>>
    BY <1>2 DEF Fetch, directory
  <2>7. BusyUp'
    BY <2>3, <2>5, <2>6 DEF TeamsOK, BusyUp
  <2>8. TeamTypeOK'
    BY <2>1, <2>4, <2>5, <2>6 DEF TeamsOK, TeamTypeOK, BusyUp, LookupState
  <2> QED BY <2>7, <2>8 DEF TeamsOK
<1>3. CASE Merge(c)
  <2> DEFINE t == [age |-> 0, members |-> lookup[c].got, asked |-> TRUE]
  <2>1. /\ copy' = [copy EXCEPT ![b] = t] /\ lookup' = [lookup EXCEPT ![c].at = "store"]
        /\ failures' \in 0..MaxFailures /\ people' \subseteq Person
    BY <1>0, <1>3 DEF Merge, FineOr, Failure, TeamsOK, TeamTypeOK, LookupState
  <2>2. t \in Team
    BY <1>0 DEF Team, LookupState
  <2>3. lookup[c].at = "merge" /\ life[b] = "up"
    BY <1>3, LookupTyped DEF Merge
  <2>4. /\ copy' \in [Bot -> Team \cup {NoTeam}] /\ copy'[b] # NoTeam
        /\ \A a \in Bot : a # b => copy'[a] = copy[a]
    BY <1>0, <2>1, <2>2
  <2>5. lookup' \in [Thread -> LookupState] /\ \A d \in Thread : d # c => lookup'[d] = lookup[d]
    BY <1>0, <2>1 DEF LookupState, LookupStage
  <2> QED BY <1>3, <2>1, <2>3, <2>4, <2>5
     DEF Merge, TeamsOK, TeamTypeOK, BusyUp, directory, LookupState
<1>4. CASE Store(c) \/ StoreFails(c)
  <2>1. /\ lookup' = [lookup EXCEPT ![c] = NoLookup] /\ lookup[c].at = "store"
        /\ failures' \in 0..MaxFailures
    BY <1>4
       DEF Store, StoreFails, Done, FineOr, Failure, TeamsOK,
           TeamTypeOK
  <2>2. /\ lookup' \in [Thread -> LookupState] /\ lookup'[c].at = "idle"
        /\ \A d \in Thread : d # c => lookup'[d] = lookup[d]
    BY <1>0, <2>1, LookupIdle
  <2>3. copy[b] \in Team
    BY <2>1, LookupTyped
  <2>4. /\ copy' \in [Bot -> Team \cup {NoTeam}] /\ copy'[b] # NoTeam
        /\ \A a \in Bot : a # b => copy'[a] = copy[a]
        /\ row' \in Team \cup {NoTeam}
    BY <1>0, <1>4, <2>3 DEF Store, StoreFails, Team, TeamsOK, TeamTypeOK
  <2> QED BY <1>4, <2>1, <2>2, <2>4
     DEF Store, StoreFails, TeamsOK, TeamTypeOK, BusyUp, directory,
         LookupState
<1> QED BY <1>1, <1>2, <1>3, <1>4 DEF LookupStep

LEMMA BotStepTyped ==
  ASSUME TeamsOK, NEW b \in Bot,
         Resolve(b) \/ Attach(b) \/ Rewarm(b) \/ Restart(b)
  PROVE  TeamsOK'
<1>1. CASE Resolve(b)
  <2>1. copy' \in [Bot -> Team \cup {NoTeam}]
    BY <1>1 DEF Resolve, Loaded, TeamsOK, TeamTypeOK
  <2>2. \A c \in Thread : lookup[c].at # "idle" => BotOf[c] # b
    BY <1>1, LookupTyped DEF Resolve
  <2> QED BY <1>1, <2>1, <2>2
     DEF Resolve, TeamsOK, TeamTypeOK, BusyUp, directory, Life
<1>2. CASE Attach(b)
  <2>1. row' \in Team \cup {NoTeam} /\ failures' \in 0..MaxFailures /\ warmed' \in [Bot -> BOOLEAN]
    BY <1>2, RefreshedTyped DEF Attach, FineOr, Failure, TeamsOK, TeamTypeOK
  <2> QED BY <1>2, <2>1
     DEF Attach, TeamsOK, TeamTypeOK, BusyUp, directory, Life
<1>3. CASE Rewarm(b)
  <2>1. row' \in Team \cup {NoTeam}
    BY <1>3, RefreshedTyped DEF Rewarm
  <2> QED BY <1>3, <2>1 DEF Rewarm, TeamsOK, TeamTypeOK, BusyUp, directory
<1>4. CASE Restart(b)
  <2>1. lookup' = [c \in Thread |-> IF BotOf[c] = b THEN NoLookup ELSE lookup[c]]
    BY <1>4 DEF Restart
  <2>2. /\ lookup' \in [Thread -> LookupState]
        /\ \A c \in Thread : lookup'[c].at # "idle" => BotOf[c] # b /\ lookup'[c] = lookup[c]
    BY <2>1, LookupTyped, LookupIdle
  <2> QED BY <1>4, <2>2
     DEF Restart, Failure, TeamsOK, TeamTypeOK, BusyUp, directory, Life,
         LookupState
<1> QED BY <1>1, <1>2, <1>3, <1>4

LEMMA TickTyped == ASSUME TeamsOK, Tick PROVE TeamsOK'
<1>1. row' \in Team \cup {NoTeam} /\ copy' \in [Bot -> Team \cup {NoTeam}]
  BY OlderTyped DEF Tick, TeamsOK, TeamTypeOK
<1>2. \A b \in Bot : copy'[b] = NoTeam <=> copy[b] = NoTeam
  BY OlderTyped DEF Tick, TeamsOK, TeamTypeOK
<1>3. ASSUME NEW c \in Thread PROVE lookup'[c] \in LookupState /\ lookup'[c].at = lookup[c].at
  <2>1. lookup[c] \in LookupState
    BY LookupTyped
  <2>2. lookup'[c] = IF lookup[c].at = "idle" THEN lookup[c] ELSE [lookup[c] EXCEPT !.since = @ + 1]
    BY DEF Tick
  <2>3. lookup[c].at # "idle" => lookup[c].since < MaxCall
    BY DEF Tick
  <2> QED BY <2>1, <2>2, <2>3 DEF LookupState
<1>4. lookup' \in [Thread -> LookupState]
  BY <1>3 DEF Tick
<1>5. left' \in [Person -> 0..Window]
  BY DEF Tick, TeamsOK, TeamTypeOK, Window
<1> QED BY <1>1, <1>2, <1>3, <1>4, <1>5 DEF Tick, TeamsOK, TeamTypeOK, BusyUp, LookupState

LEMMA TeamsStepTyped == ASSUME TeamsOK, [TeamNext]_teamVars PROVE TeamsOK'
<1>1. CASE Preload
  BY <1>1, MemberlessTyped DEF Preload, TeamsOK, TeamTypeOK, BusyUp, directory
<1>2. ASSUME NEW p \in Person, Join(p) \/ Leave(p) \/ Toggle(p) PROVE TeamsOK'
  <2>1. Window \in Nat
    BY DEF Window
  <2> QED BY <1>2, <2>1 DEF Join, Leave, Toggle, TeamsOK, TeamTypeOK, BusyUp
<1>3. CASE UNCHANGED teamVars
  BY <1>3 DEF teamVars, TeamsOK, TeamTypeOK, BusyUp
<1> QED BY <1>1, <1>2, <1>3, TickTyped, BotStepTyped, LookupStepTyped
   DEF TeamNext, directory

(* Every value keeps its type, and a thread that looks a team up finds the *)
(* copy of its bot there.                                                  *)
THEOREM TeamsTyped ==
  TeamSpec => []TeamTypeOK
<1>1. TeamsOK => TeamTypeOK
  BY DEF TeamsOK
<1>2. TeamInit => TeamsOK
  BY TeamsInitTyped
<1>3. TeamsOK /\ [TeamNext]_teamVars => TeamsOK'
  BY TeamsStepTyped
<1> QED BY <1>1, <1>2, <1>3, PTL DEF TeamSpec

-----------------------------------------------------------------------------
(* How long ago the departed were members.                                 *)

Within(members, m) == \A p \in members \ source : left[p] <= m

GotIsRecent == \A c \in Thread : lookup[c].at = "merge" => Within(lookup[c].got, lookup[c].since)
StoredIsRecent ==
  \A c \in Thread :
    lookup[c].at = "store" => Within(copy[BotOf[c]].members, MaxCall + lookup[c].since)
TeamIsRecent(team) ==
  team # NoTeam /\ team.age < Ttl => Within(team.members, team.age + 2 * MaxCall)
CopiesAreRecent == \A b \in Bot : TeamIsRecent(copy[b])

Recent == GotIsRecent /\ StoredIsRecent /\ CopiesAreRecent /\ TeamIsRecent(row)

LEMMA MemberlessRecent == ASSUME NEW a PROVE TeamIsRecent(Memberless(a))
BY DEF TeamIsRecent, Within, Memberless

LEMMA InitRecent == ASSUME TeamInit PROVE Recent
<1>1. \A c \in Thread : lookup[c].at = "idle"
  BY DEF TeamInit, NoLookup
<1> QED BY <1>1 DEF TeamInit, Recent, GotIsRecent, StoredIsRecent, CopiesAreRecent, TeamIsRecent

LEMMA WithinStays ==
  ASSUME NEW members, NEW m, Within(members, m), UNCHANGED directory
  PROVE  \A p \in members \ source' : left'[p] <= m
BY DEF Within, directory

(* Nothing of it changes but the row, for one that is recent.              *)
LEMMA RowChanges ==
  ASSUME Recent, UNCHANGED <<directory, copy, lookup>>,
         row' = row \/ row' \in Refreshed \/ row' = Memberless(Ttl)
  PROVE  Recent'
<1>1. TeamIsRecent(row')
  BY MemberlessRecent DEF Recent, Refreshed
<1> QED BY <1>1
   DEF Recent, GotIsRecent, StoredIsRecent, CopiesAreRecent, TeamIsRecent, Within, directory

LEMMA FetchRecent ==
  ASSUME TeamsOK, Recent, NEW c \in Thread, Fetch(c)
  PROVE  Recent'
<1> DEFINE b == BotOf[c]
<1>1. PICK got \in SUBSET source :
         /\ lookup' = [lookup EXCEPT ![c].at = "merge", ![c].got = got]
         /\ copy' = [copy EXCEPT ![b].members = got, ![b].asked = TRUE]
         /\ UNCHANGED <<directory, row>>
  <2>1. PICK listed \in MembersListed : \E got \in UsersFetched(listed) :
           /\ lookup' = [lookup EXCEPT ![c].at = "merge", ![c].got = got]
           /\ copy' = [copy EXCEPT ![b].members = got, ![b].asked = TRUE]
    BY DEF Fetch
  <2>2. listed \subseteq source
    BY DEF MembersListed
  <2> QED BY <2>1, <2>2 DEF UsersFetched, Fetch
<1>2. b \in Bot /\ copy[b] \in Team /\ copy \in [Bot -> Team \cup {NoTeam}]
  BY LookupTyped DEF Fetch, TeamsOK, TeamTypeOK
<1>3. /\ copy'[b].members = got /\ copy'[b].age = copy[b].age
      /\ \A a \in Bot : a # b => copy'[a] = copy[a]
  BY <1>1, <1>2 DEF Team
<1>4. /\ lookup'[c].at = "merge" /\ lookup'[c].got = got
      /\ \A d \in Thread : d # c => lookup'[d] = lookup[d]
  BY <1>1, LookupTyped DEF TeamsOK, TeamTypeOK, LookupState
<1>5. \A m : Within(got, m)'
  BY <1>1 DEF Within, directory
<1>6. GotIsRecent'
  BY <1>1, <1>4, <1>5 DEF Recent, GotIsRecent, Within, directory
<1>7. StoredIsRecent'
  BY <1>1, <1>3, <1>4, <1>5, LookupTyped DEF Recent, StoredIsRecent, Within, directory
<1>8. CopiesAreRecent'
  BY <1>1, <1>3, <1>5 DEF Recent, CopiesAreRecent, TeamIsRecent, Within, directory
<1> QED BY <1>1, <1>6, <1>7, <1>8 DEF Recent, TeamIsRecent, Within, directory

LEMMA MergeRecent ==
  ASSUME TeamsOK, Recent, NEW c \in Thread, Merge(c)
  PROVE  Recent'
<1> DEFINE b == BotOf[c]
           t == [age |-> 0, members |-> lookup[c].got, asked |-> TRUE]
<1>1. /\ lookup[c].at = "merge" /\ copy' = [copy EXCEPT ![b] = t]
      /\ lookup' = [lookup EXCEPT ![c].at = "store"] /\ UNCHANGED <<directory, row>>
  BY DEF Merge
<1>2. b \in Bot /\ copy'[b] = t /\ \A a \in Bot : a # b => copy'[a] = copy[a]
  BY <1>1, LookupTyped DEF TeamsOK, TeamTypeOK
<1>3. /\ lookup'[c].at = "store" /\ lookup'[c].since = lookup[c].since
      /\ \A d \in Thread : d # c => lookup'[d] = lookup[d]
  BY <1>1, LookupTyped DEF TeamsOK, TeamTypeOK, LookupState
<1>4. \A d \in Thread : lookup[d].since \in 0..MaxCall
  BY LookupTyped DEF LookupState
<1>5. \A p \in t.members \ source : left[p] <= lookup[c].since /\ left[p] \in Nat
  <2>1. Window \in Nat
    BY DEF Window
  <2> QED BY <1>1, <2>1, LookupTyped
     DEF Recent, GotIsRecent, Within, TeamsOK, TeamTypeOK, LookupState
<1>6. \A p \in t.members \ source' : \A m \in Nat : left'[p] <= MaxCall + m
  BY <1>1, <1>4, <1>5 DEF directory
<1>7. GotIsRecent'
  BY <1>1, <1>3 DEF Recent, GotIsRecent, Within, directory
<1>8. StoredIsRecent'
  <2> SUFFICES ASSUME NEW d \in Thread, lookup'[d].at = "store",
                      NEW p \in copy'[BotOf[d]].members \ source'
               PROVE  left'[p] <= MaxCall + lookup'[d].since
    BY DEF StoredIsRecent, Within
  <2> HIDE DEF t
  <2>0. BotOf[d] \in Bot /\ lookup'[d].since = lookup[d].since /\ lookup[d].since \in Nat
    BY <1>3, <1>4
  <2>1. CASE BotOf[d] = b
    BY <1>2, <1>6, <2>0, <2>1
  <2>2. CASE BotOf[d] # b
    BY <1>1, <1>2, <1>3, <2>0, <2>2 DEF Recent, StoredIsRecent, Within, directory
  <2> QED BY <2>1, <2>2
<1>9. CopiesAreRecent'
  <2> SUFFICES ASSUME NEW a \in Bot, copy'[a] # NoTeam, copy'[a].age < Ttl,
                      NEW p \in copy'[a].members \ source'
               PROVE  left'[p] <= copy'[a].age + 2 * MaxCall
    BY DEF CopiesAreRecent, TeamIsRecent, Within
  <2>1. t.age = 0
    OBVIOUS
  <2> HIDE DEF t
  <2>2. CASE a = b
    BY <1>2, <1>6, <2>1, <2>2
  <2>3. CASE a # b
    BY <1>1, <1>2, <2>3 DEF Recent, CopiesAreRecent, TeamIsRecent, Within, directory
  <2> QED BY <2>2, <2>3
<1> QED BY <1>1, <1>7, <1>8, <1>9 DEF Recent, TeamIsRecent, Within, directory

LEMMA StoreRecent ==
  ASSUME TeamsOK, Recent, NEW c \in Thread, Store(c) \/ StoreFails(c)
  PROVE  Recent'
<1> DEFINE b == BotOf[c]
<1>1. /\ lookup[c].at = "store" /\ lookup' = [lookup EXCEPT ![c] = NoLookup]
      /\ UNCHANGED directory
      /\ \/ copy' = [copy EXCEPT ![b].age = 0] /\ row' = copy[b]
         \/ copy' = copy /\ row' = row
  BY DEF Store, StoreFails, Done
<1>2. b \in Bot /\ copy[b] \in Team /\ lookup[c].since \in 0..MaxCall
  BY <1>1, LookupTyped DEF LookupState
<1>3. lookup'[c].at = "idle" /\ \A d \in Thread : d # c => lookup'[d] = lookup[d]
  BY <1>1, LookupIdle DEF TeamsOK, TeamTypeOK
<1>4. /\ copy'[b].members = copy[b].members /\ copy'[b].age \in {0, copy[b].age}
      /\ \A a \in Bot : a # b => copy'[a] = copy[a]
      /\ copy'[b].age = copy[b].age \/ copy'[b].age = 0
  BY <1>1, <1>2 DEF TeamsOK, TeamTypeOK, Team
<1>5. \A p \in copy[b].members \ source : left[p] <= 0 + 2 * MaxCall
  <2>1. \A p \in copy[b].members \ source : left[p] <= MaxCall + lookup[c].since /\ left[p] \in Nat
    <3>1. Window \in Nat
      BY DEF Window
    <3> QED BY <1>1, <1>2, <3>1
       DEF Recent, StoredIsRecent, Within, TeamsOK, TeamTypeOK, Team
  <2> QED BY <1>2, <2>1
<1>6. CopiesAreRecent'
  <2> SUFFICES ASSUME NEW a \in Bot, copy'[a] # NoTeam, copy'[a].age < Ttl,
                      NEW p \in copy'[a].members \ source'
               PROVE  left'[p] <= copy'[a].age + 2 * MaxCall
    BY DEF CopiesAreRecent, TeamIsRecent, Within
  <2>1. p \notin source /\ left'[p] = left[p]
    BY <1>1 DEF directory
  <2>2. CASE copy'[a] = copy[a]
    BY <2>1, <2>2 DEF Recent, CopiesAreRecent, TeamIsRecent, Within
  <2>3. CASE a = b /\ copy'[a].age = 0
    BY <1>4, <1>5, <2>1, <2>3
  <2>4. CASE a = b /\ copy'[a].age = copy[a].age
    BY <1>2, <1>4, <2>1, <2>4 DEF Recent, CopiesAreRecent, TeamIsRecent, Within
  <2> QED BY <1>4, <2>2, <2>3, <2>4
<1>7. StoredIsRecent'
  BY <1>1, <1>3, <1>4, LookupTyped DEF Recent, StoredIsRecent, Within, directory
<1>8. GotIsRecent'
  BY <1>1, <1>3 DEF Recent, GotIsRecent, Within, directory
<1>9. TeamIsRecent(row)'
  BY <1>1, <1>2 DEF Recent, CopiesAreRecent, TeamIsRecent, Within, directory
<1> QED BY <1>6, <1>7, <1>8, <1>9 DEF Recent

LEMMA OlderRecent ==
  ASSUME TeamsOK, Tick, NEW team \in Team \cup {NoTeam}, TeamIsRecent(team)
  PROVE  TeamIsRecent(Older(team))'
<1> SUFFICES ASSUME team # NoTeam, Older(team).age < Ttl,
                    NEW p \in Older(team).members \ source'
             PROVE  left'[p] <= Older(team).age + 2 * MaxCall
  BY OlderTyped DEF TeamIsRecent, Within
<1>1. /\ team \in Team /\ team.age < Ttl
      /\ Older(team).age = team.age + 1 /\ Older(team).members = team.members
  BY DEF Older, Team
<1>2. p \in Person /\ left[p] \in Nat /\ left'[p] <= left[p] + 1
  <2>1. Window \in Nat
    BY DEF Window
  <2>2. p \in Person
    BY <1>1 DEF Team
  <2> QED BY <2>1, <2>2 DEF Tick, TeamsOK, TeamTypeOK
<1>3. left[p] <= team.age + 2 * MaxCall
  BY <1>1 DEF TeamIsRecent, Within, Tick
<1>4. team.age \in Nat /\ left'[p] \in Nat
  <2>1. Window \in Nat
    BY DEF Window
  <2> QED BY <1>1, <1>2, <2>1 DEF Team, Tick, TeamsOK, TeamTypeOK
<1> QED BY <1>1, <1>2, <1>3, <1>4

LEMMA TickRecent == ASSUME TeamsOK, Recent, Tick PROVE Recent'
<1>1. CopiesAreRecent' /\ TeamIsRecent(row)'
  <2>1. row' = Older(row) /\ copy' = [b \in Bot |-> Older(copy[b])]
    BY DEF Tick
  <2> QED BY <2>1, OlderRecent DEF Recent, CopiesAreRecent, TeamsOK, TeamTypeOK
<1>2. \A p \in Person : left[p] \in Nat /\ left'[p] \in Nat /\ left'[p] <= left[p] + 1
  <2>1. Window \in Nat
    BY DEF Window
  <2> QED BY <2>1 DEF Tick, TeamsOK, TeamTypeOK
<1>3. \A c \in Thread : /\ lookup'[c].at = lookup[c].at /\ lookup'[c].got = lookup[c].got
                        /\ lookup[c].at # "idle" => lookup'[c].since = lookup[c].since + 1
                        /\ lookup[c].since \in Nat
  BY LookupTyped DEF Tick, LookupState
<1>4. GotIsRecent'
  <2> SUFFICES ASSUME NEW c \in Thread, lookup'[c].at = "merge",
                      NEW p \in lookup'[c].got \ source'
               PROVE  left'[p] <= lookup'[c].since
    BY DEF GotIsRecent, Within
  <2>1. p \in Person /\ p \in lookup[c].got \ source
    BY <1>3, LookupTyped DEF LookupState, Tick
  <2> QED BY <1>2, <1>3, <2>1 DEF Recent, GotIsRecent, Within
<1>5. StoredIsRecent'
  <2> SUFFICES ASSUME NEW c \in Thread, lookup'[c].at = "store",
                      NEW p \in copy'[BotOf[c]].members \ source'
               PROVE  left'[p] <= MaxCall + lookup'[c].since
    BY DEF StoredIsRecent, Within
  <2>1. /\ lookup[c].at = "store" /\ copy[BotOf[c]] \in Team
        /\ copy'[BotOf[c]] = Older(copy[BotOf[c]])
    BY <1>3, LookupTyped DEF Tick
  <2>2. p \in Person /\ p \in copy[BotOf[c]].members \ source
    BY <2>1 DEF Older, Team, Tick
  <2>3. left[p] <= MaxCall + lookup[c].since
    BY <2>1, <2>2 DEF Recent, StoredIsRecent, Within
  <2> QED BY <1>2, <1>3, <2>1, <2>2, <2>3
<1> QED BY <1>1, <1>4, <1>5 DEF Recent

LEMMA DirectoryRecent ==
  ASSUME TeamsOK, Recent, NEW p \in Person, Join(p) \/ Leave(p) \/ Toggle(p)
  PROVE  Recent'
<1>1. UNCHANGED <<row, copy, lookup>>
  BY DEF Join, Leave, Toggle
<1>2. \A q : q \notin source' => \/ q \notin source /\ left'[q] = left[q]
                                 \/ left'[q] = 0 /\ q = p
  <2>1. CASE Join(p) \/ Toggle(p)
    BY <2>1 DEF Join, Toggle
  <2>2. CASE Leave(p)
    <3>1. left \in [Person -> 0..Window] /\ left' = [left EXCEPT ![p] = 0] /\ source' = source \ {p}
      BY <2>2 DEF Leave, TeamsOK, TeamTypeOK
    <3>2. left'[p] = 0 /\ \A q : q # p => left'[q] = left[q]
      BY <3>1
    <3> QED BY <3>1, <3>2
  <2> QED BY <2>1, <2>2
<1>3. \A members, m : Within(members, m) /\ 0 <= m => Within(members, m)'
  BY <1>2 DEF Within
<1>4. \A c \in Thread : 0 <= lookup[c].since /\ 0 <= MaxCall + lookup[c].since
  BY LookupTyped DEF LookupState
<1>5. \A t \in Team : 0 <= t.age + 2 * MaxCall
  BY DEF Team
<1>6. \A t \in Team \cup {NoTeam} : TeamIsRecent(t) => TeamIsRecent(t)'
  BY <1>3, <1>5 DEF TeamIsRecent
<1>7. GotIsRecent' /\ StoredIsRecent'
  BY <1>1, <1>3, <1>4 DEF Recent, GotIsRecent, StoredIsRecent
<1>8. CopiesAreRecent' /\ TeamIsRecent(row)'
  BY <1>1, <1>6 DEF Recent, CopiesAreRecent, TeamsOK, TeamTypeOK
<1> QED BY <1>7, <1>8 DEF Recent

LEMMA StepRecent == ASSUME TeamsOK, Recent, [TeamNext]_teamVars PROVE Recent'
<1>1. CASE Preload \/ \E b \in Bot : Attach(b) \/ Rewarm(b)
  <2>1. /\ UNCHANGED <<directory, copy, lookup>>
        /\ row' = row \/ row' \in Refreshed \/ row' = Memberless(Ttl)
    BY <1>1 DEF Preload, Attach, Rewarm
  <2> QED BY <2>1, RowChanges
<1>2. ASSUME NEW b \in Bot, Resolve(b) PROVE Recent'
  <2>1. copy' = [copy EXCEPT ![b] = row] /\ UNCHANGED <<directory, row, lookup>> /\ life[b] = "down"
    BY <1>2 DEF Resolve, Loaded
  <2>2. \A a \in Bot : copy'[a] = IF a = b THEN row ELSE copy[a]
    BY <2>1 DEF TeamsOK, TeamTypeOK
  <2>3. \A c \in Thread : lookup[c].at # "idle" => BotOf[c] \in Bot /\ BotOf[c] # b
    BY <2>1, LookupTyped
  <2> QED BY <2>1, <2>2, <2>3 DEF Recent, GotIsRecent, StoredIsRecent, CopiesAreRecent,
                                  TeamIsRecent, Within, directory
<1>3. ASSUME NEW b \in Bot, Restart(b) PROVE Recent'
  <2>1. /\ copy' = [copy EXCEPT ![b] = NoTeam] /\ UNCHANGED <<directory, row>>
        /\ lookup' = [c \in Thread |-> IF BotOf[c] = b THEN NoLookup ELSE lookup[c]]
    BY <1>3 DEF Restart
  <2>2. \A a \in Bot : copy'[a] = IF a = b THEN NoTeam ELSE copy[a]
    BY <2>1 DEF TeamsOK, TeamTypeOK
  <2>3. \A c \in Thread : lookup'[c].at # "idle" => BotOf[c] \in Bot \ {b} /\ lookup'[c] = lookup[c]
    BY <2>1, LookupIdle
  <2> QED BY <2>1, <2>2, <2>3 DEF Recent, GotIsRecent, StoredIsRecent, CopiesAreRecent,
                                  TeamIsRecent, Within, directory
<1>4. ASSUME NEW c \in Thread, Ask(c) PROVE Recent'
  <2>1. /\ UNCHANGED <<directory, row, copy>>
        /\ lookup' = [lookup EXCEPT ![c] = [NoLookup EXCEPT !.at = "fetch"]]
    BY <1>4 DEF Ask
  <2>2. lookup'[c].at = "fetch" /\ \A d \in Thread : d # c => lookup'[d] = lookup[d]
    BY <2>1 DEF TeamsOK, TeamTypeOK, NoLookup
  <2> QED BY <2>1, <2>2 DEF Recent, GotIsRecent, StoredIsRecent, CopiesAreRecent,
                            TeamIsRecent, Within, directory
<1>5. CASE UNCHANGED teamVars
  BY <1>5
     DEF teamVars, Recent, GotIsRecent, StoredIsRecent, CopiesAreRecent, TeamIsRecent, Within,
         directory
<1> QED BY <1>1, <1>2, <1>3, <1>4, <1>5, TickRecent, DirectoryRecent, FetchRecent, MergeRecent,
           StoreRecent DEF TeamNext, LookupStep

(* Whoever left the team is added by no bot for ever: a copy in use has    *)
(* only members that left less than Window ago, for any number of          *)
(* processes and threads that look the team up, fail and restart.          *)
THEOREM NobodyIsAddedForEver ==
  TeamSpec => []NobodyLongGone
<1>1. TeamsOK /\ Recent => NobodyLongGone
  <2> SUFFICES ASSUME TeamsOK, Recent, NEW b \in Bot, copy[b] # NoTeam, ~Stale(copy[b]),
                      NEW p \in copy[b].members \ source
               PROVE  left[p] < Window
    BY DEF NobodyLongGone
  <2>1. copy[b] \in Team /\ copy[b].age \in 0..Ttl /\ copy[b].age < Ttl
    <3>1. copy[b] \in Team /\ copy[b].age \in 0..Ttl /\ copy[b].age # Ttl
      BY DEF TeamsOK, TeamTypeOK, Team, Stale
    <3> QED BY <3>1
  <2>2. left[p] <= copy[b].age + 2 * MaxCall
    BY <2>1 DEF Recent, CopiesAreRecent, TeamIsRecent, Within
  <2>3. Window \in Nat
    BY DEF Window
  <2>4. left[p] \in Nat
    BY <2>1, <2>3 DEF TeamsOK, TeamTypeOK, Team
  <2> QED BY <2>1, <2>2, <2>4 DEF Window
<1>2. TeamInit => TeamsOK /\ Recent
  BY TeamsInitTyped, InitRecent
<1>3. TeamsOK /\ Recent /\ [TeamNext]_teamVars => (TeamsOK /\ Recent)'
  BY TeamsStepTyped, StepRecent
<1> QED BY <1>1, <1>2, <1>3, PTL DEF TeamSpec
=============================================================================
