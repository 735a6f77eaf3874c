----------------------------- MODULE PersonCache -----------------------------
(***************************************************************************)
(* The identity cache (lookup/base.py): which person a platform id stands  *)
(* for.  Threads of all worker processes fill its two tables from Webex,   *)
(* Jira and the directory, each through merge_person, a transaction that   *)
(* reads what is there and inserts what is missing.  Two transactions may  *)
(* both miss a row; the primary key lets one of them commit and the other  *)
(* raises, which costs the event that needed the person.                   *)
(*                                                                         *)
(* The ids of a platform are named by the human they were given to.  A     *)
(* human's emails are "own", the address in lower case, "cased", as Webex  *)
(* and LDAP spell it where that differs, and "made", one made up from the  *)
(* Webex id when none is told.  Of names only counts whether there is one. *)
(***************************************************************************)
EXTENDS Naturals, FiniteSets

CONSTANTS
  Human,      \* whoever writes to a bot or is looked up
  Caller,     \* threads, of whatever process
  Hides,      \* humans whose email Jira does not show
  Cased,      \* humans whose email is not written in lower case
  Plugins,    \* lookup plugins a deployment may have: "atlassian", "ldap_ad"
  Wanted,     \* what the callers ask for
  MaxMishaps, \* bound on failures of Webex, Jira, the directory and the database
  NoEmail

ASSUME PersonAssumption ==
  /\ Plugins \subseteq {"atlassian", "ldap_ad"}
  /\ MaxMishaps \in Nat
  /\ Human # {} /\ Hides \subseteq Human /\ Cased \subseteq Human

Email == {"own", "cased", "made"} \X Human
Own(h) == <<"own", h>>
Spelt(h) == <<IF h \in Cased THEN "cased" ELSE "own", h>>
Made(h) == <<"made", h>>
Platform == {"webex", "jira"}
PlatformId == Platform \X Human
Owner(x) == x[2]

(* What a caller wants: the sender of an event by Webex id, a person by    *)
(* email, a member of a team, whom the directory has described, or the     *)
(* account in Jira of somebody whose row does not tell it.                 *)
Want == [kind : {"event", "email", "member", "account"}, human : Human]

ASSUME WantedAssumption == Wanted \subseteq Want /\ NoEmail \notin Email \cup PlatformId

Fragment == [email : Email, ids : SUBSET PlatformId, named : BOOLEAN]
Stage == {"idle", "look", "ask", "read", "commit", "raised", "done"}

VARIABLES
  plugin,  \* the lookup plugin of this deployment
  name,    \* schema_people: whether a row is there, and whether it has a name
  ids,     \* schema_platform_ids: the email of each id
  call,    \* the lookup each caller is in
  guessed, \* history: strangers' accounts taken for a human no account was shown of
  mishaps

vars == <<plugin, name, ids, call, guessed, mishaps>>

NameState == {"absent", "empty", "named"}
Call == [at : Stage, want : Want, frag : Fragment, insert : SUBSET (Email \cup PlatformId),
         answer : Email \cup PlatformId \cup {NoEmail}]

SomeHuman == CHOOSE h \in Human : TRUE
Blank(at, want) ==
  [at |-> at, want |-> want, insert |-> {}, answer |-> NoEmail,
   frag |-> [email |-> Own(want.human), ids |-> {}, named |-> FALSE]]
Idle == Blank("idle", [kind |-> "event", human |-> SomeHuman])

Init ==
  /\ plugin \in Plugins
  /\ name = [e \in Email |-> "absent"]
  /\ ids = [i \in PlatformId |-> NoEmail]
  /\ call = [c \in Caller |-> Idle]
  /\ guessed = {}
  /\ mishaps = 0

Mishap == mishaps < MaxMishaps /\ mishaps' = mishaps + 1

Ended(c, answer) ==
  call' = [call EXCEPT ![c].at = "done", ![c].answer = answer,
                       ![c].frag = Idle.frag, ![c].insert = {}]
Raised(c) ==
  call' = [call EXCEPT ![c].at = "raised", ![c].frag = Idle.frag, ![c].insert = {}]

Known(e) == IF name[e] = "absent" THEN NoEmail ELSE e
HasJira(e) == \E h \in Human : ids[<<"jira", h>>] = e

-----------------------------------------------------------------------------
(* get_person of the Webex bot, get_person_by_email, merge_team, and       *)
(* resolve_email_to_account_id after its get_person_by_email.              *)
Begin(c) ==
  /\ call[c].at \in {"idle", "done", "raised"}
  /\ \E want \in Wanted : call' = [call EXCEPT ![c] = Blank("look", want)]
  /\ UNCHANGED <<plugin, name, ids, guessed, mishaps>>

(* Mutant: the id is handed on for the person it stands for.               *)
AnswersId(want) ==
  {IF want.kind = "event" THEN <<"webex", want.human>> ELSE NoEmail}

(* What the cache answers by itself: a Webex id that is there, a person,   *)
(* of whom the Atlassian plugin wants to know the Jira id, and an account  *)
(* stored with the person's row, any of them if there are several.         *)
(* Members are merged without a look.                                      *)
CacheAnswers(want) ==
  LET e == Own(want.human)
      accounts == {i \in {"jira"} \X Human : ids[i] = e}
  IN  CASE want.kind = "event" -> {ids[<<"webex", want.human>>]}
        [] want.kind = "email" -> {IF plugin = "ldap_ad" \/ HasJira(e) THEN Known(e) ELSE NoEmail}
        [] want.kind = "account" /\ accounts # {} -> accounts
        [] OTHER -> {NoEmail}

Look(c) ==
  /\ call[c].at = "look"
  /\ \E hit \in CacheAnswers(call[c].want) :
       LET want == call[c].want
       IN  IF hit # NoEmail THEN Ended(c, hit)
           ELSE call' = [call EXCEPT ![c].at = "ask", ![c].answer =
                           IF want.kind = "email" THEN Known(Own(want.human)) ELSE NoEmail]
  /\ UNCHANGED <<plugin, name, ids, guessed, mishaps>>

Found(c, frag, answer) ==
  call' = [call EXCEPT ![c].at = "read", ![c].frag = frag, ![c].answer = answer]

(* _get_person_from_api: a failing call is answered like a person without  *)
(* an email, by a fragment with a made-up one.  The LDAP plugin asks the   *)
(* directory first, whose entry, if it keeps Webex ids, tells the same.    *)
AskWebex(c) ==
  /\ call[c].at = "ask" /\ call[c].want.kind = "event"
  /\ LET h == call[c].want.human
         Told(e, named) == Found(c, [email |-> e, ids |-> {<<"webex", h>>}, named |-> named], NoEmail)
     IN  \/ Told(Spelt(h), TRUE) /\ UNCHANGED mishaps
         \/ Told(Made(h), FALSE) /\ Mishap
  /\ UNCHANGED <<plugin, name, ids, guessed>>

(* Mutant: the first user of the search is taken.                          *)
MatchesFirst(h, users) == users

(* The user with the email, else the first with an account id.             *)
Matches(h, users) == IF h \in users \ Hides THEN {h} ELSE users

(* _resolve_person_by_email_via_jira, and under whatever plugin            *)
(* _jira_user_search_fallback for an account: the match is merged under    *)
(* the email that was searched for.  Jira looks for the address in names   *)
(* too, and may find anybody.  Nobody, or a failure: what the cache had.   *)
AskJira(c) ==
  /\ call[c].at = "ask"
  /\ call[c].want.kind = "account" \/ (call[c].want.kind = "email" /\ plugin = "atlassian")
  /\ LET h == call[c].want.human
         account(g) == <<"jira", g>>
     IN  \/ \E users \in SUBSET Human : \E g \in Matches(h, users) :
              /\ Found(c, [email |-> Own(h), ids |-> {account(g)}, named |-> TRUE],
                       IF call[c].want.kind = "account" THEN account(g) ELSE NoEmail)
              /\ guessed' = IF g = h \/ h \in users \ Hides THEN guessed
                            ELSE guessed \cup {<<account(g), h>>}
         \/ Ended(c, call[c].answer) /\ UNCHANGED guessed
  /\ UNCHANGED <<plugin, name, ids, mishaps>>

(* What the directory knows of a person: _fetch_jira_user, or the entry in *)
(* LDAP, with the ids in its platform-id attribute; the id under which the *)
(* directory itself keeps the entry is left out.                           *)
Entry(h) ==
  IF plugin = "ldap_ad"
  THEN [email : {Spelt(h)}, ids : {keys \X {h} : keys \in SUBSET Platform}, named : BOOLEAN]
  ELSE [email : {Own(h)}, ids : {{<<"jira", h>>}}, named : BOOLEAN]

(* fetch_team_members, and get_person_by_email of the LDAP plugin, which   *)
(* has nobody to answer with when nobody is found.                         *)
AskDirectory(c) ==
  /\ call[c].at = "ask"
  /\ LET want == call[c].want
     IN  \/ /\ want.kind = "member" \/ (want.kind = "email" /\ plugin = "ldap_ad")
            /\ \E frag \in Entry(want.human) : Found(c, frag, NoEmail)
         \/ /\ want.kind = "email" /\ plugin = "ldap_ad"
            /\ Ended(c, NoEmail)
  /\ UNCHANGED <<plugin, name, ids, guessed, mishaps>>

-----------------------------------------------------------------------------
(* merge_person.                                                           *)

Taken(x) == IF x \in Email THEN name[x] # "absent" ELSE ids[x] # NoEmail

(* Mutant: what is there is not looked for.                                *)
MissingAll(frag) == {frag.email} \cup frag.ids

(* The rows the transaction finds missing.                                 *)
Missing(frag) == {x \in {frag.email} \cup frag.ids : ~Taken(x)}

MergeReads(c) ==
  /\ call[c].at = "read"
  /\ call' = [call EXCEPT ![c].at = "commit", ![c].insert = Missing(call[c].frag)]
  /\ UNCHANGED <<plugin, name, ids, guessed, mishaps>>

(* Mutant: a fragment without a name takes an old name away.               *)
NamedLast(e, named) == IF named THEN "named" ELSE "empty"

(* A name may give way to a newer one, never to none.                      *)
Named(e, named) == IF named \/ name[e] = "named" THEN "named" ELSE "empty"

(* Mutant: the rows have no primary key.                                   *)
NeverConflicts(c) == FALSE

(* A row to be inserted is there by now.                                   *)
Conflicts(c) == \E x \in call[c].insert : Taken(x)

WritesIds(c) == call[c].insert \cap PlatformId

(* A lookup answers with the merged person, one for an account with it.    *)
Result(c) == IF call[c].want.kind = "account" THEN call[c].answer ELSE call[c].frag.email

MergeCommits(c) ==
  /\ call[c].at = "commit" /\ ~Conflicts(c)
  /\ LET e == call[c].frag.email
     IN  /\ name' = [name EXCEPT ![e] = Named(e, call[c].frag.named)]
         /\ ids' = [i \in PlatformId |-> IF i \in WritesIds(c) THEN e ELSE ids[i]]
         /\ Ended(c, Result(c))
  /\ UNCHANGED <<plugin, guessed, mishaps>>

(* The LDAP plugin and merge_team catch it and go on without the person,   *)
(* who may be asked for again at once; so does the search for an account,  *)
(* which answers with the account all the same.                            *)
MergeRaises(c) ==
  /\ call[c].at = "commit"
  /\ (Conflicts(c) /\ UNCHANGED mishaps) \/ Mishap
  /\ IF call[c].want.kind = "account" THEN Ended(c, Result(c)) ELSE Raised(c)
  /\ UNCHANGED <<plugin, name, ids, guessed>>

CallStep(c) ==
  Look(c) \/ AskWebex(c) \/ AskJira(c) \/ AskDirectory(c)
    \/ MergeReads(c) \/ MergeCommits(c) \/ MergeRaises(c)

Next == \E c \in Caller : Begin(c) \/ CallStep(c)

Spec == Init /\ [][Next]_vars

-----------------------------------------------------------------------------
TypeOK ==
  /\ plugin \in Plugins
  /\ name \in [Email -> NameState]
  /\ ids \in [PlatformId -> Email \cup {NoEmail}]
  /\ call \in [Caller -> Call]
  /\ \A c \in Caller : call[c].answer \in PlatformId => call[c].want.kind = "account"
  /\ guessed \subseteq ({"jira"} \X Human) \X Human
  /\ mishaps \in 0..MaxMishaps

(* Nobody is taken for somebody else but by a guess of the search in Jira, *)
(* which takes the first user it finds for a human whose email none of     *)
(* them shows.  An id leads to its owner's row, or to the row it was       *)
(* guessed for, and whoever asks gets the person meant, or an account that *)
(* was guessed for that person: whichever threads merge what they found of *)
(* whom, in whatever order, over each other's rows.                        *)
NobodyMixedUp ==
  /\ \A i \in PlatformId : ids[i] # NoEmail =>
       /\ Owner(ids[i]) = Owner(i) \/ <<i, Owner(ids[i])>> \in guessed
       /\ name[ids[i]] # "absent"
  /\ \A c \in Caller : call[c].answer # NoEmail =>
       \/ Owner(call[c].answer) = call[c].want.human
       \/ /\ call[c].want.kind = "account"
          /\ <<call[c].answer, call[c].want.human>> \in guessed

(* What the cache knows it keeps: an id stays with its row although later  *)
(* fragments, and transactions that read before it was there, bring it     *)
(* under another email, and no name gives way to none.                     *)
NeverForgets ==
  [][/\ \A i \in PlatformId : ids[i] # NoEmail => ids'[i] = ids[i]
     /\ \A e \in Email :
          /\ name[e] # "absent" => name'[e] # "absent"
          /\ name[e] = "named" => name'[e] = "named"]_vars

(* A request that loses the race for a row fails, but a row costs each     *)
(* thread one request at most: from some time on all of them succeed,      *)
(* however the threads overtake each other, once mishaps have ended.       *)
RacesEnd == \A c \in Caller : <>[][~MergeRaises(c)]_vars
================================================================================
