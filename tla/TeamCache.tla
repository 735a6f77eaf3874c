------------------------------ MODULE TeamCache ------------------------------
(***************************************************************************)
(* The members of a responder team: where a bot takes them from when it    *)
(* adds a team to an incident room (thaum/types.py, lookup/base.py).       *)
(*                                                                         *)
(* Each bot object of each worker process holds a copy of the team, made   *)
(* from the database when the process starts.  get_members looks a stale   *)
(* copy up in the directory and writes what it found to the copy, which    *)
(* the threads of the process share, and to the row all processes share.   *)
(* Two others write the row without any members: the leader before the     *)
(* bots start (preload_teams_cache) and every bot when it is attached to   *)
(* the Jira plugin (refresh_team_cache).                                   *)
(*                                                                         *)
(* There is one team; time is kept as ages, the age Ttl standing for every *)
(* age at which a copy is stale.                                           *)
(***************************************************************************)
EXTENDS Naturals

CONSTANTS
  Person,      \* whoever may be a member
  Bot,         \* bot objects: a bot in a worker process
  Thread,      \* threads that serve incident requests
  BotOf,       \* the bot object each thread works for
  Ttl,         \* time for which a copy is fresh
  MaxCall,     \* bound on the duration of a look-up, from the HTTP timeouts
  MaxFailures, \* bound on failures and restarts
  NoTeam

ASSUME TeamAssumption ==
  /\ BotOf \in [Thread -> Bot]
  /\ Ttl \in Nat \ {0} /\ MaxCall \in Nat /\ MaxFailures \in Nat

(* History: asked, whether the members are the result of a look-up.        *)
Team == [age : 0..Ttl, members : SUBSET Person, asked : BOOLEAN]
LookupStage == {"idle", "fetch", "merge", "store"}
Life == {"down", "attach", "up"}

ASSUME NoTeamAssumption == NoTeam \notin Team

VARIABLES
  source,    \* the members of the team in the directory
  shown,     \* persons whose email the directory shows
  left,      \* history: time since a person who is not a member was one, capped
  people,    \* persons with a row in schema_people
  row,       \* the row of the team with its member rows
  copy,      \* bot.responders: the ThaumTeam of each bot object
  life,      \* where initialize_bots is
  warmed,    \* whether the plugin of the bot has its team names
  lookup,    \* get_members in each thread
  failures

teamVars == <<source, shown, left, people, row, copy, life, warmed, lookup, failures>>
directory == <<source, shown, left>>

(* The longest a departed member may still be added: a copy is used until  *)
(* it is Ttl old, and it is that of a look-up, whose result may have been  *)
(* stamped anew by a second look-up of the process that overlapped it.     *)
Window == Ttl + 2 * MaxCall
NoLookup == [at |-> "idle", got |-> {}, since |-> 0]

TeamInit ==
  /\ source \in SUBSET Person
  /\ shown \in SUBSET Person
  /\ left = [p \in Person |-> Window]
  /\ people = {}
  /\ row = NoTeam
  /\ copy = [b \in Bot |-> NoTeam]
  /\ life = [b \in Bot |-> "down"]
  /\ warmed = [b \in Bot |-> FALSE]
  /\ lookup = [c \in Thread |-> NoLookup]
  /\ failures = 0

Failure == failures < MaxFailures /\ failures' = failures + 1
FineOr(fine) == (fine /\ UNCHANGED failures) \/ (~fine /\ Failure)

-----------------------------------------------------------------------------
(* cache_team for a team whose members nobody asked for.                   *)
Memberless(age) == [age |-> age, members |-> {}, asked |-> FALSE]

(* preload_teams_cache: last_cached = 0.0, so that the first use of the    *)
(* team looks its members up.                                              *)
Preload ==
  /\ row' = Memberless(Ttl)
  /\ UNCHANGED <<directory, people, copy, life, warmed, lookup, failures>>

(* refresh_team_cache: last_cached is left to its default, the present.    *)
(* A team the list does not have, or that cannot be written, is skipped.   *)
Refreshed == {row, Memberless(0)}

(* Mutant: the time a row was written is not read.                         *)
LoadedAsNew == IF row = NoTeam THEN NoTeam ELSE [row EXCEPT !.age = 0]

(* get_team_by_name: a team that is not there is left out with a warning.  *)
Loaded == row

Resolve(b) ==
  /\ life[b] = "down"
  /\ copy' = [copy EXCEPT ![b] = Loaded]
  /\ life' = [life EXCEPT ![b] = "attach"]
  /\ UNCHANGED <<directory, people, row, warmed, lookup, failures>>

(* attach_bot; a list that cannot be fetched is logged.                    *)
Attach(b) ==
  /\ life[b] = "attach"
  /\ life' = [life EXCEPT ![b] = "up"]
  /\ \E fine \in BOOLEAN :
       /\ FineOr(fine)
       /\ warmed' = [warmed EXCEPT ![b] = fine]
       /\ row' \in IF fine THEN Refreshed ELSE {row}
  /\ UNCHANGED <<directory, people, copy, lookup>>

(* Every alert tries again until the names are there.                      *)
Rewarm(b) ==
  /\ life[b] = "up" /\ ~warmed[b]
  /\ warmed' = [warmed EXCEPT ![b] = TRUE]
  /\ row' \in Refreshed
  /\ UNCHANGED <<directory, people, copy, life, lookup, failures>>

(* Mutant: the requests of the process outlive it.                         *)
RestartKeepsCalls(b) ==
  /\ life[b] # "down" /\ Failure
  /\ life' = [life EXCEPT ![b] = "down"]
  /\ copy' = [copy EXCEPT ![b] = NoTeam]
  /\ warmed' = [warmed EXCEPT ![b] = FALSE]
  /\ UNCHANGED <<directory, people, row, lookup>>

(* The process ends and is started again.                                  *)
Restart(b) ==
  /\ life[b] # "down" /\ Failure
  /\ life' = [life EXCEPT ![b] = "down"]
  /\ copy' = [copy EXCEPT ![b] = NoTeam]
  /\ warmed' = [warmed EXCEPT ![b] = FALSE]
  /\ lookup' = [c \in Thread |-> IF BotOf[c] = b THEN NoLookup ELSE lookup[c]]
  /\ UNCHANGED <<directory, people, row>>

-----------------------------------------------------------------------------
(* get_members, called by create_incident_room.                            *)

(* Mutant: a team without members is not asked for again.                  *)
StaleWithMembers(team) == team.age = Ttl /\ team.members # {}

Stale(team) == team.age = Ttl

(* A fresh copy is used as it is; a stale one is looked up.                *)
Ask(c) ==
  /\ lookup[c].at = "idle" /\ life[BotOf[c]] = "up"
  /\ copy[BotOf[c]] # NoTeam /\ Stale(copy[BotOf[c]])
  /\ lookup' = [lookup EXCEPT ![c] = [NoLookup EXCEPT !.at = "fetch"]]
  /\ UNCHANGED <<directory, people, row, copy, life, warmed, failures>>

(* The account ids of the members, page by page: one page that cannot be   *)
(* fetched makes the result empty, as if the team had no members.          *)
MembersListed == {source, {}}

(* A user who shows no email is left out, at every look-up, and so is one  *)
(* who cannot be fetched.                                                  *)
UsersFetched(ids) == SUBSET (ids \cap shown)

(* fetch_team_members; the copy has the fragments at once, its age does    *)
(* not change yet.                                                         *)
Fetch(c) ==
  /\ lookup[c].at = "fetch"
  /\ \E ids \in MembersListed : \E got \in UsersFetched(ids) :
       /\ FineOr(got = source \cap shown)
       /\ lookup' = [lookup EXCEPT ![c].at = "merge", ![c].got = got]
       /\ copy' = [copy EXCEPT ![BotOf[c]].members = got, ![BotOf[c]].asked = TRUE]
  /\ UNCHANGED <<directory, people, row, life, warmed>>

(* merge_team: the fragments are merged one by one; one that fails stays   *)
(* among the members.  Then the copy is fresh.                             *)
Merge(c) ==
  /\ lookup[c].at = "merge"
  /\ \E failed \in SUBSET (lookup[c].got \ people) :
       /\ FineOr(failed = {})
       /\ people' = people \cup (lookup[c].got \ failed)
  /\ copy' = [copy EXCEPT ![BotOf[c]] = [age |-> 0, members |-> lookup[c].got, asked |-> TRUE]]
  /\ lookup' = [lookup EXCEPT ![c].at = "store"]
  /\ UNCHANGED <<directory, row, life, warmed>>

Done(c) == lookup' = [lookup EXCEPT ![c] = NoLookup]

(* cache_team writes what the copy holds by now, which may be another      *)
(* thread's; a member without a row in schema_people breaks the foreign    *)
(* key.  Back in get_members the copy is stamped again.                    *)
Store(c) ==
  /\ lookup[c].at = "store"
  /\ copy[BotOf[c]].members \subseteq people
  /\ row' = copy[BotOf[c]]
  /\ copy' = [copy EXCEPT ![BotOf[c]].age = 0]
  /\ Done(c)
  /\ UNCHANGED <<directory, people, life, warmed, failures>>

(* The transaction fails; get_members logs it and uses the copy.           *)
StoreFails(c) ==
  /\ lookup[c].at = "store"
  /\ FineOr(~(copy[BotOf[c]].members \subseteq people))
  /\ Done(c)
  /\ UNCHANGED <<directory, people, row, copy, life, warmed>>

LookupStep(c) == Fetch(c) \/ Merge(c) \/ Store(c) \/ StoreFails(c)

-----------------------------------------------------------------------------
(* The directory and time.                                                 *)
Join(p) ==
  /\ p \notin source
  /\ source' = source \cup {p}
  /\ UNCHANGED <<shown, left, people, row, copy, life, warmed, lookup, failures>>

Leave(p) ==
  /\ p \in source
  /\ source' = source \ {p}
  /\ left' = [left EXCEPT ![p] = 0]
  /\ UNCHANGED <<shown, people, row, copy, life, warmed, lookup, failures>>

(* An account comes to show its email, or not to show it any more.         *)
Toggle(p) ==
  /\ shown' = IF p \in shown THEN shown \ {p} ELSE shown \cup {p}
  /\ UNCHANGED <<source, left, people, row, copy, life, warmed, lookup, failures>>

Older(team) ==
  IF team = NoTeam \/ team.age = Ttl THEN team ELSE [team EXCEPT !.age = @ + 1]

Tick ==
  /\ \A c \in Thread : lookup[c].at = "idle" \/ lookup[c].since < MaxCall
  /\ left' = [p \in Person |-> IF left[p] < Window THEN left[p] + 1 ELSE left[p]]
  /\ row' = Older(row)
  /\ copy' = [b \in Bot |-> Older(copy[b])]
  /\ lookup' = [c \in Thread |-> IF lookup[c].at = "idle" THEN lookup[c]
                               ELSE [lookup[c] EXCEPT !.since = @ + 1]]
  /\ UNCHANGED <<source, shown, people, life, warmed, failures>>

TeamNext ==
  \/ Preload \/ Tick
  \/ \E p \in Person : Join(p) \/ Leave(p) \/ Toggle(p)
  \/ \E b \in Bot : Resolve(b) \/ Attach(b) \/ Rewarm(b) \/ Restart(b)
  \/ \E c \in Thread : Ask(c) \/ LookupStep(c)

TeamSpec == TeamInit /\ [][TeamNext]_teamVars

(* Processes start, calls end, time passes, and people go on asking every  *)
(* bot for help.                                                           *)
TeamFairness ==
  /\ WF_teamVars(Tick)
  /\ \A b \in Bot : WF_teamVars(Resolve(b)) /\ WF_teamVars(Attach(b))
  /\ \A c \in Thread : WF_teamVars(Ask(c)) /\ WF_teamVars(LookupStep(c))

FairTeamSpec == TeamSpec /\ TeamFairness

-----------------------------------------------------------------------------
TeamTypeOK ==
  /\ source \subseteq Person /\ shown \subseteq Person
  /\ left \in [Person -> 0..Window]
  /\ people \subseteq Person
  /\ row \in Team \cup {NoTeam}
  /\ copy \in [Bot -> Team \cup {NoTeam}]
  /\ life \in [Bot -> Life]
  /\ warmed \in [Bot -> BOOLEAN]
  /\ lookup \in [Thread -> [at : LookupStage, got : SUBSET Person, since : 0..MaxCall]]
  /\ failures \in 0..MaxFailures
  /\ \A c \in Thread : lookup[c].at # "idle" => copy[BotOf[c]] # NoTeam

(* Whoever left the team is not added to incident rooms for ever: a bot    *)
(* uses its copy without a look-up only while everybody in it was a member *)
(* less than Window ago, whichever processes and threads looked the team   *)
(* up when, overtook each other, restarted or failed to write.             *)
NobodyLongGone ==
  \A b \in Bot :
    copy[b] # NoTeam /\ ~Stale(copy[b]) =>
      \A p \in copy[b].members \ source : left[p] < Window

(* Whoever has joined the team for good, and shows an email, is added in   *)
(* the end by every bot that knows the team, although failed look-ups and  *)
(* the refreshes of other bots leave teams without members that count as   *)
(* fresh.  A member who shows none is never added.                         *)
NewcomersAreAdded ==
  \A b \in {BotOf[c] : c \in Thread}, p \in Person :
    <>[](p \in source \cap shown) => <>[](life[b] = "up" /\ copy[b] # NoTeam => p \in copy[b].members)

(* atlassian.py: "Lazy member loading: force first real member lookup on   *)
(* use."  A copy is used without a look-up only if there was one.          *)
FreshMeansAsked ==
  \A b \in Bot : copy[b] # NoTeam /\ ~Stale(copy[b]) => copy[b].asked
================================================================================
