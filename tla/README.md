# A TLA+ model of Thaum

Thaum is a chat bot service: users of a chat platform (Webex) ask for help in a room, the service opens incident rooms, pages the people on call through Jira Service Management and reports back what Jira tells it. It runs as several Gunicorn worker processes, possibly of two overlapping deployments, that share nothing but a database. This directory models the parts of it in which that matters.

## Inventory

| Component (source) | State it keeps | Operations | What is hard | What makes it correct |
|---|---|---|---|---|
| Worker bootstrap and leader-init barrier (`bootstrap.py`, `thaum/leader_bootstrap.py`, `thaum/leader_init.py`, `thaum/fatal.py`) | the row `schema_leader_init_status`; the election tables of `gemstone_utils`; per worker: baseline ticket, whether RUNNING was seen, a deadline | register, elect, run init tasks, mark RUNNING/DONE/FAILED, poll, time out, fail fast | rows of earlier deployments, leases that expire, leaders that die, overlapping deployments | nobody passes on a stale DONE, one initialiser, one KEK slot, everybody ends |
| Database keys (`thaum/database_crypto.py`) | `gemstone_key_kdf`, `gemstone_key_record`, the key context of each process | create keys, wire a process, rotate the DEK, re-encrypt in batches | two creators, processes with an older key context | one KEK slot, every ciphertext readable |
| Leader loop (`thaum/leader_service.py`, `thaum/builtin_leader_tasks.py`) | last run of each task, election | heartbeat, elect, run due tasks, unregister | tasks block the heartbeat, two leaders | tasks run about once per interval |
| Jira alerts (`alerts/plugins/jira/`) | the table `jira_alert_map` | trigger, the webhooks Create/Acknowledge/UnAcknowledge/Escalate/Close, ack, assign | webhooks lost, twice, late, overtaking; reads and writes in separate transactions; short ids repeat | every message in the room of its alert, ack reaches the announced alert |
| Webex bot (`bots/plugins/webex_bot.py`, `thaum/bot_webhook_state.py`) | remote webhook list, row of HMAC secrets and status | register, prune, probe, validate, dispatch | several workers edit the remote list | one live webhook per resource, secrets that agree |
| Log level administration (`thaum/admin_log_level.py`, `log_setup.py`) | singleton row, replay nonces, per-process level | POST, poll, expiry | poller against POST | requests take effect at one moment, processes that poll converge on the last accepted POST |
| Bearer token warnings (`alerts/webhook_bearer.py`) | a row per token with the time of the last warning | validate, throttle, clean up, log | requests racing on a row read without a lock, times taken before the transaction, a crash before the log | no more warnings than overlaps explain, no silence without a cause |
| Identity cache (`lookup/base.py`, `lookup/plugins/`) | tables of persons and of platform ids | look up by Webex id, by email, as a team member; merge | transactions that overlap, services that fail or tell one person's email in two spellings | nobody is taken for somebody else but by a guess, nothing known is lost |
| Team cache (`thaum/types.py`, `lookup/base.py`, `alerts/plugins/jira/teams.py`) | a row and member rows per team; a copy in each bot object | preload, refresh, look members up, merge, store | threads sharing a copy, look-ups that fail or overtake each other, rows written without members | the departed are not invited for ever, newcomers are in the end |
| Chat commands, incident rooms (`thaum/handlers.py`, `thaum/engine.py`, `bots/base.py`) | chat rooms, cards | help, emergency, alert, ack, implode, submit a card | events lost or twice, calls failing half-way, rooms deleted while being filled | who asks is helped, in a room of the alert's own |
| LDAP / AD look-up (`lookup/plugins/ldap_ad.py`) | none of its own | three look-ups feeding the two caches | – | what it tells is merged like the rest |
| Configuration, plugin loading, formatting, deployment scripts | none shared | run once, or request/response I/O | – | – |

How they interact: `bootstrap()` runs in every worker; the barrier orders the leader's key creation before the key wiring of all workers and before the bots start; chat commands call the alert plugin, which writes the mapping table that status webhooks, served by any worker, read. The maintenance loop of the elected worker rotates keys, writes old rows again, probes webhooks and purges nonces. A chat event is dispatched after its sender was looked up (identity cache); a request for help takes the responders from the team cache, makes a room and then raises the alert.

## Modules

| Module | Role |
|---|---|
| `InitBarrier` | abstract promise of the barrier: members arrive, somebody completes, later completions release |
| `LeaderBootstrap` | every worker's path through `bootstrap()`, the election, the barrier row, crashes, deployments |
| `MCLeaderBootstrap` | its instances for TLC |
| `LeaderBootstrapProofs` | theorems about it |
| `JiraAlerts` | triggers, Jira, webhooks and acks over the mapping table |
| `MCJiraAlerts` | its instances for TLC |
| `JiraAlertsProofs` | theorems about it |
| `AdminLogLevel`, `MCAdminLogLevel`, `AdminLogLevelProofs` | the runtime log level: POST handler, nonces, polling threads |
| `LevelLedger` | abstract promise about log level requests: each takes effect at one moment, a single-use one once |
| `HelpDesk` | abstract promise to whoever asks for help: pages, rooms and cards |
| `SecretStore` | abstract promise about the bots' secrets: one for each bot, once and for all |
| `DatabaseKeys`, `MCDatabaseKeys`, `DatabaseKeysProofs` | data keys and the bots' secrets they encrypt: rotation, rewriting, several processes |
| `WebexHooks`, `MCWebexHooks`, `WebexHooksProofs` | registration and care of the remote webhooks by successive leaders |
| `TeamCache`, `MCTeamCache` | whom a bot invites to an incident room: copies, rows and look-ups of a responder team |
| `PersonCache`, `MCPersonCache` | which person a platform id stands for, with merges that overlap |
| `LookupProofs` | theorems about the two caches that look-ups fill, `TeamCache` and `PersonCache` |
| `IncidentRooms`, `MCIncidentRooms`, `IncidentRoomsProofs` | from a message or a card to an incident room and its alert |
| `BearerWarnings`, `MCBearerWarnings`, `BearerWarningsProofs` | the throttle of the expiry warnings of webhook bearer tokens |

An MC module only gives constants values that a `.cfg` cannot write down; all definitions and properties are in the module it extends.

### LeaderBootstrap

One member of `Proc` is one operating-system process, which starts once; a respawned worker or a worker of the next deployment is another member, and `MasterOf` gives its Gunicorn master. `pc` follows `bootstrap()`: `joined` (registered, one heartbeat), `elected`, then the leader's section (`lead`, `vaultCheck`, `vaultInsert`, `preload`, `finishing` or `failing`) or the follower's `wait`, then `crypto`, `bots`, `startup`, `up`; `fatal` and `dead` end it. Each transaction or poll of the code is one action. `row` is the barrier row (absent before the first deployment); `baseline`, `sawRunning` and `failedSeen` are the locals of `wait_for_leader_init_barrier`. The election library is not in this repository: `ElectOutcome` keeps a registered leader whose heartbeat is fresh and otherwise takes any registered candidate with a fresh one, which is how the code relies on it. `dones`, `doneSeen` and `outrun` are history variables for the properties and the refinement; no action reads them. `outrun` are the processes whose lease ran out on their way to the init tasks or in them.

Not in the model: the text of error messages; the two-second clock of a FAILED at the baseline is "a later poll still finds FAILED"; the read-modify-write of the ticket is one step (it is one transaction); the four attempts of `ensure_vault_key_rows` are unlimited, which makes no difference because a conflict implies that a slot exists and the next look finds it. IDLE is in the type only: the code never commits it.

The code sends a single heartbeat before the init tasks, whose length nothing bounds, so the lease of every process may run out at every step. The other constants are the environment: `Crashy` processes can die, `Failing` ones can raise, and `TimeoutsHappen` lets the deadline pass.

| Run | Instance | Shows |
|---|---|---|
| `Bootstrap` | 2 workers of 2 masters, that is of overlapping deployments; both may crash, fail a task, outlive their lease or time out; every leftover row | type, `PassOnlyOnFreshDone`, `KeysReady`; two processes in the init tasks (`SingleInit`) and a process that ends when its encryption is wired (`WiringSucceeds`) only after a leader outlived its lease; every step is a step of `InitBarrier` (`RefinesBarrier`); each worker that joins ends up serving or dead (`Decided`) |
| `LateWorker` (violated) | 2 workers of one master, no deadline | a follower whose first look finds the leader's DONE never accepts it |

Bounds: two processes are a leader and a follower, or two leaders one after the other; the counterexamples found while modelling needed no more, and the theorems cover any number. Nothing else is bounded: each process starts once, so tickets stay below the number of processes plus one. `NeverTwoKeySlots` (at most one slot as long as no leader outlived its lease, `OneKeySlot`) is proved and not part of the run, where `WiringSucceeds` stands for it.

Fairness: weak fairness of a process's own step (a running thread goes on), of the deadline (`time.monotonic` advances while the thread polls) and of a stopping master ending its workers. Starting, crashing, failing, lease expiry and shutdown are never forced. `LateWorker` takes the deadline away to ask what releases followers apart from it.

Proved (`LeaderBootstrapProofs`, for any processes, masters and leftover rows): `TypeCorrect`; `FreshRelease` and `KeysBeforeCrypto`, which do not depend on the election at all; `ExclusiveInit`, `NeverTwoKeySlots` and `WiringNeverEndsAProcess`, which make `outrun` the only exception; and `BootstrapRefinesBarrier`. None of them assumes how long leases or tasks last. The invariants: `FreshInv` says that once a follower has seen RUNNING, or the ticket is above its baseline, a DONE in the row must be newer than its first look, because only a leader of this history raises a ticket or leaves RUNNING; `KeyInv` ties DONE of this history to a KEK slot, also a DONE that a leader writes over its successor's RUNNING; `LeadInv` says that whoever is in the init section and not in `outrun` is the recorded leader with a fresh lease, so that no election can name another; `SlotInv` that, with nobody in `outrun`, whoever found no slot still finds none when it inserts one. `WiringNeverEndsAProcess` needs both sides, at least one slot (`KeysReady`) and at most one (`OneKeySlot`), and is what `DatabaseKeys` starts from: one key, loaded by every process.

Once a leader has outlived its lease the code promises less, and so do the properties: a second leader may run the tasks beside it, two KEK slots may arise, which end every process that is wired afterwards, and the DONE of the one may stand while the other still works. Also not prevented, and not stated as a property: a FAILED row of an earlier deployment ends the workers of the next one while the dead leader's lease is fresh (`PollFailed`).

### JiraAlerts

A member of `Request` is one call of `trigger_alert`; the alert its POST creates carries the same name. `phase` follows the call: `built` (short id drawn, alias made), `posted`, `stored` (row committed), `announced` (tracking id said in the room), `failed`. `rows` is the table as a set of records. Jira is `created`, `sent` and `net`: an accepted POST emits Create although its answer may be lost; users act on alerts; every event goes to every bot (one Jira site calls the webhook of each integration) and may be lost, delivered twice, late or before earlier ones. A status webhook takes two or three steps, one per transaction of the code: find the row by alert id, else by alias, then speak; Create reads the fallback room, then links. `ack` follows an ack command: find the row by short id, ask Jira by alias if it is not linked, acknowledge, assign.

Abstractions: an alert has at most one event per action; Escalate and recent Close may or may not be told (configuration and clock); a handler may stop anywhere because `Spec` has no fairness, which is what a worker killed mid-request does. Short ids are drawn without memory: one may come again on a later day, or on the same UTC day, where it makes the same alias, also for another bot, since the alias does not name the bot. `Namesakes(r)` are the requests with the alias of `r`, `r` alone nearly always; the properties name them as the only ones that can be taken for each other.

| Run | Instance | Shows |
|---|---|---|
| `AlertRouting` | 2 requests to one bot that may draw one short id, on one day or on two, faults, loss, duplicates, 2 webhook threads, an ack in one of the two rooms | type, `ToldInOrigin`, `LinkedRight`, `AnnouncedRoutable`, `AckHitsItsAlert` |
| `AlertTold` | 2 bots on one site, same short id, on one day or on two, reliable delivery, fair handlers, one webhook at a time | an Acknowledge that arrives when the row is stored is told (`StoredAckIsTold`) |
| `EarlyAck` (violated) | reliable delivery, fair handlers | an Acknowledge handled before the row is committed is dropped for good |

Bounds: two requests, because a wrong room or a wrong alert needs one other; two days (`LastDay` = 1); in `AlertRouting` two short ids, so that the second draw repeats the first or does not, in `AlertTold` one, so that it always does; `Threads` webhook handlers at a time, two where interleavings of handlers matter (in `AlertTold` they would only multiply the states: what is asked there is about one event against the trigger). `Acking` names the rooms in which somebody acks. Fairness in `FairSpec`: a trigger that has begun goes on, a delivered event is handled and an emitted event is delivered; users never have to do anything.

Proved (`JiraAlertsProofs`, for any number of requests, bots, rooms, days and threads, any draws, lossy and duplicating delivery): `AlertsTyped`, `AlertsStayInTheirRoom`, `LinksAreRight`, `AnnouncedAlertsRoute` and `AcksHitTheirAlert`. The argument: a request has one alias for good (`AliasInv`), each row is that of a request and is linked to an alert with its alias, if to any (`RowInv`), and since aliases never change, what a handler has read from a row still names the room of that request, or of a namesake's, when it is used, whatever happened to the table meanwhile (`HookInv`, `AckInv`). What an ack cannot promise is that it reaches the alert of the room it is typed in: `mapping_for_short_id` selects over the rows of every day in no order, so `AckHitsItsAlert` says that it reaches an alert this bot announced with that id, which is the one of the room as long as the id was drawn once.

### AdminLogLevel

`row` and `nonces` are the two tables, `root` and `last` the level of the root logger and `_last_db_log_state` of each process. `post` is one record per execution of `handle_admin_log_level_post`: `checked` (signature, key and time accepted), `open` (nonce inserted, row read), `stored` (committed), `levelled` (root level set), `ok`; `refused` and `failed` end it. The polling thread goes through `sleeping`, `read` and `remembered`, because the code stores the state it has seen before it sets the level. Nothing locks these two variables against each other, so every such step is an action. `RowAfter` models what the ORM writes: only columns that differ from what the transaction read. `updated_at` is the handler that took it. `stored` counts commits and is read by properties only. `Threaded` is FALSE for Gunicorn's synchronous workers; the poller is a thread in either case. `Pollers` are the processes that have one: `configure_logging` starts it only where `log_state_poll_seconds` is above 0, and the default is 0 (`types.py:231`), so in a default deployment no process follows another. `Ahead` is given for each request, because a client's clock may be ahead of the server's by anything the time check lets pass, up to `Skew`.

| Run | Instance | Shows |
|---|---|---|
| `LevelAgreed` | 2 threaded processes of which one polls, 2 requests, one for DEFAULT, one from a client that is ahead by all of `Skew`, 2 executions, clock to 3 with `Skew` 1, `Grace` 1, `MaxHandling` 1 | type; `StoredOnce` of the request whose client is not ahead; `RootWasStored`, `FollowersConverge`; every step is a step of `LevelLedger` (`RefinesLedger`) |

Bounds: two executions are one request delivered twice, or two requests; the clock is long enough for a nonce to expire and be purged while a copy is still on its way, which the mutant without `Grace` shows, and for a copy of the request that is ahead to be stored again, as `EveryRequestOnce` would show. Fairness: a handler that has begun goes on, a polling thread that was started polls for ever; requests need not arrive.

Proved (`AdminLogLevelProofs`, for any processes, requests, executions and clocks): `LevelsTyped`; `NonceAndLevelTogether`; `OnlyStoredLevelsApplied`; `RequestTakesEffectOnce` and `LevelsKeepTheLedger`. None assumes how far clients are ahead: the last two say "once" of the requests in `SingleUse`, those whose client is ahead by no more than `Grace` leaves beside `MaxHandling`, and the rest of all. In the code a nonce expires `Skew + 120 s` after the server's clock at acceptance, while a request from a client that is ahead stays acceptable until `Skew` (300 s by default) after the client's time; one that is ahead by more than the 120 s can therefore be stored again when its nonce has expired (see "Known divergences"). `RequestTakesEffectOnce` needs `OnceInv`: a handler before its commit is still within its time (`HandlersInTime`), the nonce of a stored single-use request stays until the last moment a copy could commit (`NonceOutlivesRequest`), and an open transaction is the only one with its nonce (`OpenIsFirst`). `MaxHandling` exists because Gunicorn kills a synchronous worker whose request takes longer than its timeout.

`LevelsKeepTheLedger` shows that the module implements `LevelLedger`, where a request is used in one step: `uses` is `stored`, `remembered` the nonces in the table, `level` that of the row, `runs` the root levels. `PostStores` is `Take`; purges and refused copies, which delete expired nonces, are `Forget`; a handler, poller or restart that sets a root level is `Follow`. `Take` demands of a single-use request that it was not used before (`OpenIsFirst`), which deleting nonces could make false. It also says how far overlapping requests can spoil each other: one that finds its level in the row already may be overtaken by another, because SQLAlchemy writes only the columns that differ from what was read; one for a level that was never set always takes effect. The proof needs that what a transaction has read was set (`ReadsStored`).

### DatabaseKeys

`keys` and `active` are `gemstone_key_record` after leader init (`LeaderBootstrap` models the creation), `due` says that an active key is older than the configured days, `table` is `bot_webhook_hmac`, a secret and the key it is encrypted under for each bot. Per process, `ctx` is the context it encrypts with (`NoKey` in a process that the wiring ended), `cache` the secrets it uses, `ensure` the insertion it is about to make, and `job` its maintenance task: `rotate` (key generated), `switch` (key stored, memory not yet changed), `rewrite` (stale rows decrypted, not yet written). Storing a key and setting it active is one action, because it is one transaction; it takes the flag from the active keys it sees, and a key that an overlapping rotation stored after this one began may be among them or not. Two keys can be active then, and nothing works any more that asks for the active one: `active_dek_row` raises, so no rotation and no rewrite begins and a process that starts is ended. `put_keyrecord` itself is in `gemstone_utils`; what is known of it from this repository is that one key is active after a rotation without another (`tests/test_database_crypto.py`). Whether a process leads is asked before a task, so `LeaderMoves` may happen in the middle of one. `Restarts` at any moment stands for a crash, too.

| Run | Instance | Shows |
|---|---|---|
| `KeysShared` | 2 processes that both may lead, 1 bot, 4 keys, 2 secrets, batch of 1 | type, `RowsReadable`, `SettledRowsCatchUp`; every step is a step of `SecretStore` (`RefinesStore`) |

Bounds: four keys are three rotations, of which two may overlap and a third may follow them; two secrets are what two racing insertions draw; one bot, because bots share nothing but the batch. A rotation needs a key left to draw, so rotation stops in every instance, which both liveness properties need in order to mean something. `SettledRowsCatchUp` supposes what the code needs, that the lease stays with a process whose memory holds the one active key; `RowsCatchUp`, what the docstring says, supposes nothing and does not hold (see "Known divergences"). The instances have no more rows than the batch: the code's limit counts rows that need nothing (`Selection`), so with more rows a stale one may never be among those selected. Fairness: strong fairness of the two steps of rewriting, since crashes, a lost lease and other tasks interrupt them again and again; a rotation that has begun goes on unless it fails; nothing forces a rotation or a restart.

Proved (`DatabaseKeysProofs`, for any processes, bots, keys, secrets and batch, and any number of leaders whose tasks overlap): `KeysTyped`, `OneSecretPerBot` (`SecretsAgree`), `NoRowIsLost`, and `KeysRefineStore`: the rows, races, rotations and rewritings implement `SecretStore`. Under the mapping the secret of a bot is the plain secret of its row and what a process knows is its cache; `EnsureReads` is `Learn`, `EnsureInserts` is `Make`, `Restarts` is `Forget`, and everything else, the rewriting of rows above all, leaves both alone. The inductive invariant `KeysInv` adds to the two properties that every process that runs writes with a stored key (`WritersReady`), and that what a task is about to write again is still the secret of its row (`JobsSound`), which holds because no action changes the plain secret of a row that exists.

### WebexHooks

`hooks` is the platform's list for the bot's address, `leader` the lease, `ids` is `_webhook_ids`, and `task` where a process is in the maintenance task: `probe`, `check` (ids left to look at), `list`, `prune` (ids left to delete), `second` (first webhook created). `runAge` and `probeAge` are the times since the task and since the probe, capped at the interval; a starting process takes any `runAge`, because the loop compares monotonic time with 0.0. `Start` runs the startup tasks in the leader; an exception there is fatal, in the loop it is logged (`Raised`). Faults are crashes, failing calls (also such that only the answer is lost), a lease lost during a task and a webhook switched off; `MaxMishaps` bounds their number, since no liveness property could hold if they never ended, and `mishaps.benign` remembers whether only crashes and switched off webhooks occurred. Addresses are the bot's, over HTTP or HTTPS: pruning treats both alike, the probe does not. How the platform treats a second webhook with the same target and resource is not known from the code: it may refuse it (`MayRefuse`) or not.

| Run | Instance | Shows |
|---|---|---|
| `HooksCared` | 2 processes, 2 mishaps of any kind, leftovers of earlier deployments | type, `HeardAgain`; `NeverTwice` and `OncePerDeployment` while mishaps are benign |

The condition of the last two is needed. A registration that takes longer than the lease goes on while the next leader registers, each deletes only what its own listing found and probes only its own ids, so two pairs of webhooks can stay for good if the platform accepts them; a failing deletion ends the pruning and leaves old webhooks beside the new ones.

Bounds: two processes are an old and a new leader; two mishaps let a second one hit the repair of the first; an interval of one unit is enough because only "less than the interval" is asked. Fairness: time passes, the loop ticks, a task that runs goes on (every call ends by an answer or an exception) and a process that died is started again.

Proved (`WebexHooksProofs`, for any processes, old webhooks, interval and number of mishaps): `HooksTyped` and `NothingIsHeardTwice`. For the types an invariant says that all ids in use are in some finite set of numbers (`Typed`), so that there is always a new one. `NeverTwice` needs that only the leader is in a task (`OneTask`), that what is still to be deleted are all webhooks there are (`Prunes`), and that after the first creation that webhook is alone (`HalfWay`); each of the three fails as soon as a lease or a call does, which is why the property supposes neither.

### TeamCache

There is one team. `row` is its row with its member rows, `copy[b]` the `ThaumTeam` object in the bot object `b` (one bot in one process), `life` and `warmed` where `initialize_bots` and the plugin's team refresh are, and `lookup[c]` the thread `c` in `get_members`: `fetch` (the directory is asked), `merge` (the persons are merged), `store` (the copy is stamped, the row is not yet written). Times are ages, capped at `Ttl`, where a copy is stale. The copy is shared by the threads of a process without a lock, so each of the three steps is an action. `shown` are the persons whose email the directory shows, which they may change (`Toggle`): a user without a visible email is left out of every answer (`atlassian.py:289`, `ldap_ad.py:547`), which is no failure. `left[p]` is a history variable: how long ago somebody who is not a member was one. A failing page of the member list makes the result empty, a user that cannot be fetched is missing from it, a failing merge leaves a member without a row, and then the foreign key fails the write: all of them count as failures, bounded by `MaxFailures`, and so do restarts. `asked` records whether the members of a copy are the result of a look-up and is read by properties only.

| Run | Instance | Shows |
|---|---|---|
| `TeamsFollowed` | 2 threads of a bot, the same bot in another process, one person who joins and leaves, shows and hides the email, one failure or restart | type, `NobodyLongGone`, `NewcomersAreAdded` |

`NobodyLongGone`: a copy that is used without a look-up has only members who left less than `Window` = `Ttl + 2 * MaxCall` ago. The second `MaxCall` is real: a thread stamps the copy once more when it has stored it, so the older of two overlapping answers is dated by the younger; a window of one `MaxCall` is violated. `NewcomersAreAdded`: who is a member for good and shows an email for good is in every copy in the end; who shows none never is. Bounds: `Ttl` 2 and `MaxCall` 1 distinguish fresh, ageing and stale and let one look-up overlap another; one person suffices because each one's membership is followed by itself. Fairness: processes start, calls end, time passes, and everybody who may ask asks again and again; directory changes and failures are not forced.

Proved (`LookupProofs`, for any persons, bots, threads and durations; `LookupProofs` extends both `PersonCache` and `TeamCache`, which is why the names of `TeamCache` are its own, `TeamInit`, `TeamNext`, `TeamSpec` and so on): `TeamsTyped` and `NobodyIsAddedForEver`. The invariant `Recent` dates what a thread has fetched (`GotIsRecent`: right when the look-up began), what it is about to store, whosever it is by then (`StoredIsRecent`), and every copy and the row (`CopiesAreRecent`, `TeamIsRecent`).

### PersonCache

`name` is the table of persons (no row, a row without a name, one with), `ids` the table of platform ids with the email each leads to. Ids are named by the human they were given to, and an email by its human and by its form: in lower case, as it is spelt where that differs (Webex and LDAP hand it on so, Jira's is lowered), or made up from the Webex id when Webex tells none or fails. A caller wants the sender of an event, a person by email, a member of a team, or the account in Jira of somebody whose row does not tell it (`alerts/plugins/jira/users.py`, under either plugin). `call[c]` is a thread: `look` (what the cache answers), `ask` (Webex, Jira or the directory), `read` and `commit` of `merge_person`'s transaction, which keeps what it found missing in `insert`; `done` with an `answer`, or `raised`. Two transactions that both insert a row conflict at the commit (`Conflicts`), and the event of the second one fails. `plugin` is the lookup plugin of the deployment, chosen at the start. The LDAP plugin asks its directory for a Webex id before it asks Webex; both tell the same, so this is one action.

| Run | Instance | Shows |
|---|---|---|
| `PeopleMerged` | 2 threads, 2 humans, one with a spelling of its own, one that hides the email in Jira, searches that find anybody, either plugin, one mishap | type, `NobodyMixedUp`, `NeverForgets`, `RacesEnd` |

A search in Jira may find anybody, because it looks into names too, and the code takes the first user with an account id if none shows the address (`Matches`). Such a match is a guess: it may be the person meant, who hides the email, or a stranger, and it is stored for good either way. `guessed` remembers each stranger's account and whom it was taken for, and `NobodyMixedUp` says that this is the only way to take somebody for somebody else: an id leads to its owner's row or to the row it was guessed for, and no merge carries a guess on to a third person. `RacesEnd` needs no fairness: a conflict implies that another transaction has inserted a row, and rows are never removed. Bounds: two threads are the two sides of a race, the second human is the one to be mixed up with; what threads ask for (`Wanted`) is the event, email and member look-ups of the first and, for the second, the account, where the guess is made under either plugin.

Proved (`LookupProofs`, for any humans, threads, plugins and requests): `PeopleTyped`, `NobodyIsMixedUp` (the email of a fragment is that of the human the caller wants, whatever service told it, its ids are that human's or were guessed, and a transaction writes ids of its fragment under the email of its fragment; no assumption on what searches find) and `NothingIsForgotten`, which rests on the primary keys alone: what a transaction had read does not matter.

### IncidentRooms

A request is made in one message with a summary (`Ask`), of one line or of several (`Rambled`), or through a card that the bot shows and somebody submits (`Card`). `inbox` counts the undelivered copies of each event, `room` says for each room whether it is open, who was invited and whether the summary was said, `call[t]` is `handle_event` in a thread: `prompt`, `create`, `invite`, `tell`, `page` (the alert), `clean` (the card), `implode`. Every call to Webex, Jira or the database is a step of its own and may fail; what is caught where in the code decides where the handler goes on (`Left`). Members may implode any room of the bot's at any time. `high` is whether the deployed configuration has high priority; a deployment may change it while old cards are around. `asked`, `excused`, `posted` and `alerts` are history: a request is excused when a mishap hits this very request, when somebody implodes its room before the summary was said there, or when it asks for a priority the bot does not have. A summary of several lines matches no route, not even the one for unknown commands, because `.` and `$` do not match across lines (`handlers.py:257`, `310`): the message is dropped without an answer.

| Run | Instance | Shows |
|---|---|---|
| `AskedIsHelped` | 1 request in a message, 1 through a card, 2 threads, 2 rooms to make, implosions, deployments, 1 mishap | type, `AlertedRoomsReady`, `Answered`; every step is a step of `HelpDesk` (`RefinesDesk`) |

Bounds: `MaxEngine` = 2 events that make a room, duplicates and second submissions included, since each takes a room; two rooms; no room of somebody else's (`Foreign`), in which implode does nothing, so that it adds only events without effect (the theorems are for any); one mishap, so that a request it does not hit must be served. Fairness: an event that is not lost is delivered, a handler that runs goes on; nobody has to write. `Answered` asks of every request through a card or in one line that it leads to an alert or is excused. What comes after `page` inside the alert plugin is `JiraAlerts`.

Proved (`IncidentRoomsProofs`, for any requests, threads, rooms and bounds): `RoomsTyped`, `AlertsHaveReadyRooms`, `CardsOutliveOtherRequests` and `NobodyIsPagedUnasked` (`CardsKeptForAsker` and `OnlyAskedPage`, which are not part of the run because `RefinesDesk` says more), and `RoomsServeTheDesk`. `AlertedRoomsReady` alone is not inductive: a step of a thread that sets a room up must not disturb an alert or another thread, and what the alert promises was done several steps before it. The invariant therefore says that such a thread has a room of its own that no alert names yet (`RoomsOwned`), that it has done what its stage says (`StagesDone`), and that whoever turns to the card has an alert or a mishap behind it (`ServesRequest`). That members implode rooms disturbs none of this, because a room that is gone is never used again. For the types, `FewCopies` bounds the copies of an event by what was posted and doubled. The module assumes that there is a room at all, so that the events are not empty.

`RoomsServeTheDesk` shows that the module implements `HelpDesk`, which knows requests, pages, rooms and cards, but no events, threads, copies, deployments or implosions. `made` are the requests in `asked`, `failed` is `excused`, `ready` are the rooms where the summary was said, `pages` is `alerts`, and a card is on show or gone. `Write` of a request is `Make`, `TellSummary` is `Prepare`, `Page` is `PageIn`, `SendCard` and `CleanCard` are `Show` and `Withdraw`, every step that excuses a request is `Fail`, and the rest changes nothing the asker sees. The guards of `HelpDesk` are what is proved: a page needs a request that was made, in a room that is ready and has no page yet (`RoomsOwned`, `StagesDone`, `OnlyAskedPage`), a card goes only after its page or failure (`ServesRequest`), and a room that has its page is not touched again.

### BearerWarnings

`clock` counts ticks, `Day` of them a day. `row[k]` is `last_warn_at`, `call[t]` a request with the time it took at its beginning (`now`) and what it read (`saw`): `read` (clean-up, then the row), `update` or `insert`, then `log`, which comes after the commit. Two insertions of one row conflict, the second reads again (`Insert` is that step); an update writes over whatever was committed since. Requests with wrong or expired tokens change nothing and are left out. Deleted rows are gone for others as soon as the reading step is done although its transaction is still open; a rollback would bring a row back, which belongs to a token that has expired and is not asked for again.

| Run | Instance | Shows |
|---|---|---|
| `WarnedDaily` | 3 requests at a time, one token in use throughout and one that expires and is cleaned up, one failing transaction or crash, two and a half days | type, `DailyUnlessOverlapping`, `SilenceExplained` |

`DailyUnlessOverlapping` is what remains of "at most one warning in 24 hours": two warnings closer than `Day - Lag` both followed the same earlier warning, in transactions that overlapped. `Day - Lag` is tight, since the time is taken before the transaction and a slow request can write an older time over a newer one. Bounds: three requests, because the third can find what two racing ones left; `Day` 3 and `Lag` 1 so that a request is much shorter than a day and not instantaneous. No liveness: a request that comes is answered, and whether any comes is up to Jira.

Proved (`BearerWarningsProofs`, for any tokens, threads, windows and durations): `WarningsTyped`, `WarnedOncePerDay` (each warning, logged or on its way, is compatible with each other one and near the time in the row, `ClaimInv`) and `SilencesExplained` (every time in the table is that of a warning, `RowsExplained`).

## Checked only, not proved

Liveness (`Decided`, `StoredAckIsTold`, `FollowersConverge`, `SettledRowsCatchUp`, `HeardAgain`, `OncePerDeployment`, `NewcomersAreAdded`, `RacesEnd`, `Answered`) and everything about ENABLED is outside the prover's reach and is checked by TLC on the instances above. A recursive definition occurs in none of the modules, so nothing is left out for that reason. Every other invariant, action property and refinement of the passing runs is a theorem; the theorems rest on the named assumptions about the constants and on nothing else; these say which sets the constants are taken from, and none of them how long a lease or a task lasts, how clocks differ, which short ids repeat or what a search finds.

## Known divergences

Two are runs that are expected to fail, `LateWorker` and `EarlyAck`. The following were met while modelling; each formula named is stated in its module and does not hold.

- `AdminLogLevel.WorkersStayInSync`: `docs/admin-log-level.md:12` says that workers stay in sync. The poller sets its last state before the root level and the POST handler the other way round, so a poll overtaken by a POST in the same process leaves it at the old level, and no later poll corrects that.
- `AdminLogLevel.EveryRequestOnce`: `thaum/admin_models.py:18` promises single-use nonces for signed POSTs. A client's clock may be ahead by up to `clock_skew_seconds` (300 by default), and the nonce of such a request expires before the request does: after `clock_skew_seconds + 120 s` from its acceptance a copy is stored again.
- Following the row needs `log_state_poll_seconds`, which `types.py:231` leaves at 0: without it no process polls, and only the one that served the POST has the new level. `FollowersConverge` and `WorkersStayInSync` speak of processes that poll.
- `DatabaseKeys.OneActiveKey`: `database_crypto.py:99` treats two active keys as a fault of the table. Two leaders whose rotations overlap may leave them, as far as this repository shows; nothing repairs that, and every process that starts afterwards is ended.
- `DatabaseKeys.RowsCatchUp`: only the process that rotates switches to the new key; a later leader writes rows again under the key it loaded at its start.
- `TeamCache.FreshMeansAsked`: `refresh_team_cache` stores a team without members under the present time although the comment says that the first use looks members up; a process that starts then invites nobody for four hours, and `cache_team` deletes the members another process had stored. It heals (`NewcomersAreAdded`).
- `lookup/plugins/atlassian.py:289`, `ldap_ad.py:547`: a member of a responder team whose email is not visible is left out of every look-up and never invited; the Jira plugin logs it, the LDAP one does not (`UsersFetched`).
- `alerts/base.py:127`, `payload.py:118`: short ids are drawn without memory and the alias does not name the bot; two alerts that drew the same id on one day share their alias, and an ack by an id that was drawn before may reach the earlier alert (`Namesakes`, `AckHitsItsAlert`).
- `alerts/webhook_bearer.py:270-276` promises at most one warning per token in 24 hours. Requests that overlap read the same row and both warn (`DailyUnlessOverlapping` says what is left).
- `lookup/plugins/atlassian.py:343`: without a user that shows the address, the first user of the search is stored as the person, whoever it is (`guessed` in `PersonCache`).
- `bots/plugins/webex_bot.py:369`: one failing call stores the sender under a made-up email, and since the id is then in the cache, Webex is never asked again; `NeverForgets` is what makes it last.
- `thaum/handlers.py:257`: a request whose summary has more than one line is dropped without an answer.
- `thaum/handlers.py:328`: a card shown by an earlier deployment may ask for high priority that the present one does not have, and is served with it.

## Not modelled

Configuration, plugin loading, connection profiles and deployment scripts are sequential and over before any shared state exists. Parsing, templates, payloads, HMAC and token comparison are pure functions of their input. Of smaller things that the modules leave out, because they would need a state no property here is about: names of teams are matched fuzzily (`lookup/base.py:342`) and responders resolved once, at the start (`thaum/factory.py:50`); imploding a room that is gone raises and ends the call (`webex_bot.py:347`, the same as ending it); the week after which a name may be renewed; several bots sharing one maintenance task (`webex_bot.py:587`), where an exception of one ends the task before the others are looked after.

## Plan

1. Written: bootstrap and barrier, Jira alerts, log level, database keys and secret store, webhooks, team and person caches, incident rooms, bearer warnings, with proofs of all safety properties of the runs.
2. `LeaderMaintenance`: order and schedule of several tasks and several bots, with a lease that expires between two of them; then `IncidentRooms` and `JiraAlerts` composed at the alert.
3. A theorem that composes `WiringNeverEndsAProcess` with the key invariants of `DatabaseKeys`.
