# TLA+ specifications of gg-scale

gg-scale is a multi-tenant backend for online games: one Go server process
(`cmd/ggscale-server`), replicated behind a load balancer, over one PostgreSQL
database. Replicas share nothing but the database; what a replica keeps in memory
(sockets, counters, in-flight maps, leases) is lost when it stops.

This directory holds specifications of the parts in which several processes,
goroutines, clients and clocks meet, the model-checking runs over them, and proofs.
`PROJECT.json` lists components, runs, the correspondence of definitions to source
lines, hazards, findings and theorems.

## 1. Inventory

| part (`internal/...`) | state it keeps | operations | talks to | what is hard |
|---|---|---|---|---|
| `lifecycle`, `realtime/drain.go` | controller state, gate flag and counters, open sockets | MarkReady, Drain, Resume, Shutdown, Enter/Leave, track, CloseAll | HTTP handlers, `main`'s SIGTERM path | lock-free admission against a drain; sockets that open during CloseAll |
| `matchmaker` queue (`pgqueue.go`, `party_entries.go`, SQL) | tickets, entries, claims with leases, attempts, matches | Enqueue, Cancel, ClaimBucket, CommitMatch, Return/ReleaseTickets, SweepStaleClaims | worker, party, players | two-phase claims of several processes; crashes; leases that lapse under a live worker |
| `matchmaker` worker (`worker.go`) | event channel, in-flight map | listener, tick, drain, consumers, housekeeping | queue, NOTIFY, fleet, game sessions | lost and coalesced wakeups, full channel, shutdown |
| `matchmaker/groups.go` | none (a pure function of a claim) | formGroups | worker | sizes, multiples, whole parties, pairwise agreement, widening |
| `fleet`, `jobs/matchmaker_gc.go`, `jobs/matchmaker_resolutions.go` | allocation rows, resolution rows, match rows, servers in the backend | Allocate, Deallocate, commit, claim, retention job | worker, Agones or a plugin, polls | nothing is atomic across database and backend |
| `party` | parties, members, readiness, deadlines, codes, invites | create, update, ready, queue, cancel, remove, invite, join, heartbeat, sweep | queue, realtime events, clients with old copies | optimistic versions, two clocks, exclusion with solo queueing |
| `ratelimit` connection cap | per-process leased grants, database totals | Acquire, Release, renew, reclaim, sweep | realtime | leases against lost answers and late renewals |
| `realtime` hub, relay and slots | registered sockets, relay queue, slot counters | register, replace, send, relay, heartbeat | party, matchmaker, `cache` | a writer that leaves an empty queue, counters with a time to live |
| `httpapi/realtime_lifecycle.go` | verdicts on open sockets, the sweeper goroutine | register, sweep, revalidate | realtime, tenants, players | revocations while the database fails, the sweeper's exit |
| `gamesession`, `httpapi/game_session*.go` | sessions, peers, invites, signals | create, join, leave, heartbeat, signal, poll, sweep | matchmaker | capacity under concurrent joins, heartbeats against the sweep, rate limits |
| `relay`, `relaymeter`, `relaynode` | TURN allocations, budgets, monthly usage, nodes | allocate, close, issue, register, probe, select | lifecycle gate, jobs | counters under double closes, probes out of order, stale caches |
| `fleet/plugin` | subprocess, restart count, ping failures | watch, restart, ping, Close | fleet manager | Close against a restart |
| `httpapi/auth*.go` | sessions, reset codes, players, deletion requests | sign-in, refresh, revoke, reset, create, delete, purge | jobs, control panel | one-time use, quota and purge under concurrency |
| `httpapi/storage.go`, `quota` | objects with versions, byte counter | put, delete, purge | HTTP | check-then-write on quota and version |
| `httpapi/leaderboards.go`, `period`, `jobs/leaderboard_period.go` | board, entries, archived periods | submit, reset, edit, delete | HTTP, jobs, `projectadmin` | a submission across a reset or an edit |
| `httpapi/friends.go`, `players/friends.go` | friend edges | request, answer, remove, block | parties, invites | a block of two statements |
| `players` (portal), `twofactor`, `sso` | account row, codes, links, providers, secrets | sign-up, confirm, sign-in, reset, unlink, verify | mail | a failed mail restores an older code; codes presented twice |
| `controlpanel`, `jobs/tenant_signup_expiry.go` | admins, invitations, sign-ups, tier requests | disable, invite, accept, approve, deny, sweep | operators | decisions on rows that were read before |
| `entitlement`, `rbac` grant cache | a tenant's class and features, cached grants | PUT, grant, approve, FeatureEnabled | billing service, operators | overlapping writers, a cache with a lifetime |
| `cache`, `ratelimit` buckets | TTL store, token buckets | slots, buckets, get/set | everyone | expiry of a counter in use |
| `mcp`, `billing`, `auditlog`, `mailer`, `serverlist` | little of their own | calls, tokens, mails | everyone | none of their own |
| `db`, `migrate`, `config`, `observability`, `webutil`, ... | pools, schema, settings | plumbing | everyone | none of their own |

What makes the core correct:

* lifecycle: a drain never misses admitted work; no socket escapes CloseAll; an exiting
  process does not come back; SIGTERM always ends.
* queue: a party is never split; a ticket is in at most one match and the roster is
  exact; outcomes are final; a lease is respected; nothing stays claimed for ever.
* worker pool: one run per bucket, no lost wakeup, everything formable runs.
* group formation: whole entries, pairwise agreement, admissible sizes, nobody left over
  who could have been placed, the own region first.
* fleet: a match that is handed out has its server; no server is leaked.
* party: the queue holds exactly the present members; readiness and versions mean what
  clients think; a player is in one place; an open party has a leader.
* limits (sessions, players, storage, connections, slots, allocations, relay sessions, signals,
  wrong codes): concurrent requests that each pass a check never exceed the limit together.
* one-time things (refresh tokens, second-factor codes, reset codes and links, invitations,
  sign-ups): spent once, and only while they are live.
* decisions (a block, a suspension, a cancelled deletion, a disabled admin, an approved tier, a
  granted feature, a ban): they stand, and take effect in a bounded time.
* history (archived periods, released rows): it does not change afterwards.

## 2. Modules and how they correspond to the code

Common conventions. A database transaction is one step when its row locks serialise it
with every other writer of the same rows; where they do not, it is several steps (Party's
joins, FleetMatch's calls). Work between transactions (backend calls, local computation,
channel operations, single atomics) is steps of its own. A crash stops an actor between
any two of its steps. A clock is modelled by the events that matter to the code: an
expiry, a lease or a deadline passes at an arbitrary moment. Strings, payloads, metrics
and logging are left out. Definitions whose comment says what they leave out
(`ReleaseUncapped`, `AfterLossKeepsLeader`, ...) are deliberately wrong variants used to
show that a property notices the mistake; no specification uses them.

**Lifecycle** (`lifecycle/gate.go`, `lifecycle/lifecycle.go`, `realtime/drain.go`,
`httpapi/lifecycle.go`, `drainRealtime` of `main.go`). Variables are the Controller's
fields, the Gate's flag and counter, each upgrade handler's position, and main's position
on the SIGTERM path. A critical section of the Controller's mutex is one step. `Enter` is
three steps (raise the count, read the flag, lower it when refused), and `ActiveWork` reads
its two counters in two steps, because the Gate uses atomics only.

**MatchQueue** (`matchmaker/pgqueue.go`, `party_entries.go`, `db/queries/matchmaker.sql`,
the pass of `worker.go`). `status`, `claim`, `attempts`, `matchOf`, `entry` are columns;
`lapsed` and `expired` are what the clock has passed; `worker` is `processBucket`'s local
state. `settleEntries` is modelled statement by statement (`SettledEntries`, then `Spreads`
over the rows the first statement changed), since its scope (one group, or all for the
sweep) decides what it repairs. `CommitAnswerLost` is a commit that took effect and
reported an error.

**MatchBoard** is the abstract promise: entries wait, are matched whole with others, or
drop out with a final outcome. `MatchQueue!ImplementsBoard` is the refinement.

**ConsumerPool** (`worker.go`: `Run`, `runListener`, `drain`, `runConsumer`,
`consumeEvent`, `tryAcquire`, `finish`). A bucket's queue is a number of tickets. `missed`
records the cases in which the code itself leaves a bucket to the ticker (an event dropped
at a full channel, a lost NOTIFY, a full batch, a failed backend), so that `NoLostWakeup`
can say that there are no others.

**GroupFormation** (`groups.go`). A step is a seed of `formGroups` (passed over, or the
beginning of a group), one candidate of `fillGroup`'s loop (skipped or joined with its entry),
the end of that loop, or the cut of the filled group to its largest valid size; `pass`,
`cursor` and `group` are the loop's locals. A claim is an initial state: which ticket belongs to which
entry, each entry's criteria, the pairs that the queries reject, and how many of the oldest
tickets are past each of the two ages. Entries enqueued at the same instant may lie interleaved in
the pool, since the order is by `created_at` and then by id.

**FleetMatch** (`commitFleetAllocation` and what follows in `worker.go`, `fleet/manager.go`,
`fleet/store.go`, the Agones backend by its effect, `jobs/matchmaker_gc.go`,
`jobs/matchmaker_resolutions.go`, the polling handler). One element of `Matches` is one
pass with its match id, which is also its resolution id and label. `running` is the
backend's truth, `alloc`/`ref`/`resolution`/`row` the database's. Three flags select the
environment: the backend can clean up by label (`Cleaner`), a transaction may take effect
and report an error (`LostAnswers`), a pass may be running when its match expires
(`Straddle`). A worker that delivers a match sends the address first (`Notify`, `handed`) and
records the claim in a second step that may fail or never run (`ClaimDelivered`, `served`).

**Party** (`party/*.go`, the trigger of migration 0046, `settleEntries`' party update).
Clients act on the copy `seen` they last read and send its version. `dbGone` and `appGone`
are the members whose deadline has passed by the database's clock and by the server's;
with `Skew` they may differ. Joining and solo queueing exclude each other by an advisory
lock on the player, so each is two steps (lock and check; write and commit).

**PartyCodes** (`party/invites.go`). The two failure windows of JoinCode as transactions that
lock the address's row, then the player's, with `now()` taken when the transaction began. `wrong` is
history: the ages of the codes that were examined, each in a numbered place. A failure that opens a new window
does not block, so with a budget of 1, which the configuration accepts, a window takes two (`Windowful`).

**ConnectionCap** (`ratelimit/leased_connection_cap.go`, `postgres_connection_cap.go`,
`jobs/connection_grant_gc.go`). `local` is what a process believes, `grant` the database's row.
Acquire and Release hold the grant's mutex across their call (one step); a renewal reads, stores
and applies in three. `Unheard` are the processes whose call may take effect and report an error.

**RealtimeRelay** (`realtime/hub.go`, `relay.go`, registration in `server.go`): one player's
sockets on one host, the relay queue and the goroutine that drains it. **PlayerSlots**
(`realtime/server.go`, `cache/memory`): the counter with a time to live behind the per-player
socket limit, in ticks. **SocketSweep** (`httpapi/realtime_lifecycle.go`): one sweeper goroutine,
its start and exit against registrations, verdicts, and the heartbeat that gives a socket up.

**GameSession** (`gamesession`, `httpapi/game_session.go`, `gameinvite.go`,
`jobs/game_session_gc.go`): one session in full, the others of the project as a number.
**SessionSignals** (`httpapi/game_session_signal.go`): sends that draw an id, commit later and
count against a rate; polls with a cursor.

**RelayNodes** (`relaynode`, `jobs/relay_node_probe.go`), **RelayAllocations** (`relay`),
**RelayMeter** (`relaymeter`): which nodes credentials advertise, what a node lets in and gives
back, what a tenant may issue in a month; `RelayAccountsSound` is what the last two promise together. The clock
of RelayNodes lets no probe outlast `ProbeInterval`, which is the timeout of the River job
(`jobs/relay_node_probe.go:53-55`). The in-process fallback `Monitor.Run` (`relaynode/probe.go:199-212`, wired at
`main.go:592-597`) has no such timeout from its listing to its last record, so `AdvertisedAreFresh` is about
deployments that run the job. RelayAllocations passes the gate in one step, which Lifecycle's theorem
justifies, and leaves out the refusal of a user id that does not parse (`allocation_request.go:88-91`): it gives
back what it took like any other refusal.

**PluginSupervisor** (`fleet/plugin/supervisor.go`): watcher, pinger and Close over the mutex, the
atomic restart counter and the done channel, each access a step where another goroutine could come between;
Close's critical section and its closing of the channel are one (`CloseBegin`), as nobody who waits for the channel
can act between them. **ManualServers**
(`controlpanel/allocations.go`, `fleets.go` over `fleet/manager.go`): servers that no match
stands behind.

**PlayerSessions** and **PlayerRegistry** (`httpapi/auth*.go`, `players/*.go`,
`controlpanel/players.go`, `jobs/player_delete_purge.go`): refresh rotation, revocation by
snapshot and reset codes; creation against the quota, suspension, deletion and its purge.

**PlayerStorage** (`httpapi/storage.go`), **Leaderboard** (`httpapi/leaderboards.go`,
`projectadmin/leaderboards.go`, `jobs/leaderboard_period.go`), **Friends** (`httpapi/friends.go`,
`players/friends.go`): rows with the locks their statements take. A statement that waits for a
lock is a guard of the step that takes it. A block of Friends is three steps: two deletes, each with a snapshot of
its own, and the write with the commit; a delete that finds no row locks nothing.

**AccountVerification**, **AccountAccess** (`players/account.go`, `account_password_reset.go`,
`sso.go`) and **TwoFactor** (`twofactor`, its two stores): one account, with requests that read,
wait and write. A reset is four steps: the link is consumed; the password is set and the sessions are
revoked, under the lock of the account's row; the burning statement takes its snapshot of the links; it waits for those others
hold and commits. Two replacements of backup codes may each miss what the other inserts, so both sets may stay
(`ReplaceSpares`). `SpendReplayed` merges the refused update of the last step with the reset of the attempts after
it, and Operators' `CreateInvite` the check of the actor's session with the insert: nothing a property looks at lies
between.

**Operators** (`controlpanel/users_admin.go`, `accept_invite.go`, `team.go`), **TenantRequests**
(`signup_requests.go`, `change_requests.go`, `settings.go`, `jobs/tenant_signup_expiry.go`) and
**Entitlements** (`entitlement`, `settings.go`, `change_requests.go`, `rbac`'s `FeatureEnabled`):
decisions of admins and of the billing service about tenants.

How they compose. MatchQueue, ConsumerPool, GroupFormation, FleetMatch and Party look at
one pipeline from five sides. ConsumerPool decides when a pass runs; MatchQueue takes any
split of a claim into whole entries as possible groups (GroupFormation's
`GroupsPartition` is the fact that justifies it); FleetMatch follows one group from there
and takes what happens to its tickets as an arbitrary drift; Party takes `Settle` from the
queue and gives it `QueueParty` and `CancelParty`; GameSession has the session that a match
without a server creates. The remaining modules meet only through rows that one of them owns.
`MCFleets`, `MCServices`, `MCAccounts`, and for liveness `MCProgress` and `MCSettle`, therefore host several modules
in one run: the first state chooses one of them (`focus`), and only that one moves (two modules with equal names are
hosted through INSTANCE with the names substituted). What a statement would read of
another module's rows is left open in its own module (who may invite whom, whether a tenant is
enabled), so the product would add states and no behaviours. The purge of a player is the
exception: it is in PlayerRegistry (the row) and in PlayerStorage (the objects).

## 3. Runs

| run | instance | distinct states | shows |
|---|---|---|---|
| `progress` | three upgrades, plain requests, operator calls and SIGTERM; two consumers, one bucket, a channel of two places, groups of two; two players who invite each other, solo queueing, two clocks | 112k | a drain misses no admitted work, no socket escapes CloseAll, SIGTERM ends with clients that never leave (Lifecycle); runs of a bucket are serialised, no wakeup is lost, a formable group is run (ConsumerPool); lost members leave (Party) |
| `settle` | one worker that may die for ever, one claim, a player who queues a second time, lost answers; one pass with a retry and lost answers, beside a match another pass committed for the same player | 138k | claims end, expired tickets leave, entries settle (MatchQueue); orphans are reclaimed, records go (FleetMatch) |
| `queue_safety` | a party of two, a solo player, two workers, three claims | 587k | rosters are exact, claims are of waiting entries, failures have a cause, leases are respected; the queue refines MatchBoard |
| `party_versions` | three players who may invite each other, a code of two uses, solo queueing, two kinds of settings | 871k | the queue holds parties whole and players once; members are informed |
| `fleets` | two passes sharing a capped player; a cap of two processes; one relay node; three allocations; a meter; four launches of a plugin | 1.8M | a match that was claimed, or was delivered and has not expired, has its server, and what runs is tracked (FleetMatch); grants are backed and the ceiling holds (ConnectionCap); advertised nodes are fresh (RelayNodes); counts are what is carried (RelayAllocations, RelayMeter); one plugin, and none after Close (PluginSupervisor) |
| `services` | the ten modules of MCServices, each with two or three requests at once | 1.4M | `SessionsSound`, `SignalsSound`, `PeriodsSound`, `StorageSound`, `PlayersSound`, `SlotsBacked`, `SweepSound`, `ManualSound`, `EntitlementsSound`, `AttemptsSound` |
| `accounts` | claims of four tickets in five layouts; the eight other modules of MCAccounts with two or three requests at once | 1.9M | `GroupsSound`, `BlockHolds`, `RelaySound`, `SignInsSound`, `CodesSpentOnce`, `AdminsSound`, `RequestsSound`, `NewestCodeWorks`, `AccessSound` |

A property that is named ...Sound is a conjunction of named parts, each with its own comment, that
are about one promise. An action property states its invariants of the state after a step, which,
with initial states that satisfy them, says the same of every state.

Five further runs are expected to find a violation, each of what a comment in the code says:

* `fleet_lost_answer`: "releases a server whose tickets never committed"
  (`worker.go:766`). A commit whose answer is lost is discarded too: matched players, no server.
* `session_lockout`: "the private session admits exactly the matched players"
  (`gamesession/adapter.go:29-30`). A player's pre-seeded row that has not been seen for 30 seconds
  is dropped by the first heartbeat of another player (`httpapi/game_session.go:649`), and its
  player is then refused.
* `friend_crossing`: "clear the reverse edge so a blocked pair shares no accepted/pending state"
  (`httpapi/friends.go:324-325`). A request past its gate writes its row after the block's deletes, or an accept falls
  between them: an edge stays next to the block. What does hold is that the block itself stands (`BlockHolds`).
* `crowded_sweep`: "the bounded grace in check() closes the tenant's sockets if the state stays unverifiable"
  (`realtime_lifecycle.go:163-165`). The sweeper visits tenants one after the other, each for at most its timeout, and
  the grace is four intervals for any number of them. With three tenants, slow sweeps of two cost the third its sockets.
  What does hold for any number is that a round of slow tenants costs no more than their timeouts
  (`VerifiedInTime`, a part of `SweepSound`).
* `code_budget`: "a player gets PlayerFailures within Cooldown before both are blocked" (`party/store.go:22-24`, also
  `config.go:148-153` and `.env.example:414-416`). Windows do not slide: up to 2N-1 wrong codes fit into one cooldown
  (two with a budget of 1). What does hold, however requests overlap, is that bound (`AttemptsSound`).

### Remarks without a run

Comments that turned out weaker than they read, and limits of what the properties say:

* Matchmaking. "The group is oldest-first" (`worker.go:742-744`): an older ticket that could not seed
  a group joins a younger seed's group behind it. "The next tick or notify will pick it up"
  (`worker.go:252-254`): the drain offers buckets in one order, so with a full channel at each tick
  the same later bucket may be dropped again and again. "Keep a tombstone for delayed writes from an
  interrupted backend call" (`matchmaker_resolutions.go:91`): it only leads to allocation rows that have
  not been released, and the first sweep released the row of a call that is still under way.
* Parties. "Sweep drops members whose persisted grace deadline has elapsed" (`presence.go:11-12`):
  candidates are chosen by the database's clock and dropped by the server's; when the latter is
  behind, a party leaves the queue and nobody is dropped. "The heartbeat still returns the party if an
  event is lost" (`events.go:14-15`): a heartbeat carries a version and is refused when it is old.
* Leaderboards. `projectadmin/leaderboards.go:156-159` expects that a submission may race the check of an
  edit; the lock of the board excludes it (`OneOrder`).
* Storage. The counter "cannot drift from the object rows" (`httpapi/storage.go:225-228`): the purge of a
  player removes the objects by cascade and leaves the counter as it was. So the counter may exceed what is
  stored, never the reverse, and `StorageWithinQuota` says that.
* Fleet matches. A delivered match whose claim failed (`worker.go:806-810` logs and returns) or never ran, because the
  worker died, looks unclaimed: once it has expired, the retention job releases the server its players were sent to.
  `MatchHasServer` says that it keeps it until then.
* Game sessions. A heartbeat extends by the `now()` of its transaction's start (`game_session.go:622-654`); the model extends
  at its commit, a difference of milliseconds that `late` does not excuse.
* Signals. The cursor of a poll can pass a lower id that commits later: `SkippedForCause` says that this
  takes two senders.
* Servers by hand. A row without a reference cannot be deallocated, a failed row keeps a server that a
  failed call created, and a cancelled request leaves its row pending: `ManualSound` excuses failed calls.
* Accounts. A wrong verification code rolls back the attempt it reserved, so `MaxAttempts` is not reached
  in `confirmAccountCode`. An accepted plain invitation may race one that links the same player. A reset burns "every
  other outstanding link" (`account_password_reset.go:113-116`) of its statement's snapshot: one mailed between that
  statement and the commit stays live, and `LinksCurrent` counts it as mailed after the reset.
* Admins. "You can't disable the last enabled platform admin." (`users_admin.go:198`, the error at `23`): a disable looks
  first whether its target is an admin and counts only then. A target that accepts an admin's invitation after that look
  is disabled uncounted, and may be the last one; `AdminRemains` excuses those (`promoted`).
* Backup codes. `internal/db/queries/control_panel_totp.sql:33` says that they cascade with the credential row; the schema
  has them refer to the user, and the model follows the schema.
* Entitlements. Overlapping PUTs may leave a mix of both: `AppliesReachDesired` states what each one still
  reaches.
* Caches of limits (`storagelimit/cached.go`, `ratelimit/overrides.go`): a fill that began before a change
  may store the old value after the change dropped it, for one lifetime.

### Bounds and why they are enough

* Lifecycle: handlers share only counters and flags; two can race each other and the drain,
  three include one that is refused. Handlers repeat without end, and safety and liveness are
  checked on the same instance.
* MatchQueue: `MaxClaims = 3` lets a claim lapse, be swept, and its tickets be claimed by the
  other worker while the first is still at work, with one claim left for a third party;
  `MaxAttempts = 2` reaches the cap once early and once late. A party of two and one solo
  ticket make split parties and mixed groups visible. Larger values are the proofs' business.
* ConsumerPool: `inflight` and the claims are per bucket, so one bucket shows what two consumers
  can do to each other; a channel of two places is soon full; groups of two out of four tickets
  show split claims.
* GroupFormation: four tickets allow two groups, a left-over, a party in every position, two parties
  interleaved. The theorem has any number.
* FleetMatch: passes share only the cap and the retention job, so two passes suffice for
  safety. For liveness one pass is followed from its beginning, and the other has committed its match
  (a state of the module, `OtherCommitted`), which is all the first can meet of it.
  `settle` takes `Straddle = FALSE` (no call outlives its
  match): a server that a call brings up after the first sweep is the case noted above.
* Party: `MaxVersion` bounds what players write. The matchmaker, the sweep and a join that
  has begun go on beyond it (they are limited by what players did), so no behaviour is cut
  short in the middle. With a code of two uses, eight versions let three members join, all get
  ready and queue. The instance in `progress` has two players and four versions, enough to form a party, have it queue and
  lose a member of it.
* Modules of MCServices and MCAccounts: their races are between two requests, or a request and a
  job, over one row; two requests of a kind are given, three where a third can profit from what two
  did (slots, sessions, signals), and every limit is small enough to be reached: a session
  of two for three players, two players for three ids, a quota of three bytes for writes of one and two,
  a queue of two frames for three. Bounds that count (`MaxWrites`, `MaxTokens`, `LastPeriod`, `Horizon`,
  `MaxLaunches`, ...) leave room for one round that goes wrong and one after it.
* Clocks in ticks (PlayerSlots, SocketSweep, RelayNodes, PartyCodes, SessionSignals, Entitlements): the code's
  intervals keep their proportions, and every time is kept as its distance from the present where
  the module has no bound on the clock, so the runs are of unbounded length. PartyCodes has a budget of one
  and a budget of two, so that both bounds of `AttemptsSound` are met exactly; SocketSweep two tenants, so that two rounds fit into
  the grace, and three in `crowded_sweep`, so that they do not.

Symmetry is over identities that nothing orders (tickets of one party, workers, passes,
players) and is used in safety runs only (`queue_safety`, `fleets`, `party_versions`). `Promoted` chooses by the
version a member joined at, and no two members of a party joined at one version. The view
`Essential` of MCParty leaves out copies whose version is no longer current: versions only
grow, so such a copy can never again be sent with success, and no invariant looks at it. It also leaves
out what no step and no invariant reads: the rest of a copy a member agreed to, and the codes and invites of a party that has used up
`MaxVersion`.
Deadlock is not checked where the system may stop: in runs whose bounds run out, after
cancellation, when a claim has been split into groups, and when no request is left.

### Fairness

* Lifecycle: main's goroutine runs and its timers fire; an elapsed timeout in a `select`
  that is evaluated again and again is taken at some point (strong fairness); handlers of
  closed sockets return. Nothing makes clients leave or requests end.
* MatchQueue: the housekeeping goroutine sweeps on a ticker, and leases run out. Workers may
  die and never return.
* ConsumerPool: the ticker, the drain loop and consumers run. Notifications may all be lost
  and backends may always fail.
* FleetMatch: a worker runs until it returns or dies, calls end, time passes, River keeps
  running the job, and the job does not fail for ever. In `settle` it is asked for where the matches are what moves.
* Party: a transaction that began ends; the sweep, which every `ListReadyBuckets` runs, finds a
  party that is unlocked again and again (strong fairness, for `SKIP LOCKED`); a deadline
  that has passed on the database's clock passes on the server's too, some time later.

The modules in ticks state bounded response as an invariant and need no fairness: what a timeout
or a ticker of the code bounds, the clock waits for (`PlayerSlots`, `SocketSweep`, `RelayNodes`,
`PartyCodes`, `Entitlements`). Each header says which timeouts these are.

## 4. Proofs

All theorems hold for every value of the constants that satisfies the modules' assumptions. The
bounds of the runs (`MaxWrites`, `Horizon`, ...) are such constants, so the theorems are about any
number of requests, users, sockets, processes and ticks. Every safety property that a passing run checks is a
theorem. Each was first checked by TLC together with the inductive invariant it needs.

Most promises here are about requests that read, wait and write. They are not inductive: nothing in them says
that what a request under way has in hand is still true of the rows. The strengthening is nearly always that
account, and its form shows what the code relies on: a lock that makes what was read stay true
(`SubmitsCurrent`, `OneUnlinks`, `LockHeld`), a version or a condition in the write that refuses what
changed (`PutsHold`, `Versioned`), or an age that bounds how old it can be (`ReadsLately`, `AgeBound`).

Sums are out of the provers' reach, as they need induction over the terms. Where the code keeps one, the
model counts numbered things instead, a set of pairs of an owner and a number: permits (ConnectionCap), bytes
(PlayerStorage), examined codes (PartyCodes). Cardinalities of those have library theorems.

**LifecycleProofs.** `IInv` adds to the properties: the counter is exactly the number of
handlers between `Enter`'s first step and `Leave` (`CountExact`); past the first critical
section of Shutdown the process is exiting (`ExitHeld`); a zero sampled after the flag was set
means that no handler is past the gate (`ZeroSampleIsIdle`); and the closing flag covers
sockets that are not in the set yet (`ClosingSet`). The counter's exactness needs cardinality
facts about the finite set of handlers. `DrainSound`, `GateSound`, `CloseAllSound` follow, and
`ExitIsFinal` as an action property.

**MatchQueueProofs.** `IInv` conjoins the queue's invariants, which need each other: that a
claim is of whole entries needs that entries are uniform, and uniformity is kept by
`settleEntries` only because the entry row follows its tickets. `BelowCap` (a waiting ticket has
an attempt left) and `WorkerSound` (a working pass holds a minted claim) complete it. Lemmas
state what charging, settling and expiring do to a set of whole entries, once, and each action
cites them. `QueueImplementsBoard` shows that every step is a step of MatchBoard or stutters
under the mapping (outcome of an entry, entries of a roster).

**FleetMatchProofs.** `IInv` says what each step of a worker and of the job implies about the
rows (`StepsSound`, `JobSound`) next to `WorkIsTracked`; it holds with lost answers.
`ServersOutliveMatches` adds `ServerSound` and assumes `~LostAnswers`: the run
`fleet_lost_answer` shows that it needs to. It is about claims that are recorded and, until the expiry, about
matches that were delivered: the worker may die between the two.

**AccountProofs.** The newest code works because codes under way are pairwise different and the newest one is in
the row until it is delivered (`SendsApart`). An admin remains because the disable that counted
holds locks on two enabled admins at least and is the only one (`OneLocks`). An account keeps a sign-in
because an unlink that counted stays right (`OneUnlinks`), and old sessions are worth nothing because the
epoch counts exactly what ends them (`EpochsCount`). A link that works is newer than the last burning because that took every
link its snapshot had, and waited for those that others were following (`LinksKnown`). A second-factor code is accepted once because every
accepted one is at or before the last step used (`AppOnce`) and a secret is nobody's old one
(`SecretsNew`). One tenant per sign-up rests on `LooksLast`: an accept still sees its request as it read it,
or as decided.

The pass of the matchmaker is in the same module. `GroupsHold` is the whole of `GroupsSound`, for any number of
tickets, any entries, criteria and rejections. Its invariant `GroupsInv` follows the loops. A group being filled
begins with its seed's own entry, is of whole unused entries that go together pairwise, and no member finds it too
large (`FillingSound`); `wholeEntryPrefix` and `validSize` carry that over to the cut. Behind the
seed nobody is left who would be a group by itself (`LeftoversSeen`), as the largest valid prefix is at least the
seed's own entry. Region-mates come first in the group, and the second loop begins when no more of them
can be had (`RegionsInOrder`). Over a pool of equals the groups are full and take the front, or the sizes are
decided and the rest is too small (`EqualsInOrder`). What a listing of an entry, the joint maximum and the
largest valid size are is proved from the least-number principle (`WFMin` of the library, about a set), which needs no
induction with an operator as parameter.

**PlayerProofs.** Friends: what a block deleted stays pending or accepted until it commits (`LocksKept`), so no commit of a
block takes away the other's. RealtimeRelay: the map has a
queue exactly as long as a goroutine serves it (`QueueServed`), and the places a frame can be in continue each
other (`FramesLineUp`). PlayerSessions: a rotated token has one successor that can be named (`RotatedOnce`).
ConnectionCap: a valid grant has its live row with the same size, but for processes that lost an answer
(`Backed`), and live rows fit under one ceiling while no lease ended under open sockets (`RowsHold`).
PlayerStorage: one put at a time (`OnePut`) whose verdict stays true beside deletes (`PutsChecked`), and
versions that grow with every write (`Versioned`), which gives no lost update as an action property.

**PartyProofs.** `PartyInv` adds to both promises the advisory locks (`LocksHeld`), that copies are of
existing rows and never ahead of them (`CopiesBehind`), and that nobody is ready for a party it is not in (`Unready`).
`AttemptsHold` is about the windows of wrong codes: `WindowSound` splits what is remembered of a subject into
what the open window counts and less than one budget from before it, and says that a full window's block outlasts all
of it. Budgets are at least one, as in the code. A request that holds a row found it open and still does (`LockSound`), also by the older `now()` of its
transaction.

**ServiceProofs.** Leaderboard, PlayerRegistry, GameSession and ManualServers: accounts of requests under way,
as above; GameSession's is of the one join that holds the session's row (`JoinHolds`). Entitlements: each PUT
is right but for what others changed since (`PutHolds`), and the cache's age bounds what a check can answer.
PlayerSlots: the age of the counter is bounded for every stage a connection can be in (`AgeBound`), which is why three
heartbeats of TTL are enough. SessionSignals: the rate lock admits one insert of a sender, and no more was
committed since it counted (`LockHeld`). SocketSweep in two theorems: `RevokedSocketsClose` (how long a revoked
session can keep its socket, and that a sweeper runs while there are sockets) for any grace and any tenants, and
`SweepsInTime`, the whole of `SweepSound`, for any finite number of tenants: `OnTime` says that a socket without a verdict has
time, out of two rounds, for the rest of the round under way, the ticker and one more round. It has no condition on the
grace: whether two rounds fit into it is what `crowded_sweep` answers.

**ProcessProofs.** ConsumerPool: a bucket that can form a group has an event, a rerun mark, a notice or a
recorded miss, or a run that is going to see it (`Settled`). PluginSupervisor: nothing runs but the current plugin,
the successor being adopted, or what Close took over (`RestartAlone`, `CloseTakesOver`). RelayNodes: rows, probes,
reads and the cache are each as old as their stage allows, and the ages add up (`RowsLately`, `ProbesLately`,
`ReadsLately`, `CacheLately`). RelayMeter: a warning is claimed once (`ClaimedOnce`) and the row counts what
was issued (`RowCounts`). RelayAllocations: each counter is the cardinality of those who have not given
back yet (`WorkCounted`, `LiveCounted`), so a second Close changes nothing.

Assumptions on constants. Limits, intervals and bounds are natural numbers, positive where a zero would leave
nothing to do; PlayerSlots, SessionSignals, SocketSweep and
PartyCodes assume proportions of intervals that the code has; no-values are not values
(`NoParty`, `NoSignup`, `NoSocket`, ...); sets whose elements are counted are finite. TLC evaluates all of them
on the instances.

Four statements are theorems and are not repeated in a run, which would show them for one
instance: the gate follows the controller's state (`GateSound`), an exiting process
does not come back (`ExitIsFinal`), a party is never split (`PartyNeverSplit`), outcomes are final
(`OutcomesAreFinal`). The same goes for the type invariants of Lifecycle, MatchQueue, FleetMatch and GroupFormation, which are part of
their `IInv`. The other proofs state the types they need (`PoolTyped`, `CapTyped`, ...), without the bounds of a
run; the modules keep their `TypeOK` and its like for whoever changes them.

Only model-checked: liveness (`ShutdownCompletes`, `QueueSettles`, `FormableGroupsRun`, `ServersSettle`,
`LostMembersLeave`), as fairness and ENABLED are out of the prover's reach; and the five violations, which are
counterexamples.

## 5. Not modelled, and the plan

Not modelled in the modelled parts: restart of servers and the fleet event log; the idempotency key
of the party's Queue (a repeat finds its own entry and writes nothing); the 1-second NOTIFY limiter;
retention of terminal tickets and closed parties (plain deletes of rows nothing refers to);
invitations that link a player to an account; team roles and tenant invitations; quota overrides;
realtime tickets; warning mails of the storage quota.

Not modelled at all, with the reason for each in `components`: token buckets (real-valued), the query
language (a pure evaluator whose verdicts GroupFormation takes as any relation), the in-memory queue
(tests only), database access and row-level security (a transaction is taken to be atomic and
serialised by the locks it takes), mail, the server list, the MCP server, support libraries.

How much of the code this is. Of some 92,000 lines that count as implementation, about a quarter is
generated (page templates, protocol buffers, query code), and most of the rest is decoding, page
handlers that read, configuration and wiring. The map covers 14 % of the lines: the handlers, jobs and statements
in which state changes under concurrency, failure or time. What remains has a state change in a single
statement, or none, and a model of it would say nothing that its text does not.

Done of the earlier plan: all of its proofs. What is left:

1. Team roles and invitations that link players, if their statements gain locks worth checking.
