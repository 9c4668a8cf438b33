# A TLA+ verification of the global mail system

This directory holds TLA+ models of the global mail backend in `src/`, the TLC
configurations that check them on small instances, and TLAPS proofs of the
properties that matter most for every size of instance. `PROJECT.json` maps each
definition to the lines it models and lists runs, mutants, findings, hazards and
theorems.

## The system

Five Go programs share MySQL, Redis, Kafka and etcd.

| Part | Code | What it does | Model |
|---|---|---|---|
| adminsrv | `app/adminsrv`, `domain/globalmail/publisher.go` | publishes a mail: one transaction writes mail, outbox event and idempotency record | `Publisher` |
| mailrelaysrv | `app/mailrelaysrv`, `domain/globalmail/outbox.go` | claims outbox rows, projects mails into Redis, announces them in Kafka, records the outcome | `OutboxRelay` |
| playersrv, cache | `domain/globalmail/cache.go`, `app/playersrv/event_consumer.go`, `cache_poller.go` | keeps a snapshot of the mails, refreshed by events, polls and requests, rebuilt from MySQL under a Redis lock | `LocalCache` |
| playersrv, mails | `app/playersrv/mail_service.go`, `backpack_service.go` | read, claim and delete a mail; grant its rewards through a ledger | `PlayerMail` |
| playersrv, queue | `app/playersrv/request_queue.go` | bounds and serialises requests per role, with timeouts and shutdown | `RequestQueue` |
| playersrv, commands | `app/playersrv/command_service.go` | request-level idempotency over a map in memory and Redis | `CommandDispatch` |
| playersrv, visibility | `VisibleMails` and the condition operators in `cache.go` | which mails a player sees | `Visibility`, `PlayerSession` |
| accountsrv, accounts | `app/accountsrv`, `app/playersrv/account_service.go` | login, tokens, users and roles | `Accounts`, `PlayerSession` |
| gatewaysrv, connections | `app/gatewaysrv/connection.go` | a user's connection and its record in Redis | `Connections` |
| gatewaysrv, routing | `app/gatewaysrv/route_service.go`, `router.go`, `session.go`, `command_forwarder.go` | sends all commands of a user to one playersrv, chosen by consistent hashing | `HashRing`, `Routing` |
| registry | `infra/etcd`, `cmd/playersrv/main.go` | leases and status of the playersrv instances | `Registry` |
| metrics, config, generated code | `infra/metrics`, `config`, `api/rpc` | nothing decides on their state at run time | not modelled |

A mail's way: `Publisher` commits it with its event; `OutboxRelay` writes
detail, index and version to Redis and the event to Kafka, in this order;
`LocalCache` notices a greater version and loads a new snapshot. A player logs in
(`Accounts`), is bound to a gateway (`Connections`) and routed to a playersrv
(`Routing` over `Registry`); the command passes `RequestQueue` and
`CommandDispatch`; what it lists is `PlayerSession`'s subject, and what it updates
is `PlayerMail`'s.

## How the models are written

Every call to MySQL, Redis or Kafka is one atomic step, and what Go computes
between two calls belongs to the step before it. In `RequestQueue`, where the
concurrency is inside one process, each `select` is one step that takes any ready
branch. Calls may fail before or after having taken effect, answers may be lost
and processes may die where the code can meet that. A worker, a call or an
operation is a program counter (`pc`, in `Publisher` `statement`) and its local
variables; a table is a function or the set of its rows. Payloads, texts and log output are
left out, and times where nothing below depends on them.

*History variables* record what the code does not, so that a property can say
exactly when it holds. They are read by properties only, never by a guard, except
`crashed`, `crashes` and `losses`, which bound the failures. For example
`OutboxRelay` does not assume that a relay is faster than its lock: `overrun`
collects the rows whose lock expired under a working relay, and the properties that
need the lock speak of all other rows. A data race in the code is a nondeterministic
choice: `HashRouter` has no lock, so a ring that several calls build at a time
may answer with any instance of any of their listings, or with none.

The definitions whose comment begins with *Mutant* are plausible bugs of the definition that follows
them. They are part of no specification; replacing the original by its mutant
must break the property it is listed with.

## Modules, state and actions

**Publisher.** `mails`, `outbox` and `records` are the three tables. A call of
`Publish` validates (`Begin`), looks its key up (`GetPublishIdempotency`), draws
two ids (`NextIDs`, where `UnixNano` may repeat) and inserts
(`createGlobalMailWithOutbox`). A retry is another call with the same key.
`PublishOnce` is what a caller is promised, in two actions without ids, tables or
lookups; `Publisher` implements it, with the calls whose mail is in the table as
`published` and the answers as `told`.

**OutboxRelay.** A row has `status`, `retryCount` and membership in `due`
(`next_retry_time` or `locked_until` has passed); locking is being `processing`
and not `due`. `FetchPending` claims a batch in one transaction; then each event
goes through `LoadMail`, `SetGlobalMail`, `AddGlobalMailToIndexes`,
`AdvanceGlobalMailVersion`, `PublishGlobalMailChanged` and `MarkPublished`, or
through the two statements of `MarkFailed` (`CountRetries`, `MarkFailed`). No
outcome statement looks at the row's status or lock, exactly as in the code.

**PlayerMail.** One role and one mail: the state row (`status`, `claimed`), the
reward ledger and the backpack. An operation reads the row (`GetUserStates`),
grants new indexes in ascending order (`ReserveGlobalMailReward`,
`GrantBackpackReward`, `MarkGlobalMailRewardSucceeded` or `...Failed`) and saves
(`SaveUserState`). The save is MySQL's `ON DUPLICATE KEY UPDATE`, in which every
column tests the stored `status`; GORM emits the assignments in alphabetical order
of the columns and MySQL evaluates them from left to right, so `status` changes
after `claimed_loot_indexes` has been decided, and only `update_time` and `version`,
which are not modelled, come after it. `lootAtIndex` accepts every index that is not
negative for a mail without loots, which is what adminsrv publishes today.

**RequestQueue.** Jobs (calls of `Dispatch`) move through `Admit`, `Enqueue` and
`Wait`; a lane through `LaneTake`, `CheckContext`, `acquireWorker` and `Await`; a
handler through `HandlerReturn` and `releaseWorker`; `Close` at any time. Capacity
and worker slots are the sets of jobs that hold them, because both are returned
through a `sync.Once` per job.

**CommandDispatch.** `records` are the processes' maps, `store` is Redis. A call
looks in both, executes, remembers and saves. A response is named by the call whose
handler produced it.

**LocalCache.** Redis (`detail`, `index`, `version`, rebuild `lock`), the relay that
fills it as one step per stage, and the processes: `snapshot`, `mutex` and the tasks
that refresh (`GetGlobalMailVersion`, `Lock`, `GetActiveGlobalMailIDs`,
`GetGlobalMail`, `Store`) or rebuild (`TryAcquireGlobalMailRebuildLock`, `WaitTick`,
`WaitTimeout`, `GetPublishedGlobalMails`, `RefillDetail`, `RefillIndex`, `Release`).
The error of a consumer ends its process and with it the other tasks there
(`Restart`). Mails start and expire by a clock (`Tick`). A refresh takes the time once,
under the mutex: the active index is asked for mails that have not expired (`ActiveIDs`),
MySQL for those that have also started (`PublishedAt`).

**Visibility.** The conditions, the index by server and `VisibleMails` as operators.
A condition's value is what its JSON decodes to, so that the code's attempts to read a
number, a list, a text or null are kept. A listing counts how often each mail is in it.

**Accounts** and **PlayerSession.** `Accounts` has the two calls of a login: to
playersrv, which numbers its users in memory (`GameLogin`), and to Redis
(`SetLoginToken`); `Restart` empties the memory. `PlayerSession` extends it and
`Visibility`. A request is a command, whose profile gets the identity it was sent with
(`Profile`, `Commands`), or a direct call of `PlayerMailService`, whose profile is used as
it is (`Requests`). It lists mails of the snapshot or deletes one (`DeleteGlobalMail`)
under a role id that a restart may give to another user. Mails come into MySQL (`Publish`)
and Redis (`Fill`), Redis may lose them (`LoseIndex`), and `Refresh` replaces the whole
snapshot by the mails of one or the other. It is the step that stores the snapshot, with the
time at which it began. It is free to happen: that versions make it rare is `LocalCache`'s
subject, and having more of them makes the properties harder to keep. What it finds is
what Redis or MySQL has when it ends. That is not less than at any moment since it began,
unless Redis lost its index; after that the property about what stays listed says nothing
of what is missing.

**Connections.** One user, because everything is kept by uid. `session` and `index`
are the two maps of each gateway's pool, `location` is `DBGateConn` in Redis. `Bind`,
`Heartbeat` with its `Renew` and `PoolSet`, `Disconnect` with its `DisconnectStore`, and
`SweepExpired` interleave between the pool's lock and Redis; `Stop`, `CloseAll` and `Crash` end
a gateway. Times are ages in ticks.

**Registry, HashRing, Routing.** `Registry` has the instances' keys and leases:
`Register`, `Shutdown` followed by `Unregister`, `Die`, `LeaseExpires`, and the read and the
write of `UpdateStatus`, which nothing in the repository calls yet. `HashRing` is the
ring as operators over a listing, with the hash function as a constant. `Routing`
extends both for one user: a task looks in the session cache (`Begin`), in Redis
(`GetSrvRouter`), lists (`ListReadyPlayerServers`), chooses (`Route`), stores
(`SetSrvRouter`, `SessionSet`) and forwards (`Dispatch`); a failure clears both places
(`ClearRoute`, `DeleteSrvRouter`). `ResolveRoute` answers without forwarding. Records
expire and gateways die.

## Runs: what each checks and shows

| Run | Properties | Instance | Result |
|---|---|---|---|
| `Publisher_tables` | `MailHasItsEvent`, `PublishesOnce` (`Publisher` implements `PublishOnce`) | 5 calls (three with one key, one of these with other content; two without a key, one of these invalid), 2 ids that may collide, faults | holds |
| `OutboxRelay_flush` | `PublishedIsProjected`, `AnnouncedIsReadable`, `OneRelayPerEvent`, `RetriesBounded`, `PublishedIsFinal`, `Settles` | 1 event, 2 relays, 2 tries, 1 crash | holds |
| `PlayerMail_rewards` | `AttemptedOnce`, `OnlyRealLoots`, `ClaimedIsDelivered`, `OnlyStaleSavesLose` | 2 operations, each repeated at will, 2 loots, indexes -1..2 | holds |
| `RequestQueue_safety` | `LiveRoleSerial`, `RejectedNeverRuns` | 3 jobs, 2 workers, capacity 2, lane of 1 | holds |
| `RequestQueue_live` | `ResourcesReturn`, `LanesDrain`, `CloseReturns` | 2 jobs of a role, 1 worker | holds |
| `CommandDispatch_calls` | `AnswerIsOwn`, `ExecutedOnce` | 4 calls, 2 processes, each may crash once | holds |
| `LocalCache_refresh` | `SnapshotCovers`, `RebuildLockKept` | 1 mail, 2 processes with a goroutine each, 2 times, faults, 1 loss or crash | holds |
| `LocalCache_live` | `SnapshotCovers`, `VersionForward`, `VersionConverges` | 2 mails, one of which has not started, 1 process, 2 goroutines, 1 loss or crash | holds |
| `LocalCache_converge` | `MailsConverge` | 2 mails that have started, 1 process, 2 goroutines, no losses | violated |
| `Connections_sessions` | `IndexMatchesSession`, `NoConnectionLeaked`, `ClosedOnlyIfOvertaken`, `HeartbeatsHoldLocation`, `LocationReturns` | 2 connections to one gateway or to two, TTL 2, renewal 1, faults | holds |
| `Routing_users` | `OneServerPerUser`, `RunningIsRegistered`, `MinimalMovement`, `GoneIsForgotten` | 3 instances, one of them unstable, with colliding virtual nodes; 2 tasks of one gateway or of two; faults | holds |
| `PlayerSession_lists` | `RolesApart`, `ListedForServer`, `NothingWithheld`, `StaysListed` | 3 logins (two of a user with different servers, one of another), faults, 1 restart, 2 mails, 2 servers, 2 times, 1 loss of the index, 1 deletion | holds |

`LocalCache_refresh`, `Connections_sessions` and `PlayerSession_lists` also check their
module's `TypeOK`. The other type invariants, and some safety properties, are proved and
have no run of their own (see Proofs). Deadlock is checked where workers, clients
or the clock never end: `OutboxRelay`, `PlayerMail`, `LocalCache`, `Connections` and
`Routing`. In `Publisher`, `CommandDispatch`, `RequestQueue` and `PlayerSession` the finite
set of requests or logins is used up and nothing may be left to do.

### Bounds

* Two relays, operations, tasks, connections and processes are the fewest that can
  interfere. The proofs remove the bounds for the properties they cover.
* `OutboxRelay_flush` has one event, because fairness with two is out of reach. That a
  lock expires while its holder is still at the row before is covered by the proofs, which
  are about batches of any size.
* Two ids in `Publisher_tables` collide in every way; three calls share a key and so
  compete for the first mail, and a mail without a key takes the other id.
* `MaxRetries = 2` separates the failure that re-queues from the one that gives up.
* Indexes -1..2 with two loots have one index on either side of the array. The theorems
  also cover mails without loots, where every index that is not negative is accepted.
* Three jobs and capacity 2 let one be turned away; two of them share a lane of 1,
  which fills up. With two workers it is the lane, not a lack of slots, that keeps a
  role's handlers apart.
* Four calls give overlapping calls, a retry on the other process, one key with two
  payloads and a call without a key.
* `MaxLosses`, `MaxCrashes`, `MaxLives` and one crash per process bound how often failures
  happen, not where. `LocalCache_refresh` has one mail, which expires at the second of its
  two times, because two processes with two mails are out of reach; `LocalCache_live`
  repeats `SnapshotCovers` with two mails, where a rebuild can be seen half done and leaves
  out the mail that has not started, and has the two goroutines that compete for one mutex.
* `SessionTTL = 2` and `RenewInterval = 1` are the least values for which a heartbeat can
  be acknowledged without a renewal. An age counts no further than a comparison
  can tell.
* Two stable instances and one that comes and goes let a choice leave, arrive and stay;
  the third shares a hash with one of them. `UpdateStatus` is called at most once
  per instance.
* Of the two mails of `PlayerSession_lists` one lists server 1, the other excludes server 2,
  so that the first hides the second from server 1; they ask for other attributes by number, text, list and null. Two lives are enough
  for a role id to be given twice; `MaxTime = 1` lets one mail start and the other expire;
  one deletion is enough to hide a mail from another user of the role. One mail is in MySQL
  from the start (`Earlier`), the other is published at any time. Logins with an invalid uid
  or server are left to the proofs.
* `retryCount` and `attempts` need no bound: the code, or the ledger, ends them.

### Fairness

* `OutboxRelay`: locks expire and workers go on, because the worker loop logs an error
  and ticks again. Strong fairness on the four statements to MySQL says that a statement
  that is tried again and again succeeds at some point. Redis and Kafka may fail for
  ever: then the row ends as `failed`.
* `RequestQueue`: goroutines run, and a request's context ends at its timeout. A
  handler need not return and `Close` need not be called.
* `LocalCache`: goroutines run, the poller ticks, the relay goes on, and a wait that is
  entered again and again times out at last. Nothing is assumed of events.
* `Connections`: time passes, calls go on, and a client that has a session sends
  heartbeats, which is what the TTL is there for. A SET in Redis that is tried again and
  again succeeds at some point.
* `Routing`: the leases of instances that are gone and the records in Redis expire. The user
  goes on making calls, and a forwarding that is possible again and again is done: a user
  who only asks for the route, or never comes back, leaves a stale session route in place.

## Differences between documents and code

One statement of the documents is a run that TLC refutes:

* The cache documents say polling the version brings every mail to every process.
  Every mail has version 1 (`publisher.go:73`), so once a process is at 1 no poll and no
  event refreshes it (`LocalCache_converge`). `VersionConverges` is what holds.

Others are met in the models without a run of their own; the properties above are
stated with the exact condition under which they hold:

* `docs/backpack-design.md:132` keeps a reward the backpack refused out of the claimed
  state. The first claim does. Its retry finds the ledger row, treats "not reserved" as
  success and saves the index as claimed (`backpack_service.go:37`). `ClaimedIsDelivered`
  says that this, or an operation cut off between the ledger and the backpack, is the only
  way;
* `docs/request-queue-design.md:160` says a role's requests never run concurrently. After
  a timeout the lane moves on while the handler still runs (`request_queue.go:222`).
  `LiveRoleSerial` is what holds;
* two concurrent publications with one key: the loser gets the duplicate-key error,
  not the stored mail (`docs/data-consistency-idempotency.md:165`);
* `MarkFailed` by a relay that overran its lock takes a published row back (`:110`),
  and a payload that cannot be decoded is retried (`:122`);
* overlapping operations on one mail lose an update (`:232`), and a partial claim sets
  the status claimed (`:230`);
* a mail without loots accepts every index that is not negative
  (`docs/backpack-design.md:117`);
* handlers that timed out are not counted against workers or capacity
  (`docs/request-queue-design.md:332`, `:170`), and a request may be admitted after
  `Close` (`:312`);
* an overlapping retry of a command runs it twice (`docs/data-consistency-idempotency.md:141`,
  `:283`), and an index that was lost and partly refilled is trusted (`:210`);
* a lost detail is said to be repaired from MySQL (`:300`). The rebuild asks MySQL for
  mails that have started (`data/mysql/repository.go:110`), while Redis also has those that
  have not: the new snapshot is without them, and stays so while the version does
  (`MayLack` in `SnapshotCovers`);
* `docs/requirements-design.md:175` names the operators of a condition. A list is taken for
  membership whatever its operator, also `ne` and `range`, and a number under `in` or
  `range` matches nothing (`cache.go:320`). `ListedForServer` judges lists under `eq`,
  `in` and no operator, and numbers under `eq`, `ne` and none;
* `docs/runtime-flows.md:257` lets clients list mails through `PlayerMailService`. Unlike a
  command, such a call keeps the uid, role and server of its own profile
  (`app/playersrv/mail_rpc.go:20`), so `ListedForServer` speaks of the server that profile
  names, and `NothingWithheld` exempts what a direct call deleted under a role;
* `docs/runtime-flows.md:139` refreshes `DBSrvRouter` periodically while a session route is
  in use. The code does not: the record is written when a route is chosen and then expires;
* `CommandForwarder` has no caller in `cmd/gatewaysrv`. `Routing` has its `Forward` as the
  way commands are meant to go.

## Proofs

Eight modules hold theorems. They are true for every value of the constants that
satisfies the named assumptions of the modules (`PublisherAssumption`,
`RelayAssumption`, `MailAssumption`, `QueueAssumption`, `DispatchAssumption`,
`CacheAssumption`, `AccountsAssumption`, `VisibilityAssumption`, `SessionAssumption`,
`ConnectionsAssumption`, `RingAssumption`, `RegistryAssumption`, `RoutingAssumption`),
which state the types of the constants and that limits are positive. Nothing is assumed
about the environment beyond the actions of the models. Every specification has its
`TypeCorrect`.

* **PublishingProofs**, about `Publisher`: `PublishedOnce` (`OneMailPerKey`), `EventPerMail`, `AnswersAreTrue`
  (`AnswerIsCommitted`). `OneMailPerKey` alone is not inductive. `PublishInv` adds that ids
  and keys are primary keys, that every keyed mail has its record and every mail its event,
  and that records and answers are true. The lookup plays no part in uniqueness: that rests
  on the record's primary key in the same transaction. `ImplementsPublishOnce` shows the
  refinement: a call that is not done has published nothing and told nobody (`Ongoing`),
  what callers were told stays true (`ToldKept`), and every statement is a `Publish`, a
  `Replay` or a stutter (`PromiseStep`).
* **PublishingProofs**, about `OutboxRelay`: `Projected` and `Readable` from `ProjectionInv`,
  which adds what a relay's program counter implies about the current event (`Achieved`) and
  needs that the projection only grows (`ProjectionGrows`); `LocksExclude`, `RetriesEnd` and
  `PublishedFinal` from `LockInv`: a row in a batch, not overrun, is `processing` with a
  running lock, and the retry count a relay has read is still the row's. Recording an outcome
  keeps it because no other relay has the row (`LockOutcome`).
* **PlayerMailProofs**: `RewardsGrantedOnce` and `LedgerIsTrue` (`LedgerMatchesBackpack`)
  from `RewardInv` (a reservation has one holder, and nobody called the backpack before that
  holder does); `DeletedStaysDeleted` (`DeletedIsFinal`), from the upsert alone;
  `FreshSavesKeepUpdates` from `FreshInv` (what an operation will save is ahead of the row
  unless its read was overtaken); `ClaimsDelivered` from `DeliveryInv` (a reserved reward is
  delivered, lost or held, and only reserved ones are saved); `LootsAreReal` from `LootInv`
  (the ledger only has rows of real loots), `RewardInv` and `DeliveryInv`.
* **RequestQueueProofs**: `RoleSerial`, `WorkersBounded`, `CapacityBounded`,
  `RejectedStayOut` and `ResultOnce`. A lane holds a job once, only jobs of its role, and
  handles one at a time (`LaneOK`); where a job is decides what is known of its result,
  handler, caller, capacity and slot (`JobOK`). Above all a running handler whose
  request is live is the one its lane is waiting for, which is why two of a role cannot run.
* **CommandDispatchProofs**: `AnswersOwn`, from the fact that records and calls hold only
  responses of handlers of their key and payload (`OwnResponses`); `HandlersOnce` and
  `RecordsStay` (`RecordsKept`) for keys whose calls do not overlap: a call that goes on to
  execute has found no record and nobody has written one since (`NoRecord`, `NoStored`), and
  what was executed is in the records or on its way there (`Kept`).
* **LocalCacheProofs**: three invariants, each inductive over `TypeOK`. `LockKept`
  (`RebuildLockKept`) from `LockInv`: a task that holds a lock of its own is between
  acquiring and releasing, so it still knows the version it locked. `SnapshotsCover`
  (`SnapshotCovers`) from `CoverInv`: what the relay has announced is in the index, a task
  notes what is due before it reads any mail, and so whatever it reads next covers it but for
  what has expired (`Covered`). A task that goes to the table has found no active mail in the
  index, or a detail was lost (`Missed`); in the second case it may do without mails that have
  not started. `VersionsGoForward` (`VersionForward`) from
  `VersionInv`: a process that has not finished its first refresh runs one task
  (`BootsAlone`); no event is sent before the version is in Redis (`VersionFirst`), so that a
  refresh the consumer forces reads the event's version; and every other refresh that goes on
  under the mutex has read a version newer than the snapshot (`Timely`).
* **PlayerSessionProofs**, about `Accounts`: `OneRolePerUser` (`RolesApart`) and `TokensOwn`
  (`TokenIsOwn`). The roles of the present life are at most `nextID` and belong to users it
  knows (`GivenByThisLife`), and an answer is an identity given to the login's own uid
  (`AnswersGiven`). They are about `AccountsSpec`; `SessionsAreAccounts` shows that
  `PlayerSession` implements it.
* **PlayerSessionProofs**, about what players see: `OnlyOwnServer` (`ListedForServer`),
  `NoneWithheld` (`NothingWithheld`) and `ListedStays` (`StaysListed`), for every set of mails,
  conditions and payloads. `ListedIf` says when a listing has a mail, `MatchLetsIn` what the
  operators on server conditions let in. The invariant adds that a row was deleted directly
  or by a user that was given its role (`RowsGiven`), that identities are on servers the
  mails may name (`GivenServers`), and that Redis has the snapshot's mails until it loses
  its index (`SnapshotIndexed`), so that a refresh finds again what is listed
  (`RefreshKeeps`).
* **ConnectionsProofs**: `IndexIsExact`, `NoLeak`, `ClosedOvertaken` and `LocationHeld`, for
  any gateways, connections, TTL and renewal interval. What a Heartbeat or Bind carries while
  it is outside the pool's lock matters as much as the pool: it was bound at its gateway
  (`CopiesAreBound`), and is open or already marked as overtaken
  (`CopiesClosedIfOvertaken`). `LocationHeld` rests on `AllCovered`, which relates the ages
  of the record, the last renewal and the last heartbeat for sessions and copies alike.
* **RoutingProofs**, about the ring: `AllMovesSmall`, for every hash function, weight and
  collision: between two listings a uid moves only if its instance left or its new one
  arrived. If both choices are in both listings, each ring has the other's virtual node, so
  both aim at the same one, and on a collision the last instance owns it in both.
* **RoutingProofs**, about `Routing`: `Registered` (`RunningIsRegistered`), `Movement` (`MinimalMovement`, from
  `AllMovesSmall`) and `Agreement` (`OneServerPerUser`). Agreement needs, until one of the
  races, that whoever is choosing will choose what is already remembered (`ChosenByRing`),
  that no gateway remembers a route before Redis does (`RecordedFirst`), and that the
  listings in use are those of the ready instances (`ListsAreFresh`).

Leaves that Zenon proves name it. The translation to SMT slows down with every
obligation tlapm has translated before, so that in a module of some hundred leaves easy ones
would run into its time limit; it is kept for the leaves that need it.

Proved without a run of their own: the type invariants of `Publisher`, `OutboxRelay`,
`PlayerMail`, `RequestQueue`, `CommandDispatch`, `Accounts` and `Routing`, `OneMailPerKey`,
`AnswerIsCommitted`, `LedgerMatchesBackpack`, `DeletedIsFinal`, `LiveWorkersBounded`,
`LiveCapacityBounded`, `ResultSentOnce`, `RecordsKept` and `TokenIsOwn`.

Only model-checked: the liveness properties `Settles`, `ResourcesReturn`, `LanesDrain`,
`CloseReturns`, `VersionConverges`, `LocationReturns` and `GoneIsForgotten`, because the
prover has no rule for fairness. Every safety property of a passing run is also a theorem.

## Not modelled

* Configuration, metrics, the generated RPC code, and the transport of gRPC and WebSocket
  frames: they hold no state on which the properties depend, or are pure input and output.
* The protobuf encoding of command payloads and the Kafka and Redis encodings of mails: a
  payload is a value. That a payload of an event cannot be decoded is a failure of its step.
* The expiry of login tokens, which nothing reads.
* The contract of `sync.WaitGroup` in `RequestQueue`: that `Add` may run concurrently with
  `Wait` from zero is a rule about its use, not about the state modelled.
* Two compositions. `CommandDispatch` lets calls of one key overlap at will, which
  includes what the lanes of `RequestQueue` allow, and `LocalCache` has a relay that writes in
  `OutboxRelay`'s order and does not fail. Joining them multiplies the states beyond what
  TLC can search and adds no order of steps to the first.
