----------------------------- MODULE LocalCache -----------------------------
(***************************************************************************)
(* playersrv's snapshot of the global mails and how it follows Redis and   *)
(* MySQL (domain/globalmail/cache.go, singleflight.go, the cache half of   *)
(* data/redis/repository.go, app/playersrv/event_consumer.go and           *)
(* cache_poller.go), next to the relay that feeds Redis.                   *)
(*                                                                         *)
(* A task is a goroutine of one process: the consumer, the poller or a     *)
(* ListGlobalMails request.  Every call to MySQL or Redis is one step.     *)
(* Mails are numbered by expire_time.  refresh runs under the cache's      *)
(* mutex, so singleflight never meets a second caller and adds no state.   *)
(***************************************************************************)
EXTENDS Integers

CONSTANTS
    Mails,         \* ids of the mails that will be published
    Start,         \* their start_time
    Expire,        \* and expire_time
    Instances,     \* playersrv processes
    Tasks,         \* their goroutines
    Host,          \* the process of each task
    Faults,        \* may calls to Redis and MySQL fail?
    MaxTime,       \* bound on the clock
    MaxLosses      \* bound on losses of Redis keys and crashes together

ASSUME CacheAssumption ==
    /\ Mails \subseteq Int
    /\ \A m \in Mails : Start[m] \in Int /\ Expire[m] \in Int /\ Start[m] < Expire[m]
    /\ Tasks \subseteq Nat \ {0}
    /\ Host \in [Tasks -> Instances]
    /\ Faults \in BOOLEAN
    /\ MaxTime \in Nat
    /\ MaxLosses \in Nat

VARIABLES
    now,           \* the clock
    relayed,       \* mail: how far it is on its way from MySQL to Kafka
    detail,        \* Redis: mails with a GlobalMail:{id} key
    index,         \* Redis: members of GlobalMailActiveIndex
    version,       \* Redis: GlobalMailVersion, 0 when absent
    lock,          \* Redis: the holder of GlobalMailRebuildLock:{version}
                   \* Left when it gave up without deleting the key
    rightful,      \* history: tasks whose lock has neither expired nor been released
    inbox,         \* process: change events it has not read yet
    booted,        \* processes past their first refresh
    mutex,         \* process: the task that holds LocalCache.mu
    snapshot,      \* process: version, mails and LastRefreshTime of its snapshot, and,
                   \* as a history, the mails announced when that version was read
    pc,            \* task: its next call
    forced,        \* tasks in ForceRefresh, the others are in RefreshIfStale
    waiting,       \* tasks inside waitForSharedCache
    remote,        \* task: the version it has read
    at,            \* task: the time its refresh began
    due,           \* task: history, the mails announced when it read the version
    todo,          \* task: mails it has still to fetch or to refill
    got,           \* task: mails it has loaded
    gone,          \* history: the kinds of Redis keys that were lost
    losses         \* number of losses and crashes

redis == <<detail, index, version>>
locks == <<lock, rightful>>
process == <<inbox, booted, mutex, snapshot>>
locals == <<forced, waiting, remote, at, due, todo, got>>
loss == <<gone, losses>>
vars == <<now, relayed, redis, locks, process, pc, locals, loss>>

\* Publish sets mail.Version = 1 for every mail, and the event carries it.
EventVersion == 1
Versions == {0, EventVersion}

\* The holder of a lock whose task is gone.
Left == 0

Stages == {"none", "mysql", "detail", "index", "version", "event"}
Published == {m \in Mails : relayed[m] # "none"}
Announced == {m \in Mails : relayed[m] \in {"version", "event"}}

Empty == [version |-> 0, mails |-> {}, at |-> 0, due |-> {}]

Init ==
    /\ now = 0
    /\ relayed = [m \in Mails |-> "none"]
    /\ detail = {} /\ index = {} /\ version = 0
    /\ lock = [v \in Versions |-> {}] /\ rightful = {}
    /\ inbox = [i \in Instances |-> {}]
    /\ booted = {}
    /\ mutex = [i \in Instances |-> {}]
    /\ snapshot = [i \in Instances |-> Empty]
    /\ pc = [t \in Tasks |-> "idle"]
    /\ forced = {} /\ waiting = {}
    /\ remote = [t \in Tasks |-> 0]
    /\ at = [t \in Tasks |-> 0]
    /\ due = [t \in Tasks |-> {}]
    /\ todo = [t \in Tasks |-> {}]
    /\ got = [t \in Tasks |-> {}]
    /\ gone = {} /\ losses = 0

-----------------------------------------------------------------------------
(* The relay: MySQL, then detail, index, version and event, in this order. *)

Stage(m, from, to) ==
    /\ relayed[m] = from
    /\ relayed' = [relayed EXCEPT ![m] = to]
    /\ UNCHANGED <<now, locks, booted, mutex, snapshot, pc, locals, loss>>

Publish(m) == Stage(m, "none", "mysql") /\ UNCHANGED <<redis, inbox>>

RelayDetail(m) ==
    /\ Stage(m, "mysql", "detail")
    /\ detail' = detail \union {m}
    /\ UNCHANGED <<index, version, inbox>>

RelayIndex(m) ==
    /\ Stage(m, "detail", "index")
    /\ index' = index \union {m}
    /\ UNCHANGED <<detail, version, inbox>>

RelayVersion(m) ==
    /\ Stage(m, "index", "version")
    /\ version' = EventVersion
    /\ UNCHANGED <<detail, index, inbox>>

\* Every process has a consumer group of its own.
RelayEvent(m) ==
    /\ Stage(m, "version", "event")
    /\ inbox' = [i \in Instances |-> inbox[i] \union {m}]
    /\ UNCHANGED redis

Relay(m) == RelayDetail(m) \/ RelayIndex(m) \/ RelayVersion(m) \/ RelayEvent(m)

-----------------------------------------------------------------------------
(* What starts a refresh.                                                  *)

Goto(t, call) == pc' = [pc EXCEPT ![t] = call]

\* main: one ForceRefresh before any goroutine is started.
Boot(t) ==
    /\ Host[t] \notin booted
    /\ \A u \in Tasks : Host[u] = Host[t] => pc[u] = "idle"
    /\ Goto(t, "version")
    /\ forced' = forced \union {t}
    /\ UNCHANGED <<now, relayed, redis, locks, process, waiting, remote, at, due, todo, got, loss>>

\* The poller ticks, or a player lists mails.
Poll(t) ==
    /\ Host[t] \in booted
    /\ pc[t] = "idle"
    /\ Goto(t, "version")
    /\ UNCHANGED <<now, relayed, redis, locks, process, locals, loss>>

\* The consumer drops an event that is not newer than the snapshot.
Handle(t, m) ==
    LET i == Host[t] IN
    /\ i \in booted
    /\ pc[t] = "idle"
    /\ m \in inbox[i]
    /\ inbox' = [inbox EXCEPT ![i] = @ \ {m}]
    /\ \/ EventVersion <= snapshot[i].version /\ UNCHANGED <<pc, forced>>
       \/ /\ EventVersion > snapshot[i].version
          /\ Goto(t, "version")
          /\ forced' = forced \union {t}
    /\ UNCHANGED <<now, relayed, redis, locks, booted, mutex, snapshot, waiting, remote, at, due,
                   todo, got, loss>>

\* The refresh returns; main goes on whatever the first one returned.
Done(t) ==
    /\ Goto(t, "idle")
    /\ forced' = forced \ {t}
    /\ waiting' = waiting \ {t}
    /\ booted' = booted \union {Host[t]}
    /\ mutex' = [mutex EXCEPT ![Host[t]] = @ \ {t}]
    /\ remote' = [remote EXCEPT ![t] = 0]
    /\ at' = [at EXCEPT ![t] = 0]
    /\ due' = [due EXCEPT ![t] = {}]
    /\ todo' = [todo EXCEPT ![t] = {}]
    /\ got' = [got EXCEPT ![t] = {}]

-----------------------------------------------------------------------------
(* RefreshIfStale and ForceRefresh.                                        *)

\* Mutant: every poll refreshes.
CurrentNever(t, v) == FALSE

\* Mutant: a snapshot one version behind is good enough.
CurrentOffByOne(t, v) == t \notin forced /\ snapshot[Host[t]].version + 1 >= v

\* RefreshIfStale has nothing to do.
Current(t, v) == t \notin forced /\ snapshot[Host[t]].version >= v

GetGlobalMailVersion(t) ==
    /\ pc[t] = "version"
    /\ \/ Current(t, version) /\ Done(t) /\ UNCHANGED <<inbox, snapshot>>
       \/ /\ ~Current(t, version)
          /\ Goto(t, "lock")
          /\ remote' = [remote EXCEPT ![t] = version]
          /\ due' = [due EXCEPT ![t] = Announced]
          /\ UNCHANGED <<process, forced, waiting, at, todo, got>>
    /\ UNCHANGED <<now, relayed, redis, locks, loss>>

\* c.mu.Lock(), and RefreshIfStale looks at the snapshot again; then refresh
\* takes the time for all that follows.
Lock(t) ==
    LET i == Host[t] IN
    /\ pc[t] = "lock"
    /\ mutex[i] = {}
    /\ \/ Current(t, remote[t]) /\ Done(t)
       \/ /\ ~Current(t, remote[t])
          /\ Goto(t, "ids")
          /\ mutex' = [mutex EXCEPT ![i] = {t}]
          /\ at' = [at EXCEPT ![t] = now]
          /\ UNCHANGED <<booted, forced, waiting, remote, due, todo, got>>
    /\ UNCHANGED <<now, relayed, redis, locks, inbox, snapshot, loss>>

\* loadFromSharedCache found nothing or not everything, and forgets the rest.
Miss(t) ==
    /\ Goto(t, IF t \in waiting THEN "wait" ELSE "acquire")
    /\ todo' = [todo EXCEPT ![t] = {}]
    /\ got' = [got EXCEPT ![t] = {}]

\* The scores are in seconds and the range includes its lower end.
ActiveIDs(time) == {m \in index : Expire[m] >= time}

GetActiveGlobalMailIDs(t) ==
    LET ids == ActiveIDs(at[t]) IN
    /\ pc[t] = "ids"
    /\ \/ ids = {} /\ Miss(t)
       \/ /\ ids # {}
          /\ Goto(t, "details")
          /\ todo' = [todo EXCEPT ![t] = ids]
          /\ UNCHANGED got
    /\ UNCHANGED <<now, relayed, redis, locks, process, forced, waiting, remote, at, due, loss>>

\* m is the next mail of the task's loop
At(t, call, m) == pc[t] = call /\ m \in todo[t] /\ \A n \in todo[t] : m <= n

\* Mutant: a mail whose detail is gone is skipped.
GetGlobalMailSkips(t, m) ==
    /\ At(t, "details", m)
    /\ got' = [got EXCEPT ![t] = @ \union ({m} \intersect detail)]
    /\ todo' = [todo EXCEPT ![t] = @ \ {m}]
    /\ Goto(t, IF todo[t] = {m} THEN "store" ELSE "details")
    /\ UNCHANGED <<now, relayed, redis, locks, process, forced, waiting, remote, at, due, loss>>

GetGlobalMail(t, m) ==
    /\ At(t, "details", m)
    /\ \/ /\ m \in detail
          /\ got' = [got EXCEPT ![t] = @ \union {m}]
          /\ todo' = [todo EXCEPT ![t] = @ \ {m}]
          /\ Goto(t, IF todo[t] = {m} THEN "store" ELSE "details")
       \/ m \notin detail /\ Miss(t)
    /\ UNCHANGED <<now, relayed, redis, locks, process, forced, waiting, remote, at, due, loss>>

\* Mutant: the version after the one it has read is stored.
StoreNext(t) ==
    /\ pc[t] = "store"
    /\ snapshot' = [snapshot EXCEPT ![Host[t]] =
                      [version |-> remote[t] + 1, mails |-> got[t], at |-> at[t], due |-> due[t]]]
    /\ Done(t)
    /\ UNCHANGED <<now, relayed, redis, locks, inbox, loss>>

\* The new snapshot replaces the old one as a whole.
Store(t) ==
    /\ pc[t] = "store"
    /\ snapshot' = [snapshot EXCEPT ![Host[t]] =
                      [version |-> remote[t], mails |-> got[t], at |-> at[t], due |-> due[t]]]
    /\ Done(t)
    /\ UNCHANGED <<now, relayed, redis, locks, inbox, loss>>

-----------------------------------------------------------------------------
(* rebuildSharedCache.                                                     *)

TryAcquireGlobalMailRebuildLock(t) ==
    LET v == remote[t] IN
    /\ pc[t] = "acquire"
    /\ \/ /\ lock[v] = {}
          /\ lock' = [lock EXCEPT ![v] = {t}]
          /\ rightful' = rightful \union {t}
          /\ Goto(t, "load")
          /\ UNCHANGED waiting
       \/ /\ lock[v] # {}
          /\ waiting' = waiting \union {t}
          /\ Goto(t, "wait")
          /\ UNCHANGED locks
    /\ UNCHANGED <<now, relayed, redis, process, forced, remote, at, due, todo, got, loss>>

\* waitForSharedCache: the ticker.
WaitTick(t) ==
    /\ pc[t] = "wait"
    /\ Goto(t, "ids")
    /\ UNCHANGED <<now, relayed, redis, locks, process, locals, loss>>

\* waitForSharedCache: the timer; the task goes on without the lock.
WaitTimeout(t) ==
    /\ pc[t] = "wait"
    /\ Goto(t, "load")
    /\ waiting' = waiting \ {t}
    /\ UNCHANGED <<now, relayed, redis, locks, process, forced, remote, at, due, todo, got, loss>>

\* Unlike the index, the query asks for mails that have started.
PublishedAt(time) == {m \in Published : Start[m] <= time /\ Expire[m] > time}

GetPublishedGlobalMails(t) ==
    LET mails == PublishedAt(at[t]) IN
    /\ pc[t] = "load"
    /\ got' = [got EXCEPT ![t] = mails]
    /\ todo' = [todo EXCEPT ![t] = mails]
    /\ Goto(t, IF mails = {} THEN "release" ELSE "refillDetail")
    /\ UNCHANGED <<now, relayed, redis, locks, process, forced, waiting, remote, at, due, loss>>

RefillDetail(t, m) ==
    /\ At(t, "refillDetail", m)
    /\ detail' = detail \union {m}
    /\ Goto(t, "refillIndex")
    /\ UNCHANGED <<now, relayed, index, version, locks, process, locals, loss>>

RefillIndex(t, m) ==
    /\ At(t, "refillIndex", m)
    /\ index' = index \union {m}
    /\ todo' = [todo EXCEPT ![t] = @ \ {m}]
    /\ Goto(t, IF todo[t] = {m} THEN "release" ELSE "refillDetail")
    /\ UNCHANGED <<now, relayed, detail, version, locks, process, forced, waiting, remote, at, due,
                   got, loss>>

\* Mutant: the key is deleted whatever its token.
AfterUnlockAny(t) == {[lock EXCEPT ![remote[t]] = {}]}

\* The locks when the task has run its release script, which deletes the key
\* only while it holds the task's token.  The script's error is ignored and
\* leaves the key to its TTL.
AfterUnlock(t) ==
    {[lock EXCEPT ![remote[t]] = @ \ {t}]} \union
    (IF Faults /\ t \in lock[remote[t]] THEN {[lock EXCEPT ![remote[t]] = {Left}]} ELSE {})

Release(t) ==
    /\ pc[t] = "release"
    /\ lock' \in AfterUnlock(t)
    /\ rightful' = rightful \ {t}
    /\ Goto(t, "store")
    /\ UNCHANGED <<now, relayed, redis, process, locals, loss>>

-----------------------------------------------------------------------------
(* Failures.                                                               *)

TasksOf(i) == {t \in Tasks : Host[t] = i}

\* All of the process's goroutines end and leave their rebuild locks among
\* the locks lk; the topic stays.
Restart(i, lk) ==
    LET mine == TasksOf(i) IN
    /\ lock' = [v \in Versions |-> IF lk[v] \intersect mine # {} THEN {Left} ELSE lk[v]]
    /\ rightful' = rightful \ mine
    /\ booted' = booted \ {i}
    /\ mutex' = [mutex EXCEPT ![i] = {}]
    /\ snapshot' = [snapshot EXCEPT ![i] = Empty]
    /\ pc' = [t \in Tasks |-> IF t \in mine THEN "idle" ELSE pc[t]]
    /\ forced' = forced \ mine
    /\ waiting' = waiting \ mine
    /\ remote' = [t \in Tasks |-> IF t \in mine THEN 0 ELSE remote[t]]
    /\ at' = [t \in Tasks |-> IF t \in mine THEN 0 ELSE at[t]]
    /\ due' = [t \in Tasks |-> IF t \in mine THEN {} ELSE due[t]]
    /\ todo' = [t \in Tasks |-> IF t \in mine THEN {} ELSE todo[t]]
    /\ got' = [t \in Tasks |-> IF t \in mine THEN {} ELSE got[t]]
    /\ UNCHANGED <<now, relayed, redis, inbox>>

Crash(i) ==
    /\ i \in booted
    /\ losses < MaxLosses
    /\ losses' = losses + 1
    /\ Restart(i, lock)
    /\ UNCHANGED gone

\* A call fails; that a write has taken effect nevertheless shows as the failure
\* of the call after it.  The lock is released and the old snapshot stays; main
\* and the poller log the error, but the consumer's ends the process.
Fail(t) ==
    /\ Faults
    /\ pc[t] \in {"version", "ids", "details", "acquire", "load", "refillDetail", "refillIndex",
                "release"}
    /\ \/ /\ t \in forced /\ Host[t] \in booted
          /\ \E lk \in AfterUnlock(t) : Restart(Host[t], lk)
       \/ /\ t \notin forced \/ Host[t] \notin booted
          /\ lock' \in AfterUnlock(t)
          /\ rightful' = rightful \ {t}
          /\ Done(t)
          /\ UNCHANGED <<now, relayed, redis, inbox, snapshot>>
    /\ UNCHANGED loss

\* The lock's TTL passes.
LockExpire(v) ==
    /\ lock[v] # {}
    /\ lock' = [lock EXCEPT ![v] = {}]
    /\ rightful' = rightful \ lock[v]
    /\ UNCHANGED <<now, relayed, redis, process, pc, locals, loss>>

\* Redis evicts or loses a key.  (The TTL of a detail ends ten minutes after its
\* mail has expired, when no refresh asks for it any more.)
Lose ==
    /\ losses < MaxLosses
    /\ losses' = losses + 1
    /\ \/ /\ \E m \in detail : detail' = detail \ {m}
          /\ gone' = gone \union {"detail"}
          /\ UNCHANGED <<index, version>>
       \/ /\ index # {} /\ index' = {}
          /\ gone' = gone \union {"index"}
          /\ UNCHANGED <<detail, version>>
       \/ /\ version # 0 /\ version' = 0
          /\ gone' = gone \union {"version"}
          /\ UNCHANGED <<detail, index>>
    /\ UNCHANGED <<now, relayed, locks, process, pc, locals>>

-----------------------------------------------------------------------------

Step(t) ==
    \/ GetGlobalMailVersion(t)
    \/ Lock(t)
    \/ GetActiveGlobalMailIDs(t)
    \/ \E m \in Mails : GetGlobalMail(t, m) \/ RefillDetail(t, m) \/ RefillIndex(t, m)
    \/ TryAcquireGlobalMailRebuildLock(t)
    \/ WaitTick(t)
    \/ WaitTimeout(t)
    \/ GetPublishedGlobalMails(t)
    \/ Release(t)
    \/ Store(t)

Tick ==
    /\ now < MaxTime
    /\ now' = now + 1
    /\ UNCHANGED <<relayed, redis, locks, process, pc, locals, loss>>

Next ==
    \/ Tick
    \/ \E m \in Mails : Publish(m) \/ Relay(m)
    \/ \E t \in Tasks : Boot(t) \/ Poll(t) \/ Step(t) \/ Fail(t)
    \/ \E t \in Tasks, m \in Mails : Handle(t, m)
    \/ \E v \in Versions : LockExpire(v)
    \/ \E i \in Instances : Crash(i)
    \/ Lose

Spec == Init /\ [][Next]_vars

\* Go runs the goroutines, the poller ticks, the waiting timer fires at last,
\* and the relay goes on.  Events may stay unread for ever.
FairSpec ==
    /\ Spec
    /\ \A m \in Mails : WF_vars(Relay(m))
    /\ \A t \in Tasks :
          /\ WF_vars(Boot(t)) /\ WF_vars(Poll(t)) /\ WF_vars(Step(t))
          /\ SF_vars(WaitTimeout(t))

-----------------------------------------------------------------------------

\* Types of the relay, Redis, the processes and their tasks.
TypeOK ==
    /\ now \in 0..MaxTime
    /\ relayed \in [Mails -> Stages]
    /\ detail \subseteq Mails /\ index \subseteq Mails /\ version \in Versions
    /\ lock \in [Versions -> SUBSET (Tasks \union {Left})]
    /\ rightful \subseteq Tasks
    /\ inbox \in [Instances -> SUBSET Mails]
    /\ booted \subseteq Instances
    /\ mutex \in [Instances -> SUBSET Tasks]
    /\ snapshot \in [Instances -> [version : Versions, mails : SUBSET Mails, at : 0..MaxTime,
                                   due : SUBSET Mails]]
    /\ pc \in [Tasks -> {"idle", "version", "lock", "ids", "details", "store", "acquire", "wait",
                         "load", "refillDetail", "refillIndex", "release"}]
    /\ forced \subseteq Tasks /\ waiting \subseteq Tasks
    /\ remote \in [Tasks -> Versions]
    /\ at \in [Tasks -> 0..MaxTime]
    /\ due \in [Tasks -> SUBSET Mails]
    /\ todo \in [Tasks -> SUBSET Mails]
    /\ got \in [Tasks -> SUBSET Mails]
    /\ gone \subseteq {"detail", "index", "version"} /\ losses \in 0..MaxLosses

\* The mails that a refresh of the given time may do without.
MayLack(m, time) == Expire[m] <= time \/ ("detail" \in gone /\ Start[m] > time)

\* refresh reads the version first and the mails after it, the relay writes them
\* the other way round: so a snapshot has every mail that was announced when its
\* version was read and has not expired, while several processes rebuild Redis at
\* the same time.  A detail that Redis has lost costs it at most the mails that
\* had not started, which the rebuild does not ask MySQL for.  Only after a loss
\* of the index may it miss others: refresh trusts an index that is not empty.
\* And it has only mails of MySQL, none of which had expired.
SnapshotCovers ==
    \A i \in Instances :
        LET s == snapshot[i] IN
        /\ "index" \notin gone => \A m \in s.due \ s.mails : MayLack(m, s.at)
        /\ \A m \in s.mails : m \in Published /\ Expire[m] >= s.at

\* While a process runs its snapshot's version never moves back, although a task
\* stores a version it read before it waited for the mutex, unless Redis lost
\* the version.
VersionForward ==
    [][\A i \in booted \intersect booted' :
          snapshot[i].version <= snapshot'[i].version \/ "version" \in gone]_vars

\* The rebuild lock belongs to the task that acquired it until that task releases
\* it or it expires: a task whose own lock expired never deletes another's.
RebuildLockKept == \A t \in rightful : lock[remote[t]] = {t}

\* Once the relay has advanced GlobalMailVersion, polling alone takes every
\* process to it, over losses of mail keys, crashes and abandoned rebuild locks.
VersionConverges ==
    \A i \in Instances :
        (version = EventVersion) ~> (snapshot[i].version = EventVersion \/ "version" \in gone)

\* What the design document says: polling the version takes every announced mail
\* to every process.
MailsConverge ==
    \A i \in Instances, m \in Mails : (m \in Announced) ~> (m \in snapshot[i].mails)
=============================================================================
