-------------------------- MODULE LocalCacheProofs --------------------------
(***************************************************************************)
(* Proofs about LocalCache, for any mails, processes and goroutines, and   *)
(* any number of losses and crashes.                                       *)
(***************************************************************************)
EXTENDS LocalCache, TLAPS

\* A task between Lock and the end of its refresh, between acquiring the rebuild
\* lock or giving it up and releasing it, after it has loaded from MySQL or Redis,
\* and after Redis did not have the mails.
Inside(t) == pc[t] \in {"ids", "details", "store", "acquire", "wait", "load", "refillDetail",
                        "refillIndex", "release"}
Rebuilding(t) == pc[t] \in {"load", "refillDetail", "refillIndex", "release"}
Loaded(t) == pc[t] \in {"refillDetail", "refillIndex", "release", "store"}
Missed(t) == pc[t] \in {"acquire", "wait", "load"}

-----------------------------------------------------------------------------
(* Three invariants over TypeOK: one about the rebuild lock, one about     *)
(* what snapshots hold, one about their versions.                          *)

LockInv ==
    /\ \A t \in rightful : Rebuilding(t)
    /\ RebuildLockKept

\* The relay has put into the index what it has announced, and a detail before it.
Indexed == {m \in Mails : relayed[m] \in {"index", "version", "event"}}
Detailed == {m \in Mails : relayed[m] \in {"detail", "index", "version", "event"}}

\* A task has read the version before the mails.  It goes to MySQL only when no
\* mail of the index is active or a detail is missing, and has then all but the
\* mails that have not started.
Covered(t) ==
    /\ due[t] \subseteq Announced
    /\ \A m \in got[t] \union todo[t] : m \in Published /\ Expire[m] >= at[t]
    /\ pc[t] = "details" \/ Loaded(t) \/ (got[t] = {} /\ todo[t] = {})
    /\ "detail" \notin gone =>
          /\ pc[t] = "details" => todo[t] \subseteq detail
          /\ \A m \in Mails : At(t, "refillIndex", m) => m \in detail
    /\ "index" \notin gone =>
          /\ Missed(t) /\ "detail" \notin gone => \A m \in due[t] : Expire[m] <= at[t]
          /\ pc[t] = "details" => \A m \in due[t] \ (got[t] \union todo[t]) : MayLack(m, at[t])
          /\ Loaded(t) => \A m \in due[t] \ got[t] : MayLack(m, at[t])

CoverInv ==
    /\ index \subseteq Published
    /\ "index" \notin gone => Indexed \subseteq index
    /\ "detail" \notin gone => index \union Detailed \subseteq detail
    /\ \A t \in Tasks : Covered(t)
    /\ SnapshotCovers

\* Before its first refresh ends a process runs one task.
BootsAlone ==
    \A t, u \in Tasks :
        Host[t] = Host[u] /\ Host[t] \notin booted /\ pc[t] # "idle" /\ pc[u] # "idle" => t = u

\* The version is in Redis before any event is sent.
VersionFirst ==
    /\ \A i \in Instances : inbox[i] \subseteq Announced
    /\ Announced # {} => version = EventVersion \/ "version" \in gone

\* A task of the consumer was started by an event, so the version it reads is
\* the event's; any other task that goes on has read one newer than the snapshot,
\* and nobody replaces the snapshot meanwhile.
Timely(t) ==
    /\ Inside(t) => mutex[Host[t]] = {t}
    /\ t \in forced => pc[t] # "idle"
    /\ t \in forced /\ Host[t] \in booted =>
          /\ Announced # {}
          /\ pc[t] # "version" => remote[t] = EventVersion \/ "version" \in gone
    /\ t \notin forced /\ Inside(t) => snapshot[Host[t]].version < remote[t]

VersionInv ==
    /\ BootsAlone /\ VersionFirst
    /\ \A t \in Tasks : Timely(t)

Inv == TypeOK /\ LockInv /\ CoverInv /\ VersionInv

-----------------------------------------------------------------------------
(* What the parts of an action do.                                         *)

Calls == {"idle", "version", "lock", "ids", "details", "store", "acquire", "wait", "load",
          "refillDetail", "refillIndex", "release"}
Snapshots == [version : Versions, mails : SUBSET Mails, at : 0..MaxTime, due : SUBSET Mails]

\* The variables of the tasks have their types.
LocalsOK ==
    /\ pc \in [Tasks -> Calls]
    /\ forced \subseteq Tasks /\ waiting \subseteq Tasks
    /\ remote \in [Tasks -> Versions]
    /\ at \in [Tasks -> 0..MaxTime]
    /\ due \in [Tasks -> SUBSET Mails]
    /\ todo \in [Tasks -> SUBSET Mails]
    /\ got \in [Tasks -> SUBSET Mails]

\* What a step of t leaves alone.
Frame(t) ==
    \A u \in Tasks \ {t} :
        /\ pc'[u] = pc[u] /\ remote'[u] = remote[u] /\ at'[u] = at[u] /\ due'[u] = due[u]
        /\ todo'[u] = todo[u] /\ got'[u] = got[u] /\ (u \in forced' <=> u \in forced)

LEMMA TypeIs ==
    TypeOK <=> /\ now \in 0..MaxTime
               /\ relayed \in [Mails -> Stages]
               /\ detail \subseteq Mails /\ index \subseteq Mails /\ version \in Versions
               /\ lock \in [Versions -> SUBSET (Tasks \union {Left})]
               /\ rightful \subseteq Tasks
               /\ inbox \in [Instances -> SUBSET Mails]
               /\ booted \subseteq Instances
               /\ mutex \in [Instances -> SUBSET Tasks]
               /\ snapshot \in [Instances -> Snapshots]
               /\ LocalsOK
               /\ gone \subseteq {"detail", "index", "version"} /\ losses \in 0..MaxLosses
BY Zenon DEF TypeOK, LocalsOK, Calls, Snapshots

LEMMA TimeStarts == 0 \in 0..MaxTime
BY CacheAssumption

LEMMA HostIs == \A t \in Tasks : Host[t] \in Instances /\ t # Left
BY CacheAssumption, Zenon DEF Left

LEMMA GotoIs ==
    ASSUME LocalsOK, NEW t \in Tasks, NEW call \in Calls, Goto(t, call)
    PROVE  pc' \in [Tasks -> Calls] /\ pc'[t] = call /\ \A u \in Tasks \ {t} : pc'[u] = pc[u]
BY Zenon DEF LocalsOK, Goto

LEMMA DoneIs ==
    ASSUME TypeOK, NEW t \in Tasks, Done(t)
    PROVE  /\ LocalsOK' /\ Frame(t) /\ pc'[t] = "idle" /\ remote'[t] = 0
           /\ at'[t] = 0 /\ due'[t] = {} /\ todo'[t] = {} /\ got'[t] = {}
           /\ forced' = forced \ {t} /\ booted' = booted \union {Host[t]}
           /\ booted' \subseteq Instances /\ mutex' \in [Instances -> SUBSET Tasks]
           /\ \A i \in Instances : i # Host[t] => mutex'[i] = mutex[i]
           /\ mutex'[Host[t]] = mutex[Host[t]] \ {t}
<1>1. /\ LocalsOK /\ Host[t] \in Instances /\ "idle" \in Calls /\ 0 \in Versions
      /\ 0 \in 0..MaxTime
  BY TypeIs, HostIs, TimeStarts, Zenon DEF Calls, Versions
<1>2. pc' \in [Tasks -> Calls] /\ pc'[t] = "idle" /\ \A u \in Tasks \ {t} : pc'[u] = pc[u]
  BY <1>1, GotoIs, Zenon DEF Done
<1>3. /\ remote' \in [Tasks -> Versions] /\ remote'[t] = 0
      /\ \A u \in Tasks \ {t} : remote'[u] = remote[u]
  BY <1>1, Zenon DEF Done, LocalsOK
<1>4. /\ due' \in [Tasks -> SUBSET Mails] /\ due'[t] = {}
      /\ \A u \in Tasks \ {t} : due'[u] = due[u]
  BY <1>1, Zenon DEF Done, LocalsOK
<1>5. /\ todo' \in [Tasks -> SUBSET Mails] /\ todo'[t] = {}
      /\ \A u \in Tasks \ {t} : todo'[u] = todo[u]
  BY <1>1, Zenon DEF Done, LocalsOK
<1>6. /\ got' \in [Tasks -> SUBSET Mails] /\ got'[t] = {}
      /\ \A u \in Tasks \ {t} : got'[u] = got[u]
  BY <1>1, Zenon DEF Done, LocalsOK
<1>7. /\ forced' = forced \ {t} /\ waiting' = waiting \ {t}
      /\ booted' = booted \union {Host[t]} /\ booted' \subseteq Instances
  BY <1>1, Zenon DEF Done, TypeOK
<1>8. /\ mutex' \in [Instances -> SUBSET Tasks]
      /\ \A i \in Instances : i # Host[t] => mutex'[i] = mutex[i]
      /\ mutex'[Host[t]] = mutex[Host[t]] \ {t}
  BY <1>1, Zenon DEF Done, TypeOK
<1>9. /\ at' \in [Tasks -> 0..MaxTime] /\ at'[t] = 0
      /\ \A u \in Tasks \ {t} : at'[u] = at[u]
  BY <1>1, Zenon DEF Done, LocalsOK
<1>10. LocalsOK'
  BY <1>1, <1>2, <1>3, <1>4, <1>5, <1>6, <1>7, <1>9, Zenon DEF LocalsOK
<1>11. Frame(t)
  BY <1>2, <1>3, <1>4, <1>5, <1>6, <1>7, <1>9, Zenon DEF Frame
<1> QED BY <1>2, <1>3, <1>4, <1>5, <1>6, <1>7, <1>8, <1>9, <1>10, <1>11, Zenon

\* The release script touches no lock but the task's own.
LEMMA UnlockIs ==
    ASSUME TypeOK, NEW t \in Tasks, NEW lk \in AfterUnlock(t)
    PROVE  /\ lk \in [Versions -> SUBSET (Tasks \union {Left})]
           /\ \A v \in Versions : t \notin lock[v] => lk[v] = lock[v]
<1>1. remote[t] \in Versions
  BY Zenon DEF TypeOK
<1>2. CASE lk = [lock EXCEPT ![remote[t]] = @ \ {t}]
  BY <1>1, <1>2, Zenon DEF TypeOK
<1>3. CASE t \in lock[remote[t]] /\ lk = [lock EXCEPT ![remote[t]] = {Left}]
  BY <1>1, <1>3, Zenon DEF TypeOK
<1> QED BY <1>2, <1>3, Zenon DEF AfterUnlock

LEMMA RestartIs ==
    ASSUME TypeOK, NEW i \in Instances, NEW lk \in [Versions -> SUBSET (Tasks \union {Left})],
           Restart(i, lk)
    PROVE  /\ LocalsOK'
           /\ \A t \in Tasks : Host[t] = i =>
                 /\ pc'[t] = "idle" /\ remote'[t] = 0 /\ at'[t] = 0 /\ due'[t] = {} /\ todo'[t] = {}
                 /\ got'[t] = {} /\ t \notin forced' /\ t \notin rightful'
           /\ \A t \in Tasks : Host[t] # i =>
                 /\ pc'[t] = pc[t] /\ remote'[t] = remote[t] /\ at'[t] = at[t] /\ due'[t] = due[t]
                 /\ todo'[t] = todo[t] /\ got'[t] = got[t] /\ (t \in forced' <=> t \in forced)
                 /\ (t \in rightful' <=> t \in rightful)
           /\ lock' \in [Versions -> SUBSET (Tasks \union {Left})]
           /\ \A v \in Versions, t \in Tasks : Host[t] # i /\ lk[v] = {t} => lock'[v] = {t}
           /\ rightful' \subseteq rightful /\ forced' \subseteq forced
           /\ booted' = booted \ {i}
           /\ mutex' \in [Instances -> SUBSET Tasks] /\ snapshot' \in [Instances -> Snapshots]
           /\ snapshot'[i] = Empty
           /\ \A j \in Instances \ {i} : mutex'[j] = mutex[j] /\ snapshot'[j] = snapshot[j]
           /\ UNCHANGED <<now, relayed, redis, inbox>>
<1>1. /\ LocalsOK /\ "idle" \in Calls /\ 0 \in Versions /\ 0 \in 0..MaxTime
      /\ Empty \in Snapshots
  BY TypeIs, TimeStarts, Zenon DEF Calls, Versions, Empty, Snapshots
<1>2. /\ pc' \in [Tasks -> Calls]
      /\ \A t \in Tasks : pc'[t] = IF Host[t] = i THEN "idle" ELSE pc[t]
  BY <1>1, Zenon DEF Restart, TasksOf, LocalsOK
<1>3. /\ remote' \in [Tasks -> Versions]
      /\ \A t \in Tasks : remote'[t] = IF Host[t] = i THEN 0 ELSE remote[t]
  BY <1>1, Zenon DEF Restart, TasksOf, LocalsOK
<1>4. /\ due' \in [Tasks -> SUBSET Mails]
      /\ \A t \in Tasks : due'[t] = IF Host[t] = i THEN {} ELSE due[t]
  BY <1>1, Zenon DEF Restart, TasksOf, LocalsOK
<1>5. /\ todo' \in [Tasks -> SUBSET Mails]
      /\ \A t \in Tasks : todo'[t] = IF Host[t] = i THEN {} ELSE todo[t]
  BY <1>1, Zenon DEF Restart, TasksOf, LocalsOK
<1>6. /\ got' \in [Tasks -> SUBSET Mails]
      /\ \A t \in Tasks : got'[t] = IF Host[t] = i THEN {} ELSE got[t]
  BY <1>1, Zenon DEF Restart, TasksOf, LocalsOK
<1>7. /\ forced' \subseteq forced /\ waiting' \subseteq waiting /\ rightful' \subseteq rightful
      /\ booted' = booted \ {i}
      /\ \A t \in Tasks : Host[t] = i => t \notin forced' /\ t \notin rightful'
      /\ \A t \in Tasks : Host[t] # i =>
            (t \in forced' <=> t \in forced) /\ (t \in rightful' <=> t \in rightful)
  BY Zenon DEF Restart, TasksOf
<1>8. /\ lock' \in [Versions -> SUBSET (Tasks \union {Left})]
      /\ \A v \in Versions, t \in Tasks : Host[t] # i /\ lk[v] = {t} => lock'[v] = {t}
  BY Zenon DEF Restart, TasksOf
<1>9. /\ mutex' \in [Instances -> SUBSET Tasks] /\ snapshot' \in [Instances -> Snapshots]
      /\ snapshot'[i] = Empty
      /\ \A j \in Instances \ {i} : mutex'[j] = mutex[j] /\ snapshot'[j] = snapshot[j]
  BY <1>1, TypeIs, Zenon DEF Restart
<1>10. /\ at' \in [Tasks -> 0..MaxTime]
       /\ \A t \in Tasks : at'[t] = IF Host[t] = i THEN 0 ELSE at[t]
  BY <1>1, Zenon DEF Restart, TasksOf, LocalsOK
<1>11. LocalsOK'
  BY <1>1, <1>2, <1>3, <1>4, <1>5, <1>6, <1>7, <1>10, Zenon DEF LocalsOK
<1>12. UNCHANGED <<now, relayed, redis, inbox>>
  BY Zenon DEF Restart
<1> QED BY <1>2, <1>3, <1>4, <1>5, <1>6, <1>7, <1>8, <1>9, <1>10, <1>11, <1>12, Zenon

LEMMA MissIs ==
    ASSUME TypeOK, NEW t \in Tasks, Miss(t), UNCHANGED <<forced, waiting, remote, at, due>>
    PROVE  /\ LocalsOK' /\ Frame(t) /\ pc'[t] \in {"wait", "acquire"}
           /\ todo'[t] = {} /\ got'[t] = {}
           /\ remote'[t] = remote[t] /\ at'[t] = at[t] /\ due'[t] = due[t]
<1>1. LocalsOK /\ {"wait", "acquire"} \subseteq Calls
  BY TypeIs, Zenon DEF Calls
<1>2. PICK call \in {"wait", "acquire"} : Goto(t, call)
  BY Zenon DEF Miss
<1>3. /\ pc' \in [Tasks -> Calls] /\ pc'[t] = call
      /\ \A u \in Tasks \ {t} : pc'[u] = pc[u]
  BY <1>1, <1>2, GotoIs, Zenon
<1>4. /\ todo' \in [Tasks -> SUBSET Mails] /\ todo'[t] = {}
      /\ \A u \in Tasks \ {t} : todo'[u] = todo[u]
  BY <1>1, Zenon DEF Miss, LocalsOK
<1>5. /\ got' \in [Tasks -> SUBSET Mails] /\ got'[t] = {}
      /\ \A u \in Tasks \ {t} : got'[u] = got[u]
  BY <1>1, Zenon DEF Miss, LocalsOK
<1> QED BY <1>1, <1>3, <1>4, <1>5, Zenon DEF LocalsOK, Frame

-----------------------------------------------------------------------------
(* What the actions do.                                                    *)

\* A relay step moves one mail on.
LEMMA RelayIs ==
    ASSUME TypeOK, NEW m \in Mails, Publish(m) \/ Relay(m)
    PROVE  /\ TypeOK' /\ UNCHANGED <<now, locks, booted, mutex, snapshot, pc, locals, loss>>
           /\ Published \subseteq Published' /\ Announced \subseteq Announced'
           /\ \/ UNCHANGED index /\ Indexed' = Indexed
              \/ /\ index' = index \union {m} /\ Indexed' = Indexed \union {m}
                 /\ m \in Published' /\ m \in Detailed
           /\ detail \subseteq detail' /\ Detailed' \subseteq Detailed \union detail'
           /\ \/ Announced' = Announced /\ UNCHANGED version
              \/ version' = EventVersion
           /\ \A i \in Instances : inbox'[i] = inbox[i]
                 \/ (inbox'[i] = inbox[i] \union {m} /\ m \in Announced')
<1>0. relayed \in [Mails -> Stages] /\ EventVersion \in Versions
  BY Zenon DEF TypeOK, EventVersion, Versions
<1> USE DEF Stage, Stages, Published, Announced, Indexed, Detailed
<1>1. CASE Publish(m)
  <2>1. /\ relayed' = [relayed EXCEPT ![m] = "mysql"] /\ relayed[m] = "none"
        /\ UNCHANGED <<redis, inbox>>
        /\ UNCHANGED <<now, locks, booted, mutex, snapshot, pc, locals, loss>>
    BY <1>1, Zenon DEF Publish
  <2>2. TypeOK'
    BY <1>0, <2>1, Zenon DEF TypeOK, redis, locks, locals, loss
  <2> QED BY <1>0, <2>1, <2>2, Zenon DEF redis
<1>2. CASE RelayDetail(m)
  <2>1. /\ relayed' = [relayed EXCEPT ![m] = "detail"] /\ relayed[m] = "mysql"
        /\ detail' = detail \union {m} /\ UNCHANGED <<index, version, inbox>>
        /\ UNCHANGED <<now, locks, booted, mutex, snapshot, pc, locals, loss>>
    BY <1>2, Zenon DEF RelayDetail
  <2>2. TypeOK'
    BY <1>0, <2>1, Zenon DEF TypeOK, locks, locals, loss
  <2> QED BY <1>0, <2>1, <2>2, Zenon
<1>3. CASE RelayIndex(m)
  <2>1. /\ relayed' = [relayed EXCEPT ![m] = "index"] /\ relayed[m] = "detail"
        /\ index' = index \union {m} /\ UNCHANGED <<detail, version, inbox>>
        /\ UNCHANGED <<now, locks, booted, mutex, snapshot, pc, locals, loss>>
    BY <1>3, Zenon DEF RelayIndex
  <2>2. TypeOK'
    BY <1>0, <2>1, Zenon DEF TypeOK, locks, locals, loss
  <2> QED BY <1>0, <2>1, <2>2, Zenon
<1>4. CASE RelayVersion(m)
  <2>1. /\ relayed' = [relayed EXCEPT ![m] = "version"] /\ relayed[m] = "index"
        /\ version' = EventVersion /\ UNCHANGED <<detail, index, inbox>>
        /\ UNCHANGED <<now, locks, booted, mutex, snapshot, pc, locals, loss>>
    BY <1>4, Zenon DEF RelayVersion
  <2>2. TypeOK'
    BY <1>0, <2>1, Zenon DEF TypeOK, locks, locals, loss
  <2> QED BY <1>0, <2>1, <2>2, Zenon
<1>5. CASE RelayEvent(m)
  <2>1. /\ relayed' = [relayed EXCEPT ![m] = "event"] /\ relayed[m] = "version"
        /\ inbox' = [i \in Instances |-> inbox[i] \union {m}]
        /\ UNCHANGED <<detail, index, version>>
        /\ UNCHANGED <<now, locks, booted, mutex, snapshot, pc, locals, loss>>
    BY <1>5, Zenon DEF RelayEvent, redis
  <2>2. TypeOK'
    BY <1>0, <2>1, Zenon DEF TypeOK, locks, locals, loss
  <2> QED BY <1>0, <2>1, <2>2, Zenon
<1> QED BY <1>1, <1>2, <1>3, <1>4, <1>5, Zenon DEF Relay

LEMMA BootIs ==
    ASSUME TypeOK, NEW t \in Tasks, Boot(t)
    PROVE  /\ TypeOK' /\ Frame(t) /\ pc'[t] = "version" /\ forced' = forced \union {t}
           /\ Host[t] \notin booted /\ \A u \in Tasks : Host[u] = Host[t] => pc[u] = "idle"
           /\ UNCHANGED <<now, relayed, redis, locks, process, remote, at, due, todo, got, loss>>
<1>1. LocalsOK /\ "version" \in Calls
  BY TypeIs, Zenon DEF Calls
<1>2. /\ pc' \in [Tasks -> Calls] /\ pc'[t] = "version"
      /\ \A u \in Tasks \ {t} : pc'[u] = pc[u]
  BY <1>1, GotoIs, Zenon DEF Boot
<1>3. LocalsOK' /\ Frame(t)
  BY <1>1, <1>2, Zenon DEF Boot, LocalsOK, Frame
<1>4. TypeOK'
  BY <1>3, TypeIs, Zenon DEF Boot, redis, locks, process, loss, TypeOK, LocalsOK, Calls
<1> QED BY <1>2, <1>3, <1>4, Zenon DEF Boot

LEMMA PollIs ==
    ASSUME TypeOK, NEW t \in Tasks, Poll(t)
    PROVE  /\ TypeOK' /\ Frame(t) /\ pc[t] = "idle" /\ pc'[t] = "version"
           /\ Host[t] \in booted
           /\ UNCHANGED <<now, relayed, redis, locks, process, locals, loss>>
<1>1. LocalsOK /\ "version" \in Calls
  BY TypeIs, Zenon DEF Calls
<1>2. /\ pc' \in [Tasks -> Calls] /\ pc'[t] = "version"
      /\ \A u \in Tasks \ {t} : pc'[u] = pc[u]
  BY <1>1, GotoIs, Zenon DEF Poll
<1>3. Frame(t)
  BY <1>2, Zenon DEF Poll, locals, Frame
<1>4. TypeOK'
  BY <1>2, Zenon DEF Poll, redis, locks, process, locals, loss, TypeOK, Calls
<1> QED BY <1>2, <1>3, <1>4, Zenon DEF Poll

LEMMA HandleIs ==
    ASSUME TypeOK, NEW t \in Tasks, NEW m \in Mails, Handle(t, m)
    PROVE  /\ TypeOK' /\ Frame(t) /\ pc[t] = "idle" /\ Host[t] \in booted /\ m \in inbox[Host[t]]
           /\ \A i \in Instances : inbox'[i] \subseteq inbox[i]
           /\ \/ UNCHANGED <<pc, forced>>
              \/ pc'[t] = "version" /\ forced' = forced \union {t}
           /\ UNCHANGED <<now, relayed, redis, locks, booted, mutex, snapshot, remote, at, due,
                          todo, got, loss>>
<1>1. LocalsOK /\ "version" \in Calls /\ Host[t] \in Instances
  BY TypeIs, HostIs, Zenon DEF Calls
<1>2. /\ inbox' \in [Instances -> SUBSET Mails]
      /\ \A i \in Instances : inbox'[i] \subseteq inbox[i]
  BY <1>1, Zenon DEF Handle, TypeOK
<1>3. CASE UNCHANGED <<pc, forced>>
  <2>1. TypeOK'
    BY <1>2, <1>3, Zenon DEF Handle, redis, locks, loss, TypeOK
  <2> QED BY <1>2, <1>3, <2>1, Zenon DEF Handle, Frame
<1>4. CASE Goto(t, "version") /\ forced' = forced \union {t}
  <2>1. /\ pc' \in [Tasks -> Calls] /\ pc'[t] = "version"
        /\ \A u \in Tasks \ {t} : pc'[u] = pc[u]
    BY <1>1, <1>4, GotoIs, Zenon
  <2>2. TypeOK'
    BY <1>2, <1>4, <2>1, Zenon DEF Handle, redis, locks, loss, TypeOK, Calls
  <2>3. Frame(t)
    BY <1>4, <2>1, Zenon DEF Handle, Frame
  <2> QED BY <1>2, <1>4, <2>1, <2>2, <2>3, Zenon DEF Handle
<1> QED BY <1>3, <1>4, Zenon DEF Handle

LEMMA GetVersionIs ==
    ASSUME TypeOK, NEW t \in Tasks, GetGlobalMailVersion(t)
    PROVE  /\ TypeOK' /\ Frame(t) /\ pc[t] = "version"
           /\ \/ Done(t) /\ UNCHANGED <<inbox, snapshot>>
              \/ /\ pc'[t] = "lock" /\ remote'[t] = version /\ due'[t] = Announced
                 /\ UNCHANGED <<process, forced, todo, got>>
           /\ UNCHANGED <<now, relayed, redis, locks, loss>>
<1>1. LocalsOK /\ "lock" \in Calls /\ Announced \subseteq Mails /\ version \in Versions
  BY TypeIs, Zenon DEF Calls, Announced
<1>2. CASE Done(t) /\ UNCHANGED <<inbox, snapshot>>
  <2>1. TypeOK'
    BY <1>2, DoneIs, TypeIs, Zenon
       DEF GetGlobalMailVersion, redis, locks, loss, TypeOK, LocalsOK, Calls
  <2> QED BY <1>2, <2>1, DoneIs, Zenon DEF GetGlobalMailVersion
<1>3. CASE /\ Goto(t, "lock")
           /\ remote' = [remote EXCEPT ![t] = version]
           /\ due' = [due EXCEPT ![t] = Announced]
           /\ UNCHANGED <<process, forced, waiting, at, todo, got>>
  <2>1. /\ pc' \in [Tasks -> Calls] /\ pc'[t] = "lock"
        /\ \A u \in Tasks \ {t} : pc'[u] = pc[u]
    BY <1>1, <1>3, GotoIs, Zenon
  <2>2. /\ remote' \in [Tasks -> Versions] /\ remote'[t] = version
        /\ \A u \in Tasks \ {t} : remote'[u] = remote[u]
    BY <1>1, <1>3, Zenon DEF LocalsOK
  <2>3. /\ due' \in [Tasks -> SUBSET Mails] /\ due'[t] = Announced
        /\ \A u \in Tasks \ {t} : due'[u] = due[u]
    BY <1>1, <1>3, Zenon DEF LocalsOK
  <2>4. TypeOK'
    BY <1>3, <2>1, <2>2, <2>3, Zenon
       DEF GetGlobalMailVersion, redis, locks, process, loss, TypeOK, Calls
  <2>5. Frame(t)
    BY <1>3, <2>1, <2>2, <2>3, Zenon DEF Frame
  <2> QED BY <1>3, <2>1, <2>2, <2>3, <2>4, <2>5, Zenon DEF GetGlobalMailVersion
<1> QED BY <1>2, <1>3, Zenon DEF GetGlobalMailVersion

LEMMA LockIs ==
    ASSUME TypeOK, NEW t \in Tasks, Lock(t)
    PROVE  /\ TypeOK' /\ Frame(t) /\ pc[t] = "lock" /\ mutex[Host[t]] = {}
           /\ \/ Done(t)
              \/ /\ pc'[t] = "ids" /\ ~Current(t, remote[t])
                 /\ mutex'[Host[t]] = {t}
                 /\ \A i \in Instances : i # Host[t] => mutex'[i] = mutex[i]
                 /\ UNCHANGED <<booted, forced, remote, due, todo, got>>
           /\ UNCHANGED <<now, relayed, redis, locks, inbox, snapshot, loss>>
<1>1. LocalsOK /\ "ids" \in Calls /\ Host[t] \in Instances
  BY TypeIs, HostIs, Zenon DEF Calls
<1>2. CASE Done(t)
  <2>1. TypeOK'
    BY <1>2, DoneIs, TypeIs, Zenon DEF Lock, redis, locks, loss, TypeOK, LocalsOK, Calls
  <2> QED BY <1>2, <2>1, DoneIs, Zenon DEF Lock
<1>3. CASE /\ ~Current(t, remote[t]) /\ Goto(t, "ids")
           /\ mutex' = [mutex EXCEPT ![Host[t]] = {t}]
           /\ at' = [at EXCEPT ![t] = now]
           /\ UNCHANGED <<booted, forced, waiting, remote, due, todo, got>>
  <2>1. /\ pc' \in [Tasks -> Calls] /\ pc'[t] = "ids"
        /\ \A u \in Tasks \ {t} : pc'[u] = pc[u]
    BY <1>1, <1>3, GotoIs, Zenon
  <2>2. /\ mutex' \in [Instances -> SUBSET Tasks] /\ mutex'[Host[t]] = {t}
        /\ \A i \in Instances : i # Host[t] => mutex'[i] = mutex[i]
    BY <1>1, <1>3, Zenon DEF TypeOK
  <2>3. at' \in [Tasks -> 0..MaxTime] /\ \A u \in Tasks \ {t} : at'[u] = at[u]
    BY <1>3, Zenon DEF TypeOK
  <2>4. TypeOK'
    BY <1>3, <2>1, <2>2, <2>3, Zenon DEF Lock, redis, locks, loss, TypeOK, Calls
  <2>5. Frame(t)
    BY <1>3, <2>1, <2>3, Zenon DEF Frame
  <2> QED BY <1>3, <2>1, <2>2, <2>4, <2>5, Zenon DEF Lock
<1> QED BY <1>2, <1>3, Zenon DEF Lock

\* The steps that only read from Redis or MySQL.
LEMMA IdsIs ==
    ASSUME TypeOK, NEW t \in Tasks, GetActiveGlobalMailIDs(t)
    PROVE  /\ TypeOK' /\ Frame(t) /\ pc[t] = "ids"
           /\ remote'[t] = remote[t] /\ at'[t] = at[t] /\ due'[t] = due[t]
           /\ \/ /\ pc'[t] \in {"wait", "acquire"} /\ todo'[t] = {} /\ got'[t] = {}
                 /\ ActiveIDs(at[t]) = {}
              \/ pc'[t] = "details" /\ todo'[t] = ActiveIDs(at[t]) /\ got'[t] = got[t]
           /\ UNCHANGED <<now, relayed, redis, locks, process, forced, loss>>
<1>1. LocalsOK /\ "details" \in Calls /\ ActiveIDs(at[t]) \subseteq Mails
  BY TypeIs, Zenon DEF Calls, ActiveIDs
<1>2. CASE ActiveIDs(at[t]) = {} /\ Miss(t)
  <2>1. LocalsOK' /\ Frame(t) /\ pc'[t] \in {"wait", "acquire"} /\ todo'[t] = {} /\ got'[t] = {}
        /\ remote'[t] = remote[t] /\ at'[t] = at[t] /\ due'[t] = due[t]
    BY <1>2, MissIs, Zenon DEF GetActiveGlobalMailIDs
  <2>2. TypeOK'
    BY <2>1, TypeIs, Zenon
       DEF GetActiveGlobalMailIDs, redis, locks, process, loss, TypeOK, LocalsOK, Calls
  <2> QED BY <1>2, <2>1, <2>2, Zenon DEF GetActiveGlobalMailIDs
<1>3. CASE /\ Goto(t, "details") /\ todo' = [todo EXCEPT ![t] = ActiveIDs(at[t])]
           /\ UNCHANGED got
  <2>1. /\ pc' \in [Tasks -> Calls] /\ pc'[t] = "details"
        /\ \A u \in Tasks \ {t} : pc'[u] = pc[u]
    BY <1>1, <1>3, GotoIs, Zenon
  <2>2. /\ todo' \in [Tasks -> SUBSET Mails] /\ todo'[t] = ActiveIDs(at[t])
        /\ \A u \in Tasks \ {t} : todo'[u] = todo[u]
    BY <1>1, <1>3, Zenon DEF LocalsOK
  <2>3. TypeOK'
    BY <1>3, <2>1, <2>2, Zenon
       DEF GetActiveGlobalMailIDs, redis, locks, process, loss, TypeOK, Calls
  <2>4. Frame(t)
    BY <1>3, <2>1, <2>2, Zenon DEF GetActiveGlobalMailIDs, Frame
  <2> QED BY <1>3, <2>1, <2>2, <2>3, <2>4, Zenon DEF GetActiveGlobalMailIDs
<1> QED BY <1>2, <1>3, Zenon DEF GetActiveGlobalMailIDs

LEMMA GetMailIs ==
    ASSUME TypeOK, NEW t \in Tasks, NEW m \in Mails, GetGlobalMail(t, m)
    PROVE  /\ TypeOK' /\ Frame(t) /\ pc[t] = "details" /\ m \in todo[t]
           /\ remote'[t] = remote[t] /\ at'[t] = at[t] /\ due'[t] = due[t]
           /\ \/ /\ pc'[t] \in {"wait", "acquire"} /\ todo'[t] = {} /\ got'[t] = {}
                 /\ m \notin detail
              \/ /\ todo'[t] = todo[t] \ {m} /\ got'[t] = got[t] \union {m}
                 /\ \/ pc'[t] = "details"
                    \/ pc'[t] = "store" /\ todo[t] = {m}
           /\ UNCHANGED <<now, relayed, redis, locks, process, forced, loss>>
<1>1. LocalsOK /\ {"details", "store"} \subseteq Calls
  BY TypeIs, Zenon DEF Calls
<1>2. CASE m \notin detail /\ Miss(t)
  <2>1. LocalsOK' /\ Frame(t) /\ pc'[t] \in {"wait", "acquire"} /\ todo'[t] = {} /\ got'[t] = {}
        /\ remote'[t] = remote[t] /\ at'[t] = at[t] /\ due'[t] = due[t]
    BY <1>2, MissIs, Zenon DEF GetGlobalMail
  <2>2. TypeOK'
    BY <2>1, TypeIs, Zenon
       DEF GetGlobalMail, redis, locks, process, loss, TypeOK, LocalsOK, Calls
  <2> QED BY <1>2, <2>1, <2>2, Zenon DEF GetGlobalMail, At
<1>3. CASE /\ got' = [got EXCEPT ![t] = @ \union {m}]
           /\ todo' = [todo EXCEPT ![t] = @ \ {m}]
           /\ Goto(t, IF todo[t] = {m} THEN "store" ELSE "details")
  <2>1. PICK call \in {"store", "details"} :
            Goto(t, call) /\ (call = "store" => todo[t] = {m})
    BY <1>3, Zenon
  <2>2. /\ pc' \in [Tasks -> Calls] /\ pc'[t] = call
        /\ \A u \in Tasks \ {t} : pc'[u] = pc[u]
    BY <1>1, <2>1, GotoIs, Zenon
  <2>3. /\ todo' \in [Tasks -> SUBSET Mails] /\ todo'[t] = todo[t] \ {m}
        /\ \A u \in Tasks \ {t} : todo'[u] = todo[u]
    BY <1>1, <1>3, Zenon DEF LocalsOK
  <2>4. /\ got' \in [Tasks -> SUBSET Mails] /\ got'[t] = got[t] \union {m}
        /\ \A u \in Tasks \ {t} : got'[u] = got[u]
    BY <1>1, <1>3, Zenon DEF LocalsOK
  <2>5. TypeOK'
    BY <2>2, <2>3, <2>4, Zenon DEF GetGlobalMail, redis, locks, process, loss, TypeOK, Calls
  <2>6. Frame(t)
    BY <2>2, <2>3, <2>4, Zenon DEF GetGlobalMail, Frame
  <2> QED BY <2>1, <2>2, <2>3, <2>4, <2>5, <2>6, Zenon DEF GetGlobalMail, At
<1> QED BY <1>2, <1>3, Zenon DEF GetGlobalMail

LEMMA StoreIs ==
    ASSUME TypeOK, NEW t \in Tasks, Store(t)
    PROVE  /\ TypeOK' /\ Done(t) /\ pc[t] = "store"
           /\ snapshot'[Host[t]] =
                [version |-> remote[t], mails |-> got[t], at |-> at[t], due |-> due[t]]
           /\ \A i \in Instances : i # Host[t] => snapshot'[i] = snapshot[i]
           /\ UNCHANGED <<now, relayed, redis, locks, inbox, loss>>
<1>1. LocalsOK /\ Host[t] \in Instances /\ snapshot \in [Instances -> Snapshots]
  BY TypeIs, HostIs, Zenon
<1>2. [version |-> remote[t], mails |-> got[t], at |-> at[t], due |-> due[t]] \in Snapshots
  BY <1>1, Zenon DEF Snapshots, LocalsOK
<1>3. /\ snapshot' \in [Instances -> Snapshots]
      /\ snapshot'[Host[t]] =
           [version |-> remote[t], mails |-> got[t], at |-> at[t], due |-> due[t]]
      /\ \A i \in Instances : i # Host[t] => snapshot'[i] = snapshot[i]
  BY <1>1, <1>2, Zenon DEF Store
<1>4. TypeOK'
  BY <1>3, DoneIs, TypeIs, Zenon
     DEF Store, redis, locks, loss, TypeOK, LocalsOK, Calls, Snapshots
<1> QED BY <1>3, <1>4, Zenon DEF Store

LEMMA AcquireIs ==
    ASSUME TypeOK, NEW t \in Tasks, TryAcquireGlobalMailRebuildLock(t)
    PROVE  /\ TypeOK' /\ Frame(t) /\ pc[t] = "acquire"
           /\ \/ /\ pc'[t] = "load" /\ lock[remote[t]] = {}
                 /\ lock' = [lock EXCEPT ![remote[t]] = {t}]
                 /\ rightful' = rightful \union {t}
              \/ pc'[t] = "wait" /\ UNCHANGED locks
           /\ UNCHANGED <<now, relayed, redis, process, forced, remote, at, due, todo, got, loss>>
<1>1. LocalsOK /\ {"load", "wait"} \subseteq Calls /\ remote[t] \in Versions
  BY TypeIs, Zenon DEF Calls, LocalsOK
<1>2. CASE /\ lock[remote[t]] = {} /\ lock' = [lock EXCEPT ![remote[t]] = {t}]
           /\ rightful' = rightful \union {t} /\ Goto(t, "load") /\ UNCHANGED waiting
  <2>1. /\ pc' \in [Tasks -> Calls] /\ pc'[t] = "load"
        /\ \A u \in Tasks \ {t} : pc'[u] = pc[u]
    BY <1>1, <1>2, GotoIs, Zenon
  <2>2. lock' \in [Versions -> SUBSET (Tasks \union {Left})]
    BY <1>1, <1>2, Zenon DEF TypeOK
  <2>3. TypeOK'
    BY <1>2, <2>1, <2>2, Zenon
       DEF TryAcquireGlobalMailRebuildLock, redis, process, loss, TypeOK, Calls
  <2>4. Frame(t)
    BY <2>1, Zenon DEF TryAcquireGlobalMailRebuildLock, Frame
  <2> QED BY <1>2, <2>1, <2>3, <2>4, Zenon DEF TryAcquireGlobalMailRebuildLock
<1>3. CASE waiting' = waiting \union {t} /\ Goto(t, "wait") /\ UNCHANGED locks
  <2>1. /\ pc' \in [Tasks -> Calls] /\ pc'[t] = "wait"
        /\ \A u \in Tasks \ {t} : pc'[u] = pc[u]
    BY <1>1, <1>3, GotoIs, Zenon
  <2>2. TypeOK'
    BY <1>3, <2>1, Zenon
       DEF TryAcquireGlobalMailRebuildLock, redis, locks, process, loss, TypeOK, Calls
  <2>3. Frame(t)
    BY <2>1, Zenon DEF TryAcquireGlobalMailRebuildLock, Frame
  <2> QED BY <1>3, <2>1, <2>2, <2>3, Zenon DEF TryAcquireGlobalMailRebuildLock
<1> QED BY <1>2, <1>3, Zenon DEF TryAcquireGlobalMailRebuildLock

LEMMA WaitIs ==
    ASSUME TypeOK, NEW t \in Tasks, WaitTick(t) \/ WaitTimeout(t)
    PROVE  /\ TypeOK' /\ Frame(t) /\ pc[t] = "wait" /\ pc'[t] \in {"ids", "load"}
           /\ UNCHANGED <<now, relayed, redis, locks, process, forced, remote, at, due, todo, got,
                          loss>>
<1>1. LocalsOK /\ {"ids", "load"} \subseteq Calls
  BY TypeIs, Zenon DEF Calls
<1>2. PICK call \in {"ids", "load"} : Goto(t, call)
  BY Zenon DEF WaitTick, WaitTimeout
<1>3. /\ pc' \in [Tasks -> Calls] /\ pc'[t] = call
      /\ \A u \in Tasks \ {t} : pc'[u] = pc[u]
  BY <1>1, <1>2, GotoIs, Zenon
<1>4. /\ pc[t] = "wait" /\ waiting' \subseteq waiting
      /\ UNCHANGED <<now, relayed, redis, locks, process, forced, remote, at, due, todo, got, loss>>
  BY Zenon DEF WaitTick, WaitTimeout, locals
<1>5. TypeOK'
  BY <1>3, <1>4, Zenon DEF redis, locks, process, loss, TypeOK, Calls
<1> QED BY <1>3, <1>4, <1>5, Zenon DEF Frame

LEMMA LoadIs ==
    ASSUME TypeOK, NEW t \in Tasks, GetPublishedGlobalMails(t)
    PROVE  /\ TypeOK' /\ Frame(t) /\ pc[t] = "load" /\ pc'[t] \in {"refillDetail", "release"}
           /\ got'[t] = PublishedAt(at[t]) /\ todo'[t] = PublishedAt(at[t])
           /\ UNCHANGED <<now, relayed, redis, locks, process, forced, remote, at, due, loss>>
<1>1. LocalsOK /\ {"refillDetail", "release"} \subseteq Calls
      /\ PublishedAt(at[t]) \subseteq Mails
  BY TypeIs, Zenon DEF Calls, PublishedAt, Published
<1>2. PICK call \in {"refillDetail", "release"} : Goto(t, call)
  BY Zenon DEF GetPublishedGlobalMails
<1>3. /\ pc' \in [Tasks -> Calls] /\ pc'[t] = call
      /\ \A u \in Tasks \ {t} : pc'[u] = pc[u]
  BY <1>1, <1>2, GotoIs, Zenon
<1>4. /\ todo' \in [Tasks -> SUBSET Mails] /\ todo'[t] = PublishedAt(at[t])
      /\ \A u \in Tasks \ {t} : todo'[u] = todo[u]
  BY <1>1, Zenon DEF GetPublishedGlobalMails, LocalsOK
<1>5. /\ got' \in [Tasks -> SUBSET Mails] /\ got'[t] = PublishedAt(at[t])
      /\ \A u \in Tasks \ {t} : got'[u] = got[u]
  BY <1>1, Zenon DEF GetPublishedGlobalMails, LocalsOK
<1>6. TypeOK'
  BY <1>3, <1>4, <1>5, Zenon
     DEF GetPublishedGlobalMails, redis, locks, process, loss, TypeOK, Calls
<1>7. Frame(t)
  BY <1>3, <1>4, <1>5, Zenon DEF GetPublishedGlobalMails, Frame
<1> QED BY <1>3, <1>4, <1>5, <1>6, <1>7, Zenon DEF GetPublishedGlobalMails

LEMMA RefillIs ==
    ASSUME TypeOK, NEW t \in Tasks, NEW m \in Mails, RefillDetail(t, m) \/ RefillIndex(t, m)
    PROVE  /\ TypeOK' /\ Frame(t) /\ pc[t] \in {"refillDetail", "refillIndex"} /\ m \in todo[t]
           /\ pc'[t] \in {"refillDetail", "refillIndex", "release"}
           /\ detail \subseteq detail' /\ todo'[t] \subseteq todo[t]
           /\ \/ /\ index' = index /\ m \in detail' /\ todo'[t] = todo[t]
                 /\ At(t, "refillDetail", m)
              \/ index' = index \union {m} /\ At(t, "refillIndex", m) /\ pc'[t] # "refillIndex"
           /\ UNCHANGED <<now, relayed, version, locks, process, forced, remote, at, due, got,
                          loss>>
<1>1. LocalsOK /\ {"refillDetail", "refillIndex", "release"} \subseteq Calls
  BY TypeIs, Zenon DEF Calls
<1>2. PICK call \in {"refillDetail", "refillIndex", "release"} :
          Goto(t, call) /\ (RefillIndex(t, m) => call # "refillIndex")
  <2>1. CASE RefillDetail(t, m)
    <3>1. ~RefillIndex(t, m)
      BY <2>1, Zenon DEF RefillDetail, RefillIndex, At
    <3> QED BY <2>1, <3>1, Zenon DEF RefillDetail
  <2>2. CASE RefillIndex(t, m)
    BY <2>2, Zenon DEF RefillIndex
  <2> QED BY <2>1, <2>2, Zenon
<1>3. /\ pc' \in [Tasks -> Calls] /\ pc'[t] = call
      /\ \A u \in Tasks \ {t} : pc'[u] = pc[u]
  BY <1>1, <1>2, GotoIs, Zenon
<1>4. /\ todo' \in [Tasks -> SUBSET Mails] /\ todo'[t] \subseteq todo[t]
      /\ \A u \in Tasks \ {t} : todo'[u] = todo[u]
  BY <1>1, Zenon DEF RefillDetail, RefillIndex, locals, LocalsOK
<1>5. /\ detail \subseteq detail' /\ detail' \subseteq detail \union {m} /\ waiting' = waiting
      /\ UNCHANGED <<now, relayed, version, locks, process, forced, remote, at, due, got, loss>>
      /\ pc[t] \in {"refillDetail", "refillIndex"} /\ m \in todo[t]
  BY Zenon DEF RefillDetail, RefillIndex, locals, At
<1>6. \/ /\ index' = index /\ m \in detail' /\ todo'[t] = todo[t] /\ At(t, "refillDetail", m)
      \/ index' = index \union {m} /\ At(t, "refillIndex", m) /\ pc'[t] # "refillIndex"
  BY <1>2, <1>3, Zenon DEF RefillDetail, RefillIndex, locals
<1>7. detail' \subseteq Mails /\ index' \subseteq Mails
  BY <1>5, <1>6, Zenon DEF TypeOK
<1>8. TypeOK'
  BY <1>3, <1>4, <1>5, <1>7, Zenon DEF locks, process, loss, TypeOK, Calls
<1>9. Frame(t)
  BY <1>3, <1>4, <1>5, Zenon DEF Frame
<1> QED BY <1>3, <1>4, <1>5, <1>6, <1>8, <1>9, Zenon

LEMMA ReleaseIs ==
    ASSUME TypeOK, NEW t \in Tasks, Release(t)
    PROVE  /\ TypeOK' /\ Frame(t) /\ pc[t] = "release" /\ pc'[t] = "store"
           /\ lock' \in AfterUnlock(t) /\ rightful' = rightful \ {t}
           /\ UNCHANGED <<now, relayed, redis, process, locals, loss>>
<1>1. LocalsOK /\ "store" \in Calls
  BY TypeIs, Zenon DEF Calls
<1>2. /\ pc' \in [Tasks -> Calls] /\ pc'[t] = "store"
      /\ \A u \in Tasks \ {t} : pc'[u] = pc[u]
  BY <1>1, GotoIs, Zenon DEF Release
<1>3. lock' \in [Versions -> SUBSET (Tasks \union {Left})]
  BY UnlockIs, Zenon DEF Release
<1>4. TypeOK'
  BY <1>2, <1>3, Zenon DEF Release, redis, process, locals, loss, TypeOK, Calls
<1> QED BY <1>2, <1>4, Zenon DEF Release, Frame, locals

\* A failure ends the refresh, or the process.
LEMMA FailIs ==
    ASSUME TypeOK, NEW t \in Tasks, Fail(t)
    PROVE  /\ TypeOK' /\ UNCHANGED loss
           /\ \/ \E lk \in AfterUnlock(t) : Restart(Host[t], lk)
              \/ /\ lock' \in AfterUnlock(t) /\ rightful' = rightful \ {t} /\ Done(t)
                 /\ UNCHANGED <<now, relayed, redis, inbox, snapshot>>
<1>1. Host[t] \in Instances
  BY HostIs, Zenon
<1>2. CASE \E lk \in AfterUnlock(t) : Restart(Host[t], lk)
  <2>1. PICK lk \in AfterUnlock(t) : Restart(Host[t], lk)
    BY <1>2, Zenon
  <2>2. lk \in [Versions -> SUBSET (Tasks \union {Left})]
    BY UnlockIs, Zenon
  <2>3. TypeOK'
    BY <1>1, <2>1, <2>2, RestartIs
       DEF Fail, redis, loss, TypeOK, LocalsOK, Calls, Snapshots
  <2> QED BY <2>1, <2>3, Zenon DEF Fail
<1>3. CASE /\ lock' \in AfterUnlock(t) /\ rightful' = rightful \ {t} /\ Done(t)
           /\ UNCHANGED <<now, relayed, redis, inbox, snapshot>>
  <2>1. lock' \in [Versions -> SUBSET (Tasks \union {Left})]
    BY <1>3, UnlockIs, Zenon
  <2>2. TypeOK'
    BY <1>3, <2>1, DoneIs, Zenon DEF Fail, redis, loss, TypeOK, LocalsOK, Calls
  <2> QED BY <1>3, <2>2, Zenon DEF Fail
<1> QED BY <1>2, <1>3, Zenon DEF Fail

LEMMA TickIs ==
    ASSUME TypeOK, Tick
    PROVE  TypeOK' /\ UNCHANGED <<relayed, redis, locks, process, pc, locals, loss>>
<1>1. now' \in 0..MaxTime
  BY CacheAssumption DEF Tick, TypeOK
<1> QED BY <1>1, Zenon DEF Tick, TypeOK, redis, locks, process, locals, loss

LEMMA LossTypes ==
    ASSUME TypeOK, Lose \/ (\E v \in Versions : LockExpire(v)) \/ (\E i \in Instances : Crash(i))
    PROVE  TypeOK'
<1>1. CASE Lose
  <2>1. losses' \in 0..MaxLosses /\ 0 \in Versions
    BY <1>1, CacheAssumption DEF Lose, TypeOK, Versions
  <2> QED BY <1>1, <2>1, Zenon DEF Lose, TypeOK, locks, process, locals
<1>2. ASSUME NEW v \in Versions, LockExpire(v) PROVE TypeOK'
  BY <1>2, Zenon DEF LockExpire, TypeOK, redis, process, locals, loss
<1>3. ASSUME NEW i \in Instances, Crash(i) PROVE TypeOK'
  <2>1. losses' \in 0..MaxLosses /\ gone' = gone
    BY <1>3, CacheAssumption DEF Crash, TypeOK
  <2>2. lock \in [Versions -> SUBSET (Tasks \union {Left})] /\ Restart(i, lock)
    BY <1>3, Zenon DEF Crash, TypeOK
  <2> QED BY <2>1, <2>2, RestartIs DEF redis, TypeOK, LocalsOK, Calls, Snapshots
<1> QED BY <1>1, <1>2, <1>3, Zenon

-----------------------------------------------------------------------------
(* The types, and the rebuild lock.                                        *)

LEMMA TypeStep ==
    ASSUME TypeOK, [Next]_vars
    PROVE  TypeOK'
<1>1. CASE UNCHANGED vars
  BY <1>1, Zenon DEF vars, redis, locks, process, locals, loss, TypeOK
<1>2. ASSUME NEW t \in Tasks, Step(t) PROVE TypeOK'
  BY <1>2, GetVersionIs, LockIs, IdsIs, GetMailIs, RefillIs, AcquireIs, WaitIs, LoadIs,
     ReleaseIs, StoreIs, Zenon DEF Step
<1> QED BY <1>1, <1>2, TickIs, RelayIs, BootIs, PollIs, HandleIs, FailIs, LossTypes, Zenon
    DEF Next

\* A step that is not about the rebuild lock.
LEMMA LocksStay ==
    ASSUME TypeOK, LockInv, NEW t \in Tasks, Frame(t), UNCHANGED locks,
           Rebuilding(t) => Rebuilding(t)' /\ remote'[t] = remote[t]
    PROVE  LockInv'
<1> SUFFICES ASSUME NEW u \in rightful' PROVE Rebuilding(u)' /\ lock'[remote'[u]] = {u}
  BY Zenon DEF LockInv, RebuildLockKept
<1>1. u \in Tasks /\ Rebuilding(u) /\ lock[remote[u]] = {u}
  BY Zenon DEF locks, TypeOK, LockInv, RebuildLockKept
<1>2. CASE u = t
  BY <1>1, <1>2, Zenon DEF locks
<1>3. CASE u # t
  BY <1>1, <1>3, Zenon DEF Frame, locks, Rebuilding
<1> QED BY <1>2, <1>3, Zenon

\* A step that runs the release script.
LEMMA LocksReleased ==
    ASSUME TypeOK, LockInv, NEW t \in Tasks, Frame(t), NEW lk \in AfterUnlock(t), lock' = lk,
           rightful' = rightful \ {t}
    PROVE  LockInv'
<1> SUFFICES ASSUME NEW u \in rightful' PROVE Rebuilding(u)' /\ lock'[remote'[u]] = {u}
  BY Zenon DEF LockInv, RebuildLockKept
<1>1. u \in Tasks \ {t} /\ remote[u] \in Versions /\ Rebuilding(u) /\ lock[remote[u]] = {u}
  BY Zenon DEF TypeOK, LockInv, RebuildLockKept
<1>2. lk[remote[u]] = lock[remote[u]]
  BY <1>1, UnlockIs
<1> QED BY <1>1, <1>2, Zenon DEF Frame, Rebuilding

\* A process ends, and leaves the locks lk of other processes alone.
LEMMA LocksRestart ==
    ASSUME TypeOK, LockInv, NEW i \in Instances,
           NEW lk \in [Versions -> SUBSET (Tasks \union {Left})], Restart(i, lk),
           \A u \in Tasks : u \in rightful /\ Host[u] # i => lk[remote[u]] = {u}
    PROVE  LockInv'
<1> SUFFICES ASSUME NEW u \in rightful' PROVE Rebuilding(u)' /\ lock'[remote'[u]] = {u}
  BY Zenon DEF LockInv, RebuildLockKept
<1>1. u \in rightful /\ u \in Tasks
  BY RestartIs, Zenon DEF TypeOK
<1>2. Host[u] # i
  BY <1>1, RestartIs, Zenon
<1>3. Rebuilding(u) /\ lk[remote[u]] = {u} /\ remote[u] \in Versions
  BY <1>1, <1>2, Zenon DEF LockInv, TypeOK
<1>4. pc'[u] = pc[u] /\ remote'[u] = remote[u] /\ lock'[remote[u]] = {u}
  BY <1>1, <1>2, <1>3, RestartIs
<1> QED BY <1>3, <1>4, Zenon DEF Rebuilding

LEMMA LockFail ==
    ASSUME TypeOK, LockInv, NEW t \in Tasks, Fail(t)
    PROVE  LockInv'
<1>1. ASSUME NEW lk \in AfterUnlock(t), Restart(Host[t], lk) PROVE LockInv'
  <2>1. lk \in [Versions -> SUBSET (Tasks \union {Left})] /\ Host[t] \in Instances
    BY UnlockIs, HostIs, Zenon
  <2>2. ASSUME NEW u \in Tasks, u \in rightful, Host[u] # Host[t] PROVE lk[remote[u]] = {u}
    <3>1. lock[remote[u]] = {u} /\ u # t /\ remote[u] \in Versions
      BY <2>2, Zenon DEF LockInv, RebuildLockKept, TypeOK
    <3> QED BY <3>1, UnlockIs
  <2> QED BY <1>1, <2>1, <2>2, LocksRestart, Zenon
<1>2. ASSUME lock' \in AfterUnlock(t), rightful' = rightful \ {t}, Done(t) PROVE LockInv'
  <2>1. PICK lk \in AfterUnlock(t) : lock' = lk
    BY <1>2, Zenon
  <2> QED BY <1>2, <2>1, DoneIs, LocksReleased, Zenon
<1> QED BY <1>1, <1>2, FailIs, Zenon

LEMMA LockAcquire ==
    ASSUME TypeOK, LockInv, NEW t \in Tasks, TryAcquireGlobalMailRebuildLock(t)
    PROVE  LockInv'
<1>1. CASE /\ pc'[t] = "load" /\ lock[remote[t]] = {}
           /\ lock' = [lock EXCEPT ![remote[t]] = {t}] /\ rightful' = rightful \union {t}
  <2> SUFFICES ASSUME NEW u \in rightful' PROVE Rebuilding(u)' /\ lock'[remote'[u]] = {u}
    BY Zenon DEF LockInv, RebuildLockKept
  <2>1. remote' = remote /\ remote[t] \in Versions
    BY AcquireIs, Zenon DEF TypeOK
  <2>2. CASE u = t
    BY <1>1, <2>1, <2>2, Zenon DEF Rebuilding, TypeOK
  <2>3. CASE u # t
    <3>1. u \in Tasks /\ Rebuilding(u) /\ lock[remote[u]] = {u} /\ remote[u] \in Versions
      BY <1>1, <2>3, Zenon DEF LockInv, RebuildLockKept, TypeOK
    <3>2. pc'[u] = pc[u] /\ remote[u] # remote[t]
      BY <1>1, <2>3, <3>1, AcquireIs, Zenon DEF Frame
    <3> QED BY <1>1, <2>1, <3>1, <3>2, Zenon DEF Rebuilding, TypeOK
  <2> QED BY <2>2, <2>3, Zenon
<1>2. CASE UNCHANGED locks
  <2>1. ~Rebuilding(t) /\ Frame(t)
    BY AcquireIs, Zenon DEF Rebuilding
  <2> QED BY <1>2, <2>1, LocksStay, Zenon
<1> QED BY <1>1, <1>2, AcquireIs, Zenon

LEMMA LockStep ==
    ASSUME TypeOK, LockInv, [Next]_vars
    PROVE  LockInv'
<1>1. CASE UNCHANGED vars
  BY <1>1, Zenon DEF vars, locks, locals, LockInv, RebuildLockKept, Rebuilding
<1>2. ASSUME NEW m \in Mails, Publish(m) \/ Relay(m) PROVE LockInv'
  BY <1>2, RelayIs, Zenon DEF locks, locals, LockInv, RebuildLockKept, Rebuilding
<1>3. ASSUME NEW t \in Tasks, Boot(t) \/ Poll(t) \/ (\E m \in Mails : Handle(t, m))
      PROVE  LockInv'
  <2>1. Frame(t) /\ UNCHANGED locks /\ ~Rebuilding(t)
    BY <1>3, BootIs, PollIs, HandleIs, Zenon DEF Rebuilding
  <2> QED BY <2>1, LocksStay, Zenon
<1>4. ASSUME NEW t \in Tasks, Step(t) PROVE LockInv'
  <2>1. CASE GetGlobalMailVersion(t) \/ Lock(t) \/ GetActiveGlobalMailIDs(t)
             \/ (\E m \in Mails : GetGlobalMail(t, m)) \/ WaitTick(t) \/ WaitTimeout(t)
    <3>1. Frame(t) /\ UNCHANGED locks /\ ~Rebuilding(t)
      BY <2>1, GetVersionIs, LockIs, IdsIs, GetMailIs, WaitIs, Zenon DEF Rebuilding
    <3> QED BY <3>1, LocksStay, Zenon
  <2>2. CASE GetPublishedGlobalMails(t)
             \/ (\E m \in Mails : RefillDetail(t, m) \/ RefillIndex(t, m))
    <3>1. Frame(t) /\ UNCHANGED locks /\ Rebuilding(t)' /\ remote'[t] = remote[t]
      BY <2>2, LoadIs, RefillIs, Zenon DEF Rebuilding
    <3> QED BY <3>1, LocksStay, Zenon
  <2>3. CASE TryAcquireGlobalMailRebuildLock(t)
    BY <2>3, LockAcquire, Zenon
  <2>4. CASE Release(t)
    <3>1. PICK lk \in AfterUnlock(t) : lock' = lk
      BY <2>4, ReleaseIs, Zenon
    <3> QED BY <2>4, <3>1, ReleaseIs, LocksReleased, Zenon
  <2>5. CASE Store(t)
    <3>1. Frame(t) /\ UNCHANGED locks /\ ~Rebuilding(t)
      BY <2>5, StoreIs, DoneIs, Zenon DEF Rebuilding
    <3> QED BY <3>1, LocksStay, Zenon
  <2> QED BY <1>4, <2>1, <2>2, <2>3, <2>4, <2>5, Zenon DEF Step
<1>5. ASSUME NEW v \in Versions, LockExpire(v) PROVE LockInv'
  BY <1>5, Zenon DEF LockExpire, process, locals, LockInv, RebuildLockKept, Rebuilding, TypeOK
<1>6. ASSUME NEW i \in Instances, Crash(i) PROVE LockInv'
  <2>1. lock \in [Versions -> SUBSET (Tasks \union {Left})] /\ Restart(i, lock)
    BY <1>6, Zenon DEF Crash, TypeOK
  <2>2. \A u \in Tasks : u \in rightful /\ Host[u] # i => lock[remote[u]] = {u}
    BY Zenon DEF LockInv, RebuildLockKept
  <2> QED BY <2>1, <2>2, LocksRestart, Zenon
<1>7. CASE Lose
  BY <1>7, Zenon DEF Lose, locks, locals, LockInv, RebuildLockKept, Rebuilding
<1>8. CASE Tick
  BY <1>8, TickIs, Zenon DEF locks, locals, LockInv, RebuildLockKept, Rebuilding
<1> QED BY <1>1, <1>2, <1>3, <1>4, <1>5, <1>6, <1>7, <1>8, LockFail, Zenon DEF Next

-----------------------------------------------------------------------------
(* What snapshots hold.                                                    *)

LEMMA StagesNest ==
    Announced \subseteq Indexed /\ Indexed \subseteq Detailed /\ Detailed \subseteq Published
BY Zenon DEF Announced, Indexed, Detailed, Published

\* The sets that the relay's stages define stay when the stages do.
LEMMA StagesStay ==
    ASSUME UNCHANGED relayed
    PROVE  /\ Published' = Published /\ Announced' = Announced /\ Indexed' = Indexed
           /\ Detailed' = Detailed
BY Zenon DEF Published, Announced, Indexed, Detailed

\* A task's own part stays when nothing of the task changes and no detail is lost.
LEMMA CoveredStays ==
    ASSUME NEW u \in Tasks, Covered(u), detail \subseteq detail', gone' = gone,
           Published \subseteq Published', Announced \subseteq Announced',
           pc'[u] = pc[u], at'[u] = at[u], due'[u] = due[u], todo'[u] = todo[u], got'[u] = got[u]
    PROVE  Covered(u)'
<1>1. \A m : MayLack(m, at[u])' <=> MayLack(m, at[u])
  BY Zenon DEF MayLack
<1>2. \A m : At(u, "refillIndex", m)' <=> At(u, "refillIndex", m)
  BY Zenon DEF At
<1> QED BY <1>1, <1>2, Zenon DEF Covered, Loaded, Missed, MayLack

\* The snapshots stay, and so does what they must cover.
LEMMA SnapshotsStay ==
    ASSUME CoverInv, UNCHANGED <<gone, snapshot>>, Published \subseteq Published'
    PROVE  SnapshotCovers'
BY Zenon DEF CoverInv, SnapshotCovers, MayLack

\* A step that leaves the relay, the mail keys and the snapshots alone.
LEMMA CoverLocal ==
    ASSUME CoverInv, NEW t \in Tasks, Frame(t),
           UNCHANGED <<relayed, detail, index, gone, snapshot>>, Covered(t)'
    PROVE  CoverInv'
<1>1. /\ Published' = Published /\ Announced' = Announced /\ Indexed' = Indexed
      /\ Detailed' = Detailed
  BY StagesStay, Zenon
<1>2. SnapshotCovers'
  BY <1>1, SnapshotsStay, Zenon
<1>3. ASSUME NEW u \in Tasks, u # t PROVE Covered(u)'
  <2>1. Covered(u) /\ pc'[u] = pc[u] /\ at'[u] = at[u] /\ due'[u] = due[u]
        /\ todo'[u] = todo[u] /\ got'[u] = got[u]
    BY <1>3, Zenon DEF CoverInv, Frame
  <2> QED BY <1>1, <2>1, CoveredStays, Zenon
<1> QED BY <1>1, <1>2, <1>3, Zenon DEF CoverInv

\* A refresh returns.
LEMMA CoverDone ==
    ASSUME TypeOK, CoverInv, NEW t \in Tasks, Done(t), UNCHANGED <<relayed, detail, index, gone>>,
           SnapshotCovers'
    PROVE  CoverInv'
<1>1. /\ Published' = Published /\ Announced' = Announced /\ Indexed' = Indexed
      /\ Detailed' = Detailed
  BY StagesStay, Zenon
<1>2. /\ Frame(t) /\ pc'[t] = "idle" /\ due'[t] = {} /\ todo'[t] = {} /\ got'[t] = {}
  BY DoneIs, Zenon
<1>3. Covered(t)'
  BY <1>2, Zenon DEF Covered, Loaded, Missed, At
<1>4. ASSUME NEW u \in Tasks, u # t PROVE Covered(u)'
  <2>1. Covered(u) /\ pc'[u] = pc[u] /\ at'[u] = at[u] /\ due'[u] = due[u]
        /\ todo'[u] = todo[u] /\ got'[u] = got[u]
    BY <1>2, <1>4, Zenon DEF CoverInv, Frame
  <2> QED BY <1>1, <2>1, CoveredStays, Zenon
<1> QED BY <1>1, <1>3, <1>4, Zenon DEF CoverInv

LEMMA CoverRestart ==
    ASSUME TypeOK, CoverInv, NEW i \in Instances,
           NEW lk \in [Versions -> SUBSET (Tasks \union {Left})], Restart(i, lk), UNCHANGED gone
    PROVE  CoverInv'
<1>1. UNCHANGED <<relayed, detail, index>>
  BY RestartIs, Zenon DEF redis
<1>2. /\ Published' = Published /\ Announced' = Announced /\ Indexed' = Indexed
      /\ Detailed' = Detailed
  BY <1>1, StagesStay, Zenon
<1>3. ASSUME NEW u \in Tasks PROVE Covered(u)'
  <2>1. CASE Host[u] # i
    <3>1. /\ pc'[u] = pc[u] /\ at'[u] = at[u] /\ due'[u] = due[u] /\ todo'[u] = todo[u]
          /\ got'[u] = got[u]
      BY <2>1, RestartIs
    <3>2. Covered(u)
      BY Zenon DEF CoverInv
    <3> QED BY <1>1, <1>2, <3>1, <3>2, CoveredStays, Zenon
  <2>2. CASE Host[u] = i
    <3>1. pc'[u] = "idle" /\ due'[u] = {} /\ todo'[u] = {} /\ got'[u] = {}
      BY <2>2, RestartIs, Zenon
    <3> QED BY <3>1, Zenon DEF Covered, Loaded, Missed, At
  <2> QED BY <2>1, <2>2, Zenon
<1>4. ASSUME NEW j \in Instances
      PROVE  \/ snapshot'[j].due = {} /\ snapshot'[j].mails = {}
             \/ snapshot'[j] = snapshot[j]
  <2>1. CASE j = i
    <3>1. snapshot'[j] = Empty
      BY <2>1, RestartIs, Zenon
    <3> QED BY <3>1 DEF Empty
  <2>2. CASE j # i
    <3>1. snapshot'[j] = snapshot[j]
      BY <2>2, RestartIs
    <3> QED BY <3>1, Zenon
  <2> QED BY <2>1, <2>2, Zenon
<1>5. SnapshotCovers'
  BY <1>2, <1>4, Zenon DEF CoverInv, SnapshotCovers, MayLack
<1> QED BY <1>1, <1>2, <1>3, <1>5, Zenon DEF CoverInv

LEMMA CoverRelay ==
    ASSUME TypeOK, CoverInv, NEW m \in Mails, Publish(m) \/ Relay(m)
    PROVE  CoverInv'
<1>1. /\ Published \subseteq Published' /\ Announced \subseteq Announced'
      /\ UNCHANGED <<snapshot, pc, at, due, todo, got, gone>>
      /\ \/ UNCHANGED index /\ Indexed' = Indexed
         \/ /\ index' = index \union {m} /\ Indexed' = Indexed \union {m}
            /\ m \in Published' /\ m \in Detailed
      /\ detail \subseteq detail' /\ Detailed' \subseteq Detailed \union detail'
  BY RelayIs, Zenon DEF locals, loss
<1>2. /\ index' \subseteq Published' /\ ("index" \notin gone' => Indexed' \subseteq index')
      /\ "detail" \notin gone' => index' \union Detailed' \subseteq detail'
  BY <1>1, Zenon DEF CoverInv
<1>3. ASSUME NEW t \in Tasks PROVE Covered(t)'
  <2>1. Covered(t)
    BY Zenon DEF CoverInv
  <2> QED BY <1>1, <2>1, CoveredStays, Zenon
<1>4. SnapshotCovers'
  BY <1>1, SnapshotsStay, Zenon
<1> QED BY <1>2, <1>3, <1>4, Zenon DEF CoverInv

\* The index has all that is due, so that what it does not list has expired.
LEMMA CoverIds ==
    ASSUME TypeOK, CoverInv, NEW t \in Tasks, GetActiveGlobalMailIDs(t)
    PROVE  CoverInv'
<1>1. /\ Frame(t) /\ at'[t] = at[t] /\ due'[t] = due[t]
      /\ UNCHANGED <<relayed, detail, index, gone, snapshot>> /\ pc[t] = "ids"
  BY IdsIs, Zenon DEF redis, process, loss
<1>2. /\ Covered(t) /\ index \subseteq Published /\ ("index" \notin gone => Indexed \subseteq index)
      /\ "detail" \notin gone => index \subseteq detail
  BY Zenon DEF CoverInv
<1>3. Published' = Published /\ Announced' = Announced
  BY <1>1, StagesStay, Zenon
<1>4. due[t] \subseteq Announced /\ got[t] = {}
  BY <1>1, <1>2, Zenon DEF Covered, Loaded
<1>5. "index" \notin gone => \A m \in due[t] \ ActiveIDs(at[t]) : Expire[m] <= at[t]
  <2> SUFFICES ASSUME "index" \notin gone, NEW m \in due[t], m \notin ActiveIDs(at[t])
               PROVE  Expire[m] <= at[t]
    BY Zenon
  <2>1. m \in index /\ m \in Mails
    BY <1>2, <1>4, StagesNest, Zenon DEF Announced
  <2>2. Expire[m] \in Int /\ at[t] \in Int
    BY <2>1, CacheAssumption DEF TypeOK
  <2> QED BY <2>1, <2>2 DEF ActiveIDs
<1>6. CASE /\ pc'[t] \in {"wait", "acquire"} /\ todo'[t] = {} /\ got'[t] = {}
           /\ ActiveIDs(at[t]) = {}
  <2>1. ~Loaded(t)' /\ pc'[t] # "details" /\ pc'[t] # "refillIndex"
    BY <1>6, Zenon DEF Loaded
  <2>2. Covered(t)'
    BY <1>1, <1>3, <1>4, <1>5, <1>6, <2>1, Zenon DEF Covered, At
  <2> QED BY <1>1, <2>2, CoverLocal, Zenon
<1>7. CASE pc'[t] = "details" /\ todo'[t] = ActiveIDs(at[t]) /\ got'[t] = got[t]
  <2>1. ~Loaded(t)' /\ ~Missed(t)' /\ pc'[t] # "refillIndex"
    BY <1>7, Zenon DEF Loaded, Missed
  <2>2. \A m \in ActiveIDs(at[t]) : m \in index /\ Expire[m] >= at[t]
    BY Zenon DEF ActiveIDs
  <2>3. Covered(t)'
    BY <1>1, <1>2, <1>3, <1>4, <1>5, <1>7, <2>1, <2>2, Zenon DEF Covered, At, MayLack
  <2> QED BY <1>1, <2>3, CoverLocal, Zenon
<1> QED BY <1>6, <1>7, IdsIs, Zenon

\* A detail is missing only after a loss.
LEMMA CoverGetMail ==
    ASSUME TypeOK, CoverInv, NEW t \in Tasks, NEW m \in Mails, GetGlobalMail(t, m)
    PROVE  CoverInv'
<1>1. /\ Frame(t) /\ at'[t] = at[t] /\ due'[t] = due[t]
      /\ UNCHANGED <<relayed, detail, index, gone, snapshot>>
      /\ pc[t] = "details" /\ m \in todo[t]
  BY GetMailIs, Zenon DEF redis, process, loss
<1>2. Covered(t) /\ \A n : MayLack(n, at[t])' <=> MayLack(n, at[t])
  BY <1>1, Zenon DEF CoverInv, MayLack
<1>3. Published' = Published /\ Announced' = Announced
  BY <1>1, StagesStay, Zenon
<1>4. CASE /\ pc'[t] \in {"wait", "acquire"} /\ todo'[t] = {} /\ got'[t] = {} /\ m \notin detail
  <2>1. ~Loaded(t)' /\ pc'[t] # "details" /\ pc'[t] # "refillIndex" /\ "detail" \in gone
    BY <1>1, <1>2, <1>4, Zenon DEF Loaded, Covered
  <2>2. Covered(t)'
    BY <1>1, <1>2, <1>3, <1>4, <2>1, Zenon DEF Covered, At
  <2> QED BY <1>1, <2>2, CoverLocal, Zenon
<1>5. CASE /\ todo'[t] = todo[t] \ {m} /\ got'[t] = got[t] \union {m}
           /\ (pc'[t] = "details" \/ (pc'[t] = "store" /\ todo[t] = {m}))
  <2>1. ~Missed(t)' /\ pc'[t] # "refillIndex" /\ (pc'[t] = "details" \/ Loaded(t)')
    BY <1>5, Zenon DEF Missed, Loaded
  <2>2. /\ \A n \in got'[t] \union todo'[t] : n \in got[t] \union todo[t]
        /\ \A n \in due[t] \ (got'[t] \union todo'[t]) : n \in due[t] \ (got[t] \union todo[t])
        /\ pc'[t] = "store" => todo'[t] = {}
    BY <1>1, <1>5, Zenon
  <2>3. Loaded(t)' => pc'[t] = "store"
    BY <1>5, Zenon DEF Loaded
  <2>4. "index" \notin gone =>
          \A n \in due[t] \ (got'[t] \union todo'[t]) : MayLack(n, at[t])
    BY <1>1, <1>2, <2>2, Zenon DEF Covered
  <2>5. "detail" \notin gone => todo'[t] \subseteq detail
    BY <1>1, <1>2, <1>5, Zenon DEF Covered
  <2>6. due'[t] \subseteq Announced'
        /\ \A n \in got'[t] \union todo'[t] : n \in Published' /\ Expire[n] >= at'[t]
    BY <1>1, <1>2, <1>3, <2>2, Zenon DEF Covered
  <2>7. "index" \notin gone => (Loaded(t)' => \A n \in due[t] \ got'[t] : MayLack(n, at[t]))
    BY <2>2, <2>3, <2>4, Zenon
  <2>8. Covered(t)'
    BY <1>1, <1>2, <2>1, <2>4, <2>5, <2>6, <2>7, Zenon DEF Covered, At
  <2> QED BY <1>1, <2>8, CoverLocal, Zenon
<1> QED BY <1>4, <1>5, GetMailIs, Zenon

\* MySQL has all that is due; what the query leaves out has expired or not started.
LEMMA CoverLoad ==
    ASSUME TypeOK, CoverInv, NEW t \in Tasks, GetPublishedGlobalMails(t)
    PROVE  CoverInv'
<1>1. /\ Frame(t) /\ at'[t] = at[t] /\ due'[t] = due[t]
      /\ UNCHANGED <<relayed, detail, index, gone, snapshot>> /\ pc[t] = "load"
      /\ got'[t] = PublishedAt(at[t]) /\ todo'[t] = PublishedAt(at[t])
      /\ pc'[t] \in {"refillDetail", "release"}
  BY LoadIs, Zenon DEF redis, process, loss
<1>2. Covered(t) /\ \A n : MayLack(n, at[t])' <=> MayLack(n, at[t])
  BY <1>1, Zenon DEF CoverInv, MayLack
<1>3. Published' = Published /\ Announced' = Announced
  BY <1>1, StagesStay, Zenon
<1>4. due[t] \subseteq Announced /\ Missed(t)
  BY <1>1, <1>2, Zenon DEF Covered, Missed
<1>5. "index" \notin gone => \A m \in due[t] \ PublishedAt(at[t]) : MayLack(m, at[t])
  <2> SUFFICES ASSUME "index" \notin gone, NEW m \in due[t], m \notin PublishedAt(at[t])
               PROVE  MayLack(m, at[t])
    BY Zenon
  <2>1. m \in Published /\ m \in Mails
    BY <1>4, StagesNest, Zenon DEF Announced
  <2>2. Expire[m] \in Int /\ Start[m] \in Int /\ at[t] \in Int
    BY <2>1, CacheAssumption DEF TypeOK
  <2>3. "detail" \notin gone => Expire[m] <= at[t]
    BY <1>2, <1>4, Zenon DEF Covered
  <2>4. Start[m] > at[t] \/ Expire[m] <= at[t]
    BY <2>1, <2>2 DEF PublishedAt
  <2> QED BY <2>3, <2>4, Zenon DEF MayLack
<1>6. \A m \in PublishedAt(at[t]) : m \in Published /\ Expire[m] >= at[t]
  <2> SUFFICES ASSUME NEW m \in PublishedAt(at[t]) PROVE m \in Published /\ Expire[m] >= at[t]
    BY Zenon
  <2>1. m \in Published /\ Expire[m] > at[t] /\ m \in Mails
    BY Zenon DEF PublishedAt, Published
  <2>2. Expire[m] \in Int /\ at[t] \in Int
    BY <2>1, CacheAssumption DEF TypeOK
  <2> QED BY <2>1, <2>2
<1>7. ~Missed(t)' /\ Loaded(t)' /\ pc'[t] # "details" /\ pc'[t] # "refillIndex"
  BY <1>1, Zenon DEF Missed, Loaded
<1>8. Covered(t)'
  BY <1>1, <1>2, <1>3, <1>4, <1>5, <1>6, <1>7, Zenon DEF Covered, At
<1> QED BY <1>1, <1>8, CoverLocal, Zenon

\* A step before the task has loaded anything.
LEMMA CoverStarts ==
    ASSUME TypeOK, CoverInv, NEW t \in Tasks, Frame(t),
           UNCHANGED <<relayed, detail, index, gone, snapshot>>,
           due'[t] = due[t] \/ due'[t] = Announced, todo'[t] = todo[t], got'[t] = got[t],
           pc[t] \in {"idle", "version", "lock", "wait"}, pc'[t] \in {"version", "lock", "ids"}
    PROVE  CoverInv'
<1>1. Published' = Published /\ Announced' = Announced
  BY StagesStay, Zenon
<1>2. due[t] \subseteq Announced /\ todo[t] = {} /\ got[t] = {}
  BY Zenon DEF CoverInv, Covered, Loaded
<1>3. ~Missed(t)' /\ ~Loaded(t)' /\ pc'[t] # "details" /\ pc'[t] # "refillIndex"
  BY Zenon DEF Missed, Loaded
<1>4. Covered(t)'
  BY <1>1, <1>2, <1>3, Zenon DEF Covered, At
<1> QED BY <1>4, CoverLocal, Zenon

\* The task acquires the rebuild lock, waits, gives up waiting or releases the lock.
LEMMA CoverMoves ==
    ASSUME TypeOK, CoverInv, NEW t \in Tasks, Frame(t),
           UNCHANGED <<relayed, detail, index, gone, snapshot>>,
           at'[t] = at[t], due'[t] = due[t], todo'[t] = todo[t], got'[t] = got[t],
           (Missed(t) /\ Missed(t)') \/ (pc[t] = "release" /\ pc'[t] = "store")
    PROVE  CoverInv'
<1>1. Published' = Published /\ Announced' = Announced
  BY StagesStay, Zenon
<1>2. Covered(t) /\ \A n : MayLack(n, at[t])' <=> MayLack(n, at[t])
  BY Zenon DEF CoverInv, MayLack
<1>3. CASE Missed(t) /\ Missed(t)'
  <2>1. /\ ~Loaded(t) /\ pc[t] # "details"
        /\ ~Loaded(t)' /\ pc'[t] # "details" /\ pc'[t] # "refillIndex"
    BY <1>3, Zenon DEF Missed, Loaded
  <2>2. Covered(t)'
    BY <1>1, <1>2, <1>3, <2>1, Zenon DEF Covered, At
  <2> QED BY <2>2, CoverLocal, Zenon
<1>4. CASE pc[t] = "release" /\ pc'[t] = "store"
  <2>1. /\ Loaded(t) /\ Loaded(t)' /\ ~Missed(t)' /\ pc'[t] # "details" /\ pc'[t] # "refillIndex"
    BY <1>4, Zenon DEF Missed, Loaded
  <2>2. Covered(t)'
    BY <1>1, <1>2, <2>1, Zenon DEF Covered, At
  <2> QED BY <2>2, CoverLocal, Zenon
<1> QED BY <1>3, <1>4, Zenon

\* The least of a set is one.
LEMMA LeastIsOne ==
    ASSUME TypeOK, NEW t \in Tasks, NEW m \in Mails, NEW n \in Mails, todo'[t] = todo[t],
           At(t, "refillDetail", m), At(t, "refillIndex", n)'
    PROVE  n = m
<1>1. m \in todo[t] /\ n \in todo[t] /\ m <= n /\ n <= m
  BY Zenon DEF At
<1>2. m \in Int /\ n \in Int
  BY CacheAssumption, Zenon
<1> QED BY <1>1, <1>2

\* The detail is written before the index.
LEMMA CoverRefill ==
    ASSUME TypeOK, CoverInv, NEW t \in Tasks, NEW m \in Mails,
           RefillDetail(t, m) \/ RefillIndex(t, m)
    PROVE  CoverInv'
<1>1. /\ Frame(t) /\ UNCHANGED <<relayed, gone, snapshot, at, due, got>> /\ m \in todo[t]
      /\ detail \subseteq detail' /\ todo'[t] \subseteq todo[t]
      /\ pc[t] \in {"refillDetail", "refillIndex"}
      /\ pc'[t] \in {"refillDetail", "refillIndex", "release"}
  BY RefillIs, Zenon DEF process, loss
<1>2. \/ /\ index' = index /\ m \in detail' /\ todo'[t] = todo[t] /\ At(t, "refillDetail", m)
      \/ index' = index \union {m} /\ At(t, "refillIndex", m) /\ pc'[t] # "refillIndex"
  BY RefillIs, Zenon
<1>3. /\ Published' = Published /\ Announced' = Announced /\ Indexed' = Indexed
      /\ Detailed' = Detailed
  BY <1>1, StagesStay, Zenon
<1>4. Covered(t) /\ m \in Published /\ \A n : MayLack(n, at[t])' <=> MayLack(n, at[t])
  BY <1>1, Zenon DEF CoverInv, Covered, MayLack
<1>5. /\ Loaded(t) /\ Loaded(t)' /\ ~Missed(t)' /\ pc'[t] # "details"
  BY <1>1, Zenon DEF Missed, Loaded
<1>6. \A n \in Mails : At(t, "refillIndex", n)' => n \in detail'
  BY <1>2, LeastIsOne, Zenon DEF At
<1>7. Covered(t)'
  BY <1>1, <1>3, <1>4, <1>5, <1>6, Zenon DEF Covered
<1>8. ASSUME NEW u \in Tasks, u # t PROVE Covered(u)'
  <2>1. Covered(u) /\ pc'[u] = pc[u] /\ at'[u] = at[u] /\ due'[u] = due[u]
        /\ todo'[u] = todo[u] /\ got'[u] = got[u]
    BY <1>1, <1>8, Zenon DEF CoverInv, Frame
  <2> QED BY <1>1, <1>3, <2>1, CoveredStays, Zenon
<1>9. "detail" \notin gone => index' \subseteq detail'
  BY <1>1, <1>2, <1>4, Zenon DEF CoverInv, Covered
<1>10. SnapshotCovers'
  BY <1>1, <1>3, SnapshotsStay, Zenon
<1>11. /\ index' \subseteq Published' /\ ("index" \notin gone => Indexed \subseteq index')
       /\ "detail" \notin gone => Detailed \subseteq detail'
  BY <1>1, <1>2, <1>3, <1>4, Zenon DEF CoverInv
<1> QED BY <1>1, <1>3, <1>7, <1>8, <1>9, <1>10, <1>11, Zenon DEF CoverInv

LEMMA CoverStore ==
    ASSUME TypeOK, CoverInv, NEW t \in Tasks, Store(t)
    PROVE  CoverInv'
<1>1. /\ Done(t) /\ UNCHANGED <<relayed, detail, index, gone>> /\ Loaded(t) /\ Covered(t)
  BY StoreIs, Zenon DEF redis, loss, Loaded, CoverInv
<1>2. Published' = Published /\ \A m, time : MayLack(m, time)' <=> MayLack(m, time)
  BY <1>1, StagesStay, Zenon DEF MayLack
<1>3. ASSUME NEW i \in Instances
      PROVE  /\ "index" \notin gone =>
                  \A m \in snapshot'[i].due \ snapshot'[i].mails : MayLack(m, snapshot'[i].at)
             /\ \A m \in snapshot'[i].mails : m \in Published /\ Expire[m] >= snapshot'[i].at
  <2>1. CASE i = Host[t]
    <3>1. snapshot'[i] =
            [version |-> remote[t], mails |-> got[t], at |-> at[t], due |-> due[t]]
      BY <2>1, StoreIs, Zenon
    <3>2. snapshot'[i].due = due[t] /\ snapshot'[i].mails = got[t] /\ snapshot'[i].at = at[t]
      BY <3>1
    <3> QED BY <1>1, <3>2, Zenon DEF Covered
  <2>2. CASE i # Host[t]
    BY <2>2, StoreIs, Zenon DEF CoverInv, SnapshotCovers
  <2> QED BY <2>1, <2>2, Zenon
<1>4. SnapshotCovers'
  BY <1>1, <1>2, <1>3, Zenon DEF SnapshotCovers, MayLack
<1> QED BY <1>1, <1>4, CoverDone, Zenon

LEMMA CoverLose ==
    ASSUME TypeOK, CoverInv, Lose
    PROVE  CoverInv'
<1>1. /\ UNCHANGED <<relayed, snapshot, pc, at, due, todo, got>> /\ gone \subseteq gone'
      /\ index' = index \/ (index' = {} /\ "index" \in gone')
      /\ detail' = detail \/ "detail" \in gone'
  BY Zenon DEF Lose, process, locals
<1>2. /\ Published' = Published /\ Announced' = Announced /\ Indexed' = Indexed
      /\ Detailed' = Detailed /\ \A m, time : MayLack(m, time) => MayLack(m, time)'
  BY <1>1, StagesStay, Zenon DEF MayLack
<1>3. ASSUME NEW u \in Tasks PROVE Covered(u)'
  <2>1. Covered(u) /\ \A m : At(u, "refillIndex", m)' <=> At(u, "refillIndex", m)
    BY <1>1, Zenon DEF CoverInv, At
  <2>2. \A m : MayLack(m, at[u]) => MayLack(m, at[u])'
    BY <1>1, Zenon DEF MayLack
  <2> QED BY <1>1, <1>2, <2>1, <2>2, Zenon DEF Covered, Loaded, Missed
<1>4. SnapshotCovers'
  BY <1>1, <1>2, Zenon DEF CoverInv, SnapshotCovers, MayLack
<1>5. /\ index' \subseteq Published' /\ ("index" \notin gone' => Indexed' \subseteq index')
      /\ "detail" \notin gone' => index' \union Detailed' \subseteq detail'
  BY <1>1, <1>2, Zenon DEF CoverInv
<1> QED BY <1>3, <1>4, <1>5, Zenon DEF CoverInv

\* Nothing that this part is about changes.
LEMMA CoverStays ==
    ASSUME CoverInv, UNCHANGED <<relayed, detail, index, gone, snapshot, pc, at, due, todo, got>>
    PROVE  CoverInv'
<1>1. /\ Published' = Published /\ Announced' = Announced /\ Indexed' = Indexed
      /\ Detailed' = Detailed
  BY StagesStay, Zenon
<1>2. ASSUME NEW u \in Tasks PROVE Covered(u)'
  <2>1. Covered(u)
    BY Zenon DEF CoverInv
  <2> QED BY <1>1, <2>1, CoveredStays, Zenon
<1> QED BY <1>1, <1>2, SnapshotsStay, Zenon DEF CoverInv

LEMMA CoverTask ==
    ASSUME TypeOK, CoverInv, NEW t \in Tasks, Step(t)
    PROVE  CoverInv'
<1>1. CASE GetGlobalMailVersion(t)
  <2>1. UNCHANGED <<relayed, detail, index, gone, snapshot>> /\ Frame(t) /\ pc[t] = "version"
    BY <1>1, GetVersionIs, Zenon DEF redis, loss, process
  <2>2. CASE Done(t)
    BY <2>1, <2>2, CoverDone, SnapshotsStay, StagesStay, Zenon
  <2>3. CASE pc'[t] = "lock" /\ due'[t] = Announced /\ UNCHANGED <<todo, got>>
    BY <2>1, <2>3, CoverStarts, Zenon
  <2> QED BY <1>1, <2>2, <2>3, GetVersionIs, Zenon
<1>2. CASE Lock(t)
  <2>1. UNCHANGED <<relayed, detail, index, gone, snapshot>> /\ Frame(t) /\ pc[t] = "lock"
    BY <1>2, LockIs, Zenon DEF redis, loss
  <2>2. CASE Done(t)
    BY <2>1, <2>2, CoverDone, SnapshotsStay, StagesStay, Zenon
  <2>3. CASE pc'[t] = "ids" /\ UNCHANGED <<due, todo, got>>
    BY <2>1, <2>3, CoverStarts, Zenon
  <2> QED BY <1>2, <2>2, <2>3, LockIs, Zenon
<1>3. CASE TryAcquireGlobalMailRebuildLock(t) \/ WaitTick(t) \/ WaitTimeout(t)
  <2>1. /\ Frame(t) /\ UNCHANGED <<relayed, detail, index, gone, snapshot, at, due, todo, got>>
        /\ \/ pc[t] = "wait" /\ pc'[t] = "ids"
           \/ pc[t] \in {"acquire", "wait"} /\ pc'[t] \in {"wait", "load"}
    BY <1>3, AcquireIs, WaitIs, Zenon DEF redis, process, loss
  <2>2. CASE pc[t] = "wait" /\ pc'[t] = "ids"
    BY <2>1, <2>2, CoverStarts, Zenon
  <2>3. CASE pc[t] \in {"acquire", "wait"} /\ pc'[t] \in {"wait", "load"}
    <3>1. Missed(t) /\ Missed(t)'
      BY <2>3, Zenon DEF Missed
    <3> QED BY <2>1, <3>1, CoverMoves, Zenon
  <2> QED BY <2>1, <2>2, <2>3, Zenon
<1>4. CASE Release(t)
  <2>1. /\ Frame(t) /\ UNCHANGED <<relayed, detail, index, gone, snapshot, at, due, todo, got>>
        /\ pc[t] = "release" /\ pc'[t] = "store"
    BY <1>4, ReleaseIs, Zenon DEF redis, process, locals, loss
  <2> QED BY <2>1, CoverMoves, Zenon
<1> QED BY <1>1, <1>2, <1>3, <1>4, CoverIds, CoverGetMail, CoverLoad, CoverRefill, CoverStore,
           Zenon DEF Step

LEMMA CoverStep ==
    ASSUME TypeOK, CoverInv, [Next]_vars
    PROVE  CoverInv'
<1>1. CASE UNCHANGED vars
  BY <1>1, CoverStays, Zenon DEF vars, redis, process, locals, loss
<1>2. ASSUME NEW t \in Tasks, Boot(t) \/ Poll(t) \/ (\E m \in Mails : Handle(t, m))
      PROVE  CoverInv'
  <2>1. /\ Frame(t) /\ UNCHANGED <<relayed, detail, index, gone, snapshot, at, due, todo, got>>
        /\ UNCHANGED pc \/ (pc[t] = "idle" /\ pc'[t] = "version")
    BY <1>2, BootIs, PollIs, HandleIs, Zenon DEF redis, process, locals, loss
  <2>2. CASE UNCHANGED pc
    BY <2>1, <2>2, CoverStays, Zenon
  <2>3. CASE pc[t] = "idle" /\ pc'[t] = "version"
    BY <2>1, <2>3, CoverStarts, Zenon
  <2> QED BY <2>1, <2>2, <2>3, Zenon
<1>3. ASSUME NEW t \in Tasks, Fail(t) PROVE CoverInv'
  <2>1. UNCHANGED gone
    BY <1>3, FailIs, Zenon DEF loss
  <2>2. ASSUME NEW lk \in AfterUnlock(t), Restart(Host[t], lk) PROVE CoverInv'
    <3>1. lk \in [Versions -> SUBSET (Tasks \union {Left})] /\ Host[t] \in Instances
      BY UnlockIs, HostIs, Zenon
    <3> QED BY <2>1, <2>2, <3>1, CoverRestart, Zenon
  <2>3. CASE Done(t) /\ UNCHANGED <<now, relayed, redis, inbox, snapshot>>
    <3>1. UNCHANGED <<relayed, detail, index, snapshot>>
      BY <2>3, Zenon DEF redis
    <3> QED BY <2>1, <2>3, <3>1, CoverDone, SnapshotsStay, StagesStay, Zenon
  <2> QED BY <1>3, <2>2, <2>3, FailIs, Zenon
<1>4. ASSUME NEW i \in Instances, Crash(i) PROVE CoverInv'
  <2>1. lock \in [Versions -> SUBSET (Tasks \union {Left})] /\ Restart(i, lock)
        /\ UNCHANGED gone
    BY <1>4, Zenon DEF Crash, TypeOK
  <2> QED BY <2>1, CoverRestart, Zenon
<1>5. ASSUME Tick \/ (\E v \in Versions : LockExpire(v)) PROVE CoverInv'
  <2>1. UNCHANGED <<relayed, detail, index, gone, snapshot, pc, at, due, todo, got>>
    BY <1>5, Zenon DEF Tick, LockExpire, redis, process, locals, loss
  <2> QED BY <2>1, CoverStays, Zenon
<1> QED BY <1>1, <1>2, <1>3, <1>4, <1>5, CoverRelay, CoverTask, CoverLose, Zenon DEF Next

-----------------------------------------------------------------------------
(* The snapshots' versions.                                                *)

\* The relay, Redis's version and the inboxes stay.
LEMMA FirstStays ==
    ASSUME VersionFirst, UNCHANGED <<relayed, version, gone, inbox>>
    PROVE  VersionFirst'
BY Zenon DEF VersionFirst, Announced

\* A step of one task that neither returns nor replaces the snapshot.
LEMMA TimelyLocal ==
    ASSUME VersionInv, NEW t \in Tasks, Frame(t),
           UNCHANGED <<relayed, gone, booted, mutex, snapshot>>, VersionFirst',
           Host[t] \notin booted /\ pc'[t] # "idle" => pc[t] # "idle",
           Timely(t)'
    PROVE  VersionInv'
<1>1. Announced' = Announced
  BY Zenon DEF Announced
<1>2. ASSUME NEW u \in Tasks PROVE Timely(u)'
  <2>1. CASE u # t
    <3>1. Timely(u) /\ pc'[u] = pc[u] /\ remote'[u] = remote[u] /\ (u \in forced' <=> u \in forced)
      BY <2>1, Zenon DEF VersionInv, Frame
    <3> QED BY <1>1, <3>1, Zenon DEF Timely, Inside
  <2> QED BY <2>1, Zenon
<1>3. BootsAlone'
  BY DEF VersionInv, BootsAlone, Frame
<1> QED BY <1>2, <1>3, Zenon DEF VersionInv

\* A refresh returns, with a new snapshot or without.
LEMMA TimelyDone ==
    ASSUME TypeOK, VersionInv, NEW t \in Tasks, Done(t), pc[t] # "idle",
           UNCHANGED <<relayed, version, gone, inbox>>,
           \A i \in Instances : i # Host[t] => snapshot'[i] = snapshot[i],
           Inside(t) \/ UNCHANGED snapshot
    PROVE  VersionInv'
<1>1. Announced' = Announced /\ VersionFirst'
  BY FirstStays, Zenon DEF Announced, VersionInv
<1>2. Frame(t) /\ pc'[t] = "idle" /\ forced' = forced \ {t} /\ booted' = booted \union {Host[t]}
  BY DoneIs, Zenon
<1>3. ASSUME NEW u \in Tasks PROVE Timely(u)'
  <2>1. CASE u = t
    BY <1>2, <2>1, Zenon DEF Timely, Inside
  <2>2. CASE u # t /\ pc[u] = "idle"
    <3>1. u \notin forced /\ pc'[u] = "idle" /\ u \notin forced'
      BY <1>2, <2>2, Zenon DEF VersionInv, Timely, Frame
    <3> QED BY <3>1, Zenon DEF Timely, Inside
  <2>3. CASE u # t /\ pc[u] # "idle"
    <3>1. Timely(u) /\ pc'[u] = pc[u] /\ remote'[u] = remote[u] /\ (u \in forced' <=> u \in forced)
      BY <1>2, <2>3, Zenon DEF VersionInv, Frame
    <3>2. Host[u] \in booted' <=> Host[u] \in booted
      BY <1>2, <2>3, Zenon DEF VersionInv, BootsAlone
    <3>3. Inside(u) => mutex'[Host[u]] = {u} /\ snapshot'[Host[u]] = snapshot[Host[u]]
      <4> SUFFICES ASSUME Inside(u)
                   PROVE  mutex'[Host[u]] = {u} /\ snapshot'[Host[u]] = snapshot[Host[u]]
        OBVIOUS
      <4>1. mutex[Host[u]] = {u} /\ Host[u] \in Instances
        BY <3>1, HostIs, Zenon DEF Timely
      <4>2. CASE Host[u] # Host[t]
        <5>1. mutex'[Host[u]] = mutex[Host[u]]
          BY <4>1, <4>2, DoneIs
        <5> QED BY <4>1, <4>2, <5>1, Zenon
      <4>3. CASE Host[u] = Host[t]
        <5>1. ~Inside(t)
          BY <2>3, <4>1, <4>3, Zenon DEF VersionInv, Timely
        <5>2. mutex'[Host[u]] = {u}
          BY <2>3, <4>1, <4>3, DoneIs
        <5> QED BY <5>1, <5>2, Zenon
      <4> QED BY <4>2, <4>3, Zenon
    <3> QED BY <1>1, <3>1, <3>2, <3>3, Zenon DEF Timely, Inside
  <2> QED BY <2>1, <2>2, <2>3, Zenon
<1>4. BootsAlone'
  BY <1>2, Zenon DEF VersionInv, BootsAlone, Frame
<1> QED BY <1>1, <1>3, <1>4, Zenon DEF VersionInv

LEMMA TimelyRestart ==
    ASSUME TypeOK, VersionInv, NEW i \in Instances,
           NEW lk \in [Versions -> SUBSET (Tasks \union {Left})], Restart(i, lk), UNCHANGED gone
    PROVE  VersionInv'
<1>1. UNCHANGED <<relayed, version, inbox>>
  BY RestartIs, Zenon DEF redis
<1>2. Announced' = Announced /\ VersionFirst'
  BY <1>1, FirstStays, Zenon DEF Announced, VersionInv
<1>3. booted' = booted \ {i}
  BY RestartIs, Zenon
<1>4. ASSUME NEW u \in Tasks PROVE Timely(u)'
  <2>1. CASE Host[u] = i
    <3>1. pc'[u] = "idle" /\ u \notin forced'
      BY <2>1, RestartIs, Zenon
    <3> QED BY <3>1, Zenon DEF Timely, Inside
  <2>2. CASE Host[u] # i
    <3>1. /\ pc'[u] = pc[u] /\ remote'[u] = remote[u] /\ (u \in forced' <=> u \in forced)
      BY <2>2, RestartIs
    <3>2. mutex'[Host[u]] = mutex[Host[u]] /\ snapshot'[Host[u]] = snapshot[Host[u]]
      BY <2>2, HostIs, RestartIs
    <3>3. Timely(u) /\ (Host[u] \in booted' <=> Host[u] \in booted)
      BY <1>3, <2>2, Zenon DEF VersionInv
    <3> QED BY <1>2, <3>1, <3>2, <3>3, Zenon DEF Timely, Inside
  <2> QED BY <2>1, <2>2, Zenon
<1>5. BootsAlone'
  <2> SUFFICES ASSUME NEW t \in Tasks, NEW u \in Tasks, Host[t] = Host[u], Host[t] \notin booted',
                      pc'[t] # "idle", pc'[u] # "idle"
               PROVE  t = u
    BY Zenon DEF BootsAlone
  <2>1. Host[t] # i /\ Host[u] # i
    BY RestartIs, Zenon
  <2>2. pc'[t] = pc[t] /\ pc'[u] = pc[u]
    BY <2>1, RestartIs, Zenon
  <2> QED BY <1>3, <2>1, <2>2, Zenon DEF VersionInv, BootsAlone
<1> QED BY <1>2, <1>4, <1>5, Zenon DEF VersionInv

LEMMA TimelyRelay ==
    ASSUME TypeOK, VersionInv, NEW m \in Mails, Publish(m) \/ Relay(m)
    PROVE  VersionInv'
<1>1. /\ Announced \subseteq Announced'
      /\ UNCHANGED <<booted, mutex, snapshot, pc, forced, remote, gone>>
      /\ (Announced' = Announced /\ UNCHANGED version) \/ version' = EventVersion
      /\ \A i \in Instances : inbox'[i] = inbox[i]
            \/ (inbox'[i] = inbox[i] \union {m} /\ m \in Announced')
  BY RelayIs, Zenon DEF locals, loss
<1>2. VersionFirst'
  BY <1>1 DEF VersionInv, VersionFirst
<1>3. ASSUME NEW u \in Tasks PROVE Timely(u)'
  BY <1>1, Zenon DEF VersionInv, Timely, Inside
<1> QED BY <1>1, <1>2, <1>3, Zenon DEF VersionInv, BootsAlone

LEMMA TimelyBoot ==
    ASSUME TypeOK, VersionInv, NEW t \in Tasks, Boot(t)
    PROVE  VersionInv'
<1>1. /\ Frame(t) /\ pc'[t] = "version" /\ t \in forced' /\ Host[t] \notin booted
      /\ \A u \in Tasks : Host[u] = Host[t] => pc[u] = "idle"
      /\ UNCHANGED <<relayed, version, gone, inbox, booted, mutex, snapshot>>
  BY BootIs, Zenon DEF redis, process, loss
<1>2. Announced' = Announced /\ VersionFirst'
  BY <1>1, FirstStays, Zenon DEF Announced, VersionInv
<1>3. ASSUME NEW u \in Tasks PROVE Timely(u)'
  <2>1. CASE u # t
    <3>1. Timely(u) /\ pc'[u] = pc[u] /\ remote'[u] = remote[u] /\ (u \in forced' <=> u \in forced)
      BY <1>1, <2>1, Zenon DEF VersionInv, Frame
    <3> QED BY <1>1, <1>2, <3>1, Zenon DEF Timely, Inside
  <2>2. CASE u = t
    BY <1>1, <2>2, Zenon DEF Timely, Inside
  <2> QED BY <2>1, <2>2, Zenon
<1>4. BootsAlone'
  BY <1>1, Zenon DEF VersionInv, BootsAlone, Frame
<1> QED BY <1>2, <1>3, <1>4, Zenon DEF VersionInv

\* The poller or the consumer starts a refresh.
LEMMA TimelyStart ==
    ASSUME TypeOK, VersionInv, NEW t \in Tasks, Poll(t) \/ (\E m \in Mails : Handle(t, m))
    PROVE  VersionInv'
<1>1. Timely(t) /\ Host[t] \in Instances
  BY HostIs, Zenon DEF VersionInv
<1>2. CASE Poll(t)
  <2>1. /\ Frame(t) /\ pc[t] = "idle" /\ pc'[t] = "version" /\ Host[t] \in booted
        /\ UNCHANGED <<relayed, version, gone, inbox, booted, mutex, snapshot, forced>>
    BY <1>2, PollIs, Zenon DEF redis, process, locals, loss
  <2>2. VersionFirst'
    BY <2>1, FirstStays, Zenon DEF VersionInv
  <2>3. Timely(t)'
    BY <1>1, <2>1, Zenon DEF Timely, Inside
  <2> QED BY <2>1, <2>2, <2>3, TimelyLocal, Zenon
<1>3. ASSUME NEW m \in Mails, Handle(t, m) PROVE VersionInv'
  <2>1. /\ Frame(t) /\ pc[t] = "idle" /\ Host[t] \in booted /\ m \in inbox[Host[t]]
        /\ \A i \in Instances : inbox'[i] \subseteq inbox[i]
        /\ UNCHANGED <<relayed, version, gone, booted, mutex, snapshot, remote>>
        /\ UNCHANGED <<pc, forced>> \/ (pc'[t] = "version" /\ forced' = forced \union {t})
    BY <1>3, HandleIs, Zenon DEF redis, loss
  <2>2. Announced' = Announced /\ Announced # {} /\ VersionFirst'
    BY <1>1, <2>1, Zenon DEF VersionInv, VersionFirst, Announced
  <2>3. Timely(t)'
    <3>1. CASE UNCHANGED <<pc, forced>>
      BY <1>1, <2>1, <2>2, <3>1, Zenon DEF Timely, Inside
    <3>2. CASE pc'[t] = "version" /\ forced' = forced \union {t}
      BY <2>2, <3>2, Zenon DEF Timely, Inside
    <3> QED BY <2>1, <3>1, <3>2, Zenon
  <2> QED BY <2>1, <2>2, <2>3, TimelyLocal, Zenon
<1> QED BY <1>2, <1>3, Zenon

\* A task inside the mutex goes on.
LEMMA TimelyInside ==
    ASSUME VersionInv, NEW t \in Tasks, Frame(t), Inside(t), Inside(t)',
           UNCHANGED <<relayed, version, gone, process, forced>>, remote'[t] = remote[t]
    PROVE  VersionInv'
<1>1. UNCHANGED <<relayed, version, gone, inbox, booted, mutex, snapshot>>
  BY Zenon DEF process
<1>2. VersionFirst' /\ Announced' = Announced
  BY <1>1, FirstStays, Zenon DEF VersionInv, Announced
<1>3. Timely(t)'
  BY <1>1, <1>2, Zenon DEF VersionInv, Timely, Inside
<1>4. pc[t] # "idle"
  BY Zenon DEF Inside
<1> QED BY <1>1, <1>2, <1>3, <1>4, TimelyLocal, Zenon

LEMMA TimelyGetVersion ==
    ASSUME TypeOK, VersionInv, NEW t \in Tasks, GetGlobalMailVersion(t)
    PROVE  VersionInv'
<1>1. /\ Frame(t) /\ pc[t] = "version" /\ UNCHANGED <<relayed, version, gone, inbox, snapshot>>
  BY GetVersionIs, Zenon DEF redis, loss, process
<1>2. CASE Done(t)
  BY <1>1, <1>2, TimelyDone, Zenon
<1>3. CASE pc'[t] = "lock" /\ remote'[t] = version /\ UNCHANGED <<process, forced>>
  <2>1. VersionFirst' /\ Announced' = Announced /\ UNCHANGED <<booted, mutex>>
    BY <1>1, <1>3, FirstStays, Zenon DEF VersionInv, Announced, process
  <2>2. Timely(t)'
    BY <1>1, <1>3, <2>1, Zenon DEF VersionInv, VersionFirst, Timely, Inside
  <2> QED BY <1>1, <2>1, <2>2, TimelyLocal, Zenon
<1> QED BY <1>2, <1>3, GetVersionIs, Zenon

\* The snapshot is looked at again once the mutex is held.
LEMMA TimelyLock ==
    ASSUME TypeOK, VersionInv, NEW t \in Tasks, Lock(t)
    PROVE  VersionInv'
<1>1. /\ Frame(t) /\ pc[t] = "lock" /\ mutex[Host[t]] = {} /\ Host[t] \in Instances
      /\ UNCHANGED <<relayed, version, gone, inbox, snapshot>>
  BY LockIs, HostIs, Zenon DEF redis, loss
<1>2. CASE Done(t)
  BY <1>1, <1>2, TimelyDone, Zenon
<1>3. CASE /\ pc'[t] = "ids" /\ ~Current(t, remote[t]) /\ mutex'[Host[t]] = {t}
           /\ \A i \in Instances : i # Host[t] => mutex'[i] = mutex[i]
           /\ UNCHANGED <<booted, forced, remote>>
  <2>1. VersionFirst' /\ Announced' = Announced
    BY <1>1, FirstStays, Zenon DEF VersionInv, Announced
  <2>2. t \notin forced => snapshot[Host[t]].version < remote[t]
    <3>1. snapshot[Host[t]].version \in Int /\ remote[t] \in Int
      BY <1>1 DEF TypeOK, Versions, EventVersion
    <3> QED BY <1>3, <3>1 DEF Current
  <2>3. ASSUME NEW u \in Tasks PROVE Timely(u)'
    <3>1. Timely(u) /\ UNCHANGED <<forced, remote>> /\ Host[u] \in Instances
      BY <1>3, HostIs, Zenon DEF VersionInv
    <3>2. CASE u = t
      BY <1>1, <1>3, <2>1, <2>2, <3>1, <3>2, Zenon DEF Timely, Inside
    <3>3. CASE u # t
      <4>1. pc'[u] = pc[u] /\ (Inside(u) => mutex'[Host[u]] = mutex[Host[u]])
        BY <1>1, <1>3, <3>1, <3>3, Zenon DEF Timely, Frame
      <4> QED BY <1>1, <1>3, <2>1, <3>1, <4>1, Zenon DEF Timely, Inside
    <3> QED BY <3>2, <3>3, Zenon
  <2>4. BootsAlone'
    BY <1>1, <1>3 DEF VersionInv, BootsAlone, Frame
  <2> QED BY <2>1, <2>3, <2>4, Zenon DEF VersionInv
<1> QED BY <1>2, <1>3, LockIs, Zenon

LEMMA TimelyTask ==
    ASSUME TypeOK, VersionInv, NEW t \in Tasks, Step(t)
    PROVE  VersionInv'
<1>1. CASE GetActiveGlobalMailIDs(t) \/ (\E m \in Mails : GetGlobalMail(t, m))
  <2>1. /\ Frame(t) /\ Inside(t) /\ Inside(t)' /\ remote'[t] = remote[t]
        /\ UNCHANGED <<relayed, version, gone, process, forced>>
    BY <1>1, IdsIs, GetMailIs, Zenon DEF redis, loss, Inside
  <2> QED BY <2>1, TimelyInside, Zenon
<1>2. CASE \E m \in Mails : RefillDetail(t, m) \/ RefillIndex(t, m)
  <2>1. /\ Frame(t) /\ Inside(t) /\ Inside(t)' /\ remote'[t] = remote[t]
        /\ UNCHANGED <<relayed, version, gone, process, forced>>
    BY <1>2, RefillIs, Zenon DEF loss, Inside
  <2> QED BY <2>1, TimelyInside, Zenon
<1>3. CASE TryAcquireGlobalMailRebuildLock(t) \/ WaitTick(t) \/ WaitTimeout(t)
           \/ GetPublishedGlobalMails(t) \/ Release(t)
  <2>1. /\ Frame(t) /\ Inside(t) /\ Inside(t)' /\ remote'[t] = remote[t]
        /\ UNCHANGED <<relayed, version, gone, process, forced>>
    BY <1>3, AcquireIs, WaitIs, LoadIs, ReleaseIs, Zenon DEF redis, loss, locals, Inside
  <2> QED BY <2>1, TimelyInside, Zenon
<1>4. CASE Store(t)
  <2>1. /\ Done(t) /\ pc[t] # "idle" /\ Inside(t)
        /\ \A i \in Instances : i # Host[t] => snapshot'[i] = snapshot[i]
        /\ UNCHANGED <<relayed, version, gone, inbox>>
    BY <1>4, StoreIs, Zenon DEF redis, loss, Inside
  <2> QED BY <2>1, TimelyDone, Zenon
<1> QED BY <1>1, <1>2, <1>3, <1>4, TimelyGetVersion, TimelyLock, Zenon DEF Step

LEMMA VersionStep ==
    ASSUME TypeOK, VersionInv, [Next]_vars
    PROVE  VersionInv'
<1>1. CASE UNCHANGED vars
  BY <1>1, Zenon DEF vars, redis, process, locals, loss, VersionInv, BootsAlone, VersionFirst,
                     Timely, Inside, Announced
<1>2. ASSUME NEW t \in Tasks, Fail(t) PROVE VersionInv'
  <2>1. UNCHANGED gone /\ pc[t] # "idle"
    BY <1>2, Zenon DEF Fail, loss
  <2>2. ASSUME NEW lk \in AfterUnlock(t), Restart(Host[t], lk) PROVE VersionInv'
    <3>1. lk \in [Versions -> SUBSET (Tasks \union {Left})] /\ Host[t] \in Instances
      BY UnlockIs, HostIs, Zenon
    <3> QED BY <2>1, <2>2, <3>1, TimelyRestart, Zenon
  <2>3. CASE Done(t) /\ UNCHANGED <<now, relayed, redis, inbox, snapshot>>
    <3>1. UNCHANGED <<relayed, version, inbox, snapshot>>
      BY <2>3, Zenon DEF redis
    <3> QED BY <2>1, <2>3, <3>1, TimelyDone, Zenon
  <2> QED BY <1>2, <2>2, <2>3, FailIs, Zenon
<1>3. ASSUME NEW i \in Instances, Crash(i) PROVE VersionInv'
  <2>1. lock \in [Versions -> SUBSET (Tasks \union {Left})] /\ Restart(i, lock)
        /\ UNCHANGED gone
    BY <1>3, Zenon DEF Crash, TypeOK
  <2> QED BY <2>1, TimelyRestart, Zenon
<1>4. ASSUME Tick \/ (\E v \in Versions : LockExpire(v)) PROVE VersionInv'
  BY <1>4, Zenon DEF Tick, LockExpire, redis, process, locals, loss, VersionInv, BootsAlone,
              VersionFirst, Timely, Inside, Announced
<1>5. CASE Lose
  <2>1. /\ UNCHANGED <<relayed, inbox, booted, mutex, snapshot, pc, forced, remote>>
        /\ gone \subseteq gone' /\ (version' = version \/ "version" \in gone')
    BY <1>5, Zenon DEF Lose, process, locals
  <2> QED BY <2>1, Zenon DEF VersionInv, BootsAlone, VersionFirst, Timely, Inside, Announced
<1> QED BY <1>1, <1>2, <1>3, <1>4, <1>5, TimelyRelay, TimelyBoot,
           TimelyStart, TimelyTask, Zenon DEF Next

-----------------------------------------------------------------------------
(* The theorems.                                                           *)

LEMMA InitInv ==
    ASSUME Init
    PROVE  Inv
<1>1. TypeOK
  BY CacheAssumption DEF Init, TypeOK, Stages, Versions, Empty
<1>2. LockInv
  BY Zenon DEF Init, LockInv, RebuildLockKept
<1>3. Published = {} /\ Announced = {} /\ Indexed = {} /\ Detailed = {}
  BY Zenon DEF Init, Published, Announced, Indexed, Detailed
<1>4. \A t \in Tasks : Covered(t)
  BY <1>3, Zenon DEF Init, Covered, Loaded, Missed, At
<1>5. SnapshotCovers
  BY Zenon DEF Init, SnapshotCovers, Empty
<1>6. BootsAlone /\ VersionFirst
  BY <1>3, Zenon DEF Init, BootsAlone, VersionFirst
<1>7. \A t \in Tasks : Timely(t)
  BY Zenon DEF Init, Timely, Inside
<1> QED BY <1>1, <1>2, <1>3, <1>4, <1>5, <1>6, <1>7, Zenon DEF Init, Inv, CoverInv, VersionInv

LEMMA StepInv ==
    ASSUME Inv, [Next]_vars
    PROVE  Inv'
BY TypeStep, LockStep, CoverStep, VersionStep, Zenon DEF Inv

\* The invariant of the proofs.
LEMMA Invariance == Spec => []Inv
BY InitInv, StepInv, PTL DEF Spec

\* The values that the relay, Redis and the processes hold have their types.
THEOREM TypeCorrect == Spec => []TypeOK
<1>1. Inv => TypeOK
  BY Zenon DEF Inv
<1> QED BY <1>1, Invariance, PTL

\* The release script deletes no rebuild lock but the task's own, so the lock is
\* the task's that acquired it until it releases it or the TTL passes.
THEOREM LockKept == Spec => []RebuildLockKept
<1>1. Inv => RebuildLockKept
  BY Zenon DEF Inv, LockInv
<1> QED BY <1>1, Invariance, PTL

\* refresh reads the version before the mails and the relay writes it after them,
\* so that a snapshot misses no mail that was announced when its version was read
\* and has not expired, but for those the rebuild after a lost detail leaves out.
THEOREM SnapshotsCover == Spec => []SnapshotCovers
<1>1. Inv => SnapshotCovers
  BY Zenon DEF Inv, CoverInv
<1> QED BY <1>1, Invariance, PTL

\* The second look at the snapshot under the mutex, and events that follow the
\* version they announce, keep the snapshot's version from moving back.
THEOREM VersionsGoForward == Spec => VersionForward
<1> DEFINE Forward == \A i \in booted \intersect booted' :
                        snapshot[i].version <= snapshot'[i].version \/ "version" \in gone
<1>1. ASSUME Inv, [Next]_vars PROVE Forward
  <2> SUFFICES ASSUME NEW i \in booted, i \in booted', "version" \notin gone
               PROVE  snapshot[i].version <= snapshot'[i].version
    OBVIOUS
  <2>1. /\ TypeOK /\ VersionInv /\ i \in Instances /\ snapshot[i].version \in {0, 1}
    BY <1>1, Zenon DEF Inv, TypeOK, Versions, EventVersion
  <2>2. CASE snapshot' = snapshot
    BY <2>1, <2>2
  <2>3. ASSUME NEW j \in Instances, NEW lk \in [Versions -> SUBSET (Tasks \union {Left})],
               Restart(j, lk)
        PROVE  snapshot[i].version <= snapshot'[i].version
    <3>1. snapshot'[i] = snapshot[i]
      BY <2>1, <2>3, RestartIs, Zenon
    <3> QED BY <2>1, <3>1
  <2>4. ASSUME NEW t \in Tasks, Store(t) PROVE snapshot[i].version <= snapshot'[i].version
    <3>1. Timely(t) /\ Inside(t) /\ Host[t] \in Instances /\ remote[t] \in {0, 1}
      BY <2>1, <2>4, StoreIs, HostIs, Zenon DEF VersionInv, Inside, TypeOK, Versions, EventVersion
    <3>2. CASE Host[t] # i
      <4>1. snapshot'[i] = snapshot[i]
        BY <2>1, <2>4, <3>2, StoreIs, Zenon
      <4> QED BY <2>1, <4>1
    <3>3. CASE Host[t] = i
      <4>1. snapshot'[i] = [version |-> remote[t], mails |-> got[t], at |-> at[t], due |-> due[t]]
        BY <2>1, <2>4, <3>3, StoreIs, Zenon
      <4>2. snapshot'[i].version = remote[t]
        BY <4>1
      <4>3. pc[t] = "store"
        BY <2>1, <2>4, StoreIs, Zenon
      <4>4. CASE t \in forced
        BY <2>1, <3>1, <3>3, <4>2, <4>3, <4>4 DEF Timely, EventVersion
      <4>5. CASE t \notin forced
        BY <2>1, <3>1, <3>3, <4>2, <4>5 DEF Timely
      <4> QED BY <4>4, <4>5, Zenon
    <3> QED BY <3>2, <3>3, Zenon
  <2>5. ASSUME NEW t \in Tasks, Fail(t) PROVE snapshot[i].version <= snapshot'[i].version
    <3>1. Host[t] \in Instances
          /\ \A lk \in AfterUnlock(t) : lk \in [Versions -> SUBSET (Tasks \union {Left})]
      BY <2>1, HostIs, UnlockIs, Zenon
    <3> QED BY <2>1, <2>2, <2>3, <2>5, <3>1, FailIs, Zenon
  <2>6. ASSUME NEW j \in Instances, Crash(j) PROVE snapshot[i].version <= snapshot'[i].version
    BY <2>1, <2>3, <2>6, Zenon DEF Crash, TypeOK
  <2>7. ASSUME NEW t \in Tasks, Step(t), ~Store(t) PROVE snapshot' = snapshot
    <3>1. CASE GetGlobalMailVersion(t) \/ Lock(t) \/ GetActiveGlobalMailIDs(t)
      BY <2>1, <3>1, GetVersionIs, LockIs, IdsIs, Zenon DEF process
    <3>2. CASE \E m \in Mails : GetGlobalMail(t, m) \/ RefillDetail(t, m) \/ RefillIndex(t, m)
      BY <2>1, <3>2, GetMailIs, RefillIs, Zenon DEF process
    <3>3. CASE TryAcquireGlobalMailRebuildLock(t) \/ WaitTick(t) \/ WaitTimeout(t)
               \/ GetPublishedGlobalMails(t) \/ Release(t)
      BY <2>1, <3>3, AcquireIs, WaitIs, LoadIs, ReleaseIs, Zenon DEF process
    <3> QED BY <2>7, <3>1, <3>2, <3>3, Zenon DEF Step
  <2>8. ASSUME NEW t \in Tasks, Boot(t) \/ Poll(t) \/ (\E m \in Mails : Handle(t, m))
        PROVE  snapshot' = snapshot
    BY <2>1, <2>8, BootIs, PollIs, HandleIs, Zenon DEF process
  <2>9. ASSUME NEW m \in Mails, Publish(m) \/ Relay(m) PROVE snapshot' = snapshot
    BY <2>1, <2>9, RelayIs, Zenon
  <2>10. CASE Tick \/ Lose \/ (\E v \in Versions : LockExpire(v)) \/ UNCHANGED vars
    BY <2>2, <2>10, Zenon DEF Tick, Lose, LockExpire, vars, process
  <2> QED BY <1>1, <2>2, <2>4, <2>5, <2>6, <2>7, <2>8, <2>9, <2>10, Zenon DEF Next
<1>2. Inv /\ [Next]_vars => [Forward]_vars
  BY <1>1, Zenon
<1> QED BY <1>2, Invariance, PTL DEF Spec, VersionForward
=============================================================================
