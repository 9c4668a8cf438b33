------------------------------ MODULE Registry ------------------------------
(***************************************************************************)
(* The playersrv instances in etcd (infra/etcd/registry.go, discovery.go,  *)
(* and the life of a process in cmd/playersrv/main.go).  A key carries a   *)
(* status and may be bound to a lease, which the process keeps alive.      *)
(* Addresses, weights and versions of an instance do not change, and are   *)
(* left out of its key.                                                    *)
(***************************************************************************)
EXTENDS HashRing

CONSTANTS
    Started,        \* the instances that are running at the start
    Unstable,       \* the instances that may stop, die or drain
    Faults          \* may a call to Redis, etcd or a playersrv fail?

ASSUME RegistryAssumption ==
    /\ Started \subseteq Instances
    /\ Unstable \subseteq Instances
    /\ Faults \in BOOLEAN

VARIABLES
    key,          \* instance: the status under its key, "none" without
    leased,       \* instances whose key is bound to a lease
    proc,         \* instances with a running process
    leaving,      \* instances whose old process has still to unregister
    updating,     \* instance: the status UpdateStatus is about to put
    touched,      \* history: instances that UpdateStatus has written
    displaced     \* history: instances that were started while an old process
                  \* of theirs was leaving, or have lost their lease since

etcd == <<key, leased, proc, leaving, updating, touched, displaced>>

RegistryInit ==
    /\ key = [i \in Instances |-> IF i \in Started THEN "ready" ELSE "none"]
    /\ leased = Started /\ proc = Started /\ leaving = {}
    /\ updating = [i \in Instances |-> "none"]
    /\ touched = {} /\ displaced = {}

\* ListReady: drained instances stay under their keys, and are not listed.
Ready == {i \in Instances : key[i] = "ready"}

\* Write or delete a key.
Put(i, status, withLease) ==
    /\ key' = [key EXCEPT ![i] = status]
    /\ leased' = IF withLease THEN leased \union {i} ELSE leased \ {i}

-----------------------------------------------------------------------------

\* Mutant: the key is put without a lease.
RegisterUnleased(i) ==
    /\ i \notin proc
    /\ proc' = proc \union {i}
    /\ Put(i, "ready", FALSE)
    /\ displaced' = IF i \in leaving THEN displaced \union {i} ELSE displaced \ {i}
    /\ UNCHANGED <<leaving, updating, touched>>

\* A process starts, takes a lease and puts its key with it.
Register(i) ==
    /\ i \notin proc
    /\ proc' = proc \union {i}
    /\ Put(i, "ready", TRUE)
    /\ displaced' = IF i \in leaving THEN displaced \union {i} ELSE displaced \ {i}
    /\ UNCHANGED <<leaving, updating, touched>>

\* The signal: the process serves no more, and has still to unregister.
Shutdown(i) ==
    /\ i \in (proc \intersect Unstable) \ leaving
    /\ proc' = proc \ {i}
    /\ leaving' = leaving \union {i}
    /\ UNCHANGED <<key, leased, updating, touched, displaced>>

\* The deferred Unregister deletes the key, which a new process with the same
\* id may have put.
Unregister(i) ==
    /\ i \in leaving
    /\ leaving' = leaving \ {i}
    /\ Put(i, "none", FALSE) \/ (Faults /\ UNCHANGED <<key, leased>>)
    /\ UNCHANGED <<proc, updating, touched, displaced>>

\* The process dies, or ends with log.Fatalf, which skips the deferred call.
Die(i) ==
    /\ i \in proc \intersect Unstable
    /\ proc' = proc \ {i}
    /\ UNCHANGED <<key, leased, leaving, updating, touched, displaced>>

\* Without keepalives etcd drops the lease, and the keys bound to it.
LeaseExpires(i) ==
    /\ i \in leased
    /\ i \notin proc \/ (Faults /\ i \in Unstable)
    /\ Put(i, "none", FALSE)
    /\ displaced' = IF i \in proc THEN displaced \union {i} ELSE displaced
    /\ UNCHANGED <<proc, leaving, updating, touched>>

\* UpdateStatus reads the key (bounded: once per instance) ...
UpdateStatusGet(i, status) ==
    /\ i \in Unstable \ touched /\ updating[i] = "none" /\ key[i] # "none"
    /\ updating' = [updating EXCEPT ![i] = status]
    /\ UNCHANGED <<key, leased, proc, leaving, touched, displaced>>

\* ... and puts it again, without a lease, whatever became of it meanwhile.
UpdateStatusPut(i) ==
    /\ updating[i] # "none"
    /\ updating' = [updating EXCEPT ![i] = "none"]
    /\ \/ Put(i, updating[i], FALSE) /\ touched' = touched \union {i}
       \/ Faults /\ UNCHANGED <<key, leased, touched>>
    /\ UNCHANGED <<proc, leaving, displaced>>

RegistryStep(i) ==
    \/ Register(i) \/ Shutdown(i) \/ Unregister(i) \/ Die(i) \/ LeaseExpires(i)
    \/ \E status \in {"ready", "draining"} : UpdateStatusGet(i, status)
    \/ UpdateStatusPut(i)

RegistryNext == \E i \in Instances : RegistryStep(i)

RegistrySpec == RegistryInit /\ [][RegistryNext]_etcd

-----------------------------------------------------------------------------

\* Types of the keys and the processes; only a key can have a lease.
RegistryTypeOK ==
    /\ key \in [Instances -> {"none", "ready", "draining"}]
    /\ leased \subseteq {i \in Instances : key[i] # "none"}
    /\ proc \subseteq Instances /\ leaving \subseteq Instances
    /\ updating \in [Instances -> {"none", "ready", "draining"}]
    /\ touched \subseteq Instances /\ displaced \subseteq Instances

\* A running playersrv is listed, under a key with a lease: only UpdateStatus,
\* a lost lease or the Unregister of a predecessor still leaving takes it out
\* of the registry, to which it never returns by itself.
RunningIsRegistered ==
    \A i \in proc \ (touched \union displaced) : key[i] = "ready" /\ i \in leased
=============================================================================
