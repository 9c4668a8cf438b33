------------------------------ MODULE Routing ------------------------------
(***************************************************************************)
(* gatewaysrv: choosing the playersrv of a user and forwarding commands to *)
(* it (app/gatewaysrv/route_service.go, router.go, session.go,             *)
(* command_forwarder.go, server.go), over the instances in the Registry    *)
(* and the DBSrvRouter record in Redis (data/redis/routing.go).            *)
(*                                                                         *)
(* Routes are kept by UID; the model has one user.  A task is a goroutine  *)
(* of a gateway that serves one call for the user after another.  Every    *)
(* call to Redis, etcd or a playersrv is one step, and may fail with or    *)
(* without having taken effect; what Go computes after a call belongs to   *)
(* its step.                                                               *)
(***************************************************************************)
EXTENDS Registry

CONSTANTS
    Gateways,
    Tasks,
    Placements,     \* the gateways the tasks may belong to
    UserHash        \* crc32 of the uid

ASSUME RoutingAssumption ==
    /\ Placements \subseteq [Tasks -> Gateways]
    /\ UserHash \in Hashes

VARIABLES
    stored,       \* Redis: DBSrvRouter
    session,      \* gateway: SessionRouteCache
    gate,         \* task: its gateway
    pc,           \* task: its next call
    route,        \* task: the route it holds
    list,         \* task: the instances its Update builds the ring from
    mixed,        \* task: what Updates of other tasks may have put into that
                  \* ring, {} without such an Update
    apart         \* history: something has happened that lets two gateways
                  \* send the user to different instances

routes == <<stored, session>>
task == <<pc, route, list, mixed, gate>>
vars == <<etcd, routes, task, apart>>

None == -1
\* PlayerServerInstance{}, what a lookup that misses returns.
Zero == 0

Init ==
    /\ RegistryInit
    /\ stored = None
    /\ session = [g \in Gateways |-> None]
    /\ gate \in Placements
    /\ pc = [t \in Tasks |-> "idle"]
    /\ route = [t \in Tasks |-> None]
    /\ list = [t \in Tasks |-> {}]
    /\ mixed = [t \in Tasks |-> {}]
    /\ apart = FALSE

-----------------------------------------------------------------------------

\* Tasks that have found no route, and have not yet stored one.
Choosing == {t \in Tasks : pc[t] \in {"list", "route", "save"}}

\* What a step of the registry means to the gateways.
UnderGateways ==
    /\ apart' = (apart \/ (Choosing # {} /\ Ready' # Ready))
    /\ UNCHANGED <<routes, task>>

-----------------------------------------------------------------------------
(* Resolve, Forward and Clear.                                             *)

Goto(t, call) ==
    /\ pc' = [pc EXCEPT ![t] = call]
    /\ UNCHANGED <<list, mixed, gate>>

Hold(t, i, call) == route' = [route EXCEPT ![t] = i] /\ Goto(t, call)

\* The call ends, with an answer or an error.
Finish(t) == Hold(t, None, "idle")

\* A command or ResolveRoute arrives, and starts with the session's route,
\* which is not checked against anything.
Begin(t) ==
    /\ pc[t] = "idle"
    /\ \/ session[gate[t]] # None /\ Hold(t, session[gate[t]], "dispatch")
       \/ session[gate[t]] = None /\ Hold(t, None, "stored")
    /\ UNCHANGED <<etcd, routes, apart>>

\* Mutant: the record in Redis is written and never used.
GetSrvRouterIgnored(t) ==
    /\ pc[t] = "stored"
    /\ Hold(t, None, "list")
    /\ UNCHANGED <<etcd, routes, apart>>

GetSrvRouter(t) ==
    /\ pc[t] = "stored"
    /\ \/ stored # None /\ Hold(t, stored, "keep")
       \/ stored = None /\ Hold(t, None, "list")
       \/ Faults /\ Finish(t)
    /\ UNCHANGED <<etcd, routes, apart>>

\* The tasks that use the gateway's ring: from the listing to RouteUID.
OnRing(g) == {t \in Tasks : gate[t] = g /\ pc[t] = "route"}

\* Update rebuilds the gateway's one ring without a lock, under the other tasks
\* that use it, which write theirs under it.  What they write is their listing,
\* and the zero value for a hash that has no entry in the map yet.
Update(t, listing) ==
    LET others == OnRing(gate[t]) IN
    /\ list' = [list EXCEPT ![t] = listing]
    /\ mixed' = [u \in Tasks |->
          IF u \in others THEN mixed[u] \union listing \union {Zero}
          ELSE IF u = t /\ others # {} THEN (UNION {list[v] : v \in others}) \union {Zero}
          ELSE mixed[u]]

ListReadyPlayerServers(t) ==
    /\ pc[t] = "list"
    /\ \/ /\ Update(t, Ready)
          /\ pc' = [pc EXCEPT ![t] = "route"]
          /\ UNCHANGED <<route, gate>>
       \/ Faults /\ Finish(t)
    /\ UNCHANGED <<etcd, routes, apart>>

\* RouteUID: the ring's answer, or anything a mixed ring may give.  (A ring
\* that is empty is an error; an index out of range or a concurrent map access
\* ends the process.)
Route(t) ==
    /\ pc[t] = "route"
    /\ \E i \in IF mixed[t] # {} THEN list[t] \union mixed[t] \union {None}
               ELSE IF list[t] # {} THEN {RouteUID(list[t], UserHash)}
               ELSE {None} :
          /\ route' = [route EXCEPT ![t] = i]
          /\ pc' = [pc EXCEPT ![t] = IF i = None THEN "idle" ELSE "save"]
    /\ apart' = (apart \/ mixed[t] # {})
    /\ list' = [list EXCEPT ![t] = {}]
    /\ mixed' = [mixed EXCEPT ![t] = {}]
    /\ UNCHANGED <<gate, etcd, routes>>

SetSrvRouter(t) ==
    /\ pc[t] = "save"
    /\ \/ stored' = route[t] /\ Goto(t, "keep") /\ UNCHANGED route
       \/ Faults /\ stored' \in {stored, route[t]} /\ Finish(t)
    /\ UNCHANGED <<etcd, session, apart>>

\* session.Set, of a stored route or of a new one.
SessionSet(t) ==
    /\ pc[t] = "keep"
    /\ session' = [session EXCEPT ![gate[t]] = route[t]]
    /\ Goto(t, "dispatch")
    /\ UNCHANGED <<route, etcd, stored, apart>>

\* ResolveRoute returns the route.
ResolveRoute(t) ==
    /\ pc[t] = "dispatch"
    /\ Finish(t)
    /\ UNCHANGED <<etcd, routes, apart>>

\* session.Delete, the first half of Clear.
SessionDelete(t) ==
    /\ session' = [session EXCEPT ![gate[t]] = None]
    /\ Hold(t, None, "clearStored")

ClearRoute(t) ==
    /\ pc[t] = "idle"
    /\ SessionDelete(t)
    /\ UNCHANGED <<etcd, stored, apart>>

\* Mutant: a failed command leaves the route.
DispatchKeepsRoute(t) ==
    /\ pc[t] = "dispatch"
    /\ Finish(t)
    /\ UNCHANGED <<session, etcd, stored, apart>>

\* Forward sends the command to the route, and clears it if that fails.
Dispatch(t) ==
    /\ pc[t] = "dispatch"
    /\ \/ route[t] \in proc /\ Finish(t) /\ UNCHANGED session
       \/ (route[t] \notin proc \/ Faults) /\ SessionDelete(t)
    /\ UNCHANGED <<etcd, stored, apart>>

\* A session or one of these tasks goes on with the route that is in Redis.
Remembered(tasks) ==
    \/ \E g \in Gateways : session[g] # None
    \/ \E t \in tasks : pc[t] # "idle"

DeleteSrvRouter(t) ==
    /\ pc[t] = "clearStored"
    /\ \/ stored' = None /\ apart' = (apart \/ (stored # None /\ Remembered(Tasks \ {t})))
       \/ Faults /\ UNCHANGED <<stored, apart>>
    /\ Finish(t)
    /\ UNCHANGED <<etcd, session>>

-----------------------------------------------------------------------------

\* The record's TTL passes.
RouteExpires ==
    /\ stored # None
    /\ stored' = None
    /\ apart' = (apart \/ Remembered(Tasks))
    /\ UNCHANGED <<etcd, session, task>>

GatewayDies(g) ==
    /\ Faults
    /\ session' = [session EXCEPT ![g] = None]
    /\ pc' = [t \in Tasks |-> IF gate[t] = g THEN "idle" ELSE pc[t]]
    /\ route' = [t \in Tasks |-> IF gate[t] = g THEN None ELSE route[t]]
    /\ list' = [t \in Tasks |-> IF gate[t] = g THEN {} ELSE list[t]]
    /\ mixed' = [t \in Tasks |-> IF gate[t] = g THEN {} ELSE mixed[t]]
    /\ UNCHANGED <<gate, stored, etcd, apart>>

Call(t) ==
    \/ GetSrvRouter(t) \/ ListReadyPlayerServers(t) \/ Route(t)
    \/ SetSrvRouter(t) \/ SessionSet(t) \/ ResolveRoute(t) \/ Dispatch(t)
    \/ DeleteSrvRouter(t)

Next ==
    \/ RegistryNext /\ UnderGateways
    \/ \E t \in Tasks : Begin(t) \/ ClearRoute(t) \/ Call(t)
    \/ \E g \in Gateways : GatewayDies(g)
    \/ RouteExpires

Spec == Init /\ [][Next]_vars

\* Etcd and the clock go on, and so do the tasks: the user goes on making calls,
\* and not only such that never use the route.
Fairness ==
    /\ \A i \in Unstable : WF_vars(i \notin proc /\ LeaseExpires(i) /\ UnderGateways)
    /\ WF_vars(RouteExpires)
    /\ \A t \in Tasks : WF_vars(Begin(t) \/ ClearRoute(t) \/ Call(t)) /\ SF_vars(Dispatch(t))

FairSpec == Spec /\ Fairness

-----------------------------------------------------------------------------

Places == Instances \union {None, Zero}

\* Types of the registry, the routes and the tasks.
TypeOK ==
    /\ RegistryTypeOK
    /\ stored \in Places
    /\ session \in [Gateways -> Places]
    /\ gate \in [Tasks -> Gateways]
    /\ pc \in [Tasks -> {"idle", "stored", "list", "route", "save", "keep",
                         "dispatch", "clearStored"}]
    /\ route \in [Tasks -> Places]
    /\ list \in [Tasks -> SUBSET Instances]
    /\ mixed \in [Tasks -> SUBSET (Instances \union {Zero})]
    /\ apart \in BOOLEAN

\* Everywhere the user is sent to, by Redis, a gateway or a call in flight.
Destinations ==
    ({stored} \union {session[g] : g \in Gateways} \union {route[t] : t \in Tasks})
        \ {None}

\* Session routes, DBSrvRouter and the ring send the user to one registered
\* instance from all gateways, until a record is lost while the user is still
\* remembered, the ready instances change while a call is choosing, or two
\* calls use a gateway's ring at a time.
OneServerPerUser ==
    ~apart => \A i, j \in Destinations : i = j /\ i \in Instances

\* A call that chooses on an older listing moves few users: the ring it builds
\* sends a uid elsewhere than the ring of the instances that are ready now only
\* if its choice has left since, or theirs has arrived since.
MinimalMovement ==
    \A t \in Tasks :
        list[t] # {} /\ Ready # {} => <<list[t], Ready>> \in SmallMoves

\* Dispatch and Clear, the lease and the TTL get a user off an instance that
\* has gone for good, from Redis and from every gateway, unless UpdateStatus
\* has unbound the instance's key from its lease.
GoneIsForgotten ==
    \A i \in Unstable :
        <>[](i \notin proc) =>
        <>[](i \in touched \/ (stored # i /\ \A g \in Gateways : session[g] # i))
=============================================================================
