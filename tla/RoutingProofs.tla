---------------------------- MODULE RoutingProofs ----------------------------
(***************************************************************************)
(* Proofs about HashRing, Registry and Routing, for any instances,         *)
(* gateways and tasks, any weights and any hash function.                  *)
(***************************************************************************)
EXTENDS Routing, FiniteSetTheorems, WellFoundedInduction, TLAPS

-----------------------------------------------------------------------------
(* The ring.                                                               *)

LEMMA MinExists ==
    ASSUME NEW T, T \subseteq Nat, T # {}
    PROVE  \E x \in T : \A y \in T : x <= y
<1>1. PICK x \in T : \A y \in T : ~ (<<y, x>> \in OpToRel(<, Nat))
  BY NatLessThanWellFounded, WFMin, Zenon
<1>2. \A y \in T : ~ (y < x)
  BY <1>1, Zenon DEF OpToRel
<1> QED BY <1>2

LEMMA InstancesNumbered ==
    Cardinality(Instances) \in Nat /\ Instances = 1..Cardinality(Instances)
<1>1. IsFiniteSet(Instances)
  BY RingAssumption, Zenon
<1>2. Cardinality(Instances) \in Nat
  BY <1>1, FS_CardinalityType, Zenon
<1>3. Instances = 1..Cardinality(Instances)
  BY RingAssumption, Zenon
<1> QED BY <1>2, <1>3, Zenon

LEMMA MaxExists ==
    ASSUME NEW T, T \subseteq Instances, T # {}
    PROVE  \E x \in T : \A y \in T : y <= x
<1> DEFINE n == Cardinality(Instances)
           D == {n - y : y \in T}
<1>1. n \in Nat /\ T \subseteq 1..n
  BY InstancesNumbered, Zenon
<1> HIDE DEF n
<1>2. \A y \in T : n - y \in Nat
  BY <1>1
<1>3. D \subseteq Nat
  BY <1>2, Zenon
<1>4. D # {}
  OBVIOUS
<1>5. PICK d \in D : \A e \in D : d <= e
  BY <1>3, <1>4, MinExists, Zenon
<1>6. PICK x \in T : d = n - x
  OBVIOUS
<1>7. \A y \in T : n - x <= n - y
  BY <1>5, <1>6, Zenon
<1> QED BY <1>1, <1>7

\* Every instance has a virtual node.
LEMMA PointsExist ==
    ASSUME NEW i \in Instances
    PROVE  Points(i) # {} /\ Points(i) \subseteq Nat
<1> DEFINE weight == IF Weight[i] <= 0 THEN 100 ELSE Weight[i]
           replicas == (VirtualNodes * weight) \div 100
<1>1. weight \in Int /\ VirtualNodes \in Int
  BY RingAssumption
<1> HIDE DEF weight
<1>2. VirtualNodes * weight \in Int
  BY <1>1
<1>3. replicas \in Int
  BY <1>2
<1> HIDE DEF replicas
<1>4. Replicas(i) = IF replicas <= 0 THEN 1 ELSE replicas
  BY Zenon DEF Replicas, replicas, weight
<1>5. Replicas(i) \in Nat \ {0}
  BY <1>3, <1>4
<1>6. 0 \in 0..(Replicas(i) - 1)
  BY <1>5
<1> QED BY <1>6, RingAssumption, Zenon DEF Points

LEMMA FirstIs ==
    ASSUME NEW points, points \subseteq Nat, points # {}
    PROVE  First(points) \in points /\ \A q \in points : First(points) <= q
BY MinExists, Zenon DEF First

\* The owner of a virtual node is the last instance that has it.
LEMMA NodeIs ==
    ASSUME NEW listing \in Listings, NEW p \in Ring(listing)
    PROVE  /\ Node(listing, p) \in listing
           /\ p \in Points(Node(listing, p))
           /\ \A j \in listing : p \in Points(j) => j <= Node(listing, p)
<1> DEFINE owners == {i \in listing : p \in Points(i)}
<1>1. owners # {} /\ owners \subseteq Instances
  BY Zenon DEF Ring, Listings
<1>2. PICK i \in owners : \A j \in owners : j <= i
  BY <1>1, MaxExists, Zenon
<1>3. \E k \in listing : p \in Points(k) /\ \A j \in listing : p \in Points(j) => j <= k
  BY <1>2, Zenon
<1> QED BY <1>3, Zenon DEF Node

\* The virtual node a hash is sent to.
Aim(listing, h) ==
    LET from == {p \in Ring(listing) : p >= h}
    IN  First(IF from = {} THEN Ring(listing) ELSE from)

LEMMA AimIs ==
    ASSUME NEW listing \in Listings, NEW h \in Hashes
    PROVE  /\ Aim(listing, h) \in Ring(listing) /\ Ring(listing) \subseteq Nat
           /\ \A q \in Ring(listing) :
                 /\ q >= h => Aim(listing, h) >= h /\ Aim(listing, h) <= q
                 /\ Aim(listing, h) < h => Aim(listing, h) <= q
<1> DEFINE from == {p \in Ring(listing) : p >= h}
<1>1. Ring(listing) # {} /\ Ring(listing) \subseteq Nat
  BY PointsExist DEF Ring, Listings
<1>2. h \in Nat
  BY RingAssumption, Zenon
<1>3. CASE from = {}
  <2>1. Aim(listing, h) = First(Ring(listing))
    BY <1>3, Zenon DEF Aim
  <2>2. \A q \in Ring(listing) : ~ (q >= h)
    BY <1>3, Zenon
  <2> QED BY <1>1, <1>2, <2>1, <2>2, FirstIs, Zenon
<1>4. CASE from # {}
  <2>1. Aim(listing, h) = First(from)
    BY <1>4, Zenon DEF Aim
  <2>2. from \subseteq Nat
    BY <1>1, Zenon
  <2>3. First(from) \in from /\ \A q \in from : First(from) <= q
    BY <1>4, <2>2, FirstIs, Zenon
  <2> QED BY <1>1, <1>2, <2>1, <2>3
<1> QED BY <1>3, <1>4, Zenon

LEMMA RouteIsNode ==
    ASSUME NEW listing, NEW h
    PROVE  RouteUID(listing, h) = Node(listing, Aim(listing, h))
BY Zenon DEF RouteUID, Aim

\* RouteUID answers an instance of the listing.
LEMMA RouteIsListed ==
    ASSUME NEW listing \in Listings, NEW h \in Hashes
    PROVE  RouteUID(listing, h) \in listing
BY AimIs, NodeIs, RouteIsNode, Zenon

\* Between any two listings, a uid that is sent elsewhere has lost its instance
\* or gets one that has just come: whatever the hash function, its collisions
\* and the weights.
THEOREM AllMovesSmall == SmallMoves = Listings \X Listings
<1> SUFFICES ASSUME NEW A \in Listings, NEW B \in Listings, NEW h \in Hashes,
                    RouteUID(A, h) \in B, RouteUID(B, h) \in A
             PROVE  RouteUID(A, h) = RouteUID(B, h)
  BY DEF SmallMoves
<1> DEFINE p == Aim(A, h)
           q == Aim(B, h)
           old == Node(A, p)
           new == Node(B, q)
<1>1. RouteUID(A, h) = old /\ RouteUID(B, h) = new
  BY RouteIsNode, Zenon
<1>2. /\ p \in Ring(A) /\ q \in Ring(B)
      /\ Ring(A) \subseteq Nat /\ Ring(B) \subseteq Nat
      /\ \A r \in Ring(A) : (r >= h => p >= h /\ p <= r) /\ (p < h => p <= r)
      /\ \A r \in Ring(B) : (r >= h => q >= h /\ q <= r) /\ (q < h => q <= r)
  BY AimIs, Zenon
<1> HIDE DEF p, q
<1>3. /\ old \in A /\ p \in Points(old) /\ \A j \in A : p \in Points(j) => j <= old
      /\ new \in B /\ q \in Points(new) /\ \A j \in B : q \in Points(j) => j <= new
  BY <1>2, NodeIs, Zenon
<1> HIDE DEF old, new
<1>4. p \in Ring(B) /\ q \in Ring(A)
  BY <1>1, <1>3, Zenon DEF Ring
<1>5. h \in Nat
  BY RingAssumption, Zenon
<1>6. p = q
  BY <1>2, <1>4, <1>5
<1>7. old <= new /\ new <= old
  BY <1>1, <1>3, <1>6, Zenon
<1>8. old \in Nat /\ new \in Nat
  BY <1>3, InstancesNumbered DEF Listings
<1> QED BY <1>1, <1>7, <1>8

-----------------------------------------------------------------------------

Status == {"none", "ready", "draining"}
Calls == {"idle", "stored", "list", "route", "save", "keep", "dispatch", "clearStored"}

-----------------------------------------------------------------------------
(* The registry.                                                           *)

\* A process that runs beside a predecessor that has still to unregister was
\* started under it.
RegistryInv ==
    /\ RegistryTypeOK /\ RunningIsRegistered
    /\ leaving \intersect proc \subseteq displaced

LEMMA RegistryInitInv == RegistryInit => RegistryInv
BY RegistryAssumption, Zenon
   DEF RegistryInit, RegistryInv, RegistryTypeOK, RunningIsRegistered

LEMMA PutTypes ==
    ASSUME RegistryTypeOK, NEW i \in Instances, NEW status \in Status,
           NEW withLease \in BOOLEAN, withLease => status # "none",
           Put(i, status, withLease)
    PROVE  /\ key' \in [Instances -> Status]
           /\ leased' \subseteq {j \in Instances : key'[j] # "none"}
           /\ key'[i] = status /\ \A j \in Instances \ {i} : key'[j] = key[j]
           /\ withLease => leased' = leased \union {i}
           /\ ~withLease => leased' = leased \ {i}
<1>1. key' = [key EXCEPT ![i] = status]
  BY Zenon DEF Put
<1>2. key' \in [Instances -> Status] /\ key'[i] = status
      /\ \A j \in Instances \ {i} : key'[j] = key[j]
  BY <1>1, Zenon DEF RegistryTypeOK, Status
<1>3. CASE withLease
  BY <1>2, <1>3, Zenon DEF Put, RegistryTypeOK
<1>4. CASE ~withLease
  BY <1>2, <1>4, Zenon DEF Put, RegistryTypeOK
<1> QED BY <1>2, <1>3, <1>4, Zenon

LEMMA RegistryStepInv == RegistryInv /\ [RegistryNext]_etcd => RegistryInv'
<1> SUFFICES ASSUME RegistryInv, [RegistryNext]_etcd PROVE RegistryInv'
  OBVIOUS
<1> USE DEF Status
<1>0. RegistryTypeOK /\ RunningIsRegistered /\ leaving \intersect proc \subseteq displaced
  BY Zenon DEF RegistryInv
<1>1. ASSUME NEW i \in Instances, Register(i) PROVE RegistryInv'
  <2>1. /\ i \notin proc /\ proc' = proc \union {i} /\ Put(i, "ready", TRUE)
        /\ displaced' = IF i \in leaving THEN displaced \union {i} ELSE displaced \ {i}
        /\ UNCHANGED <<leaving, updating, touched>>
    BY <1>1, Zenon DEF Register
  <2>2. /\ key' \in [Instances -> Status] /\ key'[i] = "ready"
        /\ leased' \subseteq {j \in Instances : key'[j] # "none"}
        /\ \A j \in Instances \ {i} : key'[j] = key[j]
        /\ leased' = leased \union {i}
    BY <1>0, <2>1, PutTypes, Zenon
  <2> QED BY <1>0, <2>1, <2>2 DEF RegistryInv, RegistryTypeOK, RunningIsRegistered
<1>2. ASSUME NEW i \in Instances, Shutdown(i) PROVE RegistryInv'
  BY <1>0, <1>2, Zenon DEF Shutdown, RegistryInv, RegistryTypeOK, RunningIsRegistered
<1>3. ASSUME NEW i \in Instances, Unregister(i) PROVE RegistryInv'
  <2>1. /\ i \in leaving /\ leaving' = leaving \ {i}
        /\ UNCHANGED <<proc, updating, touched, displaced>>
    BY <1>3, Zenon DEF Unregister
  <2>2. CASE UNCHANGED <<key, leased>>
    BY <1>0, <2>1, <2>2, Zenon DEF RegistryInv, RegistryTypeOK, RunningIsRegistered
  <2>3. CASE Put(i, "none", FALSE)
    <3>1. /\ key' \in [Instances -> Status]
          /\ leased' \subseteq {j \in Instances : key'[j] # "none"}
          /\ \A j \in Instances \ {i} : key'[j] = key[j]
          /\ leased' = leased \ {i}
      BY <1>0, <2>3, PutTypes, Zenon
    <3> QED BY <1>0, <2>1, <3>1 DEF RegistryInv, RegistryTypeOK, RunningIsRegistered
  <2> QED BY <1>3, <2>2, <2>3, Zenon DEF Unregister
<1>4. ASSUME NEW i \in Instances, Die(i) PROVE RegistryInv'
  BY <1>0, <1>4, Zenon DEF Die, RegistryInv, RegistryTypeOK, RunningIsRegistered
<1>5. ASSUME NEW i \in Instances, LeaseExpires(i) PROVE RegistryInv'
  <2>1. /\ Put(i, "none", FALSE)
        /\ displaced' = IF i \in proc THEN displaced \union {i} ELSE displaced
        /\ UNCHANGED <<proc, leaving, updating, touched>>
    BY <1>5, Zenon DEF LeaseExpires
  <2>2. /\ key' \in [Instances -> Status]
        /\ leased' \subseteq {j \in Instances : key'[j] # "none"}
        /\ \A j \in Instances \ {i} : key'[j] = key[j]
        /\ leased' = leased \ {i}
    BY <1>0, <2>1, PutTypes, Zenon
  <2> QED BY <1>0, <2>1, <2>2 DEF RegistryInv, RegistryTypeOK, RunningIsRegistered
<1>6. ASSUME NEW i \in Instances, NEW status \in {"ready", "draining"},
             UpdateStatusGet(i, status)
      PROVE  RegistryInv'
  BY <1>0, <1>6, Zenon DEF UpdateStatusGet, RegistryInv, RegistryTypeOK, RunningIsRegistered
<1>7. ASSUME NEW i \in Instances, UpdateStatusPut(i) PROVE RegistryInv'
  <2>1. /\ updating' = [updating EXCEPT ![i] = "none"] /\ updating[i] \in Status
        /\ UNCHANGED <<proc, leaving, displaced>>
    BY <1>0, <1>7, Zenon DEF UpdateStatusPut, RegistryTypeOK
  <2>2. CASE UNCHANGED <<key, leased, touched>>
    BY <1>0, <2>1, <2>2, Zenon DEF RegistryInv, RegistryTypeOK, RunningIsRegistered
  <2>3. CASE Put(i, updating[i], FALSE) /\ touched' = touched \union {i}
    <3>1. /\ key' \in [Instances -> Status]
          /\ leased' \subseteq {j \in Instances : key'[j] # "none"}
          /\ \A j \in Instances \ {i} : key'[j] = key[j]
          /\ leased' = leased \ {i}
      BY <1>0, <2>1, <2>3, PutTypes, Zenon
    <3> QED BY <1>0, <2>1, <2>3, <3>1, Zenon DEF RegistryInv, RegistryTypeOK, RunningIsRegistered
  <2> QED BY <1>7, <2>2, <2>3, Zenon DEF UpdateStatusPut
<1>8. CASE UNCHANGED etcd
  BY <1>0, <1>8, Zenon DEF etcd, RegistryInv, RegistryTypeOK, RunningIsRegistered
<1> QED BY <1>1, <1>2, <1>3, <1>4, <1>5, <1>6, <1>7, <1>8, Zenon DEF RegistryNext, RegistryStep

-----------------------------------------------------------------------------
(* Types of the routes and the tasks.                                      *)

TasksTypeOK ==
    /\ stored \in Places
    /\ session \in [Gateways -> Places]
    /\ gate \in [Tasks -> Gateways]
    /\ pc \in [Tasks -> Calls]
    /\ route \in [Tasks -> Places]
    /\ list \in [Tasks -> SUBSET Instances]
    /\ mixed \in [Tasks -> SUBSET (Instances \union {Zero})]

\* What a step of task t may do to routes it does not change itself.
LEMMA GotoTypes ==
    ASSUME TasksTypeOK, NEW t \in Tasks, NEW call \in Calls, Goto(t, call)
    PROVE  /\ pc' \in [Tasks -> Calls] /\ pc'[t] = call
           /\ \A u \in Tasks \ {t} : pc'[u] = pc[u]
           /\ UNCHANGED <<list, mixed, gate>>
BY Zenon DEF TasksTypeOK, Goto

LEMMA HoldTypes ==
    ASSUME TasksTypeOK, NEW t \in Tasks, NEW i \in Places, NEW call \in Calls,
           Hold(t, i, call)
    PROVE  /\ pc' \in [Tasks -> Calls] /\ route' \in [Tasks -> Places]
           /\ pc'[t] = call /\ route'[t] = i
           /\ \A u \in Tasks \ {t} : pc'[u] = pc[u] /\ route'[u] = route[u]
           /\ UNCHANGED <<list, mixed, gate>>
<1>1. Goto(t, call) /\ route' = [route EXCEPT ![t] = i]
  BY Zenon DEF Hold
<1>2. route' \in [Tasks -> Places] /\ route'[t] = i
      /\ \A u \in Tasks \ {t} : route'[u] = route[u]
  BY <1>1, Zenon DEF TasksTypeOK
<1> QED BY <1>1, <1>2, GotoTypes, Zenon

LEMMA Small == None \in Places /\ Zero \in Places /\ None \notin Instances
               /\ Ready \subseteq Instances /\ UserHash \in Hashes
               /\ \A i \in Instances : i \in Places /\ i # None
<1>1. \A i \in Instances : i \in Nat
  BY InstancesNumbered
<1>2. \A i \in Instances : i # -1
  BY <1>1
<1> QED BY <1>2, RoutingAssumption, Zenon DEF Places, None, Zero, Ready

\* What a call may leave behind, whatever the call before it was.
LEMMA TasksInitInv == Init => TasksTypeOK
<1> SUFFICES ASSUME Init PROVE TasksTypeOK
  OBVIOUS
<1>1. gate \in [Tasks -> Gateways]
  BY RoutingAssumption, Zenon DEF Init
<1> QED BY <1>1, Small, Zenon DEF Init, TasksTypeOK, Calls

LEMMA UpdateTypes ==
    ASSUME TasksTypeOK, NEW t \in Tasks, Update(t, Ready)
    PROVE  /\ list' \in [Tasks -> SUBSET Instances]
           /\ list'[t] = Ready /\ \A u \in Tasks \ {t} : list'[u] = list[u]
           /\ mixed' \in [Tasks -> SUBSET (Instances \union {Zero})]
<1>1. list' \in [Tasks -> SUBSET Instances] /\ list'[t] = Ready
      /\ \A u \in Tasks \ {t} : list'[u] = list[u]
  BY Small, Zenon DEF Update, TasksTypeOK
<1> DEFINE others == OnRing(gate[t])
<1> DEFINE held == UNION {list[v] : v \in others}
<1> DEFINE mix(u) ==
          IF u \in others THEN mixed[u] \union Ready \union {Zero}
          ELSE IF u = t /\ others # {} THEN held \union {Zero}
          ELSE mixed[u]
<1>2. mixed' = [u \in Tasks |-> mix(u)]
  BY Zenon DEF Update
<1>3. others \subseteq Tasks
  BY Zenon DEF OnRing
<1>4. held \subseteq Instances
  BY <1>3, Zenon DEF TasksTypeOK
<1>5. \A u \in Tasks : mixed[u] \subseteq Instances \union {Zero}
  BY Zenon DEF TasksTypeOK
<1> HIDE DEF others, held
<1>6. \A u \in Tasks : mix(u) \in SUBSET (Instances \union {Zero})
  <2> SUFFICES ASSUME NEW u \in Tasks, NEW i \in mix(u) PROVE i \in Instances \union {Zero}
    BY Zenon
  <2>1. CASE u \in others
    BY <1>5, <2>1, Small, Zenon
  <2>2. CASE u \notin others /\ u = t /\ others # {}
    BY <1>4, <2>2, Zenon
  <2>3. CASE u \notin others /\ ~(u = t /\ others # {})
    BY <1>5, <2>3, Zenon
  <2> QED BY <2>1, <2>2, <2>3, Zenon
<1> HIDE DEF mix
<1>7. mixed' \in [Tasks -> SUBSET (Instances \union {Zero})]
  BY <1>2, <1>6, Zenon
<1> QED BY <1>1, <1>7, Zenon

LEMMA RouteTypes ==
    ASSUME TasksTypeOK, NEW t \in Tasks, Route(t)
    PROVE  /\ TasksTypeOK' /\ UNCHANGED <<etcd, routes, gate>>
           /\ \A u \in Tasks \ {t} :
                 pc'[u] = pc[u] /\ route'[u] = route[u] /\ list'[u] = list[u]
           /\ \/ pc'[t] = "idle" /\ route'[t] = None
              \/ pc'[t] = "save" /\ route'[t] # None
           /\ mixed[t] = {} /\ list[t] = {} => route'[t] = None
           /\ mixed[t] = {} /\ list[t] # {} => route'[t] = RouteUID(list[t], UserHash)
<1>1. list[t] \subseteq Instances /\ mixed[t] \subseteq Instances \union {Zero}
  BY Zenon DEF TasksTypeOK
<1>2. list[t] # {} => RouteUID(list[t], UserHash) \in Instances
  <2>1. list[t] # {} => list[t] \in Listings
    BY <1>1, Zenon DEF Listings
  <2> QED BY <1>1, <2>1, Small, RouteIsListed, Zenon
<1> DEFINE may == IF mixed[t] # {} THEN list[t] \union mixed[t] \union {None}
                  ELSE IF list[t] # {} THEN {RouteUID(list[t], UserHash)}
                  ELSE {None}
<1>3. may \subseteq Places
  BY <1>1, <1>2, Small, Zenon DEF Places
<1>4. PICK i \in may :
          /\ route' = [route EXCEPT ![t] = i]
          /\ pc' = [pc EXCEPT ![t] = IF i = None THEN "idle" ELSE "save"]
  BY Zenon DEF Route
<1>5. /\ mixed[t] = {} /\ list[t] = {} => i = None
      /\ mixed[t] = {} /\ list[t] # {} => i = RouteUID(list[t], UserHash)
  OBVIOUS
<1>6. i \in Places
  BY <1>3, Zenon
<1> HIDE DEF may
<1>7. /\ list' = [list EXCEPT ![t] = {}] /\ mixed' = [mixed EXCEPT ![t] = {}]
      /\ UNCHANGED <<etcd, routes, gate>>
  BY Zenon DEF Route
<1>8. TasksTypeOK'
  BY <1>4, <1>6, <1>7, Zenon DEF TasksTypeOK, Calls, routes
<1>9. route'[t] = i /\ pc'[t] = IF i = None THEN "idle" ELSE "save"
  BY <1>4, Zenon DEF TasksTypeOK
<1>10. \A u \in Tasks \ {t} :
           pc'[u] = pc[u] /\ route'[u] = route[u] /\ list'[u] = list[u]
  BY <1>4, <1>7, Zenon DEF TasksTypeOK
<1> QED BY <1>5, <1>7, <1>8, <1>9, <1>10, Zenon

\* The effect of each call on the routes, by the next call of the task.
LEMMA TasksStepInv ==
    ASSUME TasksTypeOK, [Next]_vars PROVE TasksTypeOK'
<1> USE Small DEF Calls
<1>1. CASE UnderGateways
  BY <1>1, Zenon DEF UnderGateways, routes, task, TasksTypeOK
<1>2. ASSUME NEW t \in Tasks, Begin(t) PROVE TasksTypeOK'
  <2>1. UNCHANGED routes
    BY <1>2, Zenon DEF Begin
  <2>2. session[gate[t]] \in Places
    BY Zenon DEF TasksTypeOK
  <2>3. Hold(t, session[gate[t]], "dispatch") \/ Hold(t, None, "stored")
    BY <1>2, Zenon DEF Begin
  <2> QED BY <2>1, <2>2, <2>3, HoldTypes, Zenon DEF TasksTypeOK, routes
<1>3. ASSUME NEW t \in Tasks, ClearRoute(t) \/ Dispatch(t) PROVE TasksTypeOK'
  <2>1. UNCHANGED stored /\ (SessionDelete(t) \/ (Finish(t) /\ UNCHANGED session))
    BY <1>3, Zenon DEF ClearRoute, Dispatch
  <2>2. Hold(t, None, "clearStored") \/ Hold(t, None, "idle")
    BY <2>1, Zenon DEF SessionDelete, Finish
  <2>3. session' \in [Gateways -> Places]
    BY <2>1, Zenon DEF SessionDelete, TasksTypeOK
  <2> QED BY <2>1, <2>2, <2>3, HoldTypes, Zenon DEF TasksTypeOK
<1>4. ASSUME NEW t \in Tasks, GetSrvRouter(t) PROVE TasksTypeOK'
  <2>1. UNCHANGED routes /\ stored \in Places
        /\ (Hold(t, stored, "keep") \/ Hold(t, None, "list") \/ Hold(t, None, "idle"))
    BY <1>4, Zenon DEF GetSrvRouter, Finish, TasksTypeOK
  <2> QED BY <2>1, HoldTypes, Zenon DEF TasksTypeOK, routes
<1>5. ASSUME NEW t \in Tasks, ListReadyPlayerServers(t) PROVE TasksTypeOK'
  <2>1. CASE Finish(t) /\ UNCHANGED routes
    BY <2>1, HoldTypes, Zenon DEF Finish, TasksTypeOK, routes
  <2>2. CASE Update(t, Ready) /\ pc' = [pc EXCEPT ![t] = "route"]
             /\ UNCHANGED <<route, gate>> /\ UNCHANGED routes
    <3>1. pc' \in [Tasks -> Calls]
      BY <2>2, Zenon DEF TasksTypeOK
    <3> QED BY <2>2, <3>1, UpdateTypes, Zenon DEF TasksTypeOK, routes
  <2> QED BY <1>5, <2>1, <2>2, Zenon DEF ListReadyPlayerServers
<1>6. ASSUME NEW t \in Tasks, Route(t) PROVE TasksTypeOK'
  BY <1>6, RouteTypes, Zenon
<1>7. ASSUME NEW t \in Tasks, SetSrvRouter(t) PROVE TasksTypeOK'
  <2>1. stored' \in Places /\ UNCHANGED session
        /\ ((Goto(t, "keep") /\ UNCHANGED route) \/ Hold(t, None, "idle"))
    BY <1>7, Zenon DEF SetSrvRouter, Finish, TasksTypeOK
  <2> QED BY <2>1, HoldTypes, GotoTypes, Zenon DEF TasksTypeOK
<1>8. ASSUME NEW t \in Tasks, SessionSet(t) PROVE TasksTypeOK'
  <2>1. session' \in [Gateways -> Places] /\ Goto(t, "dispatch") /\ UNCHANGED <<route, stored>>
    BY <1>8, Zenon DEF SessionSet, TasksTypeOK
  <2> QED BY <2>1, GotoTypes, Zenon DEF TasksTypeOK
<1>9. ASSUME NEW t \in Tasks, ResolveRoute(t) PROVE TasksTypeOK'
  BY <1>9, HoldTypes, Zenon DEF ResolveRoute, Finish, TasksTypeOK, routes
<1>10. ASSUME NEW t \in Tasks, DeleteSrvRouter(t) PROVE TasksTypeOK'
  <2>1. stored' \in Places /\ UNCHANGED session /\ Hold(t, None, "idle")
    BY <1>10, Zenon DEF DeleteSrvRouter, Finish, TasksTypeOK
  <2> QED BY <2>1, HoldTypes, Zenon DEF TasksTypeOK
<1>11. ASSUME NEW g \in Gateways, GatewayDies(g) PROVE TasksTypeOK'
  BY <1>11, Zenon DEF GatewayDies, TasksTypeOK
<1>12. CASE RouteExpires
  BY <1>12, Zenon DEF RouteExpires, TasksTypeOK, task
<1>13. CASE UNCHANGED vars
  BY <1>13, Zenon DEF vars, routes, task, TasksTypeOK
<1> QED BY <1>1, <1>2, <1>3, <1>4, <1>5, <1>6, <1>7, <1>8, <1>9, <1>10, <1>11, <1>12,
           <1>13, Zenon DEF Next, Call

\* Every step is a step of the registry or leaves it alone.
LEMMA RegistrySteps == [Next]_vars => [RegistryNext]_etcd
BY Zenon DEF Next, Call, vars, Begin, ClearRoute, GetSrvRouter, ListReadyPlayerServers, Route,
       SetSrvRouter, SessionSet, ResolveRoute, Dispatch, DeleteSrvRouter, GatewayDies,
       RouteExpires

LEMMA ApartTypes == apart \in BOOLEAN /\ [Next]_vars => apart' \in BOOLEAN
BY Zenon DEF Next, Call, vars, UnderGateways, Begin, ClearRoute, GetSrvRouter,
       ListReadyPlayerServers, Route, SetSrvRouter, SessionSet, ResolveRoute, Dispatch,
       DeleteSrvRouter, GatewayDies, RouteExpires

-----------------------------------------------------------------------------
(* OneServerPerUser.                                                       *)

\* A task holds a route from the step that finds one to the end of the call.
HoldsRoute ==
    \A t \in Tasks : route[t] # None <=> pc[t] \in {"save", "keep", "dispatch"}

AllOne == \A i, j \in Destinations : i = j /\ i \in Instances

\* Whoever is choosing will choose what is remembered: Redis, or another task
\* that has chosen, holds the answer of the ring of the ready instances.
ChosenByRing ==
    Choosing # {} =>
        \A d \in Destinations : Ready # {} /\ d = RouteUID(Ready, UserHash)

\* Without a record in Redis there are only routes that are about to be stored.
RecordedFirst ==
    stored = None =>
        /\ \A g \in Gateways : session[g] = None
        /\ \A t \in Tasks : route[t] # None => pc[t] = "save"

ListsAreFresh == \A t \in Tasks : pc[t] = "route" => list[t] = Ready

Agree == AllOne /\ ChosenByRing /\ RecordedFirst /\ ListsAreFresh

\* The inductive invariant.
Inv ==
    /\ RegistryInv /\ TasksTypeOK /\ apart \in BOOLEAN
    /\ HoldsRoute
    /\ ~apart => Agree

LEMMA InitInv == Init => Inv
<1> SUFFICES ASSUME Init PROVE Inv
  OBVIOUS
<1>1. RegistryInv /\ TasksTypeOK /\ apart \in BOOLEAN
  BY RegistryInitInv, TasksInitInv, Zenon DEF Init
<1>2. Destinations = {}
  BY Zenon DEF Destinations, Init
<1>3. HoldsRoute /\ RecordedFirst /\ ListsAreFresh
  BY Zenon DEF Init, HoldsRoute, RecordedFirst, ListsAreFresh
<1>4. AllOne /\ ChosenByRing
  BY <1>2, Zenon DEF AllOne, ChosenByRing
<1> QED BY <1>1, <1>3, <1>4, Zenon DEF Inv, Agree

LEMMA HoldsRouteStep ==
    ASSUME TasksTypeOK, HoldsRoute, [Next]_vars
    PROVE  HoldsRoute'
<1> USE Small DEF Calls, HoldsRoute
<1>1. CASE UnderGateways \/ RouteExpires \/ UNCHANGED vars
  BY <1>1, Zenon DEF UnderGateways, RouteExpires, vars, task
<1>2. ASSUME NEW t \in Tasks, NEW i \in Places, NEW call \in Calls, Hold(t, i, call),
             i # None <=> call \in {"save", "keep", "dispatch"}
      PROVE  HoldsRoute'
  BY <1>2, HoldTypes
<1>3. ASSUME NEW t \in Tasks, NEW call \in {"keep", "dispatch"}, Goto(t, call),
             pc[t] \in {"save", "keep"}, UNCHANGED route
      PROVE  HoldsRoute'
  BY <1>3, GotoTypes, Zenon
<1>4. ASSUME NEW t \in Tasks, Finish(t) PROVE HoldsRoute'
  BY <1>2, <1>4, Zenon DEF Finish
<1>5. ASSUME NEW t \in Tasks, Begin(t) PROVE HoldsRoute'
  <2>1. session[gate[t]] \in Places
    BY Zenon DEF TasksTypeOK
  <2> QED BY <1>2, <1>5, <2>1, Zenon DEF Begin
<1>6. ASSUME NEW t \in Tasks, SessionDelete(t) PROVE HoldsRoute'
  BY <1>2, <1>6, Zenon DEF SessionDelete
<1>7. ASSUME NEW t \in Tasks, GetSrvRouter(t) PROVE HoldsRoute'
  <2>1. stored \in Places
    BY Zenon DEF TasksTypeOK
  <2> QED BY <1>2, <1>4, <1>7, <2>1, Zenon DEF GetSrvRouter
<1>8. ASSUME NEW t \in Tasks, ListReadyPlayerServers(t) PROVE HoldsRoute'
  <2>1. CASE pc[t] = "list" /\ pc' = [pc EXCEPT ![t] = "route"] /\ UNCHANGED route
    BY <2>1, Zenon DEF TasksTypeOK
  <2> QED BY <1>4, <1>8, <2>1, Zenon DEF ListReadyPlayerServers
<1>9. ASSUME NEW t \in Tasks, Route(t) PROVE HoldsRoute'
  BY <1>9, RouteTypes, Zenon
<1>10. ASSUME NEW t \in Tasks, SetSrvRouter(t) \/ SessionSet(t) PROVE HoldsRoute'
  BY <1>3, <1>4, <1>10, Zenon DEF SetSrvRouter, SessionSet
<1>11. ASSUME NEW g \in Gateways, GatewayDies(g) PROVE HoldsRoute'
  BY <1>11, Zenon DEF GatewayDies
<1>12. ASSUME NEW t \in Tasks, ClearRoute(t) \/ ResolveRoute(t) \/ Dispatch(t) \/ DeleteSrvRouter(t)
       PROVE  HoldsRoute'
  BY <1>4, <1>6, <1>12, Zenon DEF ClearRoute, ResolveRoute, Dispatch, DeleteSrvRouter
<1> QED BY <1>1, <1>5, <1>7, <1>8, <1>9, <1>10, <1>11, <1>12, Zenon DEF Next, Call

\* A step that adds no destination and starts no choice.
LEMMA AgreeKept ==
    ASSUME Agree, UNCHANGED etcd, Destinations' \subseteq Destinations,
           Choosing' # {} => Choosing # {}, RecordedFirst', ListsAreFresh'
    PROVE  Agree'
<1>1. Ready' = Ready
  BY Zenon DEF Ready, etcd
<1>2. AllOne'
  BY Zenon DEF Agree, AllOne
<1>3. ChosenByRing'
  BY <1>1, Zenon DEF Agree, ChosenByRing
<1> QED BY <1>2, <1>3, Zenon DEF Agree

\* A step of a task that leaves the routes of others, and Redis, alone.
LEMMA AgreeAlone ==
    ASSUME TasksTypeOK, Agree, UNCHANGED <<etcd, stored, list>>, NEW t \in Tasks,
           \A u \in Tasks \ {t} : pc'[u] = pc[u] /\ route'[u] = route[u],
           \A g \in Gateways : session'[g] \in {session[g], route[t], None},
           route'[t] \in Destinations \union {None},
           pc'[t] \in {"idle", "stored", "keep", "dispatch", "clearStored"},
           stored = None => route'[t] = None /\ (pc[t] = "save" \/ route[t] = None)
           /\ \A g \in Gateways : session'[g] \in {session[g], None}
    PROVE  Agree'
<1>1. Destinations' \subseteq Destinations
  <2> SUFFICES ASSUME NEW d \in Destinations' PROVE d \in Destinations
    OBVIOUS
  <2>1. d # None /\ (d = stored \/ (\E g \in Gateways : d = session'[g])
                                \/ (\E u \in Tasks : d = route'[u]))
    BY Zenon DEF Destinations
  <2>2. d # None /\ (d = stored \/ (\E g \in Gateways : d = session[g])
                                \/ (\E u \in Tasks : d = route[u]) \/ d \in Destinations)
    BY <2>1, Zenon
  <2> QED BY <2>2, Zenon DEF Destinations
<1>2. Choosing' \subseteq Choosing
  BY Zenon DEF Choosing
<1>3. RecordedFirst'
  BY Zenon DEF Agree, RecordedFirst
<1>4. ListsAreFresh'
  <2>1. Ready' = Ready
    BY Zenon DEF Ready, etcd
  <2> QED BY <2>1, Zenon DEF Agree, ListsAreFresh
<1> QED BY <1>1, <1>2, <1>3, <1>4, AgreeKept, Zenon

\* The calls of a task that begin, use or give up a route.
LEMMA AgreeUse ==
    ASSUME TasksTypeOK, HoldsRoute, Agree, NEW t \in Tasks,
           Begin(t) \/ SessionSet(t) \/ ResolveRoute(t) \/ ClearRoute(t) \/ Dispatch(t)
    PROVE  Agree'
<1> USE Small DEF Calls
<1>1. RecordedFirst
  BY Zenon DEF Agree
<1>2. CASE Begin(t)
  <2>1. session[gate[t]] \in Places /\ gate[t] \in Gateways
    BY Zenon DEF TasksTypeOK
  <2>2. UNCHANGED <<etcd, stored, session>>
    BY <1>2, Zenon DEF Begin, routes
  <2>3. session[gate[t]] \in Destinations \union {None}
    BY <2>1, Zenon DEF Destinations
  <2>4. stored = None => session[gate[t]] = None /\ route[t] = None
    BY <1>1, <1>2, <2>1, Zenon DEF RecordedFirst, HoldsRoute, Begin
  <2>5. CASE Hold(t, session[gate[t]], "dispatch")
    BY <1>1, <2>1, <2>2, <2>3, <2>4, <2>5, HoldTypes, AgreeAlone
  <2>6. CASE Hold(t, None, "stored")
    BY <1>1, <2>1, <2>2, <2>3, <2>4, <2>6, HoldTypes, AgreeAlone, Zenon
  <2> QED BY <1>2, <2>5, <2>6, Zenon DEF Begin
<1>3. CASE SessionSet(t)
  <2>1. /\ pc[t] = "keep" /\ Goto(t, "dispatch") /\ UNCHANGED <<route, etcd, stored>>
        /\ session' = [session EXCEPT ![gate[t]] = route[t]]
    BY <1>3, Zenon DEF SessionSet
  <2>2. route[t] # None /\ stored # None
    BY <1>1, <2>1, Zenon DEF HoldsRoute, RecordedFirst
  <2>3. route[t] \in Destinations
    BY <2>2, Zenon DEF Destinations
  <2>4. \A g \in Gateways : session'[g] \in {session[g], route[t], None}
    BY <2>1, Zenon DEF TasksTypeOK
  <2>5. /\ pc'[t] = "dispatch" /\ UNCHANGED list
        /\ \A u \in Tasks \ {t} : pc'[u] = pc[u] /\ route'[u] = route[u]
    BY <2>1, GotoTypes, Zenon
  <2> QED BY <2>1, <2>2, <2>3, <2>4, <2>5, AgreeAlone, Zenon
<1>4. ASSUME Hold(t, None, "idle") \/ Hold(t, None, "clearStored"),
             UNCHANGED <<etcd, stored>>, pc[t] \in {"idle", "dispatch"},
             \A g \in Gateways : session'[g] \in {session[g], None}
      PROVE  Agree'
  <2>1. /\ pc'[t] \in {"idle", "clearStored"} /\ route'[t] = None /\ UNCHANGED list
        /\ \A u \in Tasks \ {t} : pc'[u] = pc[u] /\ route'[u] = route[u]
    BY <1>4, HoldTypes, Zenon
  <2>2. stored = None => route[t] = None
    BY <1>1, <1>4, Zenon DEF RecordedFirst
  <2> QED BY <1>4, <2>1, <2>2, AgreeAlone, Zenon
<1>5. CASE ResolveRoute(t)
  BY <1>4, <1>5, Zenon DEF ResolveRoute, Finish, routes
<1>6. CASE ClearRoute(t) \/ Dispatch(t)
  <2>1. pc[t] \in {"idle", "dispatch"} /\ UNCHANGED <<etcd, stored>>
        /\ (SessionDelete(t) \/ (Finish(t) /\ UNCHANGED session))
    BY <1>6, Zenon DEF ClearRoute, Dispatch
  <2>2. \A g \in Gateways : session'[g] \in {session[g], None}
    BY <2>1, Zenon DEF SessionDelete, TasksTypeOK
  <2>3. Hold(t, None, "idle") \/ Hold(t, None, "clearStored")
    BY <2>1, Zenon DEF SessionDelete, Finish
  <2> QED BY <1>4, <2>1, <2>2, <2>3, Zenon
<1> QED BY <1>2, <1>3, <1>5, <1>6, Zenon

\* The record answers, or its absence lets the ring answer.
LEMMA AgreeGet ==
    ASSUME TasksTypeOK, HoldsRoute, Agree, NEW t \in Tasks, GetSrvRouter(t)
    PROVE  Agree'
<1> USE Small DEF Calls
<1>1. /\ pc[t] = "stored" /\ route[t] = None /\ stored \in Places
      /\ UNCHANGED <<etcd, stored, session>> /\ Ready' = Ready
  BY Zenon DEF GetSrvRouter, HoldsRoute, TasksTypeOK, routes, Ready, etcd
<1>2. CASE stored # None /\ Hold(t, stored, "keep")
  <2>1. stored \in Destinations
    BY <1>2, Zenon DEF Destinations
  <2> QED BY <1>1, <1>2, <2>1, HoldTypes, AgreeAlone
<1>3. CASE Finish(t)
  <2>1. Hold(t, None, "idle")
    BY <1>3, Zenon DEF Finish
  <2> QED BY <1>1, <2>1, HoldTypes, AgreeAlone, Zenon
<1>4. CASE stored = None /\ Hold(t, None, "list")
  <2>1. /\ pc'[t] = "list" /\ route'[t] = None /\ UNCHANGED list
        /\ \A u \in Tasks \ {t} : pc'[u] = pc[u] /\ route'[u] = route[u]
    BY <1>4, HoldTypes, Zenon
  <2>2. Destinations' \subseteq Destinations
    BY <1>1, <2>1, Zenon DEF Destinations
  <2>3. \A d \in Destinations : \E u \in Tasks : d = route[u] /\ pc[u] = "save"
    BY <1>4, Zenon DEF Agree, RecordedFirst, Destinations
  <2>4. \A d \in Destinations : Choosing # {}
    BY <2>3, Zenon DEF Choosing
  <2>5. ChosenByRing'
    BY <1>1, <2>2, <2>4, Zenon DEF Agree, ChosenByRing
  <2>6. RecordedFirst'
    BY <1>1, <2>1, Zenon DEF Agree, RecordedFirst
  <2>7. ListsAreFresh'
    BY <1>1, <2>1, Zenon DEF Agree, ListsAreFresh
  <2>8. AllOne'
    BY <2>2, Zenon DEF Agree, AllOne
  <2> QED BY <2>5, <2>6, <2>7, <2>8, Zenon DEF Agree
<1> QED BY <1>2, <1>3, <1>4, Zenon DEF GetSrvRouter

LEMMA AgreeList ==
    ASSUME TasksTypeOK, HoldsRoute, Agree, NEW t \in Tasks, ListReadyPlayerServers(t)
    PROVE  Agree'
<1> USE Small DEF Calls
<1>1. /\ pc[t] = "list" /\ route[t] = None
      /\ UNCHANGED <<etcd, stored, session>> /\ Ready' = Ready
  BY Zenon DEF ListReadyPlayerServers, HoldsRoute, routes, Ready, etcd
<1>2. CASE Finish(t)
  <2>1. Hold(t, None, "idle")
    BY <1>2, Zenon DEF Finish
  <2> QED BY <1>1, <2>1, HoldTypes, AgreeAlone, Zenon
<1>3. CASE Update(t, Ready) /\ pc' = [pc EXCEPT ![t] = "route"] /\ UNCHANGED <<route, gate>>
  <2>1. pc'[t] = "route" /\ \A u \in Tasks \ {t} : pc'[u] = pc[u]
    BY <1>3, Zenon DEF TasksTypeOK
  <2>2. list'[t] = Ready /\ \A u \in Tasks \ {t} : list'[u] = list[u]
    BY <1>3, UpdateTypes, Zenon
  <2>3. Destinations' \subseteq Destinations
    BY <1>1, <1>3, Zenon DEF Destinations
  <2>4. t \in Choosing
    BY <1>1, Zenon DEF Choosing
  <2>5. RecordedFirst'
    BY <1>1, <1>3, <2>1, Zenon DEF Agree, RecordedFirst
  <2>6. ListsAreFresh'
    BY <1>1, <2>1, <2>2, Zenon DEF Agree, ListsAreFresh
  <2> QED BY <1>1, <2>3, <2>4, <2>5, <2>6, AgreeKept, Zenon
<1> QED BY <1>2, <1>3, Zenon DEF ListReadyPlayerServers

\* Two tasks that choose find the same instance: they build the same ring.
LEMMA AgreeRoute ==
    ASSUME TasksTypeOK, HoldsRoute, Agree, NEW t \in Tasks, Route(t), mixed[t] = {}
    PROVE  Agree'
<1>1. /\ pc[t] = "route" /\ list[t] = Ready /\ t \in Choosing
      /\ UNCHANGED <<etcd, stored, session>> /\ Ready' = Ready
  BY RouteTypes, Zenon DEF Route, Agree, ListsAreFresh, Choosing, routes, Ready, etcd
<1> DEFINE i == RouteUID(Ready, UserHash)
<1>2. /\ route'[t] = None \/ (Ready # {} /\ route'[t] = i)
      /\ route'[t] # None => pc'[t] = "save"
      /\ pc'[t] \in {"idle", "save"}
      /\ \A u \in Tasks \ {t} : pc'[u] = pc[u] /\ route'[u] = route[u] /\ list'[u] = list[u]
  BY <1>1, RouteTypes, Zenon
<1>3. Ready # {} => i \in Instances
  <2>1. Ready # {} => Ready \in Listings
    BY Small, Zenon DEF Listings
  <2> QED BY <2>1, Small, RouteIsListed, Zenon
<1> HIDE DEF i
<1>4. \A d \in Destinations : Ready # {} /\ d = i
  BY <1>1, Zenon DEF Agree, ChosenByRing, i
<1>5. \A d \in Destinations' : Ready # {} /\ d = i
  <2> SUFFICES ASSUME NEW d \in Destinations' PROVE Ready # {} /\ d = i
    OBVIOUS
  <2>1. d # None /\ (d = stored \/ (\E g \in Gateways : d = session[g])
                                \/ (\E u \in Tasks : d = route'[u]))
    BY <1>1, Zenon DEF Destinations
  <2>2. d \in Destinations \/ d = route'[t]
    BY <1>2, <2>1, Zenon DEF Destinations
  <2> QED BY <1>2, <1>4, <2>1, <2>2, Zenon
<1>6. ChosenByRing'
  BY <1>1, <1>5, Zenon DEF ChosenByRing, i
<1>7. AllOne'
  BY <1>3, <1>5, Zenon DEF AllOne
<1>8. RecordedFirst'
  BY <1>1, <1>2, Zenon DEF Agree, RecordedFirst
<1>9. ListsAreFresh'
  BY <1>1, <1>2, Zenon DEF Agree, ListsAreFresh
<1> QED BY <1>6, <1>7, <1>8, <1>9, Zenon DEF Agree

\* A choice is stored; another task's choice is the same.
LEMMA AgreeSet ==
    ASSUME TasksTypeOK, HoldsRoute, Agree, NEW t \in Tasks, SetSrvRouter(t)
    PROVE  Agree'
<1> USE Small DEF Calls
<1>1. /\ pc[t] = "save" /\ route[t] # None /\ t \in Choosing
      /\ UNCHANGED <<etcd, session>> /\ Ready' = Ready
      /\ stored' \in {stored, route[t]}
  BY Zenon DEF SetSrvRouter, HoldsRoute, Choosing, Ready, etcd
<1>2. /\ \A u \in Tasks \ {t} : pc'[u] = pc[u] /\ route'[u] = route[u]
      /\ UNCHANGED list
      /\ \/ pc'[t] = "keep" /\ route'[t] = route[t] /\ stored' = route[t]
         \/ pc'[t] = "idle" /\ route'[t] = None
  <2>1. CASE stored' = route[t] /\ Goto(t, "keep") /\ UNCHANGED route
    BY <2>1, GotoTypes, Zenon
  <2>2. CASE Finish(t)
    BY <2>2, HoldTypes, Zenon DEF Finish
  <2> QED BY <2>1, <2>2, Zenon DEF SetSrvRouter
<1>3. Destinations' \subseteq Destinations
  <2> SUFFICES ASSUME NEW d \in Destinations' PROVE d \in Destinations
    OBVIOUS
  <2>1. d # None /\ (d = stored' \/ (\E g \in Gateways : d = session[g])
                                 \/ (\E u \in Tasks : d = route'[u]))
    BY <1>1, Zenon DEF Destinations
  <2>2. d # None /\ (d = stored \/ (\E g \in Gateways : d = session[g])
                                \/ (\E u \in Tasks : d = route[u]))
    BY <1>1, <1>2, <2>1, Zenon
  <2> QED BY <2>2, Zenon DEF Destinations
<1>4. RecordedFirst'
  BY <1>1, <1>2, Zenon DEF Agree, RecordedFirst
<1>5. ListsAreFresh'
  BY <1>1, <1>2, Zenon DEF Agree, ListsAreFresh
<1> QED BY <1>1, <1>3, <1>4, <1>5, AgreeKept, Zenon

\* The record goes when nobody remembers it.
LEMMA AgreeForgotten ==
    ASSUME TasksTypeOK, HoldsRoute, Agree, UNCHANGED <<etcd, session, list>>,
           stored' = None, NEW tasks \in SUBSET Tasks,
           stored # None => ~Remembered(tasks),
           \A t \in tasks : pc'[t] = pc[t] /\ route'[t] = route[t],
           \A t \in Tasks \ tasks : pc'[t] = "idle" /\ route'[t] = None
    PROVE  Agree'
<1>1. Ready' = Ready
  BY Zenon DEF Ready, etcd
<1>2. Destinations' \subseteq Destinations
  BY Zenon DEF Destinations
<1>3. Choosing' \subseteq Choosing
  BY Zenon DEF Choosing
<1>4. ListsAreFresh'
  BY <1>1, Zenon DEF Agree, ListsAreFresh
<1>5. RecordedFirst'
  <2>1. CASE stored = None
    BY <2>1, Zenon DEF Agree, RecordedFirst
  <2>2. CASE stored # None
    <3>1. (\A g \in Gateways : session[g] = None) /\ \A t \in tasks : pc[t] = "idle"
      BY <2>2, Zenon DEF Remembered
    <3>2. \A t \in tasks : route[t] = None
      BY <3>1, Zenon DEF HoldsRoute
    <3> QED BY <3>1, <3>2, Zenon DEF RecordedFirst
  <2> QED BY <2>1, <2>2, Zenon
<1> QED BY <1>2, <1>3, <1>4, <1>5, AgreeKept, Zenon

LEMMA AgreeDelete ==
    ASSUME TasksTypeOK, HoldsRoute, ~apart => Agree, ~apart', NEW t \in Tasks,
           DeleteSrvRouter(t)
    PROVE  Agree'
<1> USE Small DEF Calls
<1>1. /\ pc[t] = "clearStored" /\ route[t] = None
      /\ UNCHANGED <<etcd, session>> /\ Hold(t, None, "idle")
  BY Zenon DEF DeleteSrvRouter, HoldsRoute, Finish
<1>2. /\ pc'[t] = "idle" /\ route'[t] = None /\ UNCHANGED list
      /\ \A u \in Tasks \ {t} : pc'[u] = pc[u] /\ route'[u] = route[u]
  BY <1>1, HoldTypes, Zenon
<1>3. CASE UNCHANGED <<stored, apart>>
  BY <1>1, <1>2, <1>3, AgreeAlone, Zenon
<1>4. CASE stored' = None /\ apart' = (apart \/ (stored # None /\ Remembered(Tasks \ {t})))
  <2>1. ~apart /\ (stored # None => ~Remembered(Tasks \ {t}))
    BY <1>4, Zenon
  <2>2. Agree
    BY <2>1, Zenon
  <2>3. Tasks \ {t} \in SUBSET Tasks /\ \A u \in Tasks \ (Tasks \ {t}) : u = t
    OBVIOUS
  <2> QED BY <1>1, <1>2, <1>4, <2>1, <2>2, <2>3, AgreeForgotten, Zenon
<1> QED BY <1>3, <1>4, Zenon DEF DeleteSrvRouter

LEMMA AgreeDies ==
    ASSUME TasksTypeOK, HoldsRoute, Agree, NEW g \in Gateways, GatewayDies(g)
    PROVE  Agree'
<1>1. /\ UNCHANGED <<etcd, stored>> /\ Ready' = Ready
      /\ \A h \in Gateways : session'[h] \in {session[h], None}
      /\ \A t \in Tasks : \/ pc'[t] = pc[t] /\ route'[t] = route[t] /\ list'[t] = list[t]
                          \/ pc'[t] = "idle" /\ route'[t] = None
  BY Zenon DEF GatewayDies, TasksTypeOK, Ready, etcd
<1>2. Destinations' \subseteq Destinations
  <2> SUFFICES ASSUME NEW d \in Destinations' PROVE d \in Destinations
    OBVIOUS
  <2>1. d # None /\ (d = stored \/ (\E h \in Gateways : d = session'[h])
                                \/ (\E u \in Tasks : d = route'[u]))
    BY <1>1, Zenon DEF Destinations
  <2>2. d # None /\ (d = stored \/ (\E h \in Gateways : d = session[h])
                                \/ (\E u \in Tasks : d = route[u]))
    BY <1>1, <2>1, Zenon
  <2> QED BY <2>2, Zenon DEF Destinations
<1>3. Choosing' \subseteq Choosing
  BY <1>1, Zenon DEF Choosing
<1>4. RecordedFirst'
  BY <1>1, Zenon DEF Agree, RecordedFirst
<1>5. ListsAreFresh'
  BY <1>1, Zenon DEF Agree, ListsAreFresh
<1> QED BY <1>1, <1>2, <1>3, <1>4, <1>5, AgreeKept, Zenon

\* The ready instances change when nobody is choosing.
LEMMA AgreeRegistry ==
    ASSUME Agree, UNCHANGED <<routes, task>>, Choosing # {} => Ready' = Ready
    PROVE  Agree'
<1>1. UNCHANGED <<stored, session, pc, route, list>>
  BY Zenon DEF routes, task
<1>2. Destinations' = Destinations /\ Choosing' = Choosing
  BY <1>1, Zenon DEF Destinations, Choosing
<1>3. AllOne' /\ RecordedFirst'
  BY <1>1, <1>2, Zenon DEF Agree, AllOne, RecordedFirst
<1>4. ChosenByRing'
  BY <1>2, Zenon DEF Agree, ChosenByRing
<1>5. ListsAreFresh'
  BY <1>1, Zenon DEF Agree, ListsAreFresh, Choosing
<1> QED BY <1>3, <1>4, <1>5, Zenon DEF Agree

LEMMA AgreeStep ==
    ASSUME TasksTypeOK, HoldsRoute, ~apart => Agree, ~apart', [Next]_vars
    PROVE  Agree'
<1>1. CASE UnderGateways
  <2>1. ~apart /\ ~(Choosing # {} /\ Ready' # Ready) /\ UNCHANGED <<routes, task>>
    BY <1>1, Zenon DEF UnderGateways
  <2> QED BY <2>1, AgreeRegistry, Zenon
<1>2. ASSUME NEW t \in Tasks,
             Begin(t) \/ SessionSet(t) \/ ResolveRoute(t) \/ ClearRoute(t) \/ Dispatch(t)
      PROVE  Agree'
  <2>1. UNCHANGED apart
    BY <1>2, Zenon DEF Begin, SessionSet, ResolveRoute, ClearRoute, Dispatch
  <2> QED BY <1>2, <2>1, AgreeUse, Zenon
<1>3. ASSUME NEW t \in Tasks, GetSrvRouter(t) PROVE Agree'
  <2>1. UNCHANGED apart
    BY <1>3, Zenon DEF GetSrvRouter
  <2> QED BY <1>3, <2>1, AgreeGet, Zenon
<1>4. ASSUME NEW t \in Tasks, ListReadyPlayerServers(t) PROVE Agree'
  <2>1. UNCHANGED apart
    BY <1>4, Zenon DEF ListReadyPlayerServers
  <2> QED BY <1>4, <2>1, AgreeList, Zenon
<1>5. ASSUME NEW t \in Tasks, Route(t) PROVE Agree'
  <2>1. ~apart /\ mixed[t] = {}
    BY <1>5, Zenon DEF Route
  <2> QED BY <1>5, <2>1, AgreeRoute, Zenon
<1>6. ASSUME NEW t \in Tasks, SetSrvRouter(t) PROVE Agree'
  <2>1. UNCHANGED apart
    BY <1>6, Zenon DEF SetSrvRouter
  <2> QED BY <1>6, <2>1, AgreeSet, Zenon
<1>7. ASSUME NEW t \in Tasks, DeleteSrvRouter(t) PROVE Agree'
  BY <1>7, AgreeDelete, Zenon
<1>8. ASSUME NEW g \in Gateways, GatewayDies(g) PROVE Agree'
  <2>1. UNCHANGED apart
    BY <1>8, Zenon DEF GatewayDies
  <2> QED BY <1>8, <2>1, AgreeDies, Zenon
<1>9. CASE RouteExpires
  <2>1. ~apart /\ ~Remembered(Tasks) /\ stored' = None
        /\ UNCHANGED <<etcd, session, list, pc, route>>
    BY <1>9, Zenon DEF RouteExpires, task
  <2> QED BY <2>1, AgreeForgotten, Zenon
<1>10. CASE UNCHANGED vars
  <2>1. ~apart /\ Ready' = Ready /\ UNCHANGED <<routes, task>>
    BY <1>10, Zenon DEF vars, Ready, etcd
  <2> QED BY <2>1, AgreeRegistry, Zenon
<1> QED BY <1>1, <1>2, <1>3, <1>4, <1>5, <1>6, <1>7, <1>8, <1>9, <1>10, Zenon DEF Next, Call

LEMMA StepInv == Inv /\ [Next]_vars => Inv'
<1> SUFFICES ASSUME Inv, [Next]_vars PROVE Inv'
  OBVIOUS
<1>1. RegistryInv /\ TasksTypeOK /\ apart \in BOOLEAN /\ HoldsRoute /\ (~apart => Agree)
  BY Zenon DEF Inv
<1>2. RegistryInv' /\ TasksTypeOK' /\ apart' \in BOOLEAN
  BY <1>1, RegistrySteps, RegistryStepInv, TasksStepInv, ApartTypes, Zenon
<1>3. HoldsRoute'
  BY <1>1, HoldsRouteStep, Zenon
<1>4. ~apart' => Agree'
  BY <1>1, AgreeStep, Zenon
<1> QED BY <1>2, <1>3, <1>4, Zenon DEF Inv

LEMMA Invariance == Spec => []Inv
BY InitInv, StepInv, PTL DEF Spec

-----------------------------------------------------------------------------

\* The registry, the routes and the tasks keep their types.
THEOREM TypeCorrect == Spec => []TypeOK
<1>1. Inv => TypeOK
  BY Zenon DEF Inv, RegistryInv, TasksTypeOK, Calls, TypeOK
<1> QED BY <1>1, Invariance, PTL

\* Register's lease keeps a running instance registered (registry.go), unless
\* UpdateStatus, a lost lease or an Unregister of its predecessor intervened.
THEOREM Registered == Spec => []RunningIsRegistered
<1>1. Inv => RunningIsRegistered
  BY Zenon DEF Inv, RegistryInv
<1> QED BY <1>1, Invariance, PTL

\* The gateways' session routes, DBSrvRouter and rings send a user to one
\* instance (route_service.go), for any number of gateways, tasks and instances.
THEOREM Agreement == Spec => []OneServerPerUser
<1>1. Inv => OneServerPerUser
  BY Zenon DEF Inv, Agree, AllOne, OneServerPerUser
<1> QED BY <1>1, Invariance, PTL

\* A ring built from a stale listing (route_service.go) misplaces only users of
\* instances that left or arrived since, whatever the hash function and weights.
THEOREM Movement == Spec => []MinimalMovement
<1>1. Inv => MinimalMovement
  <2> SUFFICES ASSUME Inv, NEW t \in Tasks, list[t] # {}, Ready # {}
               PROVE  <<list[t], Ready>> \in SmallMoves
    BY Zenon DEF MinimalMovement
  <2>1. list[t] \in Listings /\ Ready \in Listings
    BY Small, Zenon DEF Inv, TasksTypeOK, Listings
  <2> QED BY <2>1, AllMovesSmall, Zenon
<1> QED BY <1>1, Invariance, PTL
=============================================================================
