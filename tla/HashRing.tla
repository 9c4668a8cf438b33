----------------------------- MODULE HashRing ------------------------------
(***************************************************************************)
(* gatewaysrv: the consistent hash ring (app/gatewaysrv/router.go).  The   *)
(* ring is built from a listing of instances, which etcd returns in the    *)
(* order of the keys, so a listing is a set of ids.  The hash function is  *)
(* a constant, and may collide.                                            *)
(***************************************************************************)
EXTENDS Integers, FiniteSets

CONSTANTS
    Instances,      \* instance ids, ordered as their keys are
    VirtualNodes,   \* gateway.virtual_nodes
    Weight,         \* the weight an instance is listed with
    NodeHash,       \* crc32 of an instance's virtual nodes
    Hashes          \* the values crc32 takes

\* How many virtual nodes an instance gets.
Replicas(i) ==
    LET weight == IF Weight[i] <= 0 THEN 100 ELSE Weight[i]
        replicas == (VirtualNodes * weight) \div 100
    IN  IF replicas <= 0 THEN 1 ELSE replicas

ASSUME RingAssumption ==
    /\ IsFiniteSet(Instances) /\ Instances = 1..Cardinality(Instances)
    /\ VirtualNodes \in Nat \ {0}
    /\ Weight \in [Instances -> Int]
    /\ Hashes \subseteq Nat
    /\ \A i \in Instances :
          \A k \in 0..(Replicas(i) - 1) : NodeHash[i][k] \in Hashes

Points(i) == {NodeHash[i][k] : k \in 0..(Replicas(i) - 1)}

\* r.ring, without its order.
Ring(listing) == UNION {Points(i) : i \in listing}

\* r.nodes: a later instance overwrites the entry of a hash they share.
Node(listing, p) ==
    CHOOSE i \in listing :
        /\ p \in Points(i)
        /\ \A j \in listing : p \in Points(j) => j <= i

First(points) == CHOOSE p \in points : \A q \in points : p <= q

\* Mutant: the virtual node whose position is the hash modulo the ring's size.
RouteUIDByModulo(listing, h) ==
    LET Before(p) == {q \in Ring(listing) : q < p}
    IN  Node(listing, CHOOSE p \in Ring(listing) :
            Cardinality(Before(p)) = h % Cardinality(Ring(listing)))

\* RouteUID on a ring that is not empty: the first virtual node from the uid's
\* hash on, and round to the first of all when there is none.
RouteUID(listing, h) ==
    LET from == {p \in Ring(listing) : p >= h}
    IN  Node(listing, First(IF from = {} THEN Ring(listing) ELSE from))

Listings == (SUBSET Instances) \ {{}}

\* Pairs of listings between which a uid is sent elsewhere only if its instance
\* is missing from the second, or its new one from the first.
SmallMoves ==
    {move \in Listings \X Listings :
        \A h \in Hashes :
            LET old == RouteUID(move[1], h)
                new == RouteUID(move[2], h)
            IN  old = new \/ old \notin move[2] \/ new \notin move[1]}
=============================================================================
