---------------------------- MODULE Connections ----------------------------
(***************************************************************************)
(* gatewaysrv: the client connections of a user (app/gatewaysrv/           *)
(* connection.go, Heartbeat of server.go) and the user's DBGateConn record *)
(* in Redis (data/redis/routing.go).                                       *)
(*                                                                         *)
(* Everything is kept by UID and no operation touches two users, so the    *)
(* model has one user, with connections to several gateways.  A pool       *)
(* operation is one step, being made under its shard's mutex; a call to    *)
(* Redis is another.  Times are kept as ages, in ticks.  The code calls    *)
(* Heartbeat and CloseAll itself; Bind, Disconnect and SweepExpired are    *)
(* there for a transport that is not in the repository, and may be called  *)
(* at any time.                                                            *)
(***************************************************************************)
EXTENDS Integers

CONSTANTS
    Gateways,
    Conns,           \* client connections of the user, each bound once
    Placements,      \* how the load balancer may spread the connections
    NoConn,          \* stands for no session, no record
    SessionTTL,      \* gateway.session_ttl, in ticks
    RenewInterval,   \* gateway.gateway_conn_renew_interval, in ticks
    Faults           \* may a call to Redis fail, may a gateway die?

ASSUME ConnectionsAssumption ==
    /\ Placements \subseteq [Conns -> Gateways]
    /\ NoConn \notin Conns
    /\ SessionTTL \in Nat \ {0}
    /\ RenewInterval \in Nat \ {0}
    /\ Faults \in BOOLEAN

VARIABLES
    session,     \* gateway: the user's entry of shard.sessions
    index,       \* gateway: the ids of the user's connections in connIndex
    open,        \* connections that nobody has closed
    location,    \* Redis: DBGateConn, and its age
    gate,        \* connection: the gateway it is made to
    pc,          \* connection: what Bind or Heartbeat does next for it
    copy,        \* connection: the Session value Bind or Heartbeat works on
    leaving,     \* gateways where Disconnect has still to call Redis
    up,          \* gateways that accept calls
    overtaken,   \* history: connections dropped from the pool while a
                 \* Heartbeat or Bind held a copy of their session
    displaced    \* history: connections whose record another operation
                 \* has replaced or deleted since they last wrote it

redis == <<location, displaced>>
pool == <<session, index, open, overtaken>>
calls == <<pc, copy, gate>>
vars == <<redis, pool, calls, leaving, up>>

\* An age counts up to where no comparison of the code can tell it apart.
UpTo(limit, n) == IF n < limit THEN n ELSE limit

Aged(s) == IF s.conn = NoConn THEN s
           ELSE [s EXCEPT !.beat = UpTo(SessionTTL + 1, @ + 1),
                          !.renew = UpTo(RenewInterval, @ + 1)]

NoSession == [conn |-> NoConn, beat |-> 0, renew |-> 0]
NoRecord == [conn |-> NoConn, age |-> 0]

Init ==
    /\ session = [g \in Gateways |-> NoSession]
    /\ index = [g \in Gateways |-> {}]
    /\ open = Conns
    /\ location = NoRecord
    /\ gate \in Placements
    /\ pc = [c \in Conns |-> "new"]
    /\ copy = [c \in Conns |-> NoSession]
    /\ leaving = {}
    /\ up = Gateways
    /\ overtaken = {} /\ displaced = {}

-----------------------------------------------------------------------------
(* ConnectionPool.                                                         *)

\* The connections dropped from g's pool when its entry becomes s.
Dropped(g, s) == {session[g].conn} \ {s.conn, NoConn}

Held(c) == \E d \in Conns : copy[d].conn = c

\* Mutant: the index entry of the old connection is left behind.
SetKeepsIndex(g, s) ==
    /\ session' = [session EXCEPT ![g] = s]
    /\ index' = [index EXCEPT ![g] = @ \union {s.conn}]
    /\ open' = open \ Dropped(g, s)
    /\ overtaken' = overtaken \union {c \in Dropped(g, s) : Held(c)}

\* Mutant: the old connection is not closed.
SetKeepsOpen(g, s) ==
    /\ session' = [session EXCEPT ![g] = s]
    /\ index' = [index EXCEPT ![g] = (@ \ Dropped(g, s)) \union {s.conn}]
    /\ overtaken' = overtaken \union {c \in Dropped(g, s) : Held(c)}
    /\ UNCHANGED open

Set(g, s) ==
    /\ session' = [session EXCEPT ![g] = s]
    /\ index' = [index EXCEPT ![g] = (@ \ Dropped(g, s)) \union {s.conn}]
    /\ open' = open \ Dropped(g, s)
    /\ overtaken' = overtaken \union {c \in Dropped(g, s) : Held(c)}

Delete(g) ==
    /\ session' = [session EXCEPT ![g] = NoSession]
    /\ index' = [index EXCEPT ![g] = @ \ Dropped(g, NoSession)]
    /\ open' = open \ Dropped(g, NoSession)
    /\ overtaken' = overtaken \union {c \in Dropped(g, NoSession) : Held(c)}

-----------------------------------------------------------------------------
(* DBGateConn in Redis.                                                    *)

\* SET with the session's TTL, whoever wrote the record before.
SetGateConn(s) ==
    /\ location' = [conn |-> s.conn, age |-> 0]
    /\ displaced' = (displaced \union {location.conn}) \ {s.conn, NoConn}

\* DEL by uid, whoever wrote the record.
DeleteGateConn ==
    /\ location' = NoRecord
    /\ displaced' = displaced \union ({location.conn} \ {NoConn})

-----------------------------------------------------------------------------
(* ConnectionManager.                                                      *)

Goto(c, statement, s) ==
    /\ pc' = [pc EXCEPT ![c] = statement]
    /\ copy' = [copy EXCEPT ![c] = s]
    /\ UNCHANGED gate

\* Bind writes the record, and returns an error if that fails.
Bind(c) ==
    /\ pc[c] = "new" /\ gate[c] \in up
    /\ LET s == [conn |-> c, beat |-> 0, renew |-> 0] IN
          \/ SetGateConn(s) /\ Goto(c, "bind", s)
          \/ /\ Faults
             /\ SetGateConn(s) \/ UNCHANGED redis
             /\ Goto(c, "done", NoSession)
    /\ UNCHANGED <<pool, leaving, up>>

RenewDue(s) == s.renew >= RenewInterval

\* Mutant: the answer of pool.Get is not checked.
HeartbeatUnchecked(c) ==
    /\ pc[c] = "idle" /\ gate[c] \in up
    /\ LET s == session[gate[c]] IN
          Goto(c, IF RenewDue(s) THEN "renew" ELSE "set", [s EXCEPT !.beat = 0])
    /\ UNCHANGED <<redis, pool, leaving, up>>

\* Mutant: a heartbeat never writes a record that another operation has taken.
HeartbeatYields(c) ==
    /\ pc[c] = "idle" /\ gate[c] \in up
    /\ LET s == session[gate[c]]
           due == RenewDue(s) /\ s.conn \notin displaced
       IN  /\ s.conn # NoConn
           /\ Goto(c, IF due THEN "renew" ELSE "set", [s EXCEPT !.beat = 0])
    /\ UNCHANGED <<redis, pool, leaving, up>>

\* The heartbeat of connection c: it may leave out its id, and then refreshes
\* whatever session the user has.
Heartbeat(c) ==
    /\ pc[c] = "idle" /\ gate[c] \in up
    /\ LET s == session[gate[c]] IN
          /\ s.conn # NoConn
          /\ Goto(c, IF RenewDue(s) THEN "renew" ELSE "set", [s EXCEPT !.beat = 0])
    /\ UNCHANGED <<redis, pool, leaving, up>>

\* Mutant: LastRenewAt is moved although the record was not written.
RenewUnchecked(c) ==
    /\ pc[c] = "renew"
    /\ \/ SetGateConn(copy[c]) /\ Goto(c, "set", [copy[c] EXCEPT !.renew = 0])
       \/ /\ Faults
          /\ SetGateConn(copy[c]) \/ UNCHANGED redis
          /\ Goto(c, "set", [copy[c] EXCEPT !.renew = 0])
    /\ UNCHANGED <<pool, leaving, up>>

\* LastRenewAt moves to the time the heartbeat read, not that of the SET.
Renew(c) ==
    /\ pc[c] = "renew"
    /\ \/ /\ SetGateConn(copy[c])
          /\ Goto(c, "set", [copy[c] EXCEPT !.renew = UpTo(RenewInterval, copy[c].beat)])
       \/ /\ Faults
          /\ SetGateConn(copy[c]) \/ UNCHANGED redis
          /\ Goto(c, "idle", NoSession)
    /\ UNCHANGED <<pool, leaving, up>>

\* The last statement of Bind and of Heartbeat.
PoolSet(c) ==
    /\ pc[c] \in {"bind", "set"}
    /\ Set(gate[c], copy[c])
    /\ Goto(c, "idle", NoSession)
    /\ UNCHANGED <<redis, leaving, up>>

\* Connections that Bind has put into a pool.
Bound == {c \in Conns : pc[c] \in {"idle", "renew", "set"}}

Disconnect(g) ==
    /\ g \in up \ leaving /\ \E c \in Bound : gate[c] = g
    /\ Delete(g)
    /\ leaving' = leaving \union {g}
    /\ UNCHANGED <<redis, calls, up>>

DisconnectStore(g) ==
    /\ g \in leaving
    /\ DeleteGateConn \/ (Faults /\ UNCHANGED redis)
    /\ leaving' = leaving \ {g}
    /\ UNCHANGED <<pool, calls, up>>

\* Mutant: the connection is closed and the session kept.
SweepExpiredKeeps(g) ==
    /\ g \in up /\ session[g].conn # NoConn
    /\ session[g].beat > SessionTTL
    /\ open' = open \ {session[g].conn}
    /\ UNCHANGED <<session, index, overtaken, redis, calls, leaving, up>>

\* now.After(ExpireAt).  The record in Redis is left to its own TTL.
SweepExpired(g) ==
    /\ g \in up /\ session[g].conn # NoConn
    /\ session[g].beat > SessionTTL
    /\ Delete(g)
    /\ UNCHANGED <<redis, calls, leaving, up>>

-----------------------------------------------------------------------------
(* The gateway's life, and time.                                           *)

\* The signal: GracefulStop refuses further calls and waits for the others.
Stop(g) ==
    /\ g \in up
    /\ up' = up \ {g}
    /\ UNCHANGED <<redis, pool, calls, leaving>>

InFlight(g) == {c \in Conns : gate[c] = g /\ pc[c] \in {"renew", "set"}}

\* The deferred CloseAll, once Serve has returned.
CloseAll(g) ==
    /\ g \notin up \union leaving
    /\ InFlight(g) = {} /\ session[g].conn # NoConn
    /\ session' = [session EXCEPT ![g] = NoSession]
    /\ index' = [index EXCEPT ![g] = {}]
    /\ open' = open \ {session[g].conn}
    /\ overtaken' = overtaken \union {c \in {session[g].conn} : Held(c)}
    /\ UNCHANGED <<redis, calls, leaving, up>>

\* The process dies: its memory is gone, and its connections with it.
Crash(g) ==
    /\ Faults
    /\ LET gone == {c \in Conns : gate[c] = g} IN
          /\ open' = open \ gone
          /\ pc' = [c \in Conns |-> IF c \in gone THEN "done" ELSE pc[c]]
          /\ copy' = [c \in Conns |-> IF c \in gone THEN NoSession ELSE copy[c]]
    /\ session' = [session EXCEPT ![g] = NoSession]
    /\ index' = [index EXCEPT ![g] = {}]
    /\ leaving' = leaving \ {g} /\ up' = up \ {g}
    /\ UNCHANGED <<redis, overtaken, gate>>

\* A tick; Redis drops the record when its TTL has passed.
Tick ==
    /\ session' = [g \in Gateways |-> Aged(session[g])]
    /\ copy' = [c \in Conns |-> Aged(copy[c])]
    /\ location' = IF location.conn = NoConn \/ location.age + 1 >= SessionTTL
                   THEN NoRecord ELSE [location EXCEPT !.age = @ + 1]
    /\ UNCHANGED <<index, open, overtaken, displaced, pc, gate, leaving, up>>

\* The gateways that matter to the user.
Used == {gate[c] : c \in Conns}

Next ==
    \/ \E c \in Conns : Bind(c) \/ Heartbeat(c) \/ Renew(c) \/ PoolSet(c)
    \/ \E g \in Used : Disconnect(g) \/ DisconnectStore(g) \/ SweepExpired(g)
    \/ \E g \in Used : Stop(g) \/ CloseAll(g) \/ Crash(g)
    \/ Tick

Spec == Init /\ [][Next]_vars

Own(c) == session[gate[c]].conn = c

\* Time passes, calls go on, and a client that has a session sends heartbeats
\* periodically.  A SET that is tried again and again succeeds at some point.
Fairness ==
    /\ WF_vars(Tick)
    /\ \A c \in Conns :
          /\ WF_vars((Own(c) /\ Heartbeat(c)) \/ Renew(c) \/ PoolSet(c))
          /\ SF_vars(Renew(c) /\ pc'[c] = "set")

FairSpec == Spec /\ Fairness

-----------------------------------------------------------------------------

Sessions == [conn : Conns \union {NoConn}, beat : Nat, renew : Nat]

\* Types of the pools, the record in Redis and the calls.
TypeOK ==
    /\ session \in [Gateways -> Sessions]
    /\ index \in [Gateways -> SUBSET Conns]
    /\ open \subseteq Conns
    /\ location \in [conn : Conns \union {NoConn}, age : Nat]
    /\ gate \in [Conns -> Gateways]
    /\ pc \in [Conns -> {"new", "bind", "idle", "renew", "set", "done"}]
    /\ copy \in [Conns -> Sessions]
    /\ leaving \subseteq Gateways /\ up \subseteq Gateways
    /\ overtaken \subseteq Conns /\ displaced \subseteq Conns

\* GetByConnID finds exactly the connection of the user's session: whatever
\* Bind, Heartbeat, Disconnect and SweepExpired interleave, connIndex has no
\* entry of a connection that has been replaced.
IndexMatchesSession ==
    \A g \in Gateways : index[g] = {session[g].conn} \ {NoConn}

\* ConnectionPool closes what it drops: an open connection that has been bound
\* is the one its gateway's pool holds, so none is left without an owner.
NoConnectionLeaked ==
    \A c \in Bound \intersect open : session[gate[c]].conn = c

\* The pool holds a closed connection only if a Heartbeat or Bind that had
\* read the session before it was dropped has written it back.
ClosedOnlyIfOvertaken ==
    \A g \in Gateways :
        session[g].conn \notin open \union {NoConn} => session[g].conn \in overtaken

\* DBGateConn is renewed only every renewInterval, and yet does not expire while
\* an acknowledged heartbeat is at most sessionTTL - renewInterval old, unless
\* another connection's Bind, Heartbeat or Disconnect has taken the record.
HeartbeatsHoldLocation ==
    \A g \in Gateways :
        LET s == session[g] IN
        s.conn # NoConn /\ s.beat + RenewInterval <= SessionTTL =>
            location.conn = s.conn \/ s.conn \in displaced

\* c's session is the only one the user has, and nobody is taking it away.
Sole(c) ==
    /\ Own(c) /\ gate[c] \in up /\ leaving = {}
    /\ \A g \in Gateways \ {gate[c]} : session[g].conn = NoConn

\* A record that a late Disconnect or an old connection has taken comes back: a
\* user left with one session, whose client goes on sending heartbeats, is
\* recorded with it again and again.
LocationReturns ==
    \A c \in Conns : <>[]Sole(c) => []<>(location.conn = c)
=============================================================================
