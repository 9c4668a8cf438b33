------------------------- MODULE ConnectionsProofs -------------------------
(***************************************************************************)
(* Proofs about Connections, for any gateways, connections, placements,    *)
(* TTL and renewal interval.                                               *)
(***************************************************************************)
EXTENDS Connections, TLAPS

\* Calls that hold a copy of a session, and those whose copy may be stored.
Copying(c) == pc[c] \in {"bind", "renew", "set"}
Storing(c) == pc[c] \in {"bind", "set"}

\* A pool holds connections to its own gateway, which Bind has put there.
SessionsAreBound ==
    \A g \in Gateways : session[g].conn # NoConn =>
        session[g].conn \in Bound /\ gate[session[g].conn] = g

\* A copy is of a session of the call's own gateway; a Bind has made it itself.
CopiesAreBound ==
    \A c \in Conns :
        /\ Copying(c) => copy[c].conn # NoConn /\ gate[copy[c].conn] = gate[c]
        /\ pc[c] = "bind" => copy[c].conn = c
        /\ pc[c] \in {"renew", "set"} => copy[c].conn \in Bound
        /\ ~ Copying(c) => copy[c].conn = NoConn

NewIsOpen == \A c \in Conns : pc[c] = "new" => c \in open

\* A closed connection whose session is still copied has been overtaken.
CopiesClosedIfOvertaken ==
    \A c \in Conns : copy[c].conn \notin open \union {NoConn} => copy[c].conn \in overtaken

\* The record is as young as LastRenewAt says, as long as LastRenewAt is younger
\* than the interval, and younger than the last heartbeat and an interval:
\* unless it was taken away, or these ages exceed its TTL.
Covered(s) ==
    s.conn \notin displaced =>
        /\ s.renew < RenewInterval =>
              (location.conn = s.conn /\ location.age <= s.renew) \/ s.renew >= SessionTTL
        /\ \/ location.conn = s.conn /\ location.age < s.beat + RenewInterval
           \/ s.beat + RenewInterval > SessionTTL

AllCovered ==
    /\ \A g \in Gateways : session[g].conn # NoConn => Covered(session[g])
    /\ \A c \in Conns : Storing(c) => Covered(copy[c])

\* The inductive invariant.
Inv ==
    /\ TypeOK
    /\ SessionsAreBound /\ CopiesAreBound /\ NewIsOpen
    /\ IndexMatchesSession /\ NoConnectionLeaked
    /\ ClosedOnlyIfOvertaken /\ CopiesClosedIfOvertaken
    /\ AllCovered

-----------------------------------------------------------------------------
(* Types.                                                                  *)

LEMMA AgedType ==
    ASSUME NEW s \in Sessions
    PROVE  /\ Aged(s) \in Sessions /\ Aged(s).conn = s.conn
           /\ s.conn = NoConn => Aged(s) = s
           /\ s.conn # NoConn =>
                 /\ Aged(s).beat = UpTo(SessionTTL + 1, s.beat + 1)
                 /\ Aged(s).renew = UpTo(RenewInterval, s.renew + 1)
<1>1. /\ UpTo(SessionTTL + 1, s.beat + 1) \in Nat
      /\ UpTo(RenewInterval, s.renew + 1) \in Nat
  BY ConnectionsAssumption DEF Sessions, UpTo
<1> QED BY <1>1, Zenon DEF Aged, Sessions

LEMMA NoSessionType ==
    NoSession \in Sessions /\ NoSession.conn = NoConn
BY Zenon DEF NoSession, Sessions

LEMMA InitType == Init => TypeOK
<1> SUFFICES ASSUME Init PROVE TypeOK
  OBVIOUS
<1>1. gate \in [Conns -> Gateways]
  BY ConnectionsAssumption, Zenon DEF Init
<1> QED BY <1>1, NoSessionType, Zenon DEF Init, TypeOK, NoRecord

LEMMA PoolTypes ==
    ASSUME TypeOK, NEW g \in Gateways, NEW s \in Sessions,
           (Set(g, s) /\ s.conn # NoConn) \/ Delete(g)
    PROVE  /\ session' \in [Gateways -> Sessions] /\ index' \in [Gateways -> SUBSET Conns]
           /\ open' \subseteq Conns /\ overtaken' \subseteq Conns
<1>1. Dropped(g, s) \subseteq Conns /\ Dropped(g, NoSession) \subseteq Conns
  BY Zenon DEF Dropped, TypeOK, Sessions
<1>2. CASE Set(g, s) /\ s.conn # NoConn
  <2>1. s.conn \in Conns
    BY <1>2, Zenon DEF Sessions
  <2> QED BY <1>1, <1>2, <2>1, Zenon DEF Set, TypeOK
<1>3. CASE Delete(g)
  BY <1>1, <1>3, NoSessionType, Zenon DEF Delete, TypeOK
<1> QED BY <1>2, <1>3, Zenon

LEMMA RedisTypes ==
    ASSUME TypeOK, NEW s \in Sessions, s.conn # NoConn, SetGateConn(s) \/ DeleteGateConn
    PROVE  /\ location' \in [conn : Conns \union {NoConn}, age : Nat]
           /\ displaced' \subseteq Conns
BY DEF SetGateConn, DeleteGateConn, NoRecord, TypeOK, Sessions

LEMMA GotoTypes ==
    ASSUME TypeOK, NEW c \in Conns,
           NEW statement \in {"new", "bind", "idle", "renew", "set", "done"},
           NEW s \in Sessions, Goto(c, statement, s)
    PROVE  /\ pc' \in [Conns -> {"new", "bind", "idle", "renew", "set", "done"}]
           /\ copy' \in [Conns -> Sessions] /\ gate' \in [Conns -> Gateways]
           /\ pc'[c] = statement /\ copy'[c] = s
           /\ \A d \in Conns \ {c} : pc'[d] = pc[d] /\ copy'[d] = copy[d]
BY Zenon DEF Goto, TypeOK

-----------------------------------------------------------------------------
(* Steps.                                                                  *)

\* The parts of the invariant that only pools and calls decide.
Shape ==
    /\ SessionsAreBound /\ CopiesAreBound /\ NewIsOpen
    /\ IndexMatchesSession /\ NoConnectionLeaked
    /\ ClosedOnlyIfOvertaken /\ CopiesClosedIfOvertaken

LEMMA InvIs == Inv <=> TypeOK /\ Shape /\ AllCovered
BY Zenon DEF Inv, Shape

\* A step of a call that touches no pool: it may copy a session that the pool of
\* its gateway holds, or let its copy go.
LEMMA CallShape ==
    ASSUME TypeOK, Shape, NEW c \in Conns, NEW s \in Sessions,
           NEW statement \in {"bind", "idle", "renew", "set", "done"},
           Goto(c, statement, s), UNCHANGED pool,
           \/ pc[c] = "new" /\ statement \in {"bind", "done"}
           \/ pc[c] \in {"idle", "renew"} /\ statement \in {"idle", "renew", "set"},
           statement = "bind" => s.conn = c,
           statement \in {"renew", "set"} =>
              /\ s.conn # NoConn /\ s.conn \in Bound /\ gate[s.conn] = gate[c]
              /\ s.conn \notin open => s.conn \in overtaken,
           statement \in {"idle", "done"} => s.conn = NoConn
    PROVE  Shape'
<1>1. /\ pc'[c] = statement /\ copy'[c] = s /\ gate' = gate
      /\ \A d \in Conns \ {c} : pc'[d] = pc[d] /\ copy'[d] = copy[d]
  BY GotoTypes, Zenon DEF Goto
<1>2. UNCHANGED <<session, index, open, overtaken>>
  BY Zenon DEF pool
<1>3. Bound' = Bound
  BY <1>1, Zenon DEF Bound
<1>4. c # NoConn
  BY ConnectionsAssumption, Zenon
<1>5. SessionsAreBound' /\ IndexMatchesSession' /\ ClosedOnlyIfOvertaken' /\ NoConnectionLeaked'
  BY <1>1, <1>2, <1>3, Zenon DEF Shape, SessionsAreBound, IndexMatchesSession,
     ClosedOnlyIfOvertaken, NoConnectionLeaked
<1>6. CopiesAreBound'
  BY <1>1, <1>3, <1>4, Zenon DEF Shape, CopiesAreBound, Copying
<1>7. NewIsOpen'
  BY <1>1, <1>2, Zenon DEF Shape, NewIsOpen
<1>8. CopiesClosedIfOvertaken'
  <2>1. s.conn \notin open \union {NoConn} => s.conn \in overtaken
    BY Zenon DEF Shape, NewIsOpen
  <2> QED BY <1>1, <1>2, <2>1, Zenon DEF Shape, CopiesClosedIfOvertaken
<1> QED BY <1>5, <1>6, <1>7, <1>8, Zenon DEF Shape

\* What is covered stays so when the record is written, by whomever, or deleted.
LEMMA CoverKept ==
    ASSUME TypeOK, NEW s \in Sessions, s.conn # NoConn, Covered(s),
           NEW x \in Sessions, x.conn # NoConn,
           SetGateConn(x) \/ DeleteGateConn \/ UNCHANGED redis
    PROVE  Covered(s)'
<1>1. s.beat \in Nat /\ s.renew \in Nat /\ RenewInterval \in Nat \ {0}
  BY ConnectionsAssumption, Zenon DEF Sessions
<1>2. CASE SetGateConn(x)
  <2>1. CASE s.conn = x.conn
    BY <1>1, <1>2, <2>1 DEF SetGateConn, Covered
  <2>2. CASE s.conn # x.conn
    BY <1>1, <1>2, <2>2, Zenon DEF SetGateConn, Covered
  <2> QED BY <2>1, <2>2, Zenon
<1>3. CASE DeleteGateConn
  BY <1>3, Zenon DEF DeleteGateConn, Covered
<1>4. CASE UNCHANGED redis
  BY <1>4, Zenon DEF redis, Covered
<1> QED BY <1>2, <1>3, <1>4, Zenon

\* A record that has just been written covers the session.
LEMMA CoverNew ==
    ASSUME NEW s \in Sessions, NEW x \in Sessions, x.conn = s.conn, SetGateConn(s)
    PROVE  Covered(x)'
<1>1. /\ x.beat \in Nat /\ x.renew \in Nat /\ RenewInterval \in Nat \ {0}
      /\ location'.conn = x.conn /\ location'.age = 0
  BY ConnectionsAssumption, Zenon DEF Sessions, SetGateConn
<1> QED BY <1>1 DEF Covered

\* A step of call c that touches no pool leaves sessions and copies covered.
LEMMA CallCovers ==
    ASSUME TypeOK, Shape, AllCovered, NEW c \in Conns, NEW s \in Sessions,
           NEW statement \in {"bind", "idle", "renew", "set", "done"},
           Goto(c, statement, s), UNCHANGED pool,
           NEW x \in Sessions, x.conn # NoConn,
           SetGateConn(x) \/ DeleteGateConn \/ UNCHANGED redis,
           statement \in {"bind", "set"} => Covered(s)'
    PROVE  AllCovered'
<1>1. /\ pc'[c] = statement /\ copy'[c] = s /\ session' = session
      /\ \A d \in Conns \ {c} : pc'[d] = pc[d] /\ copy'[d] = copy[d]
  BY GotoTypes DEF pool
<1>2. ASSUME NEW g \in Gateways, session'[g].conn # NoConn PROVE Covered(session[g])'
  <2>1. PICK v \in Sessions : v = session[g]
    BY Zenon DEF TypeOK
  <2>2. v.conn # NoConn /\ Covered(v)
    BY <1>1, <1>2, <2>1, Zenon DEF AllCovered, Covered
  <2>3. Covered(v)'
    BY <2>2, CoverKept, Zenon
  <2>4. v = session'[g]
    BY <1>1, <2>1, Zenon
  <2> QED BY <2>3, <2>4, Zenon DEF Covered
<1>3. ASSUME NEW d \in Conns \ {c}, Storing(d)' PROVE Covered(copy[d])'
  <2>1. PICK v \in Sessions : v = copy[d]
    BY Zenon DEF TypeOK
  <2>2. v.conn # NoConn /\ Covered(v)
    BY <1>1, <1>3, <2>1, Zenon DEF AllCovered, Covered, Storing, Copying, Shape, CopiesAreBound
  <2>3. Covered(v)'
    BY <2>2, CoverKept, Zenon
  <2>4. v = copy'[d]
    BY <1>1, <2>1, Zenon
  <2> QED BY <2>3, <2>4, Zenon DEF Covered
<1>4. Storing(c)' => Covered(copy[c])'
  BY <1>1, Zenon DEF Storing, Covered
<1> QED BY <1>2, <1>3, <1>4, Zenon DEF AllCovered

LEMMA BindStep ==
    ASSUME Inv, NEW c \in Conns, Bind(c)
    PROVE  Inv'
<1>0. TypeOK /\ Shape /\ AllCovered /\ pc[c] = "new" /\ UNCHANGED <<pool, leaving, up>>
  BY InvIs, Zenon DEF Bind
<1>1. PICK s \in Sessions : s = [conn |-> c, beat |-> 0, renew |-> 0]
  BY Zenon DEF Sessions
<1>2. s.conn = c /\ c # NoConn
  BY <1>1, ConnectionsAssumption, Zenon
<1>3. \/ SetGateConn(s) /\ Goto(c, "bind", s)
      \/ (SetGateConn(s) \/ UNCHANGED redis) /\ Goto(c, "done", NoSession)
  BY <1>1, Zenon DEF Bind
<1>4. CASE SetGateConn(s) /\ Goto(c, "bind", s)
  <2>1. Shape'
    BY <1>0, <1>2, <1>4, CallShape, Zenon
  <2>2. Covered(s)'
    BY <1>4, CoverNew, Zenon
  <2>3. AllCovered'
    BY <1>0, <1>2, <1>4, <2>2, CallCovers, Zenon
  <2>4. TypeOK'
    BY <1>0, <1>2, <1>4, RedisTypes, GotoTypes, Zenon DEF TypeOK, pool
  <2> QED BY <2>1, <2>3, <2>4, Zenon DEF Inv, Shape
<1>5. CASE (SetGateConn(s) \/ UNCHANGED redis) /\ Goto(c, "done", NoSession)
  <2>1. Shape'
    BY <1>0, <1>5, NoSessionType, CallShape, Zenon
  <2>2. AllCovered'
    BY <1>0, <1>2, <1>5, NoSessionType, CallCovers, Zenon
  <2>3. /\ location' \in [conn : Conns \union {NoConn}, age : Nat]
        /\ displaced' \subseteq Conns
    BY <1>0, <1>2, <1>5, RedisTypes, Zenon DEF TypeOK, redis
  <2>4. TypeOK'
    BY <1>0, <1>5, <2>3, NoSessionType, GotoTypes, Zenon DEF TypeOK, pool
  <2> QED BY <2>1, <2>2, <2>4, Zenon DEF Inv, Shape
<1> QED BY <1>3, <1>4, <1>5, Zenon

LEMMA HeartbeatStep ==
    ASSUME Inv, NEW c \in Conns, Heartbeat(c)
    PROVE  Inv'
<1>0. /\ TypeOK /\ Shape /\ AllCovered
      /\ pc[c] = "idle" /\ UNCHANGED <<redis, pool, leaving, up>>
  BY InvIs, Zenon DEF Heartbeat
<1>1. PICK s \in Sessions : s = session[gate[c]]
  BY <1>0, Zenon DEF TypeOK
<1>2. PICK beat \in Sessions : beat = [s EXCEPT !.beat = 0]
  BY Zenon DEF Sessions
<1>3. PICK statement \in {"renew", "set"} :
         statement = IF RenewDue(s) THEN "renew" ELSE "set"
  OBVIOUS
<1>4. s.conn # NoConn /\ Goto(c, statement, beat)
  BY <1>1, <1>2, <1>3, Zenon DEF Heartbeat
<1>5. beat.conn = s.conn /\ beat.renew = s.renew /\ beat.beat = 0
  BY <1>2, Zenon DEF Sessions
<1>6. /\ s.conn \in Bound /\ gate[s.conn] = gate[c]
      /\ s.conn \notin open => s.conn \in overtaken
  BY <1>0, <1>1, <1>4, Zenon DEF Shape, SessionsAreBound, ClosedOnlyIfOvertaken, TypeOK
<1>7. Shape'
  BY <1>0, <1>4, <1>5, <1>6, CallShape, Zenon
<1>8. statement = "set" => Covered(beat)'
  <2> SUFFICES ASSUME statement = "set" PROVE Covered(beat)'
    OBVIOUS
  <2>1. Covered(s)
    BY <1>0, <1>1, <1>4, Zenon DEF AllCovered, TypeOK
  <2>2. s.renew < RenewInterval
    BY <1>3, ConnectionsAssumption DEF RenewDue, Sessions
  <2>3. /\ s.renew \in Nat /\ RenewInterval \in Nat /\ SessionTTL \in Nat
        /\ location.age \in Nat /\ location' = location /\ displaced' = displaced
    BY <1>0, ConnectionsAssumption, Zenon DEF Sessions, TypeOK, redis
  <2> QED BY <1>5, <2>1, <2>2, <2>3 DEF Covered
<1>9. AllCovered'
  BY <1>0, <1>4, <1>5, <1>8, CallCovers, Zenon
<1>10. TypeOK'
  BY <1>0, <1>4, GotoTypes DEF TypeOK, pool, redis
<1> QED BY <1>7, <1>9, <1>10, Zenon DEF Inv, Shape

LEMMA RenewStep ==
    ASSUME Inv, NEW c \in Conns, Renew(c)
    PROVE  Inv'
<1>0. TypeOK /\ Shape /\ AllCovered /\ pc[c] = "renew" /\ UNCHANGED <<pool, leaving, up>>
  BY InvIs, Zenon DEF Renew
<1>1. PICK s \in Sessions : s = copy[c]
  BY <1>0, Zenon DEF TypeOK
<1>2. UpTo(RenewInterval, s.beat) \in Nat
  BY ConnectionsAssumption, Zenon DEF Sessions, UpTo
<1>3. PICK new \in Sessions : new = [s EXCEPT !.renew = UpTo(RenewInterval, s.beat)]
  BY <1>2, Zenon DEF Sessions
<1>4. new.conn = s.conn
  BY <1>3, Zenon DEF Sessions
<1>5. \/ SetGateConn(s) /\ Goto(c, "set", new)
      \/ (SetGateConn(s) \/ UNCHANGED redis) /\ Goto(c, "idle", NoSession)
  BY <1>1, <1>3, Zenon DEF Renew
<1>6. /\ s.conn # NoConn /\ s.conn \in Bound /\ gate[s.conn] = gate[c]
      /\ s.conn \notin open => s.conn \in overtaken
  BY <1>0, <1>1, Zenon DEF Shape, CopiesAreBound, CopiesClosedIfOvertaken, Copying
<1>7. CASE SetGateConn(s) /\ Goto(c, "set", new)
  <2>1. Shape'
    BY <1>0, <1>4, <1>6, <1>7, CallShape, Zenon
  <2>2. Covered(new)'
    BY <1>4, <1>7, CoverNew, Zenon
  <2>3. AllCovered'
    BY <1>0, <1>6, <1>7, <2>2, CallCovers, Zenon
  <2>4. TypeOK'
    BY <1>0, <1>6, <1>7, RedisTypes, GotoTypes, Zenon DEF TypeOK, pool
  <2> QED BY <2>1, <2>3, <2>4, Zenon DEF Inv, Shape
<1>8. CASE (SetGateConn(s) \/ UNCHANGED redis) /\ Goto(c, "idle", NoSession)
  <2>1. Shape'
    BY <1>0, <1>8, NoSessionType, CallShape, Zenon
  <2>2. AllCovered'
    BY <1>0, <1>6, <1>8, NoSessionType, CallCovers, Zenon
  <2>3. /\ location' \in [conn : Conns \union {NoConn}, age : Nat]
        /\ displaced' \subseteq Conns
    BY <1>0, <1>6, <1>8, RedisTypes, Zenon DEF TypeOK, redis
  <2>4. TypeOK'
    BY <1>0, <1>8, <2>3, NoSessionType, GotoTypes, Zenon DEF TypeOK, pool
  <2> QED BY <2>1, <2>2, <2>4, Zenon DEF Inv, Shape
<1> QED BY <1>5, <1>7, <1>8, Zenon

\* What Set and Delete do, seen from outside the pool of g.
LEMMA PoolIs ==
    ASSUME TypeOK, Shape, NEW g \in Gateways, NEW s \in Sessions,
           (Set(g, s) /\ s.conn # NoConn) \/ (Delete(g) /\ s = NoSession)
    PROVE  /\ session'[g] = s /\ index'[g] = {s.conn} \ {NoConn}
           /\ \A h \in Gateways \ {g} : session'[h] = session[h] /\ index'[h] = index[h]
           /\ open' = open \ Dropped(g, s)
           /\ overtaken' = overtaken \union {c \in Dropped(g, s) : Held(c)}
           /\ \A c \in Dropped(g, s) : c \in Bound /\ gate[c] = g /\ c # s.conn
<1>1. index[g] = {session[g].conn} \ {NoConn}
  BY Zenon DEF Shape, IndexMatchesSession
<1>2. \A c \in Dropped(g, s) : c \in Bound /\ gate[c] = g /\ c # s.conn
  BY Zenon DEF Shape, SessionsAreBound, Dropped
<1>3. CASE Set(g, s) /\ s.conn # NoConn
  BY <1>1, <1>2, <1>3, Zenon DEF Set, TypeOK, Dropped
<1>4. CASE Delete(g) /\ s = NoSession
  BY <1>1, <1>2, <1>4, NoSessionType, Zenon DEF Delete, TypeOK, Dropped
<1> QED BY <1>3, <1>4, Zenon

LEMMA PoolSetStep ==
    ASSUME Inv, NEW c \in Conns, PoolSet(c)
    PROVE  Inv'
<1>0. /\ TypeOK /\ Shape /\ AllCovered /\ gate' = gate
      /\ pc[c] \in {"bind", "set"} /\ UNCHANGED <<redis, leaving, up>>
  BY InvIs, Zenon DEF PoolSet, Goto
<1>1. PICK s \in Sessions : s = copy[c]
  BY <1>0, Zenon DEF TypeOK
<1>2. PICK g \in Gateways : g = gate[c]
  BY <1>0, Zenon DEF TypeOK
<1>3. Set(g, s) /\ Goto(c, "idle", NoSession)
  BY <1>1, <1>2, Zenon DEF PoolSet
<1>4. /\ s.conn # NoConn /\ gate[s.conn] = g
      /\ (pc[c] = "bind" /\ s.conn = c) \/ (c \in Bound /\ s.conn \in Bound)
      /\ s.conn \notin open => s.conn \in overtaken
  BY <1>0, <1>1, <1>2, Zenon DEF Shape, CopiesAreBound, CopiesClosedIfOvertaken, Copying, Bound
<1>5. /\ session'[g] = s /\ index'[g] = {s.conn} \ {NoConn}
      /\ \A h \in Gateways \ {g} : session'[h] = session[h] /\ index'[h] = index[h]
      /\ open' = open \ Dropped(g, s)
      /\ overtaken' = overtaken \union {d \in Dropped(g, s) : Held(d)}
      /\ \A d \in Dropped(g, s) : d \in Bound /\ gate[d] = g /\ d # s.conn
  <2>1. (Set(g, s) /\ s.conn # NoConn) \/ (Delete(g) /\ s = NoSession)
    BY <1>3, <1>4, Zenon
  <2>2. TypeOK /\ Shape
    BY <1>0, Zenon
  <2> QED BY <2>1, <2>2, PoolIs, Zenon
<1>6. /\ pc'[c] = "idle" /\ copy'[c] = NoSession /\ copy'[c].conn = NoConn
      /\ \A d \in Conns \ {c} : pc'[d] = pc[d] /\ copy'[d] = copy[d]
  BY <1>0, <1>3, NoSessionType, Zenon DEF Goto, TypeOK
<1>7. Bound' = Bound \union {c}
  BY <1>6, Zenon DEF Bound
<1>8. TypeOK'
  BY <1>0, <1>3, <1>4, NoSessionType, PoolTypes, GotoTypes DEF TypeOK, redis
<1>9. SessionsAreBound'
  BY <1>0, <1>4, <1>5, <1>7 DEF Shape, SessionsAreBound
<1>10. CopiesAreBound'
  BY <1>0, <1>6, <1>7, Zenon DEF Shape, CopiesAreBound, Copying
<1>11. NewIsOpen'
  BY <1>0, <1>5, <1>6, Zenon DEF Shape, NewIsOpen, Bound
<1>12. IndexMatchesSession'
  BY <1>0, <1>5, Zenon DEF Shape, IndexMatchesSession
<1>13. NoConnectionLeaked'
  <2> SUFFICES ASSUME NEW d \in Conns, d \in Bound \union {c}, d \in open \ Dropped(g, s)
               PROVE  session'[gate[d]].conn = d
    BY <1>0, <1>5, <1>7, Zenon DEF NoConnectionLeaked, Bound
  <2>1. CASE d \in Bound
    <3>1. session[gate[d]].conn = d /\ gate[d] \in Gateways /\ d # NoConn
      BY <1>0, <2>1, ConnectionsAssumption, Zenon DEF Shape, NoConnectionLeaked, TypeOK
    <3>2. CASE gate[d] = g
      BY <1>5, <3>1, <3>2, Zenon DEF Dropped
    <3>3. CASE gate[d] # g
      BY <1>5, <3>1, <3>3, Zenon
    <3> QED BY <3>2, <3>3, Zenon
  <2>2. CASE d \notin Bound
    BY <1>2, <1>4, <1>5, <2>2, Zenon
  <2> QED BY <2>1, <2>2, Zenon
<1>14. ClosedOnlyIfOvertaken'
  <2> SUFFICES ASSUME NEW h \in Gateways, session'[h].conn \notin open' \union {NoConn}
               PROVE  session'[h].conn \in overtaken'
    BY Zenon DEF ClosedOnlyIfOvertaken
  <2>1. CASE h = g
    BY <1>4, <1>5, <2>1, Zenon
  <2>2. CASE h # g
    BY <1>0, <1>5, <2>2, Zenon DEF Shape, ClosedOnlyIfOvertaken, SessionsAreBound
  <2> QED BY <2>1, <2>2, Zenon
<1>15. CopiesClosedIfOvertaken'
  BY <1>0, <1>5, <1>6, Zenon DEF Shape, CopiesClosedIfOvertaken, Held
<1>16. AllCovered'
  <2>1. Covered(s)
    BY <1>0, <1>1, Zenon DEF AllCovered, Storing
  <2>2. location' = location /\ displaced' = displaced
    BY <1>0, Zenon DEF redis
  <2>3. \A h \in Gateways : session'[h].conn # NoConn => Covered(session[h])'
    BY <1>0, <1>5, <2>1, <2>2, Zenon DEF AllCovered, Covered
  <2>4. \A d \in Conns : Storing(d)' => Covered(copy[d])'
    BY <1>0, <1>6, <2>2, Zenon DEF AllCovered, Covered, Storing
  <2> QED BY <2>3, <2>4, Zenon DEF AllCovered
<1> QED BY <1>8, <1>9, <1>10, <1>11, <1>12, <1>13, <1>14, <1>15, <1>16, Zenon DEF Inv

\* Disconnect, SweepExpired and CloseAll delete a session from the pool of g.
LEMMA DeleteStep ==
    ASSUME Inv, NEW g \in Gateways, Delete(g), UNCHANGED <<redis, calls>>,
           leaving' \subseteq Gateways, up' \subseteq Gateways
    PROVE  Inv'
<1>0. TypeOK /\ Shape /\ AllCovered /\ UNCHANGED <<location, displaced, pc, copy, gate>>
  BY InvIs, Zenon DEF redis, calls
<1>1. PICK s \in Sessions : s = NoSession /\ s.conn = NoConn
  BY NoSessionType, Zenon
<1>2. /\ session'[g] = s /\ index'[g] = {s.conn} \ {NoConn}
      /\ \A h \in Gateways \ {g} : session'[h] = session[h] /\ index'[h] = index[h]
      /\ open' = open \ Dropped(g, s)
      /\ overtaken' = overtaken \union {d \in Dropped(g, s) : Held(d)}
      /\ \A d \in Dropped(g, s) : d \in Bound /\ gate[d] = g /\ d # s.conn
  BY <1>0, <1>1, PoolIs
<1>3. Bound' = Bound
  BY <1>0, Zenon DEF Bound
<1>4. TypeOK'
  BY <1>0, <1>1, PoolTypes, Zenon DEF TypeOK
<1>5. SessionsAreBound' /\ CopiesAreBound' /\ IndexMatchesSession'
  BY <1>0, <1>1, <1>2, <1>3
     DEF Shape, SessionsAreBound, CopiesAreBound, IndexMatchesSession, Copying
<1>6. NewIsOpen'
  BY <1>0, <1>2, Zenon DEF Shape, NewIsOpen, Bound
<1>7. NoConnectionLeaked'
  <2> SUFFICES ASSUME NEW d \in Conns, d \in Bound, d \in open \ Dropped(g, s)
               PROVE  session'[gate[d]].conn = d
    BY <1>0, <1>2, <1>3, Zenon DEF NoConnectionLeaked, Bound
  <2>1. session[gate[d]].conn = d /\ gate[d] \in Gateways /\ d # NoConn
    BY <1>0, ConnectionsAssumption, Zenon DEF Shape, NoConnectionLeaked, TypeOK
  <2>2. gate[d] # g
    BY <1>1, <2>1, Zenon DEF Dropped
  <2> QED BY <1>2, <2>1, <2>2, Zenon
<1>8. ClosedOnlyIfOvertaken'
  BY <1>0, <1>1, <1>2 DEF Shape, ClosedOnlyIfOvertaken, SessionsAreBound
<1>9. CopiesClosedIfOvertaken'
  BY <1>0, <1>2, Zenon DEF Shape, CopiesClosedIfOvertaken, Held
<1>10. AllCovered'
  BY <1>0, <1>1, <1>2, Zenon DEF AllCovered, Covered, Storing
<1> QED BY <1>4, <1>5, <1>6, <1>7, <1>8, <1>9, <1>10, Zenon DEF Inv

LEMMA CloseAllDeletes ==
    ASSUME TypeOK, Shape, NEW g \in Gateways, CloseAll(g)
    PROVE  Delete(g)
<1>1. index[g] = {session[g].conn} \ {NoConn}
  BY Zenon DEF Shape, IndexMatchesSession
<1>2. Dropped(g, NoSession) = {session[g].conn}
  BY NoSessionType, Zenon DEF Dropped, CloseAll
<1>3. index[g] \ Dropped(g, NoSession) = {}
  BY <1>1, <1>2, Zenon
<1> QED BY <1>2, <1>3, Zenon DEF CloseAll, Delete, TypeOK

\* A step that changes neither a pool nor a call.
LEMMA QuietStep ==
    ASSUME Inv, UNCHANGED <<pool, calls>>, UNCHANGED redis \/ DeleteGateConn,
           leaving' \subseteq Gateways, up' \subseteq Gateways
    PROVE  Inv'
<1>0. /\ TypeOK /\ Shape /\ AllCovered
      /\ UNCHANGED <<session, index, open, overtaken, pc, copy, gate>>
  BY InvIs, Zenon DEF pool, calls
<1>1. TypeOK'
  <2>1. CASE UNCHANGED redis
    BY <1>0, <2>1, Zenon DEF TypeOK, redis
  <2>2. CASE DeleteGateConn
    BY <1>0, <2>2, Zenon DEF TypeOK, DeleteGateConn, NoRecord
  <2> QED BY <2>1, <2>2, Zenon
<1>2. Shape'
  <2>1. Bound' = Bound /\ (\A c \in Conns : Copying(c)' = Copying(c))
    BY <1>0, Zenon DEF Bound, Copying
  <2>2. SessionsAreBound' /\ CopiesAreBound' /\ NewIsOpen'
    BY <1>0, <2>1, Zenon DEF Shape, SessionsAreBound, CopiesAreBound, NewIsOpen
  <2>3. IndexMatchesSession' /\ NoConnectionLeaked'
    BY <1>0, <2>1, Zenon DEF Shape, IndexMatchesSession, NoConnectionLeaked
  <2>4. ClosedOnlyIfOvertaken' /\ CopiesClosedIfOvertaken'
    BY <1>0, Zenon DEF Shape, ClosedOnlyIfOvertaken, CopiesClosedIfOvertaken
  <2> QED BY <2>2, <2>3, <2>4, Zenon DEF Shape
<1>3. ASSUME NEW s \in Sessions, s.conn # NoConn, Covered(s)
      PROVE  /\ s.conn \notin displaced' =>
                  /\ s.renew < RenewInterval =>
                        (location'.conn = s.conn /\ location'.age <= s.renew)
                           \/ s.renew >= SessionTTL
                  /\ \/ location'.conn = s.conn /\ location'.age < s.beat + RenewInterval
                     \/ s.beat + RenewInterval > SessionTTL
  <2>1. CASE UNCHANGED redis
    BY <1>3, <2>1, Zenon DEF Covered, redis
  <2>2. CASE DeleteGateConn
    BY <1>3, <2>2, Zenon DEF Covered, DeleteGateConn
  <2> QED BY <2>1, <2>2, Zenon
<1>4. AllCovered'
  <2>1. \A g \in Gateways : session[g].conn # NoConn => Covered(session[g])'
    BY <1>0, <1>3, Zenon DEF AllCovered, Covered, TypeOK
  <2>2. \A c \in Conns : Storing(c) => Covered(copy[c])'
    BY <1>0, <1>3, Zenon DEF AllCovered, Covered, TypeOK, Shape, CopiesAreBound, Storing, Copying
  <2> QED BY <1>0, <2>1, <2>2, Zenon DEF AllCovered, Storing
<1> QED BY <1>1, <1>2, <1>4, InvIs, Zenon DEF Inv, Shape

\* The death of g: nothing is left of its pool and of the calls it was serving.
LEMMA CrashStep ==
    ASSUME Inv, NEW g \in Gateways, Crash(g)
    PROVE  Inv'
<1>0. TypeOK /\ Shape /\ AllCovered /\ UNCHANGED <<location, displaced, overtaken, gate>>
  BY InvIs, Zenon DEF Crash, redis
<1>1. /\ \A c \in Conns : gate[c] = g =>
            pc'[c] = "done" /\ copy'[c] = NoSession /\ c \notin open'
      /\ \A c \in Conns : gate[c] # g =>
            pc'[c] = pc[c] /\ copy'[c] = copy[c] /\ (c \in open' <=> c \in open)
      /\ session'[g] = NoSession /\ index'[g] = {}
      /\ \A h \in Gateways \ {g} : session'[h] = session[h] /\ index'[h] = index[h]
  BY <1>0, Zenon DEF Crash, TypeOK
<1>2. NoSession.conn = NoConn /\ NoConn \notin open
  BY <1>0, NoSessionType, ConnectionsAssumption, Zenon DEF TypeOK
<1>3. /\ \A c \in Conns : gate[c] # g => (c \in Bound' <=> c \in Bound)
      /\ \A c \in Conns : c \in Bound' => gate[c] # g
  BY <1>1, Zenon DEF Bound
<1>4. TypeOK'
  BY <1>0, NoSessionType, Zenon DEF Crash, TypeOK
<1>5. SessionsAreBound'
  BY <1>0, <1>1, <1>2, <1>3 DEF Shape, SessionsAreBound, Bound
<1>6. CopiesAreBound'
  <2> SUFFICES ASSUME NEW c \in Conns
               PROVE  /\ Copying(c)' => copy'[c].conn # NoConn /\ gate[copy'[c].conn] = gate[c]
                      /\ pc'[c] = "bind" => copy'[c].conn = c
                      /\ pc'[c] \in {"renew", "set"} => copy'[c].conn \in Bound'
                      /\ ~ Copying(c)' => copy'[c].conn = NoConn
    BY <1>0, Zenon DEF CopiesAreBound
  <2>1. CASE gate[c] = g
    BY <1>1, <1>2, <2>1, Zenon DEF Copying
  <2>2. CASE gate[c] # g
    BY <1>0, <1>1, <1>3, <2>2 DEF Copying, Shape, CopiesAreBound, Bound
  <2> QED BY <2>1, <2>2, Zenon
<1>7. NewIsOpen' /\ IndexMatchesSession'
  BY <1>0, <1>1, <1>2, Zenon DEF Shape, NewIsOpen, IndexMatchesSession
<1>8. NoConnectionLeaked'
  BY <1>0, <1>1, <1>3 DEF Shape, NoConnectionLeaked, Bound, TypeOK
<1>9. ClosedOnlyIfOvertaken'
  BY <1>0, <1>1, <1>2 DEF Shape, ClosedOnlyIfOvertaken, SessionsAreBound, Bound
<1>10. CopiesClosedIfOvertaken'
  BY <1>0, <1>1, <1>2
     DEF Shape, CopiesClosedIfOvertaken, CopiesAreBound, Copying, TypeOK, Sessions
<1>11. AllCovered'
  <2>1. \A h \in Gateways : session'[h].conn # NoConn => Covered(session[h])'
    BY <1>0, <1>1, <1>2, Zenon DEF AllCovered, Covered
  <2>2. \A c \in Conns : Storing(c)' => Covered(copy[c])'
    BY <1>0, <1>1, Zenon DEF AllCovered, Covered, Storing
  <2> QED BY <2>1, <2>2, Zenon DEF AllCovered
<1> QED BY <1>4, <1>5, <1>6, <1>7, <1>8, <1>9, <1>10, <1>11, Zenon DEF Inv

\* A tick takes the record away only from sessions that are as old themselves.
LEMMA CoverAged ==
    ASSUME TypeOK, Tick, NEW s \in Sessions, s.conn # NoConn, Covered(s)
    PROVE  /\ s.conn \notin displaced' =>
                /\ Aged(s).renew < RenewInterval =>
                      (location'.conn = s.conn /\ location'.age <= Aged(s).renew)
                         \/ Aged(s).renew >= SessionTTL
                /\ \/ location'.conn = s.conn /\ location'.age < Aged(s).beat + RenewInterval
                   \/ Aged(s).beat + RenewInterval > SessionTTL
<1> SUFFICES ASSUME s.conn \notin displaced
             PROVE  /\ Aged(s).renew < RenewInterval =>
                          (location'.conn = s.conn /\ location'.age <= Aged(s).renew)
                             \/ Aged(s).renew >= SessionTTL
                    /\ \/ location'.conn = s.conn /\ location'.age < Aged(s).beat + RenewInterval
                       \/ Aged(s).beat + RenewInterval > SessionTTL
  BY Zenon DEF Tick
<1>1. PICK b \in Nat, r \in Nat, a \in Nat :
          b = s.beat /\ r = s.renew /\ a = location.age
  BY Zenon DEF TypeOK, Sessions
<1>2. PICK bb \in Nat, rr \in Nat : bb = Aged(s).beat /\ rr = Aged(s).renew
  BY AgedType, Zenon DEF Sessions
<1>3. /\ bb = IF b + 1 < SessionTTL + 1 THEN b + 1 ELSE SessionTTL + 1
      /\ rr = IF r + 1 < RenewInterval THEN r + 1 ELSE RenewInterval
  BY <1>1, <1>2, AgedType, Zenon DEF UpTo
<1>4. SessionTTL \in Nat \ {0} /\ RenewInterval \in Nat \ {0}
  BY ConnectionsAssumption, Zenon
<1>5. /\ r < RenewInterval => (location.conn = s.conn /\ a <= r) \/ r >= SessionTTL
      /\ \/ location.conn = s.conn /\ a < b + RenewInterval
         \/ b + RenewInterval > SessionTTL
  BY <1>1, Zenon DEF Covered
<1>6. location.conn = s.conn /\ a + 1 < SessionTTL =>
          location'.conn = s.conn /\ location'.age = a + 1
  BY <1>1, <1>4 DEF Tick, TypeOK
<1>7. rr < RenewInterval =>
          (location'.conn = s.conn /\ location'.age <= rr) \/ rr >= SessionTTL
  BY <1>3, <1>4, <1>5, <1>6
<1>8. \/ location'.conn = s.conn /\ location'.age < bb + RenewInterval
      \/ bb + RenewInterval > SessionTTL
  BY <1>3, <1>4, <1>5, <1>6
<1> QED BY <1>2, <1>7, <1>8, Zenon

LEMMA TickStep ==
    ASSUME Inv, Tick
    PROVE  Inv'
<1>0. /\ TypeOK /\ Shape /\ AllCovered
      /\ UNCHANGED <<index, open, overtaken, displaced, pc, gate, leaving, up>>
  BY InvIs, Zenon DEF Tick
<1>1. /\ \A g \in Gateways : session'[g] = Aged(session[g]) /\ session[g] \in Sessions
      /\ \A c \in Conns : copy'[c] = Aged(copy[c]) /\ copy[c] \in Sessions
  BY <1>0, Zenon DEF Tick, TypeOK
<1>2. /\ \A g \in Gateways : session'[g] \in Sessions /\ session'[g].conn = session[g].conn
      /\ \A c \in Conns : copy'[c] \in Sessions /\ copy'[c].conn = copy[c].conn
  BY <1>1, AgedType, Zenon
<1>3. TypeOK'
  <2>1. session' \in [Gateways -> Sessions] /\ copy' \in [Conns -> Sessions]
    BY <1>1, <1>2, Zenon DEF Tick
  <2>2. location' \in [conn : Conns \union {NoConn}, age : Nat]
    BY <1>0 DEF Tick, TypeOK, NoRecord
  <2> QED BY <1>0, <2>1, <2>2, Zenon DEF TypeOK
<1>4. Bound' = Bound /\ (\A c \in Conns : Copying(c)' = Copying(c) /\ Storing(c)' = Storing(c))
  BY <1>0, Zenon DEF Bound, Copying, Storing
<1>5. SessionsAreBound' /\ CopiesAreBound' /\ NewIsOpen'
  BY <1>0, <1>2, <1>4, Zenon DEF Shape, SessionsAreBound, CopiesAreBound, NewIsOpen
<1>6. IndexMatchesSession' /\ NoConnectionLeaked'
  BY <1>0, <1>2, <1>4, Zenon DEF Shape, IndexMatchesSession, NoConnectionLeaked, TypeOK, Bound
<1>7. ClosedOnlyIfOvertaken' /\ CopiesClosedIfOvertaken'
  BY <1>0, <1>2, Zenon DEF Shape, ClosedOnlyIfOvertaken, CopiesClosedIfOvertaken
<1>8. AllCovered'
  <2>1. ASSUME NEW s \in Sessions, s.conn # NoConn, Covered(s), NEW t, t = Aged(s)
        PROVE  t.conn \notin displaced' =>
                  /\ t.renew < RenewInterval =>
                        (location'.conn = t.conn /\ location'.age <= t.renew)
                           \/ t.renew >= SessionTTL
                  /\ \/ location'.conn = t.conn /\ location'.age < t.beat + RenewInterval
                     \/ t.beat + RenewInterval > SessionTTL
    BY <1>0, <2>1, AgedType, CoverAged, Zenon
  <2>2. \A g \in Gateways : session'[g].conn # NoConn => Covered(session[g])'
    <3> SUFFICES ASSUME NEW g \in Gateways, session'[g].conn # NoConn
                 PROVE  Covered(session[g])'
      OBVIOUS
    <3>1. Covered(session[g]) /\ session[g].conn # NoConn
      BY <1>0, <1>2, Zenon DEF AllCovered
    <3> QED BY <1>1, <2>1, <3>1, Zenon DEF Covered
  <2>3. \A c \in Conns : Storing(c)' => Covered(copy[c])'
    <3> SUFFICES ASSUME NEW c \in Conns, Storing(c)
                 PROVE  Covered(copy[c])'
      BY <1>4, Zenon
    <3>1. Covered(copy[c]) /\ copy[c].conn # NoConn
      BY <1>0, Zenon DEF AllCovered, Shape, CopiesAreBound, Storing, Copying
    <3> QED BY <1>1, <2>1, <3>1, Zenon DEF Covered
  <2> QED BY <2>2, <2>3, Zenon DEF AllCovered
<1> QED BY <1>3, <1>5, <1>6, <1>7, <1>8, Zenon DEF Inv

-----------------------------------------------------------------------------
(* The theorems.                                                           *)

LEMMA InitInv == Init => Inv
<1> SUFFICES ASSUME Init PROVE Inv
  OBVIOUS
<1>1. TypeOK
  BY InitType, Zenon
<1>2. /\ \A g \in Gateways : session[g].conn = NoConn /\ index[g] = {}
      /\ \A c \in Conns : pc[c] = "new" /\ copy[c].conn = NoConn /\ c \in open
      /\ Bound = {}
  BY NoSessionType, Zenon DEF Init, Bound
<1>3. SessionsAreBound /\ CopiesAreBound /\ NewIsOpen
  BY <1>2, Zenon DEF SessionsAreBound, CopiesAreBound, NewIsOpen, Copying
<1>4. IndexMatchesSession /\ NoConnectionLeaked
  BY <1>2, Zenon DEF IndexMatchesSession, NoConnectionLeaked
<1>5. ClosedOnlyIfOvertaken /\ CopiesClosedIfOvertaken
  BY <1>2, Zenon DEF ClosedOnlyIfOvertaken, CopiesClosedIfOvertaken
<1>6. AllCovered
  BY <1>2, Zenon DEF AllCovered, Storing
<1> QED BY <1>1, <1>3, <1>4, <1>5, <1>6, Zenon DEF Inv

LEMMA StepInv == Inv /\ [Next]_vars => Inv'
<1> SUFFICES ASSUME Inv, [Next]_vars PROVE Inv'
  OBVIOUS
<1>0. TypeOK /\ Shape /\ Used \subseteq Gateways
  BY InvIs DEF Used, TypeOK
<1>1. ASSUME NEW c \in Conns, Bind(c) PROVE Inv'
  BY <1>1, BindStep, Zenon
<1>2. ASSUME NEW c \in Conns, Heartbeat(c) PROVE Inv'
  BY <1>2, HeartbeatStep, Zenon
<1>3. ASSUME NEW c \in Conns, Renew(c) PROVE Inv'
  BY <1>3, RenewStep, Zenon
<1>4. ASSUME NEW c \in Conns, PoolSet(c) PROVE Inv'
  BY <1>4, PoolSetStep, Zenon
<1>5. ASSUME NEW g \in Gateways, Disconnect(g) PROVE Inv'
  BY <1>0, <1>5, DeleteStep, Zenon DEF Disconnect, TypeOK
<1>6. ASSUME NEW g \in Gateways, DisconnectStore(g) PROVE Inv'
  <2>1. /\ UNCHANGED <<pool, calls>> /\ (UNCHANGED redis \/ DeleteGateConn)
        /\ leaving' \subseteq Gateways /\ up' \subseteq Gateways
    BY <1>0, <1>6, Zenon DEF DisconnectStore, TypeOK
  <2> QED BY <2>1, QuietStep, Zenon
<1>7. ASSUME NEW g \in Gateways, SweepExpired(g) PROVE Inv'
  BY <1>0, <1>7, DeleteStep, Zenon DEF SweepExpired, TypeOK
<1>8. ASSUME NEW g \in Gateways, Stop(g) PROVE Inv'
  <2>1. /\ UNCHANGED <<pool, calls>> /\ UNCHANGED redis
        /\ leaving' \subseteq Gateways /\ up' \subseteq Gateways
    BY <1>0, <1>8, Zenon DEF Stop, TypeOK
  <2> QED BY <2>1, QuietStep, Zenon
<1>9. ASSUME NEW g \in Gateways, CloseAll(g) PROVE Inv'
  <2>1. /\ Delete(g) /\ UNCHANGED <<redis, calls>>
        /\ leaving' \subseteq Gateways /\ up' \subseteq Gateways
    BY <1>0, <1>9, CloseAllDeletes, Zenon DEF CloseAll, TypeOK
  <2> QED BY <2>1, DeleteStep, Zenon
<1>10. ASSUME NEW g \in Gateways, Crash(g) PROVE Inv'
  BY <1>10, CrashStep, Zenon
<1>11. CASE Tick
  BY <1>11, TickStep, Zenon
<1>12. CASE UNCHANGED vars
  <2>1. /\ UNCHANGED <<pool, calls>> /\ UNCHANGED redis
        /\ leaving' \subseteq Gateways /\ up' \subseteq Gateways
    BY <1>0, <1>12, Zenon DEF vars, TypeOK
  <2> QED BY <2>1, QuietStep, Zenon
<1> QED BY <1>0, <1>1, <1>2, <1>3, <1>4, <1>5, <1>6, <1>7, <1>8, <1>9, <1>10, <1>11, <1>12, Zenon
        DEF Next

LEMMA Invariance == Spec => []Inv
BY InitInv, StepInv, PTL DEF Spec

\* Pools, record, calls and histories keep their types.
THEOREM TypeCorrect == Spec => []TypeOK
<1>1. Inv => TypeOK
  BY Zenon DEF Inv
<1> QED BY <1>1, Invariance, PTL

\* connIndex is exact in every gateway, whatever Bind, Heartbeat, Disconnect,
\* SweepExpired, CloseAll and crashes interleave.
THEOREM IndexIsExact == Spec => []IndexMatchesSession
<1>1. Inv => IndexMatchesSession
  BY Zenon DEF Inv
<1> QED BY <1>1, Invariance, PTL

\* No bound connection stays open without being the one its pool holds: the
\* pool closes every connection it drops.
THEOREM NoLeak == Spec => []NoConnectionLeaked
<1>1. Inv => NoConnectionLeaked
  BY Zenon DEF Inv
<1> QED BY <1>1, Invariance, PTL

\* A pool holds a closed connection only after a Heartbeat or Bind has written
\* back a copy that it read before the connection was dropped.
THEOREM ClosedOvertaken == Spec => []ClosedOnlyIfOvertaken
<1>1. Inv => ClosedOnlyIfOvertaken
  BY Zenon DEF Inv
<1> QED BY <1>1, Invariance, PTL

\* Renewing DBGateConn every renewInterval is enough for any interval and TTL:
\* the record outlives the last heartbeat by sessionTTL - renewInterval, unless
\* another operation has taken it.
THEOREM LocationHeld == Spec => []HeartbeatsHoldLocation
<1>1. Inv => HeartbeatsHoldLocation
  <2> SUFFICES ASSUME Inv, NEW g \in Gateways, session[g].conn # NoConn,
                      session[g].beat + RenewInterval <= SessionTTL,
                      session[g].conn \notin displaced
               PROVE  location.conn = session[g].conn
    BY Zenon DEF HeartbeatsHoldLocation
  <2>1. Covered(session[g]) /\ session[g].beat \in Nat
    BY Zenon DEF Inv, AllCovered, TypeOK, Sessions
  <2> QED BY <2>1, ConnectionsAssumption DEF Covered
<1> QED BY <1>1, Invariance, PTL
=============================================================================
