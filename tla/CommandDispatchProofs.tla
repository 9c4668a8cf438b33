----------------------- MODULE CommandDispatchProofs -----------------------
(***************************************************************************)
(* Proofs about CommandDispatch for any calls, keys, payloads and          *)
(* processes.                                                              *)
(***************************************************************************)
EXTENDS CommandDispatch, TLAPS

Steps == {"idle", "local", "store", "adopt", "execute", "remember", "save", "done"}

\* A call that is not idle is served by one process.
Hosted ==
    \A c \in Calls : /\ pc[c] = "idle" => host[c] = {}
                     /\ pc[c] # "idle" => \E i \in Instances : host[c] = {i}

\* r is the response of a handler that ran for the key and the payload.
Own(key, hash, r) == r \in executed /\ Key[r] = key /\ Hash[r] = hash

\* Records and calls hold the response of a handler of their key and payload.
OwnResponses ==
    /\ \A r \in records : Own(r.key, r.hash, r.resp)
    /\ \A r \in store : Own(r.key, r.hash, r.resp)
    /\ \A c \in Calls : pc[c] \in {"adopt", "remember", "save"} \/ reply[c] = "ok" =>
          Own(Key[c], Hash[c], resp[c])

Keyed == \A c \in Calls :
    pc[c] \in {"local", "store", "adopt", "remember", "save"} => Key[c] # ""

\* Keys that are used one call at a time.
Single(c) == Key[c] # "" /\ Key[c] \notin overlapped

OneInProgress ==
    \A c, d \in Calls : InProgress(c) /\ InProgress(d) /\ Key[c] = Key[d] /\ Single(c) => c = d

RecordKey == \A r, s \in records : r.at = s.at /\ r.key = s.key => r = s

\* The process had no record, and nobody has given it one since.
NoRecord ==
    \A c \in Calls : pc[c] \in {"store", "adopt", "execute", "remember"} /\ Single(c) =>
        \A r \in records : r.at \in host[c] => r.key # Key[c]

\* Redis had no record, and nobody has given it one since.
NoStored ==
    \A c \in Calls : pc[c] = "execute" /\ Single(c) =>
        Key[c] \in dropped \/ \A r \in store : r.key # Key[c]

\* What has been executed is on its way to the records or there.
Kept ==
    \A c \in executed : Single(c) =>
        /\ pc[c] \in {"remember", "save", "done"}
        /\ \/ Key[c] \in dropped \/ pc[c] \in {"remember", "save"}
           \/ \E r \in store : r.key = Key[c]
        /\ \/ host[c] \intersect crashed # {} \/ pc[c] = "remember"
           \/ \E r \in records : r.at \in host[c] /\ r.key = Key[c]

\* The inductive invariant.
Inv ==
    /\ TypeOK /\ Hosted /\ Keyed /\ OwnResponses
    /\ OneInProgress /\ RecordKey /\ NoRecord /\ NoStored /\ Kept /\ ExecutedOnce

-----------------------------------------------------------------------------
(* Types, and what a step of a call leaves alone.                          *)

RecordType == [at : Instances, key : {Key[c] : c \in Calls} \ {""},
               hash : {Hash[c] : c \in Calls}, resp : Calls]
StoreType == [key : {Key[c] : c \in Calls} \ {""},
              hash : {Hash[c] : c \in Calls}, resp : Calls]
Replies == {"none", "ok", "conflict", "error"}

\* Types of the calls.
CallsOK ==
    /\ pc \in [Calls -> Steps] /\ host \in [Calls -> SUBSET Instances]
    /\ resp \in [Calls -> Calls \union {0}] /\ reply \in [Calls -> Replies]

LEMMA GotoIs ==
    ASSUME CallsOK, NEW c \in Calls, NEW s \in Steps, Goto(c, s)
    PROVE  /\ pc' \in [Calls -> Steps] /\ UNCHANGED reply /\ pc'[c] = s
           /\ \A d \in Calls \ {c} : pc'[d] = pc[d]
BY Zenon DEF CallsOK, Goto

LEMMA ReturnIs ==
    ASSUME CallsOK, NEW c \in Calls, NEW r \in Replies, Return(c, r)
    PROVE  /\ pc' \in [Calls -> Steps] /\ reply' \in [Calls -> Replies]
           /\ pc'[c] = "done" /\ reply'[c] = r
           /\ \A d \in Calls \ {c} : pc'[d] = pc[d] /\ reply'[d] = reply[d]
BY Zenon DEF CallsOK, Return, Steps

LEMMA GotIs ==
    ASSUME CallsOK, NEW c \in Calls, NEW r \in Calls, Got(c, r)
    PROVE  /\ resp' \in [Calls -> Calls \union {0}] /\ resp'[c] = r
           /\ \A d \in Calls \ {c} : resp'[d] = resp[d]
BY Zenon DEF CallsOK, Got

LEMMA Types == TypeOK => CallsOK /\ records \subseteq RecordType /\ store \subseteq StoreType
BY Zenon DEF TypeOK, CallsOK, Steps, Replies, RecordType, StoreType

\* What a step of call c, the one the process i serves, leaves alone.
Frame(c) ==
    /\ \A d \in Calls \ {c} : /\ pc'[d] = pc[d] /\ reply'[d] = reply[d]
                              /\ resp'[d] = resp[d] /\ host'[d] = host[d]
    /\ CallsOK'

\* The effect of each action, by its branches.
LEMMA BeginIs ==
    ASSUME TypeOK, NEW c \in Calls, NEW i \in Instances, Begin(c, i)
    PROVE  /\ Frame(c) /\ pc[c] = "idle" /\ host'[c] = {i}
           /\ pc'[c] = IF Key[c] = "" THEN "execute" ELSE "local"
           /\ UNCHANGED <<records, store, executed, resp, reply, dropped, crashed>>
           /\ overlapped' = IF Overlaps(c) THEN overlapped \union {Key[c]} ELSE overlapped
<1>1. Goto(c, IF Key[c] = "" THEN "execute" ELSE "local")
      /\ host' = [host EXCEPT ![c] = {i}]
  BY Zenon DEF Begin
<1>2. (IF Key[c] = "" THEN "execute" ELSE "local") \in Steps
  BY Zenon DEF Steps
<1>3. host' \in [Calls -> SUBSET Instances] /\ host'[c] = {i}
      /\ \A d \in Calls \ {c} : host'[d] = host[d]
  BY <1>1, Types, Zenon DEF CallsOK
<1>4. UNCHANGED <<records, store, executed, resp, dropped, crashed>> /\ pc[c] = "idle"
      /\ overlapped' = IF Overlaps(c) THEN overlapped \union {Key[c]} ELSE overlapped
  BY Zenon DEF Begin, NoteOverlap
<1>5. /\ pc' \in [Calls -> Steps] /\ UNCHANGED reply
      /\ pc'[c] = IF Key[c] = "" THEN "execute" ELSE "local"
      /\ \A d \in Calls \ {c} : pc'[d] = pc[d]
  BY <1>1, <1>2, Types, GotoIs, Zenon
<1> QED BY <1>3, <1>4, <1>5, Types, Zenon DEF Frame, CallsOK

\* A lookup: of the process's records or of Redis.
Found(c, r) == r.key = Key[c] /\ r.hash = Hash[c] /\ resp'[c] = r.resp

LEMMA LookupIs ==
    ASSUME TypeOK, NEW c \in Calls, NEW i \in Instances, LookupLocal(c, i)
    PROVE  /\ Frame(c) /\ pc[c] = "local" /\ i \in host[c] /\ host'[c] = host[c]
           /\ UNCHANGED <<records, store, executed, history>>
           /\ \/ /\ pc'[c] = "done" /\ reply'[c] = "ok"
                 /\ \E r \in records : Found(c, r)
              \/ pc'[c] = "done" /\ reply'[c] = "conflict"
              \/ /\ pc'[c] = "store" /\ reply'[c] = reply[c] /\ resp'[c] = resp[c]
                 /\ \A r \in records : r.at = i => r.key # Key[c]
<1>1. /\ pc[c] = "local" /\ i \in host[c]
      /\ UNCHANGED <<records, store, executed, host, history>>
  BY Zenon DEF LookupLocal
<1>2. CallsOK /\ records \subseteq RecordType
  BY Types, Zenon
<1>3. ASSUME NEW r \in records, r.key = Key[c], r.hash = Hash[c], Got(c, r.resp), Return(c, "ok")
      PROVE  Frame(c) /\ pc'[c] = "done" /\ reply'[c] = "ok" /\ Found(c, r)
  <2>1. r.resp \in Calls
    BY <1>2, Zenon DEF RecordType
  <2>2. "ok" \in Replies
    BY Zenon DEF Replies
  <2> QED BY <1>1, <1>2, <1>3, <2>1, <2>2, GotIs, ReturnIs DEF Frame, CallsOK, Found
<1>4. ASSUME Return(c, "conflict"), UNCHANGED resp
      PROVE  Frame(c) /\ pc'[c] = "done" /\ reply'[c] = "conflict"
  <2>1. "conflict" \in Replies
    BY Zenon DEF Replies
  <2> QED BY <1>1, <1>2, <1>4, <2>1, ReturnIs, Zenon DEF Frame, CallsOK
<1>5. ASSUME Goto(c, "store"), UNCHANGED resp
      PROVE  Frame(c) /\ pc'[c] = "store" /\ reply'[c] = reply[c] /\ resp'[c] = resp[c]
  <2>1. "store" \in Steps
    BY Zenon DEF Steps
  <2> QED BY <1>1, <1>2, <1>5, <2>1, GotoIs, Zenon DEF Frame, CallsOK
<1> QED BY <1>1, <1>3, <1>4, <1>5, Zenon DEF LookupLocal, Replay

LEMMA GetIs ==
    ASSUME TypeOK, NEW c \in Calls, GetCommandIdempotency(c)
    PROVE  /\ Frame(c) /\ pc[c] = "store" /\ host'[c] = host[c]
           /\ UNCHANGED <<records, store, executed, history>>
           /\ \/ /\ pc'[c] = "adopt" /\ reply'[c] = reply[c]
                 /\ \E r \in store : Found(c, r)
              \/ pc'[c] = "done" /\ reply'[c] \in {"conflict", "error"}
              \/ /\ pc'[c] = "execute" /\ reply'[c] = reply[c] /\ resp'[c] = resp[c]
                 /\ \A r \in store : r.key # Key[c]
<1>1. /\ pc[c] = "store" /\ UNCHANGED <<records, store, executed, host, history>>
  BY Zenon DEF GetCommandIdempotency
<1>2. CallsOK /\ store \subseteq StoreType
  BY Types, Zenon
<1>3. ASSUME NEW r \in store, r.key = Key[c], r.hash = Hash[c], Got(c, r.resp), Goto(c, "adopt")
      PROVE  Frame(c) /\ pc'[c] = "adopt" /\ reply'[c] = reply[c] /\ Found(c, r)
  <2>1. r.resp \in Calls
    BY <1>2, Zenon DEF StoreType
  <2>2. "adopt" \in Steps
    BY Zenon DEF Steps
  <2> QED BY <1>1, <1>2, <1>3, <2>1, <2>2, GotIs, GotoIs DEF Frame, CallsOK, Found
<1>4. ASSUME NEW r \in {"conflict", "error"}, Return(c, r), UNCHANGED resp
      PROVE  Frame(c) /\ pc'[c] = "done" /\ reply'[c] \in {"conflict", "error"}
  <2>1. r \in Replies
    BY Zenon DEF Replies
  <2> QED BY <1>1, <1>2, <1>4, <2>1, ReturnIs, Zenon DEF Frame, CallsOK
<1>5. ASSUME Goto(c, "execute"), UNCHANGED resp
      PROVE  Frame(c) /\ pc'[c] = "execute" /\ reply'[c] = reply[c] /\ resp'[c] = resp[c]
  <2>1. "execute" \in Steps
    BY Zenon DEF Steps
  <2> QED BY <1>1, <1>2, <1>5, <2>1, GotoIs, Zenon DEF Frame, CallsOK
<1> QED BY <1>1, <1>3, <1>4, <1>5, Zenon DEF GetCommandIdempotency

LEMMA ExecuteIs ==
    ASSUME TypeOK, NEW c \in Calls, Execute(c)
    PROVE  /\ Frame(c) /\ pc[c] = "execute" /\ host'[c] = host[c]
           /\ UNCHANGED <<records, store, history>>
           /\ \/ /\ executed' = executed \union {c} /\ resp'[c] = c
                 /\ \/ Key[c] = "" /\ pc'[c] = "done" /\ reply'[c] = "ok"
                    \/ Key[c] # "" /\ pc'[c] = "remember" /\ reply'[c] = reply[c]
              \/ executed' = executed /\ pc'[c] = "done" /\ reply'[c] = "error"
<1>1. pc[c] = "execute" /\ UNCHANGED <<records, store, host, history>>
  BY Zenon DEF Execute
<1>2. CallsOK /\ {"ok", "error"} \subseteq Replies /\ "remember" \in Steps
  BY Types, Zenon DEF Steps, Replies
<1>3. CASE Got(c, c) /\ Key[c] = "" /\ Return(c, "ok") /\ executed' = executed \union {c}
  <2>1. /\ resp' \in [Calls -> Calls \union {0}] /\ resp'[c] = c
        /\ \A d \in Calls \ {c} : resp'[d] = resp[d]
    BY <1>2, <1>3, GotIs, Zenon
  <2>2. /\ pc' \in [Calls -> Steps] /\ reply' \in [Calls -> Replies]
        /\ pc'[c] = "done" /\ reply'[c] = "ok"
        /\ \A d \in Calls \ {c} : pc'[d] = pc[d] /\ reply'[d] = reply[d]
    BY <1>2, <1>3, ReturnIs, Zenon
  <2>3. Frame(c)
    BY <1>1, <1>2, <2>1, <2>2, Zenon DEF Frame, CallsOK
  <2> QED BY <1>1, <1>3, <2>1, <2>2, <2>3, Zenon
<1>4. CASE Got(c, c) /\ Key[c] # "" /\ Goto(c, "remember") /\ executed' = executed \union {c}
  BY <1>1, <1>2, <1>4, GotIs, GotoIs, Zenon DEF Frame, CallsOK
<1>5. CASE Return(c, "error") /\ UNCHANGED <<executed, resp>>
  BY <1>1, <1>2, <1>5, ReturnIs, Zenon DEF Frame, CallsOK
<1> QED BY <1>3, <1>4, <1>5, Zenon DEF Execute

LEMMA RememberIs ==
    ASSUME TypeOK, NEW c \in Calls, NEW i \in Instances, remember(c, i)
    PROVE  /\ Frame(c) /\ i \in host[c] /\ host'[c] = host[c] /\ resp'[c] = resp[c]
           /\ UNCHANGED <<store, executed, history>> /\ Put(c, i)
           /\ \/ pc[c] = "adopt" /\ pc'[c] = "done" /\ reply'[c] = "ok"
              \/ pc[c] = "remember" /\ pc'[c] = "save" /\ reply'[c] = reply[c]
<1>1. i \in host[c] /\ Put(c, i) /\ UNCHANGED <<store, executed, host, resp, history>>
  BY Zenon DEF remember
<1>2. CallsOK /\ "ok" \in Replies /\ "save" \in Steps
  BY Types, Zenon DEF Steps, Replies
<1>3. CASE pc[c] = "adopt" /\ Return(c, "ok")
  BY <1>1, <1>2, <1>3, ReturnIs, Zenon DEF Frame, CallsOK
<1>4. CASE pc[c] = "remember" /\ Goto(c, "save")
  BY <1>1, <1>2, <1>4, GotoIs, Zenon DEF Frame, CallsOK
<1> QED BY <1>3, <1>4, Zenon DEF remember

LEMMA SaveIs ==
    ASSUME TypeOK, NEW c \in Calls, SaveCommandIdempotency(c)
    PROVE  /\ Frame(c) /\ pc[c] = "save" /\ pc'[c] = "done"
           /\ host'[c] = host[c] /\ resp'[c] = resp[c]
           /\ reply'[c] \in {"ok", "error"}
           /\ UNCHANGED <<records, executed, overlapped, crashed>>
           /\ \/ StorePut(c) /\ UNCHANGED dropped
              \/ UNCHANGED store /\ dropped' = dropped \union {Key[c]}
<1>1. /\ pc[c] = "save" /\ UNCHANGED <<records, executed, host, resp, overlapped, crashed>>
      /\ \/ StorePut(c) /\ UNCHANGED dropped
         \/ UNCHANGED store /\ dropped' = dropped \union {Key[c]}
      /\ Return(c, "ok") \/ Return(c, "error")
  BY Zenon DEF SaveCommandIdempotency
<1>2. CallsOK /\ {"ok", "error"} \subseteq Replies
  BY Types, Zenon DEF Replies
<1>3. CASE Return(c, "ok")
  BY <1>1, <1>2, <1>3, ReturnIs, Zenon DEF Frame, CallsOK
<1>4. CASE Return(c, "error")
  BY <1>1, <1>2, <1>4, ReturnIs, Zenon DEF Frame, CallsOK
<1> QED BY <1>1, <1>3, <1>4, Zenon

LEMMA CrashIs ==
    ASSUME TypeOK, NEW i \in Instances, Crash(i)
    PROVE  /\ CallsOK' /\ UNCHANGED <<store, executed, host, resp, overlapped>>
           /\ \A c \in Calls : i \notin host[c] => pc'[c] = pc[c] /\ reply'[c] = reply[c]
           /\ \A c \in Calls : i \in host[c] => pc'[c] = "done"
           /\ \A c \in Calls : reply'[c] = "ok" => reply[c] = "ok"
           /\ crashed' = crashed \union {i} /\ records' = {r \in records : r.at # i}
           /\ dropped' = dropped \union {Key[c] : c \in Unsaved(i)}
<1>1. CallsOK
  BY Types, Zenon
<1>2. /\ crashed' = crashed \union {i} /\ records' = {r \in records : r.at # i}
      /\ dropped' = dropped \union {Key[c] : c \in Unsaved(i)}
      /\ pc' = [c \in Calls |-> IF i \in host[c] THEN "done" ELSE pc[c]]
      /\ reply' = [c \in Calls |->
                   IF i \in host[c] /\ pc[c] # "done" THEN "error" ELSE reply[c]]
      /\ UNCHANGED <<store, executed, host, resp, overlapped>>
  BY Zenon DEF Crash
<1>3. pc' \in [Calls -> Steps] /\ reply' \in [Calls -> Replies]
  BY <1>1, <1>2, Zenon DEF CallsOK, Steps, Replies
<1>4. CallsOK'
  BY <1>1, <1>2, <1>3, Zenon DEF CallsOK
<1> QED BY <1>2, <1>4, Zenon

\* What the records and Redis get.
LEMMA PutIs ==
    ASSUME TypeOK, Keyed, OwnResponses, NEW c \in Calls, NEW i \in Instances, Put(c, i),
           pc[c] \in {"adopt", "remember"}
    PROVE  \E new \in RecordType :
              /\ new.at = i /\ new.key = Key[c] /\ new.hash = Hash[c] /\ new.resp = resp[c]
              /\ records' = {r \in records : r.at # i \/ r.key # Key[c]} \union {new}
<1> DEFINE new == [at |-> i, key |-> Key[c], hash |-> Hash[c], resp |-> resp[c]]
<1>1. resp[c] \in Calls /\ Key[c] # ""
  BY Zenon DEF OwnResponses, Own, Keyed, TypeOK
<1>2. new \in RecordType
  BY <1>1, Zenon DEF RecordType
<1>3. records' = {r \in records : r.at # i \/ r.key # Key[c]} \union {new}
  BY Zenon DEF Put
<1> QED BY <1>2, <1>3, Zenon

LEMMA StorePutIs ==
    ASSUME TypeOK, Keyed, OwnResponses, NEW c \in Calls, StorePut(c), pc[c] = "save"
    PROVE  \E new \in StoreType :
              /\ new.key = Key[c] /\ new.hash = Hash[c] /\ new.resp = resp[c]
              /\ store' = {r \in store : r.key # Key[c]} \union {new}
<1> DEFINE new == [key |-> Key[c], hash |-> Hash[c], resp |-> resp[c]]
<1>1. resp[c] \in Calls /\ Key[c] # ""
  BY Zenon DEF OwnResponses, Own, Keyed, TypeOK
<1>2. new \in StoreType
  BY <1>1, Zenon DEF StoreType
<1>3. store' = {r \in store : r.key # Key[c]} \union {new}
  BY Zenon DEF StorePut
<1> QED BY <1>2, <1>3, Zenon

-----------------------------------------------------------------------------
(* Types.                                                                  *)

\* Types of what is not the calls'.
RecordsOK ==
    /\ records \subseteq RecordType /\ store \subseteq StoreType /\ executed \subseteq Calls
    /\ overlapped \subseteq {Key[c] : c \in Calls} /\ dropped \subseteq {Key[c] : c \in Calls}
    /\ crashed \subseteq Instances

LEMMA TypeIs == TypeOK <=> CallsOK /\ RecordsOK
BY Zenon DEF TypeOK, CallsOK, RecordsOK, Steps, Replies, RecordType, StoreType

LEMMA TypeIsNext == TypeOK' <=> CallsOK' /\ RecordsOK'
BY Zenon DEF TypeOK, CallsOK, RecordsOK, Steps, Replies, RecordType, StoreType

LEMMA TypeStep ==
    ASSUME TypeOK, Keyed, OwnResponses, [Next]_vars PROVE TypeOK'
<1>0. CallsOK /\ RecordsOK
  BY TypeIs, Zenon
<1>1. ASSUME NEW c \in Calls, NEW i \in Instances, Begin(c, i) PROVE TypeOK'
  <2>1. overlapped' \subseteq {Key[d] : d \in Calls}
    <3>1. overlapped' \subseteq overlapped \union {Key[c]}
      BY <1>1, BeginIs, Zenon
    <3>2. Key[c] \in {Key[d] : d \in Calls}
      OBVIOUS
    <3> QED BY <1>0, <3>1, <3>2, Zenon DEF RecordsOK
  <2>2. UNCHANGED <<records, store, executed, dropped, crashed>>
    BY <1>1, BeginIs, Zenon
  <2>3. RecordsOK'
    BY <1>0, <2>1, <2>2, Zenon DEF RecordsOK
  <2> QED BY <1>1, <2>3, BeginIs, TypeIsNext, Zenon DEF Frame
<1>2. ASSUME NEW c \in Calls, NEW i \in Instances, LookupLocal(c, i) PROVE TypeOK'
  <2>1. RecordsOK'
    BY <1>0, <1>2, LookupIs, Zenon DEF RecordsOK, history
  <2> QED BY <1>2, <2>1, LookupIs, TypeIsNext, Zenon DEF Frame
<1>3. ASSUME NEW c \in Calls, NEW i \in Instances, remember(c, i) PROVE TypeOK'
  <2>1. PICK new \in RecordType :
           records' = {r \in records : r.at # i \/ r.key # Key[c]} \union {new}
    BY <1>3, RememberIs, PutIs, Zenon
  <2>2. records' \subseteq RecordType
    BY <1>0, <2>1, Zenon DEF RecordsOK
  <2>3. RecordsOK'
    BY <1>0, <1>3, <2>2, RememberIs, Zenon DEF RecordsOK, history
  <2> QED BY <1>3, <2>3, RememberIs, TypeIsNext, Zenon DEF Frame
<1>4. ASSUME NEW c \in Calls, GetCommandIdempotency(c) PROVE TypeOK'
  <2>1. RecordsOK'
    BY <1>0, <1>4, GetIs, Zenon DEF RecordsOK, history
  <2> QED BY <1>4, <2>1, GetIs, TypeIsNext, Zenon DEF Frame
<1>5. ASSUME NEW c \in Calls, Execute(c) PROVE TypeOK'
  <2>1. RecordsOK'
    BY <1>0, <1>5, ExecuteIs DEF RecordsOK, history
  <2> QED BY <1>5, <2>1, ExecuteIs, TypeIsNext, Zenon DEF Frame
<1>6. ASSUME NEW c \in Calls, SaveCommandIdempotency(c) PROVE TypeOK'
  <2>1. store' \subseteq StoreType
    <3>1. CASE StorePut(c)
      <4>1. PICK new \in StoreType : store' = {r \in store : r.key # Key[c]} \union {new}
        BY <1>6, <3>1, SaveIs, StorePutIs, Zenon
      <4> QED BY <1>0, <4>1, Zenon DEF RecordsOK
    <3> QED BY <1>0, <1>6, <3>1, SaveIs, Zenon DEF RecordsOK
  <2>2. RecordsOK'
    BY <1>0, <1>6, <2>1, SaveIs, Zenon DEF RecordsOK
  <2> QED BY <1>6, <2>2, SaveIs, TypeIsNext, Zenon DEF Frame
<1>7. CASE Expire
  <2>1. PICK r \in store : store' = store \ {r} /\ dropped' = dropped \union {r.key}
    BY <1>7, Zenon DEF Expire
  <2>2. r.key \in {Key[c] : c \in Calls}
    BY <1>0, Zenon DEF RecordsOK, StoreType
  <2>3. UNCHANGED <<records, executed, pc, host, resp, reply, overlapped, crashed>>
    BY <1>7, Zenon DEF Expire
  <2>4. RecordsOK'
    BY <1>0, <2>1, <2>2, <2>3, Zenon DEF RecordsOK
  <2>5. CallsOK'
    BY <1>0, <2>3, Zenon DEF CallsOK
  <2> QED BY <2>4, <2>5, TypeIsNext, Zenon
<1>8. ASSUME NEW i \in Instances, Crash(i) PROVE TypeOK'
  <2>1. dropped' \subseteq {Key[c] : c \in Calls}
    BY <1>0, <1>8, CrashIs DEF RecordsOK, Unsaved
  <2>2. RecordsOK'
    BY <1>0, <1>8, <2>1, CrashIs, Zenon DEF RecordsOK
  <2> QED BY <1>8, <2>2, CrashIs, TypeIsNext, Zenon
<1>9. CASE UNCHANGED vars
  BY <1>9, Zenon DEF vars, history, TypeOK
<1> QED BY <1>1, <1>2, <1>3, <1>4, <1>5, <1>6, <1>7, <1>8, <1>9, Zenon DEF Next

-----------------------------------------------------------------------------
(* AnswerIsOwn.                                                            *)

LEMMA KeyedKept ==
    ASSUME Hosted, Keyed, NEW c \in Calls, Frame(c), pc'[c] # "idle",
           (pc[c] # "idle" /\ host'[c] = host[c]) \/ \E i \in Instances : host'[c] = {i},
           pc'[c] \in {"local", "store", "adopt", "remember", "save"} => Key[c] # ""
    PROVE  Hosted' /\ Keyed'
<1>1. \A d \in Calls \ {c} : pc'[d] = pc[d] /\ host'[d] = host[d]
  BY Zenon DEF Frame
<1>2. Hosted'
  BY <1>1, Zenon DEF Hosted
<1>3. Keyed'
  BY <1>1, Zenon DEF Keyed
<1> QED BY <1>2, <1>3, Zenon

LEMMA KeyedStep ==
    ASSUME TypeOK, Hosted, Keyed, [Next]_vars PROVE Hosted' /\ Keyed'
<1>1. ASSUME NEW c \in Calls, NEW i \in Instances, Begin(c, i) PROVE Hosted' /\ Keyed'
  <2>1. Frame(c) /\ host'[c] = {i} /\ pc'[c] = IF Key[c] = "" THEN "execute" ELSE "local"
    BY <1>1, BeginIs, Zenon
  <2> QED BY <2>1, KeyedKept, Zenon
<1>2. ASSUME NEW c \in Calls,
             \/ \E i \in Instances : LookupLocal(c, i) \/ remember(c, i)
             \/ GetCommandIdempotency(c) \/ SaveCommandIdempotency(c)
      PROVE  Hosted' /\ Keyed'
  <2>1. Frame(c) /\ host'[c] = host[c] /\ pc'[c] # "idle"
        /\ pc[c] \in {"local", "store", "adopt", "remember", "save"}
    <3>1. ASSUME NEW i \in Instances, LookupLocal(c, i)
          PROVE  Frame(c) /\ host'[c] = host[c] /\ pc[c] = "local" /\ pc'[c] # "idle"
      BY <3>1, LookupIs, Zenon
    <3>2. ASSUME NEW i \in Instances, remember(c, i)
          PROVE  /\ Frame(c) /\ host'[c] = host[c] /\ pc[c] \in {"adopt", "remember"}
                 /\ pc'[c] # "idle"
      BY <3>2, RememberIs, Zenon
    <3>3. CASE GetCommandIdempotency(c)
      BY <3>3, GetIs, Zenon
    <3>4. CASE SaveCommandIdempotency(c)
      BY <3>4, SaveIs, Zenon
    <3> QED BY <1>2, <3>1, <3>2, <3>3, <3>4, Zenon
  <2>2. Key[c] # ""
    BY <2>1, Zenon DEF Keyed
  <2> QED BY <2>1, <2>2, KeyedKept, Zenon
<1>3. ASSUME NEW c \in Calls, Execute(c) PROVE Hosted' /\ Keyed'
  <2>1. /\ Frame(c) /\ host'[c] = host[c] /\ pc[c] = "execute"
        /\ pc'[c] \in {"done", "remember"} /\ (pc'[c] = "remember" => Key[c] # "")
    BY <1>3, ExecuteIs, Zenon
  <2> QED BY <2>1, KeyedKept, Zenon
<1>4. CASE Expire \/ UNCHANGED vars
  <2>1. UNCHANGED <<pc, host>>
    BY <1>4, Zenon DEF Expire, vars
  <2> QED BY <2>1, Zenon DEF Hosted, Keyed
<1>5. ASSUME NEW i \in Instances, Crash(i) PROVE Hosted' /\ Keyed'
  <2>1. UNCHANGED host /\ \A c \in Calls : pc'[c] = pc[c] \/ (pc'[c] = "done" /\ i \in host[c])
    BY <1>5, CrashIs, Zenon
  <2>2. Keyed'
    BY <2>1, Zenon DEF Keyed
  <2> QED BY <2>1, <2>2, Zenon DEF Hosted
<1> QED BY <1>1, <1>2, <1>3, <1>4, <1>5, Zenon DEF Next

\* A step that writes no record has only to justify what its own call holds.
LEMMA OwnKept ==
    ASSUME OwnResponses, executed \subseteq executed',
           \A r \in records' : r \in records \/ Own(r.key, r.hash, r.resp),
           \A r \in store' : r \in store \/ Own(r.key, r.hash, r.resp),
           \A d \in Calls :
              pc'[d] \in {"adopt", "remember", "save"} \/ reply'[d] = "ok" =>
                 \/ /\ pc[d] \in {"adopt", "remember", "save"} \/ reply[d] = "ok"
                    /\ resp'[d] = resp[d]
                 \/ resp'[d] \in executed' /\ Key[resp'[d]] = Key[d] /\ Hash[resp'[d]] = Hash[d]
    PROVE  OwnResponses'
<1>1. \A k, h, r : Own(k, h, r) => Own(k, h, r)'
  BY Zenon DEF Own
<1>2. \A r \in records' \union store' : Own(r.key, r.hash, r.resp)
  BY Zenon DEF OwnResponses
<1>3. \A r \in records' \union store' : Own(r.key, r.hash, r.resp)'
  BY <1>1, <1>2, Zenon
<1>4. ASSUME NEW d \in Calls,
             pc'[d] \in {"adopt", "remember", "save"} \/ reply'[d] = "ok"
      PROVE  Own(Key[d], Hash[d], resp[d])'
  <2>1. CASE resp'[d] = resp[d] /\ (pc[d] \in {"adopt", "remember", "save"} \/ reply[d] = "ok")
    BY <1>1, <2>1 DEF OwnResponses, Own
  <2>2. CASE resp'[d] \in executed' /\ Key[resp'[d]] = Key[d] /\ Hash[resp'[d]] = Hash[d]
    BY <2>2, Zenon DEF Own
  <2> QED BY <1>4, <2>1, <2>2, Zenon
<1> QED BY <1>3, <1>4, Zenon DEF OwnResponses, Own

\* The same for a step of one call.
LEMMA OwnCall ==
    ASSUME OwnResponses, executed \subseteq executed', NEW c \in Calls, Frame(c),
           \A r \in records' : r \in records \/ Own(r.key, r.hash, r.resp),
           \A r \in store' : r \in store \/ Own(r.key, r.hash, r.resp),
           \/ /\ pc'[c] \notin {"adopt", "remember", "save"} \/ pc[c] \in {"adopt", "remember"}
              /\ reply'[c] # "ok" \/ reply[c] = "ok" \/ pc[c] \in {"adopt", "save"}
              /\ resp'[c] = resp[c]
           \/ pc'[c] \notin {"adopt", "remember", "save"} /\ reply'[c] # "ok"
           \/ resp'[c] \in executed' /\ Key[resp'[c]] = Key[c] /\ Hash[resp'[c]] = Hash[c]
    PROVE  OwnResponses'
<1>1. \A d \in Calls \ {c} : pc'[d] = pc[d] /\ reply'[d] = reply[d] /\ resp'[d] = resp[d]
  BY Zenon DEF Frame
<1>2. ASSUME NEW d \in Calls,
             pc'[d] \in {"adopt", "remember", "save"} \/ reply'[d] = "ok"
      PROVE  \/ /\ pc[d] \in {"adopt", "remember", "save"} \/ reply[d] = "ok"
                /\ resp'[d] = resp[d]
             \/ resp'[d] \in executed' /\ Key[resp'[d]] = Key[d] /\ Hash[resp'[d]] = Hash[d]
  <2>1. CASE d # c
    BY <1>1, <1>2, <2>1, Zenon
  <2>2. CASE d = c
    BY <1>2, <2>2, Zenon
  <2> QED BY <2>1, <2>2, Zenon
<1> QED BY <1>2, OwnKept, Zenon

LEMMA OwnStep ==
    ASSUME TypeOK, Keyed, OwnResponses, [Next]_vars PROVE OwnResponses'
<1>1. ASSUME NEW c \in Calls, NEW i \in Instances, Begin(c, i) PROVE OwnResponses'
  <2>1. /\ UNCHANGED <<records, store, executed, resp, reply>> /\ Frame(c)
        /\ pc'[c] \in {"execute", "local"}
    BY <1>1, BeginIs, Zenon
  <2> QED BY <2>1, OwnCall, Zenon
<1>2. ASSUME NEW c \in Calls, NEW i \in Instances, LookupLocal(c, i) PROVE OwnResponses'
  <2>1. /\ UNCHANGED <<records, store, executed>> /\ Frame(c) /\ pc'[c] \in {"done", "store"}
        /\ \/ \E r \in records : Found(c, r)
           \/ reply'[c] = "conflict"
           \/ reply'[c] = reply[c] /\ resp'[c] = resp[c]
    BY <1>2, LookupIs, Zenon
  <2>2. CASE \E r \in records : Found(c, r)
    <3>1. resp'[c] \in executed' /\ Key[resp'[c]] = Key[c] /\ Hash[resp'[c]] = Hash[c]
      BY <2>1, <2>2, Zenon DEF Found, OwnResponses, Own
    <3> QED BY <2>1, <3>1, OwnCall, Zenon
  <2>3. CASE reply'[c] = "conflict"
    BY <2>1, <2>3, OwnCall, Zenon
  <2>4. CASE reply'[c] = reply[c] /\ resp'[c] = resp[c]
    BY <2>1, <2>4, OwnCall, Zenon
  <2> QED BY <2>1, <2>2, <2>3, <2>4, Zenon
<1>3. ASSUME NEW c \in Calls, NEW i \in Instances, remember(c, i) PROVE OwnResponses'
  <2>1. /\ UNCHANGED <<store, executed>> /\ Put(c, i) /\ resp'[c] = resp[c] /\ Frame(c)
        /\ pc[c] \in {"adopt", "remember"}
        /\ pc[c] = "adopt" \/ reply'[c] = reply[c]
    BY <1>3, RememberIs, Zenon
  <2>2. PICK new \in RecordType :
              /\ new.at = i /\ new.key = Key[c] /\ new.hash = Hash[c] /\ new.resp = resp[c]
              /\ records' = {r \in records : r.at # i \/ r.key # Key[c]} \union {new}
    BY <2>1, PutIs, Zenon
  <2>3. Own(new.key, new.hash, new.resp)
    BY <2>1, <2>2, Zenon DEF OwnResponses
  <2>4. \A r \in records' : r \in records \/ Own(r.key, r.hash, r.resp)
    BY <2>2, <2>3, Zenon
  <2> QED BY <2>1, <2>4, OwnCall, Zenon
<1>4. ASSUME NEW c \in Calls, GetCommandIdempotency(c) PROVE OwnResponses'
  <2>1. /\ UNCHANGED <<records, store, executed>> /\ Frame(c)
        /\ \/ \E r \in store : Found(c, r)
           \/ pc'[c] = "done" /\ reply'[c] \in {"conflict", "error"}
           \/ pc'[c] = "execute" /\ reply'[c] = reply[c] /\ resp'[c] = resp[c]
    BY <1>4, GetIs, Zenon
  <2>2. CASE \E r \in store : Found(c, r)
    <3>1. resp'[c] \in executed' /\ Key[resp'[c]] = Key[c] /\ Hash[resp'[c]] = Hash[c]
      BY <2>1, <2>2, Zenon DEF Found, OwnResponses, Own
    <3> QED BY <2>1, <3>1, OwnCall, Zenon
  <2>3. CASE pc'[c] = "done" /\ reply'[c] \in {"conflict", "error"}
    BY <2>1, <2>3, OwnCall, Zenon
  <2>4. CASE pc'[c] = "execute" /\ reply'[c] = reply[c] /\ resp'[c] = resp[c]
    BY <2>1, <2>4, OwnCall, Zenon
  <2> QED BY <2>1, <2>2, <2>3, <2>4, Zenon
<1>5. ASSUME NEW c \in Calls, Execute(c) PROVE OwnResponses'
  <2>1. /\ UNCHANGED <<records, store>> /\ executed \subseteq executed' /\ Frame(c)
        /\ \/ c \in executed' /\ resp'[c] = c
           \/ pc'[c] = "done" /\ reply'[c] = "error"
    BY <1>5, ExecuteIs, Zenon
  <2> QED BY <2>1, OwnCall, Zenon
<1>6. ASSUME NEW c \in Calls, SaveCommandIdempotency(c) PROVE OwnResponses'
  <2>1. /\ UNCHANGED <<records, executed>> /\ pc[c] = "save" /\ pc'[c] = "done"
        /\ resp'[c] = resp[c] /\ Frame(c) /\ (StorePut(c) \/ UNCHANGED store)
    BY <1>6, SaveIs, Zenon
  <2>2. \A r \in store' : r \in store \/ Own(r.key, r.hash, r.resp)
    <3>1. CASE StorePut(c)
      <4>1. PICK new \in StoreType :
                /\ new.key = Key[c] /\ new.hash = Hash[c] /\ new.resp = resp[c]
                /\ store' = {r \in store : r.key # Key[c]} \union {new}
        BY <2>1, <3>1, StorePutIs, Zenon
      <4>2. Own(new.key, new.hash, new.resp)
        BY <2>1, <4>1, Zenon DEF OwnResponses
      <4> QED BY <4>1, <4>2, Zenon
    <3>2. CASE UNCHANGED store
      BY <3>2, Zenon
    <3> QED BY <2>1, <3>1, <3>2, Zenon
  <2> QED BY <2>1, <2>2, OwnCall, Zenon
<1>7. CASE Expire \/ UNCHANGED vars
  <2>1. UNCHANGED <<records, executed, pc, resp, reply>> /\ store' \subseteq store
    BY <1>7, Zenon DEF Expire, vars
  <2> QED BY <2>1, OwnKept, Zenon
<1>8. ASSUME NEW i \in Instances, Crash(i) PROVE OwnResponses'
  <2>1. /\ UNCHANGED <<store, executed, resp>> /\ records' \subseteq records
        /\ \A d \in Calls : pc'[d] = pc[d] \/ pc'[d] = "done"
        /\ \A d \in Calls : reply'[d] = "ok" => reply[d] = "ok"
    BY <1>8, CrashIs, Zenon
  <2> QED BY <2>1, OwnKept, Zenon
<1> QED BY <1>1, <1>2, <1>3, <1>4, <1>5, <1>6, <1>7, <1>8, Zenon DEF Next

-----------------------------------------------------------------------------
(* ExecutedOnce and RecordsKept.                                           *)

\* What the history of a key that is still used one call at a time allows.
Once == OneInProgress /\ RecordKey /\ NoRecord /\ NoStored /\ Kept /\ ExecutedOnce

LEMMA Monotone ==
    ASSUME TypeOK, [Next]_vars
    PROVE  /\ overlapped \subseteq overlapped' /\ dropped \subseteq dropped'
           /\ crashed \subseteq crashed'
BY Zenon DEF Next, vars, history, Begin, NoteOverlap, LookupLocal, remember, GetCommandIdempotency,
       Execute, SaveCommandIdempotency, Expire, Crash

LEMMA ProgressStep ==
    ASSUME TypeOK, OneInProgress, [Next]_vars PROVE OneInProgress'
<1> USE DEF Frame, Single, InProgress
<1>1. ASSUME NEW c \in Calls, NEW i \in Instances, Begin(c, i) PROVE OneInProgress'
  <2>1. /\ \A d \in Calls \ {c} : pc'[d] = pc[d]
        /\ overlapped' = IF Overlaps(c) THEN overlapped \union {Key[c]} ELSE overlapped
    BY <1>1, BeginIs, Zenon
  <2> QED BY <2>1, Zenon DEF OneInProgress, Overlaps
<1>2. ASSUME UNCHANGED overlapped, \A d \in Calls : InProgress(d)' => InProgress(d)
      PROVE  OneInProgress'
  BY <1>2, Zenon DEF OneInProgress
<1>3. ASSUME NEW c \in Calls,
             \/ \E i \in Instances : LookupLocal(c, i) \/ remember(c, i)
             \/ GetCommandIdempotency(c) \/ SaveCommandIdempotency(c) \/ Execute(c)
      PROVE  OneInProgress'
  <2>1. /\ \A d \in Calls \ {c} : pc'[d] = pc[d]
        /\ InProgress(c) /\ UNCHANGED overlapped
    <3>1. ASSUME NEW i \in Instances, LookupLocal(c, i)
          PROVE  Frame(c) /\ pc[c] = "local" /\ UNCHANGED overlapped
      BY <3>1, LookupIs, Zenon DEF history
    <3>2. ASSUME NEW i \in Instances, remember(c, i)
          PROVE  Frame(c) /\ pc[c] \in {"adopt", "remember"} /\ UNCHANGED overlapped
      BY <3>2, RememberIs, Zenon DEF history
    <3>3. CASE GetCommandIdempotency(c)
      BY <3>3, GetIs, Zenon DEF history
    <3>4. CASE SaveCommandIdempotency(c)
      BY <3>4, SaveIs, Zenon
    <3>5. CASE Execute(c)
      BY <3>5, ExecuteIs, Zenon DEF history
    <3> QED BY <1>3, <3>1, <3>2, <3>3, <3>4, <3>5, Zenon
  <2> QED BY <1>2, <2>1, Zenon
<1>4. CASE Expire \/ UNCHANGED vars
  BY <1>2, <1>4, Zenon DEF Expire, vars, history
<1>5. ASSUME NEW i \in Instances, Crash(i) PROVE OneInProgress'
  <2>1. UNCHANGED overlapped /\ \A d \in Calls : pc'[d] = pc[d] \/ pc'[d] = "done"
    BY <1>5, CrashIs, Zenon
  <2> QED BY <1>2, <2>1, Zenon
<1> QED BY <1>1, <1>3, <1>4, <1>5, Zenon DEF Next

\* A step that leaves the records, the store and the executed calls alone.
LEMMA OnceKept ==
    ASSUME Once, UNCHANGED <<records, store, executed, dropped, crashed>>,
           overlapped \subseteq overlapped',
           \A d \in executed : pc[d] \in {"remember", "save", "done"} =>
               pc'[d] = pc[d] /\ host'[d] = host[d],
           \A d \in Calls : Single(d) /\ pc'[d] \in {"store", "adopt", "execute", "remember"} =>
               /\ host'[d] = host[d]
               /\ \/ pc[d] \in {"store", "adopt", "execute", "remember"}
                  \/ \A r \in records : r.at \in host[d] => r.key # Key[d],
           \A d \in Calls : Single(d) /\ pc'[d] = "execute" =>
               pc[d] = "execute" \/ \A r \in store : r.key # Key[d]
    PROVE  RecordKey' /\ NoRecord' /\ NoStored' /\ Kept' /\ ExecutedOnce'
<1>1. \A d \in Calls \union executed : Single(d)' => Single(d)
  BY Zenon DEF Single
<1>2. RecordKey'
  BY Zenon DEF Once, RecordKey
<1>3. NoRecord'
  BY <1>1, Zenon DEF Once, NoRecord
<1>4. NoStored'
  BY <1>1, Zenon DEF Once, NoStored
<1>5. \A d \in executed : Single(d) => pc[d] \in {"remember", "save", "done"}
  BY Zenon DEF Once, Kept
<1>6. Kept'
  BY <1>1, <1>5, Zenon DEF Once, Kept
<1>7. ExecutedOnce'
  <2> SUFFICES ASSUME NEW c \in executed, NEW d \in executed,
                      Key[c] # "", Key[c] = Key[d], Key[c] \notin overlapped',
                      Key[c] \notin dropped \/ (host'[c] = host'[d] /\ host'[c] \cap crashed = {})
               PROVE  c = d
    BY Zenon DEF ExecutedOnce
  <2>1. Single(c) /\ Single(d)
    BY Zenon DEF Single
  <2>2. host'[c] = host[c] /\ host'[d] = host[d]
    BY <1>5, <2>1, Zenon
  <2> QED BY <2>1, <2>2, Zenon DEF Once, ExecutedOnce, Single
<1> QED BY <1>2, <1>3, <1>4, <1>6, <1>7, Zenon

\* The handler returns: no other call of the key has had a response, or Redis
\* or the process would have told.
LEMMA OnceExecute ==
    ASSUME Inv, Once, NEW c \in Calls, Execute(c)
    PROVE  RecordKey' /\ NoRecord' /\ NoStored' /\ Kept' /\ ExecutedOnce'
<1>1. /\ Frame(c) /\ pc[c] = "execute" /\ host'[c] = host[c]
      /\ UNCHANGED <<records, store>> /\ UNCHANGED <<overlapped, dropped, crashed>>
      /\ \/ /\ executed' = executed \union {c}
            /\ \/ Key[c] = "" /\ pc'[c] = "done"
               \/ Key[c] # "" /\ pc'[c] = "remember"
         \/ executed' = executed /\ pc'[c] = "done"
  BY ExecuteIs, Zenon DEF Inv, history
<1>2. \A d \in Calls : host'[d] = host[d] /\ (d # c => pc'[d] = pc[d])
  BY <1>1, Zenon DEF Frame
<1>3. executed \subseteq Calls
  BY Zenon DEF Inv, TypeOK
<1>4. \A d \in Calls : Single(d)' = Single(d)
  BY <1>1, Zenon DEF Single
<1>5. Single(c) => c \notin executed
  BY <1>1, Zenon DEF Once, Kept
<1>6. CASE executed' = executed /\ pc'[c] = "done"
  <2>1. \A d \in executed : pc[d] \in {"remember", "save", "done"} =>
               pc'[d] = pc[d] /\ host'[d] = host[d]
    BY <1>1, <1>2, <1>3, Zenon
  <2>2. \A d \in Calls : Single(d) /\ pc'[d] \in {"store", "adopt", "execute", "remember"} =>
               /\ host'[d] = host[d] /\ pc[d] \in {"store", "adopt", "execute", "remember"}
    BY <1>2, <1>6, Zenon
  <2>3. \A d \in Calls : Single(d) /\ pc'[d] = "execute" => pc[d] = "execute"
    BY <1>2, <1>6, Zenon
  <2> QED BY <1>1, <1>6, <2>1, <2>2, <2>3, OnceKept, Zenon
<1>7. CASE /\ executed' = executed \union {c}
           /\ \/ Key[c] = "" /\ pc'[c] = "done"
              \/ Key[c] # "" /\ pc'[c] = "remember"
  <2>1. RecordKey'
    BY <1>1, Zenon DEF Once, RecordKey
  <2>2. NoRecord'
    BY <1>1, <1>2, <1>4, <1>7, Zenon DEF Once, NoRecord
  <2>3. NoStored'
    BY <1>1, <1>2, <1>4, <1>7, Zenon DEF Once, NoStored
  <2>4. Kept'
    <3> SUFFICES ASSUME NEW d \in executed', Single(d)'
                 PROVE  /\ pc'[d] \in {"remember", "save", "done"}
                        /\ \/ Key[d] \in dropped \/ pc'[d] \in {"remember", "save"}
                           \/ \E r \in store : r.key = Key[d]
                        /\ \/ host[d] \intersect crashed # {} \/ pc'[d] = "remember"
                           \/ \E r \in records : r.at \in host[d] /\ r.key = Key[d]
      <4>1. \A d \in executed' : host'[d] = host[d]
        BY <1>2, <1>3, <1>7, Zenon
      <4> QED BY <1>1, <4>1, Zenon DEF Kept
    <3>1. CASE d = c
      BY <1>7, <3>1, Zenon DEF Single
    <3>2. CASE d # c
      BY <1>2, <1>3, <1>4, <1>7, <3>2, Zenon DEF Once, Kept
    <3> QED BY <3>1, <3>2, Zenon
  <2>5. ASSUME NEW d \in executed, d # c, Key[d] = Key[c], Single(c),
               Key[c] \notin dropped \/ (host[c] = host[d] /\ host[c] \cap crashed = {})
        PROVE  FALSE
    <3>1. Single(d)
      BY <2>5, Zenon DEF Single
    <3>2. pc[d] = "done"
      <4>1. pc[d] \in {"remember", "save", "done"}
        BY <3>1, Zenon DEF Once, Kept
      <4>2. ~ InProgress(d)
        BY <1>1, <1>3, <2>5, Zenon DEF Once, OneInProgress, InProgress
      <4> QED BY <4>1, <4>2, Zenon DEF InProgress
    <3>3. CASE Key[c] \notin dropped
      <4>1. \E r \in store : r.key = Key[c]
        BY <2>5, <3>1, <3>2, <3>3, Zenon DEF Once, Kept
      <4> QED BY <1>1, <2>5, <3>3, <4>1, Zenon DEF Once, NoStored
    <3>4. CASE host[c] = host[d] /\ host[c] \cap crashed = {}
      <4>1. \E r \in records : r.at \in host[c] /\ r.key = Key[c]
        BY <2>5, <3>1, <3>2, <3>4, Zenon DEF Once, Kept
      <4> QED BY <1>1, <2>5, <4>1, Zenon DEF Once, NoRecord
    <3> QED BY <2>5, <3>3, <3>4, Zenon
  <2>6. ExecutedOnce'
    <3> SUFFICES ASSUME NEW a \in executed', NEW b \in executed',
                        Key[a] # "", Key[a] = Key[b], Key[a] \notin overlapped',
                        \/ Key[a] \notin dropped'
                        \/ host'[a] = host'[b] /\ host'[a] \cap crashed' = {}
                 PROVE  a = b
      BY Zenon DEF ExecutedOnce
    <3>0. /\ a \in executed \union {c} /\ b \in executed \union {c}
          /\ Key[a] \notin overlapped
          /\ Key[a] \notin dropped \/ (host[a] = host[b] /\ host[a] \cap crashed = {})
      <4>1. a \in Calls /\ b \in Calls
        BY <1>3, <1>7, Zenon
      <4>2. host'[a] = host[a] /\ host'[b] = host[b]
        BY <1>2, <4>1, Zenon
      <4> QED BY <1>1, <1>7, <4>2, Zenon
    <3>1. CASE a \in executed /\ b \in executed
      BY <3>0, <3>1, Zenon DEF Once, ExecutedOnce
    <3>2. CASE a = c
      BY <2>5, <3>0, <3>2, Zenon DEF Single
    <3>3. CASE b = c
      BY <2>5, <3>0, <3>3, Zenon DEF Single
    <3> QED BY <3>0, <3>1, <3>2, <3>3, Zenon
  <2> QED BY <2>1, <2>2, <2>3, <2>4, <2>6, Zenon
<1> QED BY <1>1, <1>6, <1>7, Zenon

\* No handler returns and no call moves to another process.
LEMMA ExecutedKept ==
    ASSUME TypeOK, ExecutedOnce, UNCHANGED executed, \A d \in Calls : host'[d] = host[d],
           overlapped \subseteq overlapped', dropped \subseteq dropped',
           crashed \subseteq crashed'
    PROVE  ExecutedOnce'
<1> SUFFICES ASSUME NEW a \in executed, NEW b \in executed,
                    Key[a] # "", Key[a] = Key[b], Key[a] \notin overlapped',
                    \/ Key[a] \notin dropped'
                    \/ host'[a] = host'[b] /\ host'[a] \cap crashed' = {}
             PROVE  a = b
  BY Zenon DEF ExecutedOnce
<1>1. host'[a] = host[a] /\ host'[b] = host[b]
  BY Zenon DEF TypeOK
<1>2. Key[a] \notin dropped \/ (host[a] = host[b] /\ host[a] \cap crashed = {})
  BY <1>1, Zenon
<1> QED BY <1>2, Zenon DEF ExecutedOnce

\* A process remembers: it had no record of the key, and no other call of the
\* key is in progress.
LEMMA OnceRemember ==
    ASSUME Inv, NEW c \in Calls, NEW i \in Instances, remember(c, i)
    PROVE  /\ RecordKey' /\ NoRecord' /\ NoStored' /\ Kept' /\ ExecutedOnce'
           /\ \A r \in records, s \in records' :
                 r.at = s.at /\ r.key = s.key /\ r.key \notin overlapped => r = s
<1>1. /\ Frame(c) /\ i \in host[c] /\ host'[c] = host[c]
      /\ UNCHANGED <<store, executed>> /\ UNCHANGED <<overlapped, dropped, crashed>>
      /\ Put(c, i)
      /\ \/ pc[c] = "adopt" /\ pc'[c] = "done"
         \/ pc[c] = "remember" /\ pc'[c] = "save"
  BY RememberIs, Zenon DEF Inv, history
<1>2. PICK new \in RecordType :
              /\ new.at = i /\ new.key = Key[c]
              /\ records' = {r \in records : r.at # i \/ r.key # Key[c]} \union {new}
  BY <1>1, PutIs, Zenon DEF Inv
<1>3. \A d \in Calls : host'[d] = host[d] /\ (d # c => pc'[d] = pc[d])
  BY <1>1, Zenon DEF Frame
<1>4. executed \subseteq Calls /\ Key[c] # ""
  BY <1>1, Zenon DEF Inv, TypeOK, Keyed
<1>5. \A d \in Calls : Single(d)' = Single(d)
  BY <1>1, Zenon DEF Single
<1>6. RecordKey'
  BY <1>2, Zenon DEF Inv, RecordKey
<1>7. NoRecord'
  <2> SUFFICES ASSUME NEW d \in Calls, pc'[d] \in {"store", "adopt", "execute", "remember"},
                      Single(d)', NEW r \in records', r.at \in host'[d], r.key = Key[d]
               PROVE  FALSE
    BY Zenon DEF NoRecord
  <2>1. d # c /\ pc'[d] = pc[d] /\ host'[d] = host[d] /\ Single(d)
    BY <1>1, <1>3, <1>5, Zenon
  <2>2. r \notin records
    BY <2>1, Zenon DEF Inv, NoRecord
  <2>3. Key[d] = Key[c]
    BY <1>2, <2>2, Zenon
  <2>4. InProgress(d) /\ InProgress(c)
    BY <1>1, <2>1, Zenon DEF InProgress
  <2> QED BY <2>1, <2>3, <2>4, Zenon DEF Inv, OneInProgress
<1>8. NoStored'
  BY <1>1, <1>3, <1>5, Zenon DEF Inv, NoStored
<1>9. Kept'
  <2> SUFFICES ASSUME NEW d \in executed, Single(d)'
               PROVE  /\ pc'[d] \in {"remember", "save", "done"}
                      /\ \/ Key[d] \in dropped \/ pc'[d] \in {"remember", "save"}
                         \/ \E r \in store : r.key = Key[d]
                      /\ \/ host'[d] \intersect crashed # {} \/ pc'[d] = "remember"
                         \/ \E r \in records' : r.at \in host'[d] /\ r.key = Key[d]
    BY <1>1, Zenon DEF Kept
  <2>1. d \in Calls /\ Single(d) /\ host'[d] = host[d]
    BY <1>3, <1>4, <1>5, Zenon
  <2>2. CASE d = c
    <3>1. pc'[d] = "save"
      BY <1>1, <2>1, <2>2, Zenon DEF Inv, Kept
    <3>2. new \in records' /\ new.at \in host'[d] /\ new.key = Key[d]
      BY <1>1, <1>2, <2>1, <2>2, Zenon
    <3> QED BY <3>1, <3>2, Zenon
  <2>3. CASE d # c
    <3>1. pc'[d] = pc[d]
      BY <1>3, <2>1, <2>3, Zenon
    <3>2. ASSUME NEW r \in records, r.at \in host[d], r.key = Key[d]
          PROVE  \E s \in records' : s.at \in host'[d] /\ s.key = Key[d]
      <4>1. CASE r \in records'
        BY <2>1, <3>2, <4>1, Zenon
      <4>2. CASE r \notin records'
        <5>1. r.at = i /\ r.key = Key[c]
          BY <1>2, <4>2, Zenon
        <5> QED BY <1>2, <2>1, <3>2, <5>1, Zenon
      <4> QED BY <4>1, <4>2, Zenon
    <3> QED BY <2>1, <3>1, <3>2, Zenon DEF Inv, Kept
  <2> QED BY <2>2, <2>3, Zenon
<1>10. ExecutedOnce'
  BY <1>1, <1>3, ExecutedKept, Zenon DEF Inv
<1>11. ASSUME NEW r \in records, NEW s \in records', r.at = s.at, r.key = s.key,
              r.key \notin overlapped
       PROVE  r = s
  <2>1. CASE s \in records
    BY <1>11, <2>1, Zenon DEF Inv, RecordKey
  <2>2. CASE s \notin records
    <3>1. r.at = i /\ r.key = Key[c]
      BY <1>2, <1>11, <2>2, Zenon
    <3>2. Single(c)
      BY <1>4, <1>11, <3>1, Zenon DEF Single
    <3> QED BY <1>1, <3>1, <3>2, Zenon DEF Inv, NoRecord
  <2> QED BY <2>1, <2>2, Zenon
<1> QED BY <1>6, <1>7, <1>8, <1>9, <1>10, <1>11, Zenon

\* Redis takes the record, or the key is noted as dropped.
LEMMA OnceSave ==
    ASSUME Inv, NEW c \in Calls, SaveCommandIdempotency(c)
    PROVE  RecordKey' /\ NoRecord' /\ NoStored' /\ Kept' /\ ExecutedOnce'
<1>1. /\ Frame(c) /\ pc[c] = "save" /\ pc'[c] = "done" /\ host'[c] = host[c]
      /\ UNCHANGED <<records, executed, overlapped, crashed>>
      /\ \/ StorePut(c) /\ UNCHANGED dropped
         \/ UNCHANGED store /\ dropped' = dropped \union {Key[c]}
  BY SaveIs, Zenon DEF Inv
<1>2. \A d \in Calls : host'[d] = host[d] /\ (d # c => pc'[d] = pc[d])
  BY <1>1, Zenon DEF Frame
<1>3. executed \subseteq Calls /\ dropped \subseteq dropped'
  BY <1>1, Zenon DEF Inv, TypeOK
<1>4. \A d \in Calls : Single(d)' = Single(d)
  BY <1>1, Zenon DEF Single
<1>5. /\ \A r \in store' : r \in store \/ r.key = Key[c]
      /\ \A r \in store : \E s \in store' : s.key = r.key
      /\ Key[c] \in dropped' \/ \E s \in store' : s.key = Key[c]
  <2>1. CASE StorePut(c)
    <3>1. PICK new \in StoreType :
              /\ new.key = Key[c]
              /\ store' = {r \in store : r.key # Key[c]} \union {new}
      BY <1>1, <2>1, StorePutIs, Zenon DEF Inv
    <3> QED BY <3>1
  <2>2. CASE UNCHANGED store /\ dropped' = dropped \union {Key[c]}
    BY <2>2, Zenon
  <2> QED BY <1>1, <2>1, <2>2, Zenon
<1>6. RecordKey'
  BY <1>1, Zenon DEF Inv, RecordKey
<1>7. NoRecord'
  BY <1>1, <1>2, <1>4, Zenon DEF Inv, NoRecord
<1>8. NoStored'
  <2> SUFFICES ASSUME NEW d \in Calls, pc'[d] = "execute", Single(d)', Key[d] \notin dropped',
                      NEW r \in store', r.key = Key[d]
               PROVE  FALSE
    BY Zenon DEF NoStored
  <2>1. d # c /\ pc[d] = "execute" /\ Single(d) /\ Key[d] \notin dropped
    BY <1>1, <1>2, <1>3, <1>4, Zenon
  <2>2. Key[d] = Key[c]
    BY <1>5, <2>1, Zenon DEF Inv, NoStored
  <2>3. InProgress(d) /\ InProgress(c)
    BY <1>1, <2>1, Zenon DEF InProgress
  <2> QED BY <2>1, <2>2, <2>3, Zenon DEF Inv, OneInProgress
<1>9. Kept'
  <2> SUFFICES ASSUME NEW d \in executed, Single(d)'
               PROVE  /\ pc'[d] \in {"remember", "save", "done"}
                      /\ \/ Key[d] \in dropped' \/ pc'[d] \in {"remember", "save"}
                         \/ \E r \in store' : r.key = Key[d]
                      /\ \/ host[d] \intersect crashed # {} \/ pc'[d] = "remember"
                         \/ \E r \in records : r.at \in host[d] /\ r.key = Key[d]
    BY <1>1, <1>2, <1>3, Zenon DEF Kept
  <2>1. d \in Calls /\ Single(d)
    BY <1>3, <1>4, Zenon
  <2>2. /\ pc[d] \in {"remember", "save", "done"}
        /\ \/ Key[d] \in dropped \/ pc[d] \in {"remember", "save"}
           \/ \E r \in store : r.key = Key[d]
        /\ \/ host[d] \intersect crashed # {} \/ pc[d] = "remember"
           \/ \E r \in records : r.at \in host[d] /\ r.key = Key[d]
    BY <2>1, Zenon DEF Inv, Kept
  <2>3. CASE d = c
    BY <1>1, <1>5, <2>2, <2>3, Zenon
  <2>4. CASE d # c
    <3>1. pc'[d] = pc[d]
      BY <1>2, <2>1, <2>4, Zenon
    <3> QED BY <1>3, <1>5, <2>2, <3>1, Zenon
  <2> QED BY <2>3, <2>4, Zenon
<1>10. ExecutedOnce'
  BY <1>1, <1>2, <1>3, ExecutedKept, Zenon DEF Inv
<1> QED BY <1>6, <1>7, <1>8, <1>9, <1>10, Zenon

LEMMA OnceExpire ==
    ASSUME Inv, Expire
    PROVE  RecordKey' /\ NoRecord' /\ NoStored' /\ Kept' /\ ExecutedOnce'
<1>1. PICK e \in store : store' = store \ {e} /\ dropped' = dropped \union {e.key}
  BY Zenon DEF Expire
<1>2. UNCHANGED <<records, executed, pc, host, overlapped, crashed>>
  BY Zenon DEF Expire
<1>3. RecordKey'
  BY <1>2, Zenon DEF Inv, RecordKey
<1>4. NoRecord'
  BY <1>2, Zenon DEF Inv, NoRecord, Single
<1>5. NoStored'
  BY <1>1, <1>2, Zenon DEF Inv, NoStored, Single
<1>6. Kept'
  BY <1>1, <1>2, Zenon DEF Inv, Kept, Single
<1>7. ExecutedOnce'
  BY <1>1, <1>2, ExecutedKept, Zenon DEF Inv
<1> QED BY <1>3, <1>4, <1>5, <1>6, <1>7, Zenon

LEMMA OnceCrash ==
    ASSUME Inv, NEW i \in Instances, Crash(i)
    PROVE  RecordKey' /\ NoRecord' /\ NoStored' /\ Kept' /\ ExecutedOnce'
<1>1. /\ UNCHANGED <<store, executed, host, overlapped>>
      /\ \A c \in Calls : i \notin host[c] => pc'[c] = pc[c]
      /\ \A c \in Calls : i \in host[c] => pc'[c] = "done"
      /\ crashed' = crashed \union {i} /\ records' = {r \in records : r.at # i}
      /\ dropped' = dropped \union {Key[c] : c \in Unsaved(i)}
  BY CrashIs, Zenon DEF Inv
<1>2. executed \subseteq Calls /\ dropped \subseteq dropped' /\ crashed \subseteq crashed'
  BY <1>1, Zenon DEF Inv, TypeOK
<1>3. RecordKey'
  BY <1>1, Zenon DEF Inv, RecordKey
<1>4. NoRecord'
  BY <1>1, Zenon DEF Inv, NoRecord, Single
<1>5. NoStored'
  BY <1>1, <1>2, Zenon DEF Inv, NoStored, Single
<1>6. Kept'
  <2> SUFFICES ASSUME NEW d \in executed, Single(d)
               PROVE  /\ pc'[d] \in {"remember", "save", "done"}
                      /\ \/ Key[d] \in dropped' \/ pc'[d] \in {"remember", "save"}
                         \/ \E r \in store : r.key = Key[d]
                      /\ \/ host[d] \intersect crashed' # {} \/ pc'[d] = "remember"
                         \/ \E r \in records' : r.at \in host[d] /\ r.key = Key[d]
    BY <1>1, Zenon DEF Kept, Single
  <2>1. /\ d \in Calls /\ pc[d] \in {"remember", "save", "done"}
        /\ \/ Key[d] \in dropped \/ pc[d] \in {"remember", "save"}
           \/ \E r \in store : r.key = Key[d]
        /\ \/ host[d] \intersect crashed # {} \/ pc[d] = "remember"
           \/ \E r \in records : r.at \in host[d] /\ r.key = Key[d]
    BY <1>2, Zenon DEF Inv, Kept
  <2>2. CASE i \in host[d]
    <3>1. pc'[d] = "done" /\ host[d] \intersect crashed' # {}
      BY <1>1, <2>1, <2>2, Zenon
    <3>2. CASE pc[d] \in {"remember", "save"}
      <4>1. d \in Unsaved(i)
        BY <2>1, <2>2, <3>2, Zenon DEF Unsaved
      <4>2. Key[d] \in dropped'
        BY <1>1, <4>1, Zenon
      <4> QED BY <3>1, <4>2, Zenon
    <3>3. CASE pc[d] = "done"
      BY <1>2, <2>1, <3>1, <3>3, Zenon
    <3> QED BY <2>1, <3>2, <3>3, Zenon
  <2>3. CASE i \notin host[d]
    <3>1. pc'[d] = pc[d]
      BY <1>1, <2>1, <2>3, Zenon
    <3>2. \A r \in records : r.at \in host[d] => r \in records'
      BY <1>1, <2>3, Zenon
    <3> QED BY <1>2, <2>1, <3>1, <3>2, Zenon
  <2> QED BY <2>2, <2>3, Zenon
<1>7. ExecutedOnce'
  BY <1>1, <1>2, ExecutedKept, Zenon DEF Inv
<1> QED BY <1>3, <1>4, <1>5, <1>6, <1>7, Zenon

\* Steps of a call before its handler.
LEMMA OnceLook ==
    ASSUME Inv, NEW c \in Calls, Frame(c), pc[c] \in {"idle", "local", "store"},
           UNCHANGED <<records, store, executed, dropped, crashed>>,
           overlapped \subseteq overlapped',
           Single(c) /\ pc'[c] \in {"store", "adopt", "execute", "remember"} =>
               /\ host'[c] = host[c]
               /\ pc[c] = "store" \/ \A r \in records : r.at \in host[c] => r.key # Key[c],
           Single(c) /\ pc'[c] = "execute" => \A r \in store : r.key # Key[c]
    PROVE  RecordKey' /\ NoRecord' /\ NoStored' /\ Kept' /\ ExecutedOnce'
<1>1. \A d \in Calls \ {c} : pc'[d] = pc[d] /\ host'[d] = host[d]
  BY Zenon DEF Frame
<1>2. \A d \in executed : pc[d] \in {"remember", "save", "done"} =>
          pc'[d] = pc[d] /\ host'[d] = host[d]
  BY <1>1, Zenon DEF Inv, TypeOK
<1>3. \A d \in Calls : Single(d) /\ pc'[d] \in {"store", "adopt", "execute", "remember"} =>
          /\ host'[d] = host[d]
          /\ \/ pc[d] \in {"store", "adopt", "execute", "remember"}
             \/ \A r \in records : r.at \in host[d] => r.key # Key[d]
  BY <1>1, Zenon
<1>4. \A d \in Calls : Single(d) /\ pc'[d] = "execute" =>
          pc[d] = "execute" \/ \A r \in store : r.key # Key[d]
  BY <1>1, Zenon
<1>5. Once
  BY Zenon DEF Inv, Once
<1> QED BY <1>2, <1>3, <1>4, <1>5, OnceKept, Zenon

\* Init establishes the invariant and every step preserves it.
LEMMA InitInv == Init => Inv
BY Zenon DEF Init, Inv, TypeOK, Hosted, Keyed, OwnResponses, OneInProgress, RecordKey, NoRecord,
       NoStored, Kept, ExecutedOnce, InProgress

LEMMA StepInv == ASSUME Inv, [Next]_vars PROVE Inv'
<1> DEFINE Goal == RecordKey' /\ NoRecord' /\ NoStored' /\ Kept' /\ ExecutedOnce'
<1>0. overlapped \subseteq overlapped'
  BY Monotone, Zenon DEF Inv
<1>1. ASSUME NEW c \in Calls, NEW i \in Instances, Begin(c, i) PROVE Goal
  <2>1. /\ Frame(c) /\ pc[c] = "idle"
        /\ pc'[c] = IF Key[c] = "" THEN "execute" ELSE "local"
        /\ UNCHANGED <<records, store, executed, dropped, crashed>>
    BY <1>1, BeginIs, Zenon DEF Inv
  <2>2. ~ (Single(c) /\ pc'[c] \in {"store", "adopt", "execute", "remember"})
    BY <2>1, Zenon DEF Single
  <2> QED BY <1>0, <2>1, <2>2, OnceLook, Zenon
<1>2. ASSUME NEW c \in Calls, NEW i \in Instances, LookupLocal(c, i) PROVE Goal
  <2>1. /\ Frame(c) /\ pc[c] = "local" /\ i \in host[c] /\ host'[c] = host[c]
        /\ UNCHANGED <<records, store, executed>> /\ UNCHANGED <<dropped, crashed>>
        /\ \/ pc'[c] = "done"
           \/ pc'[c] = "store" /\ \A r \in records : r.at = i => r.key # Key[c]
    BY <1>2, LookupIs, Zenon DEF Inv, history
  <2>2. host[c] = {i}
    BY <2>1, Zenon DEF Inv, Hosted
  <2>3. pc'[c] = "store" => \A r \in records : r.at \in host[c] => r.key # Key[c]
    BY <2>1, <2>2, Zenon
  <2> QED BY <1>0, <2>1, <2>3, OnceLook, Zenon
<1>3. ASSUME NEW c \in Calls, GetCommandIdempotency(c) PROVE Goal
  <2>1. /\ Frame(c) /\ pc[c] = "store" /\ host'[c] = host[c]
        /\ UNCHANGED <<records, store, executed>> /\ UNCHANGED <<dropped, crashed>>
        /\ pc'[c] = "execute" => \A r \in store : r.key # Key[c]
    BY <1>3, GetIs, Zenon DEF Inv, history
  <2> QED BY <1>0, <2>1, OnceLook, Zenon
<1>4. ASSUME NEW c \in Calls, Execute(c) PROVE Goal
  BY <1>4, OnceExecute, Zenon DEF Inv, Once
<1>5. ASSUME UNCHANGED vars PROVE Goal
  <2>1. Once
    BY Zenon DEF Inv, Once
  <2>2. UNCHANGED <<records, store, executed, pc, host>>
        /\ UNCHANGED <<overlapped, dropped, crashed>>
    BY <1>5, Zenon DEF vars, history
  <2>3. \A d \in Calls \union executed : pc'[d] = pc[d] /\ host'[d] = host[d]
    BY <2>2, Zenon
  <2> QED BY <1>0, <2>1, <2>2, <2>3, OnceKept, Zenon
<1>6. Goal
  <2>1. ASSUME NEW c \in Calls, NEW i \in Instances, remember(c, i) PROVE Goal
    BY <2>1, OnceRemember, Zenon
  <2>2. ASSUME NEW c \in Calls, SaveCommandIdempotency(c) PROVE Goal
    BY <2>2, OnceSave, Zenon
  <2>3. CASE Expire
    BY <2>3, OnceExpire, Zenon
  <2>4. ASSUME NEW i \in Instances, Crash(i) PROVE Goal
    BY <2>4, OnceCrash, Zenon
  <2> HIDE DEF Goal
  <2> QED BY <1>1, <1>2, <1>3, <1>4, <1>5, <2>1, <2>2, <2>3, <2>4, Zenon DEF Next
<1>7. TypeOK'
  BY TypeStep, Zenon DEF Inv
<1>8. Hosted' /\ Keyed'
  BY KeyedStep, Zenon DEF Inv
<1>9. OwnResponses' /\ OneInProgress'
  BY OwnStep, ProgressStep, Zenon DEF Inv
<1> QED BY <1>6, <1>7, <1>8, <1>9, Zenon DEF Inv

LEMMA Invariance == Spec => []Inv
BY InitInv, StepInv, PTL DEF Spec

-----------------------------------------------------------------------------
(* The theorems.                                                           *)

\* Dispatch keeps the records of the processes and of Redis, and its calls,
\* within their types.
THEOREM TypeCorrect == Spec => []TypeOK
<1>1. Inv => TypeOK
  BY Zenon DEF Inv
<1> QED BY <1>1, Invariance, PTL

\* However calls of the key overlap, and whatever expires, fails or crashes,
\* Dispatch answers a call with a response produced for its key and payload.
THEOREM AnswersOwn == Spec => []AnswerIsOwn
<1>1. Inv => AnswerIsOwn
  BY Zenon DEF Inv, OwnResponses, Own, AnswerIsOwn
<1> QED BY <1>1, Invariance, PTL

\* Without overlap, a key's handler completes once over all processes while
\* Redis keeps the record, and once in a process that has not crashed.
THEOREM HandlersOnce == Spec => []ExecutedOnce
<1>1. Inv => ExecutedOnce
  BY Zenon DEF Inv
<1> QED BY <1>1, Invariance, PTL

\* Without overlap, remember never replaces what a process has remembered.
THEOREM RecordsStay == Spec => RecordsKept
<1>1. ASSUME Inv, [Next]_vars
      PROVE  \A r \in records, s \in records' :
                 r.at = s.at /\ r.key = s.key /\ r.key \notin overlapped => r = s
  <2>1. CASE records' \subseteq records
    BY <1>1, <2>1, Zenon DEF Inv, RecordKey
  <2>2. ASSUME NEW c \in Calls, NEW i \in Instances, remember(c, i)
        PROVE  \A r \in records, s \in records' :
                 r.at = s.at /\ r.key = s.key /\ r.key \notin overlapped => r = s
    BY <1>1, <2>2, OnceRemember, Zenon
  <2>3. \/ records' \subseteq records
        \/ \E c \in Calls, i \in Instances : remember(c, i)
    BY <1>1, Zenon DEF Next, vars, Begin, LookupLocal, GetCommandIdempotency, Execute,
                SaveCommandIdempotency, Expire, Crash
  <2> QED BY <2>1, <2>2, <2>3, Zenon
<1> QED BY <1>1, Invariance, PTL DEF Spec, RecordsKept
=============================================================================
