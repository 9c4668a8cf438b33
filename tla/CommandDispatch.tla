--------------------------- MODULE CommandDispatch ---------------------------
(***************************************************************************)
(* playersrv: request-level idempotency of commands                        *)
(* (app/playersrv/command_service.go and the command records of            *)
(* data/redis/repository.go).                                              *)
(*                                                                         *)
(* A call is one execution of IdempotentCommandDispatcher.Dispatch in one  *)
(* playersrv; a client's retry is another call with the same key.  A       *)
(* record is looked up in the process, then in Redis; the handler runs,    *)
(* and its response is remembered in the process, then saved in Redis.  A  *)
(* response is named by the call whose handler produced it.  Handlers and  *)
(* Redis may fail, records expire, and each process may crash once and     *)
(* restart.                                                                *)
(***************************************************************************)
EXTENDS Integers

CONSTANTS
    Calls,        \* executions of Dispatch
    Key,          \* uid:command_id:seq by call, "" when uid or seq is 0
    Hash,         \* sha256 of the payload by call
    Instances     \* playersrv processes

ASSUME DispatchAssumption == Calls \subseteq Nat \ {0}

VARIABLES
    records,      \* the records maps: at, key, hash, resp
    store,        \* Redis CommandIdempotency:{key}: key, hash, resp
    executed,     \* history: calls whose handler returned a response
    pc,           \* call: its next step
    host,         \* call: the set holding the process that serves it
    resp,         \* call: the response it has got, 0 before
    reply,        \* call: the kind of answer
    overlapped,   \* history: keys two calls were in progress with at a time
    dropped,      \* history: keys whose record Redis lost or never got
    crashed       \* history: processes that crashed

history == <<overlapped, dropped, crashed>>
vars == <<records, store, executed, pc, host, resp, reply, history>>

Init ==
    /\ records = {} /\ store = {} /\ executed = {}
    /\ pc = [c \in Calls |-> "idle"]
    /\ host = [c \in Calls |-> {}]
    /\ resp = [c \in Calls |-> 0]
    /\ reply = [c \in Calls |-> "none"]
    /\ overlapped = {} /\ dropped = {} /\ crashed = {}

-----------------------------------------------------------------------------

Goto(c, step) == pc' = [pc EXCEPT ![c] = step] /\ UNCHANGED reply

Return(c, r) ==
    /\ pc' = [pc EXCEPT ![c] = "done"]
    /\ reply' = [reply EXCEPT ![c] = r]

Got(c, r) == resp' = [resp EXCEPT ![c] = r]

InProgress(c) == pc[c] \notin {"idle", "done"}

\* A call of the same key is still in progress: two sessions of the user, or
\* a handler its queue has timed out.
Overlaps(c) == \E d \in Calls : Key[d] = Key[c] /\ InProgress(d)

NoteOverlap(c) ==
    overlapped' = IF Overlaps(c) THEN overlapped \union {Key[c]} ELSE overlapped

\* A request without uid or seq goes straight to its handler.
Begin(c, i) ==
    /\ pc[c] = "idle"
    /\ host' = [host EXCEPT ![c] = {i}]
    /\ Goto(c, IF Key[c] = "" THEN "execute" ELSE "local")
    /\ NoteOverlap(c)
    /\ UNCHANGED <<records, store, executed, resp, dropped, crashed>>

\* What a record found under the key means for the call.
Replay(c, r) ==
    \/ r.hash = Hash[c] /\ Got(c, r.resp) /\ Return(c, "ok")
    \/ r.hash # Hash[c] /\ Return(c, "conflict") /\ UNCHANGED resp

\* Mutant: the remembered hash is not compared.
LookupLocalUnchecked(c, i) ==
    /\ pc[c] = "local" /\ i \in host[c]
    /\ \/ \E r \in records :
             r.at = i /\ r.key = Key[c] /\ Got(c, r.resp) /\ Return(c, "ok")
       \/ /\ \A r \in records : r.at = i => r.key # Key[c]
          /\ Goto(c, "store") /\ UNCHANGED resp
    /\ UNCHANGED <<records, store, executed, host, history>>

LookupLocal(c, i) ==
    /\ pc[c] = "local" /\ i \in host[c]
    /\ \/ \E r \in records : r.at = i /\ r.key = Key[c] /\ Replay(c, r)
       \/ /\ \A r \in records : r.at = i => r.key # Key[c]
          /\ Goto(c, "store") /\ UNCHANGED resp
    /\ UNCHANGED <<records, store, executed, host, history>>

\* A record of Redis is adopted by the process before it is answered.
GetCommandIdempotency(c) ==
    /\ pc[c] = "store"
    /\ \/ \E r \in store :
             /\ r.key = Key[c]
             /\ \/ r.hash = Hash[c] /\ Got(c, r.resp) /\ Goto(c, "adopt")
                \/ r.hash # Hash[c] /\ Return(c, "conflict") /\ UNCHANGED resp
       \/ /\ \A r \in store : r.key # Key[c]
          /\ Goto(c, "execute") /\ UNCHANGED resp
       \/ Return(c, "error") /\ UNCHANGED resp
    /\ UNCHANGED <<records, store, executed, host, history>>

\* The handler.  An error is returned at once and nothing is recorded.
Execute(c) ==
    /\ pc[c] = "execute"
    /\ \/ /\ executed' = executed \union {c}
          /\ Got(c, c)
          /\ IF Key[c] = "" THEN Return(c, "ok") ELSE Goto(c, "remember")
       \/ Return(c, "error") /\ UNCHANGED <<executed, resp>>
    /\ UNCHANGED <<records, store, host, history>>

Put(c, i) ==
    records' = {r \in records : r.at # i \/ r.key # Key[c]} \union
               {[at |-> i, key |-> Key[c], hash |-> Hash[c], resp |-> resp[c]]}

\* Mutant: the process remembers a response only when it comes from Redis.
rememberAdoptedOnly(c, i) ==
    /\ i \in host[c]
    /\ \/ pc[c] = "adopt" /\ Put(c, i) /\ Return(c, "ok")
       \/ pc[c] = "remember" /\ Goto(c, "save") /\ UNCHANGED records
    /\ UNCHANGED <<store, executed, host, resp, history>>

\* The response goes into the process's map, over what is there.
remember(c, i) ==
    /\ i \in host[c]
    /\ Put(c, i)
    /\ \/ pc[c] = "adopt" /\ Return(c, "ok")
       \/ pc[c] = "remember" /\ Goto(c, "save")
    /\ UNCHANGED <<store, executed, host, resp, history>>

StorePut(c) ==
    store' = {r \in store : r.key # Key[c]} \union
             {[key |-> Key[c], hash |-> Hash[c], resp |-> resp[c]]}

\* One transaction writes the hash and its TTL.  An error is returned to the
\* client although the handler has run.
SaveCommandIdempotency(c) ==
    /\ pc[c] = "save"
    /\ \/ StorePut(c) /\ Return(c, "ok") /\ UNCHANGED dropped
       \/ StorePut(c) /\ Return(c, "error") /\ UNCHANGED dropped
       \/ /\ Return(c, "error")
          /\ dropped' = dropped \union {Key[c]}
          /\ UNCHANGED store
    /\ UNCHANGED <<records, executed, host, resp, overlapped, crashed>>

\* command_idempotency_ttl passes.
Expire ==
    /\ \E r \in store :
          store' = store \ {r} /\ dropped' = dropped \union {r.key}
    /\ UNCHANGED <<records, executed, pc, host, resp, reply, overlapped, crashed>>

\* Calls of the process whose handler has returned but not its save.
Unsaved(i) == {c \in Calls : i \in host[c] /\ pc[c] \in {"remember", "save"}}

\* The process dies with its map and its calls.
Crash(i) ==
    /\ i \notin crashed
    /\ crashed' = crashed \union {i}
    /\ dropped' = dropped \union {Key[c] : c \in Unsaved(i)}
    /\ records' = {r \in records : r.at # i}
    /\ pc' = [c \in Calls |-> IF i \in host[c] THEN "done" ELSE pc[c]]
    /\ reply' = [c \in Calls |->
                   IF i \in host[c] /\ pc[c] # "done" THEN "error" ELSE reply[c]]
    /\ UNCHANGED <<store, executed, host, resp, overlapped>>

Next ==
    \/ \E c \in Calls, i \in Instances :
          Begin(c, i) \/ LookupLocal(c, i) \/ remember(c, i)
    \/ \E c \in Calls :
          GetCommandIdempotency(c) \/ Execute(c) \/ SaveCommandIdempotency(c)
    \/ Expire
    \/ \E i \in Instances : Crash(i)

Spec == Init /\ [][Next]_vars

-----------------------------------------------------------------------------

\* Types of the records in the processes and in Redis, and of the calls.
TypeOK ==
    /\ records \subseteq [at : Instances, key : {Key[c] : c \in Calls} \ {""},
                          hash : {Hash[c] : c \in Calls}, resp : Calls]
    /\ store \subseteq [key : {Key[c] : c \in Calls} \ {""},
                        hash : {Hash[c] : c \in Calls}, resp : Calls]
    /\ executed \subseteq Calls
    /\ pc \in [Calls -> {"idle", "local", "store", "adopt", "execute", "remember",
                         "save", "done"}]
    /\ host \in [Calls -> SUBSET Instances]
    /\ resp \in [Calls -> Calls \union {0}]
    /\ reply \in [Calls -> {"none", "ok", "conflict", "error"}]
    /\ overlapped \subseteq {Key[c] : c \in Calls}
    /\ dropped \subseteq {Key[c] : c \in Calls}
    /\ crashed \subseteq Instances

\* Dispatch answers a call with the response of a handler that ran for the same
\* key and the same payload, through two levels of records that overlapping
\* calls of several processes overwrite, and over expiry, faults and crashes.
AnswerIsOwn ==
    \A c \in Calls : reply[c] = "ok" =>
        \E d \in executed :
            resp[c] = d /\ Key[d] = Key[c] /\ Hash[d] = Hash[c]

\* Dispatch completes a handler at most once per key, unless two calls of the
\* key overlapped.  Redis provides this over all processes as long as it keeps
\* the record; when it does not, the process's own map still provides it for
\* the calls that process serves, until it crashes.
ExecutedOnce ==
    \A c, d \in executed :
        /\ Key[c] # "" /\ Key[c] = Key[d] /\ Key[c] \notin overlapped
        /\ Key[c] \notin dropped \/ (host[c] = host[d] /\ host[c] \cap crashed = {})
        => c = d

\* What a process has remembered for a key it never answers differently until
\* it is restarted: no remember replaces another response, unless calls of the
\* key overlapped, even when other processes have saved another in Redis.
RecordsKept ==
    [][\A r \in records, s \in records' :
          r.at = s.at /\ r.key = s.key /\ r.key \notin overlapped => r = s]_vars
=============================================================================
