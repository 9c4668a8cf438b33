---------------------------- MODULE RequestQueue ----------------------------
(***************************************************************************)
(* playersrv's command queue (app/playersrv/request_queue.go): a global    *)
(* capacity, one FIFO lane with one goroutine per role, a shared pool of   *)
(* worker slots, a timeout per request, and Close.                         *)
(*                                                                         *)
(* A job is one call of Dispatch.  Each select statement is one step, and  *)
(* takes any branch that is ready, its default only when none is; a branch *)
(* and the straight-line code that follows it belong together.  Handlers   *)
(* run in goroutines of their own and need not return when their context   *)
(* is done.                                                                *)
(***************************************************************************)
EXTENDS Integers, Sequences, FiniteSets

CONSTANTS
    Jobs,              \* calls of Dispatch
    RoleId,            \* the request's role_id by job, 0 when it has none
    Uid,               \* the request's uid by job
    Workers,           \* request_queue_workers
    Capacity,          \* request_queue_capacity
    RoleQueueCapacity  \* request_role_queue_capacity

ASSUME QueueAssumption ==
    /\ IsFiniteSet(Jobs)
    /\ RoleId \in [Jobs -> Int]
    /\ Uid \in [Jobs -> Int]
    /\ Workers \in Nat \ {0}
    /\ Capacity \in Nat \ {0}
    /\ RoleQueueCapacity \in Nat \ {0}

VARIABLES
    pc,          \* caller: its next select of Dispatch
    reply,       \* caller: what Dispatch returned
    ctxDone,     \* jobs whose context is done: deadline, cancellation, return
    capacity,    \* jobs that hold a token of the capacity channel
    slots,       \* jobs that hold a worker slot
    lane,        \* lane: its channel of jobs
    laneAt,      \* lane: where its goroutine is
    current,     \* lane: the set holding the job it handles
    result,      \* job: the content of its result channel
    handler,     \* job: its handler goroutine
    closing      \* Close: not called, waiting for the lanes, returned

caller == <<pc, reply>>
lanes == <<lane, laneAt, current>>
vars == <<caller, ctxDone, capacity, slots, lanes, result, handler, closing>>

\* Mutant: lanes by user instead of by role.
commandRoleIDByUid(j) == Uid[j]

commandRoleID(j) == IF RoleId[j] # 0 THEN RoleId[j] ELSE Uid[j]
Lanes == {commandRoleID(j) : j \in Jobs}

Closed == closing # "no"

Init ==
    /\ pc = [j \in Jobs |-> "new"]
    /\ reply = [j \in Jobs |-> "none"]
    /\ ctxDone = {} /\ capacity = {} /\ slots = {}
    /\ lane = [r \in Lanes |-> <<>>]
    /\ laneAt = [r \in Lanes |-> "absent"]
    /\ current = [r \in Lanes |-> {}]
    /\ result = [j \in Jobs |-> "none"]
    /\ handler = [j \in Jobs |-> "none"]
    /\ closing = "no"

-----------------------------------------------------------------------------
(* Dispatch.                                                               *)

Call(j) ==
    /\ pc[j] = "new"
    /\ pc' = [pc EXCEPT ![j] = "admit"]
    /\ UNCHANGED <<reply, ctxDone, capacity, slots, lanes, result, handler, closing>>

\* The deadline passes or the caller's context is cancelled.
Expire(j) ==
    /\ pc[j] \notin {"new", "returned"}
    /\ j \notin ctxDone
    /\ ctxDone' = ctxDone \union {j}
    /\ UNCHANGED <<caller, capacity, slots, lanes, result, handler, closing>>

\* Dispatch returns: the deferred cancel ends the job's context.
Return(j, r) ==
    /\ pc' = [pc EXCEPT ![j] = "returned"]
    /\ reply' = [reply EXCEPT ![j] = r]
    /\ ctxDone' = ctxDone \union {j}

ReleaseCapacity(j) == capacity' = capacity \ {j}

HasCapacity == Cardinality(capacity) < Capacity

Admit(j) ==
    /\ pc[j] = "admit"
    /\ \/ j \in ctxDone /\ Return(j, "ctx") /\ UNCHANGED capacity
       \/ Closed /\ Return(j, "closed") /\ UNCHANGED capacity
       \/ /\ HasCapacity
          /\ capacity' = capacity \union {j}
          /\ pc' = [pc EXCEPT ![j] = "enqueue"]
          /\ UNCHANGED <<reply, ctxDone>>
       \/ /\ j \notin ctxDone /\ ~Closed /\ ~HasCapacity
          /\ Return(j, "full")
          /\ UNCHANGED capacity
    /\ UNCHANGED <<slots, lanes, result, handler, closing>>

\* The lane's goroutine is started with the role's first job.
laneFor(r) ==
    laneAt' = [laneAt EXCEPT ![r] = IF @ = "absent" THEN "select" ELSE @]

HasRoom(r) == Len(lane[r]) < RoleQueueCapacity

\* Mutant: the lane is found full only after the job was put into it.
EnqueueThenCheck(j) ==
    LET r == commandRoleID(j) IN
    /\ pc[j] = "enqueue"
    /\ laneFor(r)
    /\ lane' = [lane EXCEPT ![r] = Append(@, j)]
    /\ \/ /\ HasRoom(r)
          /\ pc' = [pc EXCEPT ![j] = "wait"]
          /\ UNCHANGED <<reply, ctxDone, capacity>>
       \/ ~HasRoom(r) /\ ReleaseCapacity(j) /\ Return(j, "full")
    /\ UNCHANGED <<slots, current, result, handler, closing>>

Enqueue(j) ==
    LET r == commandRoleID(j) IN
    /\ pc[j] = "enqueue"
    /\ laneFor(r)
    /\ \/ /\ j \in ctxDone
          /\ ReleaseCapacity(j) /\ Return(j, "ctx") /\ UNCHANGED lane
       \/ /\ Closed
          /\ ReleaseCapacity(j) /\ Return(j, "closed") /\ UNCHANGED lane
       \/ /\ HasRoom(r)
          /\ lane' = [lane EXCEPT ![r] = Append(@, j)]
          /\ pc' = [pc EXCEPT ![j] = "wait"]
          /\ UNCHANGED <<reply, ctxDone, capacity>>
       \/ /\ j \notin ctxDone /\ ~Closed /\ ~HasRoom(r)
          /\ ReleaseCapacity(j) /\ Return(j, "full") /\ UNCHANGED lane
    /\ UNCHANGED <<slots, current, result, handler, closing>>

Wait(j) ==
    /\ pc[j] = "wait"
    /\ \/ j \in ctxDone /\ ReleaseCapacity(j) /\ Return(j, "ctx")
       \/ Closed /\ ReleaseCapacity(j) /\ Return(j, "closed")
       \/ result[j] # "none" /\ Return(j, result[j]) /\ UNCHANGED capacity
    /\ UNCHANGED <<slots, lanes, result, handler, closing>>

-----------------------------------------------------------------------------
(* A lane's goroutine: run and handle.                                     *)

LaneExit(r) ==
    /\ laneAt[r] = "select"
    /\ Closed
    /\ laneAt' = [laneAt EXCEPT ![r] = "exited"]
    /\ UNCHANGED <<caller, ctxDone, capacity, slots, lane, current, result, handler, closing>>

LaneTake(r) ==
    /\ laneAt[r] = "select"
    /\ lane[r] # <<>>
    /\ current' = [current EXCEPT ![r] = {Head(lane[r])}]
    /\ lane' = [lane EXCEPT ![r] = Tail(@)]
    /\ laneAt' = [laneAt EXCEPT ![r] = "check"]
    /\ UNCHANGED <<caller, ctxDone, capacity, slots, result, handler, closing>>

\* handle sends the job's result and returns, releasing its capacity.
Finish(r, j, res) ==
    /\ result' = [result EXCEPT ![j] = res]
    /\ ReleaseCapacity(j)
    /\ current' = [current EXCEPT ![r] = {}]
    /\ laneAt' = [laneAt EXCEPT ![r] = "select"]
    /\ UNCHANGED <<caller, ctxDone, lane, closing>>

CheckContext(r, j) ==
    /\ laneAt[r] = "check" /\ j \in current[r]
    /\ \/ j \in ctxDone /\ Finish(r, j, "ctx")
       \/ /\ j \notin ctxDone
          /\ laneAt' = [laneAt EXCEPT ![r] = "acquire"]
          /\ UNCHANGED <<caller, ctxDone, capacity, lane, current, result, closing>>
    /\ UNCHANGED <<slots, handler>>

\* A slot may be taken although the context is done: both branches are ready.
acquireWorker(r, j) ==
    /\ laneAt[r] = "acquire" /\ j \in current[r]
    /\ \/ j \in ctxDone /\ Finish(r, j, "ctx") /\ UNCHANGED <<slots, handler>>
       \/ Closed /\ Finish(r, j, "closed") /\ UNCHANGED <<slots, handler>>
       \/ /\ Cardinality(slots) < Workers
          /\ slots' = slots \union {j}
          /\ handler' = [handler EXCEPT ![j] = "running"]
          /\ laneAt' = [laneAt EXCEPT ![r] = "await"]
          /\ UNCHANGED <<caller, ctxDone, capacity, lane, current, result, closing>>

\* Mutant: only the handler releases the slot.
AwaitKeepsSlot(r, j) ==
    /\ laneAt[r] = "await" /\ j \in current[r]
    /\ \/ j \in ctxDone /\ Finish(r, j, "ctx")
       \/ handler[j] \in {"sent", "done"} /\ Finish(r, j, "answered")
    /\ UNCHANGED <<slots, handler>>

\* Mutant: the lane waits for the handler whatever its context says.
AwaitHandler(r, j) ==
    /\ laneAt[r] = "await" /\ j \in current[r]
    /\ handler[j] \in {"sent", "done"}
    /\ Finish(r, j, "answered")
    /\ UNCHANGED <<slots, handler>>

\* When the context is done the slot is released and the lane goes on, while
\* the handler runs on.
Await(r, j) ==
    /\ laneAt[r] = "await" /\ j \in current[r]
    /\ \/ /\ j \in ctxDone
          /\ Finish(r, j, "ctx")
          /\ slots' = slots \ {j}
       \/ /\ handler[j] \in {"sent", "done"}
          /\ Finish(r, j, "answered")
          /\ UNCHANGED slots
    /\ UNCHANGED handler

\* The handler returns and its goroutine sends what it returned to the lane.
HandlerReturn(j) ==
    /\ handler[j] = "running"
    /\ handler' = [handler EXCEPT ![j] = "sent"]
    /\ UNCHANGED <<caller, ctxDone, capacity, slots, lanes, result, closing>>

\* The goroutine's deferred release, which the lane may have overtaken.
releaseWorker(j) ==
    /\ handler[j] = "sent"
    /\ handler' = [handler EXCEPT ![j] = "done"]
    /\ slots' = slots \ {j}
    /\ UNCHANGED <<caller, ctxDone, capacity, lanes, result, closing>>

-----------------------------------------------------------------------------

Close ==
    /\ closing = "no"
    /\ closing' = "waiting"
    /\ UNCHANGED <<caller, ctxDone, capacity, slots, lanes, result, handler>>

\* q.wg.Wait() returns once every started lane goroutine has.
CloseReturn ==
    /\ closing = "waiting"
    /\ \A r \in Lanes : laneAt[r] \in {"absent", "exited"}
    /\ closing' = "returned"
    /\ UNCHANGED <<caller, ctxDone, capacity, slots, lanes, result, handler>>

Dispatch(j) == Admit(j) \/ Enqueue(j) \/ Wait(j)

Run(r) ==
    \/ LaneExit(r)
    \/ LaneTake(r)
    \/ \E j \in Jobs : CheckContext(r, j) \/ acquireWorker(r, j) \/ Await(r, j)

Next ==
    \/ \E j \in Jobs : Call(j) \/ Dispatch(j) \/ Expire(j)
    \/ \E j \in Jobs : HandlerReturn(j) \/ releaseWorker(j)
    \/ \E r \in Lanes : Run(r)
    \/ Close
    \/ CloseReturn

Spec == Init /\ [][Next]_vars

\* Go runs the queue's goroutines and its timers; a handler may hang for ever,
\* and Close need not be called.
FairSpec ==
    /\ Spec
    /\ \A j \in Jobs : 
          WF_vars(Dispatch(j)) /\ WF_vars(Expire(j)) /\ WF_vars(releaseWorker(j))
    /\ \A r \in Lanes : WF_vars(Run(r))
    /\ WF_vars(CloseReturn)

-----------------------------------------------------------------------------

\* Types of the callers, lanes, handlers and channels; no channel holds more
\* than it was made for.
TypeOK ==
    /\ pc \in [Jobs -> {"new", "admit", "enqueue", "wait", "returned"}]
    /\ reply \in [Jobs -> {"none", "ctx", "closed", "full", "answered"}]
    /\ ctxDone \subseteq Jobs
    /\ capacity \subseteq Jobs /\ Cardinality(capacity) <= Capacity
    /\ slots \subseteq Jobs /\ Cardinality(slots) <= Workers
    /\ lane \in [Lanes -> Seq(Jobs)]
    /\ \A r \in Lanes : Len(lane[r]) <= RoleQueueCapacity
    /\ laneAt \in [Lanes -> {"absent", "select", "check", "acquire", "await", "exited"}]
    /\ current \in [Lanes -> SUBSET Jobs]
    /\ result \in [Jobs -> {"none", "ctx", "closed", "answered"}]
    /\ handler \in [Jobs -> {"none", "running", "sent", "done"}]
    /\ closing \in {"no", "waiting", "returned"}

Running == {j \in Jobs : handler[j] = "running"}
Queued(j) == \E r \in Lanes : \E n \in 1..Len(lane[r]) : lane[r][n] = j
Handled(j) == \E r \in Lanes : j \in current[r]
SameRole(j, k) == RoleId[j] = RoleId[k] /\ RoleId[j] # 0

\* Of one role's handlers at most one runs whose context is not done: a lane
\* starts the next handler only when the previous one returned or timed out.
LiveRoleSerial ==
    \A j, k \in Running : j # k /\ SameRole(j, k) => j \in ctxDone \/ k \in ctxDone

\* Every running handler whose context is not done holds a slot, of which there
\* are as many as workers: neither handle nor the handler's own release gives
\* it back while the request is live.
LiveWorkersBounded == Running \ ctxDone \subseteq slots

\* Every request inside the queue whose context is not done is counted: no
\* path of Dispatch or handle gives its capacity back early.
LiveCapacityBounded ==
    \A j \in Jobs \ ctxDone : Queued(j) \/ Handled(j) => j \in capacity

\* A request answered with 429 was not and will not be executed, so that the
\* client may send it again.
RejectedNeverRuns ==
    \A j \in Jobs : reply[j] = "full" =>
        handler[j] = "none" /\ ~Queued(j) /\ ~Handled(j)

\* handle sends a job's result once, so its send into the one-element channel
\* never blocks the lane, whether or not Dispatch still listens.
ResultSentOnce ==
    \A r \in Lanes : \A j \in current[r] : result[j] = "none"

\* Every capacity token and worker slot comes back, although handlers may
\* hang for ever and Close may come at any time.
ResourcesReturn ==
    \A j \in Jobs : (j \in capacity \union slots) ~> [](j \notin capacity \union slots)

\* While the queue is open a lane always gets to its next job, although the
\* handler before it may hang for ever.
LanesDrain == \A j \in Jobs : Queued(j) ~> (~Queued(j) \/ Closed)

\* Close returns, although handlers may hang for ever and requests may still
\* be on their way in.
CloseReturns == (closing = "waiting") ~> (closing = "returned")
=============================================================================
