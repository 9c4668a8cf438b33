------------------------- MODULE RequestQueueProofs -------------------------
(***************************************************************************)
(* Proofs about RequestQueue for any jobs, roles, worker count and         *)
(* capacities.                                                             *)
(***************************************************************************)
EXTENDS RequestQueue, FiniteSetTheorems, TLAPS

\* The jobs in the channel of a lane.
LaneJobs(r) == {lane[r][n] : n \in 1..Len(lane[r])}

\* A job is in the channel of its own lane, or in the hands of its goroutine.
InLane(j) == j \in LaneJobs(commandRoleID(j))
InHand(j) == j \in current[commandRoleID(j)]

\* A lane holds a job once, only jobs of its role, and handles one at a time.
LaneOK(r) ==
    /\ \A m, n \in 1..Len(lane[r]) : lane[r][m] = lane[r][n] => m = n
    /\ \A j \in LaneJobs(r) : commandRoleID(j) = r /\ j \notin current[r]
    /\ \A j \in current[r] : commandRoleID(j) = r
    /\ \A j, k \in current[r] : j = k
    /\ laneAt[r] \in {"absent", "select", "exited"} => current[r] = {}

\* What is known of a job by its place.
JobOK(j) ==
    /\ InLane(j) \/ InHand(j) => result[j] = "none"
    /\ InLane(j) \/ (InHand(j) /\ laneAt[commandRoleID(j)] # "await") => handler[j] = "none"
    /\ InLane(j) \/ InHand(j) \/ handler[j] # "none" \/ result[j] # "none" =>
          pc[j] \in {"wait", "returned"} /\ reply[j] # "full"
    /\ pc[j] # "returned" => reply[j] # "full"
    /\ j \notin ctxDone /\ (pc[j] = "enqueue" \/ InLane(j) \/ InHand(j)) => j \in capacity
    /\ j \notin ctxDone /\ handler[j] = "running" =>
          j \in slots /\ InHand(j) /\ laneAt[commandRoleID(j)] = "await"

\* The inductive invariant.
Inv == TypeOK /\ (\A r \in Lanes : LaneOK(r)) /\ (\A j \in Jobs : JobOK(j))

-----------------------------------------------------------------------------
(* Types.                                                                  *)

LEMMA RoleIsLane == \A j \in Jobs : commandRoleID(j) \in Lanes
BY Zenon DEF Lanes

\* A bounded channel of tokens gains one when it has room, or loses one.
LEMMA Tokens ==
    ASSUME NEW S, S \subseteq Jobs, NEW N \in Nat, Cardinality(S) <= N, NEW j \in Jobs
    PROVE  /\ Cardinality(S \ {j}) <= N
           /\ Cardinality(S) < N => Cardinality(S \union {j}) <= N
<1>1. IsFiniteSet(S)
  BY QueueAssumption, FS_Subset, Zenon
<1>2. Cardinality(S) \in Nat
  BY <1>1, FS_CardinalityType, Zenon
<1>3. Cardinality(S \ {j}) = IF j \in S THEN Cardinality(S) - 1 ELSE Cardinality(S)
  BY <1>1, FS_RemoveElement, Zenon
<1>4. Cardinality(S \union {j}) = IF j \in S THEN Cardinality(S) ELSE Cardinality(S) + 1
  BY <1>1, FS_AddElement, Zenon
<1> QED BY <1>2, <1>3, <1>4

\* Types of the callers, of the lanes and of the rest.
CallersOK ==
    /\ pc \in [Jobs -> {"new", "admit", "enqueue", "wait", "returned"}]
    /\ reply \in [Jobs -> {"none", "ctx", "closed", "full", "answered"}]
    /\ ctxDone \subseteq Jobs
CapacityOK == capacity \subseteq Jobs /\ Cardinality(capacity) <= Capacity
SlotsOK == slots \subseteq Jobs /\ Cardinality(slots) <= Workers
LanesOK ==
    /\ lane \in [Lanes -> Seq(Jobs)]
    /\ \A r \in Lanes : Len(lane[r]) <= RoleQueueCapacity
    /\ laneAt \in [Lanes -> {"absent", "select", "check", "acquire", "await", "exited"}]
    /\ current \in [Lanes -> SUBSET Jobs]
OthersOK ==
    /\ result \in [Jobs -> {"none", "ctx", "closed", "answered"}]
    /\ handler \in [Jobs -> {"none", "running", "sent", "done"}]
    /\ closing \in {"no", "waiting", "returned"}

LEMMA TypeIs == TypeOK <=> CallersOK /\ CapacityOK /\ SlotsOK /\ LanesOK /\ OthersOK
BY Zenon DEF TypeOK, CallersOK, CapacityOK, SlotsOK, LanesOK, OthersOK

LEMMA TypeIsNext ==
    TypeOK' <=> CallersOK' /\ CapacityOK' /\ SlotsOK' /\ LanesOK' /\ OthersOK'
BY Zenon DEF TypeOK, CallersOK, CapacityOK, SlotsOK, LanesOK, OthersOK

LEMMA CapacityStep ==
    ASSUME CapacityOK, NEW j \in Jobs,
           \/ UNCHANGED capacity \/ ReleaseCapacity(j)
           \/ HasCapacity /\ capacity' = capacity \union {j}
    PROVE  CapacityOK'
BY QueueAssumption, Tokens, Zenon DEF CapacityOK, ReleaseCapacity, HasCapacity

LEMMA SlotsStep ==
    ASSUME SlotsOK, NEW j \in Jobs,
           \/ UNCHANGED slots \/ slots' = slots \ {j}
           \/ Cardinality(slots) < Workers /\ slots' = slots \union {j}
    PROVE  SlotsOK'
BY QueueAssumption, Tokens, Zenon DEF SlotsOK

LEMMA ReturnStep ==
    ASSUME CallersOK, NEW j \in Jobs, NEW r \in {"ctx", "closed", "full", "answered"}, Return(j, r)
    PROVE  CallersOK'
BY Zenon DEF CallersOK, Return

LEMMA FinishStep ==
    ASSUME LanesOK, OthersOK, CapacityOK, CallersOK, NEW r \in Lanes, NEW j \in Jobs,
           NEW res \in {"ctx", "closed", "answered"}, Finish(r, j, res),
           handler' \in [Jobs -> {"none", "running", "sent", "done"}]
    PROVE  LanesOK' /\ OthersOK' /\ CapacityOK' /\ CallersOK'
<1>1. CapacityOK'
  BY CapacityStep, Zenon DEF Finish
<1>2. LanesOK'
  BY Zenon DEF Finish, LanesOK
<1>3. OthersOK'
  BY Zenon DEF Finish, OthersOK
<1>4. CallersOK'
  BY Zenon DEF Finish, CallersOK, caller
<1> QED BY <1>1, <1>2, <1>3, <1>4, Zenon

LEMMA TypeStep == ASSUME TypeOK, [Next]_vars PROVE TypeOK'
<1>0. CallersOK /\ CapacityOK /\ SlotsOK /\ LanesOK /\ OthersOK
  BY TypeIs, Zenon
<1> USE DEF caller, lanes
<1>1. ASSUME NEW j \in Jobs, Call(j) \/ Expire(j) PROVE TypeOK'
  BY <1>1 DEF Call, Expire, TypeOK
<1>2. ASSUME NEW j \in Jobs, Admit(j) PROVE TypeOK'
  <2>1. SlotsOK' /\ LanesOK' /\ OthersOK'
    BY <1>0, <1>2, Zenon DEF Admit, SlotsOK, LanesOK, OthersOK
  <2>2. CapacityOK'
    BY <1>0, <1>2, CapacityStep, Zenon DEF Admit
  <2>3. CallersOK'
    <3>1. CASE \E r \in {"ctx", "closed", "full"} : Return(j, r)
      BY <1>0, <3>1, ReturnStep, Zenon
    <3>2. CASE pc' = [pc EXCEPT ![j] = "enqueue"] /\ UNCHANGED <<reply, ctxDone>>
      BY <1>0, <3>2, Zenon DEF CallersOK
    <3> QED BY <1>2, <3>1, <3>2, Zenon DEF Admit
  <2> QED BY <2>1, <2>2, <2>3, TypeIsNext, Zenon
<1>3. ASSUME NEW j \in Jobs, Enqueue(j) PROVE TypeOK'
  <2> DEFINE r == commandRoleID(j)
  <2>0. r \in Lanes
    BY RoleIsLane, Zenon
  <2>1. SlotsOK' /\ OthersOK'
    BY <1>0, <1>3, Zenon DEF Enqueue, SlotsOK, OthersOK
  <2>2. CapacityOK'
    BY <1>0, <1>3, CapacityStep, Zenon DEF Enqueue
  <2>3. CallersOK'
    <3>1. CASE \E x \in {"ctx", "closed", "full"} : Return(j, x)
      BY <1>0, <3>1, ReturnStep, Zenon
    <3>2. CASE pc' = [pc EXCEPT ![j] = "wait"] /\ UNCHANGED <<reply, ctxDone>>
      BY <1>0, <3>2, Zenon DEF CallersOK
    <3> QED BY <1>3, <3>1, <3>2, Zenon DEF Enqueue
  <2>4. LanesOK'
    <3> HIDE DEF r
    <3>1. /\ laneFor(r) /\ UNCHANGED current
          /\ UNCHANGED lane \/ (HasRoom(r) /\ lane' = [lane EXCEPT ![r] = Append(@, j)])
      BY <1>3, Zenon DEF Enqueue, r
    <3>2. laneAt' \in [Lanes -> {"absent", "select", "check", "acquire", "await", "exited"}]
      BY <1>0, <2>0, <3>1, Zenon DEF laneFor, LanesOK
    <3>3. CASE UNCHANGED lane
      BY <1>0, <3>1, <3>2, <3>3, Zenon DEF LanesOK
    <3>4. CASE HasRoom(r) /\ lane' = [lane EXCEPT ![r] = Append(@, j)]
      <4>1. lane[r] \in Seq(Jobs) /\ Len(lane[r]) \in Nat
        BY <1>0, <2>0 DEF LanesOK
      <4>2. Append(lane[r], j) \in Seq(Jobs) /\ Len(Append(lane[r], j)) = Len(lane[r]) + 1
        BY <4>1
      <4>3. Len(Append(lane[r], j)) <= RoleQueueCapacity
        BY <3>4, <4>1, <4>2, QueueAssumption DEF HasRoom
      <4> QED BY <1>0, <2>0, <3>1, <3>2, <3>4, <4>2, <4>3, Zenon DEF LanesOK
    <3> QED BY <3>1, <3>3, <3>4, Zenon
  <2> QED BY <2>1, <2>2, <2>3, <2>4, TypeIsNext, Zenon
<1>4. ASSUME NEW j \in Jobs, Wait(j) PROVE TypeOK'
  <2>1. SlotsOK' /\ LanesOK' /\ OthersOK'
    BY <1>0, <1>4, Zenon DEF Wait, SlotsOK, LanesOK, OthersOK
  <2>2. CapacityOK'
    BY <1>0, <1>4, CapacityStep, Zenon DEF Wait
  <2>3. CallersOK'
    <3>1. \E x \in {"ctx", "closed", "answered"} : Return(j, x)
      BY <1>0, <1>4, Zenon DEF Wait, OthersOK
    <3> QED BY <1>0, <3>1, ReturnStep, Zenon
  <2> QED BY <2>1, <2>2, <2>3, TypeIsNext, Zenon
<1>5. ASSUME NEW r \in Lanes, LaneExit(r) PROVE TypeOK'
  BY <1>5, Zenon DEF LaneExit, TypeOK
<1>6. ASSUME NEW r \in Lanes, LaneTake(r) PROVE TypeOK'
  <2>1. CallersOK' /\ CapacityOK' /\ SlotsOK' /\ OthersOK'
    BY <1>0, <1>6, Zenon DEF LaneTake, CallersOK, CapacityOK, SlotsOK, OthersOK
  <2>2. lane[r] \in Seq(Jobs) /\ lane[r] # <<>> /\ Len(lane[r]) <= RoleQueueCapacity
    BY <1>0, <1>6, Zenon DEF LaneTake, LanesOK
  <2>3. /\ Head(lane[r]) \in Jobs /\ Tail(lane[r]) \in Seq(Jobs)
        /\ Len(Tail(lane[r])) <= RoleQueueCapacity
    BY <2>2, QueueAssumption
  <2>4. LanesOK'
    BY <1>0, <1>6, <2>3, Zenon DEF LaneTake, LanesOK
  <2> QED BY <2>1, <2>4, TypeIsNext, Zenon
<1>7. ASSUME NEW r \in Lanes, NEW j \in Jobs, CheckContext(r, j) PROVE TypeOK'
  <2>1. SlotsOK' /\ handler' \in [Jobs -> {"none", "running", "sent", "done"}]
    BY <1>0, <1>7, Zenon DEF CheckContext, SlotsOK, OthersOK
  <2>2. CASE Finish(r, j, "ctx")
    BY <1>0, <2>1, <2>2, FinishStep, TypeIsNext, Zenon
  <2>3. CASE /\ laneAt' = [laneAt EXCEPT ![r] = "acquire"]
             /\ UNCHANGED <<caller, ctxDone, capacity, lane, current, result, closing>>
    BY <1>7, <2>3, Zenon DEF CheckContext, TypeOK
  <2> QED BY <1>7, <2>2, <2>3, Zenon DEF CheckContext
<1>8. ASSUME NEW r \in Lanes, NEW j \in Jobs, acquireWorker(r, j) PROVE TypeOK'
  <2>1. SlotsOK' /\ handler' \in [Jobs -> {"none", "running", "sent", "done"}]
    BY <1>0, <1>8, SlotsStep, Zenon DEF acquireWorker, OthersOK
  <2>2. CASE Finish(r, j, "ctx") \/ Finish(r, j, "closed")
    BY <1>0, <2>1, <2>2, FinishStep, TypeIsNext, Zenon
  <2>3. CASE /\ laneAt' = [laneAt EXCEPT ![r] = "await"]
             /\ UNCHANGED <<caller, ctxDone, capacity, lane, current, result, closing>>
    <3>1. CallersOK' /\ CapacityOK' /\ LanesOK' /\ OthersOK'
      BY <1>0, <2>1, <2>3, Zenon DEF CallersOK, CapacityOK, LanesOK, OthersOK
    <3> QED BY <2>1, <3>1, TypeIsNext, Zenon
  <2> QED BY <1>8, <2>2, <2>3, Zenon DEF acquireWorker
<1>9. ASSUME NEW r \in Lanes, NEW j \in Jobs, Await(r, j) PROVE TypeOK'
  <2>1. SlotsOK' /\ handler' \in [Jobs -> {"none", "running", "sent", "done"}]
    BY <1>0, <1>9, SlotsStep, Zenon DEF Await, OthersOK
  <2>2. Finish(r, j, "ctx") \/ Finish(r, j, "answered")
    BY <1>9, Zenon DEF Await
  <2> QED BY <1>0, <2>1, <2>2, FinishStep, TypeIsNext, Zenon
<1>10. ASSUME NEW j \in Jobs, HandlerReturn(j) PROVE TypeOK'
  BY <1>10, Zenon DEF HandlerReturn, TypeOK
<1>11. ASSUME NEW j \in Jobs, releaseWorker(j) PROVE TypeOK'
  <2>1. SlotsOK'
    BY <1>0, <1>11, SlotsStep, Zenon DEF releaseWorker
  <2>2. CallersOK' /\ CapacityOK' /\ LanesOK' /\ OthersOK'
    BY <1>0, <1>11, Zenon DEF releaseWorker, CallersOK, CapacityOK, LanesOK, OthersOK
  <2> QED BY <2>1, <2>2, TypeIsNext, Zenon
<1>12. CASE Close \/ CloseReturn \/ UNCHANGED vars
  BY <1>12, Zenon DEF Close, CloseReturn, vars, TypeOK
<1> QED BY <1>1, <1>2, <1>3, <1>4, <1>5, <1>6, <1>7, <1>8, <1>9, <1>10, <1>11, <1>12, Zenon
        DEF Next, Dispatch, Run

-----------------------------------------------------------------------------
(* What a step leaves alone.                                               *)

\* The step tells job k nothing new but that its context is done.
SameJob(k) ==
    /\ pc'[k] = pc[k] /\ reply'[k] = reply[k] /\ result'[k] = result[k]
    /\ handler'[k] = handler[k]
    /\ k \in ctxDone => k \in ctxDone'
    /\ k \in capacity => k \in capacity'
    /\ k \in slots => k \in slots'

\* The step leaves job k where it is.
SamePlace(k) ==
    /\ InLane(k)' <=> InLane(k)
    /\ InHand(k)' <=> InHand(k)
    /\ InHand(k) => laneAt'[commandRoleID(k)] = laneAt[commandRoleID(k)]

LEMMA JobKept ==
    ASSUME NEW k \in Jobs, JobOK(k), SameJob(k), SamePlace(k) PROVE JobOK(k)'
BY Zenon DEF JobOK, SameJob, SamePlace

LEMMA LanesKept ==
    ASSUME UNCHANGED lanes
    PROVE  /\ \A r \in Lanes : LaneOK(r) => LaneOK(r)'
           /\ \A k \in Jobs : SamePlace(k)
BY Zenon DEF lanes, LaneOK, SamePlace, InLane, InHand, LaneJobs

\* A lane whose channel is left alone.
LEMMA LaneJobsKept ==
    ASSUME NEW r \in Lanes, lane'[r] = lane[r] PROVE LaneJobs(r)' = LaneJobs(r)
BY Zenon DEF LaneJobs

\* A job is nowhere but in its own lane.
LEMMA OwnLane ==
    ASSUME \A r \in Lanes : LaneOK(r), TypeOK, NEW j \in Jobs
    PROVE  (Queued(j) <=> InLane(j)) /\ (Handled(j) <=> InHand(j))
BY RoleIsLane DEF Queued, Handled, InLane, InHand, LaneOK, LaneJobs

\* Return tells only the caller's job.
LEMMA ReturnIs ==
    ASSUME TypeOK, NEW j \in Jobs, NEW x, Return(j, x)
    PROVE  /\ pc'[j] = "returned" /\ reply'[j] = x /\ j \in ctxDone'
           /\ ctxDone \subseteq ctxDone'
           /\ \A k \in Jobs \ {j} : pc'[k] = pc[k] /\ reply'[k] = reply[k]
BY Zenon DEF TypeOK, Return

-----------------------------------------------------------------------------
(* The steps of the callers.                                               *)

\* What the steps of Dispatch may do to their own job: it waits for a place,
\* returns, or its context ends.
LEMMA CallerStep ==
    ASSUME Inv, NEW j \in Jobs, Call(j) \/ Expire(j) \/ Admit(j) \/ Wait(j)
    PROVE  (\A r \in Lanes : LaneOK(r)') /\ (\A k \in Jobs : JobOK(k)')
<1>1. UNCHANGED lanes /\ UNCHANGED <<slots, result, handler>>
  BY Zenon DEF Call, Expire, Admit, Wait
<1>2. (\A r \in Lanes : LaneOK(r)') /\ (\A k \in Jobs : SamePlace(k))
  BY <1>1, LanesKept, Zenon DEF Inv
<1>3. TypeOK /\ JobOK(j)
  BY Zenon DEF Inv
<1>4. /\ \A k \in Jobs \ {j} : pc'[k] = pc[k] /\ reply'[k] = reply[k]
      /\ ctxDone \subseteq ctxDone' /\ capacity \ {j} \subseteq capacity'
  <2>1. CASE Call(j)
    BY <1>3, <2>1, Zenon DEF Call, TypeOK
  <2>2. CASE Expire(j)
    BY <2>2, Zenon DEF Expire, caller
  <2>3. CASE Admit(j)
    <3>1. capacity \subseteq capacity'
      BY <2>3, Zenon DEF Admit
    <3>2. CASE pc' = [pc EXCEPT ![j] = "enqueue"] /\ UNCHANGED <<reply, ctxDone>>
      BY <1>3, <3>1, <3>2, Zenon DEF TypeOK
    <3>3. CASE \E x \in {"ctx", "closed", "full"} : Return(j, x)
      BY <1>3, <3>1, <3>3, ReturnIs, Zenon
    <3> QED BY <2>3, <3>2, <3>3, Zenon DEF Admit
  <2>4. CASE Wait(j)
    <3>1. capacity \ {j} \subseteq capacity' /\ \E x : Return(j, x)
      BY <2>4, Zenon DEF Wait, ReleaseCapacity
    <3> QED BY <1>3, <3>1, ReturnIs, Zenon
  <2> QED BY <2>1, <2>2, <2>3, <2>4, Zenon
<1>5. \A k \in Jobs \ {j} : SameJob(k)
  BY <1>1, <1>4, Zenon DEF SameJob
<1>6. \A k \in Jobs \ {j} : JobOK(k)'
  BY <1>2, <1>5, JobKept, Zenon DEF Inv
<1>7. JobOK(j)'
  <2>1. SamePlace(j) /\ result'[j] = result[j] /\ handler'[j] = handler[j]
    BY <1>1, <1>2, Zenon
  <2>2. CASE Call(j)
    <3>1. pc[j] = "new" /\ pc'[j] = "admit" /\ UNCHANGED <<reply, ctxDone, capacity, slots>>
      BY <1>3, <2>2, Zenon DEF Call, TypeOK
    <3> QED BY <1>3, <2>1, <3>1, Zenon DEF JobOK, SamePlace
  <2>3. CASE Expire(j)
    <3>1. SameJob(j)
      BY <1>1, <2>3, Zenon DEF Expire, SameJob, caller
    <3> QED BY <1>3, <2>1, <3>1, JobKept, Zenon
  <2>4. CASE Admit(j) /\ \E x \in {"ctx", "closed", "full"} : Return(j, x)
    <3>1. pc[j] = "admit" /\ pc'[j] = "returned" /\ j \in ctxDone'
      BY <1>3, <2>4, ReturnIs, Zenon DEF Admit
    <3>2. ~ InLane(j) /\ ~ InHand(j) /\ handler[j] = "none" /\ result[j] = "none"
      BY <1>3, <3>1, Zenon DEF JobOK
    <3> QED BY <2>1, <3>1, <3>2, Zenon DEF JobOK, SamePlace
  <2>5. CASE /\ pc[j] = "admit" /\ pc' = [pc EXCEPT ![j] = "enqueue"]
             /\ capacity' = capacity \union {j} /\ UNCHANGED reply
    <3>1. pc'[j] = "enqueue" /\ j \in capacity' /\ reply'[j] # "full"
      BY <1>3, <2>5, Zenon DEF TypeOK, JobOK
    <3>2. ~ InLane(j) /\ ~ InHand(j) /\ handler[j] = "none" /\ result[j] = "none"
      BY <1>3, <2>5, Zenon DEF JobOK
    <3> QED BY <2>1, <3>1, <3>2, Zenon DEF JobOK, SamePlace
  <2>6. CASE Wait(j)
    <3>1. \E x \in {"ctx", "closed", "answered"} : Return(j, x)
      BY <1>3, <2>6, Zenon DEF Wait, TypeOK
    <3>2. pc'[j] = "returned" /\ j \in ctxDone' /\ reply'[j] # "full"
      BY <1>3, <3>1, ReturnIs, Zenon
    <3> QED BY <1>3, <2>1, <3>2, Zenon DEF JobOK, SamePlace
  <2>7. CASE Admit(j)
    BY <2>4, <2>5, <2>7, Zenon DEF Admit
  <2> QED BY <2>2, <2>3, <2>6, <2>7, Zenon
<1> QED BY <1>2, <1>6, <1>7, Zenon

\* A handler's goroutine returns or releases its slot; Close begins or ends.
LEMMA OtherStep ==
    ASSUME Inv, \/ \E j \in Jobs : HandlerReturn(j) \/ releaseWorker(j)
                \/ Close \/ CloseReturn \/ UNCHANGED vars
    PROVE  (\A r \in Lanes : LaneOK(r)') /\ (\A k \in Jobs : JobOK(k)')
<1>1. UNCHANGED lanes /\ UNCHANGED <<pc, reply, ctxDone, capacity, result>>
  BY Zenon DEF HandlerReturn, releaseWorker, Close, CloseReturn, vars, caller
<1>2. (\A r \in Lanes : LaneOK(r)') /\ (\A k \in Jobs : SamePlace(k))
  BY <1>1, LanesKept, Zenon DEF Inv
<1>3. ASSUME NEW j \in Jobs, HandlerReturn(j) \/ releaseWorker(j), NEW k \in Jobs
      PROVE  JobOK(k)'
  <2>1. /\ handler[j] \in {"running", "sent"} /\ handler'[j] \in {"sent", "done"}
        /\ k # j => handler'[k] = handler[k]
        /\ slots \ {j} \subseteq slots'
    BY <1>3 DEF HandlerReturn, releaseWorker, Inv, TypeOK
  <2>2. CASE k = j
    BY <1>1, <1>2, <2>1, <2>2, Zenon DEF Inv, JobOK, SamePlace
  <2>3. CASE k # j
    <3>1. SameJob(k)
      BY <1>1, <2>1, <2>3, Zenon DEF SameJob
    <3> QED BY <1>2, <3>1, JobKept, Zenon DEF Inv
  <2> QED BY <2>2, <2>3, Zenon
<1>4. ASSUME Close \/ CloseReturn \/ UNCHANGED vars, NEW k \in Jobs PROVE JobOK(k)'
  <2>1. UNCHANGED <<slots, handler>>
    BY <1>4, Zenon DEF Close, CloseReturn, vars
  <2>2. SameJob(k)
    BY <1>1, <2>1, Zenon DEF SameJob
  <2> QED BY <1>2, <2>2, JobKept, Zenon DEF Inv
<1> QED BY <1>2, <1>3, <1>4, Zenon

-----------------------------------------------------------------------------
(* The steps of the lanes.                                                 *)

\* A step of lane r and of the job j leaves the other lanes and jobs alone.
OtherLanes(r) ==
    \A q \in Lanes \ {r} :
        lane'[q] = lane[q] /\ laneAt'[q] = laneAt[q] /\ current'[q] = current[q]

LEMMA OtherLanesKept ==
    ASSUME Inv, NEW r \in Lanes, OtherLanes(r)
    PROVE  /\ \A q \in Lanes \ {r} : LaneOK(q)'
           /\ \A k \in Jobs : commandRoleID(k) # r => SamePlace(k)
<1>1. ASSUME NEW q \in Lanes \ {r} PROVE LaneOK(q)'
  <2>1. LaneJobs(q)' = LaneJobs(q)
    BY LaneJobsKept, Zenon DEF OtherLanes
  <2> QED BY <2>1 DEF OtherLanes, Inv, LaneOK
<1>2. ASSUME NEW k \in Jobs, commandRoleID(k) # r PROVE SamePlace(k)
  <2>1. LaneJobs(commandRoleID(k))' = LaneJobs(commandRoleID(k))
    BY <1>2, RoleIsLane, LaneJobsKept, Zenon DEF OtherLanes
  <2> QED BY <1>2, <2>1, RoleIsLane, Zenon DEF OtherLanes, SamePlace, InLane, InHand
<1> QED BY <1>1, <1>2, Zenon

\* A job joins the channel of a lane, and leaves it at its head.
LEMMA AppendIs ==
    ASSUME NEW s \in Seq(Jobs), NEW j \in Jobs,
           \A n \in 1..Len(s) : s[n] # j,
           \A m, n \in 1..Len(s) : s[m] = s[n] => m = n
    PROVE  LET t == Append(s, j) IN
           /\ {t[n] : n \in 1..Len(t)} = {s[n] : n \in 1..Len(s)} \union {j}
           /\ \A m, n \in 1..Len(t) : t[m] = t[n] => m = n
<1> DEFINE t == Append(s, j)
<1>1. /\ Len(s) \in Nat /\ Len(t) = Len(s) + 1 /\ t[Len(t)] = j
      /\ \A n \in 1..Len(s) : t[n] = s[n]
  OBVIOUS
<1>2. \A n \in 1..Len(t) : n \in 1..Len(s) \/ n = Len(t)
  BY <1>1
<1>3. 1..Len(s) \subseteq 1..Len(t) /\ Len(t) \in 1..Len(t)
  BY <1>1
<1> HIDE DEF t
<1>4. {t[n] : n \in 1..Len(t)} = {s[n] : n \in 1..Len(s)} \union {j}
  BY <1>1, <1>2, <1>3
<1>5. \A m, n \in 1..Len(t) : t[m] = t[n] => m = n
  BY <1>1, <1>2, Zenon
<1> QED BY <1>4, <1>5, Zenon DEF t

LEMMA TailIs ==
    ASSUME NEW s \in Seq(Jobs), s # <<>>,
           \A m, n \in 1..Len(s) : s[m] = s[n] => m = n
    PROVE  LET t == Tail(s) IN
           /\ {t[n] : n \in 1..Len(t)} = {s[n] : n \in 1..Len(s)} \ {Head(s)}
           /\ \A m, n \in 1..Len(t) : t[m] = t[n] => m = n
           /\ Head(s) \in {s[n] : n \in 1..Len(s)} /\ Head(s) \in Jobs
<1> DEFINE t == Tail(s)
<1>1. /\ Len(s) \in Nat \ {0} /\ Len(t) = Len(s) - 1 /\ Head(s) = s[1]
      /\ \A n \in 1..Len(t) : t[n] = s[n + 1]
  OBVIOUS
<1>2. /\ \A n \in 1..Len(t) : n + 1 \in 1..Len(s) /\ n + 1 # 1
      /\ \A n \in 1..Len(s) : n = 1 \/ (n - 1 \in 1..Len(t) /\ (n - 1) + 1 = n)
      /\ 1 \in 1..Len(s)
  BY <1>1
<1> HIDE DEF t
<1>3. ASSUME NEW n \in 1..Len(t) PROVE t[n] \in {s[m] : m \in 1..Len(s)} \ {Head(s)}
  BY <1>1, <1>2
<1>4. ASSUME NEW x \in {s[m] : m \in 1..Len(s)} \ {Head(s)}
      PROVE  \E n \in 1..Len(t) : x = t[n]
  <2>1. PICK m \in 1..Len(s) : x = s[m]
    OBVIOUS
  <2>2. m # 1
    BY <1>1, <2>1, Zenon
  <2>3. m - 1 \in 1..Len(t) /\ t[m - 1] = s[m]
    BY <1>1, <1>2, <2>2, Zenon
  <2> QED BY <2>1, <2>3, Zenon
<1>5. {t[n] : n \in 1..Len(t)} = {s[n] : n \in 1..Len(s)} \ {Head(s)}
  <2> DEFINE A == {s[n] : n \in 1..Len(s)} \ {Head(s)}
  <2>1. (\A n \in 1..Len(t) : t[n] \in A) /\ (\A x \in A : \E n \in 1..Len(t) : x = t[n])
    BY <1>3, <1>4, Zenon
  <2> HIDE DEF A
  <2>2. {t[n] : n \in 1..Len(t)} = A
    BY <2>1
  <2> QED BY <2>2, Zenon DEF A
<1>6. ASSUME NEW m \in 1..Len(t), NEW n \in 1..Len(t), t[m] = t[n] PROVE m = n
  <2>1. m + 1 = n + 1
    BY <1>1, <1>2, <1>6, Zenon
  <2> QED BY <1>1, <2>1
<1>7. Head(s) \in {s[n] : n \in 1..Len(s)} /\ Head(s) \in Jobs
  BY <1>1, <1>2
<1> QED BY <1>5, <1>6, <1>7, Zenon DEF t

LEMMA AppendLane ==
    ASSUME NEW r \in Lanes, NEW j \in Jobs, lane[r] \in Seq(Jobs),
           lane'[r] = Append(lane[r], j),
           \A n \in 1..Len(lane[r]) : lane[r][n] # j,
           \A m, n \in 1..Len(lane[r]) : lane[r][m] = lane[r][n] => m = n
    PROVE  /\ LaneJobs(r)' = LaneJobs(r) \union {j}
           /\ \A m, n \in 1..Len(lane'[r]) : lane'[r][m] = lane'[r][n] => m = n
<1>1. PICK t : t = Append(lane[r], j)
  OBVIOUS
<1>2. /\ {t[n] : n \in 1..Len(t)} = {lane[r][n] : n \in 1..Len(lane[r])} \union {j}
      /\ \A m, n \in 1..Len(t) : t[m] = t[n] => m = n
  BY <1>1, AppendIs
<1>3. lane'[r] = t
  BY <1>1, Zenon
<1>4. LaneJobs(r)' = {t[n] : n \in 1..Len(t)}
  BY <1>3, Zenon DEF LaneJobs
<1>5. \A m, n \in 1..Len(lane'[r]) : lane'[r][m] = lane'[r][n] => m = n
  BY <1>2, <1>3, Zenon
<1> QED BY <1>2, <1>4, <1>5, Zenon DEF LaneJobs

LEMMA EnqueueStep ==
    ASSUME Inv, NEW j \in Jobs, Enqueue(j)
    PROVE  (\A r \in Lanes : LaneOK(r)') /\ (\A k \in Jobs : JobOK(k)')
<1> DEFINE r == commandRoleID(j)
<1>0. r \in Lanes /\ TypeOK /\ JobOK(j) /\ LaneOK(r)
  BY RoleIsLane, Zenon DEF Inv
<1>1. /\ pc[j] = "enqueue" /\ laneFor(r) /\ UNCHANGED <<slots, current, result, handler>>
      /\ \/ UNCHANGED lane /\ ReleaseCapacity(j)
            /\ \E x \in {"ctx", "closed", "full"} : Return(j, x)
         \/ /\ lane' = [lane EXCEPT ![r] = Append(@, j)]
            /\ pc' = [pc EXCEPT ![j] = "wait"]
            /\ UNCHANGED <<reply, ctxDone, capacity>>
  BY Zenon DEF Enqueue
<1> HIDE DEF r
<1>2. /\ laneAt'[r] = IF laneAt[r] = "absent" THEN "select" ELSE laneAt[r]
      /\ OtherLanes(r)
  BY <1>0, <1>1 DEF laneFor, TypeOK, OtherLanes
<1>3. ~ InLane(j) /\ ~ InHand(j) /\ handler[j] = "none" /\ result[j] = "none"
      /\ (j \notin ctxDone => j \in capacity)
  BY <1>0, <1>1, Zenon DEF JobOK
<1>4. \A k \in Jobs \ {j} : SameJob(k)
  <2>1. CASE ReleaseCapacity(j) /\ \E x \in {"ctx", "closed", "full"} : Return(j, x)
    BY <1>0, <1>1, <2>1, ReturnIs, Zenon DEF ReleaseCapacity, SameJob
  <2>2. CASE pc' = [pc EXCEPT ![j] = "wait"] /\ UNCHANGED <<reply, ctxDone, capacity>>
    BY <1>0, <1>1, <2>2, Zenon DEF TypeOK, SameJob
  <2> QED BY <1>1, <2>1, <2>2, Zenon
<1>5. CASE UNCHANGED lane /\ \E x \in {"ctx", "closed", "full"} : Return(j, x)
  <2>1. LaneJobs(r)' = LaneJobs(r)
    BY <1>0, <1>5, LaneJobsKept, Zenon
  <2>2. LaneOK(r)'
    BY <1>0, <1>1, <1>2, <1>5, <2>1, Zenon DEF LaneOK
  <2>3. \A k \in Jobs : commandRoleID(k) = r => SamePlace(k)
    BY <1>0, <1>1, <1>2, <2>1, Zenon DEF SamePlace, InLane, InHand, LaneOK
  <2>4. (\A q \in Lanes : LaneOK(q)') /\ (\A k \in Jobs : SamePlace(k))
    BY <1>0, <1>2, <2>2, <2>3, OtherLanesKept, Zenon
  <2>5. \A k \in Jobs \ {j} : JobOK(k)'
    BY <1>4, <2>4, JobKept, Zenon DEF Inv
  <2>6. pc'[j] = "returned" /\ j \in ctxDone'
    BY <1>0, <1>5, ReturnIs, Zenon
  <2>7. JobOK(j)'
    BY <1>1, <1>3, <2>4, <2>6, Zenon DEF JobOK, SamePlace
  <2> QED BY <2>4, <2>5, <2>7, Zenon
<1>6. CASE /\ lane' = [lane EXCEPT ![r] = Append(@, j)]
           /\ pc' = [pc EXCEPT ![j] = "wait"]
           /\ UNCHANGED <<reply, ctxDone, capacity>>
  <2>1. lane[r] \in Seq(Jobs) /\ lane'[r] = Append(lane[r], j)
    BY <1>0, <1>6, Zenon DEF TypeOK
  <2>2. \A n \in 1..Len(lane[r]) : lane[r][n] # j
    BY <1>3, Zenon DEF InLane, LaneJobs, r
  <2>3. /\ LaneJobs(r)' = LaneJobs(r) \union {j}
        /\ \A m, n \in 1..Len(lane'[r]) : lane'[r][m] = lane'[r][n] => m = n
    BY <1>0, <2>1, <2>2, AppendLane, Zenon DEF LaneOK
  <2>4. LaneOK(r)'
    <3>1. commandRoleID(j) = r /\ j \notin current'[r]
      BY <1>1, <1>3, Zenon DEF InHand, r
    <3> QED BY <1>0, <1>1, <1>2, <2>3, <3>1, Zenon DEF LaneOK
  <2>5. \A k \in Jobs \ {j} : commandRoleID(k) = r => SamePlace(k)
    BY <1>0, <1>1, <1>2, <2>3, Zenon DEF SamePlace, InLane, InHand, LaneOK
  <2>6. (\A q \in Lanes : LaneOK(q)') /\ (\A k \in Jobs \ {j} : SamePlace(k))
    BY <1>0, <1>2, <2>4, <2>5, OtherLanesKept, Zenon
  <2>7. \A k \in Jobs \ {j} : JobOK(k)'
    BY <1>4, <2>6, JobKept, Zenon DEF Inv
  <2>8. pc'[j] = "wait" /\ ~ InHand(j)' /\ reply'[j] # "full"
    <3>1. ~ InHand(j)'
      BY <1>1, <1>3, Zenon DEF InHand
    <3>2. reply'[j] # "full"
      BY <1>0, <1>1, <1>6, Zenon DEF JobOK
    <3> QED BY <1>0, <1>6, <3>1, <3>2, Zenon DEF TypeOK
  <2>9. JobOK(j)'
    BY <1>1, <1>3, <1>6, <2>8, Zenon DEF JobOK
  <2> QED BY <2>6, <2>7, <2>9, Zenon
<1> QED BY <1>1, <1>5, <1>6, Zenon

LEMMA TakeStep ==
    ASSUME Inv, NEW r \in Lanes, LaneTake(r)
    PROVE  (\A q \in Lanes : LaneOK(q)') /\ (\A k \in Jobs : JobOK(k)')
<1>0. TypeOK /\ LaneOK(r) /\ lane[r] \in Seq(Jobs) /\ lane[r] # <<>>
  BY Zenon DEF Inv, TypeOK, LaneTake
<1>a. PICK h \in Jobs : h = Head(lane[r])
  BY <1>0
<1>1. /\ laneAt[r] = "select"
      /\ current'[r] = {h} /\ lane'[r] = Tail(lane[r]) /\ laneAt'[r] = "check"
      /\ OtherLanes(r) /\ UNCHANGED <<pc, reply, ctxDone, capacity, slots, result, handler>>
  BY <1>0, <1>a, Zenon DEF LaneTake, TypeOK, OtherLanes, caller
<1>2. /\ LaneJobs(r)' = LaneJobs(r) \ {h} /\ h \in LaneJobs(r)
      /\ \A m, n \in 1..Len(lane'[r]) : lane'[r][m] = lane'[r][n] => m = n
  <2>1. \A m, n \in 1..Len(lane[r]) : lane[r][m] = lane[r][n] => m = n
    BY <1>0, Zenon DEF LaneOK
  <2> DEFINE t == Tail(lane[r])
  <2>2. /\ {t[n] : n \in 1..Len(t)} = LaneJobs(r) \ {h} /\ h \in LaneJobs(r)
        /\ \A m, n \in 1..Len(t) : t[m] = t[n] => m = n
    BY <1>0, <1>a, <2>1, TailIs, Zenon DEF LaneJobs
  <2>3. lane'[r] = t
    BY <1>1, Zenon
  <2> HIDE DEF t
  <2> QED BY <2>2, <2>3 DEF LaneJobs
<1>3. current[r] = {} /\ commandRoleID(h) = r
  BY <1>0, <1>1, <1>2, Zenon DEF LaneOK
<1>4. LaneOK(r)'
  BY <1>0, <1>1, <1>2, <1>3, Zenon DEF LaneOK
<1>5. \A k \in Jobs \ {h} : commandRoleID(k) = r => SamePlace(k)
  BY <1>1, <1>2, <1>3, Zenon DEF SamePlace, InLane, InHand
<1>6. (\A q \in Lanes : LaneOK(q)') /\ (\A k \in Jobs \ {h} : SamePlace(k))
  BY <1>1, <1>3, <1>4, <1>5, OtherLanesKept, Zenon
<1>7. \A k \in Jobs \ {h} : JobOK(k)'
  BY <1>1, <1>6, JobKept, Zenon DEF Inv, SameJob
<1>8. InLane(h) /\ ~ InLane(h)' /\ InHand(h)' /\ laneAt'[commandRoleID(h)] = "check"
  BY <1>1, <1>2, <1>3, Zenon DEF InLane, InHand
<1>9. JobOK(h)'
  BY <1>1, <1>2, <1>8, Zenon DEF Inv, JobOK
<1> QED BY <1>6, <1>7, <1>9, Zenon

\* A lane at work goes on with the job it has, or finishes it: no other job is
\* in its hands.
LEMMA WorkStep ==
    ASSUME Inv, NEW r \in Lanes, NEW j \in Jobs, j \in current[r], OtherLanes(r),
           lane'[r] = lane[r], laneAt[r] \in {"check", "acquire", "await"},
           \/ current'[r] = {} /\ laneAt'[r] = "select"
           \/ current'[r] = current[r] /\ laneAt'[r] \in {"acquire", "await"},
           \A k \in Jobs \ {j} : SameJob(k)
    PROVE  /\ \A q \in Lanes : LaneOK(q)'
           /\ \A k \in Jobs \ {j} : JobOK(k)'
           /\ commandRoleID(j) = r /\ InHand(j) /\ ~ InLane(j) /\ ~ InLane(j)'
           /\ InHand(j)' <=> current'[r] # {}
<1>1. LaneJobs(r)' = LaneJobs(r) /\ LaneOK(r)
  BY LaneJobsKept, Zenon DEF Inv
<1>2. commandRoleID(j) = r /\ j \notin LaneJobs(r) /\ (\A k \in current[r] : k = j)
  BY <1>1, Zenon DEF LaneOK
<1>3. LaneOK(r)'
  BY <1>1, Zenon DEF LaneOK
<1>4. \A k \in Jobs \ {j} : commandRoleID(k) = r => SamePlace(k)
  BY <1>1, <1>2, Zenon DEF SamePlace, InLane, InHand
<1>5. (\A q \in Lanes : LaneOK(q)') /\ (\A k \in Jobs \ {j} : SamePlace(k))
  BY <1>2, <1>3, <1>4, OtherLanesKept, Zenon
<1>6. \A k \in Jobs \ {j} : JobOK(k)'
  BY <1>5, JobKept, Zenon DEF Inv
<1>7. InHand(j) /\ ~ InLane(j) /\ ~ InLane(j)' /\ (InHand(j)' <=> current'[r] # {})
  BY <1>1, <1>2, Zenon DEF InHand, InLane
<1> QED BY <1>2, <1>5, <1>6, <1>7, Zenon

\* handle returns: its handler has returned, was never started or is no longer
\* waited for.
LEMMA FinishIs ==
    ASSUME Inv, NEW r \in Lanes, NEW j \in Jobs, j \in current[r],
           laneAt[r] \in {"check", "acquire", "await"},
           NEW res \in {"ctx", "closed", "answered"}, Finish(r, j, res),
           UNCHANGED handler, slots \ {j} \subseteq slots',
           j \in ctxDone \/ handler[j] # "running"
    PROVE  (\A q \in Lanes : LaneOK(q)') /\ (\A k \in Jobs : JobOK(k)')
<1>1. /\ result'[j] = res /\ \A k \in Jobs \ {j} : result'[k] = result[k]
      /\ current'[r] = {} /\ laneAt'[r] = "select" /\ lane'[r] = lane[r]
      /\ OtherLanes(r) /\ UNCHANGED <<pc, reply, ctxDone>> /\ capacity' = capacity \ {j}
  BY Zenon DEF Finish, Inv, TypeOK, OtherLanes, caller, ReleaseCapacity
<1>2. \A k \in Jobs \ {j} : SameJob(k)
  BY <1>1, Zenon DEF SameJob
<1>3. /\ \A q \in Lanes : LaneOK(q)'
      /\ \A k \in Jobs \ {j} : JobOK(k)'
      /\ InHand(j) /\ ~ InLane(j)' /\ ~ InHand(j)'
  BY <1>1, <1>2, WorkStep, Zenon
<1>4. pc[j] \in {"wait", "returned"} /\ reply[j] # "full"
  BY <1>3, Zenon DEF Inv, JobOK
<1>5. JobOK(j)'
  BY <1>1, <1>3, <1>4, Zenon DEF JobOK
<1> QED BY <1>3, <1>5, Zenon

LEMMA LaneStep ==
    ASSUME Inv, NEW r \in Lanes, Run(r)
    PROVE  (\A q \in Lanes : LaneOK(q)') /\ (\A k \in Jobs : JobOK(k)')
<1> DEFINE Goal == (\A q \in Lanes : LaneOK(q)') /\ (\A k \in Jobs : JobOK(k)')
<1>0. TypeOK /\ LaneOK(r)
  BY Zenon DEF Inv
<1>1. ASSUME LaneExit(r) PROVE Goal
  <2>1. /\ laneAt[r] = "select" /\ laneAt'[r] = "exited" /\ OtherLanes(r)
        /\ lane'[r] = lane[r] /\ current'[r] = current[r]
        /\ UNCHANGED <<pc, reply, ctxDone, capacity, slots, result, handler>>
    BY <1>0, <1>1, Zenon DEF LaneExit, TypeOK, OtherLanes, caller
  <2>2. LaneJobs(r)' = LaneJobs(r) /\ current[r] = {}
    BY <1>0, <2>1, LaneJobsKept, Zenon DEF LaneOK
  <2>3. LaneOK(r)'
    BY <1>0, <2>1, <2>2, Zenon DEF LaneOK
  <2>4. \A k \in Jobs : commandRoleID(k) = r => SamePlace(k)
    BY <2>1, <2>2, Zenon DEF SamePlace, InLane, InHand
  <2>5. (\A q \in Lanes : LaneOK(q)') /\ (\A k \in Jobs : SamePlace(k))
    BY <2>1, <2>3, <2>4, OtherLanesKept, Zenon
  <2>6. \A k \in Jobs : SameJob(k)
    BY <2>1, Zenon DEF SameJob
  <2> QED BY <2>5, <2>6, JobKept, Zenon DEF Inv
<1>2. ASSUME LaneTake(r) PROVE Goal
  BY <1>2, TakeStep, Zenon
<1>3. ASSUME NEW j \in Jobs, j \in current[r], laneAt[r] \in {"check", "acquire"},
             laneAt' = [laneAt EXCEPT ![r] = "acquire"], UNCHANGED <<slots, handler>>,
             UNCHANGED <<caller, ctxDone, capacity, lane, current, result>>
      PROVE  Goal
  <2>1. /\ laneAt'[r] = "acquire" /\ OtherLanes(r) /\ lane'[r] = lane[r]
        /\ current'[r] = current[r]
    BY <1>0, <1>3, Zenon DEF TypeOK, OtherLanes
  <2>2. \A k \in Jobs : SameJob(k)
    BY <1>3, Zenon DEF SameJob, caller
  <2>3. /\ (\A q \in Lanes : LaneOK(q)') /\ (\A k \in Jobs \ {j} : JobOK(k)')
        /\ commandRoleID(j) = r /\ InHand(j) /\ ~ InLane(j)'
    BY <1>3, <2>1, <2>2, WorkStep, Zenon
  <2>4. JobOK(j)'
    BY <1>3, <2>1, <2>2, <2>3 DEF Inv, JobOK, SameJob
  <2> QED BY <2>3, <2>4, Zenon
<1>4. ASSUME NEW j \in Jobs, j \in current[r], laneAt[r] = "acquire",
             slots' = slots \union {j}, handler' = [handler EXCEPT ![j] = "running"],
             laneAt' = [laneAt EXCEPT ![r] = "await"],
             UNCHANGED <<caller, ctxDone, capacity, lane, current, result>>
      PROVE  Goal
  <2>1. /\ laneAt'[r] = "await" /\ OtherLanes(r) /\ lane'[r] = lane[r]
        /\ current'[r] = current[r] /\ handler'[j] = "running"
    BY <1>0, <1>4, Zenon DEF TypeOK, OtherLanes
  <2>2. \A k \in Jobs \ {j} : SameJob(k)
    BY <1>0, <1>4, Zenon DEF SameJob, caller, TypeOK
  <2>3. /\ (\A q \in Lanes : LaneOK(q)') /\ (\A k \in Jobs \ {j} : JobOK(k)')
        /\ commandRoleID(j) = r /\ InHand(j) /\ ~ InLane(j)' /\ InHand(j)'
    BY <1>4, <2>1, <2>2, WorkStep, Zenon
  <2>4. JobOK(j)'
    <3>1. /\ JobOK(j) /\ j \in slots' /\ laneAt'[commandRoleID(j)] = "await"
          /\ UNCHANGED <<pc, reply, ctxDone, capacity, result>>
      BY <1>4, <2>1, <2>3, Zenon DEF Inv, caller
    <3>2. /\ pc[j] \in {"wait", "returned"} /\ reply[j] # "full" /\ result[j] = "none"
          /\ (j \notin ctxDone => j \in capacity)
      BY <2>3, <3>1, Zenon DEF JobOK
    <3> QED BY <2>1, <2>3, <3>1, <3>2, Zenon DEF JobOK
  <2> QED BY <2>3, <2>4, Zenon
<1>5. ASSUME NEW j \in Jobs, CheckContext(r, j) PROVE Goal
  <2>1. j \in current[r] /\ laneAt[r] = "check" /\ UNCHANGED <<slots, handler>>
    BY <1>5, Zenon DEF CheckContext
  <2>2. CASE j \in ctxDone /\ Finish(r, j, "ctx")
    BY <2>1, <2>2, FinishIs, Zenon
  <2>3. CASE /\ laneAt' = [laneAt EXCEPT ![r] = "acquire"]
             /\ UNCHANGED <<caller, ctxDone, capacity, lane, current, result, closing>>
    BY <1>3, <2>1, <2>3, Zenon
  <2> QED BY <1>5, <2>2, <2>3, Zenon DEF CheckContext
<1>6. ASSUME NEW j \in Jobs, acquireWorker(r, j) PROVE Goal
  <2>1. j \in current[r] /\ laneAt[r] = "acquire"
    BY <1>6, Zenon DEF acquireWorker
  <2>2. handler[j] = "none"
    <3>1. InHand(j) /\ laneAt[commandRoleID(j)] = "acquire"
      BY <1>0, <2>1, Zenon DEF LaneOK, InHand
    <3> QED BY <3>1, Zenon DEF Inv, JobOK
  <2>3. ASSUME NEW res \in {"ctx", "closed"}, Finish(r, j, res), UNCHANGED <<slots, handler>>
        PROVE  Goal
    BY <2>1, <2>2, <2>3, FinishIs, Zenon
  <2>4. ASSUME slots' = slots \union {j}, handler' = [handler EXCEPT ![j] = "running"],
               laneAt' = [laneAt EXCEPT ![r] = "await"],
               UNCHANGED <<caller, ctxDone, capacity, lane, current, result, closing>>
        PROVE  Goal
    BY <1>4, <2>1, <2>4, Zenon
  <2> HIDE DEF Goal
  <2> QED BY <1>6, <2>3, <2>4, Zenon DEF acquireWorker
<1>7. ASSUME NEW j \in Jobs, Await(r, j) PROVE Goal
  <2>1. j \in current[r] /\ laneAt[r] = "await" /\ UNCHANGED handler
    BY <1>7, Zenon DEF Await
  <2>2. CASE j \in ctxDone /\ Finish(r, j, "ctx") /\ slots' = slots \ {j}
    BY <2>1, <2>2, FinishIs, Zenon
  <2>3. CASE handler[j] \in {"sent", "done"} /\ Finish(r, j, "answered") /\ UNCHANGED slots
    BY <2>1, <2>3, FinishIs, Zenon
  <2> QED BY <1>7, <2>2, <2>3, Zenon DEF Await
<1> HIDE DEF Goal
<1>8. Goal
  BY <1>1, <1>2, <1>5, <1>6, <1>7, Zenon DEF Run
<1> QED BY <1>8, Zenon DEF Goal

-----------------------------------------------------------------------------
(* The theorems.                                                           *)

LEMMA InitInv == Init => Inv
<1> SUFFICES ASSUME Init PROVE Inv
  OBVIOUS
<1>1. Cardinality({}) = 0
  BY FS_EmptySet, Zenon
<1>2. TypeOK
  BY <1>1, QueueAssumption DEF Init, TypeOK
<1>3. \A r \in Lanes : LaneOK(r)
  BY DEF Init, LaneOK, LaneJobs
<1>4. \A j \in Jobs : JobOK(j)
  BY RoleIsLane DEF Init, JobOK, InLane, InHand, LaneJobs
<1> QED BY <1>2, <1>3, <1>4, Zenon DEF Inv

LEMMA StepInv == ASSUME Inv, [Next]_vars PROVE Inv'
<1> DEFINE Goal == (\A q \in Lanes : LaneOK(q)') /\ (\A k \in Jobs : JobOK(k)')
<1>1. ASSUME NEW j \in Jobs, Call(j) \/ Expire(j) \/ Admit(j) \/ Wait(j) PROVE Goal
  BY <1>1, CallerStep, Zenon
<1>2. ASSUME NEW j \in Jobs, Enqueue(j) PROVE Goal
  BY <1>2, EnqueueStep, Zenon
<1>3. ASSUME NEW r \in Lanes, Run(r) PROVE Goal
  BY <1>3, LaneStep, Zenon
<1>4. ASSUME \/ \E j \in Jobs : HandlerReturn(j) \/ releaseWorker(j)
             \/ Close \/ CloseReturn \/ UNCHANGED vars
      PROVE  Goal
  BY <1>4, OtherStep, Zenon
<1> HIDE DEF Goal
<1>5. Goal
  BY <1>1, <1>2, <1>3, <1>4, Zenon DEF Next, Dispatch
<1>6. TypeOK'
  BY TypeStep, Zenon DEF Inv
<1> QED BY <1>5, <1>6, Zenon DEF Goal, Inv

LEMMA Invariance == Spec => []Inv
BY InitInv, StepInv, PTL DEF Spec

\* The channels of capacity, of worker slots and of the lanes never hold more
\* than they were made for.
THEOREM TypeCorrect == Spec => []TypeOK
<1>1. Inv => TypeOK
  BY Zenon DEF Inv
<1> QED BY <1>1, Invariance, PTL

\* However many roles, jobs and workers there are, of one role's handlers at
\* most one runs whose request is still live.
THEOREM RoleSerial == Spec => []LiveRoleSerial
<1>1. ASSUME Inv PROVE LiveRoleSerial
  <2> SUFFICES ASSUME NEW j \in Running, NEW k \in Running, SameRole(j, k),
                      j \notin ctxDone, k \notin ctxDone
               PROVE  j = k
    BY Zenon DEF LiveRoleSerial
  <2>1. j \in Jobs /\ k \in Jobs /\ commandRoleID(j) = commandRoleID(k)
    BY Zenon DEF Running, SameRole, commandRoleID
  <2>2. InHand(j) /\ InHand(k)
    BY <1>1, <2>1, Zenon DEF Running, Inv, JobOK
  <2>3. LaneOK(commandRoleID(j))
    BY <1>1, <2>1, RoleIsLane, Zenon DEF Inv
  <2> QED BY <2>1, <2>2, <2>3, Zenon DEF InHand, LaneOK
<1> QED BY <1>1, Invariance, PTL

\* A live running handler holds one of the request_queue_workers slots.
THEOREM WorkersBounded == Spec => []LiveWorkersBounded
<1>1. Inv => LiveWorkersBounded
  BY Zenon DEF Inv, JobOK, LiveWorkersBounded, Running
<1> QED BY <1>1, Invariance, PTL

\* A live request inside the queue counts against request_queue_capacity.
THEOREM CapacityBounded == Spec => []LiveCapacityBounded
<1>1. Inv => LiveCapacityBounded
  BY OwnLane, Zenon DEF Inv, JobOK, LiveCapacityBounded
<1> QED BY <1>1, Invariance, PTL

\* What Dispatch answered with 429 is in no lane and never had a handler.
THEOREM RejectedStayOut == Spec => []RejectedNeverRuns
<1>1. Inv => RejectedNeverRuns
  BY OwnLane, Zenon DEF Inv, JobOK, RejectedNeverRuns
<1> QED BY <1>1, Invariance, PTL

\* handle never finds the result channel of its job filled.
THEOREM ResultOnce == Spec => []ResultSentOnce
<1>1. ASSUME Inv PROVE ResultSentOnce
  <2> SUFFICES ASSUME NEW r \in Lanes, NEW j \in current[r] PROVE result[j] = "none"
    BY Zenon DEF ResultSentOnce
  <2>1. j \in Jobs /\ commandRoleID(j) = r
    BY <1>1, Zenon DEF Inv, TypeOK, LaneOK
  <2>2. InHand(j)
    BY <2>1, Zenon DEF InHand
  <2> QED BY <1>1, <2>1, <2>2, Zenon DEF Inv, JobOK
<1> QED BY <1>1, Invariance, PTL
=============================================================================
