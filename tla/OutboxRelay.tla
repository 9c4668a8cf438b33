---------------------------- MODULE OutboxRelay ----------------------------
(***************************************************************************)
(* mailrelaysrv: every worker fetches a batch of outbox rows, projects     *)
(* each row's mail into Redis, publishes the change event to Kafka and     *)
(* records the outcome in MySQL (domain/globalmail/outbox.go, the outbox   *)
(* half of data/mysql/repository.go, app/mailrelaysrv/worker.go).          *)
(*                                                                         *)
(* A publish transaction writes one mail and one outbox row, so the event  *)
(* id also names the mail.  Every call to MySQL, Redis or Kafka is one     *)
(* step, and every call may fail with or without having taken effect.      *)
(* locked_by is left out: no statement of the code reads it.               *)
(***************************************************************************)
EXTENDS Integers, FiniteSets

CONSTANTS
    Events,        \* outbox event ids, ordered as event_id is
    Relays,        \* relay workers
    FetchLimit,    \* mail_relay.fetch_limit
    MaxRetries,    \* mail_relay.max_retries
    MaxCrashes     \* bound on relay crashes

ASSUME RelayAssumption ==
    /\ Events \subseteq Int
    /\ FetchLimit \in Nat \ {0}
    /\ MaxRetries \in Nat \ {0}
    /\ MaxCrashes \in Nat

VARIABLES
    status,        \* outbox row: its status, "absent" before the insert
    retryCount,    \* outbox row: retry_count
    due,           \* rows whose next_retry_time or locked_until has passed
    detail,        \* Redis: mails with a GlobalMail:{id} key
    index,         \* Redis: members of GlobalMailActiveIndex
    version,       \* Redis: GlobalMailVersion, 0 when absent
    kafka,         \* events written to the topic at least once
    pc,            \* relay: the next call Flush makes
    work,          \* relay: the events of its batch not yet finished
    seen,          \* relay: the retry_count MarkFailed has read, else 0
    overrun,       \* history: rows whose lock expired under a working relay
    crashes

row == <<status, retryCount, due>>
redis == <<detail, index, version>>
relay == <<pc, work, seen>>
history == <<overrun, crashes>>
vars == <<row, redis, kafka, relay, history>>

Status == {"absent", "pending", "processing", "published", "failed"}
Operations == {"idle", "load", "detail", "index", "version", "publish",
          "markPublished", "countRetries", "markFailed"}

\* Publish sets mail.Version = 1 for every mail, and the event carries it.
EventVersion == 1

Init ==
    /\ status = [e \in Events |-> "absent"]
    /\ retryCount = [e \in Events |-> 0]
    /\ due = {}
    /\ detail = {} /\ index = {} /\ version = 0 /\ kafka = {}
    /\ pc = [r \in Relays |-> "idle"]
    /\ work = [r \in Relays |-> {}]
    /\ seen = [r \in Relays |-> 0]
    /\ overrun = {} /\ crashes = 0

-----------------------------------------------------------------------------
(* The outbox table.                                                       *)

\* The publish transaction commits: a pending row with no retry time.
CreateOutbox(e) ==
    /\ status[e] = "absent"
    /\ status' = [status EXCEPT ![e] = "pending"]
    /\ due' = due \union {e}
    /\ UNCHANGED <<retryCount, redis, kafka, relay, history>>

\* The clock passes next_retry_time (pending) or locked_until (processing),
\* while a relay may still be working on the row.
Elapse(e) ==
    /\ status[e] \in {"pending", "processing"}
    /\ e \notin due
    /\ due' = due \union {e}
    /\ overrun' = IF \E r \in Relays : e \in work[r] THEN overrun \union {e} ELSE overrun
    /\ UNCHANGED <<status, retryCount, redis, kafka, relay, crashes>>

\* Mutant: a processing row is claimed although its lock has not expired.
EligibleLocked == {e \in Events :
    status[e] = "processing" \/ (status[e] = "pending" /\ e \in due)}

\* Mutant: processing rows are never claimed again.
EligiblePendingOnly == {e \in Events : status[e] = "pending" /\ e \in due}

Eligible == {e \in Events : status[e] \in {"pending", "processing"} /\ e \in due}

\* The batch SELECT ... ORDER BY event_id LIMIT limit returns.
IsBatch(batch) ==
    /\ Cardinality(batch) <= FetchLimit
    /\ batch # Eligible => Cardinality(batch) = FetchLimit
    /\ \A e \in batch, f \in Eligible \ batch : e < f

\* One transaction locks and claims the batch.  Its answer may be lost, and
\* then the rows are processing although no relay works on them.
FetchPending(r) ==
    /\ pc[r] = "idle"
    /\ \E batch \in SUBSET Eligible :
          /\ IsBatch(batch)
          /\ status' = [e \in Events |-> IF e \in batch THEN "processing" ELSE status[e]]
          /\ due' = due \ batch
          /\ \/ /\ work' = [work EXCEPT ![r] = batch]
                /\ pc' = [pc EXCEPT ![r] = IF batch = {} THEN "idle" ELSE "load"]
             \/ UNCHANGED <<work, pc>>
    /\ UNCHANGED <<retryCount, redis, kafka, seen, history>>

-----------------------------------------------------------------------------
(* Flush: one event of the batch at a time, in event_id order.             *)

At(r, call, e) ==
    /\ pc[r] = call
    /\ e \in work[r]
    /\ \A f \in work[r] : e <= f

Goto(r, call) ==
    /\ pc' = [pc EXCEPT ![r] = call]
    /\ UNCHANGED <<work, seen, history>>

\* continue, or the end of the loop
NextEvent(r, e) ==
    /\ work' = [work EXCEPT ![r] = @ \ {e}]
    /\ pc' = [pc EXCEPT ![r] = IF work[r] = {e} THEN "idle" ELSE "load"]
    /\ seen' = [seen EXCEPT ![r] = 0]
    /\ UNCHANGED history

\* Decode the payload and read the mail from MySQL.  A payload that cannot be
\* decoded fails every time, and is treated like every other failure.
LoadMail(r, e) ==
    /\ At(r, "load", e)
    /\ Goto(r, "detail") \/ Goto(r, "countRetries")
    /\ UNCHANGED <<row, redis, kafka>>

\* Mutant: the error of the Redis SET is ignored.
SetGlobalMailUnchecked(r, e) ==
    /\ At(r, "detail", e)
    /\ detail' \in {detail, detail \union {e}} /\ Goto(r, "index")
    /\ UNCHANGED <<row, index, version, kafka>>

SetGlobalMail(r, e) ==
    /\ At(r, "detail", e)
    /\ \/ detail' = detail \union {e} /\ Goto(r, "index")
       \/ detail' \in {detail, detail \union {e}} /\ Goto(r, "countRetries")
    /\ UNCHANGED <<row, index, version, kafka>>

AddGlobalMailToIndexes(r, e) ==
    /\ At(r, "index", e)
    /\ \/ index' = index \union {e} /\ Goto(r, "version")
       \/ index' \in {index, index \union {e}} /\ Goto(r, "countRetries")
    /\ UNCHANGED <<row, detail, version, kafka>>

\* The Lua script: GlobalMailVersion moves up to the target, never down.
Advanced == IF version < EventVersion THEN EventVersion ELSE version

AdvanceGlobalMailVersion(r, e) ==
    /\ At(r, "version", e)
    /\ \/ version' = Advanced /\ Goto(r, "publish")
       \/ version' \in {version, Advanced} /\ Goto(r, "countRetries")
    /\ UNCHANGED <<row, detail, index, kafka>>

\* Mutant: the error of the Kafka write is ignored.
PublishGlobalMailChangedUnchecked(r, e) ==
    /\ At(r, "publish", e)
    /\ kafka' \in {kafka, kafka \union {e}} /\ Goto(r, "markPublished")
    /\ UNCHANGED <<row, redis>>

PublishGlobalMailChanged(r, e) ==
    /\ At(r, "publish", e)
    /\ \/ kafka' = kafka \union {e} /\ Goto(r, "markPublished")
       \/ kafka' \in {kafka, kafka \union {e}} /\ Goto(r, "countRetries")
    /\ UNCHANGED <<row, redis>>

-----------------------------------------------------------------------------
(* Recording the outcome.  No UPDATE looks at the row's status or lock.    *)

SetPublished(e) ==
    /\ status' = [status EXCEPT ![e] = "published"]
    /\ due' = due \ {e}
    /\ UNCHANGED retryCount

MarkPublished(r, e) ==
    /\ At(r, "markPublished", e)
    /\ SetPublished(e)
    /\ NextEvent(r, e)
    /\ UNCHANGED <<redis, kafka>>

\* Mutant: a failed MarkPublished is followed by MarkFailed, like every other
\* failure.
MarkPublishedFailsThenRetries(r, e) ==
    /\ At(r, "markPublished", e)
    /\ SetPublished(e) \/ UNCHANGED row
    /\ Goto(r, "countRetries")
    /\ UNCHANGED <<redis, kafka>>

\* An error here ends Flush: the rest of the batch stays processing.
MarkPublishedFails(r, e) ==
    /\ At(r, "markPublished", e)
    /\ SetPublished(e) \/ UNCHANGED row
    /\ work' = [work EXCEPT ![r] = {}]
    /\ pc' = [pc EXCEPT ![r] = "idle"]
    /\ UNCHANGED <<seen, redis, kafka, history>>

\* MarkFailed first reads retry_count in a statement of its own.
CountRetries(r, e) ==
    /\ At(r, "countRetries", e)
    /\ pc' = [pc EXCEPT ![r] = "markFailed"]
    /\ seen' = [seen EXCEPT ![r] = retryCount[e]]
    /\ UNCHANGED <<row, redis, kafka, work, history>>

\* Flush ignores MarkFailed's error and goes on with the next event.
CountRetriesFails(r, e) ==
    /\ At(r, "countRetries", e)
    /\ NextEvent(r, e)
    /\ UNCHANGED <<row, redis, kafka>>

\* Mutant: one retry too many.
MarkFailedOffByOne(r, e) ==
    /\ At(r, "markFailed", e)
    /\ status' = [status EXCEPT ![e] =
                    IF seen[r] >= MaxRetries THEN "failed" ELSE "pending"]
    /\ retryCount' = [retryCount EXCEPT ![e] = @ + 1]
    /\ due' = due \ {e}
    /\ NextEvent(r, e)
    /\ UNCHANGED <<redis, kafka>>

MarkFailed(r, e) ==
    /\ At(r, "markFailed", e)
    /\ status' = [status EXCEPT ![e] =
                    IF seen[r] + 1 >= MaxRetries THEN "failed" ELSE "pending"]
    /\ retryCount' = [retryCount EXCEPT ![e] = @ + 1]
    /\ due' = due \ {e}
    /\ NextEvent(r, e)
    /\ UNCHANGED <<redis, kafka>>

MarkFailedFails(r, e) ==
    /\ At(r, "markFailed", e)
    /\ NextEvent(r, e)
    /\ UNCHANGED <<row, redis, kafka>>

\* The process dies and is restarted; its rows stay processing.
Crash(r) ==
    /\ pc[r] # "idle"
    /\ crashes < MaxCrashes
    /\ crashes' = crashes + 1
    /\ pc' = [pc EXCEPT ![r] = "idle"]
    /\ work' = [work EXCEPT ![r] = {}]
    /\ seen' = [seen EXCEPT ![r] = 0]
    /\ UNCHANGED <<row, redis, kafka, overrun>>

-----------------------------------------------------------------------------

Step(r, e) ==
    \/ LoadMail(r, e)
    \/ SetGlobalMail(r, e)
    \/ AddGlobalMailToIndexes(r, e)
    \/ AdvanceGlobalMailVersion(r, e)
    \/ PublishGlobalMailChanged(r, e)
    \/ MarkPublished(r, e)
    \/ MarkPublishedFails(r, e)
    \/ CountRetries(r, e)
    \/ CountRetriesFails(r, e)
    \/ MarkFailed(r, e)
    \/ MarkFailedFails(r, e)

Next ==
    \/ \E e \in Events : CreateOutbox(e) \/ Elapse(e)
    \/ \E r \in Relays : FetchPending(r) \/ Crash(r)
    \/ \E r \in Relays, e \in Events : Step(r, e)

Spec == Init /\ [][Next]_vars

\* Workers and the clock go on, and a statement of MySQL that is tried again
\* and again succeeds at some point.  Redis and Kafka may fail for ever.
Fairness ==
    /\ \A e \in Events : WF_vars(Elapse(e))
    /\ \A r \in Relays :
          /\ WF_vars(\E e \in Events : Step(r, e))
          /\ SF_vars(FetchPending(r) /\ work'[r] # {})
          /\ SF_vars(\E e \in Events : MarkPublished(r, e))
          /\ SF_vars(\E e \in Events : CountRetries(r, e))
          /\ SF_vars(\E e \in Events : MarkFailed(r, e))

FairSpec == Spec /\ Fairness

-----------------------------------------------------------------------------

\* Types of the outbox row, the Redis projection, the topic and the relays.
\* GlobalMailVersion is 0 or the one version the publisher ever writes.
TypeOK ==
    /\ status \in [Events -> Status]
    /\ retryCount \in [Events -> Nat]
    /\ due \subseteq Events
    /\ detail \subseteq Events /\ index \subseteq Events /\ kafka \subseteq Events
    /\ version \in {0, EventVersion}
    /\ pc \in [Relays -> Operations]
    /\ work \in [Relays -> SUBSET Events]
    /\ seen \in [Relays -> Nat]
    /\ overrun \subseteq Events
    /\ crashes \in 0..MaxCrashes

\* A row Flush marks published has been fully projected: detail, index,
\* version and event, whatever other relays, failures and crashes did to it.
PublishedIsProjected ==
    \A e \in Events : status[e] = "published" =>
        e \in detail /\ e \in index /\ version >= EventVersion /\ e \in kafka

\* Flush publishes an event only when a consumer that refreshes on receipt
\* finds the version advanced, the mail indexed and its detail present; and
\* the index never names a mail whose detail was never written.
AnnouncedIsReadable ==
    /\ \A e \in kafka : e \in index /\ version >= EventVersion
    /\ \A e \in index : e \in detail

\* FetchPending's lock keeps a row to one relay until a lock on it expires under
\* a working relay.
OneRelayPerEvent ==
    \A r, s \in Relays : r # s => work[r] \intersect work[s] \subseteq overrun

\* MarkPublished is final: a later MarkFailed or FetchPending takes a row back
\* only if a lock on it has expired under a working relay.
PublishedIsFinal ==
    [][\A e \in Events \ overrun :
          status[e] = "published" => status'[e] = "published"]_vars

\* MarkFailed turns a row to failed as soon as max_retries is reached, although
\* it reads the count in one statement and writes it in another; only a relay
\* that overran its lock can spoil the count.
RetriesBounded ==
    \A e \in Events \ overrun :
        status[e] \in {"pending", "processing"} => retryCount[e] < MaxRetries

\* Every outbox row ends up published or failed for good, over lost answers,
\* relay crashes, abandoned locks and relays slower than their locks.
Settles ==
    \A e \in Events :
        (status[e] # "absent") ~> [](status[e] \in {"published", "failed"})
=============================================================================
