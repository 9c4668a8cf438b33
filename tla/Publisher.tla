----------------------------- MODULE Publisher -----------------------------
(***************************************************************************)
(* adminsrv: publishing a global mail (domain/globalmail/publisher.go, the *)
(* publish half of data/mysql/repository.go, app/adminsrv/server.go).      *)
(*                                                                         *)
(* A call is one execution of Publish; a client's retry is another call    *)
(* with the same key and the same content.  Calls run concurrently, in one *)
(* or several adminsrv processes.  A table is the set of its rows.  The    *)
(* call that inserted a mail stands for the mail's content.                *)
(***************************************************************************)
EXTENDS Integers

CONSTANTS
    Calls,        \* executions of Publish
    Key,          \* the idempotency key by call, "" when there is none
    Content,      \* what hashPublishCommand hashes, by call
    Invalid,      \* calls whose mail validateMail refuses
    Ids,          \* values of time.Now().UnixNano()
    Collisions,   \* may two NextID calls return the same value?
    Faults        \* may MySQL fail, lose an answer, or the process die?

ASSUME PublisherAssumption ==
    /\ Invalid \subseteq Calls
    /\ Ids \subseteq Nat \ {0}
    /\ Collisions \in BOOLEAN
    /\ Faults \in BOOLEAN

VARIABLES
    mails,        \* global_mail: id, and the call that inserted it
    outbox,       \* global_mail_outbox_event: event_id, aggregate_id
    records,      \* global_mail_idempotency: key, request_hash, global_mail_id
    statement,    \* call: its next statement
    mailId,       \* call: the mail id it has drawn, 0 before
    eventId,      \* call: the event id it has drawn, 0 before
    reply,        \* call: the kind of answer
    answer        \* call: the id of the mail it was answered with, else 0

tables == <<mails, outbox, records>>
ids == <<mailId, eventId>>
publisherVars == <<tables, statement, ids, reply, answer>>

PublisherInit ==
    /\ mails = {} /\ outbox = {} /\ records = {}
    /\ statement = [c \in Calls |-> "idle"]
    /\ mailId = [c \in Calls |-> 0]
    /\ eventId = [c \in Calls |-> 0]
    /\ reply = [c \in Calls |-> "none"]
    /\ answer = [c \in Calls |-> 0]

-----------------------------------------------------------------------------

GoOnTo(c, next) ==
    /\ statement' = [statement EXCEPT ![c] = next]
    /\ UNCHANGED <<reply, answer>>

Fail(c, r) ==
    /\ statement' = [statement EXCEPT ![c] = "done"]
    /\ reply' = [reply EXCEPT ![c] = r]
    /\ UNCHANGED answer

Succeed(c, m) ==
    /\ statement' = [statement EXCEPT ![c] = "done"]
    /\ reply' = [reply EXCEPT ![c] = "mail"]
    /\ answer' = [answer EXCEPT ![c] = m]

\* Ids no call has drawn.
Fresh == Ids \ ({mailId[c] : c \in Calls} \union {eventId[c] : c \in Calls})

\* ids.NextID() for the mail, and again for the event.
NextIDs(c) ==
    /\ \E m, e \in Ids :
          /\ Collisions \/ (m \in Fresh /\ e \in Fresh /\ m # e)
          /\ mailId' = [mailId EXCEPT ![c] = m]
          /\ eventId' = [eventId EXCEPT ![c] = e]
    /\ GoOnTo(c, "create")

\* Validation, and straight to the insert when there is no key.
Begin(c) ==
    /\ statement[c] = "idle"
    /\ \/ c \in Invalid /\ Fail(c, "invalid") /\ UNCHANGED ids
       \/ c \notin Invalid /\ Key[c] # "" /\ GoOnTo(c, "lookup") /\ UNCHANGED ids
       \/ c \notin Invalid /\ Key[c] = "" /\ NextIDs(c)
    /\ UNCHANGED tables

RecordsOf(key) == {r \in records : r.key = key}

GetPublishIdempotency(c) ==
    /\ statement[c] = "lookup"
    /\ \/ \E r \in RecordsOf(Key[c]) :
             /\ \/ r.hash = Content[c] /\ Succeed(c, r.mail)
                \/ r.hash # Content[c] /\ Fail(c, "conflict")
             /\ UNCHANGED ids
       \/ RecordsOf(Key[c]) = {} /\ NextIDs(c)
       \/ Faults /\ Fail(c, "error") /\ UNCHANGED ids
    /\ UNCHANGED tables

\* Mutant: the record's primary key is not enforced.
DuplicateKeyByIds(c) ==
    \/ \E row \in mails : row.id = mailId[c]
    \/ \E row \in outbox : row.event = eventId[c]

\* The primary key of one of the tables is taken.
DuplicateKey(c) ==
    \/ \E row \in mails : row.id = mailId[c]
    \/ \E row \in outbox : row.event = eventId[c]
    \/ Key[c] # "" /\ RecordsOf(Key[c]) # {}

Record(c) == [key |-> Key[c], hash |-> Content[c], mail |-> mailId[c]]

Insert(c) ==
    /\ mails' = mails \union {[id |-> mailId[c], by |-> c]}
    /\ outbox' = outbox \union {[event |-> eventId[c], mail |-> mailId[c]]}
    /\ records' = IF Key[c] = "" THEN records
                  ELSE records \union {Record(c)}

\* Mutant: the inserts do not share a transaction.
createGlobalMailWithOutboxLoose(c) ==
    /\ statement[c] = "create"
    /\ \/ ~DuplicateKey(c) /\ Insert(c) /\ Succeed(c, mailId[c])
       \/ /\ Faults /\ ~DuplicateKey(c)
          /\ mails' = mails \union {[id |-> mailId[c], by |-> c]}
          /\ UNCHANGED <<outbox, records>>
          /\ Fail(c, "error")
       \/ DuplicateKey(c) /\ Fail(c, "error") /\ UNCHANGED tables
    /\ UNCHANGED ids

\* One transaction inserts all rows or none.  Its answer may be lost.
createGlobalMailWithOutbox(c) ==
    /\ statement[c] = "create"
    /\ \/ ~DuplicateKey(c) /\ Insert(c) /\ Succeed(c, mailId[c])
       \/ Faults /\ ~DuplicateKey(c) /\ Insert(c) /\ Fail(c, "error")
       \/ (DuplicateKey(c) \/ Faults) /\ Fail(c, "error") /\ UNCHANGED tables
    /\ UNCHANGED ids

Query(c) == GetPublishIdempotency(c) \/ createGlobalMailWithOutbox(c)

PublisherNext == \E c \in Calls : Begin(c) \/ Query(c)

PublisherSpec == PublisherInit /\ [][PublisherNext]_publisherVars

-----------------------------------------------------------------------------

\* Types of the three tables' rows and of the calls.
PublisherTypeOK ==
    /\ mails \subseteq [id : Ids, by : Calls]
    /\ outbox \subseteq [event : Ids, mail : Ids]
    /\ records \subseteq [key : {Key[c] : c \in Calls} \ {""},
                          hash : {Content[c] : c \in Calls}, mail : Ids]
    /\ statement \in [Calls -> {"idle", "lookup", "create", "done"}]
    /\ mailId \in [Calls -> Ids \union {0}]
    /\ eventId \in [Calls -> Ids \union {0}]
    /\ reply \in [Calls -> {"none", "invalid", "conflict", "error", "mail"}]
    /\ answer \in [Calls -> Ids \union {0}]

\* However many concurrent calls and retries carry a key, Publish inserts one
\* mail for it, although it looks the key up in a statement of its own.
OneMailPerKey ==
    \A a, b \in mails : Key[a.by] # "" /\ Key[a.by] = Key[b.by] => a = b

\* The transaction leaves every mail with exactly one outbox event to relay,
\* and no event without its mail, whatever fails and whichever ids collide.
MailHasItsEvent ==
    /\ \A a \in mails : \E o \in outbox : o.mail = a.id
    /\ \A o \in outbox : \E a \in mails : a.id = o.mail
    /\ \A o, p \in outbox : o.mail = p.mail => o = p

\* A successful answer names a committed mail with the caller's key and
\* content: a replay never returns another request's mail.
AnswerIsCommitted ==
    \A c \in Calls : reply[c] = "mail" =>
        \E a \in mails :
            a.id = answer[c] /\ Key[a.by] = Key[c] /\ Content[a.by] = Content[c]

-----------------------------------------------------------------------------

Published == {a.by : a \in mails}

Told == [c \in Calls |->
    {a.by : a \in {b \in mails : reply[c] = "mail" /\ b.id = answer[c]}}]

Promise == INSTANCE PublishOnce WITH published <- Published, told <- Told

\* The lookup, the three inserts and the answer of Publish together are one
\* step that publishes or replays: Publisher implements PublishOnce.
PublishesOnce == Promise!Spec
=============================================================================
