-------------------------- MODULE PublishingProofs --------------------------
(***************************************************************************)
(* Proofs about a mail's way out: Publisher, for any set of concurrent     *)
(* calls, keys, contents and ids, with colliding ids and failing           *)
(* statements, and OutboxRelay, for every set of events and relays, every  *)
(* fetch limit and every retry limit.                                      *)
(***************************************************************************)
EXTENDS Publisher, OutboxRelay, TLAPS

-----------------------------------------------------------------------------
(* Publisher.                                                              *)

\* The primary keys of the mail and the idempotency tables.
MailKey == \A a, b \in mails : a.id = b.id => a = b
RecordKey == \A r, s \in records : r.key = s.key => r = s

\* A mail published under a key has its idempotency record.
Recorded ==
    \A a \in mails : Key[a.by] # "" =>
        \E r \in records : r.key = Key[a.by] /\ r.mail = a.id

\* A record describes a stored mail.
RecordIsTrue ==
    \A r \in records : \E a \in mails :
        a.id = r.mail /\ Key[a.by] = r.key /\ Content[a.by] = r.hash

Drawn == \A c \in Calls : statement[c] = "create" => mailId[c] \in Ids /\ eventId[c] \in Ids

\* The inductive invariant.
PublishInv ==
    /\ PublisherTypeOK /\ Drawn
    /\ MailKey /\ RecordKey /\ Recorded /\ RecordIsTrue
    /\ MailHasItsEvent
    /\ AnswerIsCommitted

LEMMA PublishInit == PublisherInit => PublishInv
BY Zenon DEF PublisherInit, PublishInv, PublisherTypeOK, MailHasItsEvent, AnswerIsCommitted, Drawn,
       MailKey, RecordKey, Recorded, RecordIsTrue

\* A call that writes no table and is not answered with a mail.
LEMMA TablesKept ==
    ASSUME PublishInv, UNCHANGED tables, NEW c \in Calls,
           statement' \in [Calls -> {"idle", "lookup", "create", "done"}],
           mailId' \in [Calls -> Ids \union {0}],
           eventId' \in [Calls -> Ids \union {0}],
           \/ UNCHANGED <<reply, answer>>
           \/ \E r \in {"invalid", "conflict", "error"} : Fail(c, r),
           \A d \in Calls : statement'[d] = "create" => mailId'[d] \in Ids /\ eventId'[d] \in Ids
    PROVE  PublishInv'
<1>0. /\ reply' \in [Calls -> {"none", "invalid", "conflict", "error", "mail"}]
      /\ answer' = answer
      /\ \A d \in Calls : reply'[d] = "mail" => reply[d] = "mail"
  <2>1. ASSUME NEW r \in {"invalid", "conflict", "error"}, Fail(c, r)
        PROVE  /\ reply' \in [Calls -> {"none", "invalid", "conflict", "error", "mail"}]
               /\ answer' = answer
               /\ \A d \in Calls : reply'[d] = "mail" => reply[d] = "mail"
    BY <2>1, Zenon DEF PublishInv, PublisherTypeOK, Fail
  <2>2. QED
    BY <2>1, Zenon DEF PublishInv, PublisherTypeOK
<1>1. PublisherTypeOK'
  BY <1>0, Zenon DEF PublishInv, PublisherTypeOK, tables
<1>2. AnswerIsCommitted'
  BY <1>0, Zenon DEF PublishInv, AnswerIsCommitted, tables
<1>3. QED
  BY <1>1, <1>2, Zenon DEF PublishInv, MailHasItsEvent, Drawn, MailKey, RecordKey, Recorded,
                    RecordIsTrue, tables

LEMMA DrawsIds ==
    ASSUME PublishInv, NEW c \in Calls, NextIDs(c)
    PROVE  /\ statement' \in [Calls -> {"idle", "lookup", "create", "done"}]
           /\ mailId' \in [Calls -> Ids \union {0}]
           /\ eventId' \in [Calls -> Ids \union {0}]
           /\ UNCHANGED <<reply, answer>>
           /\ \A d \in Calls : statement'[d] = "create" => mailId'[d] \in Ids /\ eventId'[d] \in Ids
<1>1. PICK m \in Ids, e \in Ids :
        mailId' = [mailId EXCEPT ![c] = m] /\ eventId' = [eventId EXCEPT ![c] = e]
  BY Zenon DEF NextIDs
<1>2. statement' = [statement EXCEPT ![c] = "create"] /\ UNCHANGED <<reply, answer>>
  BY Zenon DEF NextIDs, GoOnTo
<1>3. QED
  BY <1>1, <1>2, Zenon DEF PublishInv, PublisherTypeOK, Drawn

LEMMA PublishStep == PublishInv /\ [PublisherNext]_publisherVars => PublishInv'
<1> SUFFICES ASSUME PublishInv, [PublisherNext]_publisherVars PROVE PublishInv'
  OBVIOUS
<1>0. PublisherTypeOK
  BY Zenon DEF PublishInv
<1>1. ASSUME NEW c \in Calls, Begin(c) PROVE PublishInv'
  <2>1. CASE NextIDs(c)
    BY <1>1, <2>1, DrawsIds, TablesKept, Zenon DEF Begin
  <2>2. CASE GoOnTo(c, "lookup") /\ UNCHANGED ids
    BY <1>0, <1>1, <2>2, TablesKept, Zenon
       DEF Begin, GoOnTo, ids, PublishInv, Drawn, PublisherTypeOK
  <2>3. CASE Fail(c, "invalid") /\ UNCHANGED ids
    BY <1>0, <1>1, <2>3, TablesKept, Zenon DEF Begin, Fail, ids, PublishInv, Drawn, PublisherTypeOK
  <2>4. QED
    BY <1>1, <2>1, <2>2, <2>3, Zenon DEF Begin
<1>2. ASSUME NEW c \in Calls, GetPublishIdempotency(c) PROVE PublishInv'
  <2>1. CASE NextIDs(c)
    BY <1>2, <2>1, DrawsIds, TablesKept, Zenon DEF GetPublishIdempotency
  <2>2. CASE UNCHANGED ids /\ \E r \in {"conflict", "error"} : Fail(c, r)
    <3>1. PICK r \in {"conflict", "error"} : Fail(c, r)
      BY <2>2, Zenon
    <3>2. /\ statement' \in [Calls -> {"idle", "lookup", "create", "done"}]
          /\ UNCHANGED ids /\ UNCHANGED tables
          /\ \A d \in Calls : statement'[d] = "create" => statement[d] = "create"
      BY <1>0, <1>2, <2>2, <3>1, Zenon DEF GetPublishIdempotency, Fail, PublisherTypeOK
    <3>3. QED
      BY <1>0, <2>2, <3>2, TablesKept, Zenon DEF ids, PublishInv, Drawn, PublisherTypeOK
  <2>3. ASSUME NEW r \in RecordsOf(Key[c]), r.hash = Content[c], Succeed(c, r.mail),
               UNCHANGED ids
        PROVE PublishInv'
    <3>1. r \in records /\ r.key = Key[c] /\ r.mail \in Ids
      BY <1>0, <2>3, Zenon DEF RecordsOf, PublisherTypeOK
    <3>2. PICK a \in mails : a.id = r.mail /\ Key[a.by] = r.key /\ Content[a.by] = r.hash
      BY <3>1, Zenon DEF PublishInv, RecordIsTrue
    <3>3. UNCHANGED tables
      BY <1>2, Zenon DEF GetPublishIdempotency
    <3>4. PublisherTypeOK'
      BY <1>0, <2>3, <3>1, <3>3, Zenon DEF PublisherTypeOK, Succeed, tables, ids
    <3>5. AnswerIsCommitted'
      <4>1. \A d \in Calls : d # c => reply'[d] = reply[d] /\ answer'[d] = answer[d]
        BY <1>0, <2>3, Zenon DEF Succeed, PublisherTypeOK
      <4>2. answer'[c] = r.mail
        BY <1>0, <2>3, Zenon DEF Succeed, PublisherTypeOK
      <4>3. mails' = mails
        BY <3>3, Zenon DEF tables
      <4>4. SUFFICES ASSUME NEW d \in Calls, reply'[d] = "mail"
                     PROVE  \E b \in mails : b.id = answer'[d] /\ Key[b.by] = Key[d]
                                              /\ Content[b.by] = Content[d]
        BY <4>3, Zenon DEF AnswerIsCommitted
      <4>5. CASE d = c
        BY <2>3, <3>1, <3>2, <4>2, <4>5, Zenon
      <4>6. CASE d # c
        BY <4>1, <4>4, <4>6 DEF AnswerIsCommitted, PublishInv
      <4>7. QED
        BY <4>5, <4>6, Zenon
    <3>6. MailHasItsEvent' /\ MailKey' /\ RecordKey' /\ Recorded' /\ RecordIsTrue'
      BY <3>3, Zenon
         DEF tables, PublishInv, MailHasItsEvent, MailKey, RecordKey, Recorded, RecordIsTrue
    <3>7. Drawn'
      BY <1>0, <2>3, Zenon DEF PublishInv, Drawn, ids, Succeed, PublisherTypeOK
    <3>8. QED
      BY <3>4, <3>5, <3>6, <3>7, Zenon DEF PublishInv
  <2>4. QED
    BY <1>2, <2>1, <2>2, <2>3, Zenon DEF GetPublishIdempotency
<1>3. ASSUME NEW c \in Calls, createGlobalMailWithOutbox(c) PROVE PublishInv'
  <2>1. CASE Fail(c, "error") /\ UNCHANGED tables
    <3>1. /\ statement' \in [Calls -> {"idle", "lookup", "create", "done"}]
          /\ UNCHANGED ids
          /\ \A d \in Calls : statement'[d] = "create" => statement[d] = "create"
      BY <1>0, <1>3, <2>1, Zenon DEF createGlobalMailWithOutbox, Fail, PublisherTypeOK
    <3>2. QED
      BY <1>0, <2>1, <3>1, TablesKept, Zenon DEF ids, PublishInv, Drawn, PublisherTypeOK
  <2>2. CASE ~DuplicateKey(c) /\ Insert(c) /\ (Succeed(c, mailId[c]) \/ Fail(c, "error"))
    <3> DEFINE m == [id |-> mailId[c], by |-> c]
               o == [event |-> eventId[c], mail |-> mailId[c]]
    <3>0. /\ mailId[c] \in Ids /\ eventId[c] \in Ids /\ UNCHANGED ids
      BY <1>3, Zenon DEF createGlobalMailWithOutbox, PublishInv, Drawn
    <3>1. mails' = mails \union {m} /\ outbox' = outbox \union {o}
          /\ records' = IF Key[c] = "" THEN records ELSE records \union {Record(c)}
      BY <2>2, Zenon DEF Insert
    <3>2. /\ \A a \in mails : a.id # mailId[c]
          /\ \A p \in outbox : p.event # eventId[c]
          /\ Key[c] # "" => \A r \in records : r.key # Key[c]
      BY <2>2, Zenon DEF DuplicateKey, RecordsOf
    <3>3. PublisherTypeOK'
      <4>1. m \in [id : Ids, by : Calls] /\ o \in [event : Ids, mail : Ids]
        BY <3>0, Zenon
      <4>2. Key[c] # "" => Record(c) \in [key : {Key[d] : d \in Calls} \ {""},
                                          hash : {Content[d] : d \in Calls}, mail : Ids]
        BY <3>0, Zenon DEF Record
      <4>3. /\ statement' \in [Calls -> {"idle", "lookup", "create", "done"}]
            /\ reply' \in [Calls -> {"none", "invalid", "conflict", "error", "mail"}]
            /\ answer' \in [Calls -> Ids \union {0}]
        BY <1>0, <2>2, <3>0, Zenon DEF PublisherTypeOK, Succeed, Fail
      <4>4. QED
        BY <1>0, <3>0, <3>1, <4>1, <4>2, <4>3 DEF PublisherTypeOK, ids
    <3>m. m.id = mailId[c] /\ m.by = c /\ o.event = eventId[c] /\ o.mail = mailId[c]
          /\ Record(c).key = Key[c] /\ Record(c).hash = Content[c]
          /\ Record(c).mail = mailId[c]
      BY Zenon DEF Record
    <3> HIDE DEF m, o
    <3>4. MailKey'
      <4>1. SUFFICES ASSUME NEW a \in mails \union {m}, NEW b \in mails \union {m},
                            a.id = b.id
                     PROVE  a = b
        BY <3>1, Zenon DEF MailKey
      <4>2. CASE a \in mails /\ b \in mails
        BY <4>1, <4>2, Zenon DEF PublishInv, MailKey
      <4>3. CASE a = m \/ b = m
        BY <3>2, <3>m, <4>1, <4>3, Zenon
      <4>4. QED
        BY <4>1, <4>2, <4>3, Zenon
    <3>5. RecordKey'
      <4>1. CASE Key[c] = ""
        BY <3>1, <4>1, Zenon DEF PublishInv, RecordKey
      <4>2. CASE Key[c] # ""
        <5>1. SUFFICES ASSUME NEW r \in records \union {Record(c)},
                              NEW s \in records \union {Record(c)}, r.key = s.key
                       PROVE  r = s
          BY <3>1, <4>2, Zenon DEF RecordKey
        <5>2. CASE r \in records /\ s \in records
          BY <5>1, <5>2, Zenon DEF PublishInv, RecordKey
        <5>3. CASE r = Record(c) \/ s = Record(c)
          BY <3>2, <3>m, <4>2, <5>1, <5>3, Zenon
        <5>4. QED
          BY <5>1, <5>2, <5>3, Zenon
      <4>3. QED
        BY <4>1, <4>2, Zenon
    <3>6. MailHasItsEvent'
      <4>1. \A p \in outbox : p.mail # mailId[c]
        BY <3>2, Zenon DEF PublishInv, MailHasItsEvent
      <4>2. /\ \A a \in mails : \E p \in outbox : p.mail = a.id
            /\ \A p \in outbox : \E a \in mails : a.id = p.mail
            /\ \A p, q \in outbox : p.mail = q.mail => p = q
        BY Zenon DEF PublishInv, MailHasItsEvent
      <4>3. \A a \in mails \union {m} : \E p \in outbox \union {o} : p.mail = a.id
        BY <3>m, <4>2, Zenon
      <4>4. \A p \in outbox \union {o} : \E a \in mails \union {m} : a.id = p.mail
        BY <3>m, <4>2, Zenon
      <4>5. \A p, q \in outbox \union {o} : p.mail = q.mail => p = q
        BY <3>m, <4>1, <4>2
      <4>6. QED
        BY <3>1, <4>3, <4>4, <4>5, Zenon DEF MailHasItsEvent
    <3>7. Recorded'
      <4>1. CASE Key[c] = ""
        BY <3>1, <3>m, <4>1, Zenon DEF PublishInv, Recorded
      <4>2. CASE Key[c] # ""
        BY <3>1, <3>m, <4>2, Zenon DEF PublishInv, Recorded
      <4>3. QED
        BY <4>1, <4>2, Zenon
    <3>8. RecordIsTrue'
      <4>1. CASE Key[c] = ""
        BY <3>1, <4>1, Zenon DEF PublishInv, RecordIsTrue
      <4>2. CASE Key[c] # ""
        BY <3>1, <3>m, <4>2 DEF PublishInv, RecordIsTrue
      <4>3. QED
        BY <4>1, <4>2, Zenon
    <3>9. AnswerIsCommitted'
      <4>1. \A d \in Calls : d # c => reply'[d] = reply[d] /\ answer'[d] = answer[d]
        BY <1>0, <2>2, Zenon DEF Succeed, Fail, PublisherTypeOK
      <4>2. reply'[c] = "mail" => answer'[c] = mailId[c]
        BY <1>0, <2>2, Zenon DEF Succeed, Fail, PublisherTypeOK
      <4>3. m \in mails' /\ mails \subseteq mails'
        BY <3>1, Zenon
      <4>4. SUFFICES ASSUME NEW d \in Calls, reply'[d] = "mail"
                     PROVE  \E b \in mails' : b.id = answer'[d] /\ Key[b.by] = Key[d]
                                               /\ Content[b.by] = Content[d]
        BY Zenon DEF AnswerIsCommitted
      <4>5. CASE d = c
        BY <3>m, <4>2, <4>3, <4>4, <4>5, Zenon
      <4>6. CASE d # c
        BY <4>1, <4>3, <4>4, <4>6 DEF AnswerIsCommitted, PublishInv
      <4>7. QED
        BY <4>5, <4>6, Zenon
    <3>10. Drawn'
      BY <1>0, <2>2, <3>0, Zenon DEF PublishInv, Drawn, Succeed, Fail, PublisherTypeOK, ids
    <3>11. QED
      BY <3>3, <3>4, <3>5, <3>6, <3>7, <3>8, <3>9, <3>10, Zenon DEF PublishInv
  <2>3. QED
    BY <1>3, <2>1, <2>2, Zenon DEF createGlobalMailWithOutbox
<1>4. CASE UNCHANGED publisherVars
  BY <1>4, Zenon DEF publisherVars, tables, ids, PublishInv, PublisherTypeOK, MailHasItsEvent,
              AnswerIsCommitted, Drawn, MailKey, RecordKey, Recorded, RecordIsTrue
<1>5. QED
  BY <1>1, <1>2, <1>3, <1>4, Zenon DEF PublisherNext, Query

LEMMA PublishInvariance == PublisherSpec => []PublishInv
BY PublishInit, PublishStep, PTL DEF PublisherSpec

\* The tables and the calls keep their types; no record has an empty key.
THEOREM PublisherTypeCorrect == PublisherSpec => []PublisherTypeOK
<1>1. PublishInv => PublisherTypeOK
  BY Zenon DEF PublishInv
<1>2. QED
  BY <1>1, PublishInvariance, PTL

\* One mail per idempotency key, for any number of concurrent calls and retries
\* of Publish, id collisions and failures: the record's primary key decides.
THEOREM PublishedOnce == PublisherSpec => []OneMailPerKey
<1>1. PublishInv => OneMailPerKey
  <2>1. SUFFICES ASSUME PublishInv, NEW a \in mails, NEW b \in mails,
                        Key[a.by] # "", Key[a.by] = Key[b.by]
                 PROVE  a = b
    BY Zenon DEF OneMailPerKey
  <2>2. PICK r \in records : r.key = Key[a.by] /\ r.mail = a.id
    BY <2>1, Zenon DEF PublishInv, Recorded
  <2>3. PICK s \in records : s.key = Key[b.by] /\ s.mail = b.id
    BY <2>1, Zenon DEF PublishInv, Recorded
  <2>4. r = s
    BY <2>1, <2>2, <2>3, Zenon DEF PublishInv, RecordKey
  <2>5. QED
    BY <2>1, <2>2, <2>3, <2>4, Zenon DEF PublishInv, MailKey
<1>2. QED
  BY <1>1, PublishInvariance, PTL

\* Publish's transaction leaves exactly one outbox event per mail, whatever
\* fails and whichever ids collide.
THEOREM EventPerMail == PublisherSpec => []MailHasItsEvent
<1>1. PublishInv => MailHasItsEvent
  BY Zenon DEF PublishInv
<1>2. QED
  BY <1>1, PublishInvariance, PTL

\* No answer of Publish without a committed mail of the caller's key and content.
THEOREM AnswersAreTrue == PublisherSpec => []AnswerIsCommitted
<1>1. PublishInv => AnswerIsCommitted
  BY Zenon DEF PublishInv
<1>2. QED
  BY <1>1, PublishInvariance, PTL

-----------------------------------------------------------------------------
(* Publisher implements PublishOnce.                                       *)

\* A call that is not done has published nothing and told nobody, and only
\* valid calls get beyond the validation.
Ongoing ==
    /\ \A a \in mails : a.by \in Calls /\ statement[a.by] = "done"
    /\ \A c \in Calls : statement[c] # "done" => reply[c] = "none"
    /\ \A c \in Calls : statement[c] \in {"lookup", "create"} => c \notin Invalid

\* What a statement of call c may do to the calls.
LEMMA CallStep ==
    ASSUME PublisherTypeOK, Ongoing, NEW c \in Calls, Begin(c) \/ Query(c)
    PROVE  /\ statement[c] # "done"
           /\ \A d \in Calls \ {c} : statement'[d] = statement[d] /\ reply'[d] = reply[d]
                                     /\ answer'[d] = answer[d]
           /\ statement'[c] # "done" => reply'[c] = reply[c]
           /\ statement'[c] \in {"lookup", "create", "done"}
           /\ statement'[c] # "done" => c \notin Invalid
           /\ \/ UNCHANGED mails
              \/ /\ statement'[c] = "done"
                 /\ mails' = mails \union {[id |-> mailId[c], by |-> c]}
<1>1. \/ \E s \in {"lookup", "create"} : GoOnTo(c, s)
      \/ \E r \in {"invalid", "conflict", "error"} : Fail(c, r)
      \/ \E m \in Ids \union {0} : Succeed(c, m)
  <2>1. \A r \in RecordsOf(Key[c]) : r.mail \in Ids
    BY Zenon DEF RecordsOf, PublisherTypeOK
  <2>2. mailId[c] \in Ids \union {0}
    BY Zenon DEF PublisherTypeOK
  <2> QED BY <2>1, <2>2, Zenon DEF Begin, Query, GetPublishIdempotency, createGlobalMailWithOutbox,
                            NextIDs
<1>2. /\ \A d \in Calls \ {c} : statement'[d] = statement[d] /\ reply'[d] = reply[d]
                                /\ answer'[d] = answer[d]
      /\ statement'[c] # "done" => reply'[c] = reply[c]
      /\ statement'[c] \in {"lookup", "create", "done"}
  <2>1. CASE \E s \in {"lookup", "create"} : GoOnTo(c, s)
    BY <2>1, Zenon DEF GoOnTo, PublisherTypeOK
  <2>2. CASE \E r \in {"invalid", "conflict", "error"} : Fail(c, r)
    BY <2>2, Zenon DEF Fail, PublisherTypeOK
  <2>3. CASE \E m \in Ids \union {0} : Succeed(c, m)
    BY <2>3, Zenon DEF Succeed, PublisherTypeOK
  <2> QED BY <1>1, <2>1, <2>2, <2>3, Zenon
<1>3. statement[c] # "done"
  BY Zenon DEF Begin, Query, GetPublishIdempotency, createGlobalMailWithOutbox
<1>4. statement'[c] # "done" => c \notin Invalid
  BY Zenon DEF Begin, Query, GetPublishIdempotency, createGlobalMailWithOutbox, Fail, Ongoing,
         PublisherTypeOK
<1>5. \/ UNCHANGED mails
      \/ /\ Insert(c) /\ (Succeed(c, mailId[c]) \/ Fail(c, "error"))
  BY Zenon DEF Begin, Query, GetPublishIdempotency, createGlobalMailWithOutbox, tables
<1>6. \/ UNCHANGED mails
      \/ statement'[c] = "done" /\ mails' = mails \union {[id |-> mailId[c], by |-> c]}
  BY <1>5, Zenon DEF Insert, Succeed, Fail, PublisherTypeOK
<1> QED BY <1>2, <1>3, <1>4, <1>6, Zenon

LEMMA OngoingInit == PublisherInit => Ongoing
BY Zenon DEF PublisherInit, Ongoing

LEMMA OngoingStep == PublisherTypeOK /\ Ongoing /\ [PublisherNext]_publisherVars => Ongoing'
<1> SUFFICES ASSUME PublisherTypeOK, Ongoing, [PublisherNext]_publisherVars PROVE Ongoing'
  OBVIOUS
<1>1. ASSUME NEW c \in Calls, Begin(c) \/ Query(c) PROVE Ongoing'
  <2> DEFINE m == [id |-> mailId[c], by |-> c]
  <2>1. m.by = c
    OBVIOUS
  <2>2. UNCHANGED mails \/ (statement'[c] = "done" /\ mails' = mails \union {m})
    BY <1>1, CallStep, Zenon
  <2> HIDE DEF m
  <2>3. \A a \in mails' : a.by \in Calls /\ statement'[a.by] = "done"
    BY <1>1, <2>1, <2>2, CallStep DEF Ongoing
  <2>4. \A d \in Calls : statement'[d] # "done" => reply'[d] = "none"
    BY <1>1, CallStep, Zenon DEF Ongoing
  <2>5. \A d \in Calls : statement'[d] \in {"lookup", "create"} => d \notin Invalid
    BY <1>1, CallStep, Zenon DEF Ongoing
  <2> QED BY <2>3, <2>4, <2>5, Zenon DEF Ongoing
<1>2. CASE UNCHANGED publisherVars
  BY <1>2, Zenon DEF publisherVars, tables, Ongoing
<1> QED BY <1>1, <1>2, Zenon DEF PublisherNext

\* The callers who were told keep what they were told: their mails are in the
\* table, and no other mail has their ids.
LEMMA ToldKept ==
    ASSUME PublishInv, PublishInv', mails \subseteq mails', NEW d \in Calls,
           reply'[d] = reply[d], answer'[d] = answer[d]
    PROVE  Told'[d] = Told[d]
<1>1. CASE reply[d] # "mail"
  BY <1>1, Zenon DEF Told
<1>2. CASE reply[d] = "mail"
  <2>1. PICK a \in mails : a.id = answer[d]
    BY <1>2, Zenon DEF PublishInv, AnswerIsCommitted
  <2>2. \A b \in mails' : b.id = answer[d] => b = a
    BY <2>1, Zenon DEF PublishInv, MailKey
  <2>3. {b \in mails' : reply'[d] = "mail" /\ b.id = answer'[d]}
        = {b \in mails : reply[d] = "mail" /\ b.id = answer[d]}
    BY <2>1, <2>2, Zenon
  <2> QED BY <2>3, Zenon DEF Told
<1> QED BY <1>1, <1>2, Zenon

LEMMA ToldMail ==
    ASSUME PublishInv', NEW c \in Calls, NEW a \in mails', reply'[c] = "mail", answer'[c] = a.id
    PROVE  Told'[c] = {a.by}
<1>1. \A b \in mails' : b.id = a.id => b = a
  BY Zenon DEF PublishInv, MailKey
<1>2. {b \in mails' : reply'[c] = "mail" /\ b.id = answer'[c]} = {a}
  BY <1>1, Zenon
<1> QED BY <1>2, Zenon DEF Told

LEMMA PromiseStep ==
    PublishInv /\ PublishInv' /\ Ongoing /\ [PublisherNext]_publisherVars
        => [Promise!Next]_(Promise!promise)
<1> SUFFICES ASSUME PublishInv, PublishInv', Ongoing, [PublisherNext]_publisherVars
             PROVE  Promise!Next \/ UNCHANGED <<Published, Told>>
  BY Zenon DEF Promise!promise
<1>0. PublisherTypeOK
  BY Zenon DEF PublishInv
<1>1. ASSUME NEW c \in Calls, Begin(c) \/ Query(c)
      PROVE  Promise!Next \/ UNCHANGED <<Published, Told>>
  <2>1. /\ statement[c] # "done" /\ reply[c] = "none"
        /\ \A d \in Calls \ {c} : reply'[d] = reply[d] /\ answer'[d] = answer[d]
    BY <1>0, <1>1, CallStep, Zenon DEF Ongoing
  <2>2. Told[c] = {} /\ c \notin Published
    BY <2>1 DEF Told, Published, Ongoing
  <2>3. Told = [d \in Calls |-> Told[d]] /\ Told' = [d \in Calls |-> Told'[d]]
    BY Zenon DEF Told
  <2>4. CASE UNCHANGED mails /\ reply'[c] # "mail"
    <3>1. Told'[c] = {}
      BY <2>4, Zenon DEF Told
    <3>2. \A d \in Calls : Told'[d] = Told[d]
      BY <2>1, <2>2, <2>4, <3>1, ToldKept, Zenon
    <3>3. Told' = Told
      BY <2>3, <3>2, Zenon
    <3> QED BY <2>4, <3>3, Zenon DEF Published
  <2>5. ASSUME statement[c] = "lookup", UNCHANGED tables,
               NEW r \in RecordsOf(Key[c]), r.hash = Content[c], Succeed(c, r.mail)
        PROVE  Promise!Replay(c)
    <3>1. r \in records /\ r.key = Key[c] /\ Key[c] # ""
      BY <1>0, <2>5, Zenon DEF RecordsOf, PublisherTypeOK
    <3>2. PICK a \in mails : a.id = r.mail /\ Key[a.by] = r.key /\ Content[a.by] = r.hash
      BY <3>1, Zenon DEF PublishInv, RecordIsTrue
    <3>3. reply'[c] = "mail" /\ answer'[c] = a.id /\ mails' = mails
      BY <1>0, <2>5, <3>2, Zenon DEF Succeed, PublisherTypeOK, tables
    <3>4. Told'[c] = {a.by}
      BY <3>2, <3>3, ToldMail, Zenon
    <3>5. \A d \in Calls \ {c} : Told'[d] = Told[d]
      BY <2>1, <3>3, ToldKept, Zenon
    <3>6. Told' = [Told EXCEPT ![c] = {a.by}]
      BY <2>3, <3>4, <3>5, Zenon
    <3>7. a.by \in Published /\ Published' = Published
      BY <3>3, Zenon DEF Published
    <3>8. c \notin Invalid \union Published
      BY <2>2, <2>5, Zenon DEF Ongoing
    <3> QED BY <2>2, <2>5, <3>1, <3>2, <3>6, <3>7, <3>8, Zenon DEF Promise!Replay
  <2>6. ASSUME statement[c] = "create", ~DuplicateKey(c), Insert(c),
               Succeed(c, mailId[c]) \/ Fail(c, "error")
        PROVE  Promise!Publish(c)
    <3> DEFINE m == [id |-> mailId[c], by |-> c]
    <3>1. mails' = mails \union {m} /\ m.id = mailId[c] /\ m.by = c
      BY <2>6, Zenon DEF Insert
    <3> HIDE DEF m
    <3>2. Published' = Published \union {c}
      BY <3>1, Zenon DEF Published
    <3>3. \A d \in Calls \ {c} : Told'[d] = Told[d]
      BY <2>1, <3>1, ToldKept, Zenon
    <3>4. Told' \in {Told, [Told EXCEPT ![c] = {c}]}
      <4>1. CASE Succeed(c, mailId[c])
        <5>1. reply'[c] = "mail" /\ answer'[c] = m.id /\ m \in mails'
          BY <1>0, <3>1, <4>1, Zenon DEF Succeed, PublisherTypeOK
        <5>2. Told'[c] = {c}
          BY <3>1, <5>1, ToldMail, Zenon
        <5>3. Told' = [Told EXCEPT ![c] = {c}]
          BY <2>3, <3>3, <5>2, Zenon
        <5> QED BY <5>3, Zenon
      <4>2. CASE Fail(c, "error")
        <5>1. reply'[c] = "error"
          BY <1>0, <4>2, Zenon DEF Fail, PublisherTypeOK
        <5>2. Told'[c] = {}
          BY <5>1, Zenon DEF Told
        <5>3. \A d \in Calls : Told'[d] = Told[d]
          BY <2>2, <3>3, <5>2, Zenon
        <5>4. Told' = Told
          BY <2>3, <5>3, Zenon
        <5> QED BY <5>4, Zenon
      <4> QED BY <2>6, <4>1, <4>2, Zenon
    <3>5. \A d \in Published : Key[d] = Key[c] => Key[c] = ""
      <4> SUFFICES ASSUME NEW a \in mails, Key[a.by] = Key[c], Key[c] # "" PROVE FALSE
        BY Zenon DEF Published
      <4>1. PICK r \in records : r.key = Key[c]
        BY Zenon DEF PublishInv, Recorded
      <4> QED BY <2>6, <4>1, Zenon DEF DuplicateKey, RecordsOf
    <3>6. c \notin Invalid \union Published
      BY <2>2, <2>6, Zenon DEF Ongoing
    <3> QED BY <2>2, <3>2, <3>4, <3>5, <3>6, Zenon DEF Promise!Publish
  <2>7. \/ UNCHANGED mails /\ reply'[c] # "mail"
        \/ /\ statement[c] = "lookup" /\ UNCHANGED tables
           /\ \E r \in RecordsOf(Key[c]) : r.hash = Content[c] /\ Succeed(c, r.mail)
        \/ /\ statement[c] = "create" /\ ~DuplicateKey(c) /\ Insert(c)
           /\ Succeed(c, mailId[c]) \/ Fail(c, "error")
    <3>1. ASSUME \E s \in {"lookup", "create"} : GoOnTo(c, s) PROVE reply'[c] # "mail"
      BY <2>1, <3>1, Zenon DEF GoOnTo
    <3>2. ASSUME NEW r \in {"invalid", "conflict", "error"}, Fail(c, r)
          PROVE  reply'[c] # "mail"
      BY <1>0, <3>2, Zenon DEF Fail, PublisherTypeOK
    <3> QED BY <1>1, <3>1, <3>2, Zenon DEF Begin, Query, GetPublishIdempotency,
                    createGlobalMailWithOutbox, NextIDs, tables
  <2> QED BY <2>4, <2>5, <2>6, <2>7, Zenon DEF Promise!Next
<1>2. CASE UNCHANGED publisherVars
  BY <1>2, Zenon DEF publisherVars, tables, Published, Told
<1> QED BY <1>1, <1>2, Zenon DEF PublisherNext

\* Publish implements PublishOnce: concurrent executions of the lookup, the
\* inserts and the answer act as single publications and replays, for any calls,
\* keys, contents, id collisions and failures.
THEOREM ImplementsPublishOnce == PublisherSpec => PublishesOnce
<1>1. PublisherInit => Promise!Init
  BY DEF PublisherInit, Promise!Init, Published, Told
<1>2. PublishInv => PublisherTypeOK
  BY Zenon DEF PublishInv
<1> QED
  BY <1>1, <1>2, PublishInvariance, OngoingInit, OngoingStep, PromiseStep, PTL
     DEF PublisherSpec, PublishesOnce, Promise!Spec

-----------------------------------------------------------------------------
(* OutboxRelay.                                                            *)

\* The event relay r is working on.
Current(r, e) == e \in work[r] /\ \A f \in work[r] : e <= f

\* What Flush has achieved for the current event before each call.
Achieved(r, e) ==
    /\ pc[r] \in {"index", "version", "publish", "markPublished"} => e \in detail
    /\ pc[r] \in {"version", "publish", "markPublished"} => e \in index
    /\ pc[r] \in {"publish", "markPublished"} => version >= EventVersion
    /\ pc[r] = "markPublished" => e \in kafka

Progress == \A r \in Relays, e \in Events : Current(r, e) => Achieved(r, e)

\* The inductive invariant behind PublishedIsProjected and AnnouncedIsReadable.
ProjectionInv ==
    /\ TypeOK
    /\ AnnouncedIsReadable
    /\ \A e \in Events : status[e] = "published" => e \in kafka
    /\ Progress

\* Event ids are ordered, so a relay works on one event at a time.
LEMMA CurrentUnique ==
    ASSUME NEW r \in Relays, NEW e \in Events, NEW f \in Events,
           Current(r, e), Current(r, f)
    PROVE  f = e
BY RelayAssumption DEF Current

\* TypeOK holds in every state: no statement of the relay leaves the columns'
\* ranges, and AdvanceGlobalMailVersion never passes the one version there is.
THEOREM TypeCorrect == Spec => []TypeOK
<1>1. Init => TypeOK
  BY RelayAssumption DEF Init, TypeOK, Status, Operations, EventVersion
<1>2. TypeOK /\ [Next]_vars => TypeOK'
  <2> SUFFICES ASSUME TypeOK, [Next]_vars PROVE TypeOK'
    OBVIOUS
  <2> USE RelayAssumption DEF TypeOK, Status, Operations, history
  <2>1. ASSUME NEW e \in Events, CreateOutbox(e) PROVE TypeOK'
    BY <2>1, Zenon DEF CreateOutbox, redis, relay
  <2>2. ASSUME NEW e \in Events, Elapse(e) PROVE TypeOK'
    BY <2>2, Zenon DEF Elapse, redis, relay
  <2>3. ASSUME NEW r \in Relays, FetchPending(r) PROVE TypeOK'
    <3>1. PICK batch \in SUBSET Eligible :
             /\ status' = [e \in Events |-> IF e \in batch THEN "processing" ELSE status[e]]
             /\ due' = due \ batch
             /\ \/ /\ work' = [work EXCEPT ![r] = batch]
                   /\ pc' = [pc EXCEPT ![r] = IF batch = {} THEN "idle" ELSE "load"]
                \/ UNCHANGED <<work, pc>>
      BY <2>3, Zenon DEF FetchPending
    <3>2. batch \subseteq Events
      BY Zenon DEF Eligible
    <3>3. UNCHANGED <<retryCount, detail, index, version, kafka, seen, overrun, crashes>>
      BY <2>3, Zenon DEF FetchPending, redis
    <3>4. status' \in [Events -> Status] /\ due' \subseteq Events
      BY <3>1, Zenon
    <3>5. work' \in [Relays -> SUBSET Events] /\ pc' \in [Relays -> Operations]
      BY <3>1, <3>2, Zenon
    <3>6. QED
      BY <3>3, <3>4, <3>5, Zenon
  <2>4. ASSUME NEW r \in Relays, Crash(r) PROVE TypeOK'
    BY <2>4 DEF Crash, row, redis
  <2>5. ASSUME NEW r \in Relays, NEW e \in Events, Step(r, e) PROVE TypeOK'
    <3>1. CASE LoadMail(r, e)
      BY <3>1, Zenon DEF LoadMail, Goto, row, redis
    <3>2. CASE SetGlobalMail(r, e)
      BY <3>2, Zenon DEF SetGlobalMail, Goto, row
    <3>3. CASE AddGlobalMailToIndexes(r, e)
      BY <3>3, Zenon DEF AddGlobalMailToIndexes, Goto, row
    <3>4. CASE AdvanceGlobalMailVersion(r, e)
      BY <3>4, Zenon DEF AdvanceGlobalMailVersion, Advanced, EventVersion, Goto, row
    <3>5. CASE PublishGlobalMailChanged(r, e)
      BY <3>5, Zenon DEF PublishGlobalMailChanged, Goto, row, redis
    <3>6. CASE MarkPublished(r, e)
      BY <3>6, Zenon DEF MarkPublished, SetPublished, NextEvent, redis
    <3>7. CASE MarkPublishedFails(r, e)
      BY <3>7, Zenon DEF MarkPublishedFails, SetPublished, row, redis
    <3>8. CASE CountRetries(r, e)
      BY <3>8, Zenon DEF CountRetries, row, redis
    <3>9. CASE CountRetriesFails(r, e)
      BY <3>9, Zenon DEF CountRetriesFails, NextEvent, row, redis
    <3>10. CASE MarkFailed(r, e)
      BY <3>10 DEF MarkFailed, NextEvent, redis
    <3>11. CASE MarkFailedFails(r, e)
      BY <3>11, Zenon DEF MarkFailedFails, NextEvent, row, redis
    <3>12. QED
      BY <2>5, <3>1, <3>2, <3>3, <3>4, <3>5, <3>6, <3>7, <3>8, <3>9, <3>10, <3>11, Zenon
         DEF Step
  <2>6. CASE UNCHANGED vars
    BY <2>6, Zenon DEF vars, row, redis, relay
  <2>7. QED
    BY <2>1, <2>2, <2>3, <2>4, <2>5, <2>6, Zenon DEF Next
<1>3. QED
  BY <1>1, <1>2, PTL DEF Spec

-----------------------------------------------------------------------------

LEMMA ProjectionInit == Init => ProjectionInv
<1> SUFFICES ASSUME Init PROVE ProjectionInv
  OBVIOUS
<1>1. TypeOK
  BY RelayAssumption DEF Init, TypeOK, Status, Operations, EventVersion
<1>2. QED
  BY <1>1, Zenon DEF Init, ProjectionInv, AnnouncedIsReadable, Progress, Achieved, Current

\* A step of relay r on the projection, which only grows.
LEMMA ProjectionGrows ==
    ASSUME ProjectionInv, TypeOK', NEW r \in Relays,
           detail \subseteq detail', index \subseteq index', kafka \subseteq kafka',
           version' >= version,
           \A s \in Relays \ {r} : pc'[s] = pc[s] /\ work'[s] = work[s],
           \A e \in index' \ index : e \in detail',
           \A e \in kafka' \ kafka : e \in index' /\ version' >= EventVersion,
           \A e \in Events : status'[e] = "published" => e \in kafka',
           \A e \in Events : Current(r, e)' => Achieved(r, e)'
    PROVE  ProjectionInv'
<1>1. version \in Int /\ version' \in Int /\ EventVersion \in Int
  BY DEF ProjectionInv, TypeOK, EventVersion
<1>2. AnnouncedIsReadable'
  BY <1>1 DEF ProjectionInv, AnnouncedIsReadable
<1>3. ASSUME NEW s \in Relays, NEW e \in Events, Current(s, e)' PROVE Achieved(s, e)'
  <2>1. CASE s = r
    BY <1>3, <2>1, Zenon
  <2>2. CASE s # r
    <3>1. pc'[s] = pc[s] /\ Current(s, e)
      BY <1>3, <2>2, Zenon DEF Current
    <3>2. Achieved(s, e)
      BY <3>1, Zenon DEF ProjectionInv, Progress
    <3>3. version >= EventVersion => version' >= EventVersion
      BY <1>1
    <3>4. /\ e \in detail => e \in detail'
          /\ e \in index => e \in index'
          /\ e \in kafka => e \in kafka'
      OBVIOUS
    <3>5. /\ pc'[s] \in {"index", "version", "publish", "markPublished"} => e \in detail'
          /\ pc'[s] \in {"version", "publish", "markPublished"} => e \in index'
      BY <3>1, <3>2, <3>4, Zenon DEF Achieved
    <3>6. /\ pc'[s] \in {"publish", "markPublished"} => version' >= EventVersion
          /\ pc'[s] = "markPublished" => e \in kafka'
      BY <3>1, <3>2, <3>3, <3>4, Zenon DEF Achieved
    <3> QED BY <3>5, <3>6, Zenon DEF Achieved
  <2> QED BY <2>1, <2>2, Zenon
<1> QED BY <1>2, <1>3, Zenon DEF ProjectionInv, Progress

\* A step of relay r that writes neither Redis nor Kafka and leaves the row it
\* is working on behind, or fails.
LEMMA ProjectionStays ==
    ASSUME ProjectionInv, TypeOK', NEW r \in Relays, UNCHANGED <<redis, kafka>>,
           \A s \in Relays \ {r} : pc'[s] = pc[s] /\ work'[s] = work[s],
           \A e \in Events : status'[e] = "published" => e \in kafka,
           pc'[r] \in {"idle", "load", "detail", "countRetries", "markFailed"}
    PROVE  ProjectionInv'
<1>1. UNCHANGED <<detail, index, version, kafka>> /\ version' >= version
  BY DEF redis, ProjectionInv, TypeOK, EventVersion
<1>2. \A e \in Events : Achieved(r, e)'
  BY Zenon DEF Achieved
<1> QED BY <1>1, <1>2, ProjectionGrows, Zenon

LEMMA ProjectionOfStep ==
    ASSUME ProjectionInv, TypeOK', NEW r \in Relays, NEW e \in Events, Step(r, e)
    PROVE  ProjectionInv'
<1>0. /\ pc \in [Relays -> Operations] /\ work \in [Relays -> SUBSET Events]
      /\ version \in {0, EventVersion} /\ EventVersion = 1
      /\ \A f \in Events : status[f] = "published" => f \in kafka
  BY Zenon DEF ProjectionInv, TypeOK, EventVersion
<1>1. Current(r, e) /\ Achieved(r, e) /\ \A f \in Events : Current(r, f) => f = e
  <2>1. Current(r, e)
    BY Zenon DEF Step, LoadMail, SetGlobalMail, AddGlobalMailToIndexes, AdvanceGlobalMailVersion,
           PublishGlobalMailChanged, MarkPublished, MarkPublishedFails, CountRetries,
           CountRetriesFails, MarkFailed, MarkFailedFails, At, Current
  <2> QED BY <2>1, CurrentUnique, Zenon DEF ProjectionInv, Progress
<1>2. ASSUME NEW call, Goto(r, call)
      PROVE  /\ pc'[r] = call /\ work' = work /\ \A s \in Relays \ {r} : pc'[s] = pc[s]
             /\ \A f \in Events : Current(r, f)' => f = e
  BY <1>0, <1>1, <1>2, Zenon DEF Goto, Current
<1>3. CASE LoadMail(r, e) \/ CountRetries(r, e)
  <2>1. /\ UNCHANGED <<status, redis, kafka, work>> /\ \A s \in Relays \ {r} : pc'[s] = pc[s]
        /\ pc'[r] \in {"detail", "countRetries", "markFailed"}
    BY <1>0, <1>3, Zenon DEF LoadMail, CountRetries, Goto, row
  <2> QED BY <1>0, <2>1, ProjectionStays, Zenon
<1>4. CASE SetGlobalMail(r, e)
  <2>1. /\ detail \subseteq detail' /\ UNCHANGED <<status, index, version, kafka>>
        /\ (e \in detail' /\ Goto(r, "index")) \/ Goto(r, "countRetries")
    BY <1>4, Zenon DEF SetGlobalMail, row
  <2>2. /\ (e \in detail' /\ pc'[r] = "index") \/ pc'[r] = "countRetries"
        /\ work' = work /\ \A s \in Relays \ {r} : pc'[s] = pc[s]
        /\ \A f \in Events : Current(r, f)' => f = e
    BY <1>2, <2>1, Zenon
  <2>3. Achieved(r, e)'
    BY <2>1, <2>2, Zenon DEF Achieved
  <2>4. version' >= version
    BY <1>0, <2>1
  <2> QED BY <1>0, <2>1, <2>2, <2>3, <2>4, ProjectionGrows, Zenon
<1>5. CASE AddGlobalMailToIndexes(r, e)
  <2>1. /\ index \subseteq index' /\ index' \subseteq index \union {e}
        /\ UNCHANGED <<status, detail, version, kafka>> /\ e \in detail
        /\ (e \in index' /\ Goto(r, "version")) \/ Goto(r, "countRetries")
    BY <1>1, <1>5, Zenon DEF AddGlobalMailToIndexes, row, At, Achieved
  <2>2. /\ (e \in index' /\ pc'[r] = "version") \/ pc'[r] = "countRetries"
        /\ work' = work /\ \A s \in Relays \ {r} : pc'[s] = pc[s]
        /\ \A f \in Events : Current(r, f)' => f = e
    BY <1>2, <2>1, Zenon
  <2>3. Achieved(r, e)'
    BY <2>1, <2>2, Zenon DEF Achieved
  <2>4. version' >= version
    BY <1>0, <2>1
  <2> QED BY <1>0, <2>1, <2>2, <2>3, <2>4, ProjectionGrows, Zenon
<1>6. CASE AdvanceGlobalMailVersion(r, e)
  <2>1. /\ version' >= version /\ UNCHANGED <<status, detail, index, kafka>>
        /\ e \in detail /\ e \in index
        /\ (version' >= EventVersion /\ Goto(r, "publish")) \/ Goto(r, "countRetries")
    BY <1>0, <1>1, <1>6 DEF AdvanceGlobalMailVersion, Advanced, row, At, Achieved
  <2>2. /\ (version' >= EventVersion /\ pc'[r] = "publish") \/ pc'[r] = "countRetries"
        /\ work' = work /\ \A s \in Relays \ {r} : pc'[s] = pc[s]
        /\ \A f \in Events : Current(r, f)' => f = e
    BY <1>2, <2>1, Zenon
  <2>3. Achieved(r, e)'
    BY <2>1, <2>2, Zenon DEF Achieved
  <2>4. version' >= version
    BY <1>0, <2>1, Zenon
  <2> QED BY <1>0, <2>1, <2>2, <2>3, <2>4, ProjectionGrows, Zenon
<1>7. CASE PublishGlobalMailChanged(r, e)
  <2>1. /\ kafka \subseteq kafka' /\ kafka' \subseteq kafka \union {e}
        /\ UNCHANGED <<status, detail, index, version>>
        /\ e \in detail /\ e \in index /\ version >= EventVersion
        /\ (e \in kafka' /\ Goto(r, "markPublished")) \/ Goto(r, "countRetries")
    BY <1>1, <1>7, Zenon DEF PublishGlobalMailChanged, redis, row, At, Achieved
  <2>2. /\ (e \in kafka' /\ pc'[r] = "markPublished") \/ pc'[r] = "countRetries"
        /\ work' = work /\ \A s \in Relays \ {r} : pc'[s] = pc[s]
        /\ \A f \in Events : Current(r, f)' => f = e
    BY <1>2, <2>1, Zenon
  <2>3. Achieved(r, e)'
    BY <2>1, <2>2, Zenon DEF Achieved
  <2>4. version' >= version
    BY <1>0, <2>1
  <2> QED BY <1>0, <2>1, <2>2, <2>3, <2>4, ProjectionGrows, Zenon
<1>8. CASE MarkPublished(r, e) \/ MarkPublishedFails(r, e)
  <2>1. /\ UNCHANGED <<redis, kafka>> /\ e \in kafka
        /\ \A s \in Relays \ {r} : pc'[s] = pc[s] /\ work'[s] = work[s]
        /\ pc'[r] \in {"idle", "load"}
    BY <1>0, <1>1, <1>8, Zenon DEF MarkPublished, MarkPublishedFails, NextEvent, At, Achieved
  <2>2. \A f \in Events : status'[f] = status[f] \/ f = e
    BY <1>8, Zenon DEF MarkPublished, MarkPublishedFails, SetPublished, row, ProjectionInv, TypeOK
  <2> QED BY <1>0, <2>1, <2>2, ProjectionStays, Zenon
<1>9. CASE CountRetriesFails(r, e) \/ MarkFailed(r, e) \/ MarkFailedFails(r, e)
  <2>1. /\ UNCHANGED <<redis, kafka>> /\ pc'[r] \in {"idle", "load"}
        /\ \A s \in Relays \ {r} : pc'[s] = pc[s] /\ work'[s] = work[s]
    BY <1>0, <1>9, Zenon DEF CountRetriesFails, MarkFailed, MarkFailedFails, NextEvent
  <2>2. \A f \in Events : status'[f] = "published" => status[f] = "published"
    BY <1>9, Zenon DEF CountRetriesFails, MarkFailed, MarkFailedFails, row, ProjectionInv, TypeOK
  <2> QED BY <1>0, <2>1, <2>2, ProjectionStays, Zenon
<1> QED BY <1>3, <1>4, <1>5, <1>6, <1>7, <1>8, <1>9, Zenon DEF Step

LEMMA ProjectionStep == ProjectionInv /\ TypeOK' /\ [Next]_vars => ProjectionInv'
<1> SUFFICES ASSUME ProjectionInv, TypeOK', [Next]_vars PROVE ProjectionInv'
  OBVIOUS
<1> USE DEF ProjectionInv, AnnouncedIsReadable
<1>1. ASSUME NEW e \in Events, CreateOutbox(e) PROVE ProjectionInv'
  BY <1>1, Zenon DEF CreateOutbox, redis, relay, Progress, Achieved, Current, TypeOK
<1>2. ASSUME NEW e \in Events, Elapse(e) PROVE ProjectionInv'
  BY <1>2, Zenon DEF Elapse, redis, relay, Progress, Achieved, Current
<1>3. ASSUME NEW r \in Relays, FetchPending(r) PROVE ProjectionInv'
  <2>1. UNCHANGED <<detail, index, version, kafka>>
    BY <1>3, Zenon DEF FetchPending, redis
  <2>2. \A e \in Events : status'[e] = "published" => status[e] = "published"
    BY <1>3, Zenon DEF FetchPending
  <2>3. \A s \in Relays : \/ pc'[s] = pc[s] /\ work'[s] = work[s]
                          \/ pc'[s] \in {"idle", "load"}
    BY <1>3, Zenon DEF FetchPending, TypeOK
  <2>4. Progress'
    BY <2>1, <2>3, Zenon DEF Progress, Achieved, Current
  <2>5. QED
    BY <2>1, <2>2, <2>4, Zenon
<1>4. ASSUME NEW r \in Relays, Crash(r) PROVE ProjectionInv'
  <2>1. /\ UNCHANGED <<status, redis, kafka>> /\ pc'[r] = "idle"
        /\ \A s \in Relays \ {r} : pc'[s] = pc[s] /\ work'[s] = work[s]
    BY <1>4, Zenon DEF Crash, row, TypeOK
  <2> QED BY <2>1, ProjectionStays, Zenon
<1>5. CASE UNCHANGED vars
  BY <1>5, Zenon DEF vars, row, redis, relay, Progress, Achieved, Current
<1>6. QED
  BY <1>1, <1>2, <1>3, <1>4, <1>5, ProjectionOfStep, Zenon DEF Next

LEMMA ProjectionInvariance == Spec => []ProjectionInv
BY TypeCorrect, ProjectionInit, ProjectionStep, PTL DEF Spec

\* A row Flush marked published is fully projected, in every reachable state of
\* any number of relays, slow or crashing.
THEOREM Projected == Spec => []PublishedIsProjected
<1>1. ProjectionInv => PublishedIsProjected
  BY Zenon DEF ProjectionInv, PublishedIsProjected, AnnouncedIsReadable
<1>2. QED
  BY <1>1, ProjectionInvariance, PTL

\* An event in the topic can be read back from Redis, whichever of Flush's
\* writes failed, were repeated or overtook each other.
THEOREM Readable == Spec => []AnnouncedIsReadable
<1>1. ProjectionInv => AnnouncedIsReadable
  BY Zenon DEF ProjectionInv
<1>2. QED
  BY <1>1, ProjectionInvariance, PTL

-----------------------------------------------------------------------------

\* A row in a relay's batch whose locks were never overrun is locked for that
\* relay alone, and the retry_count MarkFailed has read is still the row's.
LockInv ==
    /\ TypeOK
    /\ \A r \in Relays : \A e \in work[r] \ overrun :
          status[e] = "processing" /\ e \notin due
    /\ OneRelayPerEvent
    /\ \A e \in Events \ overrun : status[e] \in {"absent", "pending", "processing"} =>
          retryCount[e] < MaxRetries
    /\ \A r \in Relays, e \in Events \ overrun :
          pc[r] = "markFailed" /\ Current(r, e) => seen[r] = retryCount[e]

LEMMA LockInit == Init => LockInv
<1> SUFFICES ASSUME Init PROVE LockInv
  OBVIOUS
<1>1. TypeOK
  BY RelayAssumption DEF Init, TypeOK, Status, Operations, EventVersion
<1>2. QED
  BY <1>1, RelayAssumption DEF Init, LockInv, OneRelayPerEvent, Current

\* A step that changes no row: batches may shrink, and MarkFailed is not entered.
LEMMA LockKept ==
    ASSUME LockInv, TypeOK', UNCHANGED <<row, overrun>>,
           \A s \in Relays : work'[s] \subseteq work[s],
           \A s \in Relays : pc'[s] = "markFailed" =>
               pc[s] = "markFailed" /\ work'[s] = work[s] /\ seen'[s] = seen[s]
    PROVE  LockInv'
<1>1. UNCHANGED <<status, retryCount, due>>
  BY Zenon DEF row
<1>2. OneRelayPerEvent'
  BY Zenon DEF LockInv, OneRelayPerEvent
<1>3. \A s \in Relays, f \in Events \ overrun' :
         pc'[s] = "markFailed" /\ Current(s, f)' => seen'[s] = retryCount'[f]
  BY <1>1, Zenon DEF LockInv, Current
<1> QED BY <1>1, <1>2, <1>3, Zenon DEF LockInv

\* Relay r records the outcome of e, and is through with it.
LEMMA LockOutcome ==
    ASSUME LockInv, TypeOK', UNCHANGED overrun, NEW r \in Relays, NEW e \in work[r],
           \A f \in Events \ {e} : status'[f] = status[f] /\ retryCount'[f] = retryCount[f],
           due' \subseteq due,
           work'[r] \subseteq work[r] \ {e}, pc'[r] # "markFailed",
           \A s \in Relays \ {r} : pc'[s] = pc[s] /\ work'[s] = work[s] /\ seen'[s] = seen[s],
           e \notin overrun /\ status'[e] \in {"absent", "pending", "processing"} =>
               retryCount'[e] < MaxRetries
    PROVE  LockInv'
<1>0. \A s \in Relays : work'[s] \subseteq work[s] /\ work[s] \subseteq Events
  BY Zenon DEF LockInv, TypeOK
<1>1. \A s \in Relays \ {r} : e \notin work[s] \ overrun
  BY Zenon DEF LockInv, OneRelayPerEvent
<1>2. ASSUME NEW s \in Relays, NEW f \in work'[s] \ overrun'
      PROVE  status'[f] = "processing" /\ f \notin due'
  <2>1. f \in work[s] \ overrun /\ f # e /\ f \in Events
    BY <1>0, <1>1, Zenon
  <2>2. status[f] = "processing" /\ f \notin due
    BY <2>1, Zenon DEF LockInv
  <2> QED BY <2>1, <2>2, Zenon
<1>3. OneRelayPerEvent'
  BY <1>0, Zenon DEF LockInv, OneRelayPerEvent
<1>4. ASSUME NEW f \in Events \ overrun', status'[f] \in {"absent", "pending", "processing"}
      PROVE  retryCount'[f] < MaxRetries
  <2>1. CASE f = e
    BY <1>4, <2>1, Zenon
  <2>2. CASE f # e
    BY <1>4, <2>2, Zenon DEF LockInv
  <2> QED BY <2>1, <2>2, Zenon
<1>5. ASSUME NEW s \in Relays, NEW f \in Events \ overrun', pc'[s] = "markFailed",
             Current(s, f)'
      PROVE  seen'[s] = retryCount'[f]
  <2>1. s # r
    BY <1>5, Zenon
  <2>2. pc[s] = "markFailed" /\ seen'[s] = seen[s] /\ Current(s, f)
    BY <1>5, <2>1, Zenon DEF Current
  <2>3. f # e
    BY <1>1, <2>1, <2>2, Zenon DEF Current
  <2>4. seen[s] = retryCount[f]
    BY <2>2, Zenon DEF LockInv
  <2> QED BY <2>2, <2>3, <2>4, Zenon
<1> QED BY <1>2, <1>3, <1>4, <1>5, Zenon DEF LockInv

LEMMA LockOfStep ==
    ASSUME LockInv, TypeOK', NEW r \in Relays, NEW e \in Events, Step(r, e)
    PROVE  LockInv'
<1>0. /\ pc \in [Relays -> Operations] /\ work \in [Relays -> SUBSET Events]
      /\ status \in [Events -> Status] /\ retryCount \in [Events -> Nat]
      /\ \A s \in Relays : seen[s] \in Nat
  BY Zenon DEF LockInv, TypeOK
<1>1. CASE LoadMail(r, e) \/ SetGlobalMail(r, e) \/ AddGlobalMailToIndexes(r, e)
           \/ AdvanceGlobalMailVersion(r, e) \/ PublishGlobalMailChanged(r, e)
  <2>1. PICK call \in {"detail", "index", "version", "publish", "markPublished",
                       "countRetries"} : Goto(r, call) /\ UNCHANGED row
    BY <1>1, Zenon DEF LoadMail, SetGlobalMail, AddGlobalMailToIndexes, AdvanceGlobalMailVersion,
                PublishGlobalMailChanged
  <2>2. UNCHANGED <<work, seen, overrun>>
        /\ \A s \in Relays : pc'[s] = "markFailed" => pc[s] = "markFailed"
    BY <1>0, <2>1, Zenon DEF Goto, history
  <2> QED BY <2>1, <2>2, LockKept, Zenon
<1>2. CASE MarkPublished(r, e) \/ (MarkPublishedFails(r, e) /\ SetPublished(e))
  <2>1. /\ e \in work[r] /\ UNCHANGED overrun /\ SetPublished(e)
        /\ work'[r] \subseteq work[r] \ {e} /\ pc'[r] # "markFailed"
    BY <1>0, <1>2, Zenon DEF MarkPublished, MarkPublishedFails, NextEvent, At, history
  <2>2. \A s \in Relays \ {r} : pc'[s] = pc[s] /\ work'[s] = work[s] /\ seen'[s] = seen[s]
    BY <1>0, <1>2 DEF MarkPublished, MarkPublishedFails, NextEvent, LockInv, TypeOK
  <2>3. /\ due' \subseteq due /\ status'[e] = "published"
        /\ \A f \in Events \ {e} : status'[f] = status[f] /\ retryCount'[f] = retryCount[f]
    BY <1>0, <2>1, Zenon DEF SetPublished
  <2> QED BY <2>1, <2>2, <2>3, LockOutcome, Zenon
<1>3. CASE \/ MarkPublishedFails(r, e) /\ UNCHANGED row
           \/ CountRetriesFails(r, e)
           \/ MarkFailedFails(r, e)
  <2>1. /\ UNCHANGED <<row, overrun>> /\ pc'[r] # "markFailed"
        /\ \A s \in Relays : work'[s] \subseteq work[s]
    BY <1>0, <1>3 DEF MarkPublishedFails, CountRetriesFails, MarkFailedFails, NextEvent, history
  <2>2. \A s \in Relays \ {r} : pc'[s] = pc[s] /\ work'[s] = work[s] /\ seen'[s] = seen[s]
    BY <1>0, <1>3, Zenon DEF MarkPublishedFails, CountRetriesFails, MarkFailedFails, NextEvent,
                      LockInv, TypeOK
  <2> QED BY <2>1, <2>2, LockKept, Zenon
<1>4. CASE CountRetries(r, e)
  <2>1. /\ UNCHANGED <<row, work, overrun>> /\ seen'[r] = retryCount[e] /\ Current(r, e)
        /\ \A s \in Relays \ {r} : pc'[s] = pc[s] /\ seen'[s] = seen[s]
    BY <1>0, <1>4, Zenon DEF CountRetries, At, Current, history, LockInv, TypeOK
  <2>2. UNCHANGED <<status, retryCount, due>>
    BY <2>1, Zenon DEF row
  <2>3. ASSUME NEW s \in Relays, NEW f \in Events \ overrun', pc'[s] = "markFailed",
               Current(s, f)'
        PROVE  seen'[s] = retryCount'[f]
    <3>1. Current(s, f)
      BY <2>1, <2>3, Zenon DEF Current
    <3>2. CASE s = r
      <4>1. f = e
        BY <2>1, <3>1, <3>2, CurrentUnique, Zenon
      <4> QED BY <2>1, <2>2, <3>2, <4>1, Zenon
    <3>3. CASE s # r
      BY <2>1, <2>2, <2>3, <3>1, <3>3, Zenon DEF LockInv
    <3> QED BY <3>2, <3>3, Zenon
  <2>4. OneRelayPerEvent'
    BY <2>1, Zenon DEF LockInv, OneRelayPerEvent
  <2> QED BY <2>1, <2>2, <2>3, <2>4, Zenon DEF LockInv
<1>5. CASE MarkFailed(r, e)
  <2>1. /\ e \in work[r] /\ UNCHANGED overrun /\ Current(r, e) /\ pc[r] = "markFailed"
        /\ work'[r] \subseteq work[r] \ {e} /\ pc'[r] # "markFailed"
    BY <1>0, <1>5, Zenon DEF MarkFailed, NextEvent, At, Current, history
  <2>2. \A s \in Relays \ {r} : pc'[s] = pc[s] /\ work'[s] = work[s] /\ seen'[s] = seen[s]
    BY <1>0, <1>5 DEF MarkFailed, NextEvent, LockInv, TypeOK
  <2>3. /\ due' \subseteq due
        /\ \A f \in Events \ {e} : status'[f] = status[f] /\ retryCount'[f] = retryCount[f]
        /\ retryCount'[e] = retryCount[e] + 1
        /\ status'[e] = IF seen[r] + 1 >= MaxRetries THEN "failed" ELSE "pending"
    BY <1>0, <1>5, Zenon DEF MarkFailed
  <2>4. e \notin overrun => seen[r] = retryCount[e]
    BY <2>1, Zenon DEF LockInv
  <2>5. e \notin overrun /\ status'[e] \in {"absent", "pending", "processing"} =>
           retryCount'[e] < MaxRetries
    BY <1>0, <2>3, <2>4, RelayAssumption
  <2> QED BY <2>1, <2>2, <2>3, <2>5, LockOutcome, Zenon
<1> QED BY <1>1, <1>2, <1>3, <1>4, <1>5, Zenon DEF Step, MarkPublishedFails

LEMMA LockStep == LockInv /\ TypeOK' /\ [Next]_vars => LockInv'
<1> SUFFICES ASSUME LockInv, TypeOK', [Next]_vars PROVE LockInv'
  OBVIOUS
<1> USE RelayAssumption DEF LockInv, OneRelayPerEvent, Current, history
<1>1. ASSUME NEW e \in Events, CreateOutbox(e) PROVE LockInv'
  BY <1>1, Zenon DEF CreateOutbox, redis, relay, TypeOK
<1>2. ASSUME NEW e \in Events, Elapse(e) PROVE LockInv'
  <2>1. UNCHANGED <<status, retryCount, pc, work, seen>>
    BY <1>2, Zenon DEF Elapse, relay
  <2>2. due' = due \union {e} /\ overrun \subseteq overrun'
    BY <1>2, Zenon DEF Elapse
  <2>3. \A r \in Relays : e \in work[r] => e \in overrun'
    BY <1>2, Zenon DEF Elapse
  <2>4. QED
    BY <2>1, <2>2, <2>3, Zenon
<1>3. ASSUME NEW r \in Relays, FetchPending(r) PROVE LockInv'
  <2>1. PICK batch \in SUBSET Eligible :
           /\ status' = [e \in Events |-> IF e \in batch THEN "processing" ELSE status[e]]
           /\ due' = due \ batch
           /\ \/ /\ work' = [work EXCEPT ![r] = batch]
                 /\ pc' = [pc EXCEPT ![r] = IF batch = {} THEN "idle" ELSE "load"]
              \/ UNCHANGED <<work, pc>>
    BY <1>3, Zenon DEF FetchPending
  <2>2. UNCHANGED <<retryCount, seen, overrun>>
    BY <1>3, Zenon DEF FetchPending
  <2>3. batch \subseteq due /\ batch \subseteq Events
        /\ \A e \in batch : status[e] \in {"pending", "processing"}
    BY Zenon DEF Eligible
  <2>4. \A s \in Relays : work[s] \intersect batch \subseteq overrun
    BY <2>3, Zenon
  <2>5. \A s \in Relays : work'[s] = work[s] \/ (s = r /\ work'[s] = batch)
    BY <2>1, Zenon DEF TypeOK
  <2>6. \A s \in Relays : \A e \in work'[s] \ overrun' : status'[e] = "processing" /\ e \notin due'
    BY <2>1, <2>2, <2>3, <2>5 DEF TypeOK
  <2>7. OneRelayPerEvent'
    BY <2>2, <2>4, <2>5
  <2>8. \A e \in Events \ overrun' : status'[e] \in {"absent", "pending", "processing"} =>
           retryCount'[e] < MaxRetries
    BY <2>1, <2>2, <2>3, Zenon DEF TypeOK
  <2>9. \A s \in Relays, e \in Events \ overrun' :
           pc'[s] = "markFailed" /\ Current(s, e)' => seen'[s] = retryCount'[e]
    <3>1. \A s \in Relays : pc'[s] = "markFailed" => pc[s] = "markFailed" /\ work'[s] = work[s]
      BY <2>1, Zenon DEF TypeOK
    <3> QED BY <2>2, <3>1, Zenon
  <2>10. QED
    BY <2>6, <2>7, <2>8, <2>9, Zenon
<1>4. ASSUME NEW r \in Relays, Crash(r) PROVE LockInv'
  <2>1. /\ UNCHANGED <<row, overrun>> /\ pc'[r] # "markFailed"
        /\ \A s \in Relays : work'[s] \subseteq work[s]
    BY <1>4, Zenon DEF Crash, TypeOK
  <2>2. \A s \in Relays \ {r} : pc'[s] = pc[s] /\ work'[s] = work[s] /\ seen'[s] = seen[s]
    BY <1>4, Zenon DEF Crash, TypeOK
  <2> QED BY <2>1, <2>2, LockKept, Zenon
<1>5. CASE UNCHANGED vars
  BY <1>5, LockKept, Zenon DEF vars, relay
<1>6. QED
  BY <1>1, <1>2, <1>3, <1>4, <1>5, LockOfStep, Zenon DEF Next

LEMMA LockInvariance == Spec => []LockInv
BY TypeCorrect, LockInit, LockStep, PTL DEF Spec

\* As long as no lock on a row expires under a working relay, FetchPending gives
\* it to one relay at a time.
THEOREM LocksExclude == Spec => []OneRelayPerEvent
<1>1. LockInv => OneRelayPerEvent
  BY Zenon DEF LockInv
<1>2. QED
  BY <1>1, LockInvariance, PTL

\* As long as no lock on a row expires under a working relay, MarkFailed's two
\* statements act as one: the row fails exactly at the retry limit.
THEOREM RetriesEnd == Spec => []RetriesBounded
<1>1. LockInv => RetriesBounded
  BY Zenon DEF LockInv, RetriesBounded
<1>2. QED
  BY <1>1, LockInvariance, PTL

LEMMA PublishedStep ==
    LockInv /\ [Next]_vars =>
        [\A e \in Events \ overrun :
            status[e] = "published" => status'[e] = "published"]_vars
<1> SUFFICES ASSUME LockInv, Next, NEW f \in Events \ overrun, status[f] = "published"
             PROVE  status'[f] = "published"
  OBVIOUS
<1> USE DEF LockInv, TypeOK
<1>1. ASSUME NEW e \in Events, CreateOutbox(e) \/ Elapse(e) PROVE status'[f] = "published"
  BY <1>1, Zenon DEF CreateOutbox, Elapse
<1>2. ASSUME NEW r \in Relays, FetchPending(r) \/ Crash(r) PROVE status'[f] = "published"
  BY <1>2 DEF FetchPending, Eligible, Crash, row
<1>3. ASSUME NEW r \in Relays, NEW e \in Events, Step(r, e)
      PROVE  status'[f] = "published"
  <2>1. CASE UNCHANGED row
    BY <2>1, Zenon DEF row
  <2>2. CASE SetPublished(e)
    BY <2>2, Zenon DEF SetPublished
  <2>3. CASE MarkFailed(r, e)
    BY <2>3, Zenon DEF MarkFailed, At, row
  <2>4. CASE MarkFailedFails(r, e)
    BY <2>4, Zenon DEF MarkFailedFails, At, row
  <2> QED BY <1>3, <2>1, <2>2, <2>3, <2>4, Zenon
          DEF Step, LoadMail, SetGlobalMail, AddGlobalMailToIndexes,
              AdvanceGlobalMailVersion, PublishGlobalMailChanged, MarkPublished,
              MarkPublishedFails, CountRetries, CountRetriesFails, At, row
<1>4. QED
  BY <1>1, <1>2, <1>3, Zenon DEF Next

\* As long as no lock on a row expires under a working relay, no step takes it
\* back from published to another status.
THEOREM PublishedFinal == Spec => PublishedIsFinal
BY LockInvariance, PublishedStep, PTL DEF Spec, PublishedIsFinal
=============================================================================
