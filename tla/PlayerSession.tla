--------------------------- MODULE PlayerSession ---------------------------
(***************************************************************************)
(* Players that have logged in use their mails: Accounts gives them an     *)
(* identity, the commands carry it into the profile                        *)
(* (app/playersrv/mail_commands.go), while PlayerMailService takes the     *)
(* profile of the request as it is (mail_rpc.go).  Visibility decides on   *)
(* the process's snapshot what they see, and the rows of deleted mails in  *)
(* MySQL are kept by role.                                                 *)
(*                                                                         *)
(* A refresh is the step that replaces the snapshot and may come at any    *)
(* time, long after it began: its calls, and the versions that make it     *)
(* rare, are LocalCache's subject.  What an update writes is PlayerMail's. *)
(***************************************************************************)
EXTENDS Accounts, Visibility

CONSTANTS
    Payloads,     \* the profiles a request may carry: attributes, and uid, role
                  \* and server of its own
    Earlier,      \* the mails in MySQL at the start
    MaxTime,      \* bound on the clock
    MaxDeletes    \* bound on deleted rows

ASSUME SessionAssumption ==
    /\ Payloads \subseteq [uid : Int, role : Int, server : Servers, attributes : Attributes]
    /\ \A l \in Logins : ServerId[l] > 0 => ServerId[l] \in Servers
    /\ Earlier \subseteq Mails
    /\ MaxTime \in Nat
    /\ MaxDeletes \in Nat

VARIABLES
    now,          \* the clock
    published,    \* mails in MySQL
    index,        \* mails in Redis, in the active index and in details
    lost,         \* history: Redis lost the index
    snapshot,     \* mails in playersrv's snapshot
    began,        \* its LastRefreshTime, the time its refresh began
    rows          \* user_global_mail_state rows that say deleted: role and mail,
                  \* and as a history the uid that deleted, and whether directly

stored == <<published, index, lost>>
vars == <<accounts, now, stored, snapshot, began, rows>>

Init ==
    /\ AccountsInit
    /\ now = 0 /\ snapshot = {} /\ began = 0 /\ rows = {}
    /\ published = Earlier /\ index = {} /\ lost = FALSE

-----------------------------------------------------------------------------
(* Requests.                                                               *)

\* Mutant: the identity of the payload is believed.
ProfilePayloads(u, payload) == payload

\* ensureCommandProfile: the payload's profile, with the identity the command was
\* sent with.
Profile(u, payload) ==
    [payload EXCEPT !.uid = u.uid, !.role = u.role, !.server = u.server]

\* The identities of players that have logged in, and the profiles of their
\* commands; a call of PlayerMailService has the payload for its profile.
Players == UNION {answer[l] : l \in {k \in Logins : pc[k] = "ok"}}
Commands == {Profile(u, payload) : u \in Players, payload \in Payloads}
Requests == Commands \union Payloads

DeletedBy(role) == {r.mail : r \in {row \in rows : row.role = role}}

\* What ListGlobalMails returns.
Listing(p) == ListGlobalMails(snapshot, p, now, DeletedBy(p.role))

\* DeleteGlobalMail of a mail that VisibleMails names, by a command or directly.
DeleteGlobalMail(p, m, direct) ==
    /\ m \in snapshot /\ VisibleMails(snapshot, p, now)[m] > 0
    /\ Cardinality(rows) < MaxDeletes
    /\ rows' = rows \union {[role |-> p.role, mail |-> m, by |-> p.uid, direct |-> direct]}
    /\ UNCHANGED <<accounts, now, stored, snapshot, began>>

-----------------------------------------------------------------------------
(* The snapshot.                                                           *)

Publish(m) ==
    /\ m \notin published
    /\ published' = published \union {m}
    /\ UNCHANGED <<accounts, now, index, lost, snapshot, began, rows>>

\* Mutant: a mail is relayed that was not committed.
FillAny(m) ==
    /\ m \notin index
    /\ index' = index \union {m}
    /\ UNCHANGED <<accounts, now, published, lost, snapshot, began, rows>>

\* The relay, or the refill of another process, puts a mail into Redis.
Fill(m) ==
    /\ m \in published \ index
    /\ index' = index \union {m}
    /\ UNCHANGED <<accounts, now, published, lost, snapshot, began, rows>>

\* Redis loses the index, once (bounded).
LoseIndex ==
    /\ index # {} /\ ~lost /\ lost' = TRUE
    /\ index' = {}
    /\ UNCHANGED <<accounts, now, published, snapshot, began, rows>>

GetActiveGlobalMailIDs(at) == {m \in index : Mail[m].expire >= at}

\* Mutant: a mail that starts now is left out.
GetPublishedGlobalMailsLate(at) ==
    {m \in published : Mail[m].status = "published" /\ Mail[m].start < at /\ at < Mail[m].expire}

GetPublishedGlobalMails(at) ==
    {m \in published : Mail[m].status = "published" /\ Mail[m].start <= at /\ at < Mail[m].expire}

\* refresh replaces the snapshot as a whole: by the mails of Redis, when there are
\* any; or by those of MySQL, when there are none or a detail is missing, which
\* may happen to any, and puts them into Redis.  It began after the one before.
Refresh(at) ==
    /\ at >= began
    /\ \/ /\ GetActiveGlobalMailIDs(at) # {}
          /\ snapshot' = GetActiveGlobalMailIDs(at)
          /\ UNCHANGED index
       \/ /\ snapshot' = GetPublishedGlobalMails(at)
          /\ index' = index \union GetPublishedGlobalMails(at)
    /\ began' = at
    /\ UNCHANGED <<accounts, now, published, lost, rows>>

Tick ==
    /\ now < MaxTime
    /\ now' = now + 1
    /\ UNCHANGED <<accounts, stored, snapshot, began, rows>>

Next ==
    \/ AccountsStep /\ UNCHANGED <<now, stored, snapshot, began, rows>>
    \/ Restart /\ snapshot' = {} /\ began' = now /\ UNCHANGED <<now, stored, rows>>
    \/ \E p \in Commands, m \in Mails : DeleteGlobalMail(p, m, FALSE)
    \/ \E p \in Payloads, m \in Mails : DeleteGlobalMail(p, m, TRUE)
    \/ \E m \in Mails : Publish(m) \/ Fill(m)
    \/ LoseIndex
    \/ \E at \in 0..now : Refresh(at)
    \/ Tick

Spec == Init /\ [][Next]_vars

-----------------------------------------------------------------------------

\* Types of the logins, the stored mails, the snapshot and the rows.
TypeOK ==
    /\ AccountsTypeOK
    /\ now \in 0..MaxTime /\ began \in 0..now
    /\ published \subseteq Mails /\ index \subseteq published /\ lost \in BOOLEAN
    /\ snapshot \subseteq published
    /\ rows \subseteq [role : Int, mail : Mails, by : Int, direct : BOOLEAN]

\* The servers a condition lets in: a number by its operator, a list by what it has.
\* (A list with the operator ne or range is not judged: the code takes it for one
\* of the servers to let in.)
LetIn(c) ==
    {s \in Servers :
        /\ c.value.json = "number" /\ c.operator = "ne" => s # c.value.of
        /\ c.value.json = "number" /\ c.operator \in {"", "eq"} => s = c.value.of
        /\ c.value.json = "numbers" /\ c.operator \in {"", "eq", "in"} =>
              s \in Elements(c.value.of)}

MeantFor(m, server) ==
    \A k \in DOMAIN Mail[m].conditions :
        OfServer(Mail[m].conditions[k]) => server \in LetIn(Mail[m].conditions[k])

\* A listing has no mail that is addressed to other servers, or that excludes the
\* player's: for a command the player's own server, whatever its payload names, and
\* for a direct call the server its profile names; although the index by server
\* ignores operators and the fallback to all active mails ignores the index.
ListedForServer ==
    \A payload \in Payloads, m \in snapshot :
        /\ Listing(payload)[m] > 0 => MeantFor(m, payload.server)
        /\ \A u \in Players :
              Listing(Profile(u, payload))[m] > 0 => MeantFor(m, u.server)

Addressed(server) == {m \in snapshot : Names[m][server] > 0}

\* A request lists every live mail whose conditions its profile meets, unless some
\* other mail of the snapshot names the profile's server and this one does not, the
\* player has deleted it or a direct call did under the role, or the role was given
\* to another user too, in another life of playersrv.
NothingWithheld ==
    \A p \in Requests, m \in snapshot :
        \/ ~Live(m, now)
        \/ Listing(p)[m] > 0
        \/ ~Meets(p, m)
        \/ Addressed(p.server) # {} /\ m \notin Addressed(p.server)
        \/ \E r \in rows : r.role = p.role /\ r.mail = m /\ (r.by = p.uid \/ r.direct)
        \/ \E g \in given : g.user.role = p.role /\ g.user.uid # p.uid

\* What a player has seen stays listed while playersrv runs, although a refresh
\* replaces the snapshot by what Redis or MySQL has: until it expires or is deleted
\* under the role; until the first mail that names the player's server takes away
\* all that do not; until a refresh replaces the snapshot that began before the mail
\* started; or until one trusts an index that Redis lost and that is not full again.
StaysListed ==
    [][life' = life /\ <<now, snapshot, rows>>' # <<now, snapshot, rows>> =>
          \A p \in Requests, m \in snapshot :
              Listing(p)[m] > 0 =>
                  \/ now' >= Mail[m].expire
                  \/ m \in DeletedBy(p.role)'
                  \/ Addressed(p.server) = {} /\ m \notin Addressed(p.server)'
                  \/ m \notin snapshot' /\ (lost \/ began' < Mail[m].start)
                  \/ m \in snapshot' /\ Listing(p)'[m] > 0]_vars
=============================================================================
