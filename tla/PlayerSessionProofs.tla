------------------------ MODULE PlayerSessionProofs ------------------------
(***************************************************************************)
(* Proofs about Accounts, Visibility and PlayerSession, for any logins,    *)
(* uids, servers, restarts, mails, conditions and payloads.                *)
(***************************************************************************)
EXTENDS PlayerSession, TLAPS

-----------------------------------------------------------------------------
(* Accounts: identities and tokens.                                        *)

AccountsNext == AccountsStep \/ Restart

\* What playersrv has handed out is of this life or of an earlier one, a role
\* of this life is at most nextID, and belongs to a user it still knows.
GivenByThisLife ==
    /\ \A g \in given : g.life <= life
    /\ \A g \in given : g.life = life => g.user \in users /\ g.user.role <= nextID
    /\ \A u \in users : [life |-> life, user |-> u] \in given

\* An answer is the identity given to the login's own uid.
AnswersGiven ==
    \A l \in Logins : \A u \in answer[l] :
        u.uid = Uid[l] /\ \E g \in given : g.user = u

AccountsInv ==
    /\ AccountsTypeOK /\ GivenByThisLife /\ AnswersGiven
    /\ RolesApart /\ TokenIsOwn

LEMMA AccountsInitInv == AccountsInit => AccountsInv
BY AccountsAssumption
   DEF AccountsInit, AccountsInv, AccountsTypeOK, GivenByThisLife, AnswersGiven,
       RolesApart, TokenIsOwn, Users, Positive

\* Handing out an identity keeps the two facts about roles, and answers nothing
\* that was not given.
LEMMA Created ==
    ASSUME AccountsTypeOK, GivenByThisLife, RolesApart,
           NEW uid \in Positive, NEW server \in Positive, GetOrCreateUser(uid, server)
    PROVE  /\ life' = life /\ given \subseteq given' /\ nextID' \in Nat
           /\ users' \subseteq Users
           /\ given' \subseteq [life : 1..MaxLives, user : Users]
           /\ GivenByThisLife' /\ RolesApart'
<1> DEFINE user == [uid |-> uid, role |-> nextID + 1, server |-> server]
<1>1. CASE UsersOf(uid) # {}
  BY <1>1 DEF GetOrCreateUser, playersrv, AccountsTypeOK, GivenByThisLife, RolesApart
<1>2. CASE UsersOf(uid) = {}
  <2>1. /\ life' = life /\ nextID' = nextID + 1
        /\ users' = users \union {user}
        /\ given' = given \union {[life |-> life, user |-> user]}
    BY <1>2, Zenon DEF GetOrCreateUser
  <2>2. nextID' \in Nat /\ user \in Users
    BY <2>1 DEF AccountsTypeOK, Users, Positive
  <2>3. /\ users' \subseteq Users
        /\ given' \subseteq [life : 1..MaxLives, user : Users]
    BY <2>1, <2>2 DEF AccountsTypeOK
  <2>4. GivenByThisLife'
    BY <2>1, <2>2 DEF GivenByThisLife, AccountsTypeOK, Users, Positive
  <2>5. \A g \in given : g.life = life => g.user.uid # uid /\ g.user.role # nextID + 1
    BY <1>2 DEF GivenByThisLife, UsersOf, AccountsTypeOK, Users, Positive
  <2>6. RolesApart'
    BY <2>1, <2>5 DEF RolesApart
  <2> QED BY <2>1, <2>2, <2>3, <2>4, <2>6, Zenon
<1> QED BY <1>1, <1>2, Zenon

LEMMA GotoTypes ==
    ASSUME AccountsTypeOK, NEW l \in Logins, NEW call \in {"login", "token", "ok", "error"},
           NEW a \in SUBSET Users, Goto(l, call, a)
    PROVE  /\ pc' \in [Logins -> {"login", "token", "ok", "error"}]
           /\ answer' \in [Logins -> SUBSET Users]
           /\ answer'[l] = a /\ \A k \in Logins \ {l} : answer'[k] = answer[k]
BY Zenon DEF Goto, AccountsTypeOK

LEMMA AccountsStepInv == AccountsInv /\ [AccountsNext]_accounts => AccountsInv'
<1> SUFFICES ASSUME AccountsInv, [AccountsNext]_accounts PROVE AccountsInv'
  OBVIOUS
<1>0. AccountsTypeOK /\ GivenByThisLife /\ AnswersGiven /\ RolesApart /\ TokenIsOwn
  BY Zenon DEF AccountsInv
<1>1. ASSUME NEW l \in Logins, GameLogin(l) PROVE AccountsInv'
  <2>1. UNCHANGED tokens
    BY <1>1, Zenon DEF GameLogin
  <2>2. CASE Goto(l, "error", {}) /\ UNCHANGED playersrv
    <3>1. AccountsTypeOK'
      BY <1>0, <2>1, <2>2, GotoTypes DEF AccountsTypeOK, playersrv
    <3>2. AnswersGiven'
      BY <1>0, <2>2, GotoTypes DEF AnswersGiven, playersrv
    <3> QED BY <1>0, <2>1, <2>2, <3>1, <3>2, Zenon
            DEF AccountsInv, GivenByThisLife, RolesApart, TokenIsOwn, playersrv
  <2>3. CASE /\ Uid[l] > 0 /\ ServerId[l] > 0
             /\ GetOrCreateUser(Uid[l], ServerId[l])
             /\ \/ Goto(l, "token", {u \in users' : u.uid = Uid[l]})
                \/ Goto(l, "error", {})
    <3>1. Uid[l] \in Positive /\ ServerId[l] \in Positive
      BY <2>3, AccountsAssumption DEF Positive
    <3>2. /\ life' = life /\ given \subseteq given' /\ nextID' \in Nat
          /\ users' \subseteq Users
          /\ given' \subseteq [life : 1..MaxLives, user : Users]
          /\ GivenByThisLife' /\ RolesApart'
      BY <1>0, <2>3, <3>1, Created, Zenon
    <3>3. PICK a \in SUBSET Users, call \in {"token", "error"} :
              Goto(l, call, a) /\ \A u \in a : u \in users' /\ u.uid = Uid[l]
      BY <2>3, <3>2
    <3>4. AccountsTypeOK'
      BY <1>0, <2>1, <3>2, <3>3, GotoTypes, Zenon DEF AccountsTypeOK
    <3>5. \A u \in a : u.uid = Uid[l] /\ \E g \in given' : g.user = u
      BY <3>2, <3>3, Zenon DEF GivenByThisLife
    <3>6. AnswersGiven'
      BY <1>0, <3>2, <3>3, <3>5, GotoTypes DEF AnswersGiven
    <3>7. TokenIsOwn'
      BY <1>0, <2>1, <3>2, Zenon DEF TokenIsOwn
    <3> QED BY <3>2, <3>4, <3>6, <3>7, Zenon DEF AccountsInv
  <2> QED BY <1>1, <2>2, <2>3, Zenon DEF GameLogin
<1>2. ASSUME NEW l \in Logins, SetLoginToken(l) PROVE AccountsInv'
  <2>1. PICK u \in answer[l] :
          /\ tokens' \in {tokens, tokens \union {Token(l, u)}}
          /\ Goto(l, "ok", answer[l]) \/ Goto(l, "error", {})
    BY <1>2, Zenon DEF SetLoginToken
  <2>2. UNCHANGED playersrv
    BY <1>2, Zenon DEF SetLoginToken
  <2>3. PICK a \in {answer[l], {}}, call \in {"ok", "error"} : Goto(l, call, a)
    BY <2>1, Zenon
  <2>4. u \in Users /\ u.uid = Uid[l] /\ \E g \in given : g.user = u
    BY <1>0, <2>1, Zenon DEF AccountsTypeOK, AnswersGiven
  <2>5. Token(l, u) \in [by : Logins, uid : Positive, role : Positive, server : Positive]
    BY <2>4, Zenon DEF Token, Users
  <2>6. AccountsTypeOK'
    BY <1>0, <2>1, <2>2, <2>3, <2>5, GotoTypes, Zenon DEF AccountsTypeOK, playersrv
  <2>7. AnswersGiven'
    BY <1>0, <2>2, <2>3, GotoTypes DEF AnswersGiven, playersrv, AccountsTypeOK
  <2>8. TokenIsOwn'
    BY <1>0, <2>1, <2>2, <2>4 DEF TokenIsOwn, Token, playersrv, Users
  <2> QED BY <1>0, <2>2, <2>6, <2>7, <2>8, Zenon
          DEF AccountsInv, GivenByThisLife, RolesApart, playersrv
<1>3. CASE Restart
  <2>1. /\ life' = life + 1 /\ life < MaxLives /\ users' = {} /\ nextID' = 0
        /\ UNCHANGED <<given, pc, answer, tokens>>
    BY <1>3, Zenon DEF Restart, login
  <2>2. AccountsTypeOK'
    BY <1>0, <2>1, AccountsAssumption DEF AccountsTypeOK
  <2>3. GivenByThisLife'
    BY <1>0, <2>1 DEF GivenByThisLife, AccountsTypeOK
  <2> QED BY <1>0, <2>1, <2>2, <2>3 DEF AccountsInv, AnswersGiven, RolesApart, TokenIsOwn
<1>4. CASE UNCHANGED accounts
  BY <1>0, <1>4 DEF AccountsInv, AccountsTypeOK, GivenByThisLife, AnswersGiven, RolesApart,
                   TokenIsOwn, accounts, playersrv, login
<1> QED BY <1>1, <1>2, <1>3, <1>4, Zenon DEF AccountsNext, AccountsStep

\* However many users log in, with whatever uids, servers, retries, lost answers
\* and restarts: identities, answers and tokens stay within their types.
THEOREM AccountsTypeCorrect == AccountsSpec => []AccountsTypeOK
<1>1. AccountsInv => AccountsTypeOK
  BY Zenon DEF AccountsInv
<1> QED BY AccountsInitInv, AccountsStepInv, <1>1, PTL DEF AccountsSpec, AccountsNext

\* However many users log in: within one life of playersrv a user has one role
\* and one server, and the role is the user's alone.
THEOREM OneRolePerUser == AccountsSpec => []RolesApart
<1>1. AccountsInv => RolesApart
  BY Zenon DEF AccountsInv
<1> QED BY AccountsInitInv, AccountsStepInv, <1>1, PTL DEF AccountsSpec, AccountsNext

\* However many users log in: a stored token names the uid that asked for it, and
\* a role and a server that were given to this user.
THEOREM TokensOwn == AccountsSpec => []TokenIsOwn
<1>1. AccountsInv => TokenIsOwn
  BY Zenon DEF AccountsInv
<1> QED BY AccountsInitInv, AccountsStepInv, <1>1, PTL DEF AccountsSpec, AccountsNext

-----------------------------------------------------------------------------
(* Visibility: what a list of mails holds.                                 *)

LEMMA ListedIf ==
    ASSUME NEW snap, NEW p, NEW t, NEW deleted, NEW m \in snap
    PROVE  ListGlobalMails(snap, p, t, deleted)[m] > 0 <=>
               /\ m \notin deleted /\ Live(m, t) /\ Meets(p, m)
               /\ \/ Names[m][p.server] > 0
                  \/ \A n \in snap : ~(Names[n][p.server] > 0)
<1>1. \A n \in snap : MailIDsByServer(snap, p.server)[n] = Names[n][p.server]
  BY Zenon DEF MailIDsByServer
<1>2. ActiveMailIDs(snap)[m] = 1
  BY Zenon DEF ActiveMailIDs
<1>3. VisibleMails(snap, p, t)[m] =
          IF Live(m, t) /\ Meets(p, m)
          THEN (IF \E n \in snap : Names[n][p.server] > 0 THEN Names[m][p.server] ELSE 1)
          ELSE 0
  BY <1>1, <1>2, Zenon DEF VisibleMails
<1>4. ListGlobalMails(snap, p, t, deleted)[m] =
          IF m \in deleted THEN 0 ELSE VisibleMails(snap, p, t)[m]
  BY Zenon DEF ListGlobalMails
<1> QED BY <1>3, <1>4

\* A condition on the server that lets a player pass names the player's server,
\* or does not exclude it.
LEMMA MatchLetsIn ==
    ASSUME NEW c, NEW server \in Servers, matchInt(c, server)
    PROVE  server \in LetIn(c)
<1>1. c.value.json = "number" => compareInt64(server, c.value.of, c.operator)
  BY Zenon DEF matchInt, AsInt
<1>2. c.value.json = "numbers" => server \in Elements(c.value.of)
  BY Zenon DEF matchInt, AsInt, AsInts
<1> QED BY <1>1, <1>2, Zenon DEF LetIn, compareInt64

-----------------------------------------------------------------------------
(* PlayerSession.                                                          *)

\* Players are on servers the mails may name.
GivenServers == \A g \in given : g.user.server \in Servers

\* A row was written directly, or by a user who was given its role.
RowsGiven ==
    \A r \in rows : r.direct \/ \E g \in given : g.user.role = r.role /\ g.user.uid = r.by

\* Until Redis loses its index, it has all of the snapshot.
SnapshotIndexed == lost \/ snapshot \subseteq index

\* The inductive invariant.
Inv == TypeOK /\ AccountsInv /\ GivenServers /\ RowsGiven /\ SnapshotIndexed

LEMMA InitInv == Init => Inv
<1> SUFFICES ASSUME Init PROVE Inv
  OBVIOUS
<1>1. AccountsInv
  BY AccountsInitInv, Zenon DEF Init
<1>2. now \in 0..MaxTime /\ began \in 0..now
  BY SessionAssumption DEF Init
<1>4. TypeOK
  BY <1>1, <1>2, SessionAssumption, Zenon DEF Init, TypeOK, AccountsInv
<1>3. GivenServers /\ RowsGiven /\ SnapshotIndexed
  BY Zenon DEF Init, AccountsInit, GivenServers, RowsGiven, SnapshotIndexed
<1> QED BY <1>1, <1>3, <1>4, Zenon DEF Inv

\* Whatever the mails do, the logins go on as they do alone.
LEMMA AccountsGoOn == [Next]_vars => [AccountsNext]_accounts
BY Zenon
   DEF Next, AccountsNext, vars, DeleteGlobalMail, Publish, Fill, LoseIndex, Refresh, Tick

LEMMA GivenGrows ==
    ASSUME [AccountsNext]_accounts, GivenServers
    PROVE  given \subseteq given' /\ GivenServers'
<1>1. ASSUME NEW l \in Logins, GameLogin(l) PROVE given \subseteq given' /\ GivenServers'
  <2>1. CASE UNCHANGED playersrv
    BY <2>1, Zenon DEF playersrv, GivenServers
  <2>2. CASE Uid[l] > 0 /\ ServerId[l] > 0 /\ GetOrCreateUser(Uid[l], ServerId[l])
    <3>1. ServerId[l] \in Servers
      BY <2>2, SessionAssumption, Zenon
    <3> QED BY <2>2, <3>1 DEF GetOrCreateUser, playersrv, GivenServers
  <2> QED BY <1>1, <2>1, <2>2, Zenon DEF GameLogin
<1>2. CASE UNCHANGED given
  BY <1>2, Zenon DEF GivenServers
<1> QED BY <1>1, <1>2, Zenon
        DEF AccountsNext, AccountsStep, SetLoginToken, Restart, playersrv, accounts

\* The identity in a command's profile was given to the player.
LEMMA ProfileIs ==
    ASSUME Inv, NEW u \in Players, NEW payload \in Payloads
    PROVE  /\ u \in Users /\ u.server \in Servers /\ \E g \in given : g.user = u
           /\ Profile(u, payload).uid = u.uid /\ Profile(u, payload).role = u.role
           /\ Profile(u, payload).server = u.server
           /\ Profile(u, payload).attributes \in Attributes
<1>1. PICK l \in Logins : u \in answer[l]
  BY Zenon DEF Players
<1>2. u \in Users /\ \E g \in given : g.user = u
  BY <1>1, Zenon DEF Inv, AccountsInv, AccountsTypeOK, AnswersGiven
<1>3. u.server \in Servers
  BY <1>2, Zenon DEF Inv, GivenServers
<1>4. payload \in [uid : Int, role : Int, server : Servers, attributes : Attributes]
  BY SessionAssumption, Zenon
<1> QED BY <1>2, <1>3, <1>4, Zenon DEF Profile

\* A new row keeps the types, and the origin of the others.
LEMMA RowAdded ==
    ASSUME Inv, [Next]_vars, NEW p \in Requests, NEW m \in Mails, NEW direct \in BOOLEAN,
           DeleteGlobalMail(p, m, direct), p.role \in Int, p.uid \in Int,
           direct \/ \E g \in given : g.user.role = p.role /\ g.user.uid = p.uid
    PROVE  /\ rows' \subseteq [role : Int, mail : Mails, by : Int, direct : BOOLEAN]
           /\ RowsGiven' /\ UNCHANGED <<now, stored, snapshot, began>>
<1>1. /\ rows' = rows \union {[role |-> p.role, mail |-> m, by |-> p.uid, direct |-> direct]}
      /\ UNCHANGED <<accounts, now, stored, snapshot, began>>
  BY Zenon DEF DeleteGlobalMail
<1>2. given' = given
  BY <1>1, Zenon DEF accounts, playersrv
<1>3. rows \subseteq [role : Int, mail : Mails, by : Int, direct : BOOLEAN] /\ RowsGiven
  BY Zenon DEF Inv, TypeOK
<1>4. rows' \subseteq [role : Int, mail : Mails, by : Int, direct : BOOLEAN]
  BY <1>1, <1>3
<1>5. RowsGiven'
  BY <1>1, <1>2, <1>3 DEF RowsGiven
<1> QED BY <1>1, <1>4, <1>5, Zenon

\* What a step does to the rows.
LEMMA RowsKept ==
    ASSUME Inv, [Next]_vars
    PROVE  /\ rows' \subseteq [role : Int, mail : Mails, by : Int, direct : BOOLEAN]
           /\ RowsGiven'
           /\ rows' = rows \/ UNCHANGED <<now, stored, snapshot, began>>
<1>1. ASSUME NEW p \in Commands, NEW m \in Mails, DeleteGlobalMail(p, m, FALSE)
      PROVE  /\ rows' \subseteq [role : Int, mail : Mails, by : Int, direct : BOOLEAN]
             /\ RowsGiven' /\ UNCHANGED <<now, stored, snapshot, began>>
  <2>1. PICK u \in Players, payload \in Payloads : p = Profile(u, payload)
    BY DEF Commands
  <2>2. /\ p.role \in Int /\ p.uid \in Int
        /\ \E g \in given : g.user.role = p.role /\ g.user.uid = p.uid
    BY <2>1, ProfileIs DEF Users, Positive
  <2> QED BY <1>1, <2>2, RowAdded, Zenon DEF Requests
<1>2. ASSUME NEW p \in Payloads, NEW m \in Mails, DeleteGlobalMail(p, m, TRUE)
      PROVE  /\ rows' \subseteq [role : Int, mail : Mails, by : Int, direct : BOOLEAN]
             /\ RowsGiven' /\ UNCHANGED <<now, stored, snapshot, began>>
  <2>1. p \in [uid : Int, role : Int, server : Servers, attributes : Attributes]
    BY SessionAssumption, Zenon
  <2>2. p.role \in Int /\ p.uid \in Int
    BY <2>1, Zenon
  <2> QED BY <1>2, <2>2, RowAdded, Zenon DEF Requests
<1>3. ASSUME rows' = rows
      PROVE  /\ rows' \subseteq [role : Int, mail : Mails, by : Int, direct : BOOLEAN]
             /\ RowsGiven'
  <2>1. given \subseteq given'
    BY AccountsGoOn, GivenGrows, Zenon DEF Inv
  <2> QED BY <1>3, <2>1, Zenon DEF Inv, TypeOK, RowsGiven
<1> QED BY <1>1, <1>2, <1>3, Zenon
        DEF Next, vars, Publish, Fill, LoseIndex, Refresh, Tick

\* Types of the clock, the stores and the snapshot.
MailTypes ==
    /\ now \in 0..MaxTime /\ began \in 0..now
    /\ published \subseteq Mails /\ index \subseteq published /\ lost \in BOOLEAN
    /\ snapshot \subseteq published

\* What a refresh puts into the snapshot: mails of MySQL, which Redis has after it.
LEMMA RefreshIs ==
    ASSUME MailTypes, NEW at \in 0..now, Refresh(at)
    PROVE  /\ snapshot' \subseteq index' /\ index' \subseteq published /\ began' = at
           /\ UNCHANGED <<now, published, lost>>
BY Zenon DEF MailTypes, Refresh, GetActiveGlobalMailIDs, GetPublishedGlobalMails

\* What a step does to the stores and the snapshot.
LEMMA StoresKept ==
    ASSUME MailTypes, SnapshotIndexed, [Next]_vars
    PROVE  MailTypes' /\ SnapshotIndexed'
<1>1. CASE UNCHANGED <<now, stored>> /\ snapshot' \in {snapshot, {}} /\ began' \in {began, now}
  BY <1>1 DEF MailTypes, SnapshotIndexed, stored
<1>2. ASSUME NEW m \in Mails, Publish(m) PROVE MailTypes' /\ SnapshotIndexed'
  BY <1>2, Zenon DEF Publish, MailTypes, SnapshotIndexed
<1>3. ASSUME NEW m \in Mails, Fill(m) PROVE MailTypes' /\ SnapshotIndexed'
  BY <1>3, Zenon DEF Fill, MailTypes, SnapshotIndexed
<1>4. CASE LoseIndex
  BY <1>4, Zenon DEF LoseIndex, MailTypes, SnapshotIndexed
<1>5. ASSUME NEW at \in 0..now, Refresh(at) PROVE MailTypes' /\ SnapshotIndexed'
  BY <1>5, RefreshIs, Zenon DEF MailTypes, SnapshotIndexed
<1>6. CASE Tick
  <2>1. now' \in 0..MaxTime /\ began' \in 0..now'
    BY <1>6, SessionAssumption DEF Tick, MailTypes
  <2> QED BY <1>6, <2>1, Zenon DEF Tick, MailTypes, SnapshotIndexed, stored
<1>7. ASSUME NEW p, NEW m, NEW direct, DeleteGlobalMail(p, m, direct)
      PROVE  MailTypes' /\ SnapshotIndexed'
  BY <1>1, <1>7, Zenon DEF DeleteGlobalMail
<1>8. CASE AccountsStep /\ UNCHANGED <<now, stored, snapshot, began, rows>>
  BY <1>1, <1>8, Zenon
<1>9. CASE Restart /\ snapshot' = {} /\ began' = now /\ UNCHANGED <<now, stored, rows>>
  BY <1>1, <1>9, Zenon
<1>10. CASE UNCHANGED vars
  BY <1>1, <1>10, Zenon DEF vars
<1> QED BY <1>2, <1>3, <1>4, <1>5, <1>6, <1>7, <1>8, <1>9, <1>10, Zenon DEF Next

LEMMA StepInv == Inv /\ [Next]_vars => Inv'
<1> SUFFICES ASSUME Inv, [Next]_vars PROVE Inv'
  OBVIOUS
<1>1. AccountsInv' /\ AccountsTypeOK'
  BY AccountsGoOn, AccountsStepInv, Zenon DEF Inv, AccountsInv
<1>2. GivenServers'
  BY AccountsGoOn, GivenGrows, Zenon DEF Inv
<1>3. MailTypes' /\ SnapshotIndexed'
  BY StoresKept, Zenon DEF Inv, TypeOK, MailTypes
<1>4. rows' \subseteq [role : Int, mail : Mails, by : Int, direct : BOOLEAN] /\ RowsGiven'
  BY RowsKept, Zenon
<1> QED BY <1>1, <1>2, <1>3, <1>4, Zenon DEF Inv, TypeOK, MailTypes

LEMMA Invariance == Spec => []Inv
BY InitInv, StepInv, PTL DEF Spec

\* Logins, clock, stores, snapshot and rows keep their types: Redis and the
\* snapshot have only mails of MySQL.
THEOREM TypeCorrect == Spec => []TypeOK
<1>1. Inv => TypeOK
  BY Zenon DEF Inv
<1> QED BY <1>1, Invariance, PTL

\* Players that use their mails log in as in Accounts alone: no request on mails
\* touches identities, roles or tokens.
THEOREM SessionsAreAccounts == Spec => AccountsSpec
<1>1. Init => AccountsInit
  BY Zenon DEF Init
<1>2. [Next]_vars => [AccountsStep \/ Restart]_accounts
  BY AccountsGoOn, Zenon DEF AccountsNext
<1> QED BY <1>1, <1>2, PTL DEF Spec, AccountsSpec

\* A profile is listed only mails that are meant for the server it names.
LEMMA ListedIsMeant ==
    ASSUME Inv, NEW p, p.server \in Servers, p.attributes \in Attributes, NEW m \in snapshot,
           Listing(p)[m] > 0
    PROVE  MeantFor(m, p.server)
<1> SUFFICES ASSUME NEW k \in DOMAIN Mail[m].conditions, OfServer(Mail[m].conditions[k])
             PROVE  p.server \in LetIn(Mail[m].conditions[k])
  BY Zenon DEF MeantFor
<1>1. m \in Mails
  BY Zenon DEF Inv, TypeOK
<1>2. Meets(p, m)
  BY ListedIf, Zenon DEF Listing
<1>3. conditionMatches(Mail[m].conditions[k], p.server, p.attributes)
  BY <1>1, <1>2, Zenon DEF Meets, conditionsMatch
<1>4. matchInt(Mail[m].conditions[k], p.server)
  BY <1>3, Zenon DEF conditionMatches
<1> QED BY <1>4, MatchLetsIn, Zenon

\* Nobody is shown a mail for other servers, for any conditions, operators and
\* payloads: by a command the player's own server counts, whatever its payload
\* names, and by a direct call the one its profile names.
THEOREM OnlyOwnServer == Spec => []ListedForServer
<1>1. Inv => ListedForServer
  <2> SUFFICES ASSUME Inv, NEW payload \in Payloads, NEW m \in snapshot
               PROVE  /\ Listing(payload)[m] > 0 => MeantFor(m, payload.server)
                      /\ \A u \in Players :
                            Listing(Profile(u, payload))[m] > 0 => MeantFor(m, u.server)
    BY Zenon DEF ListedForServer
  <2>1. payload \in [uid : Int, role : Int, server : Servers, attributes : Attributes]
    BY SessionAssumption, Zenon
  <2>2. Listing(payload)[m] > 0 => MeantFor(m, payload.server)
    BY <2>1, ListedIsMeant, Zenon
  <2>3. ASSUME NEW u \in Players, Listing(Profile(u, payload))[m] > 0
        PROVE  MeantFor(m, u.server)
    <3>1. PICK p : p = Profile(u, payload)
      OBVIOUS
    <3>2. p.server = u.server /\ u.server \in Servers /\ p.attributes \in Attributes
      BY <3>1, ProfileIs, Zenon
    <3>3. MeantFor(m, p.server)
      BY <2>3, <3>1, <3>2, ListedIsMeant, Zenon
    <3> QED BY <3>2, <3>3, Zenon
  <2> QED BY <2>2, <2>3, Zenon
<1> QED BY <1>1, Invariance, PTL

\* What a request meets the conditions of is shown, for any mails and players:
\* the exceptions are the ones NothingWithheld lists.
THEOREM NoneWithheld == Spec => []NothingWithheld
<1>1. Inv => NothingWithheld
  <2> SUFFICES ASSUME Inv, NEW p \in Requests, NEW m \in snapshot, Live(m, now), Meets(p, m),
                      Addressed(p.server) = {} \/ m \in Addressed(p.server),
                      ~(Listing(p)[m] > 0)
               PROVE  \/ \E r \in rows :
                            r.role = p.role /\ r.mail = m /\ (r.by = p.uid \/ r.direct)
                      \/ \E g \in given : g.user.role = p.role /\ g.user.uid # p.uid
    BY Zenon DEF NothingWithheld
  <2>1. Names[m][p.server] > 0 \/ \A n \in snapshot : ~(Names[n][p.server] > 0)
    BY Zenon DEF Addressed
  <2>2. m \in DeletedBy(p.role)
    BY <2>1, ListedIf, Zenon DEF Listing
  <2>3. PICK r \in rows : r.role = p.role /\ r.mail = m
    BY <2>2, Zenon DEF DeletedBy
  <2>4. CASE r.by = p.uid \/ r.direct
    BY <2>3, <2>4, Zenon
  <2>5. CASE r.by # p.uid /\ ~r.direct
    BY <2>3, <2>5, Zenon DEF Inv, RowsGiven
  <2> QED BY <2>4, <2>5, Zenon
<1> QED BY <1>1, Invariance, PTL

\* A refresh keeps a listed mail, from Redis or from MySQL, unless Redis lost its
\* index or the refresh began before the mail started.
LEMMA RefreshKeeps ==
    ASSUME Inv, NEW at \in 0..now, Refresh(at), NEW m \in snapshot, Live(m, now),
           ~lost, ~(began' < Mail[m].start)
    PROVE  m \in snapshot'
<1>1. /\ now \in Int /\ at \in Int /\ at <= now /\ m \in Mails /\ m \in published /\ m \in index
      /\ Mail[m].start \in Int /\ Mail[m].expire \in Int /\ began' = at
  BY VisibilityAssumption, SessionAssumption DEF Inv, TypeOK, SnapshotIndexed, Refresh
<1>2. Mail[m].expire >= at /\ Mail[m].start <= at /\ at < Mail[m].expire
  BY <1>1 DEF Live
<1>3. m \in GetActiveGlobalMailIDs(at) /\ m \in GetPublishedGlobalMails(at)
  BY <1>1, <1>2, Zenon DEF GetActiveGlobalMailIDs, GetPublishedGlobalMails, Live
<1> QED BY <1>3, Zenon DEF Refresh

\* A listed mail stays, whatever is refreshed, deleted or expires: the exceptions
\* are the ones StaysListed lists.
THEOREM ListedStays == Spec => StaysListed
<1> DEFINE Stays ==
        life' = life /\ <<now, snapshot, rows>>' # <<now, snapshot, rows>> =>
            \A p \in Requests, m \in snapshot :
                Listing(p)[m] > 0 =>
                    \/ now' >= Mail[m].expire
                    \/ m \in DeletedBy(p.role)'
                    \/ Addressed(p.server) = {} /\ m \notin Addressed(p.server)'
                    \/ m \notin snapshot' /\ (lost \/ began' < Mail[m].start)
                    \/ m \in snapshot' /\ Listing(p)'[m] > 0
<1>1. Inv /\ [Next]_vars => [Stays]_vars
  <2> SUFFICES ASSUME Inv, Next, life' = life,
                      <<now, snapshot, rows>>' # <<now, snapshot, rows>>,
                      NEW p \in Requests, NEW m \in snapshot, Listing(p)[m] > 0,
                      ~(now' >= Mail[m].expire), m \notin DeletedBy(p.role)',
                      ~(Addressed(p.server) = {} /\ m \notin Addressed(p.server)'),
                      ~(m \notin snapshot' /\ (lost \/ began' < Mail[m].start))
               PROVE  m \in snapshot' /\ Listing(p)'[m] > 0
    BY Zenon DEF vars
  <2>1. /\ Live(m, now) /\ Meets(p, m)
        /\ \/ Names[m][p.server] > 0
           \/ \A n \in snapshot : ~(Names[n][p.server] > 0)
    BY ListedIf, Zenon DEF Listing
  <2>2. /\ now \in Int /\ now' \in Int /\ m \in Mails
        /\ Mail[m].start \in Int /\ Mail[m].expire \in Int
    BY StepInv, VisibilityAssumption, SessionAssumption DEF Inv, TypeOK
  <2>3. ASSUME m \in snapshot', now' >= now
        PROVE  m \in snapshot' /\ Listing(p)'[m] > 0
    <3>1. Live(m, now')
      BY <2>1, <2>2, <2>3 DEF Live
    <3>2. \/ Names[m][p.server] > 0
          \/ \A n \in snapshot' : ~(Names[n][p.server] > 0)
      BY <2>1, <2>3, Zenon DEF Addressed
    <3> QED BY <2>1, <2>3, <3>1, <3>2, ListedIf, Zenon DEF Listing
  <2>4. ASSUME UNCHANGED <<now, snapshot>> PROVE m \in snapshot' /\ now' >= now
    BY <2>2, <2>4
  <2>5. ASSUME NEW at \in 0..now, Refresh(at) PROVE m \in snapshot' /\ now' >= now
    <3>1. m \in snapshot'
      BY <2>1, <2>5, RefreshKeeps, Zenon
    <3>2. now' = now
      BY <2>5, Zenon DEF Refresh
    <3> QED BY <2>2, <3>1, <3>2
  <2>6. ASSUME Tick PROVE m \in snapshot' /\ now' >= now
    BY <2>2, <2>6 DEF Tick
  <2>7. life \in Int
    BY DEF Inv, TypeOK, AccountsTypeOK
  <2>8. ~ Restart
    BY <2>7 DEF Restart
  <2>9. m \in snapshot' /\ now' >= now
    BY <2>4, <2>5, <2>6, <2>8, Zenon DEF Next, DeleteGlobalMail, Publish, Fill, LoseIndex
  <2> QED BY <2>3, <2>9, Zenon
<1>2. [][Stays]_vars <=> StaysListed
  BY PTL DEF StaysListed
<1> QED BY <1>1, <1>2, Invariance, PTL DEF Spec
=============================================================================
