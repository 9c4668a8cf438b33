------------------------------ MODULE Accounts ------------------------------
(***************************************************************************)
(* Logging in (app/accountsrv/service.go, server.go; the Login half of     *)
(* playersrv, app/playersrv/account_service.go; LoginToken in              *)
(* data/redis/routing.go).                                                 *)
(*                                                                         *)
(* accountsrv asks the one playersrv it has dialled for the user's         *)
(* identity and stores a token with it.  playersrv keeps its users in      *)
(* memory.  A login is one execution of Login; its random token is named   *)
(* by the login.  A failing call may have taken effect.                    *)
(***************************************************************************)
EXTENDS Integers

CONSTANTS
    Logins,       \* executions of Login
    Uid,          \* the uid by login
    ServerId,     \* the server_id by login, an int32
    MaxLives,     \* bound on the lives of the playersrv process
    Faults        \* may a call fail or lose its answer?

ASSUME AccountsAssumption ==
    /\ Uid \in [Logins -> Int]
    /\ ServerId \in [Logins -> Int]
    /\ MaxLives \in Nat \ {0}
    /\ Faults \in BOOLEAN

VARIABLES
    life,         \* the number of the playersrv process
    users,        \* playersrv: its users: uid, role, server
    nextID,       \* playersrv: roles handed out, over 100000
    given,        \* history: identities handed out, with the life they are of
    pc,           \* login: its next call, or how it ended
    answer,       \* login: playersrv's answer, as a set
    tokens        \* Redis: LoginToken: by, uid, role, server

playersrv == <<life, users, nextID, given>>
login == <<pc, answer>>
accounts == <<playersrv, login, tokens>>

AccountsInit ==
    /\ life = 1 /\ users = {} /\ nextID = 0 /\ given = {}
    /\ pc = [l \in Logins |-> "login"]
    /\ answer = [l \in Logins |-> {}]
    /\ tokens = {}

-----------------------------------------------------------------------------

Goto(l, call, a) ==
    /\ pc' = [pc EXCEPT ![l] = call]
    /\ answer' = [answer EXCEPT ![l] = a]

UsersOf(uid) == {u \in users : u.uid = uid}

\* Mutant: the number is not advanced.
GetOrCreateUserSameId(uid, server) ==
    IF UsersOf(uid) # {} THEN UNCHANGED playersrv
    ELSE LET user == [uid |-> uid, role |-> nextID + 1, server |-> server] IN
         /\ users' = users \union {user}
         /\ given' = given \union {[life |-> life, user |-> user]}
         /\ UNCHANGED <<life, nextID>>

\* One critical section.  A known user keeps role and server, whatever server
\* the request names.
GetOrCreateUser(uid, server) ==
    IF UsersOf(uid) # {} THEN UNCHANGED playersrv
    ELSE LET user == [uid |-> uid, role |-> nextID + 1, server |-> server] IN
         /\ nextID' = nextID + 1
         /\ users' = users \union {user}
         /\ given' = given \union {[life |-> life, user |-> user]}
         /\ UNCHANGED life

\* playersrv's Login.
GameLogin(l) ==
    /\ pc[l] = "login"
    /\ \/ /\ Uid[l] <= 0 \/ ServerId[l] <= 0 \/ Faults
          /\ Goto(l, "error", {}) /\ UNCHANGED playersrv
       \/ /\ Uid[l] > 0 /\ ServerId[l] > 0
          /\ GetOrCreateUser(Uid[l], ServerId[l])
          /\ \/ Goto(l, "token", {u \in users' : u.uid = Uid[l]})
             \/ Faults /\ Goto(l, "error", {})
    /\ UNCHANGED tokens

Token(l, u) == [by |-> l, uid |-> u.uid, role |-> u.role, server |-> u.server]

\* The token is drawn and stored.
SetLoginToken(l) ==
    /\ pc[l] = "token"
    /\ \E u \in answer[l] :
          \/ tokens' = tokens \union {Token(l, u)} /\ Goto(l, "ok", answer[l])
          \/ /\ Faults
             /\ tokens' \in {tokens, tokens \union {Token(l, u)}}
             /\ Goto(l, "error", {})
    /\ UNCHANGED playersrv

\* The playersrv process ends and is started again, with an empty repository.
Restart ==
    /\ life < MaxLives
    /\ life' = life + 1 /\ users' = {} /\ nextID' = 0
    /\ UNCHANGED <<given, login, tokens>>

AccountsStep == \E l \in Logins : GameLogin(l) \/ SetLoginToken(l)

AccountsSpec == AccountsInit /\ [][AccountsStep \/ Restart]_accounts

-----------------------------------------------------------------------------

Positive == Nat \ {0}
Users == [uid : Positive, role : Positive, server : Positive]

\* Types of the users, the logins and the tokens.
AccountsTypeOK ==
    /\ life \in 1..MaxLives
    /\ users \subseteq Users
    /\ nextID \in Nat
    /\ given \subseteq [life : 1..MaxLives, user : Users]
    /\ pc \in [Logins -> {"login", "token", "ok", "error"}]
    /\ answer \in [Logins -> SUBSET Users]
    /\ tokens \subseteq [by : Logins, uid : Positive, role : Positive, server : Positive]

\* In one life of playersrv a user has one role and one server, and no other
\* user has the role, however many logins of it run at a time, ask for other
\* servers, or are retried after an answer was lost.
RolesApart ==
    \A g, h \in given :
        g.life = h.life /\ (g.user.uid = h.user.uid \/ g.user.role = h.user.role) => g = h

\* A stored token carries the uid of the login that asked for it, with a role
\* and a server that playersrv has given to this user, over retries, lost
\* answers and restarts between the two calls of the login.
TokenIsOwn ==
    \A t \in tokens :
        /\ t.uid = Uid[t.by]
        /\ \E g \in given : g.user = [uid |-> t.uid, role |-> t.role, server |-> t.server]
=============================================================================
