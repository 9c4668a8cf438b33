----------------------------- MODULE Visibility -----------------------------
(***************************************************************************)
(* playersrv: which mails of a snapshot a player sees (VisibleMails and    *)
(* its helpers in domain/globalmail/cache.go, ListGlobalMails in           *)
(* app/playersrv/mail_service.go).                                         *)
(*                                                                         *)
(* A condition's value is what its JSON text decodes to: [json |-> kind,   *)
(* of |-> value], of a kind "number", "text", "numbers", "texts", "null"   *)
(* or "other".  A list of mails is the number of times each mail is in it: *)
(* ListGlobalMails sorts by id what it returns.                            *)
(***************************************************************************)
EXTENDS Integers, Sequences, FiniteSets

CONSTANTS
    Mails,        \* mail ids
    Mail,         \* status, start, expire and conditions by mail
    Servers,      \* the servers players are on
    Attributes,   \* what else conditions ask of players: vip, recharge, corps,
                  \* country
    Numeral       \* the texts strconv.ParseInt accepts, and their values

ASSUME VisibilityAssumption ==
    \A m \in Mails :
        /\ Mail[m].start \in Int /\ Mail[m].expire \in Int
        /\ \A k \in DOMAIN Mail[m].conditions :
              Mail[m].conditions[k].value.json
                  \in {"number", "text", "numbers", "texts", "null", "other"}

\* json.Unmarshal into an int, a []int, a string and a []string: the set of
\* what it yields, {} when it fails.  Null leaves the zero value.
AsInt(v) == IF v.json = "number" THEN {v.of} ELSE IF v.json = "null" THEN {0} ELSE {}
AsInts(v) == IF v.json = "numbers" THEN {v.of} ELSE IF v.json = "null" THEN {<<>>} ELSE {}
AsText(v) == IF v.json = "text" THEN {v.of} ELSE IF v.json = "null" THEN {""} ELSE {}
AsTexts(v) == IF v.json = "texts" THEN {v.of} ELSE IF v.json = "null" THEN {<<>>} ELSE {}

Elements(s) == {s[k] : k \in DOMAIN s}

-----------------------------------------------------------------------------
(* Conditions.                                                             *)

\* Any other operator matches nothing.
compareInt64(actual, expected, operator) ==
    \/ operator \in {"", "eq"} /\ actual = expected
    \/ operator = "ne" /\ actual # expected
    \/ operator = "gt" /\ actual > expected
    \/ operator = "gte" /\ actual >= expected
    \/ operator = "lt" /\ actual < expected
    \/ operator = "lte" /\ actual <= expected

\* A list means membership, whatever the operator.
matchInt(c, actual) ==
    \/ \E expected \in AsInt(c.value) : compareInt64(actual, expected, c.operator)
    \/ AsInt(c.value) = {} /\ \E list \in AsInts(c.value) : actual \in Elements(list)

matchInt64(c, actual) ==
    \/ \E expected \in AsInt(c.value) : compareInt64(actual, expected, c.operator)
    \/ /\ AsInt(c.value) = {}
       /\ \E encoded \in AsText(c.value) \intersect DOMAIN Numeral :
             compareInt64(actual, Numeral[encoded], c.operator)

matchString(c, actual) ==
    \/ actual \in AsText(c.value)
    \/ AsText(c.value) = {} /\ \E list \in AsTexts(c.value) : actual \in Elements(list)

OfServer(c) == c.type \in {"server", "server_id"}

\* A condition of an unknown type lets everybody pass.
conditionMatches(c, server, a) ==
    /\ OfServer(c) => matchInt(c, server)
    /\ c.type \in {"vip", "vip_level"} => matchInt(c, a.vip)
    /\ c.type \in {"recharge", "total_recharge"} => matchInt64(c, a.recharge)
    /\ c.type = "corps_level" => matchInt(c, a.corps)
    /\ c.type = "country" => matchString(c, a.country)

conditionsMatch ==
    [m \in Mails |-> [server \in Servers |-> [a \in Attributes |->
        \A k \in DOMAIN Mail[m].conditions :
            conditionMatches(Mail[m].conditions[k], server, a)]]]

-----------------------------------------------------------------------------
(* The index by server, and what a player sees.                            *)

\* The servers a condition is indexed under: whatever its operator says.
ServerIDs(c) ==
    IF ~OfServer(c) THEN <<>>
    ELSE IF AsInts(c.value) # {} THEN CHOOSE list \in AsInts(c.value) : TRUE
    ELSE IF AsInt(c.value) # {} THEN <<CHOOSE id \in AsInt(c.value) : TRUE>>
    ELSE <<>>

\* serverIDsFromConditions: how often the conditions name the server.
Names ==
    [m \in Mails |-> [server \in Servers |->
        LET ids(k) == ServerIDs(Mail[m].conditions[k])
            at(k) == {n \in DOMAIN ids(k) : ids(k)[n] = server}
        IN  Cardinality(UNION {{k} \X at(k) : k \in DOMAIN Mail[m].conditions})]]

MailIDsByServer(snapshot, server) == [m \in snapshot |-> Names[m][server]]

ActiveMailIDs(snapshot) == [m \in snapshot |-> 1]

Live(m, now) ==
    Mail[m].status = "published" /\ Mail[m].start <= now /\ now < Mail[m].expire

Meets(p, m) == conditionsMatch[m][p.server][p.attributes]

\* Mutant: no server without mails of its own gets the others.
VisibleMailsByServer(snapshot, p, now) ==
    [m \in snapshot |-> IF Live(m, now) /\ Meets(p, m)
                        THEN MailIDsByServer(snapshot, p.server)[m] ELSE 0]

\* The candidates are the mails of the player's server, or all active mails
\* when it has none.
VisibleMails(snapshot, p, now) ==
    LET own == MailIDsByServer(snapshot, p.server)
        candidates == IF \E m \in snapshot : own[m] > 0 THEN own
                      ELSE ActiveMailIDs(snapshot)
    IN  [m \in snapshot |-> IF Live(m, now) /\ Meets(p, m) THEN candidates[m] ELSE 0]

\* Without the mails whose row in user_global_mail_state says deleted.
ListGlobalMails(snapshot, p, now, deleted) ==
    [m \in snapshot |-> IF m \in deleted THEN 0 ELSE VisibleMails(snapshot, p, now)[m]]
=============================================================================
