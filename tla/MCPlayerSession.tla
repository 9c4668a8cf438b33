--------------------------- MODULE MCPlayerSession ---------------------------
(***************************************************************************)
(* Instance of PlayerSession for TLC.                                      *)
(***************************************************************************)
EXTENDS PlayerSession

\* Two logins of user 1 that name different servers, and one of user 2.
ThreeUids == <<1, 1, 2>>
ThreeServers == <<1, 2, 2>>

Condition(type, operator, json, of) ==
    [type |-> type, operator |-> operator, value |-> [json |-> json, of |-> of]]

\* A mail that names server 1 twice, for high vip levels, with a type the code does
\* not know and a null value, that starts when the other expires; and one that
\* excludes server 2, for rich players of one country.  On server 1 the first, once
\* it is in the snapshot, hides the second.
TwoMails ==
    <<[status |-> "published", start |-> 1, expire |-> 2, conditions |->
          <<Condition("server_id", "in", "numbers", <<1, 1>>),
            Condition("vip_level", "gte", "number", 3),
            Condition("open_days", "eq", "number", 7),
            Condition("corps_level", "lte", "null", 0)>>],
      [status |-> "published", start |-> 0, expire |-> 1, conditions |->
          <<Condition("server", "ne", "number", 2),
            Condition("recharge", "gt", "text", "100"),
            Condition("country", "", "texts", <<"cn">>)>>]>>

Numerals == [t \in {"100"} |-> 100]

\* A new and an old player, and payloads that name another uid, role 1 and server 1.
TwoAttributes ==
    {[vip |-> 0, recharge |-> 0, corps |-> 0, country |-> ""],
     [vip |-> 5, recharge |-> 200, corps |-> 0, country |-> "cn"]}
TwoPayloads ==
    {[uid |-> 9, role |-> 1, server |-> 1, attributes |-> a] : a \in TwoAttributes}
==============================================================================
