---------------------------- MODULE PublishOnce ----------------------------
(***************************************************************************)
(* What Publish promises its callers: a valid call publishes its mail at   *)
(* most once and under one key only one call does; a caller is told of its *)
(* own mail, or of the one its key stands for if the content is the same.  *)
(* A mail stays published, and what a caller was told stays true.          *)
(***************************************************************************)
CONSTANTS
    Calls,
    Key,
    Content,
    Invalid

VARIABLES
    published,    \* the calls whose mail has been published
    told          \* call: the call of whose mail it was told, as a set

promise == <<published, told>>

Init ==
    /\ published = {}
    /\ told = [c \in Calls |-> {}]

\* The caller of a published mail need not be told.
Publish(c) ==
    /\ c \notin Invalid \union published
    /\ told[c] = {}
    /\ \A d \in published : Key[d] = Key[c] => Key[c] = ""
    /\ published' = published \union {c}
    /\ told' \in {told, [told EXCEPT ![c] = {c}]}

Replay(c) ==
    /\ c \notin Invalid \union published
    /\ told[c] = {}
    /\ Key[c] # ""
    /\ \E d \in published :
          /\ Key[d] = Key[c] /\ Content[d] = Content[c]
          /\ told' = [told EXCEPT ![c] = {d}]
    /\ UNCHANGED published

Next == \E c \in Calls : Publish(c) \/ Replay(c)

Spec == Init /\ [][Next]_promise
=============================================================================
