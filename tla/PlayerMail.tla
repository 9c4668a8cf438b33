----------------------------- MODULE PlayerMail -----------------------------
(***************************************************************************)
(* playersrv: reading, claiming and deleting one global mail by one role   *)
(* (app/playersrv/mail_service.go, app/playersrv/backpack_service.go and   *)
(* the player half of data/mysql/repository.go).  Rows of other roles and  *)
(* other mails have other keys and never meet these.                       *)
(*                                                                         *)
(* An operation is one execution of updateGlobalMailState.  Every MySQL    *)
(* statement is one step; what Go computes between two statements belongs  *)
(* to the step before it.  An operation starts once the mail was found     *)
(* visible (an invisible mail returns an error and changes nothing).       *)
(* A statement may fail and a process may die at any time.                 *)
(* claim_time, delete_time and the version column are left out: no         *)
(* statement decides anything on them.                                     *)
(***************************************************************************)
EXTENDS Integers

CONSTANTS
    Ops,          \* goroutines that execute requests of the role
    Indexes,      \* loot indexes a request may name, valid or not
    NumLoots      \* number of items of mail.Loots, 0 when it is empty

ASSUME MailAssumption ==
    /\ Indexes \subseteq Int
    /\ NumLoots \in Nat

VARIABLES
    status,       \* user_global_mail_state.status, "none" without a row
    claimed,      \* user_global_mail_state.claimed_loot_indexes
    ledger,       \* user_global_mail_reward_ledger.status by loot index
    backpack,     \* loot indexes with a user_backpack_reward row
    attempts,     \* history: GrantBackpackReward calls by loot index
    lost,         \* history: indexes whose grant failed or was cut off
    stale,        \* history: operations whose read another save has overtaken
    pc,           \* operation: its next statement
    kind,         \* operation: which handler
    asked,        \* operation: the lootIndexes of the request
    todo,         \* operation: new indexes not granted yet
    newStatus,    \* operation: the status SaveUserState will write
    newClaimed    \* operation: the claimed indexes it will write

state == <<status, claimed>>
rewards == <<ledger, backpack, attempts, lost>>
request == <<kind, asked>>
local == <<todo, newStatus, newClaimed>>
vars == <<state, rewards, stale, pc, request, local>>

UserMailStatus == {"unread", "read", "claimed", "deleted"}
Kinds == {"read", "claim", "delete"}
Statements == {"idle", "getState", "apply", "backpack", "succeed", "fail"}

Init ==
    /\ status = "none" /\ claimed = {}
    /\ ledger = [i \in Indexes |-> "none"]
    /\ backpack = {}
    /\ attempts = [i \in Indexes |-> 0]
    /\ lost = {} /\ stale = {}
    /\ pc = [o \in Ops |-> "idle"]
    /\ kind = [o \in Ops |-> "read"]
    /\ asked = [o \in Ops |-> {}]
    /\ todo = [o \in Ops |-> {}]
    /\ newStatus = [o \in Ops |-> "unread"]
    /\ newClaimed = [o \in Ops |-> {}]

-----------------------------------------------------------------------------

Goto(o, statement) == pc' = [pc EXCEPT ![o] = statement]

\* The operation returns and its variables go out of scope.
Return(o) ==
    /\ Goto(o, "idle")
    /\ kind' = [kind EXCEPT ![o] = "read"]
    /\ asked' = [asked EXCEPT ![o] = {}]
    /\ todo' = [todo EXCEPT ![o] = {}]
    /\ newStatus' = [newStatus EXCEPT ![o] = "unread"]
    /\ newClaimed' = [newClaimed EXCEPT ![o] = {}]

\* A request names its indexes; only a claim has any.
Begin(o) ==
    /\ pc[o] = "idle"
    /\ \E k \in Kinds, indexes \in SUBSET Indexes :
          /\ k # "claim" => indexes = {}
          /\ kind' = [kind EXCEPT ![o] = k]
          /\ asked' = [asked EXCEPT ![o] = indexes]
    /\ Goto(o, "getState")
    /\ UNCHANGED <<state, rewards, stale, local>>

\* The row read, or the fresh unread state.
Loaded == IF status = "none" THEN "unread" ELSE status

\* Mutant: marking read overwrites any status but deleted.
AppliedStatusReadAlways(k) ==
    CASE k = "delete" -> "deleted"
      [] k = "claim" -> IF Loaded = "deleted" THEN "deleted" ELSE "claimed"
      [] k = "read" -> IF Loaded = "deleted" THEN "deleted" ELSE "read"

AppliedStatus(k) ==
    CASE k = "delete" -> "deleted"
      [] k = "claim" -> IF Loaded = "deleted" THEN "deleted" ELSE "claimed"
      [] k = "read" -> IF Loaded = "unread" THEN "read" ELSE Loaded

\* Claiming a deleted mail grants nothing and writes the state back.
Grants(o) == kind[o] = "claim" /\ Loaded # "deleted"

GetUserStates(o) ==
    /\ pc[o] = "getState"
    /\ newStatus' = [newStatus EXCEPT ![o] = AppliedStatus(kind[o])]
    /\ newClaimed' = [newClaimed EXCEPT ![o] =
                        IF Grants(o) THEN claimed \union asked[o] ELSE claimed]
    /\ todo' = [todo EXCEPT ![o] = IF Grants(o) THEN asked[o] \ claimed ELSE {}]
    /\ stale' = stale \ {o}
    /\ Goto(o, "apply")
    /\ UNCHANGED <<state, rewards, request>>

-----------------------------------------------------------------------------
(* Granting the new indexes, in ascending order.                           *)

\* i is the index the claim is at
Current(o, i) == i \in todo[o] /\ \A j \in todo[o] : i <= j

\* The operation holds the ledger reservation of its current index.
Granting(o) == pc[o] \in {"backpack", "succeed", "fail"}
Holds(o, i) == Granting(o) /\ Current(o, i)

At(o, statement, i) == pc[o] = statement /\ Current(o, i)

\* Mutant: off by one at the end of the loots.
HasLootOffByOne(i) == i >= 0 /\ (NumLoots > 0 => i <= NumLoots)

\* lootAtIndex: a mail without loots accepts every index that is not negative.
HasLoot(i) == i >= 0 /\ (NumLoots > 0 => i < NumLoots)

RejectIndex(o, i) ==
    /\ At(o, "apply", i)
    /\ ~HasLoot(i)
    /\ Return(o)
    /\ UNCHANGED <<state, rewards, stale>>

NextIndex(o, i) ==
    /\ todo' = [todo EXCEPT ![o] = @ \ {i}]
    /\ Goto(o, "apply")
    /\ UNCHANGED <<newStatus, newClaimed>>

\* Mutant: the reserved flag is ignored.
ReserveGlobalMailRewardUnchecked(o, i) ==
    /\ At(o, "apply", i)
    /\ HasLoot(i)
    /\ ledger' = [ledger EXCEPT ![i] = IF @ = "none" THEN "pending" ELSE @]
    /\ Goto(o, "backpack")
    /\ UNCHANGED <<state, stale, backpack, attempts, lost, request, local>>

\* Mutant: the reserved flag is read the wrong way round.
ReserveGlobalMailRewardInverted(o, i) ==
    /\ At(o, "apply", i)
    /\ HasLoot(i)
    /\ ledger' = [ledger EXCEPT ![i] = IF @ = "none" THEN "pending" ELSE @]
    /\ IF ledger[i] = "none"
         THEN NextIndex(o, i)
         ELSE Goto(o, "backpack") /\ UNCHANGED local
    /\ UNCHANGED <<state, stale, backpack, attempts, lost, request>>

\* INSERT ... DO NOTHING into the ledger.  A row that is there already, in
\* whatever status, counts as granted.
ReserveGlobalMailReward(o, i) ==
    /\ At(o, "apply", i)
    /\ HasLoot(i)
    /\ \/ /\ ledger[i] = "none"
          /\ ledger' = [ledger EXCEPT ![i] = "pending"]
          /\ Goto(o, "backpack")
          /\ UNCHANGED local
       \/ /\ ledger[i] # "none"
          /\ NextIndex(o, i)
          /\ UNCHANGED ledger
    /\ UNCHANGED <<state, stale, backpack, attempts, lost, request>>

GrantBackpackReward(o, i) ==
    /\ At(o, "backpack", i)
    /\ attempts' = [attempts EXCEPT ![i] = @ + 1]
    /\ \/ backpack' = backpack \union {i} /\ Goto(o, "succeed")
       \/ backpack' \in {backpack, backpack \union {i}} /\ Goto(o, "fail")
    /\ UNCHANGED <<state, stale, ledger, lost, request, local>>

MarkGlobalMailRewardSucceeded(o, i) ==
    /\ At(o, "succeed", i)
    /\ ledger' = [ledger EXCEPT ![i] = "succeeded"]
    /\ NextIndex(o, i)
    /\ UNCHANGED <<state, stale, backpack, attempts, lost, request>>

\* Its error is ignored; the claim returns the backpack's error.
MarkGlobalMailRewardFailed(o, i) ==
    /\ At(o, "fail", i)
    /\ \/ ledger' = [ledger EXCEPT ![i] = "failed"]
       \/ UNCHANGED ledger
    /\ lost' = lost \union {i}
    /\ Return(o)
    /\ UNCHANGED <<state, stale, backpack, attempts>>

-----------------------------------------------------------------------------

\* The operations that have read the row and not returned.
Working == {p \in Ops : pc[p] \notin {"idle", "getState"}}

\* The upsert: every column keeps its value once status is deleted.
SaveUserState(o) ==
    /\ pc[o] = "apply"
    /\ todo[o] = {}
    /\ \/ status = "deleted" /\ UNCHANGED state
       \/ /\ status # "deleted"
          /\ status' = newStatus[o]
          /\ claimed' = newClaimed[o]
    /\ stale' = Working \ {o}
    /\ Return(o)
    /\ UNCHANGED rewards

\* A statement fails, the request's context is cancelled or the process dies;
\* whatever the operation has written stays.
Abandon(o) ==
    /\ pc[o] # "idle"
    /\ lost' = lost \union {i \in Indexes : Holds(o, i)}
    /\ Return(o)
    /\ UNCHANGED <<state, stale, ledger, backpack, attempts>>

Step(o) ==
    \/ GetUserStates(o)
    \/ \E i \in Indexes :
          \/ RejectIndex(o, i)
          \/ ReserveGlobalMailReward(o, i)
          \/ GrantBackpackReward(o, i)
          \/ MarkGlobalMailRewardSucceeded(o, i)
          \/ MarkGlobalMailRewardFailed(o, i)
    \/ SaveUserState(o)

Next == \E o \in Ops : Begin(o) \/ Step(o) \/ Abandon(o)

Spec == Init /\ [][Next]_vars

-----------------------------------------------------------------------------

\* Types of the player's row, the ledger, the backpack and the operations;
\* every stored index is one some request named.
TypeOK ==
    /\ status \in UserMailStatus \union {"none"} /\ claimed \subseteq Indexes
    /\ ledger \in [Indexes -> {"none", "pending", "failed", "succeeded"}]
    /\ backpack \subseteq Indexes
    /\ attempts \in [Indexes -> Nat]
    /\ lost \subseteq Indexes /\ stale \subseteq Ops
    /\ pc \in [Ops -> Statements]
    /\ kind \in [Ops -> Kinds]
    /\ asked \in [Ops -> SUBSET Indexes]
    /\ todo \in [Ops -> SUBSET Indexes]
    /\ newStatus \in [Ops -> UserMailStatus]
    /\ newClaimed \in [Ops -> SUBSET Indexes]

\* GrantGlobalMailReward calls the backpack at most once per reward, over all
\* concurrent, failed, abandoned and retried claims: the ledger alone prevents
\* a second grant, without help from the backpack's own primary key.
AttemptedOnce == \A i \in Indexes : attempts[i] <= 1

\* The ledger tells the truth: a reward marked succeeded is in the backpack,
\* and the backpack holds nothing the ledger has no row for.
LedgerMatchesBackpack ==
    \A i \in Indexes :
        /\ ledger[i] = "succeeded" => i \in backpack
        /\ i \in backpack => ledger[i] # "none"

\* lootAtIndex lets no index outside the loots of a mail that has some reach
\* the ledger, the backpack or the claimed indexes of the row.
OnlyRealLoots ==
    NumLoots > 0 =>
        \A i \in Indexes : ledger[i] # "none" \/ i \in backpack \union claimed =>
            i \in 0..(NumLoots - 1)

\* SaveUserState never changes a deleted row, whatever an operation read
\* before the deletion.
DeletedIsFinal ==
    [][status = "deleted" => UNCHANGED state]_vars

Rank(s) == CASE s = "none" -> 0
             [] s = "unread" -> 1
             [] s = "read" -> 2
             [] s = "claimed" -> 3
             [] s = "deleted" -> 4

\* The row moves along unread, read, claimed, deleted and never forgets a
\* claimed index, except in the save of an operation that read the row before
\* another operation saved it: updateGlobalMailState takes no lock in between.
OnlyStaleSavesLose ==
    [][\/ Rank(status) <= Rank(status') /\ claimed \subseteq claimed'
       \/ \E o \in stale : SaveUserState(o)]_vars

\* A reward the row calls claimed is in the backpack, is being granted by some
\* operation at this moment, or its only grant failed or was cut off.  No other
\* interleaving of claims marks a reward claimed without delivering it.
ClaimedIsDelivered ==
    \A i \in claimed \ backpack : i \in lost \/ \E o \in Ops : Holds(o, i)
=============================================================================
