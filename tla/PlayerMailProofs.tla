-------------------------- MODULE PlayerMailProofs --------------------------
(***************************************************************************)
(* Proofs about PlayerMail for any number of concurrent operations, any    *)
(* loot indexes and any number of loots.                                   *)
(***************************************************************************)
EXTENDS PlayerMail, TLAPS

LEMMA TypeInit == Init => TypeOK
BY DEF Init, TypeOK, UserMailStatus, Kinds, Statements

LEMMA TypeStep == TypeOK /\ [Next]_vars => TypeOK'
<1> SUFFICES ASSUME TypeOK, [Next]_vars PROVE TypeOK'
  OBVIOUS
<1> USE DEF TypeOK, UserMailStatus, Kinds, Statements
<1>1. ASSUME NEW o \in Ops, Begin(o) PROVE TypeOK'
  BY <1>1, Zenon DEF Begin, Goto, state, rewards, local
<1>2. ASSUME NEW o \in Ops, GetUserStates(o) PROVE TypeOK'
  <2>1. AppliedStatus(kind[o]) \in UserMailStatus
    BY Zenon DEF AppliedStatus, Loaded
  <2>2. QED
    BY <1>2, <2>1, Zenon DEF GetUserStates, Goto, state, rewards, request
<1>3. ASSUME NEW o \in Ops, NEW i \in Indexes, RejectIndex(o, i) PROVE TypeOK'
  BY <1>3, Zenon DEF RejectIndex, Return, Goto, state, rewards
<1>4. ASSUME NEW o \in Ops, NEW i \in Indexes, ReserveGlobalMailReward(o, i) PROVE TypeOK'
  BY <1>4 DEF ReserveGlobalMailReward, NextIndex, Goto, state, request, local
<1>5. ASSUME NEW o \in Ops, NEW i \in Indexes, GrantBackpackReward(o, i) PROVE TypeOK'
  BY <1>5 DEF GrantBackpackReward, Goto, state, request, local
<1>6. ASSUME NEW o \in Ops, NEW i \in Indexes, MarkGlobalMailRewardSucceeded(o, i)
      PROVE TypeOK'
  BY <1>6, Zenon DEF MarkGlobalMailRewardSucceeded, NextIndex, Goto, state, request
<1>7. ASSUME NEW o \in Ops, NEW i \in Indexes, MarkGlobalMailRewardFailed(o, i)
      PROVE TypeOK'
  BY <1>7, Zenon DEF MarkGlobalMailRewardFailed, Return, Goto, state
<1>8. ASSUME NEW o \in Ops, SaveUserState(o) PROVE TypeOK'
  BY <1>8, Zenon DEF SaveUserState, Return, Goto, state, rewards, Working
<1>9. ASSUME NEW o \in Ops, Abandon(o) PROVE TypeOK'
  BY <1>9, Zenon DEF Abandon, Return, Goto, state, rewards
<1>10. CASE UNCHANGED vars
  BY <1>10, Zenon DEF vars, state, rewards, request, local
<1>11. QED
  BY <1>1, <1>2, <1>3, <1>4, <1>5, <1>6, <1>7, <1>8, <1>9, <1>10, Zenon DEF Next, Step

\* TypeOK holds in every state of any set of concurrent operations.
THEOREM TypeCorrect == Spec => []TypeOK
BY TypeInit, TypeStep, PTL DEF Spec

-----------------------------------------------------------------------------

\* The inductive invariant behind AttemptedOnce and LedgerMatchesBackpack:
\* a reservation has one holder, and until that holder calls the backpack
\* nobody has.
RewardInv ==
    /\ TypeOK
    /\ AttemptedOnce
    /\ LedgerMatchesBackpack
    /\ \A i \in Indexes : ledger[i] = "none" => attempts[i] = 0
    /\ \A o \in Ops, i \in Indexes : Granting(o) /\ Current(o, i) =>
          /\ ledger[i] # "none"
          /\ pc[o] = "backpack" => attempts[i] = 0
          /\ pc[o] = "succeed" => i \in backpack
    /\ \A o, p \in Ops, i \in Indexes :
          o # p /\ Granting(o) /\ Granting(p) => ~(Current(o, i) /\ Current(p, i))

LEMMA CurrentUnique ==
    ASSUME NEW o \in Ops, NEW i \in Indexes, NEW j \in Indexes,
           Current(o, i), Current(o, j)
    PROVE  i = j
BY MailAssumption DEF Current

LEMMA RewardInit == Init => RewardInv
<1> SUFFICES ASSUME Init PROVE RewardInv
  OBVIOUS
<1>1. TypeOK
  BY TypeInit, Zenon
<1>2. QED
  BY <1>1 DEF Init, RewardInv, AttemptedOnce, LedgerMatchesBackpack, Granting

\* An operation that leaves the reward tables alone and does not hold a
\* reservation afterwards keeps RewardInv.
LEMMA RewardKept ==
    ASSUME RewardInv, TypeOK', NEW o \in Ops,
           UNCHANGED <<ledger, backpack, attempts>>, ~Granting(o)',
           \A p \in Ops : p # o => pc'[p] = pc[p] /\ todo'[p] = todo[p]
    PROVE  RewardInv'
<1>1. \A p \in Ops, i \in Indexes :
         Granting(p)' /\ Current(p, i)' =>
            p # o /\ Granting(p) /\ Current(p, i) /\ pc'[p] = pc[p]
  BY Zenon DEF Granting, Current
<1>2. QED
  BY <1>1 DEF RewardInv, AttemptedOnce, LedgerMatchesBackpack

\* The holder of a reservation settles it in the ledger and lets it go.
LEMMA LedgerSettled ==
    ASSUME RewardInv, TypeOK', NEW o \in Ops, NEW i \in Indexes,
           NEW outcome \in {"succeeded", "failed"},
           Granting(o), Current(o, i), outcome = "succeeded" => i \in backpack,
           ledger' = [ledger EXCEPT ![i] = outcome],
           UNCHANGED <<backpack, attempts>>,
           ~Granting(o)',
           \A p \in Ops : p # o => pc'[p] = pc[p] /\ todo'[p] = todo[p]
    PROVE  RewardInv'
<1>1. \A p \in Ops, j \in Indexes :
         Granting(p)' /\ Current(p, j)' =>
            p # o /\ Granting(p) /\ Current(p, j) /\ pc'[p] = pc[p]
  BY Zenon DEF Granting, Current
<1>2. ledger \in [Indexes -> {"none", "pending", "failed", "succeeded"}]
  BY Zenon DEF RewardInv, TypeOK
<1>3. \A j \in Indexes : ledger'[j] = IF j = i THEN outcome ELSE ledger[j]
  BY <1>2, Zenon
<1>4. ledger[i] # "none"
  BY Zenon DEF RewardInv
<1>5. AttemptedOnce' /\ LedgerMatchesBackpack'
  BY <1>3, <1>4 DEF RewardInv, AttemptedOnce, LedgerMatchesBackpack
<1>6. QED
  BY <1>1, <1>3, <1>4, <1>5 DEF RewardInv

LEMMA RewardStep == RewardInv /\ TypeOK' /\ [Next]_vars => RewardInv'
<1> SUFFICES ASSUME RewardInv, TypeOK', [Next]_vars PROVE RewardInv'
  OBVIOUS
<1>0. TypeOK
  BY Zenon DEF RewardInv
<1>1. ASSUME NEW o \in Ops, Begin(o) PROVE RewardInv'
  <2>1. /\ UNCHANGED <<ledger, backpack, attempts>> /\ ~Granting(o)'
        /\ \A p \in Ops : p # o => pc'[p] = pc[p] /\ todo'[p] = todo[p]
    BY <1>0, <1>1, Zenon DEF Begin, Goto, local, rewards, Granting, TypeOK
  <2>2. QED
    BY <2>1, RewardKept, Zenon
<1>2. ASSUME NEW o \in Ops, GetUserStates(o) PROVE RewardInv'
  <2>1. /\ UNCHANGED <<ledger, backpack, attempts>> /\ ~Granting(o)'
        /\ \A p \in Ops : p # o => pc'[p] = pc[p] /\ todo'[p] = todo[p]
    BY <1>0, <1>2, Zenon DEF GetUserStates, Goto, rewards, Granting, TypeOK
  <2>2. QED
    BY <2>1, RewardKept, Zenon
<1>3. ASSUME NEW o \in Ops, NEW i \in Indexes, RejectIndex(o, i) PROVE RewardInv'
  <2>1. /\ UNCHANGED <<ledger, backpack, attempts>> /\ ~Granting(o)'
        /\ \A p \in Ops : p # o => pc'[p] = pc[p] /\ todo'[p] = todo[p]
    BY <1>0, <1>3, Zenon DEF RejectIndex, Return, Goto, rewards, Granting, TypeOK
  <2>2. QED
    BY <2>1, RewardKept, Zenon
<1>4. ASSUME NEW o \in Ops, NEW i \in Indexes, ReserveGlobalMailReward(o, i)
      PROVE RewardInv'
  <2>1. CASE ledger[i] = "none"
    <3>1. /\ ledger' = [ledger EXCEPT ![i] = "pending"]
          /\ pc' = [pc EXCEPT ![o] = "backpack"]
          /\ UNCHANGED <<backpack, attempts, todo>>
      BY <1>4, <2>1, Zenon DEF ReserveGlobalMailReward, Goto, local
    <3>2. Current(o, i)
      BY <1>4, Zenon DEF ReserveGlobalMailReward, At
    <3>3. \A j \in Indexes : Current(o, j) => j = i
      BY <3>2, CurrentUnique, Zenon
    <3>4. \A p \in Ops : p # o => (Granting(p)' <=> Granting(p)) /\ pc'[p] = pc[p]
      BY <1>0, <3>1, Zenon DEF Granting, TypeOK
    <3>5. \A p \in Ops, j \in Indexes : Current(p, j)' <=> Current(p, j)
      BY <3>1, Zenon DEF Current
    <3>6. AttemptedOnce' /\ LedgerMatchesBackpack'
          /\ \A j \in Indexes : ledger'[j] = "none" => attempts'[j] = 0
      BY <1>0, <2>1, <3>1, Zenon DEF RewardInv, AttemptedOnce, LedgerMatchesBackpack, TypeOK
    <3>7. attempts[i] = 0 /\ \A p \in Ops : ~(Granting(p) /\ Current(p, i))
      BY <2>1, Zenon DEF RewardInv
    <3>8. pc'[o] = "backpack" /\ ledger'[i] # "none"
          /\ \A j \in Indexes : ledger[j] # "none" => ledger'[j] # "none"
      BY <1>0, <3>1, Zenon DEF TypeOK
    <3>9. \A p \in Ops, j \in Indexes : Granting(p)' /\ Current(p, j)' =>
            /\ ledger'[j] # "none"
            /\ pc'[p] = "backpack" => attempts'[j] = 0
            /\ pc'[p] = "succeed" => j \in backpack'
      BY <3>1, <3>3, <3>4, <3>5, <3>7, <3>8 DEF RewardInv
    <3>10. \A p, q \in Ops, j \in Indexes :
             p # q /\ Granting(p)' /\ Granting(q)' => ~(Current(p, j)' /\ Current(q, j)')
      BY <3>3, <3>4, <3>5, <3>7 DEF RewardInv
    <3>11. QED
      BY <3>6, <3>9, <3>10, Zenon DEF RewardInv
  <2>2. CASE ledger[i] # "none"
    <3>1. /\ UNCHANGED <<ledger, backpack, attempts>> /\ ~Granting(o)'
          /\ \A p \in Ops : p # o => pc'[p] = pc[p] /\ todo'[p] = todo[p]
      BY <1>0, <1>4, <2>2, Zenon
         DEF ReserveGlobalMailReward, NextIndex, Goto, rewards, Granting, TypeOK
    <3>2. QED
      BY <3>1, RewardKept, Zenon
  <2>3. QED
    BY <2>1, <2>2, Zenon
<1>5. ASSUME NEW o \in Ops, NEW i \in Indexes, GrantBackpackReward(o, i)
      PROVE RewardInv'
  <2>1. /\ At(o, "backpack", i)
        /\ attempts' = [attempts EXCEPT ![i] = @ + 1]
        /\ backpack' \in {backpack, backpack \union {i}}
        /\ pc'[o] = "succeed" => i \in backpack'
        /\ pc'[o] \in {"succeed", "fail"}
        /\ \A p \in Ops : p # o => pc'[p] = pc[p]
        /\ UNCHANGED <<ledger, todo>>
    BY <1>0, <1>5, Zenon DEF GrantBackpackReward, Goto, local, TypeOK
  <2>2. /\ Current(o, i) /\ Granting(o)
        /\ attempts[i] = 0 /\ ledger[i] # "none"
    BY <2>1, Zenon DEF At, Granting, RewardInv
  <2>3. \A j \in Indexes : Current(o, j) => j = i
    BY <2>2, CurrentUnique, Zenon
  <2>4. \A p \in Ops, j \in Indexes :
           /\ Current(p, j)' <=> Current(p, j)
           /\ Granting(p)' <=> Granting(p)
    BY <2>1, <2>2, Zenon DEF Current, Granting
  <2>5. \A p \in Ops : p # o => ~(Granting(p) /\ Current(p, i))
    BY <2>2, Zenon DEF RewardInv
  <2>6. \A j \in Indexes : attempts'[j] = IF j = i THEN 1 ELSE attempts[j]
    BY <1>0, <2>1, <2>2 DEF TypeOK
  <2>7. AttemptedOnce'
    BY <2>6 DEF RewardInv, AttemptedOnce
  <2>8. LedgerMatchesBackpack' /\ \A j \in Indexes : ledger'[j] = "none" => attempts'[j] = 0
    BY <2>1, <2>2, <2>6, Zenon DEF RewardInv, LedgerMatchesBackpack
  <2>9. \A p \in Ops, j \in Indexes : Granting(p)' /\ Current(p, j)' =>
          /\ ledger'[j] # "none"
          /\ pc'[p] = "backpack" => attempts'[j] = 0
          /\ pc'[p] = "succeed" => j \in backpack'
    BY <2>1, <2>2, <2>3, <2>4, <2>5, <2>6 DEF RewardInv
  <2>10. QED
    BY <2>4, <2>7, <2>8, <2>9, Zenon DEF RewardInv
<1>6. ASSUME NEW o \in Ops, NEW i \in Indexes, MarkGlobalMailRewardSucceeded(o, i)
      PROVE RewardInv'
  <2>1. /\ At(o, "succeed", i)
        /\ ledger' = [ledger EXCEPT ![i] = "succeeded"]
        /\ ~Granting(o)'
        /\ \A p \in Ops : p # o => pc'[p] = pc[p] /\ todo'[p] = todo[p]
        /\ UNCHANGED <<backpack, attempts>>
    BY <1>0, <1>6, Zenon
       DEF MarkGlobalMailRewardSucceeded, NextIndex, Goto, Granting, TypeOK
  <2>2. Granting(o) /\ Current(o, i) /\ i \in backpack
    BY <2>1, Zenon DEF At, Granting, RewardInv
  <2>3. QED
    BY <2>1, <2>2, LedgerSettled, Zenon
<1>7. ASSUME NEW o \in Ops, NEW i \in Indexes, MarkGlobalMailRewardFailed(o, i)
      PROVE RewardInv'
  <2>1. /\ At(o, "fail", i)
        /\ \/ ledger' = [ledger EXCEPT ![i] = "failed"]
           \/ UNCHANGED ledger
        /\ ~Granting(o)'
        /\ \A p \in Ops : p # o => pc'[p] = pc[p] /\ todo'[p] = todo[p]
        /\ UNCHANGED <<backpack, attempts>>
    BY <1>0, <1>7, Zenon DEF MarkGlobalMailRewardFailed, Return, Goto, Granting, TypeOK
  <2>2. CASE UNCHANGED ledger
    BY <2>1, <2>2, RewardKept, Zenon
  <2>3. CASE ledger' = [ledger EXCEPT ![i] = "failed"]
    <3>1. Granting(o) /\ Current(o, i)
      BY <2>1, Zenon DEF At, Granting
    <3>2. QED
      BY <2>1, <2>3, <3>1, LedgerSettled, Zenon
  <2>4. QED
    BY <2>1, <2>2, <2>3, Zenon
<1>8. ASSUME NEW o \in Ops, SaveUserState(o) PROVE RewardInv'
  <2>1. /\ UNCHANGED <<ledger, backpack, attempts>> /\ ~Granting(o)'
        /\ \A p \in Ops : p # o => pc'[p] = pc[p] /\ todo'[p] = todo[p]
    BY <1>0, <1>8, Zenon DEF SaveUserState, Return, Goto, rewards, Granting, TypeOK
  <2>2. QED
    BY <2>1, RewardKept, Zenon
<1>9. ASSUME NEW o \in Ops, Abandon(o) PROVE RewardInv'
  <2>1. /\ UNCHANGED <<ledger, backpack, attempts>> /\ ~Granting(o)'
        /\ \A p \in Ops : p # o => pc'[p] = pc[p] /\ todo'[p] = todo[p]
    BY <1>0, <1>9, Zenon DEF Abandon, Return, Goto, Granting, TypeOK
  <2>2. QED
    BY <2>1, RewardKept, Zenon
<1>10. CASE UNCHANGED vars
  BY <1>10, Zenon DEF vars, rewards, local, RewardInv, AttemptedOnce,
               LedgerMatchesBackpack, Granting, Current
<1>11. QED
  BY <1>1, <1>2, <1>3, <1>4, <1>5, <1>6, <1>7, <1>8, <1>9, <1>10, Zenon DEF Next, Step

LEMMA RewardInvariance == Spec => []RewardInv
<1>1. RewardInv => TypeOK
  BY Zenon DEF RewardInv
<1>2. QED
  BY <1>1, RewardInit, RewardStep, TypeStep, PTL DEF Spec

\* GrantGlobalMailReward calls the backpack at most once per reward, for any
\* interleaving of claims that fail, die and are retried.
THEOREM RewardsGrantedOnce == Spec => []AttemptedOnce
<1>1. RewardInv => AttemptedOnce
  BY Zenon DEF RewardInv
<1>2. QED
  BY <1>1, RewardInvariance, PTL

\* The ledger and the backpack agree in every state, whatever the order of the
\* reservation, the grant and the mark, and whichever of them fails.
THEOREM LedgerIsTrue == Spec => []LedgerMatchesBackpack
<1>1. RewardInv => LedgerMatchesBackpack
  BY Zenon DEF RewardInv
<1>2. QED
  BY <1>1, RewardInvariance, PTL

-----------------------------------------------------------------------------

\* SaveUserState leaves a deleted row as it is: every column of its upsert
\* tests the stored status, so what an operation read earlier does not matter.
THEOREM DeletedStaysDeleted == Spec => DeletedIsFinal
<1>1. ASSUME [Next]_vars, status = "deleted" PROVE UNCHANGED state
  BY <1>1 DEF Next, Step, Begin, GetUserStates, RejectIndex,
     ReserveGlobalMailReward, GrantBackpackReward, MarkGlobalMailRewardSucceeded,
     MarkGlobalMailRewardFailed, SaveUserState, Abandon, vars, state
<1>2. QED
  BY <1>1, PTL DEF Spec, DeletedIsFinal

-----------------------------------------------------------------------------

\* The inductive invariant behind OnlyStaleSavesLose: what an operation will
\* save is ahead of the row, unless another save has overtaken its read.
FreshInv ==
    /\ TypeOK
    /\ \A o \in Working \ stale :
          Rank(status) <= Rank(newStatus[o]) /\ claimed \subseteq newClaimed[o]

LEMMA AppliedRanks ==
    ASSUME TypeOK, NEW o \in Ops
    PROVE  Rank(status) <= Rank(AppliedStatus(kind[o]))
<1>1. status \in UserMailStatus \union {"none"} /\ kind[o] \in Kinds
  BY Zenon DEF TypeOK
<1>2. QED
  BY <1>1 DEF Rank, AppliedStatus, Loaded, UserMailStatus, Kinds

\* A step that writes neither the row nor what another operation will save.
LEMMA FreshKept ==
    ASSUME FreshInv, TypeOK', NEW o \in Ops, UNCHANGED <<state, stale>>,
           \A p \in Ops : p # o => pc'[p] = pc[p],
           o \in Working' => o \in Working,
           \A p \in Working' : newStatus'[p] = newStatus[p] /\ newClaimed'[p] = newClaimed[p]
    PROVE  FreshInv'
BY Zenon DEF FreshInv, Working, state

LEMMA FreshStep ==
    ASSUME FreshInv, TypeOK', [Next]_vars
    PROVE  /\ FreshInv'
           /\ \/ Rank(status) <= Rank(status') /\ claimed \subseteq claimed'
              \/ \E o \in stale : SaveUserState(o)
<1> DEFINE Keeps == Rank(status) <= Rank(status') /\ claimed \subseteq claimed'
<1>0. TypeOK
  BY Zenon DEF FreshInv
<1>a. Rank(status) \in Nat
  BY <1>0, Zenon DEF TypeOK, Rank, UserMailStatus
<1>b. ASSUME UNCHANGED state PROVE Keeps
  BY <1>a, <1>b DEF state
<1>1. ASSUME NEW o \in Ops, Begin(o) PROVE FreshInv' /\ Keeps
  <2>1. UNCHANGED state /\ FreshInv'
    BY <1>0, <1>1, FreshKept, Zenon DEF Begin, Goto, Working, local, TypeOK
  <2>2. QED
    BY <1>b, <2>1, Zenon
<1>2. ASSUME NEW o \in Ops, GetUserStates(o) PROVE FreshInv' /\ Keeps
  <2>1. /\ pc[o] = "getState" /\ pc' = [pc EXCEPT ![o] = "apply"]
        /\ newStatus'[o] = AppliedStatus(kind[o])
        /\ claimed \subseteq newClaimed'[o]
        /\ \A p \in Ops : p # o => newStatus'[p] = newStatus[p] /\ newClaimed'[p] = newClaimed[p]
        /\ stale' = stale \ {o}
        /\ UNCHANGED state
    BY <1>0, <1>2, Zenon DEF GetUserStates, Goto, TypeOK
  <2>2. Rank(status) <= Rank(newStatus'[o])
    BY <1>0, <2>1, AppliedRanks, Zenon
  <2>3. FreshInv'
    BY <1>0, <2>1, <2>2, Zenon DEF FreshInv, Working, TypeOK, state
  <2>4. QED
    BY <1>b, <2>1, <2>3, Zenon
<1>3. ASSUME NEW o \in Ops, NEW i \in Indexes, RejectIndex(o, i) PROVE FreshInv' /\ Keeps
  <2>1. UNCHANGED state /\ FreshInv'
    BY <1>0, <1>3, FreshKept, Zenon DEF RejectIndex, Return, Goto, Working, TypeOK
  <2>2. QED
    BY <1>b, <2>1, Zenon
<1>4. ASSUME NEW o \in Ops, NEW i \in Indexes, ReserveGlobalMailReward(o, i)
      PROVE FreshInv' /\ Keeps
  <2>1. UNCHANGED state /\ FreshInv'
    BY <1>0, <1>4, FreshKept, Zenon
       DEF ReserveGlobalMailReward, At, NextIndex, Goto, Working, local, TypeOK
  <2>2. QED
    BY <1>b, <2>1, Zenon
<1>5. ASSUME NEW o \in Ops, NEW i \in Indexes, GrantBackpackReward(o, i)
      PROVE FreshInv' /\ Keeps
  <2>1. UNCHANGED state /\ FreshInv'
    BY <1>0, <1>5, FreshKept, Zenon DEF GrantBackpackReward, At, Goto, Working, local, TypeOK
  <2>2. QED
    BY <1>b, <2>1, Zenon
<1>6. ASSUME NEW o \in Ops, NEW i \in Indexes, MarkGlobalMailRewardSucceeded(o, i)
      PROVE FreshInv' /\ Keeps
  <2>1. UNCHANGED state /\ FreshInv'
    BY <1>0, <1>6, FreshKept, Zenon
       DEF MarkGlobalMailRewardSucceeded, At, NextIndex, Goto, Working, TypeOK
  <2>2. QED
    BY <1>b, <2>1, Zenon
<1>7. ASSUME NEW o \in Ops, NEW i \in Indexes, MarkGlobalMailRewardFailed(o, i)
      PROVE FreshInv' /\ Keeps
  <2>1. UNCHANGED state /\ FreshInv'
    BY <1>0, <1>7, FreshKept, Zenon DEF MarkGlobalMailRewardFailed, Return, Goto, Working, TypeOK
  <2>2. QED
    BY <1>b, <2>1, Zenon
<1>8. ASSUME NEW o \in Ops, SaveUserState(o)
      PROVE FreshInv' /\ (Keeps \/ o \in stale)
  <2>1. FreshInv'
    BY <1>0, <1>8, Zenon DEF SaveUserState, Return, Goto, FreshInv, Working, TypeOK
  <2>2. CASE UNCHANGED state
    BY <1>b, <2>1, <2>2, Zenon
  <2>3. CASE o \notin stale /\ status' = newStatus[o] /\ claimed' = newClaimed[o]
    BY <1>8, <2>1, <2>3, Zenon DEF SaveUserState, FreshInv, Working
  <2>4. QED
    BY <1>8, <2>1, <2>2, <2>3, Zenon DEF SaveUserState
<1>9. ASSUME NEW o \in Ops, Abandon(o) PROVE FreshInv' /\ Keeps
  <2>1. UNCHANGED state /\ FreshInv'
    BY <1>0, <1>9, FreshKept, Zenon DEF Abandon, Return, Goto, Working, TypeOK
  <2>2. QED
    BY <1>b, <2>1, Zenon
<1>10. CASE UNCHANGED vars
  <2>1. UNCHANGED state /\ FreshInv'
    BY <1>10, Zenon DEF vars, local, state, FreshInv, Working
  <2>2. QED
    BY <1>b, <2>1, Zenon
<1>11. QED
  BY <1>1, <1>2, <1>3, <1>4, <1>5, <1>6, <1>7, <1>8, <1>9, <1>10, Zenon DEF Next, Step

\* Only the save of an operation whose read another save has overtaken can
\* move the row back or forget a claimed index, for any number of operations.
\* In particular requests of a role that run one at a time lose nothing.
THEOREM FreshSavesKeepUpdates == Spec => OnlyStaleSavesLose
<1>1. Init => FreshInv
  BY TypeInit, Zenon DEF Init, FreshInv, Working
<1>2. FreshInv => TypeOK
  BY Zenon DEF FreshInv
<1>3. FreshInv /\ TypeOK' /\ [Next]_vars =>
        /\ FreshInv'
        /\ \/ Rank(status) <= Rank(status') /\ claimed \subseteq claimed'
           \/ \E o \in stale : SaveUserState(o)
  BY FreshStep, Zenon
<1>4. QED
  BY <1>1, <1>2, <1>3, TypeStep, PTL DEF Spec, OnlyStaleSavesLose
-----------------------------------------------------------------------------

\* The inductive invariant behind ClaimedIsDelivered: a reserved reward is in
\* the backpack, lost or held, and an operation saves as claimed only rewards
\* that are reserved by then.
DeliveryInv ==
    /\ TypeOK
    /\ \A i \in Indexes : ledger[i] # "none" =>
          i \in backpack \union lost \/ \E o \in Ops : Holds(o, i)
    /\ \A i \in claimed : ledger[i] # "none"
    /\ \A o \in Working : \A i \in newClaimed[o] \ todo[o] : ledger[i] # "none"

\* What a step of one operation has to show: it ends no reservation without
\* delivering or losing the reward, and it saves and claims what is reserved.
LEMMA DeliveryKept ==
    ASSUME DeliveryInv, TypeOK', NEW o \in Ops,
           \A j \in Indexes : ledger[j] # "none" => ledger'[j] # "none",
           \A j \in Indexes : ledger'[j] # "none" => ledger[j] # "none" \/ Holds(o, j)',
           backpack \subseteq backpack', lost \subseteq lost',
           \A j \in Indexes : Holds(o, j) => Holds(o, j)' \/ j \in backpack' \union lost',
           \A p \in Ops : p # o => /\ pc'[p] = pc[p] /\ todo'[p] = todo[p]
                                  /\ newClaimed'[p] = newClaimed[p],
           \A j \in claimed' : ledger'[j] # "none",
           o \in Working' => \A j \in newClaimed'[o] \ todo'[o] : ledger'[j] # "none"
    PROVE  DeliveryInv'
<1>1. \A p \in Ops, j \in Indexes : p # o /\ Holds(p, j) => Holds(p, j)'
  BY Zenon DEF Holds, Granting, Current
<1>2. \A j \in Indexes : ledger'[j] # "none" =>
         j \in backpack' \union lost' \/ \E p \in Ops : Holds(p, j)'
  BY <1>1, Zenon DEF DeliveryInv
<1>3. \A p \in Working' : \A j \in newClaimed'[p] \ todo'[p] : ledger'[j] # "none"
  <2> SUFFICES ASSUME NEW p \in Working', NEW j \in newClaimed'[p] \ todo'[p]
               PROVE  ledger'[j] # "none"
    OBVIOUS
  <2>1. CASE p = o
    BY <2>1, Zenon
  <2>2. CASE p # o
    BY <2>2, Zenon DEF DeliveryInv, Working, TypeOK
  <2>3. QED
    BY <2>1, <2>2, Zenon
<1>4. QED
  BY <1>2, <1>3, Zenon DEF DeliveryInv

\* The same for a step that leaves ledger and backpack alone, of an operation
\* that has no reservation.
LEMMA DeliveryIdle ==
    ASSUME DeliveryInv, TypeOK', NEW o \in Ops, ~ Granting(o),
           UNCHANGED <<ledger, backpack, lost>>,
           \A p \in Ops : p # o => /\ pc'[p] = pc[p] /\ todo'[p] = todo[p]
                                  /\ newClaimed'[p] = newClaimed[p],
           \A j \in claimed' : ledger[j] # "none",
           o \in Working' => \A j \in newClaimed'[o] \ todo'[o] : ledger[j] # "none"
    PROVE  DeliveryInv'
BY DeliveryKept, Zenon DEF Holds

LEMMA DeliveryStep == DeliveryInv /\ RewardInv /\ TypeOK' /\ [Next]_vars => DeliveryInv'
<1> SUFFICES ASSUME DeliveryInv, RewardInv, TypeOK', [Next]_vars PROVE DeliveryInv'
  OBVIOUS
<1>0. TypeOK /\ claimed \subseteq Indexes /\ \A i \in claimed : ledger[i] # "none"
  BY Zenon DEF DeliveryInv, TypeOK
<1>a. \A o \in Working : \A i \in newClaimed[o] \ todo[o] : ledger[i] # "none"
  BY Zenon DEF DeliveryInv
<1> USE DEF Holds, Granting
<1>1. ASSUME NEW o \in Ops, Begin(o) PROVE DeliveryInv'
  BY <1>0, <1>1, DeliveryKept, Zenon DEF Begin, Goto, Working, state, rewards, local, TypeOK
<1>2. ASSUME NEW o \in Ops, GetUserStates(o) PROVE DeliveryInv'
  <2>1. \A j \in newClaimed'[o] \ todo'[o] : ledger'[j] # "none"
    BY <1>0, <1>2, Zenon DEF GetUserStates, rewards, TypeOK
  <2>2. /\ ~ Granting(o) /\ UNCHANGED <<ledger, backpack, lost, claimed>>
        /\ \A p \in Ops : p # o => /\ pc'[p] = pc[p] /\ todo'[p] = todo[p]
                                   /\ newClaimed'[p] = newClaimed[p]
    BY <1>0, <1>2 DEF GetUserStates, Goto, state, rewards, TypeOK
  <2>3. QED
    BY <1>0, <2>1, <2>2, DeliveryIdle, Zenon
<1>3. ASSUME NEW o \in Ops, NEW i \in Indexes, RejectIndex(o, i) PROVE DeliveryInv'
  <2>1. /\ ~ Granting(o) /\ UNCHANGED <<ledger, backpack, lost, claimed>>
        /\ \A p \in Ops : p # o => /\ pc'[p] = pc[p] /\ todo'[p] = todo[p]
                                   /\ newClaimed'[p] = newClaimed[p]
    BY <1>0, <1>3 DEF RejectIndex, At, Return, Goto, state, rewards, TypeOK
  <2>2. o \notin Working'
    BY <1>0, <1>3, Zenon DEF RejectIndex, Return, Goto, Working, TypeOK
  <2>3. QED
    BY <1>0, <2>1, <2>2, DeliveryIdle, Zenon
<1>4. ASSUME NEW o \in Ops, NEW i \in Indexes, ReserveGlobalMailReward(o, i)
      PROVE DeliveryInv'
  <2>1. CASE ledger[i] = "none"
    <3>1. /\ Current(o, i) /\ pc[o] = "apply"
          /\ ledger' = [ledger EXCEPT ![i] = "pending"]
          /\ pc' = [pc EXCEPT ![o] = "backpack"]
          /\ UNCHANGED <<state, backpack, lost, local>>
      BY <1>4, <2>1, Zenon DEF ReserveGlobalMailReward, At, Goto
    <3>2. Holds(o, i)' /\ o \in Working
      BY <1>0, <3>1, Zenon DEF Current, Working, local, TypeOK
    <3>3. \A j \in Indexes : ledger'[j] # "none" <=> (ledger[j] # "none" \/ j = i)
      BY <1>0, <3>1, Zenon DEF TypeOK
    <3>4. \A j \in newClaimed'[o] \ todo'[o] : ledger'[j] # "none"
      <4>1. newClaimed'[o] \subseteq Indexes /\ UNCHANGED <<newClaimed, todo>>
        BY <3>1, Zenon DEF local, TypeOK
      <4>2. QED
        BY <1>a, <3>2, <3>3, <4>1, Zenon
    <3>5. \A j \in claimed' : ledger'[j] # "none"
      BY <1>0, <3>1, <3>3, Zenon DEF state
    <3>6. QED
      <4>1. \A p \in Ops : p # o => /\ pc'[p] = pc[p] /\ todo'[p] = todo[p]
                                   /\ newClaimed'[p] = newClaimed[p]
        BY <1>0, <3>1, Zenon DEF local, TypeOK
      <4>2. /\ ~ Granting(o) /\ UNCHANGED <<backpack, lost>>
            /\ \A j \in Indexes : ledger'[j] # "none" => ledger[j] # "none" \/ Holds(o, j)'
        BY <3>1, <3>2, <3>3, Zenon
      <4>3. QED
        BY <3>3, <3>4, <3>5, <4>1, <4>2, DeliveryKept, Zenon
  <2>2. CASE ledger[i] # "none"
    <3>1. /\ pc[o] = "apply" /\ pc' = [pc EXCEPT ![o] = "apply"]
          /\ todo' = [todo EXCEPT ![o] = @ \ {i}]
          /\ UNCHANGED <<state, ledger, backpack, lost, newClaimed>>
      BY <1>4, <2>2, Zenon DEF ReserveGlobalMailReward, At, NextIndex, Goto
    <3>2. \A j \in newClaimed'[o] \ todo'[o] : ledger'[j] # "none"
      BY <1>0, <1>a, <2>2, <3>1, Zenon DEF Working, TypeOK
    <3>3. QED
      BY <1>0, <3>1, <3>2, DeliveryKept, Zenon DEF state, TypeOK
  <2>3. QED
    BY <2>1, <2>2, Zenon
<1>5. ASSUME NEW o \in Ops, NEW i \in Indexes, GrantBackpackReward(o, i)
      PROVE DeliveryInv'
  <2>1. /\ Granting(o) /\ Granting(o)' /\ backpack \subseteq backpack'
        /\ \A p \in Ops : p # o => pc'[p] = pc[p]
        /\ UNCHANGED <<state, ledger, lost, local>>
    BY <1>0, <1>5, Zenon DEF GrantBackpackReward, At, Goto, TypeOK
  <2>2. \A j \in Indexes : Holds(o, j) => Holds(o, j)'
    BY <2>1, Zenon DEF Current, local
  <2>3. QED
    BY <1>0, <1>a, <2>1, <2>2, DeliveryKept, Zenon DEF Working, state, local
<1>6. ASSUME NEW o \in Ops, NEW i \in Indexes, MarkGlobalMailRewardSucceeded(o, i)
      PROVE DeliveryInv'
  <2>1. /\ pc[o] = "succeed" /\ Current(o, i)
        /\ pc' = [pc EXCEPT ![o] = "apply"]
        /\ ledger' = [ledger EXCEPT ![i] = "succeeded"]
        /\ todo' = [todo EXCEPT ![o] = @ \ {i}]
        /\ UNCHANGED <<state, backpack, lost, newClaimed>>
    BY <1>6, Zenon DEF MarkGlobalMailRewardSucceeded, At, NextIndex, Goto
  <2>2. i \in backpack /\ ledger[i] # "none" /\ \A j \in Indexes : Current(o, j) => j = i
    BY <2>1, CurrentUnique, Zenon DEF RewardInv
  <2>3. \A j \in Indexes : ledger'[j] # "none" <=> ledger[j] # "none"
    BY <1>0, <2>1, <2>2, Zenon DEF TypeOK
  <2>4. \A j \in newClaimed'[o] \ todo'[o] : ledger'[j] # "none"
    <3>1. /\ o \in Working /\ newClaimed'[o] \subseteq Indexes
          /\ newClaimed' = newClaimed /\ todo'[o] = todo[o] \ {i}
      BY <1>0, <2>1, Zenon DEF Working, TypeOK
    <3>2. QED
      BY <1>a, <2>2, <2>3, <3>1, Zenon
  <2>5. \A j \in claimed' : ledger'[j] # "none"
    BY <1>0, <2>1, <2>3, Zenon DEF state
  <2>6. \A p \in Ops : p # o => /\ pc'[p] = pc[p] /\ todo'[p] = todo[p]
                                /\ newClaimed'[p] = newClaimed[p]
    BY <1>0, <2>1, Zenon DEF TypeOK
  <2>7. \A j \in Indexes : Holds(o, j) => j \in backpack' \union lost'
    BY <2>1, <2>2, Zenon
  <2>8. QED
    BY <2>1, <2>3, <2>4, <2>5, <2>6, <2>7, DeliveryKept, Zenon
<1>7. ASSUME NEW o \in Ops, NEW i \in Indexes, MarkGlobalMailRewardFailed(o, i)
      PROVE DeliveryInv'
  <2>1. /\ Current(o, i) /\ Granting(o) /\ pc' = [pc EXCEPT ![o] = "idle"]
        /\ ledger' = [ledger EXCEPT ![i] = "failed"] \/ UNCHANGED ledger
        /\ lost' = lost \union {i}
        /\ \A p \in Ops : p # o => todo'[p] = todo[p] /\ newClaimed'[p] = newClaimed[p]
        /\ UNCHANGED <<state, backpack>>
    BY <1>0, <1>7, Zenon DEF MarkGlobalMailRewardFailed, At, Return, Goto, TypeOK
  <2>2. ledger[i] # "none" /\ \A j \in Indexes : Current(o, j) => j = i
    BY <2>1, CurrentUnique, Zenon DEF RewardInv
  <2>3. \A j \in Indexes : ledger'[j] # "none" <=> ledger[j] # "none"
    BY <1>0, <2>1, <2>2, Zenon DEF TypeOK
  <2>4. \A j \in claimed' : ledger'[j] # "none"
    BY <1>0, <2>1, <2>3, Zenon DEF state
  <2>5. \A p \in Ops : p # o => /\ pc'[p] = pc[p] /\ todo'[p] = todo[p]
                                /\ newClaimed'[p] = newClaimed[p]
    BY <1>0, <2>1, Zenon DEF TypeOK
  <2>6. \A j \in Indexes : Holds(o, j) => j \in backpack' \union lost'
    BY <2>1, <2>2, Zenon
  <2>7. backpack \subseteq backpack' /\ lost \subseteq lost' /\ o \notin Working'
    BY <1>0, <2>1, Zenon DEF Working, TypeOK
  <2>8. QED
    BY <2>3, <2>4, <2>5, <2>6, <2>7, DeliveryKept, Zenon
<1>8. ASSUME NEW o \in Ops, SaveUserState(o) PROVE DeliveryInv'
  <2>1. /\ pc[o] = "apply" /\ todo[o] = {} /\ pc' = [pc EXCEPT ![o] = "idle"]
        /\ claimed' \in {claimed, newClaimed[o]}
        /\ \A p \in Ops : p # o => todo'[p] = todo[p] /\ newClaimed'[p] = newClaimed[p]
        /\ UNCHANGED rewards
    BY <1>0, <1>8 DEF SaveUserState, Return, Goto, state, TypeOK
  <2>2. \A j \in claimed' : ledger'[j] # "none"
    BY <1>0, <1>a, <2>1, Zenon DEF Working, rewards
  <2>3. /\ ~ Granting(o) /\ UNCHANGED <<ledger, backpack, lost>> /\ o \notin Working'
        /\ \A p \in Ops : p # o => pc'[p] = pc[p]
    BY <1>0, <2>1, Zenon DEF Working, rewards, TypeOK
  <2>4. QED
    BY <2>1, <2>2, <2>3, DeliveryIdle, Zenon
<1>9. ASSUME NEW o \in Ops, Abandon(o) PROVE DeliveryInv'
  <2>1. /\ pc' = [pc EXCEPT ![o] = "idle"]
        /\ \A j \in Indexes : Holds(o, j) => j \in lost'
        /\ lost \subseteq lost'
        /\ \A p \in Ops : p # o => todo'[p] = todo[p] /\ newClaimed'[p] = newClaimed[p]
        /\ UNCHANGED <<state, ledger, backpack>>
    BY <1>0, <1>9, Zenon DEF Abandon, Return, Goto, TypeOK
  <2>2. QED
    BY <1>0, <2>1, DeliveryKept, Zenon DEF Working, state, TypeOK
<1>10. CASE UNCHANGED vars
  BY <1>10, Zenon DEF vars, state, rewards, local, DeliveryInv, Current, Working
<1>11. QED
  BY <1>1, <1>2, <1>3, <1>4, <1>5, <1>6, <1>7, <1>8, <1>9, <1>10, Zenon DEF Next, Step

LEMMA DeliveryInvariance == Spec => []DeliveryInv
<1>1. Init => DeliveryInv
  BY TypeInit, Zenon DEF Init, DeliveryInv, Working
<1>2. QED
  BY <1>1, RewardInvariance, DeliveryStep, TypeStep, TypeCorrect, PTL DEF Spec

\* Whatever claims overlap, fail or die, a reward the row calls claimed is in
\* the backpack, held by an operation that is granting it, or its only grant
\* failed or was cut off.
THEOREM ClaimsDelivered == Spec => []ClaimedIsDelivered
<1>1. DeliveryInv => ClaimedIsDelivered
  BY Zenon DEF DeliveryInv, ClaimedIsDelivered, TypeOK
<1>2. QED
  BY <1>1, DeliveryInvariance, PTL

-----------------------------------------------------------------------------

\* A reward in the ledger passed lootAtIndex.
LootInv == \A i \in Indexes : ledger[i] # "none" => HasLoot(i)

LEMMA LootStep == RewardInv /\ LootInv /\ [Next]_vars => LootInv'
<1> SUFFICES ASSUME RewardInv, LootInv, [Next]_vars PROVE LootInv'
  OBVIOUS
<1>1. ledger \in [Indexes -> {"none", "pending", "failed", "succeeded"}]
  BY Zenon DEF RewardInv, TypeOK
<1>2. ASSUME NEW i \in Indexes, HasLoot(i),
             \A j \in Indexes \ {i} : ledger'[j] = ledger[j]
      PROVE  LootInv'
  BY <1>2, Zenon DEF LootInv, HasLoot
<1>3. ASSUME UNCHANGED ledger PROVE LootInv'
  BY <1>3, Zenon DEF LootInv, HasLoot
<1>4. ASSUME NEW o \in Ops, NEW i \in Indexes, ReserveGlobalMailReward(o, i) PROVE LootInv'
  BY <1>1, <1>2, <1>3, <1>4, Zenon DEF ReserveGlobalMailReward
<1>5. ASSUME NEW o \in Ops, NEW i \in Indexes,
             MarkGlobalMailRewardSucceeded(o, i) \/ MarkGlobalMailRewardFailed(o, i)
      PROVE  LootInv'
  <2>1. Granting(o) /\ Current(o, i)
    BY <1>5, Zenon DEF MarkGlobalMailRewardSucceeded, MarkGlobalMailRewardFailed, At, Granting
  <2>2. HasLoot(i)
    BY <2>1, Zenon DEF RewardInv, LootInv
  <2>3. \A j \in Indexes \ {i} : ledger'[j] = ledger[j]
    BY <1>1, <1>5, Zenon DEF MarkGlobalMailRewardSucceeded, MarkGlobalMailRewardFailed
  <2>4. QED
    BY <1>2, <2>2, <2>3, Zenon
<1>6. CASE UNCHANGED vars
  BY <1>3, <1>6, Zenon DEF vars, rewards
<1>7. QED
  BY <1>3, <1>4, <1>5, <1>6, Zenon
     DEF Next, Step, Begin, GetUserStates, RejectIndex, GrantBackpackReward, SaveUserState,
         Abandon, rewards

\* No index outside the mail's loots reaches the ledger, the backpack or the
\* row: lootAtIndex is passed before the reservation, and everything else
\* follows the reservation.
THEOREM LootsAreReal == Spec => []OnlyRealLoots
<1>1. Init => LootInv
  BY Zenon DEF Init, LootInv
<1>2. RewardInv /\ DeliveryInv /\ LootInv => OnlyRealLoots
  <2> SUFFICES ASSUME RewardInv, DeliveryInv, LootInv, NumLoots > 0, NEW i \in Indexes,
                      ledger[i] # "none" \/ i \in backpack \union claimed
               PROVE  i \in 0..(NumLoots - 1)
    BY Zenon DEF OnlyRealLoots
  <2>1. ledger[i] # "none"
    BY Zenon DEF RewardInv, LedgerMatchesBackpack, DeliveryInv
  <2>2. i >= 0 /\ i < NumLoots /\ i \in Int
    BY <2>1, MailAssumption, Zenon DEF LootInv, HasLoot
  <2>3. QED
    BY <2>2, MailAssumption
<1>3. QED
  BY <1>1, <1>2, RewardInvariance, DeliveryInvariance, LootStep, PTL DEF Spec
=============================================================================
