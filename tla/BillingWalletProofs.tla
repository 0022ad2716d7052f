------------------------ MODULE BillingWalletProofs ------------------------
(***************************************************************************)
(* For any set of workspaces and calls, any prices and any crash pattern:  *)
(* BillingWallet keeps its types, never overspends a workspace, never      *)
(* raises a charge, and implements CreditLedger.                           *)
(*                                                                         *)
(* Solvent is not inductive: it needs that the sum tested by ReserveCheck  *)
(* still holds when ReserveInsert commits.  What keeps it true in between  *)
(* is the account row lock: a call between its test and its commit is the  *)
(* only one of its workspace there (LockHeld), and every other step that   *)
(* touches a charge in the meantime only lowers it (RecoveredAtHold).      *)
(***************************************************************************)
EXTENDS BillingWallet, FiniteSetTheorems, TLAPS

-----------------------------------------------------------------------------
(* Sums of charges, as cardinalities of sets of units.                     *)

Pairs(f, t) ==
    {p \in Calls \X (1..MaxCost) : CallTenant[p[1]] = t /\ p[2] <= f[p[1]]}

\* The units of a workspace are finitely many.
LEMMA PairsFinite ==
    ASSUME NEW f, NEW t
    PROVE  IsFiniteSet(Pairs(f, t)) /\ Cardinality(Pairs(f, t)) \in Nat
<1>1. IsFiniteSet(1..MaxCost)
  BY FS_Interval, WalletAssumption
<1>2. IsFiniteSet(Calls \X (1..MaxCost))
  BY <1>1, FS_Product, WalletAssumption
<1>3. IsFiniteSet(Pairs(f, t))
  BY <1>2, FS_Subset DEF Pairs
<1> QED
  BY <1>3, FS_CardinalityType

\* Lower charges add up to no more.
LEMMA PairsMonotone ==
    ASSUME NEW f \in [Calls -> Nat], NEW g \in [Calls -> Nat], NEW t,
           \A c \in Calls : CallTenant[c] = t => g[c] <= f[c]
    PROVE  Cardinality(Pairs(g, t)) <= Cardinality(Pairs(f, t))
<1>1. Pairs(g, t) \subseteq Pairs(f, t)
  <2> SUFFICES ASSUME NEW c \in Calls, NEW n \in 1..MaxCost,
                      CallTenant[c] = t, n <= g[c]
               PROVE  n <= f[c]
    BY DEF Pairs
  <2> g[c] \in Nat /\ f[c] \in Nat /\ n \in Nat
    BY WalletAssumption
  <2> QED
    OBVIOUS
<1> QED
  BY <1>1, PairsFinite, FS_Subset

\* One new charge adds its own amount.
LEMMA PairsAdd ==
    ASSUME NEW f \in [Calls -> Nat], NEW c \in Calls, NEW n \in 0..MaxCost,
           f[c] = 0
    PROVE  Cardinality(Pairs([f EXCEPT ![c] = n], CallTenant[c]))
             = Cardinality(Pairs(f, CallTenant[c])) + n
<1> DEFINE t == CallTenant[c]
           g == [f EXCEPT ![c] = n]
           New == {c} \X (1..n)
<1>0. MaxCost \in Nat /\ n \in Nat /\ g \in [Calls -> Nat]
  BY WalletAssumption
<1>1. IsFiniteSet(New) /\ Cardinality(New) = n
  <2>1. IsFiniteSet(1..n) /\ Cardinality(1..n) = n
    <3>1. 1 \in Int /\ n \in Int
      BY <1>0
    <3>2. IsFiniteSet(1..n) /\ Cardinality(1..n) = IF 1 > n THEN 0 ELSE n - 1 + 1
      BY <3>1, FS_Interval
    <3> QED
      BY <1>0, <3>2
  <2>2. IsFiniteSet({c}) /\ Cardinality({c}) = 1
    BY FS_Singleton
  <2>3. Cardinality(New) = 1 * n /\ IsFiniteSet(New)
    BY <2>1, <2>2, FS_Product
  <2> QED
    BY <2>3, <1>0
<1>2. Pairs(g, t) = Pairs(f, t) \cup New
  <2>1. ASSUME NEW d \in Calls, NEW k \in 1..MaxCost
        PROVE  (k <= g[d]) <=> (k <= f[d] \/ (d = c /\ k \in 1..n))
    <3>1. CASE d = c
      BY <3>1, <1>0
    <3>2. CASE d # c
      BY <3>2, <1>0
    <3> QED
      BY <3>1, <3>2
  <2>2. New \subseteq Calls \X (1..MaxCost)
    BY <1>0
  <2> QED
    BY <2>1, <2>2 DEF Pairs
<1>3. Pairs(f, t) \cap New = {}
  BY <1>0 DEF Pairs
<1>4. Cardinality(Pairs(f, t) \cap New) = 0
  BY <1>3, FS_EmptySet
<1>5. Cardinality(Pairs(f, t)) \in Nat
  BY PairsFinite
<1> HIDE DEF New
<1>6. Cardinality(Pairs(g, t))
        = Cardinality(Pairs(f, t)) + Cardinality(New) - Cardinality(Pairs(f, t) \cap New)
  BY <1>1, <1>2, PairsFinite, FS_Union
<1> QED
  BY <1>0, <1>1, <1>4, <1>5, <1>6

-----------------------------------------------------------------------------
(* Type correctness.                                                       *)

\* Whatever a transaction does to the row locks, they stay locks.
LEMMA UnlockType ==
    ASSUME TypeOK, NEW c \in Calls, Unlock(c)
    PROVE  rowLock' \in [Tenants -> Calls \cup {NoCall}]
BY DEF TypeOK, Unlock

LEMMA RowType ==
    ASSUME TypeOK, NEW c \in Calls, NEW n \in 0..MaxCost, NEW q \in ResvStatus
    PROVE  /\ [resv EXCEPT ![c].status = q] \in [Calls -> Rows]
           /\ [resv EXCEPT ![c].status = q, ![c].actual = n] \in [Calls -> Rows]
<1>1. resv \in [Calls -> Rows]
  BY DEF TypeOK
<1>2. ASSUME NEW r \in Rows
      PROVE  /\ [r EXCEPT !.status = q] \in Rows
             /\ [r EXCEPT !.status = q, !.actual = n] \in Rows
  BY DEF Rows
<1>3. resv[c] \in Rows
  BY <1>1
<1>4. [resv EXCEPT ![c] = [resv[c] EXCEPT !.status = q]] \in [Calls -> Rows]
  BY <1>1, <1>2, <1>3
<1>5. [resv EXCEPT ![c] = [resv[c] EXCEPT !.status = q, !.actual = n]] \in [Calls -> Rows]
  BY <1>1, <1>2, <1>3
<1> QED
  BY <1>1, <1>4, <1>5, Zenon

LEMMA SettledCostType ==
    ASSUME TypeOK, NEW c \in Calls
    PROVE  SettledCost(c) \in 0..MaxCost /\ SettledCost(c) <= resv[c].reserved
BY WalletAssumption DEF TypeOK, Rows, SettledCost

LEMMA ReleaseType ==
    ASSUME TypeOK, NEW c \in Calls, Release(c)
    PROVE  resv' \in [Calls -> Rows]
<1>1. "released" \in ResvStatus /\ 0 \in 0..MaxCost
  BY WalletAssumption DEF ResvStatus
<1>2. [resv EXCEPT ![c].status = "released"] \in [Calls -> Rows]
  BY <1>1, RowType
<1>3. resv' = [resv EXCEPT ![c].status = "released"] \/ resv' = resv
  BY Zenon DEF Release
<1> QED
  BY <1>2, <1>3, Zenon DEF TypeOK

LEMMA CompleteType ==
    ASSUME TypeOK, NEW c \in Calls, Complete(c)
    PROVE  resv' \in [Calls -> Rows] /\ outbox' \in [Calls -> 0..NoEvent]
<1>1. SettledCost(c) \in 0..MaxCost /\ SettledCost(c) \in 0..NoEvent
  BY SettledCostType, WalletAssumption DEF NoEvent
<1>2. "released" \in ResvStatus /\ "completed" \in ResvStatus
  BY DEF ResvStatus
<1>3. [resv EXCEPT ![c].status = "completed", ![c].actual = SettledCost(c)] \in [Calls -> Rows]
  BY <1>1, <1>2, RowType
<1>4. resv' \in [Calls -> Rows]
  <2>1. \/ Release(c)
        \/ resv' = [resv EXCEPT ![c].status = "completed", ![c].actual = SettledCost(c)]
        \/ resv' = resv
    BY Zenon DEF Complete
  <2> QED
    BY <2>1, <1>3, ReleaseType, Zenon DEF TypeOK
<1> QED
  BY <1>1, <1>4 DEF TypeOK, Complete

LEMMA TypeInductive == TypeOK /\ [Next]_vars => TypeOK'
<1> SUFFICES ASSUME TypeOK, [Next]_vars PROVE TypeOK'
  OBVIOUS
<1> USE WalletAssumption
<1>1. ASSUME NEW c \in Calls, ReserveQuote(c) PROVE TypeOK'
  <2>1. account' \in [Tenants -> Accounts]
    BY <1>1 DEF TypeOK, ReserveQuote, ProvisionTenant, Accounts, AccountStatus
  <2> QED
    BY <1>1, <2>1 DEF TypeOK, ReserveQuote, Stages
<1>2. ASSUME NEW c \in Calls, ReserveLock(c) PROVE TypeOK'
  BY <1>2 DEF TypeOK, ReserveLock, Stages
<1>3. ASSUME NEW c \in Calls, ReserveCheck(c) PROVE TypeOK'
  BY <1>3, UnlockType DEF TypeOK, ReserveCheck, Stages
<1>4. ASSUME NEW c \in Calls, ReserveInsert(c) PROVE TypeOK'
  <2>1. [status |-> "reserved", reserved |-> quote[c], actual |-> 0] \in Rows
    BY DEF TypeOK, Rows, ResvStatus
  <2> QED
    BY <1>4, <2>1, UnlockType DEF TypeOK, ReserveInsert, Stages
<1>5. ASSUME NEW c \in Calls, ReserveFail(c) PROVE TypeOK'
  BY <1>5, UnlockType DEF TypeOK, ReserveFail, Stages
<1>6. ASSUME NEW c \in Calls, ProviderAnswers(c) PROVE TypeOK'
  BY <1>6 DEF TypeOK, ProviderAnswers, Stages
<1>7. ASSUME NEW c \in Calls, ProviderFails(c) PROVE TypeOK'
  BY <1>7 DEF TypeOK, ProviderFails, Stages
<1>8. ASSUME NEW c \in Calls, SettleAttempt(c) PROVE TypeOK'
  <2>1. tries' \in [Calls -> 0..MaxSettleTries]
    BY <1>8 DEF TypeOK, SettleAttempt, TriesLeft
  <2>2. pc' \in [Calls -> Stages]
    BY <1>8 DEF TypeOK, SettleAttempt, Stages
  <2>3. resv' \in [Calls -> Rows] /\ outbox' \in [Calls -> 0..NoEvent]
    BY <1>8, CompleteType DEF TypeOK, SettleAttempt
  <2> QED
    BY <1>8, <2>1, <2>2, <2>3 DEF TypeOK, SettleAttempt
<1>9. ASSUME NEW c \in Calls, SettleExhausted(c) PROVE TypeOK'
  BY <1>9 DEF TypeOK, SettleExhausted, Stages
<1>10. ASSUME NEW c \in Calls, ReleaseAttempt(c) PROVE TypeOK'
  <2>2. resv' \in [Calls -> Rows]
    BY <1>10, ReleaseType, Zenon DEF TypeOK, ReleaseAttempt
  <2> QED
    BY <1>10, <2>2 DEF TypeOK, ReleaseAttempt, Stages
<1>11. ASSUME NEW c \in Calls, Crash(c) PROVE TypeOK'
  BY <1>11, UnlockType DEF TypeOK, Crash, Stages
<1>12. ASSUME NEW c \in Calls, Expire(c) PROVE TypeOK'
  BY <1>12 DEF TypeOK, Expire, callVars
<1>13. CASE RecoverReservations
  <2>1. ASSUME NEW r \in Rows PROVE RecoverRow(r) \in Rows
    BY DEF RecoverRow, Rows, ResvStatus
  <2> QED
    BY <1>13, <2>1 DEF TypeOK, RecoverReservations, callVars
<1>14. ASSUME NEW t \in Tenants, Provision(t) PROVE TypeOK'
  <2>1. [granted |-> Welcome, status |-> "active"] \in Accounts
    BY DEF Accounts, AccountStatus
  <2> QED
    BY <1>14, <2>1 DEF TypeOK, Provision, ProvisionTenant, callVars
<1>15. ASSUME NEW t \in Tenants, NEW s \in {"active", "suspended"}, SetStatus(t, s)
       PROVE TypeOK'
  <2>1. ASSUME NEW r \in Accounts PROVE [r EXCEPT !.status = s] \in Accounts
    BY DEF Accounts, AccountStatus
  <2>2. account' = [account EXCEPT ![t] = [account[t] EXCEPT !.status = s]]
    BY <1>15 DEF SetStatus
  <2>3. account' \in [Tenants -> Accounts]
    BY <2>1, <2>2 DEF TypeOK
  <2> QED
    BY <1>15, <2>3 DEF TypeOK, SetStatus, callVars
<1>16. ASSUME NEW t \in Tenants, NEW a \in 1..MaxGranted, Deposit(t, a) PROVE TypeOK'
  <2>1. [account[t] EXCEPT !.granted = @ + a] \in Accounts
    BY <1>16 DEF TypeOK, Deposit, Accounts
  <2>2. account' = [account EXCEPT ![t] = [account[t] EXCEPT !.granted = @ + a]]
    BY <1>16 DEF Deposit
  <2>3. account' \in [Tenants -> Accounts]
    BY <2>1, <2>2 DEF TypeOK
  <2> QED
    BY <1>16, <2>3 DEF TypeOK, Deposit, callVars
<1>17. CASE UNCHANGED vars
  BY <1>17 DEF TypeOK, vars
<1> QED
  BY <1>1, <1>2, <1>3, <1>4, <1>5, <1>6, <1>7, <1>8, <1>9, <1>10, <1>11, <1>12,
     <1>13, <1>14, <1>15, <1>16, <1>17 DEF Next, Internal, CallStep

LEMMA TypeInit == Init => TypeOK
BY WalletAssumption DEF Init, TypeOK, Accounts, Rows, AccountStatus, ResvStatus, Stages, NoEvent

\* Every variable keeps its type: in particular no settlement is retried more
\* than completeStream allows, and no cost leaves the range of quotes.
THEOREM TypeCorrect == Spec => []TypeOK
BY TypeInit, TypeInductive, PTL DEF Spec

-----------------------------------------------------------------------------
(* Solvency.                                                               *)

\* A call inside its reserve transaction owns the account row.
LockHeld ==
    \A c \in Calls : pc[c] \in {"locked", "authorised"} => rowLock[CallTenant[c]] = c

\* A call that has not committed its reservation has no row.
NoRowYet ==
    \A c \in Calls :
        pc[c] \in {"start", "provisioned", "locked", "authorised"} =>
            resv[c].status = "none"

\* A provisional settlement charges exactly the hold it replaces.
RecoveredAtHold ==
    \A c \in Calls : resv[c].status = "recovered" => resv[c].actual = resv[c].reserved

\* What ReserveCheck tested is still true when ReserveInsert commits.
Room == \A c \in Calls : pc[c] = "authorised" /\ Chargeable[c] => Covers(c)

\* A workspace without an account has no money.
NoAccountNoMoney == \A t \in Tenants : account[t].status = "none" => account[t].granted = 0

Bookkeeping == TypeOK /\ LockHeld /\ NoRowYet /\ RecoveredAtHold /\ NoAccountNoMoney
WalletInv == Bookkeeping /\ Room /\ Solvent

ChargeOf == [c \in Calls |-> Charge(c)]

LEMMA ChargeType ==
    ASSUME TypeOK
    PROVE  ChargeOf \in [Calls -> 0..MaxCost] /\ ChargeOf \in [Calls -> Nat]
<1>1. ASSUME NEW c \in Calls PROVE Charge(c) \in 0..MaxCost /\ Charge(c) \in Nat
  BY WalletAssumption DEF TypeOK, Rows, Charge
<1> QED
  BY <1>1 DEF ChargeOf

LEMMA SpentIsPairs == \A t : Spent(t) = Cardinality(Pairs(ChargeOf, t))
BY DEF Spent, Units, Pairs, ChargeOf

LEMMA RecoverRowFields ==
    ASSUME TypeOK, RecoverReservations, NEW c \in Calls
    PROVE  \/ resv'[c] = resv[c]
           \/ /\ resv[c].status = "reserved"
              /\ resv'[c].status = "recovered"
              /\ resv'[c].actual = resv[c].reserved
              /\ resv'[c].reserved = resv[c].reserved
<1>1. resv[c] \in Rows
  BY DEF TypeOK
<1>2. resv'[c] = IF c \in StaleHolds THEN RecoverRow(resv[c]) ELSE resv[c]
  BY DEF RecoverReservations
<1>3. /\ RecoverRow(resv[c]).status = "recovered"
      /\ RecoverRow(resv[c]).actual = resv[c].reserved
      /\ RecoverRow(resv[c]).reserved = resv[c].reserved
  BY <1>1 DEF RecoverRow, Rows
<1> QED
  BY <1>2, <1>3 DEF StaleHolds

LEMMA SettleFields ==
    ASSUME TypeOK, NEW c \in Calls, Complete(c) \/ Release(c)
    PROVE  /\ \A d \in Calls : d # c => resv'[d] = resv[d]
           /\ \/ resv'[c] = resv[c]
              \/ Unsettled(c) /\ resv'[c].status = "released"
              \/ /\ Unsettled(c)
                 /\ resv'[c].status = "completed"
                 /\ resv'[c].actual = SettledCost(c)
<1>1. \/ resv' = resv
      \/ Unsettled(c) /\ resv' = [resv EXCEPT ![c].status = "released"]
      \/ /\ Unsettled(c)
         /\ resv' = [resv EXCEPT ![c].status = "completed", ![c].actual = SettledCost(c)]
  BY Zenon DEF Complete, Release
<1> QED
  BY <1>1 DEF TypeOK, Rows

\* Row statuses and stages change together: the bookkeeping invariants.
LEMMA BookkeepingInductive ==
    TypeOK /\ LockHeld /\ NoRowYet /\ RecoveredAtHold /\ [Next]_vars
        => LockHeld' /\ NoRowYet' /\ RecoveredAtHold'
<1> SUFFICES ASSUME TypeOK, LockHeld, NoRowYet, RecoveredAtHold, [Next]_vars
             PROVE  LockHeld' /\ NoRowYet' /\ RecoveredAtHold'
  OBVIOUS
<1> USE WalletAssumption DEF TypeOK, LockHeld, NoRowYet, RecoveredAtHold, Rows
<1>1. ASSUME NEW c \in Calls, ReserveQuote(c)
      PROVE  LockHeld' /\ NoRowYet' /\ RecoveredAtHold'
  BY <1>1 DEF ReserveQuote
<1>2. ASSUME NEW c \in Calls, ReserveLock(c)
      PROVE  LockHeld' /\ NoRowYet' /\ RecoveredAtHold'
  BY <1>2 DEF ReserveLock, RowFree
<1>3. ASSUME NEW c \in Calls, ReserveCheck(c)
      PROVE  LockHeld' /\ NoRowYet' /\ RecoveredAtHold'
  BY <1>3 DEF ReserveCheck, Unlock
<1>4. ASSUME NEW c \in Calls, ReserveInsert(c)
      PROVE  LockHeld' /\ NoRowYet' /\ RecoveredAtHold'
  BY <1>4 DEF ReserveInsert, Unlock
<1>5. ASSUME NEW c \in Calls, ReserveFail(c)
      PROVE  LockHeld' /\ NoRowYet' /\ RecoveredAtHold'
  BY <1>5 DEF ReserveFail, Unlock
<1>6. ASSUME NEW c \in Calls, ProviderAnswers(c) \/ ProviderFails(c) \/ SettleExhausted(c)
      PROVE  LockHeld' /\ NoRowYet' /\ RecoveredAtHold'
  BY <1>6 DEF ProviderAnswers, ProviderFails, SettleExhausted
<1>7. ASSUME NEW c \in Calls, SettleAttempt(c) \/ ReleaseAttempt(c)
      PROVE  LockHeld' /\ NoRowYet' /\ RecoveredAtHold'
  <2>1. /\ pc[c] \in {"settling", "releasing"}
        /\ pc' = pc \/ pc' = [pc EXCEPT ![c] = "done"]
        /\ rowLock' = rowLock
    BY <1>7 DEF SettleAttempt, ReleaseAttempt
  <2>2. resv' = resv \/ Complete(c) \/ Release(c)
    BY <1>7, Zenon DEF SettleAttempt, ReleaseAttempt
  <2>3. \A d \in Calls : \/ resv'[d] = resv[d]
                         \/ d = c /\ resv'[d].status \in {"released", "completed"}
    BY <2>2, SettleFields
  <2>4. \A d \in Calls : pc'[d] = pc[d] \/ pc'[d] = "done"
    BY <2>1
  <2> QED
    BY <2>1, <2>3, <2>4
<1>9. ASSUME NEW c \in Calls, Crash(c)
      PROVE  LockHeld' /\ NoRowYet' /\ RecoveredAtHold'
  BY <1>9 DEF Crash, Unlock
<1>10. CASE RecoverReservations
  <2>1. pc' = pc /\ rowLock' = rowLock
    BY <1>10 DEF RecoverReservations, callVars
  <2> QED
    BY <1>10, <2>1, RecoverRowFields
<1>11. CASE UNCHANGED <<rowLock, resv, pc>>
  BY <1>11
<1>12. \/ \E c \in Calls :
             \/ ReserveQuote(c) \/ ReserveLock(c) \/ ReserveCheck(c) \/ ReserveInsert(c)
             \/ ReserveFail(c) \/ ProviderAnswers(c) \/ ProviderFails(c)
             \/ SettleAttempt(c) \/ SettleExhausted(c) \/ ReleaseAttempt(c) \/ Crash(c)
       \/ RecoverReservations
       \/ UNCHANGED <<rowLock, resv, pc>>
  BY Zenon DEF Next, Internal, CallStep, Expire, Provision, SetStatus, Deposit, callVars, vars
<1> QED
  BY <1>1, <1>2, <1>3, <1>4, <1>5, <1>6, <1>7, <1>9, <1>10, <1>11, <1>12

\* The only step that raises a charge is the commit of a reservation.
LEMMA ChargesOnlyShrink ==
    ASSUME TypeOK, RecoveredAtHold, [Next]_vars, NEW c \in Calls, ~ReserveInsert(c)
    PROVE  Charge(c)' <= Charge(c)
<1> USE WalletAssumption DEF TypeOK, RecoveredAtHold, Rows, Charge
<1>1. CASE resv'[c] = resv[c]
  BY <1>1
<1>2. CASE Complete(c) \/ Release(c)
  <2>1. /\ SettledCost(c) \in 0..MaxCost
        /\ SettledCost(c) <= resv[c].reserved
        /\ resv[c].reserved \in 0..MaxCost
        /\ resv[c].actual \in 0..MaxCost
    BY SettledCostType
  <2>2. CASE resv'[c] = resv[c]
    BY <2>2, <1>1
  <2>3. CASE Unsettled(c) /\ resv'[c].status = "released"
    BY <2>1, <2>3
  <2>4. CASE /\ Unsettled(c)
             /\ resv'[c].status = "completed"
             /\ resv'[c].actual = SettledCost(c)
    BY <2>1, <2>4 DEF Unsettled
  <2> QED
    BY <1>2, <2>2, <2>3, <2>4, SettleFields
<1>3. CASE RecoverReservations
  BY <1>3, RecoverRowFields
<1>4. CASE \E d \in Calls : ReserveInsert(d)
  <2>1. PICK d \in Calls : ReserveInsert(d)
    BY <1>4
  <2>2. d # c
    BY <2>1
  <2> QED
    BY <1>1, <2>1, <2>2 DEF ReserveInsert
<1>5. CASE \E d \in Calls : d # c /\ (Complete(d) \/ Release(d))
  BY <1>5, <1>1, SettleFields
<1>6. \/ UNCHANGED resv
      \/ RecoverReservations
      \/ \E d \in Calls : ReserveInsert(d)
      \/ \E d \in Calls : Complete(d) \/ Release(d)
  BY Zenon DEF Next, Internal, CallStep, Expire, Provision, SetStatus, Deposit, vars,
       ReserveQuote, ReserveLock, ReserveCheck, ReserveFail, ProviderAnswers, ProviderFails,
       SettleExhausted, Crash, SettleAttempt, ReleaseAttempt
<1> QED
  BY <1>1, <1>2, <1>3, <1>4, <1>5, <1>6

\* Granted credit never shrinks, and every reservation in progress keeps its
\* account, price and tenant.
LEMMA GrantsOnlyGrow ==
    ASSUME TypeOK, [Next]_vars, NEW t \in Tenants,
           NoAccountNoMoney
    PROVE  /\ account[t].granted <= account'[t].granted
           /\ account'[t].status = "none" => account'[t].granted = 0
<1> DEFINE Grown == /\ account[t].granted <= account'[t].granted
                    /\ account'[t].status = "none" => account'[t].granted = 0
<1> USE DEF NoAccountNoMoney
<1>1. CASE UNCHANGED account
  BY <1>1 DEF TypeOK, Accounts
<1>2. ASSUME NEW u \in Tenants, ProvisionTenant(u)
      PROVE  Grown
  <2>1. Welcome \in Nat /\ account[t].granted \in Nat
    BY WalletAssumption DEF TypeOK, Accounts
  <2>2. \/ account'[t] = account[t]
        \/ /\ account[t].status = "none"
           /\ account'[t] = [granted |-> Welcome, status |-> "active"]
    BY <1>2 DEF TypeOK, ProvisionTenant
  <2> QED
    BY <2>1, <2>2
<1>3. ASSUME NEW u \in Tenants, NEW a \in 1..MaxGranted, Deposit(u, a)
      PROVE  Grown
  BY <1>3 DEF TypeOK, Accounts, Deposit
<1>4. ASSUME NEW u \in Tenants, NEW q \in {"active", "suspended"}, SetStatus(u, q)
      PROVE  Grown
  BY <1>4 DEF TypeOK, Accounts, SetStatus
<1>5. \/ UNCHANGED account
      \/ \E u \in Tenants : ProvisionTenant(u)
      \/ \E u \in Tenants, a \in 1..MaxGranted : Deposit(u, a)
      \/ \E u \in Tenants, q \in {"active", "suspended"} : SetStatus(u, q)
  <2>1. \A c \in Calls : CallTenant[c] \in Tenants
    BY WalletAssumption
  <2> QED
    BY <2>1, Zenon DEF Next, Internal, CallStep, Expire, Provision, vars, ReserveQuote, ReserveLock,
       ReserveCheck, ReserveInsert, ReserveFail, ProviderAnswers, ProviderFails,
       SettleExhausted, Crash, SettleAttempt, ReleaseAttempt, RecoverReservations
<1> QED
  BY <1>1, <1>2, <1>3, <1>4, <1>5

LEMMA BookkeepingStep ==
    ASSUME Bookkeeping, [Next]_vars
    PROVE  Bookkeeping'
<1>1. NoAccountNoMoney'
  <2>1. ASSUME NEW t \in Tenants
        PROVE  account'[t].status = "none" => account'[t].granted = 0
    BY GrantsOnlyGrow DEF Bookkeeping
  <2> QED
    BY <2>1 DEF NoAccountNoMoney
<1> QED
  BY <1>1, TypeInductive, BookkeepingInductive DEF Bookkeeping

\* Unless one of its calls commits a reservation, a workspace spends no more.
LEMMA SpentOnlyShrinks ==
    ASSUME Bookkeeping, [Next]_vars, NEW t,
           \A c \in Calls : CallTenant[c] = t => ~ReserveInsert(c)
    PROVE  Spent(t)' <= Spent(t)
<1>1. TypeOK /\ RecoveredAtHold /\ TypeOK'
  BY TypeInductive DEF Bookkeeping
<1>2. ChargeOf \in [Calls -> Nat] /\ ChargeOf' \in [Calls -> Nat]
  <2>1. ASSUME NEW c \in Calls PROVE Charge(c)' \in Nat
    BY <1>1, WalletAssumption DEF TypeOK, Rows, Charge
  <2> QED
    BY <1>1, <2>1, ChargeType DEF ChargeOf
<1>3. ASSUME NEW c \in Calls, CallTenant[c] = t
      PROVE  ChargeOf'[c] <= ChargeOf[c]
  <2>1. ChargeOf'[c] = Charge(c)' /\ ChargeOf[c] = Charge(c)
    BY DEF ChargeOf
  <2> QED
    BY <1>1, <1>3, <2>1, ChargesOnlyShrink
<1>4. Cardinality(Pairs(ChargeOf', t)) <= Cardinality(Pairs(ChargeOf, t))
  BY <1>2, <1>3, PairsMonotone
<1>5. Spent(t) = Cardinality(Pairs(ChargeOf, t)) /\ Spent(t)' = Cardinality(Pairs(ChargeOf', t))
  BY DEF Spent, Units, Pairs, ChargeOf
<1> QED
  BY <1>4, <1>5

\* Sums of charges are natural numbers, before and after a step.
LEMMA SpentType == \A t : Spent(t) \in Nat /\ Spent(t)' \in Nat
<1>1. ASSUME NEW t PROVE Spent(t) \in Nat /\ Spent(t)' \in Nat
  <2>1. Spent(t) = Cardinality(Pairs(ChargeOf, t)) /\ Spent(t)' = Cardinality(Pairs(ChargeOf', t))
    BY DEF Spent, Units, Pairs, ChargeOf
  <2> QED
    BY <2>1, PairsFinite
<1> QED
  BY <1>1

LEMMA RoomStep ==
    ASSUME WalletInv, [Next]_vars
    PROVE  Room'
<1> SUFFICES ASSUME NEW c \in Calls, pc'[c] = "authorised", Chargeable[c]
             PROVE  Covers(c)'
  BY DEF Room
<1> DEFINE t == CallTenant[c]
<1>0. t \in Tenants
  BY WalletAssumption
<1>1. CASE pc[c] = "authorised"
  <2>1. ASSUME NEW d \in Calls, CallTenant[d] = t PROVE ~ReserveInsert(d)
    BY <1>1, <2>1 DEF ReserveInsert, WalletInv, Bookkeeping, LockHeld, TypeOK
  <2>2. Spent(t)' <= Spent(t)
    BY <2>1, SpentOnlyShrinks DEF WalletInv
  <2>3. quote'[c] = quote[c]
    <3>1. UNCHANGED quote \/ \E d \in Calls : ReserveQuote(d)
      BY Zenon DEF Next, Internal, CallStep, ReserveLock, ReserveCheck, ReserveInsert,
         ReserveFail, ProviderAnswers, ProviderFails, SettleAttempt, SettleExhausted,
         ReleaseAttempt, Crash, Expire, RecoverReservations, Provision, SetStatus, Deposit,
         vars, callVars
    <3> QED
      BY <1>1, <3>1 DEF ReserveQuote, WalletInv, Bookkeeping, TypeOK
  <2>4. account[t].granted <= account'[t].granted
    BY <1>0, GrantsOnlyGrow DEF WalletInv, Bookkeeping
  <2>5. Spent(t) + quote[c] <= account[t].granted
    BY <1>1 DEF WalletInv, Room, Covers
  <2>6. /\ quote[c] \in Nat
        /\ account[t].granted \in Nat
        /\ account'[t].granted \in Nat
    BY <1>0, BookkeepingStep DEF WalletInv, Bookkeeping, TypeOK, Accounts
  <2> QED
    BY <2>2, <2>3, <2>4, <2>5, <2>6, SpentType DEF Covers
<1>2. CASE pc[c] # "authorised"
  <2>1. ReserveCheck(c)
    BY <1>2 DEF Next, Internal, CallStep, ReserveQuote, ReserveLock, ReserveInsert,
       ReserveFail, ProviderAnswers, ProviderFails, SettleAttempt, SettleExhausted,
       ReleaseAttempt, Crash, Expire, RecoverReservations, Provision, SetStatus, Deposit,
       vars, callVars, WalletInv, Bookkeeping, TypeOK, ReserveCheck
  <2>2. Covers(c) /\ UNCHANGED <<account, resv, quote>>
    BY <2>1, <1>2 DEF ReserveCheck, WalletInv, Bookkeeping, TypeOK
  <2> QED
    BY <2>2 DEF Covers, Spent, Units, Charge
<1> QED
  BY <1>1, <1>2

LEMMA SolventStep ==
    ASSUME WalletInv, [Next]_vars
    PROVE  Solvent'
<1> SUFFICES ASSUME NEW t \in Tenants
             PROVE  Spent(t)' <= account'[t].granted
  BY DEF Solvent
<1>1. /\ Spent(t) <= account[t].granted
      /\ account[t].granted <= account'[t].granted
      /\ account[t].granted \in Nat
      /\ account'[t].granted \in Nat
  BY GrantsOnlyGrow, BookkeepingStep DEF WalletInv, Bookkeeping, Solvent, TypeOK, Accounts
<1>2. CASE \A c \in Calls : CallTenant[c] = t => ~ReserveInsert(c)
  BY <1>1, <1>2, SpentOnlyShrinks, SpentType DEF WalletInv
<1>3. ASSUME NEW c \in Calls, CallTenant[c] = t, ReserveInsert(c)
      PROVE  Spent(t)' <= account'[t].granted
  <2> DEFINE n == IF Chargeable[c] THEN quote[c] ELSE 0
  <2>1. TypeOK /\ pc[c] = "authorised" /\ resv[c].status = "none"
    BY <1>3 DEF ReserveInsert, WalletInv, Bookkeeping, NoRowYet
  <2>2. n \in 0..MaxCost /\ n \in Nat
    BY <2>1, WalletAssumption DEF TypeOK
  <2>3. ChargeOf \in [Calls -> Nat] /\ ChargeOf[c] = 0
    BY <2>1, ChargeType DEF ChargeOf, Charge
  <2>4. ChargeOf' = [ChargeOf EXCEPT ![c] = n]
    <3>1. Charge(c)' = n
      BY <1>3, <2>1 DEF ReserveInsert, Charge, TypeOK
    <3>2. ASSUME NEW d \in Calls, d # c PROVE Charge(d)' = Charge(d)
      BY <1>3, <2>1, <3>2 DEF ReserveInsert, Charge, TypeOK
    <3> QED
      BY <3>1, <3>2 DEF ChargeOf
  <2>5. Cardinality(Pairs(ChargeOf', t)) = Cardinality(Pairs(ChargeOf, t)) + n
    BY <1>3, <2>2, <2>3, <2>4, PairsAdd
  <2>6. Spent(t) = Cardinality(Pairs(ChargeOf, t)) /\ Spent(t)' = Cardinality(Pairs(ChargeOf', t))
    BY DEF Spent, Units, Pairs, ChargeOf
  <2>7. Spent(t) + n <= account[t].granted
    <3>1. CASE Chargeable[c]
      BY <1>3, <2>1, <3>1 DEF WalletInv, Room, Covers
    <3>2. CASE ~Chargeable[c]
      BY <1>1, <3>2, SpentType
    <3> QED
      BY <3>1, <3>2
  <2> QED
    BY <1>1, <2>2, <2>5, <2>6, <2>7, SpentType
<1> QED
  BY <1>2, <1>3

LEMMA InvInit == Init => WalletInv
<1> SUFFICES ASSUME Init PROVE WalletInv
  OBVIOUS
<1>1. Bookkeeping
  BY TypeInit DEF Init, Bookkeeping, LockHeld, NoRowYet, RecoveredAtHold, NoAccountNoMoney
<1>2. Room
  BY DEF Init, Room
<1>3. ASSUME NEW t \in Tenants PROVE Spent(t) <= account[t].granted
  <2>1. \A p \in Calls \X (1..MaxCost) : ~(p[2] <= Charge(p[1]))
    BY WalletAssumption DEF Init, Charge
  <2>2. Units(t) = {}
    BY <2>1 DEF Units
  <2> QED
    BY <2>2, FS_EmptySet DEF Init, Spent
<1> QED
  BY <1>1, <1>2, <1>3 DEF WalletInv, Solvent

THEOREM WalletInvariant == Spec => []WalletInv
<1>1. WalletInv /\ [Next]_vars => WalletInv'
  BY BookkeepingStep, RoomStep, SolventStep DEF WalletInv
<1> QED
  BY <1>1, InvInit, PTL DEF Spec

\* No interleaving of calls, settlements, recoveries, deposits and crashes
\* spends more than a workspace was granted.
THEOREM NeverOverspent == Spec => []Solvent
<1>1. WalletInv => Solvent
  BY DEF WalletInv
<1> QED
  BY <1>1, WalletInvariant, PTL

\* An authorised call never becomes more expensive.
THEOREM ChargesNeverGrow == Spec => NeverChargedMore
<1>1. ASSUME WalletInv, [Next]_vars
      PROVE  [\A c \in Calls : resv[c].status # "none" => Charge(c)' <= Charge(c)]_vars
  <2>1. ASSUME NEW c \in Calls, resv[c].status # "none"
        PROVE  Charge(c)' <= Charge(c)
    <3>1. ~ReserveInsert(c)
      BY <1>1, <2>1 DEF ReserveInsert, WalletInv, Bookkeeping, NoRowYet
    <3> QED
      BY <1>1, <3>1, ChargesOnlyShrink DEF WalletInv, Bookkeeping
  <2> QED
    BY <2>1
<1> QED
  BY <1>1, WalletInvariant, PTL DEF Spec, NeverChargedMore

\* What a settlement, a release or a recovery does to a final row: nothing.
LEMMA FinalRowsStay ==
    ASSUME WalletInv, [Next]_vars, NEW c \in Calls, resv[c].status \in {"completed", "released"}
    PROVE  resv'[c] = resv[c]
<1>1. CASE UNCHANGED resv
  BY <1>1
<1>2. CASE RecoverReservations
  <2>1. c \notin StaleHolds
    BY DEF StaleHolds
  <2> QED
    BY <1>2, <2>1 DEF RecoverReservations
<1>3. CASE \E d \in Calls : ReserveInsert(d)
  <2>1. PICK d \in Calls : ReserveInsert(d)
    BY <1>3
  <2>2. d # c
    BY <2>1 DEF ReserveInsert, WalletInv, Bookkeeping, NoRowYet
  <2>3. resv \in [Calls -> Rows]
    BY DEF WalletInv, Bookkeeping, TypeOK
  <2> QED
    BY <2>1, <2>2, <2>3 DEF ReserveInsert
<1>4. CASE \E d \in Calls : Complete(d) \/ Release(d)
  <2>1. PICK d \in Calls : Complete(d) \/ Release(d)
    BY <1>4
  <2>2. resv \in [Calls -> Rows]
    BY DEF WalletInv, Bookkeeping, TypeOK
  <2>3. CASE d = c
    BY <2>1, <2>3 DEF Complete, Release, Unsettled
  <2>4. CASE d # c
    BY <2>1, <2>2, <2>4 DEF Complete, Release
  <2> QED
    BY <2>3, <2>4
<1>5. \/ UNCHANGED resv
      \/ RecoverReservations
      \/ \E d \in Calls : ReserveInsert(d)
      \/ \E d \in Calls : Complete(d) \/ Release(d)
  BY Zenon DEF Next, Internal, CallStep, Expire, Provision, SetStatus, Deposit, vars,
       ReserveQuote, ReserveLock, ReserveCheck, ReserveFail, ProviderAnswers, ProviderFails,
       SettleExhausted, Crash, SettleAttempt, ReleaseAttempt
<1> QED
  BY <1>1, <1>2, <1>3, <1>4, <1>5

\* A completed or released reservation is never written again, whatever is
\* retried, late or recovered.
THEOREM SettledRowsAreFinal == Spec => SettlementIsFinal
<1>1. WalletInv /\ [Next]_vars =>
        [\A c \in Calls :
           resv[c].status \in {"completed", "released"} => resv'[c] = resv[c]]_vars
  BY FinalRowsStay
<1> QED
  BY <1>1, WalletInvariant, PTL DEF Spec, SettlementIsFinal

-----------------------------------------------------------------------------
(* Telemetry.                                                              *)

\* A settlement writes the row and its event together, a release neither
\* completes a row nor takes a completed one back.
LEMMA TelemetryStep ==
    ASSUME WalletInv, TelemetryMatchesLedger, [Next]_vars
    PROVE  TelemetryMatchesLedger'
<1> DEFINE Event(c) == IF MeterForgeEnabled /\ resv[c].status = "completed"
                       THEN resv[c].actual ELSE NoEvent
<1>0. /\ resv \in [Calls -> Rows]
      /\ outbox \in [Calls -> 0..NoEvent]
      /\ \A c \in Calls : outbox[c] = Event(c)
  BY DEF WalletInv, Bookkeeping, TypeOK, TelemetryMatchesLedger
<1>a. SUFFICES ASSUME NEW c \in Calls
               PROVE  outbox'[c] = Event(c)'
  BY Zenon DEF TelemetryMatchesLedger
<1>1. CASE UNCHANGED <<resv, outbox>>
  BY <1>0, <1>1
<1>2. CASE RecoverReservations
  <2>1. outbox' = outbox
    BY <1>2 DEF RecoverReservations
  <2>2. CASE c \in StaleHolds
    <3>1. resv[c].status = "reserved" /\ resv'[c].status = "recovered"
      BY <1>0, <1>2, <2>2 DEF RecoverReservations, StaleHolds, RecoverRow, Rows
    <3> QED
      BY <1>0, <2>1, <3>1
  <2>3. CASE c \notin StaleHolds
    <3>1. resv'[c] = resv[c]
      BY <1>2, <2>3 DEF RecoverReservations
    <3> QED
      BY <1>0, <2>1, <3>1
  <2> QED
    BY <2>2, <2>3
<1>3. CASE \E d \in Calls : ReserveInsert(d)
  <2>1. PICK d \in Calls : ReserveInsert(d)
    BY <1>3
  <2>2. outbox' = outbox
    BY <2>1 DEF ReserveInsert
  <2>3. CASE d = c
    <3>1. resv[c].status = "none" /\ resv'[c].status = "reserved"
      BY <1>0, <2>1, <2>3 DEF ReserveInsert, WalletInv, Bookkeeping, NoRowYet
    <3> QED
      BY <1>0, <2>2, <3>1
  <2>4. CASE d # c
    BY <1>0, <2>1, <2>2, <2>4 DEF ReserveInsert
  <2> QED
    BY <2>3, <2>4
<1>4. CASE \E d \in Calls : Complete(d)
  <2>1. PICK d \in Calls : Complete(d)
    BY <1>4
  <2>2. CASE d # c
    BY <1>0, <2>1, <2>2 DEF Complete, Release
  <2>3. CASE d = c /\ resv'[c] = resv[c] /\ outbox' = outbox
    BY <1>0, <2>3
  <2>4. CASE d = c /\ Unsettled(c) /\ resv'[c].status = "released" /\ outbox' = outbox
    BY <1>0, <2>4 DEF Unsettled
  <2>5. CASE /\ d = c
             /\ Unsettled(c)
             /\ resv'[c].status = "completed"
             /\ resv'[c].actual = SettledCost(c)
             /\ outbox' = IF MeterForgeEnabled
                          THEN [outbox EXCEPT ![c] = SettledCost(c)] ELSE outbox
    <3>1. outbox[c] = NoEvent
      BY <1>0, <2>5 DEF Unsettled
    <3> QED
      BY <1>0, <2>5, <3>1
  <2>6. CASE d = c
    BY <1>0, <2>1, <2>3, <2>4, <2>5, <2>6 DEF Complete, Release, Rows
  <2> QED
    BY <2>2, <2>6
<1>5. CASE \E d \in Calls : Release(d) /\ UNCHANGED outbox
  <2>1. PICK d \in Calls : Release(d) /\ UNCHANGED outbox
    BY <1>5
  <2>2. CASE resv'[c] = resv[c]
    BY <1>0, <2>1, <2>2
  <2>3. CASE Unsettled(c) /\ resv'[c].status = "released"
    BY <1>0, <2>1, <2>3 DEF Unsettled
  <2> QED
    BY <1>0, <2>1, <2>2, <2>3 DEF Release, Rows
<1>6. \/ UNCHANGED <<resv, outbox>>
      \/ RecoverReservations
      \/ \E d \in Calls : ReserveInsert(d)
      \/ \E d \in Calls : Complete(d)
      \/ \E d \in Calls : Release(d) /\ UNCHANGED outbox
  BY Zenon DEF Next, Internal, CallStep, Expire, Provision, SetStatus, Deposit, vars,
       ReserveQuote, ReserveLock, ReserveCheck, ReserveFail, ProviderAnswers, ProviderFails,
       SettleExhausted, Crash, SettleAttempt, ReleaseAttempt
<1> QED
  BY <1>1, <1>2, <1>3, <1>4, <1>5, <1>6

\* Exactly the completed calls have a telemetry event, at the cost the ledger
\* charges, through all retries, crashes and recoveries.
THEOREM EventsMatchCharges == Spec => []TelemetryMatchesLedger
<1>1. Init => TelemetryMatchesLedger
  BY DEF Init, TelemetryMatchesLedger
<1>2. WalletInv /\ TelemetryMatchesLedger /\ [Next]_vars => TelemetryMatchesLedger'
  BY TelemetryStep
<1> QED
  BY <1>1, <1>2, WalletInvariant, PTL DEF Spec

-----------------------------------------------------------------------------
(* Crashes.                                                                *)

\* Nobody releases the hold of a call that its provider still works on, or
\* whose wrapper has not got to its release.
NotReleasedYet == \A c \in Calls : pc[c] \in {"calling", "releasing"} => resv[c].status # "released"

\* Who may turn a row into a released one.
LEMMA ReleasedBy ==
    ASSUME WalletInv, [Next]_vars, NEW c \in Calls,
           resv[c].status # "released", resv'[c].status = "released"
    PROVE  \/ pc'[c] = "done"
           \/ pc'[c] = "settling" /\ usage'[c] = 0
<1>0. /\ resv \in [Calls -> Rows]
      /\ pc \in [Calls -> Stages]
  BY DEF WalletInv, Bookkeeping, TypeOK
<1>1. CASE UNCHANGED resv
  BY <1>1
<1>2. CASE RecoverReservations
  BY <1>2, RecoverRowFields DEF WalletInv, Bookkeeping
<1>3. CASE \E d \in Calls : ReserveInsert(d)
  <2>1. PICK d \in Calls : ReserveInsert(d)
    BY <1>3
  <2> QED
    BY <1>0, <2>1 DEF ReserveInsert, Rows
<1>4. CASE \E d \in Calls : SettleAttempt(d)
  <2>1. PICK d \in Calls : SettleAttempt(d)
    BY <1>4
  <2>2. CASE resv' = resv
    BY <2>2
  <2>3. CASE Complete(d)
    <3>1. d = c
      BY <2>3, SettleFields DEF WalletInv, Bookkeeping
    <3>2. usage[c] = 0
      BY <1>0, <2>3, <3>1 DEF Complete, Rows
    <3>3. pc[c] = "settling" /\ usage' = usage
      BY <2>1, <3>1 DEF SettleAttempt
    <3>4. pc' = pc \/ pc' = [pc EXCEPT ![c] = "done"]
      BY <2>1, <3>1 DEF SettleAttempt
    <3> QED
      BY <1>0, <3>2, <3>3, <3>4
  <2> QED
    BY <2>1, <2>2, <2>3 DEF SettleAttempt
<1>5. CASE \E d \in Calls : ReleaseAttempt(d)
  <2>1. PICK d \in Calls : ReleaseAttempt(d)
    BY <1>5
  <2>2. d = c
    BY <2>1, SettleFields DEF ReleaseAttempt, WalletInv, Bookkeeping
  <2> QED
    BY <1>0, <2>1, <2>2 DEF ReleaseAttempt
<1>6. \/ UNCHANGED resv
      \/ RecoverReservations
      \/ \E d \in Calls : ReserveInsert(d) \/ SettleAttempt(d) \/ ReleaseAttempt(d)
  BY Zenon DEF Next, Internal, CallStep, Expire, Provision, SetStatus, Deposit, vars,
       ReserveQuote, ReserveLock, ReserveCheck, ReserveFail, ProviderAnswers, ProviderFails,
       SettleExhausted, Crash
<1> QED
  BY <1>1, <1>2, <1>3, <1>4, <1>5, <1>6

\* How a call moves once its row exists.
LEMMA StageMoves ==
    ASSUME WalletInv, [Next]_vars, NEW c \in Calls, resv[c].status # "none"
    PROVE  \/ pc'[c] = pc[c] /\ usage'[c] = usage[c]
           \/ pc[c] = "calling" /\ pc'[c] \in {"settling", "releasing"}
           \/ pc[c] \in {"settling", "releasing"} /\ pc'[c] = "done"
           \/ pc'[c] = "crashed" /\ usage'[c] = usage[c] /\ pc[c] # "done"
<1>0. pc \in [Calls -> Stages] /\ usage \in [Calls -> 0..MaxUsage]
  BY DEF WalletInv, Bookkeeping, TypeOK
<1>1. pc[c] \notin {"start", "provisioned", "locked", "authorised"}
  BY DEF WalletInv, Bookkeeping, NoRowYet
<1>2. CASE UNCHANGED <<pc, usage>>
  BY <1>2
<1>3. CASE \E d \in Calls : CallStep(d)
  <2>1. PICK d \in Calls : CallStep(d)
    BY <1>3
  <2>2. CASE d # c
    <3>1. pc'[c] = pc[c] /\ usage'[c] = usage[c]
      BY <1>0, <2>1, <2>2 DEF CallStep, ReserveQuote, ReserveLock, ReserveCheck,
           ReserveInsert, ReserveFail, ProviderAnswers, ProviderFails, SettleAttempt,
           SettleExhausted, ReleaseAttempt, Crash
    <3> QED
      BY <3>1
  <2>3. CASE d = c
    BY <1>0, <1>1, <2>1, <2>3 DEF CallStep, ReserveQuote, ReserveLock, ReserveCheck,
         ReserveInsert, ReserveFail, ProviderAnswers, ProviderFails, SettleAttempt,
         SettleExhausted, ReleaseAttempt, Crash
  <2> QED
    BY <2>2, <2>3
<1>4. UNCHANGED <<pc, usage>> \/ \E d \in Calls : CallStep(d)
  BY Zenon DEF Next, Internal, Expire, RecoverReservations, Provision, SetStatus, Deposit,
       callVars, vars
<1> QED
  BY <1>2, <1>3, <1>4

LEMMA NoFreeCrashStep ==
    ASSUME WalletInv, NotReleasedYet, NoFreeCrash, [Next]_vars
    PROVE  NotReleasedYet' /\ NoFreeCrash'
<1>1. ASSUME NEW c \in Calls, resv'[c].status = "released"
      PROVE  \/ pc'[c] = "done"
             \/ pc'[c] \in {"settling", "crashed"} /\ usage'[c] = 0
  <2>1. CASE resv[c].status # "released"
    BY <1>1, <2>1, ReleasedBy
  <2>2. CASE resv[c].status = "released"
    <3>1. \/ pc[c] = "done"
          \/ pc[c] \in {"settling", "crashed"} /\ usage[c] = 0
      BY <2>2 DEF NotReleasedYet, NoFreeCrash
    <3> QED
      BY <2>2, <3>1, StageMoves
  <2> QED
    BY <2>1, <2>2
<1> QED
  BY <1>1 DEF NotReleasedYet, NoFreeCrash

\* A crash or a lost settlement never frees a call that was served.
THEOREM CrashesAreNotFree == Spec => []NoFreeCrash
<1>1. Init => NotReleasedYet /\ NoFreeCrash
  BY DEF Init, NotReleasedYet, NoFreeCrash
<1>2. WalletInv /\ (NotReleasedYet /\ NoFreeCrash) /\ [Next]_vars
        => (NotReleasedYet /\ NoFreeCrash)'
  BY NoFreeCrashStep
<1> QED
  BY <1>1, <1>2, WalletInvariant, PTL DEF Spec

-----------------------------------------------------------------------------
(* Refinement.                                                             *)

GrantedOf == [t \in Tenants |-> account[t].granted]
PhaseOf ==
    [c \in Calls |->
       IF resv[c].status = "none" THEN "absent"
       ELSE IF Unsettled(c) THEN "open" ELSE "closed"]

LEMMA MappedTotal == \A t : Ledger!Total(t) = Spent(t)
<1>1. \A p \in Calls \X (1..MaxCost) : [c \in Calls |-> Charge(c)][p[1]] = Charge(p[1])
  OBVIOUS
<1>2. ASSUME NEW t
      PROVE  Units(t) = {p \in Calls \X (1..MaxCost) :
                           CallTenant[p[1]] = t /\ p[2] <= [c \in Calls |-> Charge(c)][p[1]]}
  BY <1>1 DEF Units
<1>3. \A S : Ledger!Cardinality(S) = Cardinality(S)
  BY Zenon DEF Cardinality, Ledger!Cardinality
<1> QED
  BY <1>2, <1>3, Zenon DEF Ledger!Total, Spent

\* A step that leaves the rows alone funds workspaces, one at a time, or
\* changes nothing the ledger sees.
LEMMA FundingSteps ==
    ASSUME WalletInv, [Next]_vars, UNCHANGED resv
    PROVE  [Ledger!Next]_(Ledger!ledgerVars)
<1>0. TypeOK /\ NoAccountNoMoney
  BY DEF WalletInv, Bookkeeping
<1>1. UNCHANGED <<ChargeOf, PhaseOf>>
  BY DEF ChargeOf, PhaseOf, Charge, Unsettled
<1>2. CASE GrantedOf' = GrantedOf
  BY <1>1, <1>2 DEF Ledger!ledgerVars, GrantedOf, ChargeOf, PhaseOf
<1>3. ASSUME NEW t \in Tenants, GrantedOf' # GrantedOf,
             \A u \in Tenants : u # t => account'[u] = account[u]
      PROVE  Ledger!Fund(t)
  <2>1. GrantedOf'[t] > GrantedOf[t] /\ GrantedOf' = [GrantedOf EXCEPT ![t] = GrantedOf'[t]]
    <3>1. account[t].granted <= account'[t].granted
      BY <1>0, GrantsOnlyGrow
    <3>2. account[t].granted \in Nat /\ account'[t].granted \in Nat
      BY <1>0, TypeInductive DEF TypeOK, Accounts
    <3>3. GrantedOf' = [GrantedOf EXCEPT ![t] = account'[t].granted]
      BY <1>3 DEF GrantedOf
    <3>4. account[t].granted # account'[t].granted
      BY <1>3 DEF GrantedOf
    <3> QED
      BY <3>1, <3>2, <3>3, <3>4 DEF GrantedOf
  <2> QED
    BY <1>1, <2>1 DEF Ledger!Fund, GrantedOf, ChargeOf, PhaseOf
<1>4. \/ UNCHANGED account
      \/ \E t \in Tenants : \A u \in Tenants : u # t => account'[u] = account[u]
  <2>1. \A c \in Calls : CallTenant[c] \in Tenants
    BY WalletAssumption
  <2>2. \/ UNCHANGED account
        \/ \E u \in Tenants : ProvisionTenant(u)
        \/ \E u \in Tenants, a \in 1..MaxGranted : Deposit(u, a)
        \/ \E u \in Tenants, q \in {"active", "suspended"} : SetStatus(u, q)
    BY <2>1, Zenon DEF Next, Internal, CallStep, Expire, Provision, vars, ReserveQuote, ReserveLock,
       ReserveCheck, ReserveInsert, ReserveFail, ProviderAnswers, ProviderFails,
       SettleExhausted, Crash, SettleAttempt, ReleaseAttempt, RecoverReservations
  <2>3. ASSUME NEW u \in Tenants, ProvisionTenant(u)
        PROVE  \A v \in Tenants : v # u => account'[v] = account[v]
    BY <1>0, <2>3 DEF ProvisionTenant, TypeOK
  <2>4. ASSUME NEW u \in Tenants, NEW a \in 1..MaxGranted, Deposit(u, a)
        PROVE  \A v \in Tenants : v # u => account'[v] = account[v]
    BY <1>0, <2>4 DEF Deposit, TypeOK
  <2>5. ASSUME NEW u \in Tenants, NEW q \in {"active", "suspended"}, SetStatus(u, q)
        PROVE  \A v \in Tenants : v # u => account'[v] = account[v]
    BY <1>0, <2>5 DEF SetStatus, TypeOK
  <2> QED
    BY <2>2, <2>3, <2>4, <2>5
<1>5. UNCHANGED account => GrantedOf' = GrantedOf
  BY DEF GrantedOf
<1> QED
  BY <1>2, <1>3, <1>4, <1>5 DEF Ledger!Next

\* Committing a reservation authorises a charge.
LEMMA InsertAuthorises ==
    ASSUME WalletInv, NEW c \in Calls, ReserveInsert(c)
    PROVE  Ledger!Next
<1>1. TypeOK /\ pc[c] = "authorised" /\ resv[c].status = "none"
  BY DEF ReserveInsert, WalletInv, Bookkeeping, NoRowYet
<1>n. PICK n \in 0..MaxCost : n = IF Chargeable[c] THEN quote[c] ELSE 0
  BY <1>1, WalletAssumption DEF TypeOK
<1>2. CallTenant[c] \in Tenants
  BY WalletAssumption
<1>3. ChargeOf' = [ChargeOf EXCEPT ![c] = n]
  <2>1. Charge(c)' = n
    BY <1>1, <1>n DEF ReserveInsert, Charge, TypeOK
  <2>2. ASSUME NEW d \in Calls, d # c PROVE Charge(d)' = Charge(d)
    BY <1>1, <2>2 DEF ReserveInsert, Charge, TypeOK
  <2> QED
    BY <2>1, <2>2 DEF ChargeOf
<1>4. PhaseOf[c] = "absent" /\ PhaseOf' = [PhaseOf EXCEPT ![c] = "open"]
  <2>1. resv'[c].status = "reserved" /\ \A d \in Calls : d # c => resv'[d] = resv[d]
    BY <1>1 DEF ReserveInsert, TypeOK
  <2> QED
    BY <1>1, <2>1 DEF PhaseOf, Unsettled
<1>5. Spent(CallTenant[c]) + n <= account[CallTenant[c]].granted
  <2>1. CASE Chargeable[c]
    BY <1>1, <1>n, <2>1 DEF WalletInv, Room, Covers
  <2>2. CASE ~Chargeable[c]
    BY <1>2, <1>n, <2>2, SpentType DEF WalletInv, Solvent
  <2> QED
    BY <2>1, <2>2
<1>6. GrantedOf' = GrantedOf
  BY DEF ReserveInsert, GrantedOf
<1>7. Ledger!Authorise(c, n)
  BY <1>2, <1>3, <1>4, <1>5, <1>6, MappedTotal
     DEF Ledger!Authorise, GrantedOf, ChargeOf, PhaseOf
<1> QED
  BY <1>7 DEF Ledger!Next

\* A settlement or release closes its charge; repeating it changes nothing.
LEMMA SettlementCloses ==
    ASSUME WalletInv, [Next]_vars, UNCHANGED account,
           NEW c \in Calls, Complete(c) \/ Release(c), resv' # resv
    PROVE  Ledger!Next
<1>1. TypeOK /\ TypeOK' /\ RecoveredAtHold /\ ~ReserveInsert(c)
  <2>1. TypeOK /\ TypeOK' /\ RecoveredAtHold /\ NoRowYet
    BY BookkeepingStep DEF WalletInv, Bookkeeping
  <2>2. Unsettled(c)
    BY Zenon DEF Complete, Release
  <2> QED
    BY <2>1, <2>2 DEF ReserveInsert, NoRowYet, Unsettled
<1>n. PICK n \in 0..MaxCost : n = Charge(c)'
  BY <1>1, WalletAssumption DEF TypeOK, Rows, Charge
<1>2. n <= Charge(c)
  BY <1>1, <1>n, ChargesOnlyShrink
<1>3. /\ \A d \in Calls : d # c => resv'[d] = resv[d]
      /\ Unsettled(c)
      /\ resv'[c].status \in {"released", "completed"}
  <2>1. resv'[c] # resv[c]
    BY <1>1, SettleFields DEF TypeOK
  <2> QED
    BY <1>1, <2>1, SettleFields
<1>4. ChargeOf' = [ChargeOf EXCEPT ![c] = n]
  BY <1>3, <1>n DEF ChargeOf, Charge
<1>5. PhaseOf[c] = "open" /\ PhaseOf' = [PhaseOf EXCEPT ![c] = "closed"]
  BY <1>3 DEF PhaseOf, Unsettled
<1>6. GrantedOf' = GrantedOf /\ n <= ChargeOf[c]
  BY <1>2 DEF GrantedOf, ChargeOf
<1>7. Ledger!Close(c, n)
  BY <1>2, <1>4, <1>5, <1>6 DEF Ledger!Close, GrantedOf, ChargeOf, PhaseOf
<1> QED
  BY <1>7 DEF Ledger!Next

\* A provisional settlement is invisible to the ledger.
LEMMA RecoveryStutters ==
    ASSUME WalletInv, RecoverReservations
    PROVE  UNCHANGED Ledger!ledgerVars
<1>1. TypeOK
  BY DEF WalletInv, Bookkeeping
<1>2. ChargeOf' = ChargeOf
  BY <1>1, RecoverRowFields DEF ChargeOf, Charge
<1>3. PhaseOf' = PhaseOf
  BY <1>1, RecoverRowFields DEF PhaseOf, Unsettled
<1>4. GrantedOf' = GrantedOf
  BY DEF RecoverReservations, GrantedOf
<1> QED
  BY <1>2, <1>3, <1>4 DEF Ledger!ledgerVars, GrantedOf, ChargeOf, PhaseOf

\* The wallet implements the abstract prepaid ledger.
THEOREM Refinement == Spec => ImplementsLedger
<1>1. Init => Ledger!Init
  BY DEF Init, Ledger!Init, Charge
<1>2. ASSUME WalletInv, [Next]_vars
      PROVE  [Ledger!Next]_(Ledger!ledgerVars)
  <2>1. \/ UNCHANGED resv
        \/ RecoverReservations
        \/ \E c \in Calls : ReserveInsert(c)
        \/ \E c \in Calls : (Complete(c) \/ Release(c)) /\ UNCHANGED account
    BY <1>2, Zenon DEF Next, Internal, CallStep, Expire, Provision, SetStatus, Deposit, vars,
         ReserveQuote, ReserveLock, ReserveCheck, ReserveFail, ProviderAnswers, ProviderFails,
         SettleExhausted, Crash, SettleAttempt, ReleaseAttempt
  <2> QED
    BY <1>2, <2>1, FundingSteps, RecoveryStutters, InsertAuthorises, SettlementCloses
<1> QED
  BY <1>1, <1>2, WalletInvariant, PTL DEF Spec, ImplementsLedger, Ledger!Spec
=============================================================================
