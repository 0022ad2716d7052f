--------------------------- MODULE BillingWallet ---------------------------
(***************************************************************************)
(* The prepaid wallet of internal/billing/service.go and the metering      *)
(* wrappers that drive it (internal/models/chat/meterforge_wrapper.go).    *)
(*                                                                         *)
(* A model call reserves its worst-case cost before the provider is        *)
(* called, settles the real cost afterwards, or releases the reservation.  *)
(* The database is the only shared state: one account row per workspace    *)
(* and one reservation row per call.  Reserve is a transaction that holds  *)
(* the account row FOR UPDATE while it sums the reservations, so it is     *)
(* three steps here; Complete, Release and RecoverReservations are single  *)
(* statements or transactions that do NOT take the account lock, and may   *)
(* run between any two of those steps.                                     *)
(*                                                                         *)
(* Money is counted in the ledger's smallest unit (1e-8 USD), so a cost is *)
(* a natural number and the 1e-9 tolerance of the code's test vanishes.    *)
(***************************************************************************)
EXTENDS Naturals, FiniteSets

CONSTANTS
    Tenants,            \* workspaces
    Calls,              \* model calls; a call's reservation has the call's id
    CallTenant,         \* the workspace of each call's context
    Chargeable,         \* mode.Chargeable() of each call's model
    MaxCost,            \* bound: largest reserved cost
    MaxUsage,           \* bound: largest usage a provider reports
    MaxGranted,         \* bound: largest credit a workspace is ever granted
    Welcome,            \* config.WelcomeCreditUSD
    MaxSettleTries,     \* attempts of completeStream (3 in the code)
    MeterForgeEnabled,  \* config.MeterForgeEnabled
    NoCall              \* nobody holds a row lock

ASSUME WalletAssumption ==
    /\ IsFiniteSet(Calls)
    /\ CallTenant \in [Calls -> Tenants]
    /\ Chargeable \in [Calls -> BOOLEAN]
    /\ MaxCost \in Nat
    /\ MaxUsage \in Nat
    /\ MaxGranted \in Nat
    /\ Welcome \in 0..MaxGranted
    /\ MaxSettleTries \in Nat \ {0}
    /\ MeterForgeEnabled \in BOOLEAN
    /\ NoCall \notin Calls

VARIABLES
    account,   \* billing_accounts: granted credit and status per workspace
    rowLock,   \* which call's transaction holds the account row
    resv,      \* billing_reservations, one row per call
    expired,   \* calls whose reservation is older than ReservationTTL
    outbox,    \* billing_outbox: cost in the event of each call, if any
    pc,        \* where each call is in the metering wrapper
    quote,     \* the cost Reserve computed for the call
    usage,     \* what the provider reported
    tries      \* attempts completeStream has made

vars == <<account, rowLock, resv, expired, outbox, pc, quote, usage, tries>>
dbVars == <<account, rowLock, resv, expired, outbox>>
callVars == <<pc, quote, usage, tries>>

AccountStatus == {"none", "active", "suspended"}
ResvStatus == {"none", "reserved", "completed", "recovered", "released"}
Stages == {"start", "provisioned", "locked", "authorised", "calling",
           "settling", "releasing", "done", "refused", "crashed"}
NoEvent == MaxCost + 1       \* no outbox row for this call
Rows == [status: ResvStatus, reserved: 0..MaxCost, actual: 0..MaxCost]
Accounts == [granted: 0..MaxGranted, status: AccountStatus]

TypeOK ==
    /\ account \in [Tenants -> Accounts]
    /\ rowLock \in [Tenants -> Calls \cup {NoCall}]
    /\ resv \in [Calls -> Rows]
    /\ expired \in SUBSET Calls
    /\ outbox \in [Calls -> 0..NoEvent]
    /\ pc \in [Calls -> Stages]
    /\ quote \in [Calls -> 0..MaxCost]
    /\ usage \in [Calls -> 0..MaxUsage]
    /\ tries \in [Calls -> 0..MaxSettleTries]

Init ==
    /\ account = [t \in Tenants |-> [granted |-> 0, status |-> "none"]]
    /\ rowLock = [t \in Tenants |-> NoCall]
    /\ resv = [c \in Calls |-> [status |-> "none", reserved |-> 0, actual |-> 0]]
    /\ expired = {}
    /\ outbox = [c \in Calls |-> NoEvent]
    /\ pc = [c \in Calls |-> "start"]
    /\ quote = [c \in Calls |-> 0]
    /\ usage = [c \in Calls |-> 0]
    /\ tries = [c \in Calls |-> 0]

-----------------------------------------------------------------------------
(* What the ledger charges.                                                *)

\* The CASE of the balance query: a hold counts at its reserved cost, a
\* settled or provisionally settled call at its actual cost.
Charge(c) ==
    IF ~Chargeable[c] THEN 0
    ELSE IF resv[c].status = "reserved" THEN resv[c].reserved
    ELSE IF resv[c].status \in {"completed", "recovered"} THEN resv[c].actual
    ELSE 0

\* SUM(...) WHERE tenant_id = t: the number of (row, unit of money) pairs,
\* which is the sum of the rows' charges and needs no recursion.
Units(t) ==
    {p \in Calls \X (1..MaxCost) : CallTenant[p[1]] = t /\ p[2] <= Charge(p[1])}
Spent(t) == Cardinality(Units(t))

Unsettled(c) == resv[c].status \in {"reserved", "recovered"}

RowFreeUnlocked(t) == TRUE
RowFree(t) == rowLock[t] = NoCall

\* Ending the transaction of call c gives the account row back.
Unlock(c) ==
    rowLock' = [t \in Tenants |-> IF rowLock[t] = c THEN NoCall ELSE rowLock[t]]

-----------------------------------------------------------------------------
(* Reserve.                                                                *)

\* INSERT ... ON CONFLICT DO NOTHING: an existing account keeps its money.
ProvisionTenant(t) ==
    IF account[t].status = "none"
    THEN account' = [account EXCEPT ![t] = [granted |-> Welcome, status |-> "active"]]
    ELSE UNCHANGED account

\* Reserve up to its transaction: provision the account, resolve the price.
ReserveQuote(c) ==
    /\ pc[c] = "start"
    /\ ProvisionTenant(CallTenant[c])
    /\ \E cost \in 0..(IF Chargeable[c] THEN MaxCost ELSE 0) :
           quote' = [quote EXCEPT ![c] = cost]
    /\ pc' = [pc EXCEPT ![c] = "provisioned"]
    /\ UNCHANGED <<rowLock, resv, expired, outbox, usage, tries>>

\* SELECT ... FOR UPDATE on the account row.
ReserveLock(c) ==
    /\ pc[c] = "provisioned"
    /\ RowFree(CallTenant[c])
    /\ rowLock' = [rowLock EXCEPT ![CallTenant[c]] = c]
    /\ pc' = [pc EXCEPT ![c] = "locked"]
    /\ UNCHANGED <<account, resv, expired, outbox, quote, usage, tries>>

\* The wallet covers the quote on top of everything already charged or held.
Covers(c) ==
    Spent(CallTenant[c]) + quote[c] <= account[CallTenant[c]].granted

\* Suspension and balance are tested for chargeable calls only.
ReserveCheck(c) ==
    /\ pc[c] = "locked"
    /\ IF Chargeable[c] => account[CallTenant[c]].status # "suspended" /\ Covers(c)
       THEN /\ pc' = [pc EXCEPT ![c] = "authorised"]
            /\ UNCHANGED rowLock
       ELSE /\ pc' = [pc EXCEPT ![c] = "refused"]
            /\ Unlock(c)
    /\ UNCHANGED <<account, resv, expired, outbox, quote, usage, tries>>

\* tx.Create and COMMIT: the hold becomes visible and the lock is given back.
ReserveInsert(c) ==
    /\ pc[c] = "authorised"
    /\ resv' = [resv EXCEPT ![c] =
                  [status |-> "reserved", reserved |-> quote[c], actual |-> 0]]
    /\ pc' = [pc EXCEPT ![c] = "calling"]
    /\ Unlock(c)
    /\ UNCHANGED <<account, expired, outbox, quote, usage, tries>>

\* A database error before the commit: rollback, the call is refused.
ReserveFail(c) ==
    /\ pc[c] \in {"start", "provisioned", "locked", "authorised"}
    /\ pc' = [pc EXCEPT ![c] = "refused"]
    /\ Unlock(c)
    /\ UNCHANGED <<account, resv, expired, outbox, quote, usage, tries>>

-----------------------------------------------------------------------------
(* The provider answers; the wrapper settles or releases.                  *)

ProviderAnswers(c) ==
    /\ pc[c] = "calling"
    /\ \E u \in 0..MaxUsage : usage' = [usage EXCEPT ![c] = u]
    /\ pc' = [pc EXCEPT ![c] = "settling"]
    /\ UNCHANGED <<account, rowLock, resv, expired, outbox, quote, tries>>

ProviderFails(c) ==
    /\ pc[c] = "calling"
    /\ pc' = [pc EXCEPT ![c] = "releasing"]
    /\ UNCHANGED <<account, rowLock, resv, expired, outbox, quote, usage, tries>>

\* math.Min(actual*UnitPrice, ReservedCost): never above the authorised cost.
SettledCostUncapped(c) == IF usage[c] <= MaxCost THEN usage[c] ELSE MaxCost
SettledCost(c) ==
    IF usage[c] <= resv[c].reserved THEN usage[c] ELSE resv[c].reserved

\* UPDATE ... WHERE status IN ('reserved','recovered'); the actual columns of
\* a row that was already recovered are left as they are.
Release(c) ==
    IF Unsettled(c)
    THEN resv' = [resv EXCEPT ![c].status = "released"]
    ELSE UNCHANGED resv

\* Complete: no usage is a release; otherwise settle an unsettled row and
\* write its telemetry event in the same transaction.
CompleteWithoutEvent(c) ==
    /\ IF usage[c] = 0 THEN Release(c)
       ELSE IF Unsettled(c)
       THEN resv' = [resv EXCEPT ![c].status = "completed", ![c].actual = SettledCost(c)]
       ELSE UNCHANGED resv
    /\ UNCHANGED outbox
Complete(c) ==
    \/ /\ usage[c] = 0
       /\ Release(c)
       /\ UNCHANGED outbox
    \/ /\ usage[c] > 0
       /\ Unsettled(c)
       /\ resv' = [resv EXCEPT ![c].status = "completed", ![c].actual = SettledCost(c)]
       /\ outbox' = IF MeterForgeEnabled
                    THEN [outbox EXCEPT ![c] = SettledCost(c)] ELSE outbox
    \/ /\ usage[c] > 0
       /\ ~Unsettled(c)
       /\ UNCHANGED <<resv, outbox>>

TriesLeft(c) == tries[c] < MaxSettleTries

\* One attempt of completeStream (a unary call gives up after its first).
\* The transaction may commit or fail, and a commit may be acknowledged or
\* look like an error; an error is retried, or given up on when the context
\* ends.
SettleAttempt(c) ==
    /\ pc[c] = "settling"
    /\ TriesLeft(c)
    /\ tries' = [tries EXCEPT ![c] = @ + 1]
    /\ Complete(c) \/ UNCHANGED <<resv, outbox>>
    /\ pc' \in {pc, [pc EXCEPT ![c] = "done"]}
    /\ UNCHANGED <<account, rowLock, expired, quote, usage>>

\* The loop ran out of attempts: "durable reservation retained for recovery".
SettleExhausted(c) ==
    /\ pc[c] = "settling"
    /\ tries[c] = MaxSettleTries
    /\ pc' = [pc EXCEPT ![c] = "done"]
    /\ UNCHANGED <<account, rowLock, resv, expired, outbox, quote, usage, tries>>

\* The error of this Release is discarded, whether or not it took effect.
ReleaseAttempt(c) ==
    /\ pc[c] = "releasing"
    /\ Release(c) \/ UNCHANGED resv
    /\ pc' = [pc EXCEPT ![c] = "done"]
    /\ UNCHANGED <<account, rowLock, expired, outbox, quote, usage, tries>>

\* The process dies: an open transaction is rolled back, rows stay.
Crash(c) ==
    /\ pc[c] \notin {"done", "refused", "crashed"}
    /\ pc' = [pc EXCEPT ![c] = "crashed"]
    /\ Unlock(c)
    /\ UNCHANGED <<account, resv, expired, outbox, quote, usage, tries>>

-----------------------------------------------------------------------------
(* Maintenance, funding and administration.                                *)

\* A hold becomes older than ReservationTTL (the age of a settled row is never
\* looked at).
Expire(c) ==
    /\ resv[c].status = "reserved"
    /\ c \notin expired
    /\ expired' = expired \cup {c}
    /\ UNCHANGED <<account, rowLock, resv, outbox, callVars>>

\* One UPDATE over every stale hold.
RecoverAsReleased(r) == [r EXCEPT !.status = "released"]
RecoverRow(r) == [r EXCEPT !.status = "recovered", !.actual = r.reserved]

StaleHoldsInverted == {c \in Calls : resv[c].status = "reserved" /\ c \notin expired}
StaleHolds == {c \in Calls : resv[c].status = "reserved" /\ c \in expired}
RecoverReservations ==
    /\ StaleHolds # {}
    /\ resv' = [c \in Calls |-> IF c \in StaleHolds THEN RecoverRow(resv[c]) ELSE resv[c]]
    /\ UNCHANGED <<account, rowLock, expired, outbox, callVars>>

\* The maintenance pass and tenant creation provision accounts on their own.
Provision(t) ==
    /\ account[t].status = "none"
    /\ ProvisionTenant(t)
    /\ UNCHANGED <<rowLock, resv, expired, outbox, callVars>>

\* The credit entry of ApplyPayment: an UPDATE of the account row, which
\* waits for its lock.
Deposit(t, amount) ==
    /\ account[t].status # "none"
    /\ RowFree(t)
    /\ account[t].granted + amount <= MaxGranted
    /\ account' = [account EXCEPT ![t].granted = @ + amount]
    /\ UNCHANGED <<rowLock, resv, expired, outbox, callVars>>

\* Operators suspend or reactivate a workspace in the database.
SetStatus(t, status) ==
    /\ account[t].status # "none"
    /\ RowFree(t)
    /\ account[t].status # status
    /\ account' = [account EXCEPT ![t].status = status]
    /\ UNCHANGED <<rowLock, resv, expired, outbox, callVars>>

CallStep(c) ==
    \/ ReserveQuote(c) \/ ReserveLock(c) \/ ReserveCheck(c) \/ ReserveInsert(c)
    \/ ReserveFail(c) \/ ProviderAnswers(c) \/ ProviderFails(c)
    \/ SettleAttempt(c) \/ SettleExhausted(c) \/ ReleaseAttempt(c) \/ Crash(c)

\* Everything but the credit entry, which BillingPayments drives.
Internal ==
    \/ \E c \in Calls : CallStep(c) \/ Expire(c)
    \/ RecoverReservations
    \/ \E t \in Tenants : Provision(t)
    \/ \E t \in Tenants, s \in {"active", "suspended"} : SetStatus(t, s)

Next ==
    \/ Internal
    \/ \E t \in Tenants, a \in 1..MaxGranted : Deposit(t, a)

Spec == Init /\ [][Next]_vars

\* The maintenance goroutine ticks every minute for as long as the service
\* runs, and time passes: nothing else has to be fair.
MaintenanceFairness ==
    /\ \A c \in Calls : WF_vars(Expire(c))
    /\ WF_vars(RecoverReservations)

FairSpec == Spec /\ MaintenanceFairness

-----------------------------------------------------------------------------
(* Properties.                                                             *)

\* Concurrent calls never spend more than a workspace was granted, holds and
\* provisional settlements included (Reserve, service.go:150-174: the sum is
\* read and the hold inserted in different statements, kept apart from other
\* reservations only by the account row lock).
Solvent == \A t \in Tenants : Spent(t) <= account[t].granted

\* Once authorised, a call can only become cheaper: no settlement, recovery or
\* late correction charges more than the row charged before.
NeverChargedMore ==
    [][\A c \in Calls : resv[c].status # "none" => Charge(c)' <= Charge(c)]_vars

\* A completed or released reservation is final: retries of a settlement
\* whose acknowledgement was lost, late releases and the recovery pass leave
\* it alone.
SettlementIsFinal ==
    [][\A c \in Calls :
         resv[c].status \in {"completed", "released"} => resv'[c] = resv[c]]_vars

\* The telemetry event exists exactly for the completed calls, and carries the
\* cost the ledger charges, however often settlement was retried.
TelemetryMatchesLedger ==
    \A c \in Calls :
        outbox[c] = IF MeterForgeEnabled /\ resv[c].status = "completed"
                    THEN resv[c].actual ELSE NoEvent

\* A call that was never charged for is one that the provider was known not
\* to serve: a crash or a lost settlement after the hold was placed cannot
\* turn the hold into a free call (service.go:249 "A crashed call cannot be
\* proven free").
NoFreeCrash ==
    \A c \in Calls :
        resv[c].status = "released" =>
            \/ pc[c] \in {"releasing", "done"}
            \/ pc[c] \in {"settling", "crashed"} /\ usage[c] = 0

\* Every hold is resolved in the end, whatever became of its call: settled,
\* released, or provisionally settled by the recovery pass.
HoldsAreResolved ==
    \A c \in Calls : resv[c].status = "reserved" ~> resv[c].status # "reserved"

\* The wallet implements the abstract prepaid ledger: a provisional settlement
\* is an open charge, a completed or released one is closed.
Ledger == INSTANCE CreditLedger WITH
    Wallets <- Tenants, Charges <- Calls, Owner <- CallTenant, MaxCharge <- MaxCost,
    granted <- [t \in Tenants |-> account[t].granted],
    amount <- [c \in Calls |-> Charge(c)],
    phase <- [c \in Calls |->
                IF resv[c].status = "none" THEN "absent"
                ELSE IF Unsettled(c) THEN "open" ELSE "closed"]
ImplementsLedger == Ledger!Spec
=============================================================================
