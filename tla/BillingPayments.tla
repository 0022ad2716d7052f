-------------------------- MODULE BillingPayments --------------------------
(***************************************************************************)
(* Top-up orders of internal/billing/payment.go: an order is created under *)
(* the account row lock, paid at the payment provider, and credited by     *)
(* ApplyPayment, which is fed by notifications (lost, repeated, reordered) *)
(* and by checkers that query the provider: the maintenance pass of each   *)
(* replica and the browser polling an order.                               *)
(*                                                                         *)
(* One workspace.  An order has the id of the request that created it.     *)
(* Confirmations that name a wrong order, amount or trade are rejected by  *)
(* ApplyPayment and are left out; the merchant of a confirmation is kept,  *)
(* because the deployment may switch merchants while orders are open.      *)
(***************************************************************************)
EXTENDS Naturals, Sequences, FiniteSets

CONSTANTS
    Requests,        \* POST /billing/payments requests, a retry being another one
    RequestKey,      \* idempotency key of each request
    RequestAmount,   \* amount_fen of each request
    Replicas,        \* maintenance passes of the service's processes
    Browsers,        \* browsers that poll an order
    MaxPending,      \* open orders per workspace (5 in the code)
    BatchSize,       \* orders per reconciliation pass (20 in the code)
    Merchants,       \* merchant configurations the deployment goes through
    FirstMerchant,
    NoOne

ASSUME PaymentsAssumption ==
    /\ IsFiniteSet(Requests)
    /\ MaxPending \in Nat \ {0}
    /\ BatchSize \in Nat \ {0}
    /\ FirstMerchant \in Merchants
    /\ NoOne \notin Requests

VARIABLES
    merchant,   \* the configured app and seller ids
    holder,     \* the CreatePayment transaction that holds the account row
    req,        \* stage and answer of every request
    order,      \* billing_payment_orders
    dueQueue,   \* orders whose next_check_at has passed, oldest first
    credits,    \* how often an order's amount was added to the account
    trade,      \* the provider's trade of each order
    notices,    \* notifications the provider has sent
    checker     \* what every checker is doing

vars == <<merchant, holder, req, order, dueQueue, credits, trade,
          notices, checker>>
orderVars == <<order, dueQueue, credits>>
externalVars == <<merchant, trade, notices>>

Checkers == Replicas \cup Browsers

Stages == {"idle", "locked", "insert", "done", "refused"}
OrderStatus == {"none", "pending", "paid", "closed"}
TradeStatus == {"none", "waiting", "success", "finished", "refunded", "timedout"}
Reports == {"WAIT_BUYER_PAY", "TRADE_SUCCESS", "TRADE_FINISHED", "TRADE_CLOSED"}
Idle == [stage |-> "idle", todo |-> <<>>, seen |-> "WAIT_BUYER_PAY"]

TypeOK ==
    /\ merchant \in Merchants
    /\ holder \in Requests \cup {NoOne}
    /\ req \in [Requests -> [stage: Stages, answer: Requests \cup {NoOne}]]
    /\ order \in [Requests -> [status: OrderStatus, expired: BOOLEAN,
                               merchant: Merchants, link: BOOLEAN]]
    /\ dueQueue \in Seq(Requests)
    /\ \A i, j \in DOMAIN dueQueue : dueQueue[i] = dueQueue[j] => i = j
    /\ credits \in [Requests -> 0..2]
    /\ trade \in [Requests -> TradeStatus]
    /\ notices \subseteq Requests \X Reports
    /\ checker \in [Checkers -> [stage: {"idle", "claim", "query", "apply"},
                                 todo: Seq(Requests), seen: Reports]]

Init ==
    /\ merchant = FirstMerchant
    /\ holder = NoOne
    /\ req = [r \in Requests |-> [stage |-> "idle", answer |-> NoOne]]
    /\ order = [r \in Requests |-> [status |-> "none", expired |-> FALSE,
                                    merchant |-> FirstMerchant, link |-> FALSE]]
    /\ dueQueue = <<>>
    /\ credits = [r \in Requests |-> 0]
    /\ trade = [r \in Requests |-> "none"]
    /\ notices = {}
    /\ checker = [k \in Checkers |-> Idle]

-----------------------------------------------------------------------------
(* CreatePayment.                                                          *)

Exists(o) == order[o].status # "none"
SameKey(r) == {o \in Requests : Exists(o) /\ RequestKey[o] = RequestKey[r]}
OpenOrders == {o \in Requests : order[o].status = "pending" /\ ~order[o].expired}

AccountFreeUnlocked == TRUE
AccountFree == holder = NoOne

\* The SELECT ... FOR UPDATE that opens the transaction.
CreateLock(r) ==
    /\ req[r].stage = "idle"
    /\ AccountFree
    /\ holder' = r
    /\ req' = [req EXCEPT ![r].stage = "locked"]
    /\ UNCHANGED <<orderVars, externalVars, checker>>

\* A checkout link is issued for an open order of the configured merchant;
\* for an order of another merchant the request fails.
Answer(r, o) ==
    LET open == order[o].status = "pending" /\ ~order[o].expired
        refused == open /\ order[o].merchant # merchant
    IN  /\ req' = [req EXCEPT ![r] =
                     [stage |-> IF refused THEN "refused" ELSE "done", answer |-> o]]
        /\ order' = [order EXCEPT ![o].link = @ \/ (open /\ ~refused)]

SameAmountUnchecked(r, o) == TRUE
SameAmount(r, o) == RequestAmount[o] = RequestAmount[r]

BelowCap == Cardinality(OpenOrders) < MaxPending

\* The order already made under this key is answered if the amount is the
\* same; a new one must respect the cap on open orders.  Any request may be
\* refused, operators suspend accounts at any time.
CreateRead(r) ==
    /\ req[r].stage = "locked"
    /\ \/ /\ \E o \in SameKey(r) : SameAmount(r, o) /\ Answer(r, o)
          /\ holder' = NoOne
       \/ /\ SameKey(r) = {}
          /\ BelowCap
          /\ req' = [req EXCEPT ![r].stage = "insert"]
          /\ UNCHANGED <<order, holder>>
       \/ /\ req' = [req EXCEPT ![r].stage = "refused"]
          /\ holder' = NoOne
          /\ UNCHANGED order
    /\ UNCHANGED <<dueQueue, credits, externalVars, checker>>

\* The unique index on (tenant, key) refuses a second order; then COMMIT.
CreateInsert(r) ==
    /\ req[r].stage = "insert"
    /\ holder' = NoOne
    /\ IF SameKey(r) = {}
       THEN /\ order' = [order EXCEPT ![r] =
                  [status |-> "pending", expired |-> FALSE, merchant |-> merchant,
                   link |-> TRUE]]
            /\ req' = [req EXCEPT ![r] = [stage |-> "done", answer |-> r]]
       ELSE /\ req' = [req EXCEPT ![r].stage = "refused"]
            /\ UNCHANGED order
    /\ UNCHANGED <<dueQueue, credits, externalVars, checker>>

\* Connection lost, process killed: the transaction is rolled back.
CreateAborts(r) ==
    /\ req[r].stage \in {"locked", "insert"}
    /\ holder' = IF holder = r THEN NoOne ELSE holder
    /\ req' = [req EXCEPT ![r].stage = "refused"]
    /\ UNCHANGED <<orderVars, externalVars, checker>>

-----------------------------------------------------------------------------
(* The provider, external to src/: AlipayClient only signs and verifies.   *)

Report(s) ==
    CASE s = "success" -> "TRADE_SUCCESS"
      [] s = "finished" -> "TRADE_FINISHED"
      [] s \in {"refunded", "timedout"} -> "TRADE_CLOSED"
      [] OTHER -> "WAIT_BUYER_PAY"

\* The buyer opens the link, pays before the checkout expires, lets it time
\* out, or is refunded; a paid trade ends when the refund period is over.
TradeMoves(from, o) ==
    CASE from = "none" -> IF order[o].link /\ ~order[o].expired THEN {"waiting"} ELSE {}
      [] from = "waiting" -> IF order[o].expired THEN {"timedout"} ELSE {"success", "timedout"}
      [] from = "success" -> {"finished", "refunded"}
      [] OTHER -> {}

Trade(o) ==
    \E s \in TradeMoves(trade[o], o) :
        /\ trade' = [trade EXCEPT ![o] = s]
        /\ notices' = notices \cup ({<<o, Report(s)>>} \ {<<o, "WAIT_BUYER_PAY">>})
        /\ UNCHANGED <<merchant, holder, req, orderVars, checker>>

-----------------------------------------------------------------------------
(* ApplyPayment, one transaction under the order row's lock.               *)

AlreadyPaidForgotten(o) == FALSE
AlreadyPaid(o) == order[o].status = "paid"
SucceededUnfinished(seen) == seen = "TRADE_SUCCESS"
Succeeded(seen) == seen \in {"TRADE_SUCCESS", "TRADE_FINISHED"}

ApplyPayment(o, seen) ==
    \/ /\ ~AlreadyPaid(o)
       /\ Succeeded(seen)
       /\ AccountFree
       /\ order' = [order EXCEPT ![o].status = "paid"]
       /\ credits' = [credits EXCEPT ![o] = @ + 1]
    \/ /\ ~AlreadyPaid(o)
       /\ seen = "TRADE_CLOSED"
       /\ order' = [order EXCEPT ![o].status = "closed"]
       /\ UNCHANGED credits
    \/ /\ AlreadyPaid(o) \/ seen = "WAIT_BUYER_PAY"
       /\ UNCHANGED <<order, credits>>

\* POST .../alipay/notify: VerifyNotification accepts only the configured
\* merchant.  The notification may come again.
Notify(o, seen) ==
    /\ <<o, seen>> \in notices
    /\ order[o].merchant = merchant
    /\ ApplyPayment(o, seen)
    /\ UNCHANGED <<holder, req, dueQueue, externalVars, checker>>

-----------------------------------------------------------------------------
(* ReconcilePayments, PaymentOrder and checkPayment.                       *)

IsPending(o) == order[o].status = "pending"
Due(o) == \E i \in DOMAIN dueQueue : dueQueue[i] = o
DuePending == {o \in Requests : IsPending(o) /\ Due(o)}
Before(o, p) ==
    \E i, j \in DOMAIN dueQueue : i < j /\ dueQueue[i] = o /\ dueQueue[j] = p

\* The first BatchSize due orders, by next_check_at.
Batches ==
    {b \in UNION {[1..n -> DuePending] : n \in 1..BatchSize} :
        /\ \A i, j \in DOMAIN b : i < j => Before(b[i], b[j])
        /\ \A o \in DuePending :
              \/ \E i \in DOMAIN b : b[i] = o
              \/ Len(b) = BatchSize /\ \A i \in DOMAIN b : Before(b[i], o)}

ReconcilePayments(k) ==
    /\ checker[k].stage = "idle"
    /\ \E b \in Batches : checker' = [checker EXCEPT ![k].stage = "claim", ![k].todo = b]
    /\ UNCHANGED <<holder, req, orderVars, externalVars>>

\* A browser asks for a pending order.
PaymentOrder(k, o) ==
    /\ checker[k].stage = "idle"
    /\ IsPending(o)
    /\ checker' = [checker EXCEPT ![k].stage = "claim", ![k].todo = <<o>>]
    /\ UNCHANGED <<holder, req, orderVars, externalVars>>

\* The checker is done with its first order.
NextOrder(k) ==
    checker' = [checker EXCEPT ![k] =
                  IF Len(@.todo) = 1 THEN Idle
                  ELSE [Idle EXCEPT !.stage = "claim", !.todo = Tail(checker[k].todo)]]

Claimable(o) == IsPending(o) /\ Due(o)

\* The conditional UPDATE that moves next_check_at on: one checker per order
\* and window.  An order of another merchant is skipped before it.
Claim(k) ==
    LET o == checker[k].todo[1]
    IN  /\ checker[k].stage = "claim"
        /\ IF order[o].merchant = merchant /\ Claimable(o)
           THEN /\ \E i \in DOMAIN dueQueue :
                     /\ dueQueue[i] = o
                     /\ dueQueue' = SubSeq(dueQueue, 1, i - 1)
                                     \o SubSeq(dueQueue, i + 1, Len(dueQueue))
                /\ checker' = [checker EXCEPT ![k].stage = "query"]
           ELSE /\ NextOrder(k)
                /\ UNCHANGED dueQueue
        /\ UNCHANGED <<holder, req, order, credits, externalVars>>

\* The provider answers with the trade as it is now.
QueryAnswers(k) ==
    LET o == checker[k].todo[1]
    IN  /\ checker[k].stage = "query"
        /\ trade[o] # "none"
        /\ checker' = [checker EXCEPT ![k].stage = "apply", ![k].seen = Report(trade[o])]
        /\ UNCHANGED <<holder, req, orderVars, externalVars>>

\* Timeout, bad signature, unknown trade: kept in last_error.
QueryFails(k) ==
    /\ checker[k].stage = "query"
    /\ NextOrder(k)
    /\ UNCHANGED <<holder, req, orderVars, externalVars>>

CheckApplies(k) ==
    /\ checker[k].stage = "apply"
    /\ ApplyPayment(checker[k].todo[1], checker[k].seen)
    /\ NextOrder(k)
    /\ UNCHANGED <<holder, req, dueQueue, externalVars>>

\* The process dies at any point, or ApplyPayment fails and rolls back.
CheckerDies(k) ==
    /\ checker[k].stage # "idle"
    /\ checker' = [checker EXCEPT ![k] = Idle]
    /\ UNCHANGED <<holder, req, orderVars, externalVars>>

-----------------------------------------------------------------------------
(* Time and administration.                                                *)

\* next_check_at passes.  A query is cut off after 10 s, well within the
\* minute (or hour) its claim moved next_check_at on.
BecomesDue(o) ==
    /\ IsPending(o)
    /\ ~Due(o)
    /\ \A k \in Checkers : checker[k].stage = "query" => checker[k].todo[1] # o
    /\ dueQueue' = Append(dueQueue, o)
    /\ UNCHANGED <<holder, req, order, credits, externalVars, checker>>

Expires(o) ==
    /\ IsPending(o)
    /\ ~order[o].expired
    /\ order' = [order EXCEPT ![o].expired = TRUE]
    /\ UNCHANGED <<holder, req, dueQueue, credits, externalVars, checker>>

\* A restart with another merchant: nothing is in flight across it.
ChangeMerchant(m) ==
    /\ m # merchant
    /\ merchant' = m
    /\ checker' = [k \in Checkers |-> Idle]
    /\ holder' = NoOne
    /\ req' = [r \in Requests |->
                 IF req[r].stage \in {"locked", "insert"}
                 THEN [req[r] EXCEPT !.stage = "refused"] ELSE req[r]]
    /\ UNCHANGED <<trade, notices, orderVars>>

Check(k) ==
    \/ Claim(k) \/ QueryAnswers(k) \/ QueryFails(k) \/ CheckApplies(k) \/ CheckerDies(k)
    \/ k \in Replicas /\ ReconcilePayments(k)
    \/ k \in Browsers /\ \E o \in Requests : PaymentOrder(k, o)

Next ==
    \/ \E r \in Requests :
         \/ CreateLock(r) \/ CreateRead(r) \/ CreateInsert(r) \/ CreateAborts(r)
         \/ Trade(r) \/ BecomesDue(r) \/ Expires(r)
         \/ \E seen \in Reports : Notify(r, seen)
    \/ \E k \in Checkers : Check(k)
    \/ \E m \in Merchants : ChangeMerchant(m)

Spec == Init /\ [][Next]_vars

Handles(k, o) == checker[k].stage # "idle" /\ checker[k].todo[1] = o

\* The maintenance ticker never stops, time passes, transactions end; a pass
\* is not killed at the same order every time, and the provider answers some
\* of the queries about each order.  No notification and no browser is needed.
Fairness ==
    /\ \A r \in Requests : /\ WF_vars(BecomesDue(r))
                           /\ WF_vars(CreateRead(r) \/ CreateInsert(r))
    /\ \A k \in Replicas :
         /\ WF_vars(ReconcilePayments(k))
         /\ \A o \in Requests :
              /\ SF_vars(Handles(k, o) /\ Claim(k))
              /\ WF_vars(Handles(k, o) /\ (QueryAnswers(k) \/ QueryFails(k)))
              /\ SF_vars(Handles(k, o) /\ QueryAnswers(k))
              /\ SF_vars(Handles(k, o) /\ CheckApplies(k))
FairSpec == Spec /\ Fairness

-----------------------------------------------------------------------------
(* Properties.                                                             *)

\* The account is credited once for every paid order and never for another,
\* however often and from however many sides the payment is confirmed.
PaidIffCredited ==
    \A o \in Requests : credits[o] = IF order[o].status = "paid" THEN 1 ELSE 0

\* Money is only credited for a trade the buyer really paid (a refund may
\* have followed).
CreditsArePaidFor ==
    \A o \in Requests :
        credits[o] > 0 => trade[o] \in {"success", "finished", "refunded"}

\* A key stands for one order of one amount: a repeated request is answered
\* with the order of the first, and a request is never answered with an order
\* of another amount.
KeyNamesOneOrder ==
    \A r \in Requests :
        req[r].stage = "done" =>
            LET o == req[r].answer
            IN  /\ Exists(o)
                /\ RequestAmount[o] = RequestAmount[r]
                /\ SameKey(r) = {o}

\* The claim of checkPayment: however many replicas and browsers look at an
\* order, one of them at a time asks the provider about it (the time limit of a
\* query is part of the argument: it ends before its claim does).
OneQueryPerOrder ==
    \A k, l \in Checkers :
        /\ checker[k].stage = "query" /\ checker[l].stage = "query"
        /\ checker[k].todo[1] = checker[l].todo[1]
        => k = l

\* Concurrent requests never open more orders than the cap.
PendingCap == Cardinality(OpenOrders) <= MaxPending

\* A paid order stays paid: late closings, e.g. of a refund, do not revert it.
PaidIsFinal ==
    [][\A o \in Requests : order[o].status = "paid" => order'[o].status = "paid"]_vars

\* A payment is credited in the end even if every notification is lost
\* (docs/BILLING.md: lost notifications are made up for by checking pending
\* orders every minute).
PaymentsAreCredited ==
    \A o \in Requests :
        trade[o] = "success" /\ order[o].merchant = merchant
            ~> \/ order[o].status = "paid"
               \/ trade[o] = "refunded"
               \/ order[o].merchant # merchant

\* The orders implement the abstract top-up: one order per key within the cap,
\* credited once and only if paid, closed only if nobody will pay any more.
TopUp(o) ==
    IF o.status = "pending" THEN IF o.expired THEN "lapsed" ELSE "open" ELSE o.status
Bank(t) ==
    CASE t \in {"success", "finished"} -> "paid"
      [] t = "refunded" -> "returned"
      [] t = "timedout" -> "void"
      [] OTHER -> "unpaid"
Told(r) == IF r.stage = "done" THEN r.answer ELSE NoOne
Abstract == INSTANCE TopUps WITH
    Orders <- Requests, KeyOf <- RequestKey, AmountOf <- RequestAmount,
    MaxOpen <- MaxPending, NoAnswer <- NoOne,
    top <- [o \in Requests |-> TopUp(order[o])],
    bank <- [o \in Requests |-> Bank(trade[o])],
    credited <- credits,
    answer <- [r \in Requests |-> Told(req[r])]
ImplementsTopUps == Abstract!Spec
=============================================================================
