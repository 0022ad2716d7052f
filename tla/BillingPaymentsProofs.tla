----------------------- MODULE BillingPaymentsProofs -----------------------
(***************************************************************************)
(* What BillingPayments guarantees for any requests, keys, amounts,        *)
(* checkers, merchants and limits.  PayInv carries the money: it holds     *)
(* whichever orders a checker takes up.  CheckInvs adds which these are.   *)
(***************************************************************************)
EXTENDS BillingPayments, FiniteSetTheorems, SequenceTheorems, TLAPS

PaidTrades == {"success", "finished", "refunded"}
OverTrades == {"refunded", "timedout"}
Backed(o, seen) ==
    /\ trade[o] # "none"
    /\ Succeeded(seen) => trade[o] \in PaidTrades
    /\ seen = "TRADE_CLOSED" => trade[o] \in OverTrades

Types ==
    /\ merchant \in Merchants
    /\ holder \in Requests \cup {NoOne}
    /\ req \in [Requests -> [stage: Stages, answer: Requests \cup {NoOne}]]
    /\ order \in [Requests -> [status: OrderStatus, expired: BOOLEAN,
                               merchant: Merchants, link: BOOLEAN]]
    /\ credits \in [Requests -> {0, 1}]
    /\ trade \in [Requests -> TradeStatus]
    /\ notices \subseteq Requests \X Reports
\* A request holds the account row from its lock to its commit.
LockHeld == \A r \in Requests : req[r].stage \in {"locked", "insert"} => holder = r
OneOrderPerKey ==
    \A o, p \in Requests :
        Exists(o) /\ Exists(p) /\ RequestKey[o] = RequestKey[p] => o = p
AnswersStand ==
    \A r \in Requests :
        req[r].stage = "done" =>
            /\ req[r].answer \in Requests /\ Exists(req[r].answer)
            /\ RequestAmount[req[r].answer] = RequestAmount[r]
            /\ RequestKey[req[r].answer] = RequestKey[r]
\* What was counted before the insert still holds at the insert.
RoomForOne == \A r \in Requests : req[r].stage = "insert" => BelowCap
TradesExist ==
    \A o \in Requests : order[o].link \/ trade[o] # "none" => Exists(o)
\* Notifications and answers of the provider may be old, never untrue.
NoticesBacked == \A o \in Requests, s \in Reports : <<o, s>> \in notices => Backed(o, s)
\* A checker, whatever orders it has taken up.
Shape(c) == c \in [stage: {"idle", "claim", "query", "apply"}, todo: {c.todo}, seen: Reports]
ChecksBacked ==
    /\ checker = [k \in Checkers |-> checker[k]]
    /\ \A k \in Checkers :
          /\ Shape(checker[k])
          /\ checker[k].stage = "apply" /\ checker[k].todo[1] \in Requests
                => Backed(checker[k].todo[1], checker[k].seen)

OrdersInv ==
    /\ Types /\ LockHeld /\ OneOrderPerKey /\ AnswersStand /\ RoomForOne /\ PendingCap
    /\ PaidIffCredited /\ CreditsArePaidFor /\ TradesExist /\ NoticesBacked
PayInv == OrdersInv /\ ChecksBacked

LEMMA OpenFinite ==
  /\ IsFiniteSet(OpenOrders)
  /\ Cardinality(OpenOrders) \in Nat
  BY PaymentsAssumption, FS_Subset, FS_CardinalityType DEF OpenOrders

\* Closing, paying and expiring only make room.
LEMMA RoomKept ==
  ASSUME OpenOrders' \subseteq OpenOrders
  PROVE  /\ PendingCap => PendingCap'
         /\ BelowCap => BelowCap'
<1>1. /\ Cardinality(OpenOrders') \in Nat
      /\ Cardinality(OpenOrders') <= Cardinality(OpenOrders)
  BY OpenFinite, FS_Subset, FS_CardinalityType
<1> QED  BY <1>1, OpenFinite, PaymentsAssumption DEF PendingCap, BelowCap

LEMMA InitInv == Init => PayInv
<1> SUFFICES ASSUME Init PROVE PayInv
  OBVIOUS
<1>1. Types
  BY PaymentsAssumption DEF Init, Types, Stages, OrderStatus, TradeStatus
<1>2. OpenOrders = {}
  BY DEF Init, OpenOrders
<1>3. PendingCap
  BY <1>2, FS_EmptySet, PaymentsAssumption DEF PendingCap
<1>4. ChecksBacked
  BY DEF Init, ChecksBacked, Shape, Idle, Reports
<1> QED
  BY <1>1, <1>3, <1>4
  DEF Init, PayInv, OrdersInv, LockHeld, OneOrderPerKey, AnswersStand, RoomForOne,
      PaidIffCredited, CreditsArePaidFor, TradesExist, NoticesBacked, Exists

-----------------------------------------------------------------------------
(* CreatePayment.                                                          *)

\* Nothing but the request and the account lock moves.
LEMMA RequestMoves ==
  ASSUME PayInv, NEW r \in Requests, NEW s \in {"locked", "insert", "refused"},
         req' = [req EXCEPT ![r].stage = s],
         holder' \in Requests \cup {NoOne},
         \A q \in Requests : req'[q].stage \in {"locked", "insert"} => holder' = q,
         s = "insert" => BelowCap,
         UNCHANGED <<orderVars, externalVars, checker>>
  PROVE  PayInv'
<1>1. Types'
  BY DEF PayInv, OrdersInv, Types, Stages, orderVars, externalVars
<1>2. LockHeld'
  BY DEF LockHeld
<1>3. AnswersStand'
  BY DEF PayInv, OrdersInv, Types, AnswersStand, Exists, orderVars
<1>4. RoomForOne'
  BY DEF PayInv, OrdersInv, Types, RoomForOne, BelowCap, OpenOrders, orderVars
<1>5. ChecksBacked'
  BY DEF PayInv, ChecksBacked, Shape, Backed, externalVars
<1>6. /\ OneOrderPerKey' /\ PendingCap' /\ PaidIffCredited'
      /\ CreditsArePaidFor' /\ TradesExist' /\ NoticesBacked'
  BY DEF PayInv, OrdersInv, OneOrderPerKey, PendingCap, OpenOrders, PaidIffCredited,
         CreditsArePaidFor, TradesExist, NoticesBacked, Backed, Exists, orderVars, externalVars
<1> QED  BY <1>1, <1>2, <1>3, <1>4, <1>5, <1>6 DEF PayInv, OrdersInv

LEMMA CreateLockInv ==
  ASSUME PayInv, NEW r \in Requests, CreateLock(r)
  PROVE  PayInv'
<1>1. \A q \in Requests : req'[q].stage \in {"locked", "insert"} => q = r
  BY PaymentsAssumption DEF CreateLock, AccountFree, PayInv, OrdersInv, LockHeld, Types
<1> QED
  BY <1>1, RequestMoves DEF CreateLock

LEMMA CreateAbortsInv ==
  ASSUME PayInv, NEW r \in Requests, CreateAborts(r)
  PROVE  PayInv'
<1>1. holder = r
  BY DEF CreateAborts, PayInv, OrdersInv, LockHeld
<1>2. \A q \in Requests : req'[q].stage \notin {"locked", "insert"}
  BY <1>1 DEF CreateAborts, PayInv, OrdersInv, LockHeld, Types
<1> QED
  BY <1>1, <1>2, RequestMoves DEF CreateAborts

LEMMA AnswerInv ==
  ASSUME PayInv, NEW r \in Requests, NEW o \in SameKey(r),
         req[r].stage = "locked", SameAmount(r, o), Answer(r, o), holder' = NoOne,
         UNCHANGED <<dueQueue, credits, externalVars, checker>>
  PROVE  PayInv'
<1>1. o \in Requests /\ Exists(o) /\ RequestKey[o] = RequestKey[r]
  BY DEF SameKey
<1>2. /\ Types
      /\ \A p \in Requests : /\ order'[p].status = order[p].status
                             /\ order'[p].expired = order[p].expired
                             /\ order'[p].link => Exists(p)
  BY <1>1 DEF PayInv, OrdersInv, Types, TradesExist, Answer
<1>3. Types'
  <2>1. /\ req' \in [Requests -> [stage: Stages, answer: Requests \cup {NoOne}]]
    BY <1>1, <1>2 DEF Types, Answer, Stages
  <2>2. order' \in [Requests -> [status: OrderStatus, expired: BOOLEAN,
                                merchant: Merchants, link: BOOLEAN]]
    <3>1. PICK b \in BOOLEAN : order' = [order EXCEPT ![o].link = b]
      BY <1>1, <1>2 DEF Types, Answer
    <3>2. order \in [Requests -> [status: OrderStatus, expired: BOOLEAN,
                                  merchant: Merchants, link: BOOLEAN]]
      BY <1>2 DEF Types
    <3> QED  BY <1>1, <3>1, <3>2
  <2> QED  BY <1>2, <2>1, <2>2 DEF Types, externalVars
<1>4. OpenOrders' = OpenOrders
  BY <1>2 DEF OpenOrders
<1>5. \A q \in Requests : /\ q # r => req'[q] = req[q] /\ holder # q
                          /\ req'[r].stage \in {"done", "refused"} /\ req'[r].answer = o
  BY <1>2 DEF PayInv, OrdersInv, LockHeld, Types, Answer
<1>6. LockHeld' /\ RoomForOne'
  BY <1>5 DEF PayInv, OrdersInv, LockHeld, RoomForOne
<1>7. AnswersStand'
  BY <1>1, <1>2, <1>5 DEF PayInv, OrdersInv, AnswersStand, Exists, SameAmount
<1>8. PendingCap'
  BY <1>4 DEF PayInv, OrdersInv, PendingCap
<1>9. ChecksBacked'
  BY DEF PayInv, ChecksBacked, Shape, Backed, externalVars
<1>10. OneOrderPerKey' /\ PaidIffCredited' /\ CreditsArePaidFor' /\ TradesExist' /\ NoticesBacked'
  BY <1>2 DEF PayInv, OrdersInv, OneOrderPerKey, PaidIffCredited, CreditsArePaidFor,
     TradesExist, NoticesBacked, Backed, Exists, externalVars
<1> QED  BY <1>3, <1>6, <1>7, <1>8, <1>9, <1>10 DEF PayInv, OrdersInv

LEMMA CreateReadInv ==
  ASSUME PayInv, NEW r \in Requests, CreateRead(r)
  PROVE  PayInv'
<1>1. holder = r
  BY DEF CreateRead, PayInv, OrdersInv, LockHeld
<1>2. \A q \in Requests : q # r => req[q].stage \notin {"locked", "insert"}
  BY <1>1 DEF PayInv, OrdersInv, LockHeld
<1>3. CASE /\ \E o \in SameKey(r) : SameAmount(r, o) /\ Answer(r, o)
           /\ holder' = NoOne
  BY <1>3, AnswerInv DEF CreateRead
<1>4. CASE /\ BelowCap
           /\ req' = [req EXCEPT ![r].stage = "insert"]
           /\ UNCHANGED <<order, holder>>
  <2>1. \A q \in Requests : req'[q].stage \in {"locked", "insert"} => holder' = q
    BY <1>1, <1>2, <1>4 DEF PayInv, OrdersInv, Types
  <2> QED  BY <1>1, <1>4, <2>1, RequestMoves DEF CreateRead, orderVars
<1>5. CASE /\ req' = [req EXCEPT ![r].stage = "refused"]
           /\ holder' = NoOne
           /\ UNCHANGED order
  <2>1. \A q \in Requests : req'[q].stage \notin {"locked", "insert"}
    BY <1>2, <1>5 DEF PayInv, OrdersInv, Types
  <2> QED  BY <1>5, <2>1, RequestMoves DEF CreateRead, orderVars
<1> QED  BY <1>3, <1>4, <1>5 DEF CreateRead

LEMMA CreateInsertInv ==
  ASSUME PayInv, NEW r \in Requests, CreateInsert(r)
  PROVE  PayInv'
<1>1. \A q \in Requests : q # r => req[q].stage \notin {"locked", "insert"}
  BY DEF CreateInsert, PayInv, OrdersInv, LockHeld
<1>2. CASE SameKey(r) = {}
  <2>1. /\ order' = [order EXCEPT ![r] = [status |-> "pending", expired |-> FALSE,
                                          merchant |-> merchant, link |-> TRUE]]
        /\ req' = [req EXCEPT ![r] = [stage |-> "done", answer |-> r]]
        /\ holder' = NoOne
        /\ UNCHANGED <<dueQueue, credits, externalVars, checker>>
    BY <1>2 DEF CreateInsert
  <2>2. order[r].status = "none" /\ \A o \in Requests : RequestKey[o] = RequestKey[r] => ~Exists(o)
    BY <1>2 DEF SameKey, Exists
  <2>3. /\ order'[r].status = "pending" /\ order'[r].link
        /\ \A o \in Requests \ {r} : order'[o] = order[o] /\ req'[o] = req[o]
        /\ req'[r] = [stage |-> "done", answer |-> r]
    BY <2>1 DEF PayInv, OrdersInv, Types
  <2>4. Types'
    BY <2>1 DEF PayInv, OrdersInv, Types, OrderStatus, Stages, externalVars
  <2>5. PendingCap'
    <3>1. OpenOrders' = OpenOrders \cup {r}
      BY <2>1, <2>3 DEF OpenOrders, PayInv, OrdersInv, Types
    <3>2. Cardinality(OpenOrders') <= Cardinality(OpenOrders) + 1 /\ Cardinality(OpenOrders') \in Nat
      BY <3>1, OpenFinite, FS_AddElement
    <3>3. Cardinality(OpenOrders) < MaxPending
      BY DEF CreateInsert, PayInv, OrdersInv, RoomForOne, BelowCap
    <3> QED  BY <3>2, <3>3, OpenFinite, PaymentsAssumption DEF PendingCap
  <2>6. LockHeld' /\ RoomForOne'
    BY <1>1, <2>3 DEF LockHeld, RoomForOne
  <2>7. OneOrderPerKey'
    BY <2>2, <2>3 DEF PayInv, OrdersInv, OneOrderPerKey, Exists
  <2>8. AnswersStand'
    BY <2>2, <2>3 DEF PayInv, OrdersInv, AnswersStand, Exists
  <2>9. PaidIffCredited' /\ CreditsArePaidFor'
    BY <2>1, <2>2, <2>3 DEF PayInv, OrdersInv, PaidIffCredited, CreditsArePaidFor, externalVars
  <2>10. TradesExist'
    BY <2>1, <2>2, <2>3 DEF PayInv, OrdersInv, TradesExist, Exists, externalVars
  <2>11. NoticesBacked' /\ ChecksBacked'
    BY <2>1 DEF PayInv, OrdersInv, NoticesBacked, ChecksBacked, Shape, Backed, externalVars
  <2> QED  BY <2>4, <2>5, <2>6, <2>7, <2>8, <2>9, <2>10, <2>11 DEF PayInv, OrdersInv
<1>3. CASE SameKey(r) # {}
  <2>1. \A q \in Requests : req'[q].stage \notin {"locked", "insert"}
    BY <1>1, <1>3 DEF CreateInsert, PayInv, OrdersInv, Types
  <2> QED  BY <1>3, <2>1, RequestMoves DEF CreateInsert, orderVars
<1> QED  BY <1>2, <1>3

-----------------------------------------------------------------------------
(* The provider and ApplyPayment.                                          *)

\* What is paid stays paid at the provider, so an old answer stays true.
LEMMA TradeInv ==
  ASSUME PayInv, NEW o \in Requests, Trade(o)
  PROVE  PayInv'
<1>1. PICK s \in TradeMoves(trade[o], o) :
         /\ trade' = [trade EXCEPT ![o] = s]
         /\ notices' = notices \cup ({<<o, Report(s)>>} \ {<<o, "WAIT_BUYER_PAY">>})
         /\ UNCHANGED <<merchant, holder, req, orderVars, checker>>
  BY DEF Trade
<1>2. /\ s \in TradeStatus \ {"none"}
      /\ trade[o] \in PaidTrades => s \in PaidTrades
      /\ trade[o] = "none" => order[o].link
      /\ Report(s) \in Reports
      /\ trade[o] \notin OverTrades
      /\ Succeeded(Report(s)) => s \in PaidTrades
      /\ Report(s) = "TRADE_CLOSED" => s \in OverTrades
  BY <1>1 DEF TradeMoves, TradeStatus, PaidTrades, OverTrades, Report, Reports, Succeeded
<1>3. \A p \in Requests : \A seen : Backed(p, seen) => Backed(p, seen)'
  BY <1>1, <1>2 DEF PayInv, OrdersInv, Types, Backed, Succeeded
<1>4. Types'
  BY <1>1, <1>2 DEF PayInv, OrdersInv, Types, orderVars
<1>5. TradesExist'
  BY <1>1, <1>2 DEF PayInv, OrdersInv, Types, TradesExist, Exists, orderVars
<1>6. CreditsArePaidFor'
  BY <1>1, <1>2 DEF PayInv, OrdersInv, Types, CreditsArePaidFor, PaidTrades, orderVars
<1>7. NoticesBacked'
  <2> SUFFICES ASSUME NEW p \in Requests, NEW seen \in Reports, <<p, seen>> \in notices'
               PROVE  Backed(p, seen)'
    BY DEF NoticesBacked
  <2>1. CASE <<p, seen>> \in notices
    BY <1>3, <2>1 DEF PayInv, OrdersInv, NoticesBacked
  <2>2. CASE p = o /\ seen = Report(s)
    BY <1>1, <1>2, <2>2 DEF PayInv, OrdersInv, Types, Backed
  <2> QED  BY <1>1, <2>1, <2>2
<1>8. ChecksBacked'
  BY <1>1, <1>3 DEF PayInv, ChecksBacked, Shape
<1>9. LockHeld' /\ OneOrderPerKey' /\ AnswersStand' /\ RoomForOne' /\ PendingCap' /\ PaidIffCredited'
  BY <1>1 DEF PayInv, OrdersInv, LockHeld, OneOrderPerKey, AnswersStand, RoomForOne, BelowCap,
              PendingCap, OpenOrders, PaidIffCredited, Exists, orderVars
<1> QED  BY <1>4, <1>5, <1>6, <1>7, <1>8, <1>9 DEF PayInv, OrdersInv

\* Under the order's lock a confirmation counts once; what it says is backed.
LEMMA ApplyInv ==
  ASSUME PayInv, NEW o, NEW seen, ApplyPayment(o, seen),
         o \in Requests => Backed(o, seen),
         UNCHANGED <<holder, req, externalVars>>
  PROVE  OrdersInv'
<1>1. CASE UNCHANGED <<order, credits>>
  BY <1>1 DEF PayInv, OrdersInv, Types, LockHeld, OneOrderPerKey, AnswersStand, RoomForOne, BelowCap,
     PendingCap, OpenOrders, PaidIffCredited, CreditsArePaidFor, TradesExist, NoticesBacked,
     Backed, Exists, externalVars
<1>2. CASE o \notin Requests
  BY <1>1, <1>2 DEF ApplyPayment, PayInv, OrdersInv, Types
<1>3. CASE o \in Requests /\ ~UNCHANGED <<order, credits>>
  <2>1. PICK s \in {"paid", "closed"} :
           /\ order' = [order EXCEPT ![o].status = s]
           /\ ~AlreadyPaid(o)
           /\ s = "paid" => credits' = [credits EXCEPT ![o] = @ + 1] /\ Succeeded(seen)
           /\ s = "closed" => credits' = credits
    BY <1>3 DEF ApplyPayment
  <2>2. /\ Types /\ credits[o] = 0 /\ Exists(o)
    BY <1>3, <2>1 DEF PayInv, OrdersInv, PaidIffCredited, AlreadyPaid, TradesExist, Backed
  <2>3. Types'
    <3>1. order' \in [Requests -> [status: OrderStatus, expired: BOOLEAN,
                                   merchant: Merchants, link: BOOLEAN]]
      <4>1. s \in OrderStatus
        BY DEF OrderStatus
      <4>2. /\ order \in [Requests -> [status: OrderStatus, expired: BOOLEAN,
                                       merchant: Merchants, link: BOOLEAN]]
            /\ order' = [order EXCEPT ![o].status = s]
        BY <2>1, <2>2 DEF Types
      <4> QED  BY <4>1, <4>2
    <3>2. credits' \in [Requests -> {0, 1}]
      BY <1>3, <2>1, <2>2 DEF Types
    <3> QED  BY <2>2, <3>1, <3>2 DEF Types, externalVars
  <2>4. /\ order'[o].status = s /\ order'[o].link = order[o].link
        /\ \A p \in Requests \ {o} : order'[p] = order[p]
        /\ \A p \in Requests : Exists(p)' <=> Exists(p)
    BY <1>3, <2>1, <2>2 DEF Types, Exists
  <2>5. OpenOrders' \subseteq OpenOrders
    BY <2>4 DEF OpenOrders
  <2>6. PendingCap' /\ RoomForOne'
    BY <2>5, RoomKept DEF PayInv, OrdersInv, RoomForOne
  <2>7. LockHeld' /\ OneOrderPerKey' /\ AnswersStand' /\ TradesExist' /\ NoticesBacked'
    <3>1. LockHeld' /\ NoticesBacked'
      BY DEF PayInv, OrdersInv, LockHeld, NoticesBacked, Backed, externalVars
    <3>2. OneOrderPerKey' /\ TradesExist'
      BY <2>4 DEF PayInv, OrdersInv, OneOrderPerKey, TradesExist, externalVars
    <3>3. AnswersStand'
      BY <2>4 DEF PayInv, OrdersInv, AnswersStand
    <3> QED  BY <3>1, <3>2, <3>3
  <2>8. PaidIffCredited'
    BY <1>3, <2>1, <2>2, <2>4 DEF PayInv, OrdersInv, Types, PaidIffCredited
  <2>9. CreditsArePaidFor'
    BY <1>3, <2>1, <2>2 DEF PayInv, OrdersInv, Types, CreditsArePaidFor, Backed, PaidTrades,
                            externalVars
  <2> QED  BY <2>3, <2>6, <2>7, <2>8, <2>9 DEF OrdersInv
<1> QED  BY <1>1, <1>2, <1>3

LEMMA NotifyInv ==
  ASSUME PayInv, NEW o \in Requests, NEW seen \in Reports, Notify(o, seen)
  PROVE  PayInv'
<1>1. Backed(o, seen)
  BY DEF Notify, PayInv, OrdersInv, NoticesBacked
<1>2. ChecksBacked'
  BY DEF Notify, PayInv, ChecksBacked, Shape, Backed, externalVars
<1> QED  BY <1>1, <1>2, ApplyInv DEF Notify, PayInv

-----------------------------------------------------------------------------
(* The checkers.                                                           *)

\* One checker moves, and what it is about to apply is backed.
CheckerSteps(k) ==
    /\ checker' = [x \in Checkers |-> checker'[x]]
    /\ \A x \in Checkers \ {k} : checker'[x] = checker[x]
    /\ Shape(checker'[k])
    /\ checker'[k].stage = "apply" /\ checker'[k].todo[1] \in Requests
          => Backed(checker'[k].todo[1], checker'[k].seen)

LEMMA CheckerMoves ==
  ASSUME PayInv, NEW k \in Checkers, CheckerSteps(k), UNCHANGED trade
  PROVE  ChecksBacked'
BY DEF PayInv, ChecksBacked, Shape, Backed, CheckerSteps

LEMMA OrdersUntouched ==
  ASSUME PayInv, UNCHANGED <<holder, req, order, credits, externalVars>>
  PROVE  OrdersInv'
BY DEF PayInv, OrdersInv, Types, LockHeld, OneOrderPerKey, AnswersStand, RoomForOne, BelowCap,
   PendingCap, OpenOrders, PaidIffCredited, CreditsArePaidFor, TradesExist, NoticesBacked,
   Backed, Exists, externalVars

LEMMA IdleShape ==
  /\ Shape(Idle) /\ Idle.stage = "idle"
  /\ \A t, d : d = [Idle EXCEPT !.stage = "claim", !.todo = t] => Shape(d) /\ d.stage = "claim"
<1>1. Shape(Idle) /\ Idle.stage = "idle"
  BY DEF Shape, Idle, Reports
<1> QED  BY <1>1 DEF Shape

LEMMA NextOrderSteps ==
  ASSUME PayInv, NEW k \in Checkers, NextOrder(k)
  PROVE  CheckerSteps(k)
<1>1. \E d : /\ checker' = [checker EXCEPT ![k] = d]
             /\ d = Idle \/ d = [Idle EXCEPT !.stage = "claim", !.todo = Tail(checker[k].todo)]
  BY DEF NextOrder
<1>2. \E d : /\ checker' = [checker EXCEPT ![k] = d]
             /\ Shape(d) /\ d.stage \in {"idle", "claim"}
  BY <1>1, IdleShape
<1> QED  BY <1>2 DEF PayInv, ChecksBacked, CheckerSteps

\* Taking orders up and claiming one leave the account and the orders alone.
LEMMA CheckInv ==
  ASSUME PayInv, NEW k \in Checkers, Check(k)
  PROVE  PayInv'
<1>1. /\ checker = [x \in Checkers |-> checker[x]]
      /\ Shape(checker[k])
  BY DEF PayInv, ChecksBacked
<1>2. ASSUME CheckerSteps(k), UNCHANGED <<holder, req, order, credits, externalVars>>
      PROVE  PayInv'
  BY <1>2, CheckerMoves, OrdersUntouched DEF PayInv, externalVars
<1>3. CASE Claim(k)
  <2>1. CASE NextOrder(k)
    BY <1>2, <1>3, <2>1, NextOrderSteps DEF Claim
  <2>2. CASE checker' = [checker EXCEPT ![k].stage = "query"]
    <3>1. CheckerSteps(k)
      BY <1>1, <2>2 DEF CheckerSteps, Shape
    <3> QED  BY <1>2, <1>3, <3>1 DEF Claim
  <2> QED  BY <1>3, <2>1, <2>2 DEF Claim
<1>4. CASE QueryAnswers(k)
  <2> DEFINE o == checker[k].todo[1]
  <2>1. Report(trade[o]) \in Reports
    BY DEF Report, Reports
  <2>2. /\ checker' = [x \in Checkers |-> checker'[x]]
        /\ \A x \in Checkers \ {k} : checker'[x] = checker[x]
        /\ Shape(checker'[k])
        /\ checker'[k].todo = checker[k].todo /\ checker'[k].seen = Report(trade[o])
    <3>1. checker' = [checker EXCEPT ![k].stage = "apply", ![k].seen = Report(trade[o])]
      BY <1>4 DEF QueryAnswers
    <3> HIDE DEF o
    <3> QED  BY <1>1, <2>1, <3>1 DEF Shape
  <2>3. o \in Requests => Backed(o, Report(trade[o]))
    BY <1>4 DEF QueryAnswers, Backed, Succeeded, Report, PayInv, OrdersInv, Types, TradeStatus,
                PaidTrades, OverTrades
  <2>4. CheckerSteps(k)
    BY <2>2, <2>3 DEF CheckerSteps
  <2> QED  BY <1>2, <1>4, <2>4 DEF QueryAnswers, orderVars
<1>5. CASE QueryFails(k)
  BY <1>2, <1>5, NextOrderSteps DEF QueryFails, orderVars
<1>6. CASE CheckApplies(k)
  <2>1. checker[k].todo[1] \in Requests => Backed(checker[k].todo[1], checker[k].seen)
    BY <1>6 DEF CheckApplies, PayInv, ChecksBacked
  <2>2. OrdersInv'
    BY <1>6, <2>1, ApplyInv DEF CheckApplies
  <2>3. ChecksBacked'
    BY <1>6, NextOrderSteps, CheckerMoves DEF CheckApplies, externalVars
  <2> QED  BY <2>2, <2>3 DEF PayInv
<1>7. CASE CheckerDies(k)
  <2>1. CheckerSteps(k)
    BY <1>1, <1>7, IdleShape DEF CheckerDies, CheckerSteps
  <2> QED  BY <1>2, <1>7, <2>1 DEF CheckerDies, orderVars
<1>8. ASSUME NEW t, checker' = [checker EXCEPT ![k].stage = "claim", ![k].todo = t],
             UNCHANGED <<holder, req, orderVars, externalVars>>
      PROVE  PayInv'
  <2>1. CheckerSteps(k)
    BY <1>1, <1>8 DEF CheckerSteps, Shape
  <2> QED  BY <1>2, <1>8, <2>1 DEF orderVars
<1>9. CASE ReconcilePayments(k)
  BY <1>8, <1>9 DEF ReconcilePayments
<1>10. CASE \E o \in Requests : PaymentOrder(k, o)
  BY <1>8, <1>10 DEF PaymentOrder
<1> QED  BY <1>3, <1>4, <1>5, <1>6, <1>7, <1>9, <1>10 DEF Check

-----------------------------------------------------------------------------
(* Time and administration.                                                *)

LEMMA ExpiresInv ==
  ASSUME PayInv, NEW o \in Requests, Expires(o)
  PROVE  PayInv'
<1>1. Types'
  BY DEF Expires, PayInv, OrdersInv, Types, externalVars
<1>2. \A p \in Requests : /\ order'[p].status = order[p].status
                          /\ order'[p].link = order[p].link
                          /\ order[p].expired => order'[p].expired
  BY DEF Expires, PayInv, OrdersInv, Types
<1>3. OpenOrders' \subseteq OpenOrders
  BY <1>2, <1>1 DEF OpenOrders, Types, PayInv, OrdersInv
<1>4. PendingCap' /\ RoomForOne'
  BY <1>3, RoomKept DEF Expires, PayInv, OrdersInv, RoomForOne
<1>5. LockHeld' /\ OneOrderPerKey' /\ AnswersStand' /\ PaidIffCredited' /\ CreditsArePaidFor'
      /\ TradesExist' /\ NoticesBacked'
  BY <1>2 DEF Expires, PayInv, OrdersInv, LockHeld, OneOrderPerKey, AnswersStand, PaidIffCredited,
              CreditsArePaidFor, TradesExist, NoticesBacked, Backed, Exists, externalVars
<1>6. ChecksBacked'
  BY DEF Expires, PayInv, ChecksBacked, Shape, Backed, externalVars
<1> QED  BY <1>1, <1>4, <1>5, <1>6 DEF PayInv, OrdersInv

LEMMA ChangeMerchantInv ==
  ASSUME PayInv, NEW m \in Merchants, ChangeMerchant(m)
  PROVE  PayInv'
<1>1. Types'
  BY DEF ChangeMerchant, PayInv, OrdersInv, Types, Stages, orderVars
<1>2. \A r \in Requests : /\ req'[r].stage \notin {"locked", "insert"}
                          /\ req'[r].stage = "done" => req'[r] = req[r]
  BY DEF ChangeMerchant, PayInv, OrdersInv, Types
<1>3. LockHeld' /\ RoomForOne' /\ AnswersStand'
  BY <1>2 DEF ChangeMerchant, PayInv, OrdersInv, LockHeld, RoomForOne, AnswersStand, Exists, orderVars
<1>4. ChecksBacked'
  BY DEF ChangeMerchant, ChecksBacked, Shape, Idle, Reports
<1>5. OneOrderPerKey' /\ PendingCap' /\ PaidIffCredited' /\ CreditsArePaidFor'
      /\ TradesExist' /\ NoticesBacked'
  BY DEF ChangeMerchant, PayInv, OrdersInv, OneOrderPerKey, PendingCap, OpenOrders, PaidIffCredited,
         CreditsArePaidFor, TradesExist, NoticesBacked, Backed, Exists, orderVars
<1> QED  BY <1>1, <1>3, <1>4, <1>5 DEF PayInv, OrdersInv

LEMMA NextInv == PayInv /\ [Next]_vars => PayInv'
<1> SUFFICES ASSUME PayInv, [Next]_vars PROVE PayInv'
  OBVIOUS
<1>1. ASSUME NEW r \in Requests,
             CreateLock(r) \/ CreateRead(r) \/ CreateInsert(r) \/ CreateAborts(r)
      PROVE  PayInv'
  BY <1>1, CreateLockInv, CreateReadInv, CreateInsertInv, CreateAbortsInv
<1>2. ASSUME NEW o \in Requests, BecomesDue(o) PROVE PayInv'
  BY <1>2, OrdersUntouched DEF BecomesDue, PayInv, ChecksBacked, Shape, Backed, externalVars
<1>3. ASSUME NEW k \in Checkers, Check(k) PROVE PayInv'
  BY <1>3, CheckInv
<1>4. CASE UNCHANGED vars
  BY <1>4, OrdersUntouched DEF vars, PayInv, ChecksBacked, Shape, Backed, externalVars
<1> QED
  BY <1>1, <1>2, <1>3, <1>4, TradeInv, ExpiresInv, NotifyInv, ChangeMerchantInv DEF Next

-----------------------------------------------------------------------------
(* Theorems.                                                               *)

\* The inductive invariant of the top-up orders.
THEOREM PaymentsInvariant == Spec => []PayInv
BY InitInv, NextInv, PTL DEF Spec

\* payment.go, ApplyPayment: an order is credited exactly when it is paid,
\* from however many sides and however often the payment is confirmed.
THEOREM PaidOnce == Spec => []PaidIffCredited
<1>1. PayInv => PaidIffCredited
  BY DEF PayInv, OrdersInv
<1> QED  BY <1>1, PaymentsInvariant, PTL

\* payment.go, CreatePayment: however many requests run at once, the open
\* orders of a workspace never exceed the cap.
THEOREM CapIsKept == Spec => []PendingCap
<1>1. PayInv => PendingCap
  BY DEF PayInv, OrdersInv
<1> QED  BY <1>1, PaymentsInvariant, PTL

\* payment.go, CreatePayment: a key stands for one order of one amount, and
\* every request answered under it is answered with that order.
THEOREM KeysNameOneOrder == Spec => []KeyNamesOneOrder
<1>1. PayInv => KeyNamesOneOrder
  <2> SUFFICES ASSUME PayInv, NEW r \in Requests, req[r].stage = "done"
               PROVE  /\ Exists(req[r].answer)
                      /\ RequestAmount[req[r].answer] = RequestAmount[r]
                      /\ SameKey(r) = {req[r].answer}
    BY DEF KeyNamesOneOrder
  <2> QED  BY DEF PayInv, OrdersInv, AnswersStand, OneOrderPerKey, SameKey
<1> QED  BY <1>1, PaymentsInvariant, PTL

\* payment.go, ApplyPayment: nothing is credited that the buyer has not paid,
\* however old the answer that is applied.
THEOREM CreditsAreBacked == Spec => []CreditsArePaidFor
<1>1. PayInv => CreditsArePaidFor
  BY DEF PayInv, OrdersInv
<1> QED  BY <1>1, PaymentsInvariant, PTL

\* payment.go, ApplyPayment: neither a late closing nor a refund takes an
\* order out of paid.
THEOREM PaidStaysPaid == Spec => PaidIsFinal
<1> DEFINE Stays == \A o \in Requests : order[o].status = "paid" => order'[o].status = "paid"
<1>1. PayInv /\ [Next]_vars => [Stays]_vars
  <2> SUFFICES ASSUME PayInv, Next, NEW o \in Requests, order[o].status = "paid"
               PROVE  order'[o].status = "paid"
    BY DEF vars
  <2>1. Types
    BY DEF PayInv, OrdersInv
  <2>2. ASSUME NEW p, NEW seen, ApplyPayment(p, seen)
        PROVE  order'[o].status = "paid"
    BY <2>1, <2>2 DEF ApplyPayment, AlreadyPaid, Types
  <2>3. ASSUME NEW r \in Requests, CreateRead(r)
        PROVE  order'[o].status = "paid"
    BY <2>1, <2>3 DEF CreateRead, Answer, SameKey, Types
  <2>4. ASSUME NEW r \in Requests, CreateInsert(r)
        PROVE  order'[o].status = "paid"
    <3>1. CASE r = o
      BY <2>4, <3>1 DEF CreateInsert, SameKey, Exists
    <3> QED  BY <2>1, <2>4, <3>1 DEF CreateInsert, Types
  <2>5. ASSUME NEW k \in Checkers, Check(k)
        PROVE  order'[o].status = "paid"
    BY <2>2, <2>5 DEF Check, Claim, QueryAnswers, QueryFails, CheckApplies, CheckerDies,
                      ReconcilePayments, PaymentOrder, orderVars
  <2>6. ASSUME NEW p \in Requests, NEW seen \in Reports, Notify(p, seen)
        PROVE  order'[o].status = "paid"
    BY <2>2, <2>6 DEF Notify
  <2>7. ASSUME NEW p \in Requests, Expires(p)
        PROVE  order'[o].status = "paid"
    BY <2>1, <2>7 DEF Expires, Types
  <2>8. ASSUME NEW p \in Requests,
               CreateLock(p) \/ CreateAborts(p) \/ Trade(p) \/ BecomesDue(p)
        PROVE  order'[o].status = "paid"
    BY <2>8 DEF CreateLock, CreateAborts, Trade, BecomesDue, orderVars
  <2>9. ASSUME NEW m \in Merchants, ChangeMerchant(m)
        PROVE  order'[o].status = "paid"
    BY <2>9 DEF ChangeMerchant, orderVars
  <2> QED  BY <2>3, <2>4, <2>5, <2>6, <2>7, <2>8, <2>9 DEF Next
<1> QED  BY <1>1, PaymentsInvariant, PTL DEF Spec, PaidIsFinal

-----------------------------------------------------------------------------
(* The orders that checkers take up.                                       *)

\* No order is due twice.
DueInv ==
    /\ dueQueue \in Seq(Requests)
    /\ \A i, j \in DOMAIN dueQueue : dueQueue[i] = dueQueue[j] => i = j
\* A checker at work has an order at hand.
TodoInv ==
    \A k \in Checkers :
        /\ checker[k].todo \in Seq(Requests)
        /\ checker[k].stage # "idle" => checker[k].todo # <<>>
\* An order that is being asked about is not due, and nobody else asks.
QueryInv ==
    /\ \A k \in Checkers : checker[k].stage = "query" => ~Due(checker[k].todo[1])
    /\ OneQueryPerOrder

CheckInvs == PayInv /\ DueInv /\ TodoInv /\ QueryInv

LEMMA InitChecks == Init => CheckInvs
<1> SUFFICES ASSUME Init PROVE CheckInvs
  OBVIOUS
<1>1. dueQueue = <<>> /\ \A k \in Checkers : checker[k] = Idle
  BY DEF Init
<1>2. Idle.stage = "idle" /\ Idle.todo = <<>>
  BY DEF Idle
<1>3. DueInv
  <2>1. DOMAIN << >> = {} /\ << >> \in Seq(Requests)
    BY EmptySeq
  <2> QED BY <1>1, <2>1 DEF DueInv
<1>4. TodoInv
  BY <1>1, <1>2, EmptySeq DEF TodoInv
<1>5. QueryInv
  BY <1>1, <1>2 DEF QueryInv, OneQueryPerOrder
<1> QED BY <1>3, <1>4, <1>5, InitInv DEF CheckInvs

\* Neither the queue nor the checkers move.
LEMMA ChecksKept ==
  ASSUME DueInv, TodoInv, QueryInv, UNCHANGED <<dueQueue, checker>>
  PROVE  DueInv' /\ TodoInv' /\ QueryInv'
BY DEF DueInv, TodoInv, QueryInv, OneQueryPerOrder, Due

LEMMA TodoTail ==
  ASSUME NEW t \in Seq(Requests), t # <<>>, Len(t) # 1
  PROVE  Tail(t) \in Seq(Requests) /\ Tail(t) # <<>>
<1>1. Len(t) \in Nat /\ Len(t) > 1
  <2> DEFINE n == Len(t)
  <2>1. n \in Nat
    BY LenProperties
  <2>2. n # 0 /\ n # 1
    BY EmptySeq
  <2> HIDE DEF n
  <2>3. n > 1
    BY <2>1, <2>2
  <2> QED BY <2>1, <2>3 DEF n
<1>2. Tail(t) \in Seq(Requests) /\ Len(Tail(t)) = Len(t) - 1
  BY HeadTailProperties
<1>3. Len(Tail(t)) # 0
  BY <1>1, <1>2
<1> QED BY <1>2, <1>3, EmptySeq

\* A checker goes anywhere but to a query, and the queue stays.
LEMMA CheckerLeaves ==
  ASSUME TodoInv, QueryInv, DueInv, NEW k \in Checkers, UNCHANGED dueQueue,
         \A x \in Checkers \ {k} : checker'[x] = checker[x],
         checker'[k].todo \in Seq(Requests),
         checker'[k].stage # "idle" => checker'[k].todo # <<>>,
         checker'[k].stage # "query"
  PROVE  DueInv' /\ TodoInv' /\ QueryInv'
<1>1. DueInv'
  BY DEF DueInv
<1>2. TodoInv'
  BY DEF TodoInv
<1>3. \A x \in Checkers : checker'[x].stage = "query" => x # k /\ checker'[x] = checker[x]
  OBVIOUS
<1>4. \A o : Due(o)' = Due(o)
  BY DEF Due
<1>5. QueryInv'
  BY <1>3, <1>4 DEF QueryInv, OneQueryPerOrder
<1> QED BY <1>1, <1>2, <1>5

LEMMA NextOrderLeaves ==
  ASSUME CheckInvs, NEW k \in Checkers, NextOrder(k), checker[k].stage # "idle", UNCHANGED dueQueue
  PROVE  DueInv' /\ TodoInv' /\ QueryInv'
<1>1. /\ checker = [x \in Checkers |-> checker[x]] /\ TodoInv /\ QueryInv /\ DueInv
      /\ checker[k].todo \in Seq(Requests) /\ checker[k].todo # <<>>
  BY DEF CheckInvs, PayInv, ChecksBacked, TodoInv
<1>2. PICK d : /\ checker' = [checker EXCEPT ![k] = d]
               /\ d.todo \in Seq(Requests)
               /\ d.stage # "idle" => d.todo # <<>>
               /\ d.stage # "query"
  <2>1. CASE Len(checker[k].todo) = 1
    <3>1. checker' = [checker EXCEPT ![k] = Idle]
      BY <2>1 DEF NextOrder
    <3>2. Idle.todo \in Seq(Requests) /\ Idle.stage = "idle"
      BY EmptySeq DEF Idle
    <3> QED BY <3>1, <3>2
  <2>2. CASE Len(checker[k].todo) # 1
    <3> DEFINE t == Tail(checker[k].todo)
               d == [Idle EXCEPT !.stage = "claim", !.todo = t]
    <3>1. checker' = [checker EXCEPT ![k] = d]
      BY <2>2 DEF NextOrder
    <3>2. t \in Seq(Requests) /\ t # <<>>
      BY <1>1, <2>2, TodoTail
    <3> HIDE DEF t
    <3>3. d.todo = t /\ d.stage = "claim"
      BY DEF Idle
    <3> QED BY <3>1, <3>2, <3>3
  <2> QED BY <2>1, <2>2
<1>3. checker'[k] = d /\ \A x \in Checkers \ {k} : checker'[x] = checker[x]
  BY <1>1, <1>2
<1> QED BY <1>1, <1>2, <1>3, CheckerLeaves

\* A sequence without its k-th element, as the claim leaves the queue.
LEMMA CutOut ==
  ASSUME NEW S, NEW q \in Seq(S), NEW k \in 1..Len(q)
  PROVE  LET s == SubSeq(q, 1, k - 1) \o SubSeq(q, k + 1, Len(q)) IN
         /\ s \in Seq(S) /\ Len(s) = Len(q) - 1
         /\ \A j \in 1..Len(s) : s[j] = IF j < k THEN q[j] ELSE q[j + 1]
<1> DEFINE a == SubSeq(q, 1, k - 1)
           b == SubSeq(q, k + 1, Len(q))
<1>1. Len(q) \in Nat /\ k \in Int
  OBVIOUS
<1>2. a \in Seq(S) /\ Len(a) = k - 1 /\ \A j \in 1..(k - 1) : a[j] = q[j]
  BY <1>1, SubSeqProperties
<1>3. b \in Seq(S) /\ Len(b) = Len(q) - k /\ \A j \in 1..(Len(q) - k) : b[j] = q[k + j]
  BY <1>1, SubSeqProperties
<1> HIDE DEF a, b
<1>4. /\ a \o b \in Seq(S) /\ Len(a \o b) = Len(a) + Len(b)
      /\ \A j \in 1..(Len(a) + Len(b)) : (a \o b)[j] = IF j <= Len(a) THEN a[j] ELSE b[j - Len(a)]
  BY <1>2, <1>3, ConcatProperties
<1>5. ASSUME NEW j \in 1..(Len(q) - 1)
      PROVE  (a \o b)[j] = IF j < k THEN q[j] ELSE q[j + 1]
  <2>1. CASE j < k
    BY <1>1, <1>2, <1>3, <1>4, <2>1
  <2>2. CASE ~(j < k)
    <3>1. j - (k - 1) \in 1..(Len(q) - k) /\ k + (j - (k - 1)) = j + 1 /\ ~(j <= k - 1)
      BY <1>1, <2>2
    <3> QED BY <1>1, <1>2, <1>3, <1>4, <2>2, <3>1
  <2> QED BY <2>1, <2>2
<1>6. a \o b \in Seq(S) /\ Len(a \o b) = Len(q) - 1
  BY <1>1, <1>2, <1>3, <1>4
<1> QED BY <1>5, <1>6 DEF a, b

\* A checker claims its order: the order leaves the queue.
LEMMA ClaimChecks ==
  ASSUME CheckInvs, NEW k \in Checkers, Claim(k)
  PROVE  DueInv' /\ TodoInv' /\ QueryInv'
<1> DEFINE o == checker[k].todo[1]
<1>1. /\ checker = [x \in Checkers |-> checker[x]] /\ TodoInv /\ QueryInv /\ DueInv
      /\ checker[k].stage = "claim" /\ Shape(checker[k])
  BY DEF CheckInvs, PayInv, ChecksBacked, Claim
<1>2. CASE ~(order[o].merchant = merchant /\ Claimable(o))
  <2>1. NextOrder(k) /\ UNCHANGED dueQueue
    BY <1>2 DEF Claim
  <2> QED BY <1>1, <2>1, NextOrderLeaves
<1>3. CASE order[o].merchant = merchant /\ Claimable(o)
  <2> DEFINE cut(i) == SubSeq(dueQueue, 1, i - 1) \o SubSeq(dueQueue, i + 1, Len(dueQueue))
  <2>1. PICK i \in DOMAIN dueQueue : dueQueue[i] = o /\ dueQueue' = cut(i)
    BY <1>3 DEF Claim
  <2>2. checker' = [checker EXCEPT ![k].stage = "query"]
    BY <1>3 DEF Claim
  <2>3. dueQueue \in Seq(Requests) /\ Len(dueQueue) \in Nat /\ DOMAIN dueQueue = 1..Len(dueQueue)
        /\ i \in 1..Len(dueQueue)
    BY <1>1, <2>1, LenProperties DEF DueInv
  <2>4. /\ dueQueue' \in Seq(Requests) /\ Len(dueQueue') = Len(dueQueue) - 1
        /\ \A j \in 1..Len(dueQueue') : dueQueue'[j] = IF j < i THEN dueQueue[j] ELSE dueQueue[j + 1]
    BY <2>1, <2>3, CutOut
  <2> HIDE DEF cut, o
  <2> DEFINE at(j) == IF j < i THEN j ELSE j + 1
  <2>5. /\ DOMAIN dueQueue' = 1..Len(dueQueue')
        /\ \A j \in 1..Len(dueQueue') : at(j) \in 1..Len(dueQueue) /\ at(j) # i
                                        /\ dueQueue'[j] = dueQueue[at(j)]
        /\ \A j, l \in 1..Len(dueQueue') : at(j) = at(l) => j = l
    <3>1. DOMAIN dueQueue' = 1..Len(dueQueue') /\ Len(dueQueue') \in Nat
      BY <2>4, LenProperties
    <3> QED BY <2>3, <2>4, <3>1
  <2> HIDE DEF at
  <2>6. DueInv'
    <3>1. ASSUME NEW j \in 1..Len(dueQueue'), NEW l \in 1..Len(dueQueue'), dueQueue'[j] = dueQueue'[l]
          PROVE  j = l
      BY <1>1, <2>3, <2>5, <3>1 DEF DueInv
    <3> QED BY <2>4, <2>5, <3>1 DEF DueInv
  <2>7. \A j \in DOMAIN dueQueue' : dueQueue'[j] # o /\ Due(dueQueue'[j])
    <3>1. ASSUME NEW j \in 1..Len(dueQueue')
          PROVE  dueQueue'[j] # o /\ \E l \in DOMAIN dueQueue : dueQueue[l] = dueQueue'[j]
      BY <1>1, <2>1, <2>3, <2>5, <3>1 DEF DueInv
    <3> QED BY <2>5, <3>1 DEF Due
  <2>8. /\ checker'[k].stage = "query" /\ checker'[k].todo = checker[k].todo
        /\ \A x \in Checkers \ {k} : checker'[x] = checker[x]
    <3>1. checker[k] \in [stage: {"idle", "claim", "query", "apply"}, todo: {checker[k].todo}, seen: Reports]
      BY <1>1 DEF Shape
    <3> QED BY <1>1, <2>2, <3>1
  <2>9. TodoInv'
    <3>1. checker[k].todo \in Seq(Requests) /\ checker[k].todo # <<>>
      BY <1>1 DEF TodoInv
    <3> QED BY <1>1, <2>8, <3>1 DEF TodoInv
  <2>10. Due(o)
    BY <1>3 DEF Claimable
  <2>11. \A x \in Checkers \ {k} : checker[x].stage = "query" => checker[x].todo[1] # o
    BY <1>1, <2>10 DEF QueryInv
  <2>12. ASSUME NEW x \in Checkers, checker'[x].stage = "query", NEW j \in DOMAIN dueQueue'
         PROVE  dueQueue'[j] # checker'[x].todo[1]
    <3>1. CASE x = k
      <4>1. checker'[x].todo[1] = o
        BY <2>8, <3>1 DEF o
      <4> QED BY <2>7, <4>1
    <3>2. CASE x # k
      <4>1. checker'[x] = checker[x] /\ ~Due(checker'[x].todo[1])
        BY <1>1, <2>8, <2>12, <3>2 DEF QueryInv
      <4>2. Due(dueQueue'[j])
        BY <2>7
      <4> QED BY <4>1, <4>2
    <3> QED BY <3>1, <3>2
  <2>13. OneQueryPerOrder'
    <3>1. ASSUME NEW x \in Checkers, NEW y \in Checkers,
                 checker'[x].stage = "query", checker'[y].stage = "query",
                 checker'[x].todo[1] = checker'[y].todo[1]
          PROVE  x = y
      <4>1. CASE x = k /\ y # k
        BY <2>8, <2>11, <3>1, <4>1 DEF o
      <4>2. CASE x # k /\ y = k
        BY <2>8, <2>11, <3>1, <4>2 DEF o
      <4>3. CASE x # k /\ y # k
        BY <1>1, <2>8, <3>1, <4>3 DEF QueryInv, OneQueryPerOrder
      <4> QED BY <4>1, <4>2, <4>3
    <3> QED BY <3>1 DEF OneQueryPerOrder
  <2>14. QueryInv'
    BY <2>12, <2>13 DEF QueryInv, Due
  <2> QED BY <2>6, <2>9, <2>14
<1> QED BY <1>2, <1>3

\* Every step of a checker.
LEMMA CheckChecks ==
  ASSUME CheckInvs, NEW k \in Checkers, Check(k)
  PROVE  DueInv' /\ TodoInv' /\ QueryInv'
<1>1. /\ checker = [x \in Checkers |-> checker[x]] /\ TodoInv /\ QueryInv /\ DueInv
      /\ Shape(checker[k])
  BY DEF CheckInvs, PayInv, ChecksBacked
<1>2. checker[k].todo \in Seq(Requests)
  BY <1>1 DEF TodoInv
<1>3. CASE Claim(k)
  BY <1>3, ClaimChecks
<1>4. CASE QueryAnswers(k)
  <2> DEFINE said == Report(trade[checker[k].todo[1]])
  <2>1. /\ checker' = [checker EXCEPT ![k].stage = "apply", ![k].seen = said]
        /\ UNCHANGED dueQueue /\ checker[k].stage = "query"
    BY <1>4 DEF QueryAnswers, orderVars
  <2> HIDE DEF said
  <2>2. /\ checker'[k].stage = "apply" /\ checker'[k].todo = checker[k].todo
        /\ \A x \in Checkers \ {k} : checker'[x] = checker[x]
    BY <1>1, <2>1 DEF Shape
  <2>3. checker[k].todo # <<>>
    BY <1>1, <2>1 DEF TodoInv
  <2> QED BY <1>1, <1>2, <2>1, <2>2, <2>3, CheckerLeaves
<1>5. CASE QueryFails(k) \/ CheckApplies(k)
  <2>1. NextOrder(k) /\ checker[k].stage # "idle" /\ UNCHANGED dueQueue
    BY <1>5 DEF QueryFails, CheckApplies, orderVars
  <2> QED BY <2>1, NextOrderLeaves
<1>6. CASE CheckerDies(k)
  <2>1. checker' = [checker EXCEPT ![k] = Idle] /\ UNCHANGED dueQueue
    BY <1>6 DEF CheckerDies, orderVars
  <2>2. Idle.todo \in Seq(Requests) /\ Idle.stage = "idle"
    BY EmptySeq DEF Idle
  <2>3. checker'[k] = Idle /\ \A x \in Checkers \ {k} : checker'[x] = checker[x]
    BY <1>1, <2>1
  <2> QED BY <1>1, <2>1, <2>2, <2>3, CheckerLeaves
<1>7. ASSUME NEW t \in Seq(Requests), t # <<>>, UNCHANGED dueQueue,
             checker' = [checker EXCEPT ![k].stage = "claim", ![k].todo = t]
      PROVE  DueInv' /\ TodoInv' /\ QueryInv'
  <2>1. /\ checker'[k].stage = "claim" /\ checker'[k].todo = t
        /\ \A x \in Checkers \ {k} : checker'[x] = checker[x]
    BY <1>1, <1>7 DEF Shape
  <2> QED BY <1>1, <1>7, <2>1, CheckerLeaves
<1>8. CASE ReconcilePayments(k)
  <2>1. PICK b \in Batches : checker' = [checker EXCEPT ![k].stage = "claim", ![k].todo = b]
    BY <1>8 DEF ReconcilePayments
  <2>2. PICK n \in 1..BatchSize : b \in [1..n -> DuePending]
    BY <2>1 DEF Batches
  <2>3. n \in Nat /\ n >= 1 /\ b \in [1..n -> Requests]
    BY <2>2, PaymentsAssumption DEF DuePending
  <2>4. b \in Seq(Requests) /\ Len(b) = n
    BY <2>3, SeqDef, LenProperties
  <2>5. b # <<>>
    BY <2>3, <2>4, EmptySeq
  <2> QED BY <1>7, <1>8, <2>1, <2>4, <2>5 DEF ReconcilePayments, orderVars
<1>9. CASE \E o \in Requests : PaymentOrder(k, o)
  <2>1. PICK o \in Requests : checker' = [checker EXCEPT ![k].stage = "claim", ![k].todo = <<o>>]
    BY <1>9 DEF PaymentOrder
  <2>2. <<o>> \in Seq(Requests) /\ <<o>> # <<>>
    OBVIOUS
  <2>3. UNCHANGED dueQueue
    BY <1>9 DEF PaymentOrder, orderVars
  <2> QED BY <1>7, <2>1, <2>2, <2>3
<1> QED BY <1>3, <1>4, <1>5, <1>6, <1>8, <1>9 DEF Check

\* next_check_at passes: an order that nobody asks about joins the queue.
LEMMA BecomesDueChecks ==
  ASSUME CheckInvs, NEW o \in Requests, BecomesDue(o)
  PROVE  DueInv' /\ TodoInv' /\ QueryInv'
<1>1. /\ ~Due(o) /\ dueQueue' = Append(dueQueue, o) /\ checker' = checker
      /\ \A k \in Checkers : checker[k].stage = "query" => checker[k].todo[1] # o
      /\ TodoInv /\ QueryInv /\ DueInv
  BY DEF BecomesDue, CheckInvs
<1>2. /\ dueQueue \in Seq(Requests) /\ Len(dueQueue) \in Nat
      /\ DOMAIN dueQueue = 1..Len(dueQueue)
  BY <1>1, LenProperties DEF DueInv
<1>3. /\ dueQueue' \in Seq(Requests) /\ Len(dueQueue') = Len(dueQueue) + 1
      /\ DOMAIN dueQueue' = 1..(Len(dueQueue) + 1)
      /\ \A j \in 1..(Len(dueQueue) + 1) :
            dueQueue'[j] = IF j = Len(dueQueue) + 1 THEN o ELSE dueQueue[j]
  BY <1>1, <1>2, AppendProperties
<1>4. \A j \in 1..(Len(dueQueue) + 1) : j # Len(dueQueue) + 1 => j \in DOMAIN dueQueue
  BY <1>2
<1>5. \A j \in DOMAIN dueQueue : dueQueue[j] # o
  BY <1>1 DEF Due
<1>6. DueInv'
  <2>1. ASSUME NEW j \in DOMAIN dueQueue', NEW l \in DOMAIN dueQueue', dueQueue'[j] = dueQueue'[l]
        PROVE  j = l
    BY <1>1, <1>3, <1>4, <1>5, <2>1 DEF DueInv
  <2> QED BY <1>3, <2>1 DEF DueInv
<1>7. \A p : Due(p)' => Due(p) \/ p = o
  BY <1>3, <1>4 DEF Due
<1>8. QueryInv'
  <2>1. ASSUME NEW k \in Checkers, checker[k].stage = "query", Due(checker[k].todo[1])'
        PROVE  FALSE
    BY <1>1, <1>7, <2>1 DEF QueryInv
  <2> QED BY <1>1, <2>1 DEF QueryInv, OneQueryPerOrder, Due
<1> QED BY <1>1, <1>6, <1>8 DEF TodoInv

LEMMA ChecksNext == CheckInvs /\ [Next]_vars => CheckInvs'
<1> SUFFICES ASSUME CheckInvs, [Next]_vars PROVE DueInv' /\ TodoInv' /\ QueryInv'
  BY NextInv DEF CheckInvs
<1>1. CASE UNCHANGED <<dueQueue, checker>>
  BY <1>1, ChecksKept DEF CheckInvs
<1>2. ASSUME NEW r \in Requests,
             \/ CreateLock(r) \/ CreateRead(r) \/ CreateInsert(r) \/ CreateAborts(r)
             \/ Trade(r) \/ Expires(r) \/ \E seen \in Reports : Notify(r, seen)
      PROVE  UNCHANGED <<dueQueue, checker>>
  BY <1>2 DEF CreateLock, CreateRead, CreateInsert, CreateAborts, Trade, Expires, Notify,
              orderVars
<1>3. ASSUME NEW m \in Merchants, ChangeMerchant(m)
      PROVE  DueInv' /\ TodoInv' /\ QueryInv'
  <2>1. dueQueue' = dueQueue /\ \A k \in Checkers : checker'[k] = Idle
    BY <1>3 DEF ChangeMerchant, orderVars
  <2>2. Idle.todo \in Seq(Requests) /\ Idle.stage = "idle"
    BY EmptySeq DEF Idle
  <2>3. TodoInv' /\ QueryInv'
    BY <2>1, <2>2 DEF TodoInv, QueryInv, OneQueryPerOrder
  <2> QED BY <2>1, <2>3 DEF CheckInvs, DueInv
<1>4. CASE UNCHANGED vars
  BY <1>1, <1>4 DEF vars
<1> QED BY <1>1, <1>2, <1>3, <1>4, BecomesDueChecks, CheckChecks DEF Next

\* The inductive invariant with the orders that are due and those that
\* checkers have taken up.
THEOREM ChecksInvariant == Spec => []CheckInvs
BY InitChecks, ChecksNext, PTL DEF Spec

\* The type invariant: no order is due twice, and a checker at work has an
\* order at hand.
THEOREM PaymentsTypeCorrect == Spec => []TypeOK
<1>1. CheckInvs => TypeOK
  <2> SUFFICES ASSUME CheckInvs PROVE TypeOK
    OBVIOUS
  <2>1. Types /\ DueInv /\ TodoInv
    BY DEF CheckInvs, PayInv, OrdersInv
  <2>2. checker \in [Checkers -> [stage: {"idle", "claim", "query", "apply"},
                                  todo: Seq(Requests), seen: Reports]]
    <3>1. /\ checker = [k \in Checkers |-> checker[k]]
          /\ \A k \in Checkers : Shape(checker[k]) /\ checker[k].todo \in Seq(Requests)
      BY <2>1 DEF CheckInvs, PayInv, ChecksBacked, TodoInv
    <3>2. \A k \in Checkers : checker[k] \in [stage: {"idle", "claim", "query", "apply"},
                                              todo: Seq(Requests), seen: Reports]
      BY <3>1 DEF Shape
    <3> QED BY <3>1, <3>2
  <2>3. credits \in [Requests -> 0..2]
    BY <2>1 DEF Types
  <2> QED BY <2>1, <2>2, <2>3 DEF TypeOK, Types, DueInv
<1> QED BY <1>1, ChecksInvariant, PTL

\* checkPayment: the conditional update of next_check_at lets one checker at
\* a time ask the provider about an order.
THEOREM OneAsksAtATime == Spec => []OneQueryPerOrder
<1>1. CheckInvs => OneQueryPerOrder
  BY DEF CheckInvs, QueryInv
<1> QED BY <1>1, ChecksInvariant, PTL

-----------------------------------------------------------------------------
(* The abstract top-up.                                                    *)

\* An order is closed when its trade is over, which no payment can follow.
ClosedIsOver == \A o \in Requests : order[o].status = "closed" => trade[o] \in OverTrades

Tops == [o \in Requests |-> TopUp(order[o])]
Banks == [o \in Requests |-> Bank(trade[o])]
Answers == [r \in Requests |-> Told(req[r])]

OrderRec == [status: OrderStatus, expired: BOOLEAN, merchant: Merchants, link: BOOLEAN]

\* What the abstract variables see of one order, one trade and one request.
LEMMA TopsSet ==
  ASSUME NEW o \in Requests, NEW x, order \in [Requests -> OrderRec],
         order' = [order EXCEPT ![o] = x]
  PROVE  Tops' = [Tops EXCEPT ![o] = TopUp(x)]
BY DEF Tops

LEMMA TopsKept ==
  ASSUME \A o \in Requests : /\ order'[o].status = order[o].status
                             /\ order'[o].expired = order[o].expired
  PROVE  Tops' = Tops
BY DEF Tops, TopUp

LEMMA AnswersKept ==
  ASSUME \A r \in Requests : \/ req'[r] = req[r]
                             \/ req[r].stage # "done" /\ req'[r].stage # "done"
  PROVE  Answers' = Answers
BY DEF Answers, Told

\* How the types give those of one order.
LEMMA OneOrder ==
  ASSUME PayInv, NEW o \in Requests
  PROVE  /\ order \in [Requests -> OrderRec] /\ order[o] \in OrderRec
         /\ trade \in [Requests -> TradeStatus] /\ trade[o] \in TradeStatus
         /\ req \in [Requests -> [stage: Stages, answer: Requests \cup {NoOne}]]
         /\ credits \in [Requests -> {0, 1}]
BY DEF PayInv, OrdersInv, Types, OrderRec

\* What an order is for the workspace, and what its trade is for the buyer.
LEMMA TopUpCases ==
  ASSUME NEW x \in OrderRec
  PROVE  /\ TopUp(x) \in {"none", "open", "lapsed", "paid", "closed"}
         /\ TopUp(x) = "open" <=> x.status = "pending" /\ ~x.expired
         /\ TopUp(x) = "lapsed" <=> x.status = "pending" /\ x.expired
         /\ \A s \in {"none", "paid", "closed"} : TopUp(x) = s <=> x.status = s
BY DEF TopUp, OrderRec, OrderStatus

LEMMA BankCases ==
  ASSUME NEW t \in TradeStatus
  PROVE  /\ Bank(t) \in {"unpaid", "paid", "returned", "void"}
         /\ Bank(t) = "unpaid" <=> t \in {"none", "waiting"}
         /\ Bank(t) = "paid" <=> t \in {"success", "finished"}
         /\ Bank(t) = "returned" <=> t = "refunded"
         /\ Bank(t) = "void" <=> t = "timedout"
BY DEF Bank, TradeStatus

\* A step of the abstract top-up, or none.
LEMMA Steps ==
  ASSUME \/ UNCHANGED <<Tops, Banks, credits, Answers>>
         \/ \E o \in Requests :
              \/ Abstract!Open(o) \/ Abstract!Tell(o) \/ Abstract!Lapse(o)
              \/ Abstract!Buyer(o) \/ Abstract!Credit(o) \/ Abstract!Close(o)
  PROVE  [Abstract!Next]_(Abstract!topUpVars)
<1>1. CASE UNCHANGED Abstract!topUpVars
  BY <1>1
<1>2. CASE ~UNCHANGED Abstract!topUpVars
  <2>1. ~UNCHANGED <<Tops, Banks, credits, Answers>>
    BY <1>2 DEF Abstract!topUpVars, Tops, Banks, Answers
  <2> QED BY <1>2, <2>1 DEF Abstract!Next
<1> QED BY <1>1, <1>2

\* CreateInsert opens the order of its key.
LEMMA InsertOpens ==
  ASSUME PayInv, NEW r \in Requests, CreateInsert(r), SameKey(r) = {}
  PROVE  Abstract!Open(r)
<1> DEFINE new == [status |-> "pending", expired |-> FALSE, merchant |-> merchant, link |-> TRUE]
<1>1. /\ order' = [order EXCEPT ![r] = new] /\ new \in OrderRec
      /\ req' = [req EXCEPT ![r] = [stage |-> "done", answer |-> r]]
      /\ trade' = trade /\ credits' = credits
  BY DEF CreateInsert, externalVars, PayInv, OrdersInv, Types, OrderRec, OrderStatus
<1>2. TopUp(new) = "open"
  BY DEF TopUp
<1> HIDE DEF new
<1>3. Tops' = [Tops EXCEPT ![r] = "open"]
  BY <1>1, <1>2, OneOrder, TopsSet
<1>4. \A p \in Requests : RequestKey[p] = RequestKey[r] => Tops[p] = "none"
  <2> SUFFICES ASSUME NEW p \in Requests, RequestKey[p] = RequestKey[r]
               PROVE  Tops[p] = "none"
    OBVIOUS
  <2>1. order[p].status = "none"
    BY DEF SameKey, Exists
  <2> QED BY <2>1, OneOrder, TopUpCases DEF Tops
<1>5. Cardinality({p \in Requests : Tops[p] = "open"}) < MaxPending
  <2>1. {p \in Requests : Tops[p] = "open"} = OpenOrders
    BY OneOrder, TopUpCases DEF Tops, OpenOrders
  <2>2. BelowCap
    BY DEF CreateInsert, PayInv, OrdersInv, RoomForOne
  <2> QED BY <2>1, <2>2 DEF BelowCap
<1>6. Answers' = [Answers EXCEPT ![r] = r]
  <2>1. Told([stage |-> "done", answer |-> r]) = r
    BY DEF Told
  <2>2. \A q \in Requests : req'[q] = IF q = r THEN [stage |-> "done", answer |-> r] ELSE req[q]
    BY <1>1, OneOrder
  <2> QED BY <2>1, <2>2 DEF Answers
<1>7. Banks' = Banks
  BY <1>1 DEF Banks
<1>8. \A S : Abstract!Cardinality(S) = Cardinality(S)
  BY Zenon DEF Cardinality, Abstract!Cardinality
<1> QED
  BY <1>1, <1>3, <1>4, <1>5, <1>6, <1>7, <1>8 DEF Abstract!Open, Tops, Banks, Answers

\* A repeated request is answered, or refused.
LEMMA ReadTells ==
  ASSUME PayInv, NEW r \in Requests, NEW o \in SameKey(r),
         req[r].stage = "locked", SameAmount(r, o), Answer(r, o), UNCHANGED <<credits, trade>>
  PROVE  Abstract!Tell(r) \/ UNCHANGED <<Tops, Banks, credits, Answers>>
<1>1. o \in Requests /\ Exists(o) /\ RequestKey[o] = RequestKey[r] /\ RequestAmount[o] = RequestAmount[r]
  BY DEF SameKey, SameAmount
<1>2. Tops' = Tops
  <2>1. PICK b : order' = [order EXCEPT ![o].link = b]
    BY DEF Answer
  <2>2. \A p \in Requests : order'[p].status = order[p].status /\ order'[p].expired = order[p].expired
    BY <1>1, <2>1, OneOrder DEF OrderRec
  <2> QED BY <2>2, TopsKept
<1>3. Banks' = Banks
  BY DEF Banks
<1>4. PICK s \in {"refused", "done"} : req' = [req EXCEPT ![r] = [stage |-> s, answer |-> o]]
  BY DEF Answer
<1>5. req'[r] = [stage |-> s, answer |-> o] /\ \A q \in Requests \ {r} : req'[q] = req[q]
  BY <1>4, OneOrder
<1>6. CASE s = "refused"
  <2>1. Answers' = Answers
    BY <1>5, <1>6, AnswersKept
  <2> QED BY <1>2, <1>3, <2>1
<1>7. CASE s = "done"
  <2>1. Answers' = [Answers EXCEPT ![r] = o] /\ Answers[r] = NoOne /\ Answers'[r] = o
    <3>1. Told(req[r]) = NoOne
      BY DEF Told
    <3>2. Told([stage |-> "done", answer |-> o]) = o
      BY DEF Told
    <3>3. Answers[r] = NoOne /\ Answers'[r] = o
      BY <1>5, <1>7, <3>1, <3>2 DEF Answers
    <3>4. \A q \in Requests \ {r} : Told(req'[q]) = Told(req[q])
      BY <1>5
    <3> QED BY <1>5, <1>7, <3>2, <3>3, <3>4 DEF Answers
  <2>2. Tops[o] # "none"
    BY <1>1, OneOrder, TopUpCases DEF Tops, Exists
  <2> QED BY <1>1, <1>2, <1>3, <2>1, <2>2 DEF Abstract!Tell, Tops, Banks, Answers
<1> QED BY <1>6, <1>7

\* The provider's trade moves as the buyer acts.
LEMMA TradeBuys ==
  ASSUME PayInv, ClosedIsOver, NEW o \in Requests, Trade(o)
  PROVE  Abstract!Buyer(o) \/ UNCHANGED <<Tops, Banks, credits, Answers>>
<1>1. PICK s \in TradeMoves(trade[o], o) :
         trade' = [trade EXCEPT ![o] = s] /\ UNCHANGED <<req, order, credits>>
  BY DEF Trade, orderVars
<1>2. /\ trade[o] \in TradeStatus /\ order[o] \in OrderRec /\ s \in TradeStatus
      /\ trade[o] = "none" => s = "waiting"
      /\ trade[o] = "waiting" => s = "timedout" \/ (s = "success" /\ ~order[o].expired)
      /\ trade[o] = "success" => s \in {"finished", "refunded"}
      /\ trade[o] \in {"none", "waiting", "success"}
  BY <1>1, OneOrder DEF TradeMoves, TradeStatus
<1>3. Tops' = Tops /\ Answers' = Answers
  BY <1>1 DEF Tops, Answers
<1>4. Banks' = [Banks EXCEPT ![o] = Bank(s)]
  BY <1>1, OneOrder DEF Banks
<1>5. Banks[o] = Bank(trade[o])
  BY DEF Banks
<1>6. CASE Bank(s) = Bank(trade[o])
  <2>1. Banks' = Banks
    BY <1>4, <1>5, <1>6 DEF Banks
  <2> QED BY <1>1, <1>3, <2>1
<1>7. CASE trade[o] = "waiting"
  <2>1. order[o].status \in {"pending", "paid", "closed"}
    BY <1>2, <1>7 DEF PayInv, OrdersInv, TradesExist, Exists, OrderRec, OrderStatus
  <2>2. order[o].status = "pending"
    BY <1>7, <2>1 DEF PayInv, OrdersInv, PaidIffCredited, CreditsArePaidFor, ClosedIsOver, OverTrades
  <2>3. Banks[o] = "unpaid"
    BY <1>2, <1>5, <1>7, BankCases
  <2>4. Tops[o] = TopUp(order[o])
    BY DEF Tops
  <2>5. CASE s = "timedout"
    <3>1. Bank(s) = "void" /\ Tops[o] # "none"
      BY <1>2, <2>2, <2>4, <2>5, BankCases, TopUpCases
    <3> QED BY <1>1, <1>3, <1>4, <2>3, <3>1 DEF Abstract!Buyer, Tops, Banks, Answers
  <2>6. CASE s = "success" /\ ~order[o].expired
    <3>1. Bank(s) = "paid" /\ Tops[o] = "open"
      BY <1>2, <2>2, <2>4, <2>6, BankCases, TopUpCases
    <3> QED BY <1>1, <1>3, <1>4, <2>3, <3>1 DEF Abstract!Buyer, Tops, Banks, Answers
  <2> QED BY <1>2, <1>7, <2>5, <2>6
<1>8. CASE trade[o] = "success" /\ s = "refunded"
  <2>1. Bank(s) = "returned" /\ Banks[o] = "paid"
    BY <1>2, <1>5, <1>8, BankCases
  <2> QED BY <1>1, <1>3, <1>4, <2>1 DEF Abstract!Buyer, Tops, Banks, Answers
<1> QED BY <1>2, <1>6, <1>7, <1>8, BankCases

\* ApplyPayment credits, closes, or does nothing.
LEMMA ApplyCredits ==
  ASSUME PayInv, ClosedIsOver, NEW o, NEW seen, ApplyPayment(o, seen),
         o \in Requests => Backed(o, seen), UNCHANGED <<req, trade>>
  PROVE  \/ UNCHANGED <<Tops, Banks, credits, Answers>>
         \/ o \in Requests /\ (Abstract!Credit(o) \/ Abstract!Close(o))
<1>1. Banks' = Banks /\ Answers' = Answers
  BY DEF Banks, Answers
<1>2. CASE UNCHANGED <<order, credits>>
  <2>1. Tops' = Tops
    BY <1>2 DEF Tops
  <2> QED BY <1>1, <1>2, <2>1
<1>3. CASE o \notin Requests
  <2>1. order \in [Requests -> OrderRec] /\ credits \in [Requests -> {0, 1}]
    BY DEF PayInv, OrdersInv, Types, OrderRec
  <2>2. order' = order /\ credits' = credits
    BY <1>3, <2>1 DEF ApplyPayment
  <2> QED BY <1>2, <2>2
<1>4. CASE o \in Requests /\ ~UNCHANGED <<order, credits>>
  <2>1. PICK s \in {"paid", "closed"} :
           /\ order' = [order EXCEPT ![o].status = s]
           /\ order[o].status # "paid"
           /\ s = "paid" => credits' = [credits EXCEPT ![o] = @ + 1] /\ Succeeded(seen)
           /\ s = "closed" => credits' = credits /\ seen = "TRADE_CLOSED"
    BY <1>4 DEF ApplyPayment, AlreadyPaid
  <2> DEFINE new == [order[o] EXCEPT !.status = s]
  <2>2. order[o] \in OrderRec /\ new \in OrderRec /\ new.status = s
    BY <1>4, OneOrder DEF OrderRec, OrderStatus
  <2>3. order' = [order EXCEPT ![o] = new]
    BY <2>1
  <2>4. TopUp(new) = s
    BY <2>2, TopUpCases
  <2> HIDE DEF new
  <2>5. Tops' = [Tops EXCEPT ![o] = s]
    BY <1>4, <2>3, <2>4, OneOrder, TopsSet
  <2>6. /\ Tops[o] = TopUp(order[o]) /\ Banks[o] = Bank(trade[o]) /\ Exists(o)
        /\ trade[o] \in TradeStatus
    BY <1>4, OneOrder DEF Tops, Banks, Backed, PayInv, OrdersInv, TradesExist
  <2>7. Tops[o] \notin {"none", "paid"}
    BY <2>1, <2>2, <2>6, TopUpCases DEF Exists
  <2>8. CASE s = "paid"
    <3>1. Banks[o] \in {"paid", "returned"}
      BY <1>4, <2>1, <2>6, <2>8, BankCases DEF Backed, PaidTrades
    <3> QED BY <1>1, <1>4, <2>1, <2>5, <2>7, <2>8, <3>1 DEF Abstract!Credit, Tops, Banks, Answers
  <2>9. CASE s = "closed"
    <3>1. Banks[o] \in {"void", "returned"}
      BY <1>4, <2>1, <2>6, <2>9, BankCases DEF Backed, OverTrades
    <3>2. CASE Tops[o] \in {"open", "lapsed"}
      BY <1>1, <1>4, <2>1, <2>5, <2>9, <3>1, <3>2 DEF Abstract!Close, Tops, Banks, Answers
    <3>3. CASE Tops[o] = "closed"
      <4>1. Tops' = Tops
        BY <1>4, <2>5, <2>9, <3>3 DEF Tops
      <4> QED BY <1>1, <2>1, <2>9, <4>1
    <3> QED BY <2>2, <2>6, <2>7, <3>2, <3>3, TopUpCases
  <2> QED BY <2>8, <2>9
<1> QED BY <1>2, <1>3, <1>4

LEMMA ExpiresLapses ==
  ASSUME PayInv, NEW o \in Requests, Expires(o)
  PROVE  Abstract!Lapse(o)
<1> DEFINE new == [order[o] EXCEPT !.expired = TRUE]
<1>1. /\ order[o] \in OrderRec /\ new \in OrderRec
      /\ new.status = order[o].status /\ new.expired
  BY OneOrder DEF OrderRec
<1>2. order' = [order EXCEPT ![o] = new] /\ UNCHANGED <<req, trade, credits>>
  BY DEF Expires, externalVars
<1>3. order[o].status = "pending" /\ ~order[o].expired
  BY DEF Expires, IsPending
<1>4. TopUp(new) = "lapsed" /\ TopUp(order[o]) = "open"
  BY <1>1, <1>3, TopUpCases
<1> HIDE DEF new
<1>5. Tops' = [Tops EXCEPT ![o] = "lapsed"] /\ Tops[o] = "open"
  <2>1. Tops' = [Tops EXCEPT ![o] = "lapsed"]
    BY <1>2, <1>4, OneOrder, TopsSet
  <2> QED BY <1>4, <2>1 DEF Tops
<1>6. Banks' = Banks /\ Answers' = Answers
  BY <1>2 DEF Banks, Answers
<1> QED BY <1>2, <1>5, <1>6 DEF Abstract!Lapse, Tops, Banks, Answers

\* Everything else is invisible to the abstract top-up.
LEMMA Unseen ==
  ASSUME UNCHANGED <<order, trade, credits>>, Answers' = Answers
  PROVE  UNCHANGED <<Tops, Banks, credits, Answers>>
BY DEF Tops, Banks

LEMMA ClosedStep == PayInv /\ PayInv' /\ ClosedIsOver /\ [Next]_vars => ClosedIsOver'
<1> SUFFICES ASSUME PayInv, PayInv', ClosedIsOver, [Next]_vars, NEW o \in Requests,
                    order'[o].status = "closed"
             PROVE  trade'[o] \in OverTrades
  BY DEF ClosedIsOver
<1>0. order[o] \in OrderRec /\ order \in [Requests -> OrderRec]
  BY OneOrder
<1>1. ASSUME trade' = trade, order[o].status = "closed" PROVE trade'[o] \in OverTrades
  BY <1>1 DEF ClosedIsOver
<1>2. ASSUME NEW p, NEW seen, ApplyPayment(p, seen), p \in Requests => Backed(p, seen), trade' = trade
      PROVE  trade'[o] \in OverTrades
  <2>1. CASE order[o].status = "closed"
    BY <1>1, <1>2, <2>1
  <2>2. CASE order[o].status # "closed"
    <3>1. p = o /\ seen = "TRADE_CLOSED"
      BY <1>0, <1>2, <2>2 DEF ApplyPayment, OrderRec
    <3> QED BY <1>2, <3>1 DEF Backed
  <2> QED BY <2>1, <2>2
<1>3. ASSUME NEW p \in Requests, Trade(p) PROVE trade'[o] \in OverTrades
  <2>1. trade[o] \in OverTrades
    BY <1>3 DEF Trade, orderVars, ClosedIsOver
  <2>2. PICK s \in TradeMoves(trade[p], p) : trade' = [trade EXCEPT ![p] = s]
    BY <1>3 DEF Trade
  <2>3. p # o
    BY <2>1, <2>2 DEF TradeMoves, OverTrades
  <2> QED BY <2>1, <2>2, <2>3, OneOrder
<1>4. ASSUME NEW p \in Requests, NEW seen \in Reports, Notify(p, seen) PROVE trade'[o] \in OverTrades
  BY <1>2, <1>4 DEF Notify, externalVars, PayInv, OrdersInv, NoticesBacked
<1>5. ASSUME NEW k \in Checkers, CheckApplies(k) PROVE trade'[o] \in OverTrades
  BY <1>2, <1>5 DEF CheckApplies, externalVars, PayInv, ChecksBacked
<1>6. ASSUME NEW k \in Checkers, Check(k), ~CheckApplies(k) PROVE trade'[o] \in OverTrades
  BY <1>1, <1>6 DEF Check, Claim, QueryAnswers, QueryFails, CheckerDies,
                    ReconcilePayments, PaymentOrder, orderVars, externalVars
<1>7. ASSUME NEW r \in Requests, CreateRead(r) PROVE trade'[o] \in OverTrades
  <2>1. trade' = trade /\ order'[o].status = order[o].status
    BY <1>0, <1>7 DEF CreateRead, Answer, SameKey, externalVars, OrderRec
  <2> QED BY <1>1, <2>1
<1>8. ASSUME NEW r \in Requests, CreateInsert(r) PROVE trade'[o] \in OverTrades
  <2>1. trade' = trade
    BY <1>8 DEF CreateInsert, externalVars
  <2>2. CASE order' = order
    BY <1>1, <2>1, <2>2
  <2>3. CASE order' # order
    <3>1. order' = [order EXCEPT ![r] = [status |-> "pending", expired |-> FALSE, merchant |-> merchant,
                   link |-> TRUE]]
      BY <1>8, <2>3 DEF CreateInsert
    <3>2. r # o
      BY <1>0, <3>1
    <3> QED BY <1>0, <1>1, <2>1, <3>1, <3>2
  <2> QED BY <2>2, <2>3
<1>9. ASSUME NEW p \in Requests, Expires(p) PROVE trade'[o] \in OverTrades
  BY <1>0, <1>1, <1>9 DEF Expires, externalVars, OrderRec
<1>10. ASSUME NEW r \in Requests, CreateLock(r) \/ CreateAborts(r) \/ BecomesDue(r)
       PROVE  trade'[o] \in OverTrades
  BY <1>1, <1>10 DEF CreateLock, CreateAborts, BecomesDue, orderVars, externalVars
<1>11. ASSUME NEW m \in Merchants, ChangeMerchant(m) PROVE trade'[o] \in OverTrades
  BY <1>1, <1>11 DEF ChangeMerchant, orderVars
<1>12. CASE UNCHANGED vars
  BY <1>1, <1>12 DEF vars
<1> QED BY <1>3, <1>4, <1>5, <1>6, <1>7, <1>8, <1>9, <1>10, <1>11, <1>12 DEF Next

\* Each step of the orders is one of the abstract top-up, or none.
LEMMA OrdersStep ==
  ASSUME PayInv, ClosedIsOver, [Next]_vars
  PROVE  [Abstract!Next]_(Abstract!topUpVars)
<1>1. ASSUME NEW r \in Requests, CreateLock(r) \/ CreateAborts(r) \/ BecomesDue(r)
      PROVE  UNCHANGED <<Tops, Banks, credits, Answers>>
  <2>1. UNCHANGED <<order, trade, credits>>
    BY <1>1 DEF CreateLock, CreateAborts, BecomesDue, orderVars, externalVars
  <2>2. Answers' = Answers
    <3>1. \A q \in Requests : \/ req'[q] = req[q]
                              \/ req[q].stage # "done" /\ req'[q].stage # "done"
      BY <1>1, OneOrder DEF CreateLock, CreateAborts, BecomesDue
    <3> QED BY <3>1, AnswersKept
  <2> QED BY <2>1, <2>2, Unseen
<1>2. ASSUME NEW r \in Requests, CreateRead(r)
      PROVE  Abstract!Tell(r) \/ UNCHANGED <<Tops, Banks, credits, Answers>>
  <2>1. CASE \E o \in SameKey(r) : SameAmount(r, o) /\ Answer(r, o)
    BY <1>2, <2>1, ReadTells DEF CreateRead, externalVars
  <2>2. CASE /\ UNCHANGED order
             /\ \E s \in {"insert", "refused"} : req' = [req EXCEPT ![r].stage = s]
    <3>1. \A q \in Requests : \/ req'[q] = req[q]
                              \/ req[q].stage # "done" /\ req'[q].stage # "done"
      BY <1>2, <2>2, OneOrder DEF CreateRead
    <3>2. UNCHANGED <<order, trade, credits>>
      BY <1>2, <2>2 DEF CreateRead, externalVars
    <3> QED BY <3>1, <3>2, AnswersKept, Unseen
  <2> QED BY <1>2, <2>1, <2>2 DEF CreateRead
<1>3. ASSUME NEW r \in Requests, CreateInsert(r)
      PROVE  Abstract!Open(r) \/ UNCHANGED <<Tops, Banks, credits, Answers>>
  <2>1. CASE SameKey(r) = {}
    BY <1>3, <2>1, InsertOpens
  <2>2. CASE SameKey(r) # {}
    <3>1. \A q \in Requests : \/ req'[q] = req[q]
                              \/ req[q].stage # "done" /\ req'[q].stage # "done"
      BY <1>3, <2>2, OneOrder DEF CreateInsert
    <3>2. UNCHANGED <<order, trade, credits>>
      BY <1>3, <2>2 DEF CreateInsert, externalVars
    <3> QED BY <3>1, <3>2, AnswersKept, Unseen
  <2> QED BY <2>1, <2>2
<1>4. ASSUME NEW o \in Requests, NEW seen \in Reports, Notify(o, seen)
      PROVE  \/ UNCHANGED <<Tops, Banks, credits, Answers>>
             \/ Abstract!Credit(o) \/ Abstract!Close(o)
  <2>1. Backed(o, seen) /\ ApplyPayment(o, seen) /\ UNCHANGED <<req, trade>>
    BY <1>4 DEF Notify, externalVars, PayInv, OrdersInv, NoticesBacked
  <2> QED BY <2>1, ApplyCredits
<1>5. ASSUME NEW k \in Checkers, CheckApplies(k)
      PROVE  \/ UNCHANGED <<Tops, Banks, credits, Answers>>
             \/ \E o \in Requests : Abstract!Credit(o) \/ Abstract!Close(o)
  <2> DEFINE o == checker[k].todo[1]
             seen == checker[k].seen
  <2>1. /\ o \in Requests => Backed(o, seen)
        /\ ApplyPayment(o, seen) /\ UNCHANGED <<req, trade>>
    BY <1>5 DEF CheckApplies, externalVars, PayInv, ChecksBacked
  <2> HIDE DEF o, seen
  <2> QED BY <2>1, ApplyCredits
<1>6. ASSUME NEW k \in Checkers, Check(k), ~CheckApplies(k)
      PROVE  UNCHANGED <<Tops, Banks, credits, Answers>>
  <2>1. UNCHANGED <<order, trade, credits, req>>
    BY <1>6 DEF Check, Claim, QueryAnswers, QueryFails, CheckerDies,
                ReconcilePayments, PaymentOrder, orderVars, externalVars
  <2> QED BY <2>1, Unseen DEF Answers
<1>7. ASSUME NEW m \in Merchants, ChangeMerchant(m)
      PROVE  UNCHANGED <<Tops, Banks, credits, Answers>>
  <2>1. \A q \in Requests : \/ req'[q] = req[q]
                            \/ req[q].stage # "done" /\ req'[q].stage # "done"
    BY <1>7, OneOrder DEF ChangeMerchant
  <2> QED BY <1>7, <2>1, AnswersKept, Unseen DEF ChangeMerchant, orderVars
<1>8. CASE UNCHANGED vars
  BY <1>8, Unseen, Steps DEF vars, Answers
<1>9. CASE Next
  BY <1>1, <1>2, <1>3, <1>4, <1>5, <1>6, <1>7, <1>9, TradeBuys, ExpiresLapses, Steps DEF Next
<1> QED BY <1>8, <1>9

\* The top-up orders implement the abstract top-up.
THEOREM PaymentsImplementTopUps == Spec => ImplementsTopUps
<1>1. Init => Abstract!Init
  <2> SUFFICES ASSUME Init PROVE Abstract!Init
    OBVIOUS
  <2>1. \A o \in Requests : TopUp(order[o]) = "none" /\ Bank(trade[o]) = "unpaid" /\ Told(req[o]) = NoOne
    BY DEF Init, TopUp, Bank, Told
  <2> QED BY <2>1 DEF Init, Abstract!Init
<1>2. Init => ClosedIsOver
  BY DEF Init, ClosedIsOver
<1> QED
  BY <1>1, <1>2, ClosedStep, OrdersStep, PaymentsInvariant, PTL DEF Spec, ImplementsTopUps, Abstract!Spec
=============================================================================
