------------------------------- MODULE TopUps -------------------------------
(***************************************************************************)
(* What topping up a workspace promises, without locks, notifications,     *)
(* queries or clocks: a key opens one order, within the cap; an order is   *)
(* credited once, and only when the buyer has paid for it; it is closed    *)
(* only when nobody will pay for it any more; whoever asks again under a   *)
(* key is told of the order of that key, if the amount is the same.        *)
(* BillingPayments implements this specification.                          *)
(***************************************************************************)
EXTENDS Naturals, FiniteSets

CONSTANTS
    Orders,     \* one for each request that may open one
    KeyOf,      \* the key of each request
    AmountOf,
    MaxOpen,    \* open orders at a time
    NoAnswer

VARIABLES
    top,       \* per order: what it is for the workspace
    bank,      \* per order: what the buyer did
    credited,  \* per order: how often its amount was granted
    answer     \* per request: the order its caller was told of

topUpVars == <<top, bank, credited, answer>>

Init ==
    /\ top = [o \in Orders |-> "none"]
    /\ bank = [o \in Orders |-> "unpaid"]
    /\ credited = [o \in Orders |-> 0]
    /\ answer = [r \in Orders |-> NoAnswer]

\* Only one order per key, and no more than the cap.
Open(o) ==
    /\ \A p \in Orders : KeyOf[p] = KeyOf[o] => top[p] = "none"
    /\ Cardinality({p \in Orders : top[p] = "open"}) < MaxOpen
    /\ top' = [top EXCEPT ![o] = "open"]
    /\ answer' = [answer EXCEPT ![o] = o]
    /\ UNCHANGED <<bank, credited>>

\* The order that was opened under the key, not one for another amount.
Tell(r) ==
    /\ answer[r] = NoAnswer
    /\ \E o \in Orders :
         /\ top[o] # "none" /\ KeyOf[o] = KeyOf[r] /\ AmountOf[o] = AmountOf[r]
         /\ answer' = [answer EXCEPT ![r] = o]
    /\ UNCHANGED <<top, bank, credited>>

Lapse(o) ==
    /\ top[o] = "open"
    /\ top' = [top EXCEPT ![o] = "lapsed"]
    /\ UNCHANGED <<bank, credited, answer>>

\* The buyer pays for an open order, or never will, or has the money returned.
Buyer(o) ==
    /\ \/ bank[o] = "unpaid" /\ top[o] = "open" /\ bank' = [bank EXCEPT ![o] = "paid"]
       \/ bank[o] = "unpaid" /\ top[o] # "none" /\ bank' = [bank EXCEPT ![o] = "void"]
       \/ bank[o] = "paid" /\ bank' = [bank EXCEPT ![o] = "returned"]
    /\ UNCHANGED <<top, credited, answer>>

\* Money that was paid is granted once, however late that is learnt.
Credit(o) ==
    /\ top[o] \notin {"none", "paid"} /\ bank[o] \in {"paid", "returned"}
    /\ top' = [top EXCEPT ![o] = "paid"]
    /\ credited' = [credited EXCEPT ![o] = @ + 1]
    /\ UNCHANGED <<bank, answer>>

Close(o) ==
    /\ top[o] \in {"open", "lapsed"} /\ bank[o] \in {"void", "returned"}
    /\ top' = [top EXCEPT ![o] = "closed"]
    /\ UNCHANGED <<bank, credited, answer>>

\* Every step changes something.
Next ==
    /\ topUpVars' # topUpVars
    /\ \E o \in Orders : Open(o) \/ Tell(o) \/ Lapse(o) \/ Buyer(o) \/ Credit(o) \/ Close(o)

Spec == Init /\ [][Next]_topUpVars
=============================================================================
