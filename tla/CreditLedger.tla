---------------------------- MODULE CreditLedger ----------------------------
(***************************************************************************)
(* What a prepaid wallet promises, without locks, statements or crashes:   *)
(* a charge is authorised only within the granted credit, may then only    *)
(* shrink, and stops changing once it is closed.  BillingWallet implements *)
(* this specification (docs/BILLING.md: the local balance is the only      *)
(* ground for admission; the real charge never exceeds the authorised      *)
(* one).                                                                   *)
(***************************************************************************)
EXTENDS Naturals, FiniteSets

CONSTANTS
    Wallets,
    Charges,    \* a finite set
    Owner,      \* the wallet of each charge
    MaxCharge   \* bound: largest amount of a charge

VARIABLES granted, amount, phase

ledgerVars == <<granted, amount, phase>>

Total(w) ==
    Cardinality({p \in Charges \X (1..MaxCharge) :
                   Owner[p[1]] = w /\ p[2] <= amount[p[1]]})

Init ==
    /\ granted = [w \in Wallets |-> 0]
    /\ amount = [i \in Charges |-> 0]
    /\ phase = [i \in Charges |-> "absent"]

\* Credit is only ever added.
Fund(w) ==
    /\ granted'[w] > granted[w]
    /\ granted' = [granted EXCEPT ![w] = granted'[w]]
    /\ UNCHANGED <<amount, phase>>

\* A new charge must fit the credit left.
Authorise(i, n) ==
    /\ phase[i] = "absent"
    /\ Total(Owner[i]) + n <= granted[Owner[i]]
    /\ amount' = [amount EXCEPT ![i] = n]
    /\ phase' = [phase EXCEPT ![i] = "open"]
    /\ UNCHANGED granted

\* An open charge is closed at its amount or less.
Close(i, n) ==
    /\ phase[i] = "open"
    /\ n <= amount[i]
    /\ amount' = [amount EXCEPT ![i] = n]
    /\ phase' = [phase EXCEPT ![i] = "closed"]
    /\ UNCHANGED granted

Next ==
    \/ \E w \in Wallets : Fund(w)
    \/ \E i \in Charges, n \in 0..MaxCharge : Authorise(i, n) \/ Close(i, n)

Spec == Init /\ [][Next]_ledgerVars
=============================================================================
