------------------------- MODULE MCBillingPayments -------------------------
(* Instances of BillingPayments for TLC.                                   *)
EXTENDS BillingPayments

CONSTANTS r1, r2, r3

\* r1 and r2 are a click and its retry; r3 is another top-up.
MCKey == [r \in Requests |-> IF r = r3 THEN "other" ELSE "click"]
\* The retry asks for another amount.
MCRetryAmount == [r \in Requests |-> IF r = r2 THEN 5000 ELSE 1000]
MCEqualAmount == [r \in Requests |-> 1000]
\* Each request is a top-up of its own.
MCOwnKey == [r \in Requests |-> r]
=============================================================================
