-------------------------- MODULE MCBillingOutbox --------------------------
(* Instances of BillingOutbox for TLC.                                     *)
EXTENDS BillingOutbox
=============================================================================
