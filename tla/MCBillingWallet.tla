-------------------------- MODULE MCBillingWallet --------------------------
(* Instances of BillingWallet for TLC: two calls of one workspace.         *)
EXTENDS BillingWallet

CONSTANTS w1, c1, c2

MCSharedTenant == [c \in Calls |-> w1]
MCAllChargeable == [c \in Calls |-> TRUE]
=============================================================================
