-------------------------- MODULE MCPaymentLedger --------------------------
(* Instances of PaymentLedger for TLC. *)
EXTENDS PaymentLedger, TLC

RequestSymmetry == Permutations(Request)
=============================================================================
