--------------------------- MODULE MCPaymentSetup ---------------------------
(* Instances of PaymentSetup for TLC. *)
EXTENDS PaymentSetup, TLC

\* Displayed ids 6 and 3 for 1 and 2.
SmallKey == [prime |-> 3, xor |-> 5]
=============================================================================
