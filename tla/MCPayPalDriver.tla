--------------------------- MODULE MCPayPalDriver ---------------------------
(* Instances of PayPalDriver for TLC. *)
EXTENDS PayPalDriver, TLC

DriverSymmetry == Permutations(Payer) \cup Permutations(Returner)
=============================================================================
