-------------------------- MODULE MCFritzpayDriver --------------------------
(* Instances of FritzpayDriver for TLC. *)
EXTENDS FritzpayDriver, TLC

RequestSymmetry == Permutations(Request)
=============================================================================
