----------------------- MODULE MCPaymentConfiguration -----------------------
(* Instances of PaymentConfiguration for TLC. *)
EXTENDS PaymentConfiguration, TLC

ConfigurationSymmetry == Permutations(Handler) \cup Permutations(Method)
=============================================================================
