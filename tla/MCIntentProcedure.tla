------------------------- MODULE MCIntentProcedure -------------------------
(* Instances of IntentProcedure for TLC: liveness is checked with every    *)
(* invariant, so no symmetry is declared.                                  *)
EXTENDS IntentProcedure
=============================================================================
