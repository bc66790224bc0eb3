----------------------------- MODULE MCAdminAPI -----------------------------
(* Instance of AdminAPI for model checking. *)
EXTENDS AdminAPI, TLC

CONSTANTS r1, r2, r3

=============================================================================
