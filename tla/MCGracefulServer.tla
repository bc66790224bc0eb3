-------------------------- MODULE MCGracefulServer --------------------------
(* Instance of GracefulServer for model checking. *)
EXTENDS GracefulServer, TLC

CONSTANT c1

=============================================================================
