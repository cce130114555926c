----------------------------- MODULE MCShutdown -----------------------------
(* A small instance of Shutdown. *)
EXTENDS Shutdown

CONSTANTS w1, w2

=============================================================================
