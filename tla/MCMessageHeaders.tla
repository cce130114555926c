-------------------------- MODULE MCMessageHeaders --------------------------
(* A small instance of MessageHeaders.  The keys are in the order of       *)
(* clients (1), content-length (2), content-type (3), destination (4),     *)
(* destination-name (5), message-id (6), subscription (7), websockets (8); *)
(* a client may send any of them.                                          *)
EXTENDS MessageHeaders

(* A query that is not understood, and two figures of the one for sessions. *)
MCQueries == {<<>>, <<1, 8>>}

=============================================================================
