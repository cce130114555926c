---------------------------- MODULE MCWriterPool ----------------------------
(* Small instances of WriterPool. *)
EXTENDS WriterPool, TLC

CONSTANTS w1, w2, a, b

(* Nothing tells the writers from one another. *)
Symmetry == Permutations(Writers)

Stomp(n) == [length |-> n, http |-> FALSE]
Handshake(n) == [length |-> n, http |-> TRUE]

(* A frame as long as expected, and an answer that is one byte shorter for *)
(* a plain client and, at the limit of a form, longer for a WebSocket one. *)
MixedContents == {Stomp(1), Handshake(2)}
(* As long as expected for every client. *)
ShortContents == {Stomp(1)}
(* With the closing byte it needs a larger header than without. *)
BoundaryContents == {Stomp(2)}

=============================================================================
