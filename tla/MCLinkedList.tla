---------------------------- MODULE MCLinkedList ----------------------------
(* A small instance of LinkedList. *)
EXTENDS LinkedList

CONSTANTS d1, d2, c1, c2, c3, c4

=============================================================================
