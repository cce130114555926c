---------------------------- MODULE GeneralList ----------------------------
(***************************************************************************)
(* The singly linked list of lib/general_list.c and lib/queue.c, as the    *)
(* broker uses it for subscriptions, stale messages and outgoing messages. *)
(* These lists lose elements anywhere, not only at the head, so a list is  *)
(* the set of its items; an item carries its data and its place.  A larger *)
(* `pos' is a place further from `first'; `last' is the place of the most  *)
(* recent item, 0 in a list that became empty.                             *)
(***************************************************************************)
EXTENDS Naturals, FiniteSets

Item(D) == [pos : Nat, data : D]

List(D) == [items : SUBSET Item(D), last : Nat]

EmptyList == [items |-> {}, last |-> 0]

(* enqueue / list_add: a new item behind the last one. *)
Enqueue(l, d) ==
    [items |-> l.items \cup {[pos |-> l.last + 1, data |-> d]},
     last  |-> l.last + 1]

(* The number of items of S in front of item x, its index from 0. *)
Rank(S, x) == Cardinality({y \in S : y.pos < x.pos})

(* Item x is the first of S. *)
IsFirst(x, S) == x \in S /\ \A y \in S : x.pos <= y.pos

(* Mistake: the items go in front, as put_head would put them. *)
EnqueueMultiple_PutHead(l, S) ==
    [items |-> {[x EXCEPT !.pos = @ + Cardinality(S)] : x \in l.items} \cup
               {[pos |-> 1 + Rank(S, x), data |-> x.data] : x \in S},
     last  |-> l.last + Cardinality(S)]

(* The loop of ts_enqueue_multiple: the items of S, in their order, behind *)
(* the last item of l.                                                     *)
EnqueueMultiple(l, S) ==
    [items |-> l.items \cup
               {[pos |-> l.last + 1 + Rank(S, x), data |-> x.data] : x \in S},
     last  |-> l.last + Cardinality(S)]

(* unchain_child, and the unchaining loops of pub_sub.c: only the items in *)
(* kept stay, in their order.                                              *)
Unchain(l, kept) ==
    [items |-> kept, last |-> IF kept = {} THEN 0 ELSE l.last]

(* enqueue_limited: the new item is lost when the list is at its limit. *)
EnqueueLimited(l, d, limit) ==
    IF Cardinality(l.items) < limit THEN Enqueue(l, d) ELSE l

(* No two items are at the same place. *)
UniquePlaces(S) == \A x, y \in S : x.pos = y.pos => x = y

(* A list as the operations above build it: finite, no item behind last.   *)
WellFormed(l) ==
    /\ IsFiniteSet(l.items)
    /\ UniquePlaces(l.items)
    /\ \A x \in l.items : x.pos <= l.last

=============================================================================
