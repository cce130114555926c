----------------------------- MODULE LinkedList -----------------------------
(***************************************************************************)
(* The linked list of lib/general_list.c and lib/queue.c with its          *)
(* pointers: `first', `last' and `size' are kept up to date by hand, by    *)
(* operations that each look at only some of them (enqueue tests `size',   *)
(* list_add tests `last', dequeue tests `first'), and by the loops of      *)
(* pub_sub.c, distribute_messages.c and writer_thread.c that walk along a  *)
(* list and unchain what matches.  A freed cell may be allocated again.    *)
(*                                                                         *)
(* Every operation has the list for itself: it is the reader thread's own, *)
(* or the lock of the queue is held.                                       *)
(***************************************************************************)
EXTENDS Integers, Sequences, FiniteSets

CONSTANTS
    Data,   \* what is in the list
    Cells,  \* memory for list items, a bound
    NULL

ASSUME LinkedListAssumption == IsFiniteSet(Cells) /\ NULL \notin Cells

VARIABLES
    heap,    \* the allocated cells and what is in them
    first, last, size,
    walk,    \* the loop that unchains, Idle if none
    did      \* the last operation, what it was given and what it returned

vars == <<heap, first, last, size, walk, did>>

Idle == [on |-> FALSE]
Allocated == DOMAIN heap

Init ==
    /\ heap = [c \in {} |-> NULL]
    /\ first = NULL /\ last = NULL /\ size = 0
    /\ walk = Idle
    /\ did = [op |-> "none"]

-----------------------------------------------------------------------------
(* The sequence of cells from first on, cut off if there is a cycle. *)
CellAt[n \in 0 .. Cardinality(Cells)] ==
    IF n = 0 THEN first
    ELSE IF CellAt[n - 1] \notin Allocated THEN NULL
    ELSE heap[CellAt[n - 1]].next

Length == Cardinality({n \in DOMAIN CellAt : CellAt[n] # NULL})
Chain == [i \in 1 .. Length |-> CellAt[i - 1]]
Contents == [i \in 1 .. Length |-> heap[Chain[i]].data]

-----------------------------------------------------------------------------
(* create_general_list_item, in a cell that is free. *)
Create(cell, d, next) ==
    [c \in Allocated \cup {cell} |->
        IF c = cell THEN [data |-> d, next |-> next] ELSE heap[c]]

(* The same, and the last item's next is set to it. *)
CreateBehind(cell, d) ==
    [Create(cell, d, NULL) EXCEPT ![last].next = cell]

free(cell) == [c \in Allocated \ {cell} |-> heap[c]]

(* list_add *)
list_add(d, cell) ==
    /\ walk = Idle
    /\ last' = cell
    /\ \/ /\ last # NULL
          /\ heap' = CreateBehind(cell, d)
          /\ size' = size + 1
          /\ UNCHANGED first
       \/ /\ last = NULL
          /\ heap' = Create(cell, d, NULL)
          /\ first' = cell
          /\ size' = 1
    /\ did' = [op |-> "list_add", data |-> d]
    /\ UNCHANGED walk

(* Mistake: the new item is linked in front of the list. *)
enqueue_InFront(d, cell) ==
    /\ walk = Idle
    /\ heap' = Create(cell, d, first)
    /\ first' = cell
    /\ last' = IF size = 0 THEN first' ELSE last
    /\ size' = size + 1
    /\ did' = [op |-> "enqueue", data |-> d]
    /\ UNCHANGED walk

enqueue(d, cell) ==
    /\ walk = Idle
    /\ last' = cell
    /\ \/ /\ size # 0
          /\ heap' = CreateBehind(cell, d)
          /\ UNCHANGED first
       \/ /\ size = 0
          /\ heap' = Create(cell, d, NULL)
          /\ first' = cell
    /\ size' = size + 1
    /\ did' = [op |-> "enqueue", data |-> d]
    /\ UNCHANGED walk

(* Mistake: last is not set when the list was empty. *)
put_head_NoLast(d, cell) ==
    /\ walk = Idle
    /\ heap' = Create(cell, d, first)
    /\ first' = cell
    /\ size' = size + 1
    /\ did' = [op |-> "put_head", data |-> d]
    /\ UNCHANGED <<last, walk>>

put_head(d, cell) ==
    /\ walk = Idle
    /\ heap' = Create(cell, d, first)
    /\ first' = cell
    /\ last' = IF size = 0 THEN first' ELSE last
    /\ size' = size + 1
    /\ did' = [op |-> "put_head", data |-> d]
    /\ UNCHANGED walk

dequeue ==
    /\ walk = Idle
    /\ \/ /\ first # NULL
          /\ first' = heap[first].next
          /\ last' = IF last = first THEN NULL ELSE last
          /\ heap' = free(first)
          /\ size' = size - 1
          /\ did' = [op |-> "dequeue", data |-> heap[first].data]
       \/ /\ first = NULL
          /\ did' = [op |-> "dequeue", data |-> NULL]
          /\ UNCHANGED <<heap, first, last, size>>
    /\ UNCHANGED walk

(* unchain_child, and the same lines in pubsub_unsubscribe,                *)
(* pubsub_remove_client and list_unchain_at; the caller frees the child.   *)
unchain_child(parent, child) ==
    /\ size' = size - 1
    /\ first' = IF parent = NULL THEN heap[child].next ELSE first
    /\ heap' = [c \in Allocated \ {child} |->
                  IF c = parent THEN [heap[c] EXCEPT !.next = heap[child].next]
                  ELSE heap[c]]
    /\ last' = IF last = child THEN parent ELSE last

(* The loop finds the item with index ix and the one in front of it. *)
list_unchain_at(ix) ==
    /\ walk = Idle
    /\ ix < size
    /\ unchain_child(IF ix = 0 THEN NULL ELSE CellAt[ix - 1], CellAt[ix])
    /\ did' = [op |-> "list_unchain_at", ix |-> ix,
               data |-> heap[CellAt[ix]].data]
    /\ UNCHANGED walk

(* list_clear, list_free and queue_free: the items are freed one by one,   *)
(* and the list with them; the next one is new.                            *)
list_clear ==
    /\ walk = Idle
    /\ heap' = [c \in Allocated \ {Chain[i] : i \in DOMAIN Chain} |-> heap[c]]
    /\ first' = NULL /\ last' = NULL /\ size' = 0
    /\ did' = [op |-> "list_clear"]
    /\ UNCHANGED walk

-----------------------------------------------------------------------------
(* The loops over the list that unchain what matches: p is the last item   *)
(* kept, c the one to look at.                                             *)

WalkStart(d) ==
    /\ walk = Idle
    /\ size # 0
    /\ walk' = [on |-> TRUE, p |-> NULL, c |-> first, match |-> d,
                before |-> Contents]
    /\ UNCHANGED <<heap, first, last, size, did>>

WalkSkip ==
    /\ walk.on /\ walk.c # NULL
    /\ heap[walk.c].data # walk.match
    /\ walk' = [walk EXCEPT !.p = walk.c, !.c = heap[walk.c].next]
    /\ UNCHANGED <<heap, first, last, size, did>>

(* Mistake: the unchained item is taken for the one in front. *)
WalkUnchain_MovesParent ==
    /\ walk.on /\ walk.c # NULL
    /\ heap[walk.c].data = walk.match
    /\ unchain_child(walk.p, walk.c)
    /\ did' = [op |-> "unchain_child", data |-> walk.match]
    /\ walk' = [walk EXCEPT !.p = heap[walk.c].next,
                            !.c = IF heap[walk.c].next = NULL THEN NULL
                                  ELSE heap[heap[walk.c].next].next]

WalkUnchain ==
    /\ walk.on /\ walk.c # NULL
    /\ heap[walk.c].data = walk.match
    /\ unchain_child(walk.p, walk.c)
    /\ did' = [op |-> "unchain_child", data |-> walk.match]
    /\ walk' = [walk EXCEPT !.c = heap[walk.c].next]

(* The end of the list, or a writer has taken enough. *)
WalkEnd ==
    /\ walk.on
    /\ walk' = Idle
    /\ UNCHANGED <<heap, first, last, size, did>>

Next ==
    \/ \E d \in Data, cell \in Cells \ Allocated :
          list_add(d, cell) \/ enqueue(d, cell) \/ put_head(d, cell)
    \/ dequeue \/ list_clear
    \/ \E ix \in 0 .. Cardinality(Cells) - 1 : list_unchain_at(ix)
    \/ \E d \in Data : WalkStart(d)
    \/ WalkSkip \/ WalkUnchain \/ WalkEnd

Spec == Init /\ [][Next]_vars

-----------------------------------------------------------------------------
(* The three fields agree with the chain: size counts it, last is its end, *)
(* and every pointer in use is to an allocated cell; no cell is lost.      *)
FieldsAgree ==
    /\ size = Length
    /\ (first = NULL) = (last = NULL)
    /\ size > 0 => last = Chain[size]
    /\ {Chain[i] : i \in DOMAIN Chain} = Allocated
    /\ walk.on => {walk.p, walk.c} \subseteq Allocated \cup {NULL}

(* What is left of the beginnings of s when every d is taken out. *)
Kept(s, d) ==
    LET Upto[n \in 0 .. Len(s)] ==
          IF n = 0 THEN <<>>
          ELSE IF s[n] = d THEN Upto[n - 1]
          ELSE Append(Upto[n - 1], s[n])
    IN  Upto

(* A loop that has reached the end has unchained every match, neighbouring *)
(* ones and the last one too, and nothing else.                            *)
WalkExact ==
    walk.on /\ walk.c = NULL =>
        Contents = Kept(walk.before, walk.match)[Len(walk.before)]

Abstract == INSTANCE SequenceList WITH seq <- Contents

(* Every operation does to the sequence of the data what SequenceList says *)
(* under its name, and returns what that says: what is put in by enqueue   *)
(* or list_add comes out of dequeue in the same order, list_unchain_at     *)
(* takes the item with that index, and a step along the pointers does      *)
(* nothing.                                                                *)
Implements == Abstract!Spec

=============================================================================
