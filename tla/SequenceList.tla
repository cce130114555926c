---------------------------- MODULE SequenceList ----------------------------
(***************************************************************************)
(* What the users of lib/queue.c and lib/general_list.c rely on: a list is *)
(* a sequence, and each operation on it changes the sequence and returns   *)
(* what is said here under its name.                                       *)
(***************************************************************************)
EXTENDS Naturals, Sequences

CONSTANTS Data, NULL

VARIABLES
    seq,
    did     \* the operation that was done last and what it was about

Init == seq = <<>> /\ did = [op |-> "none"]

Without(s, i) == SubSeq(s, 1, i - 1) \o SubSeq(s, i + 1, Len(s))

list_add(d) ==
    /\ seq' = Append(seq, d)
    /\ did' = [op |-> "list_add", data |-> d]

enqueue(d) ==
    /\ seq' = Append(seq, d)
    /\ did' = [op |-> "enqueue", data |-> d]

put_head(d) ==
    /\ seq' = <<d>> \o seq
    /\ did' = [op |-> "put_head", data |-> d]

dequeue ==
    \/ /\ seq # <<>>
       /\ seq' = Tail(seq)
       /\ did' = [op |-> "dequeue", data |-> Head(seq)]
    \/ /\ seq = <<>>
       /\ seq' = seq
       /\ did' = [op |-> "dequeue", data |-> NULL]

(* The index counts from 0. *)
list_unchain_at(ix) ==
    /\ seq' = Without(seq, ix + 1)
    /\ did' = [op |-> "list_unchain_at", ix |-> ix, data |-> seq[ix + 1]]

list_clear ==
    /\ seq' = <<>>
    /\ did' = [op |-> "list_clear"]

(* By a loop that looks for d. *)
unchain_child(i, d) ==
    /\ seq[i] = d
    /\ seq' = Without(seq, i)
    /\ did' = [op |-> "unchain_child", data |-> d]

Next ==
    \/ \E d \in Data : list_add(d) \/ enqueue(d) \/ put_head(d)
    \/ dequeue \/ list_clear
    \/ \E ix \in 0 .. Len(seq) - 1 : list_unchain_at(ix)
    \/ \E i \in DOMAIN seq, d \in Data : unchain_child(i, d)

Spec == Init /\ [][Next]_<<seq, did>>

=============================================================================
