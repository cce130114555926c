-------------------------- MODULE AssociativeArray --------------------------
(***************************************************************************)
(* The header tree (lib/associative_array.c): a height balanced search     *)
(* tree of strings.  Keys are integers, in the order strcmp gives their    *)
(* strings.  The C functions call themselves on the subtrees; here a       *)
(* recursive function goes down one level of Trees for each such call.     *)
(***************************************************************************)
EXTENDS Integers, Sequences

(* The NULL pointer; max_h and balance count 0 for it. *)
NoItem == [height |-> 0]

(* The values: where they come from, and which of them. *)
Text == {"client", "content", "figure", "id", "sub"} \X Int

aa_item_create(key, value) ==
    [height |-> 1, key |-> key, value |-> value,
     left |-> NoItem, right |-> NoItem]

max_h(node) ==
    IF node.right.height > node.left.height THEN node.right.height
    ELSE node.left.height

balance(node) == node.right.height - node.left.height

(* node->height = max_h(node) + 1 *)
WithHeight(node) == [node EXCEPT !.height = max_h(node) + 1]

(* The trees of up to h levels that have the right heights. *)
Trees(h) ==
    LET Upto[n \in 0 .. h] ==
          IF n = 0 THEN {NoItem}
          ELSE LET below == Upto[n - 1]
               IN  {NoItem} \cup
                   {t \in [height : 1 .. n, key : Int, value : Text,
                           left : below, right : below] :
                      t.height = max_h(t) + 1}
    IN  Upto[h]

-----------------------------------------------------------------------------
(* The rotations return the node that takes the place of their argument.   *)

(* Mistake: the items between the two nodes are lost. *)
aa_rotate_right_Drops(node) ==
    LET tmp == node.left
    IN  WithHeight([tmp EXCEPT !.right = WithHeight([node EXCEPT !.left = NoItem])])

aa_rotate_right(node) ==
    LET tmp == node.left
    IN  WithHeight([tmp EXCEPT !.right =
                      WithHeight([node EXCEPT !.left = tmp.right])])

aa_rotate_left(node) ==
    LET tmp == node.right
    IN  WithHeight([tmp EXCEPT !.left =
                      WithHeight([node EXCEPT !.right = tmp.left])])

aa_rotate_right_left(node) ==
    aa_rotate_left([node EXCEPT !.right = aa_rotate_right(node.right)])

aa_rotate_left_right(node) ==
    aa_rotate_right([node EXCEPT !.left = aa_rotate_left(node.left)])

(* Mistake: the child's lean is not looked at. *)
Rebalance_OnlySingle(node) ==
    IF balance(node) < -1 THEN aa_rotate_right(node)
    ELSE IF balance(node) > 1 THEN aa_rotate_left(node) ELSE node

(* What aa_set_or_put_item does on the way back from an insertion. *)
Rebalance(node) ==
    CASE balance(node) < -1 /\ balance(node.left) <= 0 ->
            aa_rotate_right(node)
      [] balance(node) < -1 /\ balance(node.left) > 0 ->
            aa_rotate_left_right(node)
      [] balance(node) > 1 /\ balance(node.right) >= 0 ->
            aa_rotate_left(node)
      [] balance(node) > 1 /\ balance(node.right) < 0 ->
            aa_rotate_right_left(node)
      [] OTHER -> node

(* The subtree with the item in it, and whether the item is a new one. *)
aa_set_or_put_item(a, key, value) ==
    LET Back(node, inserted_new) ==
          [node |-> IF inserted_new THEN Rebalance(WithHeight(node)) ELSE node,
           inserted_new |-> inserted_new]
        Put[n \in 0 .. a.height] == [t \in Trees(n) |->
          IF t = NoItem
          THEN [node |-> aa_item_create(key, value), inserted_new |-> TRUE]
          ELSE IF key = t.key
          THEN [node |-> [t EXCEPT !.value = value], inserted_new |-> FALSE]
          ELSE IF key < t.key
          THEN LET below == Put[n - 1][t.left]
               IN  Back([t EXCEPT !.left = below.node], below.inserted_new)
          ELSE LET below == Put[n - 1][t.right]
               IN  Back([t EXCEPT !.right = below.node], below.inserted_new)]
    IN  Put[a.height][a]

aa_put(aa, key, value) == aa_set_or_put_item(aa, key, value).node

(* 0, or how many items are looked at to find the key. *)
aa_has(aa, key) ==
    LET Counted(found) == IF found > 0 THEN found + 1 ELSE 0
        Has[n \in 0 .. aa.height] == [t \in Trees(n) |->
          IF t = NoItem THEN 0
          ELSE IF key = t.key THEN 1
          ELSE IF key < t.key THEN Counted(Has[n - 1][t.left])
          ELSE Counted(Has[n - 1][t.right])]
    IN  Has[aa.height][aa]

aa_get(aa, key) ==
    LET Get[n \in 0 .. aa.height] == [t \in Trees(n) |->
          IF t = NoItem THEN NoItem
          ELSE IF key = t.key THEN t
          ELSE IF key < t.key THEN Get[n - 1][t.left]
          ELSE Get[n - 1][t.right]]
    IN  Get[aa.height][aa]

(* The items of a tree, each before those below it. *)
Preorder(aa) ==
    LET Order[n \in 0 .. aa.height] == [t \in Trees(n) |->
          IF t = NoItem THEN <<>>
          ELSE <<t>> \o Order[n - 1][t.left] \o Order[n - 1][t.right]]
    IN  Order[aa.height][aa]

(* The lines <key>:<value> aa_get_str_buf writes. *)
aa_create_str_representation(aa) ==
    LET order == Preorder(aa)
    IN  [i \in 1 .. Len(order) |->
           [key |-> order[i].key, value |-> order[i].value]]

(* The lines are put into aa one after the other. *)
PutAll(aa, lines) ==
    LET Upto[n \in 0 .. Len(lines)] ==
          IF n = 0 THEN aa
          ELSE aa_put(Upto[n - 1], lines[n].key, lines[n].value)
    IN  Upto[Len(lines)]

(* The items of tree, in the same order, are put into target. *)
aa_merge(target, tree) == PutAll(target, aa_create_str_representation(tree))

-----------------------------------------------------------------------------
Nodes(t) == LET order == Preorder(t) IN {order[i] : i \in 1 .. Len(order)}

(* The keys to the left of a node are smaller, those to the right larger. *)
IsSearchTree(t) ==
    \A n \in Nodes(t) : /\ \A m \in Nodes(n.left) : m.key < n.key
                        /\ \A m \in Nodes(n.right) : m.key > n.key

(* The heights are right, and no side is more than one level deeper. *)
IsBalanced(t) ==
    t \in Trees(t.height) /\ \A n \in Nodes(t) : balance(n) \in -1 .. 1

=============================================================================
