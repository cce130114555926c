------------------------ MODULE MessageHeadersProofs ------------------------
(***************************************************************************)
(* The header trees of module MessageHeaders, for any names, values and    *)
(* orders of headers, any queries and any number of subscribers.           *)
(*                                                                         *)
(* The functions of AssociativeArray are recursive.  For each of them one  *)
(* lemma (TreesDef, OrderDef, GetDef, HasDef, PutDef) says what a single   *)
(* call does; what they compute is then found by induction on the tree     *)
(* (TreeInduction).  PutIs is the result about insertion: a balanced       *)
(* search tree stays one, and only what it holds for one key changes.      *)
(* The invariant HeadersInv says what each tree holds at each step.        *)
(***************************************************************************)
EXTENDS MessageHeaders, DataProofs, SequenceTheorems

-----------------------------------------------------------------------------
(* Trees is what its definition says: the function it chooses exists. *)

(* The items with the right height over two sets of subtrees. *)
ItemsOver(n, T) ==
    {t \in [height : 1 .. n, key : Int, value : Text, left : T, right : T] :
       t.height = max_h(t) + 1}

(* Level n of Trees, f being the levels below, and all levels up to m. *)
TreesStep(f, n) ==
    IF n = 0 THEN {NoItem} ELSE {NoItem} \cup ItemsOver(n, f[n - 1])

IsTrees(f, m) == f = [n \in 0 .. m |-> TreesStep(f, n)]

LEMMA TreesExist ==
    ASSUME NEW m \in Nat
    PROVE  \E f : IsTrees(f, m)
<1> DEFINE G == {k \in Nat : \E f : IsTrees(f, k)}
<1>1. 0 \in G
  <2> DEFINE f == [n \in 0 .. 0 |-> {NoItem}]
  <2>1. IsTrees(f, 0)
    BY DEF IsTrees, TreesStep
  <2> QED
    BY <2>1
<1>2. ASSUME NEW k \in G PROVE k + 1 \in G
  <2>1. PICK f : IsTrees(f, k)
    OBVIOUS
  <2> DEFINE g == [n \in 0 .. k + 1 |-> IF n \in 0 .. k THEN f[n]
                                        ELSE TreesStep(f, n)]
  <2>2. ASSUME NEW n \in 0 .. k + 1
        PROVE  g[n] = TreesStep(g, n)
    <3>1. n = 0 \/ (n - 1 \in 0 .. k /\ g[n - 1] = f[n - 1])
      OBVIOUS
    <3>2. TreesStep(g, n) = TreesStep(f, n)
      BY <3>1 DEF TreesStep
    <3>3. n \in 0 .. k => f[n] = TreesStep(f, n)
      BY <2>1 DEF IsTrees
    <3> QED
      BY <3>2, <3>3
  <2>3. IsTrees(g, k + 1)
    BY <2>2 DEF IsTrees
  <2> QED
    BY <2>3
<1>3. G = Nat
  <2> HIDE DEF G
  <2>1. G \in SUBSET Nat
    BY DEF G
  <2> QED
    BY <1>1, <1>2, <2>1, SetInduction
<1> QED
  BY <1>3

(* Two of these functions agree where both are defined. *)
LEMMA TreesAgree ==
    ASSUME NEW m \in Nat, NEW f, IsTrees(f, m),
           NEW k \in Nat, NEW g, IsTrees(g, k)
    PROVE  \A n \in Nat : n <= m /\ n <= k => f[n] = g[n]
<1> DEFINE G == {n \in Nat : n <= m /\ n <= k => f[n] = g[n]}
<1>1. 0 \in G
  BY DEF IsTrees, TreesStep
<1>2. ASSUME NEW n \in G PROVE n + 1 \in G
  <2>1. SUFFICES ASSUME n + 1 <= m, n + 1 <= k PROVE f[n + 1] = g[n + 1]
    OBVIOUS
  <2>2. f[n] = g[n]
    BY <2>1
  <2>3. n + 1 \in 0 .. m /\ n + 1 \in 0 .. k
    BY <2>1
  <2>5. f[n + 1] = TreesStep(f, n + 1)
    BY <2>3 DEF IsTrees
  <2>6. g[n + 1] = TreesStep(g, n + 1)
    BY <2>3 DEF IsTrees
  <2>4. n + 1 # 0 /\ (n + 1) - 1 = n
    OBVIOUS
  <2> QED
    BY <2>2, <2>4, <2>5, <2>6 DEF TreesStep
<1>3. G = Nat
  <2> HIDE DEF G
  <2>1. G \in SUBSET Nat
    BY DEF G
  <2> QED
    BY <1>1, <1>2, <2>1, SetInduction
<1> QED
  BY <1>3

LEMMA TreesChosen ==
    ASSUME NEW m \in Nat
    PROVE  \E f : IsTrees(f, m) /\ Trees(m) = f[m]
<1> DEFINE c == CHOOSE f : IsTrees(f, m)
<1>1. IsTrees(c, m)
  BY TreesExist
<1>2. Trees(m) = c[m]
  BY DEF Trees, IsTrees, TreesStep, ItemsOver
<1> QED
  BY <1>1, <1>2

LEMMA TreesDef ==
    /\ Trees(0) = {NoItem}
    /\ \A n \in Nat : Trees(n + 1) = {NoItem} \cup ItemsOver(n + 1, Trees(n))
<1>1. Trees(0) = {NoItem}
  <2>1. PICK f : IsTrees(f, 0) /\ Trees(0) = f[0]
    BY TreesChosen
  <2> QED
    BY <2>1 DEF IsTrees, TreesStep
<1>2. ASSUME NEW n \in Nat
      PROVE  Trees(n + 1) = {NoItem} \cup ItemsOver(n + 1, Trees(n))
  <2>1. PICK f : IsTrees(f, n + 1) /\ Trees(n + 1) = f[n + 1]
    BY TreesChosen
  <2>2. PICK g : IsTrees(g, n) /\ Trees(n) = g[n]
    BY TreesChosen
  <2>3. f[n] = g[n]
    <3>1. n + 1 \in Nat /\ n <= n + 1 /\ n <= n
      OBVIOUS
    <3> QED
      BY <2>1, <2>2, <3>1, TreesAgree
  <2>4. f[n + 1] = TreesStep(f, n + 1) /\ n + 1 # 0 /\ (n + 1) - 1 = n
    BY <2>1 DEF IsTrees
  <2> QED
    BY <2>1, <2>2, <2>3, <2>4 DEF TreesStep
<1> QED
  BY <1>1, <1>2

-----------------------------------------------------------------------------
(* An item with its subtrees. *)
Mk(k, v, l, r) ==
    [height |-> (IF r.height > l.height THEN r.height ELSE l.height) + 1,
     key |-> k, value |-> v, left |-> l, right |-> r]

(* The trees of any height. *)
Tree == UNION {Trees(n) : n \in Nat}

LEMMA ItemIsMk ==
    ASSUME NEW n \in Nat, NEW T, NEW t \in ItemsOver(n, T)
    PROVE  /\ t = Mk(t.key, t.value, t.left, t.right)
           /\ t.key \in Int /\ t.value \in Text /\ t.left \in T /\ t.right \in T
           /\ t.height \in 1 .. n /\ t # NoItem
<1>1. /\ t \in [height : 1 .. n, key : Int, value : Text, left : T, right : T]
      /\ t.height = max_h(t) + 1
  BY DEF ItemsOver
<1>2. t = [height |-> t.height, key |-> t.key, value |-> t.value,
           left |-> t.left, right |-> t.right]
  BY ONLY <1>1
<1>3. t.height = Mk(t.key, t.value, t.left, t.right).height
  BY <1>1 DEF max_h, Mk
<1>4. t.height \in 1 .. n
  BY <1>1
<1>5. t # NoItem
  BY <1>4 DEF NoItem
<1> QED
  BY <1>1, <1>2, <1>3, <1>4, <1>5 DEF Mk

LEMMA MkIsItem ==
    ASSUME NEW n \in Nat, NEW T, NEW k \in Int, NEW v \in Text,
           NEW l \in T, NEW r \in T, l.height \in Nat, r.height \in Nat,
           l.height < n, r.height < n
    PROVE  Mk(k, v, l, r) \in ItemsOver(n, T)
BY DEF ItemsOver, Mk, max_h

(* A bound on the levels can be raised. *)
LEMMA TreesGrow ==
    \A n \in Nat : \A t \in Trees(n) : t \in Trees(n + 1)
<1> DEFINE G == {n \in Nat : \A t \in Trees(n) : t \in Trees(n + 1)}
<1>1. 0 \in G
  BY TreesDef
<1>2. ASSUME NEW n \in G PROVE n + 1 \in G
  <2>1. SUFFICES ASSUME NEW t \in Trees(n + 1) PROVE t \in Trees((n + 1) + 1)
    OBVIOUS
  <2>2. /\ Trees(n + 1) = {NoItem} \cup ItemsOver(n + 1, Trees(n))
        /\ Trees((n + 1) + 1) = {NoItem} \cup ItemsOver((n + 1) + 1, Trees(n + 1))
    BY TreesDef
  <2>3. CASE t \in ItemsOver(n + 1, Trees(n))
    <3>1. /\ t \in [height : 1 .. n + 1, key : Int, value : Text,
                    left : Trees(n), right : Trees(n)]
          /\ t.height = max_h(t) + 1
      BY <2>3 DEF ItemsOver
    <3>2. t.left \in Trees(n + 1) /\ t.right \in Trees(n + 1)
      BY <3>1
    <3>3. t.height \in 1 .. (n + 1) + 1
      BY <3>1
    <3>4. t \in [height : 1 .. (n + 1) + 1, key : Int, value : Text,
                 left : Trees(n + 1), right : Trees(n + 1)]
      BY <3>1, <3>2, <3>3
    <3> QED
      BY <2>2, <3>1, <3>4 DEF ItemsOver
  <2> QED
    BY <2>1, <2>2, <2>3
<1>3. G = Nat
  <2> HIDE DEF G
  <2>1. G \in SUBSET Nat
    BY DEF G
  <2> QED
    BY <1>1, <1>2, <2>1, SetInduction
<1> QED
  BY <1>3

LEMMA TreesGrowTo ==
    ASSUME NEW m \in Nat, NEW t \in Trees(m), NEW k \in Nat, m <= k
    PROVE  t \in Trees(k)
<1> DEFINE G == {d \in Nat : t \in Trees(m + d)}
<1>1. 0 \in G
  OBVIOUS
<1>2. ASSUME NEW d \in G PROVE d + 1 \in G
  <2>1. t \in Trees((m + d) + 1)
    BY TreesGrow
  <2>2. (m + d) + 1 = m + (d + 1)
    OBVIOUS
  <2> QED
    BY <2>1, <2>2
<1>3. G = Nat
  <2> HIDE DEF G
  <2>1. G \in SUBSET Nat
    BY DEF G
  <2> QED
    BY <1>1, <1>2, <2>1, SetInduction
<1>4. k - m \in Nat /\ m + (k - m) = k
  OBVIOUS
<1> QED
  BY <1>3, <1>4

(* A tree has as many levels as its height says. *)
LEMMA TreeHeight ==
    \A n \in Nat : \A t \in Trees(n) : t.height \in 0 .. n /\ t \in Trees(t.height)
<1> DEFINE P(n, t) == t.height \in 0 .. n /\ t \in Trees(t.height)
           G == {n \in Nat : \A t \in Trees(n) : P(n, t)}
<1>0. NoItem.height = 0 /\ \A n \in Nat : P(n, NoItem)
  BY TreesDef DEF NoItem
<1>1. 0 \in G
  BY <1>0, TreesDef
<1>2. ASSUME NEW n \in G PROVE n + 1 \in G
  <2>1. SUFFICES ASSUME NEW t \in Trees(n + 1) PROVE P(n + 1, t)
    OBVIOUS
  <2>2. Trees(n + 1) = {NoItem} \cup ItemsOver(n + 1, Trees(n))
    BY TreesDef
  <2>3. CASE t \in ItemsOver(n + 1, Trees(n))
    <3>1. /\ t = Mk(t.key, t.value, t.left, t.right)
          /\ t.key \in Int /\ t.value \in Text
          /\ t.left \in Trees(n) /\ t.right \in Trees(n)
          /\ t.height \in 1 .. n + 1
      <4>1. n + 1 \in Nat
        OBVIOUS
      <4> QED
        BY <2>3, <4>1, ItemIsMk
    <3>2. P(n, t.left) /\ P(n, t.right)
      BY <3>1
    <3>3. t.height = (IF t.right.height > t.left.height THEN t.right.height
                      ELSE t.left.height) + 1
      BY <3>1 DEF Mk
    <3> DEFINE m == t.height - 1
    <3>4. m \in Nat /\ t.left.height <= m /\ t.right.height <= m
          /\ t.left.height \in Nat /\ t.right.height \in Nat
          /\ t.height = m + 1
      BY <3>1, <3>2, <3>3
    <3> HIDE DEF m
    <3>5. t.left \in Trees(m) /\ t.right \in Trees(m)
      BY <3>2, <3>4, TreesGrowTo
    <3>6. t \in ItemsOver(m + 1, Trees(m))
      <4>1. m + 1 \in Nat /\ t.left.height < m + 1 /\ t.right.height < m + 1
        BY <3>4
      <4>2. Mk(t.key, t.value, t.left, t.right) \in ItemsOver(m + 1, Trees(m))
        BY <3>1, <3>4, <3>5, <4>1, MkIsItem
      <4> QED
        BY <3>1, <4>2
    <3>7. t \in Trees(m + 1)
      BY <3>4, <3>6, TreesDef
    <3> QED
      BY <3>1, <3>4, <3>7
  <2> QED
    BY <1>0, <2>1, <2>2, <2>3
<1>3. G = Nat
  <2> HIDE DEF G
  <2>1. G \in SUBSET Nat
    BY DEF G
  <2> QED
    BY <1>1, <1>2, <2>1, SetInduction
<1> QED
  BY <1>3

LEMMA NoItemIsTree == NoItem \in Tree /\ NoItem.height = 0
BY TreesDef DEF Tree, NoItem

LEMMA TreeFits ==
    ASSUME NEW t \in Tree
    PROVE  t.height \in Nat /\ t \in Trees(t.height)
<1>1. PICK n \in Nat : t \in Trees(n)
  BY DEF Tree
<1> QED
  BY <1>1, TreeHeight

LEMMA TreeBelow ==
    ASSUME NEW n \in Nat, NEW t \in Trees(n), t # NoItem
    PROVE  /\ n # 0 /\ n - 1 \in Nat
           /\ t.left \in Trees(n - 1) /\ t.right \in Trees(n - 1)
           /\ t = Mk(t.key, t.value, t.left, t.right)
           /\ t.key \in Int /\ t.value \in Text
<1>1. n # 0
  BY TreesDef
<1>2. n - 1 \in Nat /\ n = (n - 1) + 1
  BY <1>1
<1> DEFINE m == n - 1
<1> HIDE DEF m
<1>3. t \in ItemsOver(m + 1, Trees(m))
  <2>1. n = m + 1 /\ m \in Nat
    BY <1>2 DEF m
  <2> QED
    BY <2>1, TreesDef
<1>4. m \in Nat /\ m + 1 \in Nat
  BY <1>2 DEF m
<1>5. /\ t = Mk(t.key, t.value, t.left, t.right)
      /\ t.key \in Int /\ t.value \in Text
      /\ t.left \in Trees(m) /\ t.right \in Trees(m)
  BY <1>3, <1>4, ItemIsMk
<1> QED
  BY <1>1, <1>2, <1>5 DEF m

LEMMA TreeIsMk ==
    ASSUME NEW t \in Tree, t # NoItem
    PROVE  /\ t = Mk(t.key, t.value, t.left, t.right)
           /\ t.key \in Int /\ t.value \in Text
           /\ t.left \in Tree /\ t.right \in Tree
<1>1. PICK n \in Nat : t \in Trees(n)
  BY DEF Tree
<1>2. /\ n - 1 \in Nat
      /\ t.left \in Trees(n - 1) /\ t.right \in Trees(n - 1)
      /\ t = Mk(t.key, t.value, t.left, t.right)
      /\ t.key \in Int /\ t.value \in Text
  BY <1>1, TreeBelow
<1> QED
  BY <1>2 DEF Tree

LEMMA MkIsTree ==
    ASSUME NEW k \in Int, NEW v \in Text, NEW l \in Tree, NEW r \in Tree
    PROVE  /\ Mk(k, v, l, r) \in Tree /\ Mk(k, v, l, r) # NoItem
           /\ Mk(k, v, l, r).key = k /\ Mk(k, v, l, r).value = v
           /\ Mk(k, v, l, r).left = l /\ Mk(k, v, l, r).right = r
           /\ Mk(k, v, l, r).height =
                 (IF r.height > l.height THEN r.height ELSE l.height) + 1
           /\ l \in Trees(Mk(k, v, l, r).height - 1)
           /\ r \in Trees(Mk(k, v, l, r).height - 1)
           /\ Mk(k, v, l, r).height - 1 \in Nat
<1> DEFINE t == Mk(k, v, l, r)
           m == IF r.height > l.height THEN r.height ELSE l.height
<1>1. /\ l.height \in Nat /\ l \in Trees(l.height)
      /\ r.height \in Nat /\ r \in Trees(r.height)
  BY TreeFits
<1>2. /\ m \in Nat /\ l.height <= m /\ r.height <= m
      /\ l.height < m + 1 /\ r.height < m + 1 /\ m + 1 \in Nat
  BY <1>1
<1>3. /\ t.key = k /\ t.value = v /\ t.left = l /\ t.right = r
      /\ t.height = m + 1
  BY DEF Mk
<1> HIDE DEF m
<1>4. l \in Trees(m) /\ r \in Trees(m)
  BY <1>1, <1>2, TreesGrowTo
<1>5. t \in ItemsOver(m + 1, Trees(m))
  BY <1>1, <1>2, <1>4, MkIsItem
<1>6. t \in Trees(m + 1)
  BY <1>2, <1>5, TreesDef
<1>7. t # NoItem
  BY <1>2, <1>3 DEF NoItem
<1>8. t.height - 1 = m
  BY <1>2, <1>3
<1>9. t \in Tree
  BY <1>2, <1>6 DEF Tree
<1> QED
  BY <1>2, <1>3, <1>4, <1>7, <1>8, <1>9 DEF m

(* What holds of no item, and of an item when it holds of its subtrees,    *)
(* holds of every tree.                                                    *)
LEMMA TreeInduction ==
    ASSUME NEW S, NoItem \in S,
           \A k \in Int, v \in Text, l \in Tree, r \in Tree :
              l \in S /\ r \in S => Mk(k, v, l, r) \in S
    PROVE  \A t \in Tree : t \in S
<1> DEFINE G == {n \in Nat : \A t \in Trees(n) : t \in S}
<1>1. 0 \in G
  BY TreesDef
<1>2. ASSUME NEW n \in G PROVE n + 1 \in G
  <2>1. SUFFICES ASSUME NEW t \in Trees(n + 1), t # NoItem PROVE t \in S
    OBVIOUS
  <2>2. n + 1 \in Nat /\ (n + 1) - 1 = n
    OBVIOUS
  <2>3. /\ t = Mk(t.key, t.value, t.left, t.right)
        /\ t.key \in Int /\ t.value \in Text
        /\ t.left \in Trees(n) /\ t.right \in Trees(n)
    BY <2>1, <2>2, TreeBelow
  <2>4. /\ t.left \in Tree /\ t.right \in Tree
        /\ t.left \in S /\ t.right \in S
    BY <2>3 DEF Tree
  <2> QED
    BY <2>3, <2>4
<1>3. G = Nat
  <2> HIDE DEF G
  <2>1. G \in SUBSET Nat
    BY DEF G
  <2> QED
    BY <1>1, <1>2, <2>1, SetInduction
<1> QED
  BY <1>3 DEF Tree

-----------------------------------------------------------------------------
(* The items of a tree: Preorder is what its definition says. *)

OrderAt(f, t) ==
    IF t = NoItem THEN <<>> ELSE <<t>> \o f[t.left] \o f[t.right]

OrderStep(f, n) == [t \in Trees(n) |-> OrderAt(f[n - 1], t)]

IsOrder(f, m) == f = [n \in 0 .. m |-> OrderStep(f, n)]

LEMMA OrderExist ==
    ASSUME NEW m \in Nat
    PROVE  \E f : IsOrder(f, m)
<1> DEFINE G == {k \in Nat : \E f : IsOrder(f, k)}
<1>1. 0 \in G
  <2> DEFINE f == [n \in 0 .. 0 |-> [t \in Trees(0) |-> OrderAt(<<>>, t)]]
  <2>1. \A t \in Trees(0) : OrderAt(<<>>, t) = OrderAt(f[0 - 1], t)
    BY TreesDef DEF OrderAt
  <2>2. f[0] = OrderStep(f, 0)
    BY <2>1 DEF OrderStep
  <2>3. IsOrder(f, 0)
    BY <2>2 DEF IsOrder
  <2> QED
    BY <2>3
<1>2. ASSUME NEW k \in G PROVE k + 1 \in G
  <2>1. PICK f : IsOrder(f, k)
    OBVIOUS
  <2> DEFINE g == [n \in 0 .. k + 1 |-> IF n \in 0 .. k THEN f[n]
                                        ELSE OrderStep(f, n)]
  <2>2. ASSUME NEW n \in 0 .. k + 1
        PROVE  g[n] = OrderStep(g, n)
    <3>1. CASE n = 0
      <4>1. \A t \in Trees(0) : OrderAt(f[0 - 1], t) = OrderAt(g[0 - 1], t)
        BY TreesDef DEF OrderAt
      <4>2. f[0] = OrderStep(f, 0) /\ g[0] = f[0]
        BY <2>1 DEF IsOrder
      <4> QED
        BY <3>1, <4>1, <4>2 DEF OrderStep
    <3>2. CASE n # 0
      <4>1. n - 1 \in 0 .. k /\ g[n - 1] = f[n - 1]
        BY <3>2
      <4>2. OrderStep(g, n) = OrderStep(f, n)
        BY <4>1 DEF OrderStep
      <4>3. n \in 0 .. k => f[n] = OrderStep(f, n)
        BY <2>1 DEF IsOrder
      <4> QED
        BY <4>2, <4>3
    <3> QED
      BY <3>1, <3>2
  <2>3. IsOrder(g, k + 1)
    BY <2>2 DEF IsOrder
  <2> QED
    BY <2>3
<1>3. G = Nat
  <2> HIDE DEF G
  <2>1. G \in SUBSET Nat
    BY DEF G
  <2> QED
    BY <1>1, <1>2, <2>1, SetInduction
<1> QED
  BY <1>3

LEMMA OrderAgree ==
    ASSUME NEW m \in Nat, NEW f, NEW d \in Nat, NEW g,
           IsOrder(f, m), IsOrder(g, d)
    PROVE  \A t \in Tree : \A i \in 0 .. m, j \in 0 .. d :
              t \in Trees(i) /\ t \in Trees(j) => f[i][t] = g[j][t]
<1> DEFINE P(t) == \A i \in 0 .. m, j \in 0 .. d :
                      t \in Trees(i) /\ t \in Trees(j) => f[i][t] = g[j][t]
           S == {t \in Tree : P(t)}
<1>1. ASSUME NEW t, NEW i \in 0 .. m, NEW j \in 0 .. d,
             t \in Trees(i), t \in Trees(j)
      PROVE  f[i][t] = OrderAt(f[i - 1], t) /\ g[j][t] = OrderAt(g[j - 1], t)
  <2>1. f[i] = OrderStep(f, i)
    BY DEF IsOrder
  <2>2. g[j] = OrderStep(g, j)
    BY DEF IsOrder
  <2> QED
    BY <1>1, <2>1, <2>2 DEF OrderStep
<1>2. NoItem \in S
  <2>1. SUFFICES ASSUME NEW i \in 0 .. m, NEW j \in 0 .. d,
                        NoItem \in Trees(i), NoItem \in Trees(j)
                 PROVE  f[i][NoItem] = g[j][NoItem]
    BY NoItemIsTree
  <2> QED
    BY <1>1, <2>1 DEF OrderAt
<1>3. ASSUME NEW k \in Int, NEW v \in Text, NEW l \in Tree, NEW r \in Tree,
             l \in S, r \in S
      PROVE  Mk(k, v, l, r) \in S
  <2> DEFINE t == Mk(k, v, l, r)
  <2>1. t \in Tree /\ t # NoItem /\ t.left = l /\ t.right = r
    BY MkIsTree
  <2> HIDE DEF t
  <2>2. SUFFICES ASSUME NEW i \in 0 .. m, NEW j \in 0 .. d,
                        t \in Trees(i), t \in Trees(j)
                 PROVE  f[i][t] = g[j][t]
    BY <2>1 DEF t
  <2>3. i \in Nat /\ j \in Nat
    OBVIOUS
  <2>4. /\ i # 0 /\ l \in Trees(i - 1) /\ r \in Trees(i - 1)
        /\ j # 0 /\ l \in Trees(j - 1) /\ r \in Trees(j - 1)
    BY <2>1, <2>2, <2>3, TreeBelow
  <2>5. i - 1 \in 0 .. m /\ j - 1 \in 0 .. d
    BY <2>4
  <2>6. f[i - 1][l] = g[j - 1][l] /\ f[i - 1][r] = g[j - 1][r]
    BY <1>3, <2>4, <2>5
  <2>7. OrderAt(f[i - 1], t) = OrderAt(g[j - 1], t)
    BY <2>1, <2>6 DEF OrderAt
  <2> QED
    BY <1>1, <2>2, <2>7
<1> HIDE DEF S
<1>4. \A t \in Tree : t \in S
  BY <1>2, <1>3, TreeInduction
<1> QED
  BY <1>4 DEF S

LEMMA OrderChosen ==
    ASSUME NEW a \in Tree
    PROVE  \E f : IsOrder(f, a.height) /\ Preorder(a) = f[a.height][a]
<1> DEFINE c == CHOOSE f : IsOrder(f, a.height)
<1>1. a.height \in Nat
  BY TreeFits
<1>2. IsOrder(c, a.height)
  BY <1>1, OrderExist
<1>3. Preorder(a) = c[a.height][a]
  BY DEF Preorder, IsOrder, OrderStep, OrderAt
<1> QED
  BY <1>2, <1>3

(* One call of aa_get_str_buf, or of aa_merge. *)
LEMMA OrderDef ==
    ASSUME NEW a \in Tree
    PROVE  Preorder(a) =
             IF a = NoItem THEN <<>>
             ELSE <<a>> \o Preorder(a.left) \o Preorder(a.right)
<1>1. a.height \in Nat /\ a \in Trees(a.height)
  BY TreeFits
<1>2. PICK f : IsOrder(f, a.height) /\ Preorder(a) = f[a.height][a]
  BY OrderChosen
<1>3. f[a.height][a] = OrderAt(f[a.height - 1], a)
  <2>1. f[a.height] = OrderStep(f, a.height)
    BY <1>1, <1>2 DEF IsOrder
  <2> QED
    BY <1>1, <2>1 DEF OrderStep
<1>4. CASE a = NoItem
  BY <1>2, <1>3, <1>4 DEF OrderAt
<1>5. CASE a # NoItem
  <2>1. /\ a.height # 0 /\ a.height - 1 \in Nat
        /\ a.left \in Trees(a.height - 1) /\ a.right \in Trees(a.height - 1)
        /\ a.left \in Tree /\ a.right \in Tree
    BY <1>1, <1>5, TreeBelow, TreeIsMk
  <2>2. ASSUME NEW b \in Tree, b \in Trees(a.height - 1)
        PROVE  f[a.height - 1][b] = Preorder(b)
    <3>1. b.height \in Nat /\ b \in Trees(b.height)
      BY TreeFits
    <3>2. PICK g : IsOrder(g, b.height) /\ Preorder(b) = g[b.height][b]
      BY OrderChosen
    <3>3. a.height - 1 \in 0 .. a.height /\ b.height \in 0 .. b.height
      BY <1>1, <2>1, <3>1
    <3>4. f[a.height - 1][b] = g[b.height][b]
      BY <1>1, <1>2, <2>2, <3>1, <3>2, <3>3, OrderAgree
    <3> QED
      BY <3>2, <3>4
  <2> QED
    BY <1>2, <1>3, <1>5, <2>1, <2>2 DEF OrderAt
<1> QED
  BY <1>4, <1>5

-----------------------------------------------------------------------------
(* aa_get is what its definition says. *)

GetAt(f, t, key) ==
    IF t = NoItem THEN NoItem
    ELSE IF key = t.key THEN t
    ELSE IF key < t.key THEN f[t.left] ELSE f[t.right]

GetStep(f, n, key) == [t \in Trees(n) |-> GetAt(f[n - 1], t, key)]

IsGet(f, m, key) == f = [n \in 0 .. m |-> GetStep(f, n, key)]

LEMMA GetExist ==
    ASSUME NEW m \in Nat, NEW key
    PROVE  \E f : IsGet(f, m, key)
<1> DEFINE G == {k \in Nat : \E f : IsGet(f, k, key)}
<1>1. 0 \in G
  <2> DEFINE f == [n \in 0 .. 0 |-> [t \in Trees(0) |-> GetAt(<<>>, t, key)]]
  <2>1. \A t \in Trees(0) : GetAt(<<>>, t, key) = GetAt(f[0 - 1], t, key)
    BY TreesDef DEF GetAt
  <2>2. f[0] = GetStep(f, 0, key)
    BY <2>1 DEF GetStep
  <2>3. IsGet(f, 0, key)
    BY <2>2 DEF IsGet
  <2> QED
    BY <2>3
<1>2. ASSUME NEW k \in G PROVE k + 1 \in G
  <2>1. PICK f : IsGet(f, k, key)
    OBVIOUS
  <2> DEFINE g == [n \in 0 .. k + 1 |-> IF n \in 0 .. k THEN f[n]
                                        ELSE GetStep(f, n, key)]
  <2>2. ASSUME NEW n \in 0 .. k + 1
        PROVE  g[n] = GetStep(g, n, key)
    <3>1. CASE n = 0
      <4>1. \A t \in Trees(0) : GetAt(f[0 - 1], t, key) = GetAt(g[0 - 1], t, key)
        BY TreesDef DEF GetAt
      <4>2. f[0] = GetStep(f, 0, key) /\ g[0] = f[0]
        BY <2>1 DEF IsGet
      <4> QED
        BY <3>1, <4>1, <4>2 DEF GetStep
    <3>2. CASE n # 0
      <4>1. n - 1 \in 0 .. k /\ g[n - 1] = f[n - 1]
        BY <3>2
      <4>2. GetStep(g, n, key) = GetStep(f, n, key)
        BY <4>1 DEF GetStep
      <4>3. n \in 0 .. k => f[n] = GetStep(f, n, key)
        BY <2>1 DEF IsGet
      <4> QED
        BY <4>2, <4>3
    <3> QED
      BY <3>1, <3>2
  <2>3. IsGet(g, k + 1, key)
    BY <2>2 DEF IsGet
  <2> QED
    BY <2>3
<1>3. G = Nat
  <2> HIDE DEF G
  <2>1. G \in SUBSET Nat
    BY DEF G
  <2> QED
    BY <1>1, <1>2, <2>1, SetInduction
<1> QED
  BY <1>3

LEMMA GetAgree ==
    ASSUME NEW m \in Nat, NEW f, NEW d \in Nat, NEW g, NEW key,
           IsGet(f, m, key), IsGet(g, d, key)
    PROVE  \A t \in Tree : \A i \in 0 .. m, j \in 0 .. d :
              t \in Trees(i) /\ t \in Trees(j) => f[i][t] = g[j][t]
<1> DEFINE P(t) == \A i \in 0 .. m, j \in 0 .. d :
                      t \in Trees(i) /\ t \in Trees(j) => f[i][t] = g[j][t]
           S == {t \in Tree : P(t)}
<1>1. ASSUME NEW t, NEW i \in 0 .. m, NEW j \in 0 .. d,
             t \in Trees(i), t \in Trees(j)
      PROVE  f[i][t] = GetAt(f[i - 1], t, key) /\ g[j][t] = GetAt(g[j - 1], t, key)
  <2>1. f[i] = GetStep(f, i, key)
    BY DEF IsGet
  <2>2. g[j] = GetStep(g, j, key)
    BY DEF IsGet
  <2> QED
    BY <1>1, <2>1, <2>2 DEF GetStep
<1>2. NoItem \in S
  <2>1. SUFFICES ASSUME NEW i \in 0 .. m, NEW j \in 0 .. d,
                        NoItem \in Trees(i), NoItem \in Trees(j)
                 PROVE  f[i][NoItem] = g[j][NoItem]
    BY NoItemIsTree
  <2> QED
    BY <1>1, <2>1 DEF GetAt
<1>3. ASSUME NEW k \in Int, NEW v \in Text, NEW l \in Tree, NEW r \in Tree,
             l \in S, r \in S
      PROVE  Mk(k, v, l, r) \in S
  <2> DEFINE t == Mk(k, v, l, r)
  <2>1. t \in Tree /\ t # NoItem /\ t.left = l /\ t.right = r
    BY MkIsTree
  <2> HIDE DEF t
  <2>2. SUFFICES ASSUME NEW i \in 0 .. m, NEW j \in 0 .. d,
                        t \in Trees(i), t \in Trees(j)
                 PROVE  f[i][t] = g[j][t]
    BY <2>1 DEF t
  <2>3. i \in Nat /\ j \in Nat
    OBVIOUS
  <2>4. /\ i # 0 /\ l \in Trees(i - 1) /\ r \in Trees(i - 1)
        /\ j # 0 /\ l \in Trees(j - 1) /\ r \in Trees(j - 1)
    BY <2>1, <2>2, <2>3, TreeBelow
  <2>5. i - 1 \in 0 .. m /\ j - 1 \in 0 .. d
    BY <2>4
  <2>6. f[i - 1][l] = g[j - 1][l] /\ f[i - 1][r] = g[j - 1][r]
    BY <1>3, <2>4, <2>5
  <2>7. GetAt(f[i - 1], t, key) = GetAt(g[j - 1], t, key)
    BY <2>1, <2>6 DEF GetAt
  <2> QED
    BY <1>1, <2>2, <2>7
<1> HIDE DEF S
<1>4. \A t \in Tree : t \in S
  BY <1>2, <1>3, TreeInduction
<1> QED
  BY <1>4 DEF S

LEMMA GetChosen ==
    ASSUME NEW a \in Tree, NEW key
    PROVE  \E f : IsGet(f, a.height, key) /\ aa_get(a, key) = f[a.height][a]
<1> DEFINE c == CHOOSE f : IsGet(f, a.height, key)
<1>1. a.height \in Nat
  BY TreeFits
<1>2. IsGet(c, a.height, key)
  BY <1>1, GetExist
<1>3. aa_get(a, key) = c[a.height][a]
  BY DEF aa_get, IsGet, GetStep, GetAt
<1> QED
  BY <1>2, <1>3

(* One call of aa_get. *)
LEMMA GetDef ==
    ASSUME NEW a \in Tree, NEW key
    PROVE  aa_get(a, key) =
             IF a = NoItem THEN NoItem
             ELSE IF key = a.key THEN a
             ELSE IF key < a.key THEN aa_get(a.left, key)
             ELSE aa_get(a.right, key)
<1>1. a.height \in Nat /\ a \in Trees(a.height)
  BY TreeFits
<1>2. PICK f : IsGet(f, a.height, key) /\ aa_get(a, key) = f[a.height][a]
  BY GetChosen
<1>3. f[a.height][a] = GetAt(f[a.height - 1], a, key)
  <2>1. f[a.height] = GetStep(f, a.height, key)
    BY <1>1, <1>2 DEF IsGet
  <2> QED
    BY <1>1, <2>1 DEF GetStep
<1>4. CASE a = NoItem
  BY <1>2, <1>3, <1>4 DEF GetAt
<1>5. CASE a # NoItem
  <2>1. /\ a.height # 0 /\ a.height - 1 \in Nat
        /\ a.left \in Trees(a.height - 1) /\ a.right \in Trees(a.height - 1)
        /\ a.left \in Tree /\ a.right \in Tree
    BY <1>1, <1>5, TreeBelow, TreeIsMk
  <2>2. ASSUME NEW b \in Tree, b \in Trees(a.height - 1)
        PROVE  f[a.height - 1][b] = aa_get(b, key)
    <3>1. b.height \in Nat /\ b \in Trees(b.height)
      BY TreeFits
    <3>2. PICK g : IsGet(g, b.height, key) /\ aa_get(b, key) = g[b.height][b]
      BY GetChosen
    <3>3. a.height - 1 \in 0 .. a.height /\ b.height \in 0 .. b.height
      BY <1>1, <2>1, <3>1
    <3>4. f[a.height - 1][b] = g[b.height][b]
      BY <1>1, <1>2, <2>2, <3>1, <3>2, <3>3, GetAgree
    <3> QED
      BY <3>2, <3>4
  <2> QED
    BY <1>2, <1>3, <1>5, <2>1, <2>2 DEF GetAt
<1> QED
  BY <1>4, <1>5

-----------------------------------------------------------------------------
(* aa_has is what its definition says. *)

HasAt(f, t, key) ==
    IF t = NoItem THEN 0
    ELSE IF key = t.key THEN 1
    ELSE IF key < t.key THEN (IF f[t.left] > 0 THEN f[t.left] + 1 ELSE 0)
    ELSE (IF f[t.right] > 0 THEN f[t.right] + 1 ELSE 0)

HasStep(f, n, key) == [t \in Trees(n) |-> HasAt(f[n - 1], t, key)]

IsHas(f, m, key) == f = [n \in 0 .. m |-> HasStep(f, n, key)]

LEMMA HasExist ==
    ASSUME NEW m \in Nat, NEW key
    PROVE  \E f : IsHas(f, m, key)
<1> DEFINE G == {k \in Nat : \E f : IsHas(f, k, key)}
<1>1. 0 \in G
  <2> DEFINE f == [n \in 0 .. 0 |-> [t \in Trees(0) |-> HasAt(<<>>, t, key)]]
  <2>1. \A t \in Trees(0) : HasAt(<<>>, t, key) = HasAt(f[0 - 1], t, key)
    BY TreesDef DEF HasAt
  <2>2. f[0] = HasStep(f, 0, key)
    BY <2>1 DEF HasStep
  <2>3. IsHas(f, 0, key)
    BY <2>2 DEF IsHas
  <2> QED
    BY <2>3
<1>2. ASSUME NEW k \in G PROVE k + 1 \in G
  <2>1. PICK f : IsHas(f, k, key)
    OBVIOUS
  <2> DEFINE g == [n \in 0 .. k + 1 |-> IF n \in 0 .. k THEN f[n]
                                        ELSE HasStep(f, n, key)]
  <2>2. ASSUME NEW n \in 0 .. k + 1
        PROVE  g[n] = HasStep(g, n, key)
    <3>1. CASE n = 0
      <4>1. \A t \in Trees(0) : HasAt(f[0 - 1], t, key) = HasAt(g[0 - 1], t, key)
        BY TreesDef DEF HasAt
      <4>2. f[0] = HasStep(f, 0, key) /\ g[0] = f[0]
        BY <2>1 DEF IsHas
      <4> QED
        BY <3>1, <4>1, <4>2 DEF HasStep
    <3>2. CASE n # 0
      <4>1. n - 1 \in 0 .. k /\ g[n - 1] = f[n - 1]
        BY <3>2
      <4>2. HasStep(g, n, key) = HasStep(f, n, key)
        BY <4>1 DEF HasStep
      <4>3. n \in 0 .. k => f[n] = HasStep(f, n, key)
        BY <2>1 DEF IsHas
      <4> QED
        BY <4>2, <4>3
    <3> QED
      BY <3>1, <3>2
  <2>3. IsHas(g, k + 1, key)
    BY <2>2 DEF IsHas
  <2> QED
    BY <2>3
<1>3. G = Nat
  <2> HIDE DEF G
  <2>1. G \in SUBSET Nat
    BY DEF G
  <2> QED
    BY <1>1, <1>2, <2>1, SetInduction
<1> QED
  BY <1>3

LEMMA HasAgree ==
    ASSUME NEW m \in Nat, NEW f, NEW d \in Nat, NEW g, NEW key,
           IsHas(f, m, key), IsHas(g, d, key)
    PROVE  \A t \in Tree : \A i \in 0 .. m, j \in 0 .. d :
              t \in Trees(i) /\ t \in Trees(j) => f[i][t] = g[j][t]
<1> DEFINE P(t) == \A i \in 0 .. m, j \in 0 .. d :
                      t \in Trees(i) /\ t \in Trees(j) => f[i][t] = g[j][t]
           S == {t \in Tree : P(t)}
<1>1. ASSUME NEW t, NEW i \in 0 .. m, NEW j \in 0 .. d,
             t \in Trees(i), t \in Trees(j)
      PROVE  f[i][t] = HasAt(f[i - 1], t, key) /\ g[j][t] = HasAt(g[j - 1], t, key)
  <2>1. f[i] = HasStep(f, i, key)
    BY DEF IsHas
  <2>2. g[j] = HasStep(g, j, key)
    BY DEF IsHas
  <2> QED
    BY <1>1, <2>1, <2>2 DEF HasStep
<1>2. NoItem \in S
  <2>1. SUFFICES ASSUME NEW i \in 0 .. m, NEW j \in 0 .. d,
                        NoItem \in Trees(i), NoItem \in Trees(j)
                 PROVE  f[i][NoItem] = g[j][NoItem]
    BY NoItemIsTree
  <2> QED
    BY <1>1, <2>1 DEF HasAt
<1>3. ASSUME NEW k \in Int, NEW v \in Text, NEW l \in Tree, NEW r \in Tree,
             l \in S, r \in S
      PROVE  Mk(k, v, l, r) \in S
  <2> DEFINE t == Mk(k, v, l, r)
  <2>1. t \in Tree /\ t # NoItem /\ t.left = l /\ t.right = r
    BY MkIsTree
  <2> HIDE DEF t
  <2>2. SUFFICES ASSUME NEW i \in 0 .. m, NEW j \in 0 .. d,
                        t \in Trees(i), t \in Trees(j)
                 PROVE  f[i][t] = g[j][t]
    BY <2>1 DEF t
  <2>3. i \in Nat /\ j \in Nat
    OBVIOUS
  <2>4. /\ i # 0 /\ l \in Trees(i - 1) /\ r \in Trees(i - 1)
        /\ j # 0 /\ l \in Trees(j - 1) /\ r \in Trees(j - 1)
    BY <2>1, <2>2, <2>3, TreeBelow
  <2>5. i - 1 \in 0 .. m /\ j - 1 \in 0 .. d
    BY <2>4
  <2>6. f[i - 1][l] = g[j - 1][l] /\ f[i - 1][r] = g[j - 1][r]
    BY <1>3, <2>4, <2>5
  <2>7. HasAt(f[i - 1], t, key) = HasAt(g[j - 1], t, key)
    BY <2>1, <2>6 DEF HasAt
  <2> QED
    BY <1>1, <2>2, <2>7
<1> HIDE DEF S
<1>4. \A t \in Tree : t \in S
  BY <1>2, <1>3, TreeInduction
<1> QED
  BY <1>4 DEF S

LEMMA HasChosen ==
    ASSUME NEW a \in Tree, NEW key
    PROVE  \E f : IsHas(f, a.height, key) /\ aa_has(a, key) = f[a.height][a]
<1> DEFINE c == CHOOSE f : IsHas(f, a.height, key)
<1>1. a.height \in Nat
  BY TreeFits
<1>2. IsHas(c, a.height, key)
  BY <1>1, HasExist
<1>3. aa_has(a, key) = c[a.height][a]
  BY DEF aa_has, IsHas, HasStep, HasAt
<1> QED
  BY <1>2, <1>3

(* One call of aa_has. *)
LEMMA HasDef ==
    ASSUME NEW a \in Tree, NEW key
    PROVE  aa_has(a, key) =
             LET l == aa_has(a.left, key)
                 r == aa_has(a.right, key)
             IN  IF a = NoItem THEN 0
                 ELSE IF key = a.key THEN 1
                 ELSE IF key < a.key THEN (IF l > 0 THEN l + 1 ELSE 0)
                 ELSE (IF r > 0 THEN r + 1 ELSE 0)
<1>1. a.height \in Nat /\ a \in Trees(a.height)
  BY TreeFits
<1>2. PICK f : IsHas(f, a.height, key) /\ aa_has(a, key) = f[a.height][a]
  BY HasChosen
<1>3. f[a.height][a] = HasAt(f[a.height - 1], a, key)
  <2>1. f[a.height] = HasStep(f, a.height, key)
    BY <1>1, <1>2 DEF IsHas
  <2> QED
    BY <1>1, <2>1 DEF HasStep
<1>4. CASE a = NoItem
  BY <1>2, <1>3, <1>4 DEF HasAt
<1>5. CASE a # NoItem
  <2>1. /\ a.height # 0 /\ a.height - 1 \in Nat
        /\ a.left \in Trees(a.height - 1) /\ a.right \in Trees(a.height - 1)
        /\ a.left \in Tree /\ a.right \in Tree
    BY <1>1, <1>5, TreeBelow, TreeIsMk
  <2>2. ASSUME NEW b \in Tree, b \in Trees(a.height - 1)
        PROVE  f[a.height - 1][b] = aa_has(b, key)
    <3>1. b.height \in Nat /\ b \in Trees(b.height)
      BY TreeFits
    <3>2. PICK g : IsHas(g, b.height, key) /\ aa_has(b, key) = g[b.height][b]
      BY HasChosen
    <3>3. a.height - 1 \in 0 .. a.height /\ b.height \in 0 .. b.height
      BY <1>1, <2>1, <3>1
    <3>4. f[a.height - 1][b] = g[b.height][b]
      BY <1>1, <1>2, <2>2, <3>1, <3>2, <3>3, HasAgree
    <3> QED
      BY <3>2, <3>4
  <2> QED
    BY <1>2, <1>3, <1>5, <2>1, <2>2 DEF HasAt
<1> QED
  BY <1>4, <1>5

-----------------------------------------------------------------------------
(* What a call of aa_set_or_put_item returns after the one below it. *)
Back(node, inserted_new) ==
    [node |-> IF inserted_new THEN Rebalance(WithHeight(node)) ELSE node,
     inserted_new |-> inserted_new]

-----------------------------------------------------------------------------
(* aa_set_or_put_item is what its definition says. *)

PutAt(f, t, key, value) ==
    IF t = NoItem
    THEN [node |-> aa_item_create(key, value), inserted_new |-> TRUE]
    ELSE IF key = t.key
    THEN [node |-> [t EXCEPT !.value = value], inserted_new |-> FALSE]
    ELSE IF key < t.key
    THEN Back([t EXCEPT !.left = f[t.left].node], f[t.left].inserted_new)
    ELSE Back([t EXCEPT !.right = f[t.right].node], f[t.right].inserted_new)

PutStep(f, n, key, value) == [t \in Trees(n) |-> PutAt(f[n - 1], t, key, value)]

IsPut(f, m, key, value) == f = [n \in 0 .. m |-> PutStep(f, n, key, value)]

LEMMA PutExist ==
    ASSUME NEW m \in Nat, NEW key, NEW value
    PROVE  \E f : IsPut(f, m, key, value)
<1> DEFINE G == {k \in Nat : \E f : IsPut(f, k, key, value)}
<1>1. 0 \in G
  <2> DEFINE f == [n \in 0 .. 0 |-> [t \in Trees(0) |-> PutAt(<<>>, t, key, value)]]
  <2>1. \A t \in Trees(0) : PutAt(<<>>, t, key, value) = PutAt(f[0 - 1], t, key, value)
    BY TreesDef DEF PutAt
  <2>2. f[0] = PutStep(f, 0, key, value)
    BY <2>1 DEF PutStep
  <2>3. IsPut(f, 0, key, value)
    BY <2>2 DEF IsPut
  <2> QED
    BY <2>3
<1>2. ASSUME NEW k \in G PROVE k + 1 \in G
  <2>1. PICK f : IsPut(f, k, key, value)
    OBVIOUS
  <2> DEFINE g == [n \in 0 .. k + 1 |-> IF n \in 0 .. k THEN f[n]
                                        ELSE PutStep(f, n, key, value)]
  <2>2. ASSUME NEW n \in 0 .. k + 1
        PROVE  g[n] = PutStep(g, n, key, value)
    <3>1. CASE n = 0
      <4>1. \A t \in Trees(0) : PutAt(f[0 - 1], t, key, value) = PutAt(g[0 - 1], t, key, value)
        BY TreesDef DEF PutAt
      <4>2. f[0] = PutStep(f, 0, key, value) /\ g[0] = f[0]
        BY <2>1 DEF IsPut
      <4> QED
        BY <3>1, <4>1, <4>2 DEF PutStep
    <3>2. CASE n # 0
      <4>1. n - 1 \in 0 .. k /\ g[n - 1] = f[n - 1]
        BY <3>2
      <4>2. PutStep(g, n, key, value) = PutStep(f, n, key, value)
        BY <4>1 DEF PutStep
      <4>3. n \in 0 .. k => f[n] = PutStep(f, n, key, value)
        BY <2>1 DEF IsPut
      <4> QED
        BY <4>2, <4>3
    <3> QED
      BY <3>1, <3>2
  <2>3. IsPut(g, k + 1, key, value)
    BY <2>2 DEF IsPut
  <2> QED
    BY <2>3
<1>3. G = Nat
  <2> HIDE DEF G
  <2>1. G \in SUBSET Nat
    BY DEF G
  <2> QED
    BY <1>1, <1>2, <2>1, SetInduction
<1> QED
  BY <1>3

LEMMA PutAgree ==
    ASSUME NEW m \in Nat, NEW f, NEW d \in Nat, NEW g, NEW key, NEW value,
           IsPut(f, m, key, value), IsPut(g, d, key, value)
    PROVE  \A t \in Tree : \A i \in 0 .. m, j \in 0 .. d :
              t \in Trees(i) /\ t \in Trees(j) => f[i][t] = g[j][t]
<1> DEFINE P(t) == \A i \in 0 .. m, j \in 0 .. d :
                      t \in Trees(i) /\ t \in Trees(j) => f[i][t] = g[j][t]
           S == {t \in Tree : P(t)}
<1>1. ASSUME NEW t, NEW i \in 0 .. m, NEW j \in 0 .. d,
             t \in Trees(i), t \in Trees(j)
      PROVE  f[i][t] = PutAt(f[i - 1], t, key, value) /\ g[j][t] = PutAt(g[j - 1], t, key, value)
  <2>1. f[i] = PutStep(f, i, key, value)
    BY DEF IsPut
  <2>2. g[j] = PutStep(g, j, key, value)
    BY DEF IsPut
  <2> QED
    BY <1>1, <2>1, <2>2 DEF PutStep
<1>2. NoItem \in S
  <2>1. SUFFICES ASSUME NEW i \in 0 .. m, NEW j \in 0 .. d,
                        NoItem \in Trees(i), NoItem \in Trees(j)
                 PROVE  f[i][NoItem] = g[j][NoItem]
    BY NoItemIsTree
  <2> QED
    BY <1>1, <2>1 DEF PutAt
<1>3. ASSUME NEW k \in Int, NEW v \in Text, NEW l \in Tree, NEW r \in Tree,
             l \in S, r \in S
      PROVE  Mk(k, v, l, r) \in S
  <2> DEFINE t == Mk(k, v, l, r)
  <2>1. t \in Tree /\ t # NoItem /\ t.left = l /\ t.right = r
    BY MkIsTree
  <2> HIDE DEF t
  <2>2. SUFFICES ASSUME NEW i \in 0 .. m, NEW j \in 0 .. d,
                        t \in Trees(i), t \in Trees(j)
                 PROVE  f[i][t] = g[j][t]
    BY <2>1 DEF t
  <2>3. i \in Nat /\ j \in Nat
    OBVIOUS
  <2>4. /\ i # 0 /\ l \in Trees(i - 1) /\ r \in Trees(i - 1)
        /\ j # 0 /\ l \in Trees(j - 1) /\ r \in Trees(j - 1)
    BY <2>1, <2>2, <2>3, TreeBelow
  <2>5. i - 1 \in 0 .. m /\ j - 1 \in 0 .. d
    BY <2>4
  <2>6. f[i - 1][l] = g[j - 1][l] /\ f[i - 1][r] = g[j - 1][r]
    BY <1>3, <2>4, <2>5
  <2>7. PutAt(f[i - 1], t, key, value) = PutAt(g[j - 1], t, key, value)
    BY <2>1, <2>6 DEF PutAt
  <2> QED
    BY <1>1, <2>2, <2>7
<1> HIDE DEF S
<1>4. \A t \in Tree : t \in S
  BY <1>2, <1>3, TreeInduction
<1> QED
  BY <1>4 DEF S

LEMMA PutChosen ==
    ASSUME NEW a \in Tree, NEW key, NEW value
    PROVE  \E f : IsPut(f, a.height, key, value) /\ aa_set_or_put_item(a, key, value) = f[a.height][a]
<1> DEFINE c == CHOOSE f : IsPut(f, a.height, key, value)
<1>1. a.height \in Nat
  BY TreeFits
<1>2. IsPut(c, a.height, key, value)
  BY <1>1, PutExist
<1>3. aa_set_or_put_item(a, key, value) = c[a.height][a]
  BY DEF aa_set_or_put_item, IsPut, PutStep, PutAt, Back
<1> QED
  BY <1>2, <1>3

(* One call of aa_set_or_put_item. *)
LEMMA PutDef ==
    ASSUME NEW a \in Tree, NEW key, NEW value
    PROVE  aa_set_or_put_item(a, key, value) =
             LET l == aa_set_or_put_item(a.left, key, value)
                 r == aa_set_or_put_item(a.right, key, value)
             IN  IF a = NoItem
                 THEN [node |-> aa_item_create(key, value), inserted_new |-> TRUE]
                 ELSE IF key = a.key
                 THEN [node |-> [a EXCEPT !.value = value],
                       inserted_new |-> FALSE]
                 ELSE IF key < a.key
                 THEN Back([a EXCEPT !.left = l.node], l.inserted_new)
                 ELSE Back([a EXCEPT !.right = r.node], r.inserted_new)
<1>1. a.height \in Nat /\ a \in Trees(a.height)
  BY TreeFits
<1>2. PICK f : IsPut(f, a.height, key, value) /\ aa_set_or_put_item(a, key, value) = f[a.height][a]
  BY PutChosen
<1>3. f[a.height][a] = PutAt(f[a.height - 1], a, key, value)
  <2>1. f[a.height] = PutStep(f, a.height, key, value)
    BY <1>1, <1>2 DEF IsPut
  <2> QED
    BY <1>1, <2>1 DEF PutStep
<1>4. CASE a = NoItem
  BY <1>2, <1>3, <1>4 DEF PutAt
<1>5. CASE a # NoItem
  <2>1. /\ a.height # 0 /\ a.height - 1 \in Nat
        /\ a.left \in Trees(a.height - 1) /\ a.right \in Trees(a.height - 1)
        /\ a.left \in Tree /\ a.right \in Tree
    BY <1>1, <1>5, TreeBelow, TreeIsMk
  <2>2. ASSUME NEW b \in Tree, b \in Trees(a.height - 1)
        PROVE  f[a.height - 1][b] = aa_set_or_put_item(b, key, value)
    <3>1. b.height \in Nat /\ b \in Trees(b.height)
      BY TreeFits
    <3>2. PICK g : IsPut(g, b.height, key, value) /\ aa_set_or_put_item(b, key, value) = g[b.height][b]
      BY PutChosen
    <3>3. a.height - 1 \in 0 .. a.height /\ b.height \in 0 .. b.height
      BY <1>1, <2>1, <3>1
    <3>4. f[a.height - 1][b] = g[b.height][b]
      BY <1>1, <1>2, <2>2, <3>1, <3>2, <3>3, PutAgree
    <3> QED
      BY <3>2, <3>4
  <2> QED
    BY <1>2, <1>3, <1>5, <2>1, <2>2 DEF PutAt
<1> QED
  BY <1>4, <1>5

-----------------------------------------------------------------------------
(* What is in a tree. *)

Items(t) == {<<n.key, n.value>> : n \in Nodes(t)}

(* The entries of a sequence. *)
Entries(s) == {s[i] : i \in 1 .. Len(s)}

LEMMA ConcatEntries ==
    ASSUME NEW S, NEW p \in Seq(S), NEW q \in Seq(S)
    PROVE  p \o q \in Seq(S) /\ Entries(p \o q) = Entries(p) \cup Entries(q)
<1>1. /\ p \o q \in Seq(S) /\ Len(p \o q) = Len(p) + Len(q)
      /\ Len(p) \in Nat /\ Len(q) \in Nat
      /\ \A i \in 1 .. Len(p) + Len(q) :
            (p \o q)[i] = IF i <= Len(p) THEN p[i] ELSE q[i - Len(p)]
  BY ConcatProperties
<1>2. ASSUME NEW x \in Entries(p \o q) PROVE x \in Entries(p) \cup Entries(q)
  <2>1. PICK i \in 1 .. Len(p) + Len(q) : x = (p \o q)[i]
    BY <1>1 DEF Entries
  <2>2. CASE i <= Len(p)
    BY <1>1, <2>1, <2>2 DEF Entries
  <2>3. CASE ~(i <= Len(p))
    <3>1. i - Len(p) \in 1 .. Len(q) /\ x = q[i - Len(p)]
      BY <1>1, <2>1, <2>3
    <3> QED
      BY <3>1 DEF Entries
  <2> QED
    BY <2>2, <2>3
<1>3. ASSUME NEW x \in Entries(p) PROVE x \in Entries(p \o q)
  <2>1. PICK i \in 1 .. Len(p) : x = p[i]
    BY DEF Entries
  <2>2. i \in 1 .. Len(p \o q) /\ (p \o q)[i] = x
    BY <1>1, <2>1
  <2> QED
    BY <2>2 DEF Entries
<1>4. ASSUME NEW x \in Entries(q) PROVE x \in Entries(p \o q)
  <2>1. PICK i \in 1 .. Len(q) : x = q[i]
    BY DEF Entries
  <2>2. Len(p) + i \in 1 .. Len(p) + Len(q) /\ ~(Len(p) + i <= Len(p))
        /\ (Len(p) + i) - Len(p) = i
    BY <1>1, <2>1
  <2>3. Len(p) + i \in 1 .. Len(p \o q) /\ (p \o q)[Len(p) + i] = x
    BY <1>1, <2>1, <2>2
  <2> QED
    BY <2>3 DEF Entries
<1> QED
  BY <1>1, <1>2, <1>3, <1>4

LEMMA OrderIsSeq ==
    \A t \in Tree : Preorder(t) \in Seq(Tree \ {NoItem})
<1> DEFINE S == {t \in Tree : Preorder(t) \in Seq(Tree \ {NoItem})}
<1>1. NoItem \in S
  <2>1. NoItem \in Tree /\ Preorder(NoItem) = <<>>
    BY NoItemIsTree, OrderDef
  <2>2. <<>> \in Seq(Tree \ {NoItem})
    OBVIOUS
  <2> QED
    BY <2>1, <2>2
<1>2. ASSUME NEW k \in Int, NEW v \in Text, NEW l \in Tree, NEW r \in Tree,
             l \in S, r \in S
      PROVE  Mk(k, v, l, r) \in S
  <2> DEFINE t == Mk(k, v, l, r)
  <2>1. t \in Tree /\ t # NoItem /\ t.left = l /\ t.right = r
    BY MkIsTree
  <2> HIDE DEF t
  <2>2. Preorder(t) = <<t>> \o Preorder(l) \o Preorder(r)
    BY <2>1, OrderDef
  <2>3. <<t>> \in Seq(Tree \ {NoItem})
    BY <2>1
  <2>4. <<t>> \o Preorder(l) \in Seq(Tree \ {NoItem})
    BY <1>2, <2>3, ConcatProperties
  <2>5. <<t>> \o Preorder(l) \o Preorder(r) \in Seq(Tree \ {NoItem})
    BY <1>2, <2>4, ConcatProperties
  <2> QED
    BY <2>1, <2>2, <2>5 DEF t
<1> HIDE DEF S
<1>3. \A t \in Tree : t \in S
  BY <1>1, <1>2, TreeInduction
<1> QED
  BY <1>3 DEF S

LEMMA NodesDef ==
    /\ Nodes(NoItem) = {}
    /\ \A t \in Tree : Nodes(t) \subseteq Tree \ {NoItem}
    /\ \A k \in Int, v \in Text, l \in Tree, r \in Tree :
          Nodes(Mk(k, v, l, r)) = {Mk(k, v, l, r)} \cup Nodes(l) \cup Nodes(r)
<1>1. \A t : Nodes(t) = Entries(Preorder(t))
  BY DEF Nodes, Entries
<1>2. Nodes(NoItem) = {}
  <2>1. Preorder(NoItem) = <<>>
    BY NoItemIsTree, OrderDef
  <2> QED
    BY <1>1, <2>1 DEF Entries
<1>3. ASSUME NEW t \in Tree PROVE Nodes(t) \subseteq Tree \ {NoItem}
  <2>1. Preorder(t) \in Seq(Tree \ {NoItem})
    BY OrderIsSeq
  <2>2. \A i \in 1 .. Len(Preorder(t)) : Preorder(t)[i] \in Tree \ {NoItem}
    BY <2>1
  <2> QED
    BY <1>1, <2>2 DEF Entries
<1>4. ASSUME NEW k \in Int, NEW v \in Text, NEW l \in Tree, NEW r \in Tree
      PROVE  Nodes(Mk(k, v, l, r)) = {Mk(k, v, l, r)} \cup Nodes(l) \cup Nodes(r)
  <2> DEFINE t == Mk(k, v, l, r)
  <2>1. t \in Tree /\ t # NoItem /\ t.left = l /\ t.right = r
    BY MkIsTree
  <2> HIDE DEF t
  <2>2. Preorder(t) = <<t>> \o Preorder(l) \o Preorder(r)
    BY <2>1, OrderDef
  <2>3. /\ <<t>> \in Seq(Tree) /\ Entries(<<t>>) = {t}
        /\ Preorder(l) \in Seq(Tree) /\ Preorder(r) \in Seq(Tree)
    <3>1. <<t>> \in Seq(Tree) /\ Entries(<<t>>) = {t}
      BY <2>1 DEF Entries
    <3>2. /\ Preorder(l) \in Seq(Tree \ {NoItem})
          /\ Preorder(r) \in Seq(Tree \ {NoItem})
      BY OrderIsSeq
    <3> QED
      BY <3>1, <3>2
  <2> DEFINE o == <<t>>
             p == Preorder(l)
             q == Preorder(r)
  <2>4. o \in Seq(Tree) /\ p \in Seq(Tree) /\ q \in Seq(Tree)
    BY <2>3
  <2>5. Entries(o) = {t} /\ Preorder(t) = o \o p \o q
    BY <2>2, <2>3
  <2> HIDE DEF o, p, q
  <2>6. o \o p \in Seq(Tree) /\ Entries(o \o p) = Entries(o) \cup Entries(p)
    BY <2>4, ConcatEntries
  <2> DEFINE op == o \o p
  <2>7. op \in Seq(Tree)
    BY <2>6
  <2> HIDE DEF op
  <2>8. Entries(op \o q) = Entries(op) \cup Entries(q)
    BY <2>4, <2>7, ConcatEntries
  <2> QED
    BY <1>1, <2>5, <2>6, <2>8 DEF t, p, q, op
<1> QED
  BY <1>2, <1>3, <1>4

LEMMA ItemsDef ==
    /\ Items(NoItem) = {}
    /\ \A t \in Tree : Items(t) \subseteq Int \X Text
    /\ \A k \in Int, v \in Text, l \in Tree, r \in Tree :
          Items(Mk(k, v, l, r)) = {<<k, v>>} \cup Items(l) \cup Items(r)
<1>1. Items(NoItem) = {}
  BY NodesDef DEF Items
<1>2. ASSUME NEW t \in Tree PROVE Items(t) \subseteq Int \X Text
  <2>1. \A n \in Nodes(t) : n.key \in Int /\ n.value \in Text
    BY NodesDef, TreeIsMk
  <2> QED
    BY <2>1 DEF Items
<1>3. ASSUME NEW k \in Int, NEW v \in Text, NEW l \in Tree, NEW r \in Tree
      PROVE  Items(Mk(k, v, l, r)) = {<<k, v>>} \cup Items(l) \cup Items(r)
  <2> DEFINE t == Mk(k, v, l, r)
  <2>1. t.key = k /\ t.value = v
    BY MkIsTree
  <2>2. Nodes(t) = {t} \cup Nodes(l) \cup Nodes(r)
    BY NodesDef
  <2> HIDE DEF t
  <2>3. Items(t) = {<<k, v>>} \cup Items(l) \cup Items(r)
    BY <2>1, <2>2 DEF Items
  <2> QED
    BY <2>3 DEF t
<1> QED
  BY <1>1, <1>2, <1>3

(* A balanced search tree. *)
AVL(t) == t \in Tree /\ IsSearchTree(t) /\ IsBalanced(t)

(* The keys of l are below k, and those of r above it. *)
Ordered(k, l, r) ==
    (\A x \in Items(l) : x[1] < k) /\ (\A x \in Items(r) : x[1] > k)

LEMMA AVLDef ==
    /\ AVL(NoItem)
    /\ \A k \in Int, v \in Text, l \in Tree, r \in Tree :
          AVL(Mk(k, v, l, r)) <=>
             /\ AVL(l) /\ AVL(r) /\ Ordered(k, l, r)
             /\ r.height - l.height \in -1 .. 1
<1>1. AVL(NoItem)
  BY NoItemIsTree, TreeFits, NodesDef DEF AVL, IsSearchTree, IsBalanced
<1>2. ASSUME NEW k \in Int, NEW v \in Text, NEW l \in Tree, NEW r \in Tree
      PROVE  AVL(Mk(k, v, l, r)) <=>
                /\ AVL(l) /\ AVL(r) /\ Ordered(k, l, r)
                /\ r.height - l.height \in -1 .. 1
  <2> DEFINE t == Mk(k, v, l, r)
  <2>1. t \in Tree /\ t.key = k /\ t.left = l /\ t.right = r
    BY MkIsTree
  <2>2. Nodes(t) = {t} \cup Nodes(l) \cup Nodes(r)
    BY NodesDef
  <2> HIDE DEF t
  <2>3. /\ t \in Trees(t.height) /\ l \in Trees(l.height)
        /\ r \in Trees(r.height)
    BY <2>1, TreeFits
  <2>4. IsBalanced(t) <=> /\ IsBalanced(l) /\ IsBalanced(r)
                          /\ r.height - l.height \in -1 .. 1
    BY <2>1, <2>2, <2>3 DEF IsBalanced, balance
  <2>5. Ordered(k, l, r) <=> /\ \A m \in Nodes(l) : m.key < k
                             /\ \A m \in Nodes(r) : m.key > k
    <3>1. \A m \in Nodes(l) : <<m.key, m.value>> \in Items(l)
      BY DEF Items
    <3>2. \A m \in Nodes(r) : <<m.key, m.value>> \in Items(r)
      BY DEF Items
    <3>3. \A x \in Items(l) : \E m \in Nodes(l) : x[1] = m.key
      BY DEF Items
    <3>4. \A x \in Items(r) : \E m \in Nodes(r) : x[1] = m.key
      BY DEF Items
    <3>5. \A a, b : <<a, b>>[1] = a
      OBVIOUS
    <3> QED
      BY <3>1, <3>2, <3>3, <3>4, <3>5 DEF Ordered
  <2>6. IsSearchTree(t) <=>
          /\ \A m \in Nodes(t.left) : m.key < t.key
          /\ \A m \in Nodes(t.right) : m.key > t.key
          /\ IsSearchTree(l) /\ IsSearchTree(r)
    BY <2>2 DEF IsSearchTree
  <2>7. AVL(t) <=> /\ AVL(l) /\ AVL(r) /\ Ordered(k, l, r)
                   /\ r.height - l.height \in -1 .. 1
    BY <2>1, <2>4, <2>5, <2>6 DEF AVL
  <2> QED
    BY <2>7 DEF t
<1> QED
  BY <1>1, <1>2

-----------------------------------------------------------------------------
(* The rotations, whatever the height noted in the node was. *)

Raw(h, k, v, l, r) ==
    [height |-> h, key |-> k, value |-> v, left |-> l, right |-> r]

LEMMA WithHeightIs ==
    ASSUME NEW h, NEW k, NEW v, NEW l, NEW r
    PROVE  WithHeight(Raw(h, k, v, l, r)) = Mk(k, v, l, r)
BY DEF WithHeight, max_h, Raw, Mk

LEMMA MkIsRaw ==
    ASSUME NEW k, NEW v, NEW l, NEW r
    PROVE  \E h : Mk(k, v, l, r) = Raw(h, k, v, l, r)
BY DEF Mk, Raw

LEMMA RawSides ==
    ASSUME NEW h, NEW k, NEW v, NEW l, NEW r, NEW x
    PROVE  /\ Raw(h, k, v, l, r).left = l /\ Raw(h, k, v, l, r).right = r
           /\ [Raw(h, k, v, l, r) EXCEPT !.left = x] = Raw(h, k, v, x, r)
           /\ [Raw(h, k, v, l, r) EXCEPT !.right = x] = Raw(h, k, v, l, x)
BY DEF Raw

LEMMA RotateRight ==
    ASSUME NEW h, NEW k, NEW v, NEW k2, NEW v2, NEW a, NEW b, NEW c
    PROVE  aa_rotate_right(Raw(h, k, v, Mk(k2, v2, a, b), c)) =
             Mk(k2, v2, a, Mk(k, v, b, c))
<1> DEFINE node == Raw(h, k, v, Mk(k2, v2, a, b), c)
<1>1. PICK h2 : Mk(k2, v2, a, b) = Raw(h2, k2, v2, a, b)
  BY MkIsRaw
<1>2. node.left = Raw(h2, k2, v2, a, b) /\ node.left.right = b
  BY <1>1, RawSides
<1>3. WithHeight([node EXCEPT !.left = b]) = Mk(k, v, b, c)
  <2>1. [node EXCEPT !.left = b] = Raw(h, k, v, b, c)
    BY RawSides
  <2> QED
    BY <2>1, WithHeightIs
<1>4. WithHeight([node.left EXCEPT !.right = Mk(k, v, b, c)]) =
        Mk(k2, v2, a, Mk(k, v, b, c))
  <2>1. [node.left EXCEPT !.right = Mk(k, v, b, c)] =
          Raw(h2, k2, v2, a, Mk(k, v, b, c))
    BY <1>2, RawSides
  <2> QED
    BY <2>1, WithHeightIs
<1> HIDE DEF node
<1>5. aa_rotate_right(node) =
        WithHeight([node.left EXCEPT !.right =
                      WithHeight([node EXCEPT !.left = node.left.right])])
  BY DEF aa_rotate_right
<1> QED
  BY <1>2, <1>3, <1>4, <1>5 DEF node

LEMMA RotateLeft ==
    ASSUME NEW h, NEW k, NEW v, NEW k2, NEW v2, NEW a, NEW b, NEW c
    PROVE  aa_rotate_left(Raw(h, k, v, a, Mk(k2, v2, b, c))) =
             Mk(k2, v2, Mk(k, v, a, b), c)
<1> DEFINE node == Raw(h, k, v, a, Mk(k2, v2, b, c))
<1>1. PICK h2 : Mk(k2, v2, b, c) = Raw(h2, k2, v2, b, c)
  BY MkIsRaw
<1>2. node.right = Raw(h2, k2, v2, b, c) /\ node.right.left = b
  BY <1>1, RawSides
<1>3. WithHeight([node EXCEPT !.right = b]) = Mk(k, v, a, b)
  <2>1. [node EXCEPT !.right = b] = Raw(h, k, v, a, b)
    BY RawSides
  <2> QED
    BY <2>1, WithHeightIs
<1>4. WithHeight([node.right EXCEPT !.left = Mk(k, v, a, b)]) =
        Mk(k2, v2, Mk(k, v, a, b), c)
  <2>1. [node.right EXCEPT !.left = Mk(k, v, a, b)] =
          Raw(h2, k2, v2, Mk(k, v, a, b), c)
    BY <1>2, RawSides
  <2> QED
    BY <2>1, WithHeightIs
<1> HIDE DEF node
<1>5. aa_rotate_left(node) =
        WithHeight([node.right EXCEPT !.left =
                      WithHeight([node EXCEPT !.right = node.right.left])])
  BY DEF aa_rotate_left
<1> QED
  BY <1>2, <1>3, <1>4, <1>5 DEF node

LEMMA RotateLeftRight ==
    ASSUME NEW k, NEW v, NEW k2, NEW v2, NEW k3, NEW v3,
           NEW a, NEW b, NEW c, NEW d
    PROVE  aa_rotate_left_right(Mk(k, v, Mk(k2, v2, a, Mk(k3, v3, b, c)), d)) =
             Mk(k3, v3, Mk(k2, v2, a, b), Mk(k, v, c, d))
<1> DEFINE low == Mk(k2, v2, a, Mk(k3, v3, b, c))
<1>1. PICK h2 : low = Raw(h2, k2, v2, a, Mk(k3, v3, b, c))
  BY MkIsRaw
<1>2. aa_rotate_left(low) = Mk(k3, v3, Mk(k2, v2, a, b), c)
  BY <1>1, RotateLeft
<1> HIDE DEF low
<1>3. PICK h : Mk(k, v, low, d) = Raw(h, k, v, low, d)
  BY MkIsRaw
<1>4. [Raw(h, k, v, low, d) EXCEPT !.left = aa_rotate_left(Raw(h, k, v, low, d).left)]
        = Raw(h, k, v, Mk(k3, v3, Mk(k2, v2, a, b), c), d)
  BY <1>2, RawSides
<1>5. aa_rotate_left_right(Mk(k, v, low, d)) =
        aa_rotate_right(Raw(h, k, v, Mk(k3, v3, Mk(k2, v2, a, b), c), d))
  BY <1>3, <1>4 DEF aa_rotate_left_right
<1> QED
  BY <1>5, RotateRight DEF low

LEMMA RotateRightLeft ==
    ASSUME NEW k, NEW v, NEW k2, NEW v2, NEW k3, NEW v3,
           NEW a, NEW b, NEW c, NEW d
    PROVE  aa_rotate_right_left(Mk(k, v, a, Mk(k2, v2, Mk(k3, v3, b, c), d))) =
             Mk(k3, v3, Mk(k, v, a, b), Mk(k2, v2, c, d))
<1> DEFINE low == Mk(k2, v2, Mk(k3, v3, b, c), d)
<1>1. PICK h2 : low = Raw(h2, k2, v2, Mk(k3, v3, b, c), d)
  BY MkIsRaw
<1>2. aa_rotate_right(low) = Mk(k3, v3, b, Mk(k2, v2, c, d))
  BY <1>1, RotateRight
<1> HIDE DEF low
<1>3. PICK h : Mk(k, v, a, low) = Raw(h, k, v, a, low)
  BY MkIsRaw
<1>4. [Raw(h, k, v, a, low) EXCEPT !.right = aa_rotate_right(Raw(h, k, v, a, low).right)]
        = Raw(h, k, v, a, Mk(k3, v3, b, Mk(k2, v2, c, d)))
  BY <1>2, RawSides
<1>5. aa_rotate_right_left(Mk(k, v, a, low)) =
        aa_rotate_left(Raw(h, k, v, a, Mk(k3, v3, b, Mk(k2, v2, c, d))))
  BY <1>3, <1>4 DEF aa_rotate_right_left
<1> QED
  BY <1>5, RotateLeft DEF low

-----------------------------------------------------------------------------
(* Insertion. *)

(* A tree x that is to take the place of Mk(k, v, l, r). *)
TakesPlace(x, k, v, l, r) ==
    AVL(x) /\ Items(x) = Items(Mk(k, v, l, r))

LEMMA AVLHeight ==
    ASSUME NEW t, AVL(t)
    PROVE  /\ t \in Tree /\ t.height \in Nat /\ (t = NoItem \/ t.height # 0)
<1>1. t \in Tree
  BY DEF AVL
<1>2. t.height \in Nat
  BY <1>1, TreeFits
<1>3. CASE t # NoItem
  <2>1. /\ t = Mk(t.key, t.value, t.left, t.right)
        /\ t.key \in Int /\ t.value \in Text
        /\ t.left \in Tree /\ t.right \in Tree
    BY <1>1, <1>3, TreeIsMk
  <2>2. t.height - 1 \in Nat
    BY <2>1, MkIsTree
  <2> QED
    BY <1>1, <1>2, <2>2
<1> QED
  BY <1>1, <1>2, <1>3

(* A balanced tree that is not empty. *)
LEMMA AVLParts ==
    ASSUME NEW t, AVL(t), t # NoItem
    PROVE  \E k \in Int, v \in Text, l \in Tree, r \in Tree :
              /\ t = Mk(k, v, l, r)
              /\ AVL(l) /\ AVL(r) /\ Ordered(k, l, r)
              /\ l.height \in Nat /\ r.height \in Nat
              /\ r.height - l.height \in -1 .. 1
              /\ balance(t) = r.height - l.height
              /\ t.height =
                    (IF r.height > l.height THEN r.height ELSE l.height) + 1
<1>1. t \in Tree
  BY DEF AVL
<1>2. /\ t = Mk(t.key, t.value, t.left, t.right)
      /\ t.key \in Int /\ t.value \in Text
      /\ t.left \in Tree /\ t.right \in Tree
  BY <1>1, TreeIsMk
<1> DEFINE k == t.key
           v == t.value
           l == t.left
           r == t.right
<1>3. /\ AVL(l) /\ AVL(r) /\ Ordered(k, l, r)
      /\ r.height - l.height \in -1 .. 1
  BY <1>2, AVLDef
<1>4. l.height \in Nat /\ r.height \in Nat
  BY <1>2, TreeFits
<1>5. t.height = (IF r.height > l.height THEN r.height ELSE l.height) + 1
  <2>1. Mk(k, v, l, r).height =
          (IF r.height > l.height THEN r.height ELSE l.height) + 1
    BY DEF Mk
  <2> QED
    BY <1>2, <2>1
<1>6. balance(t) = r.height - l.height
  BY DEF balance
<1> QED
  BY <1>2, <1>3, <1>4, <1>5, <1>6

(* An item over two balanced trees whose heights allow it. *)
LEMMA AVLMk ==
    ASSUME NEW k \in Int, NEW v \in Text, NEW l, NEW r, AVL(l), AVL(r),
           Ordered(k, l, r), r.height - l.height \in -1 .. 1
    PROVE  /\ AVL(Mk(k, v, l, r))
           /\ Items(Mk(k, v, l, r)) = {<<k, v>>} \cup Items(l) \cup Items(r)
           /\ Mk(k, v, l, r).height =
                 (IF r.height > l.height THEN r.height ELSE l.height) + 1
           /\ l.height \in Nat /\ r.height \in Nat
<1>1. l \in Tree /\ r \in Tree
  BY DEF AVL
<1>2. l.height \in Nat /\ r.height \in Nat
  BY <1>1, TreeFits
<1>3. AVL(Mk(k, v, l, r))
  BY <1>1, AVLDef
<1>4. Items(Mk(k, v, l, r)) = {<<k, v>>} \cup Items(l) \cup Items(r)
  BY <1>1, ItemsDef
<1>5. Mk(k, v, l, r).height =
        (IF r.height > l.height THEN r.height ELSE l.height) + 1
  BY DEF Mk
<1> QED
  BY <1>2, <1>3, <1>4, <1>5

LEMMA ItemsType ==
    ASSUME NEW t, AVL(t)
    PROVE  \A x \in Items(t) : x[1] \in Int
BY ItemsDef DEF AVL

(* b is between the nodes k2 and k, so that it can change sides. *)
LEMMA OrderedRight ==
    ASSUME NEW k \in Int, NEW k2 \in Int, NEW v2 \in Text,
           NEW a, NEW b, NEW c, AVL(a), AVL(b), AVL(c),
           Ordered(k, Mk(k2, v2, a, b), c), Ordered(k2, a, b), NEW v \in Text
    PROVE  /\ Ordered(k, b, c) /\ Ordered(k2, a, Mk(k, v, b, c))
           /\ k2 < k
           /\ Items(Mk(k2, v2, a, Mk(k, v, b, c))) =
                 Items(Mk(k, v, Mk(k2, v2, a, b), c))
<1>1. a \in Tree /\ b \in Tree /\ c \in Tree
  BY DEF AVL
<1>2. Mk(k2, v2, a, b) \in Tree /\ Mk(k, v, b, c) \in Tree
  BY <1>1, MkIsTree
<1>3. Items(Mk(k2, v2, a, b)) = {<<k2, v2>>} \cup Items(a) \cup Items(b)
  BY <1>1, ItemsDef
<1>4. Items(Mk(k, v, b, c)) = {<<k, v>>} \cup Items(b) \cup Items(c)
  BY <1>1, ItemsDef
<1>5. Items(Mk(k2, v2, a, Mk(k, v, b, c))) =
        {<<k2, v2>>} \cup Items(a) \cup Items(Mk(k, v, b, c))
  BY <1>1, <1>2, ItemsDef
<1>6. Items(Mk(k, v, Mk(k2, v2, a, b), c)) =
        {<<k, v>>} \cup Items(Mk(k2, v2, a, b)) \cup Items(c)
  BY <1>1, <1>2, ItemsDef
<1>7. k2 < k
  <2>1. <<k2, v2>> \in Items(Mk(k2, v2, a, b)) /\ <<k2, v2>>[1] = k2
    BY <1>3
  <2> QED
    BY <2>1 DEF Ordered
<1>8. Ordered(k, b, c)
  BY <1>3 DEF Ordered
<1>9. \A x \in Items(c) : x[1] > k2
  <2>1. \A x \in Items(c) : x[1] > k /\ x[1] \in Int
    BY ItemsType DEF Ordered
  <2> QED
    BY <1>7, <2>1
<1>10. Ordered(k2, a, Mk(k, v, b, c))
  <2>1. <<k, v>>[1] > k2
    BY <1>7
  <2> QED
    BY <1>4, <1>9, <2>1 DEF Ordered
<1>11. Items(Mk(k2, v2, a, Mk(k, v, b, c))) =
         Items(Mk(k, v, Mk(k2, v2, a, b), c))
  BY <1>3, <1>4, <1>5, <1>6
<1> QED
  BY <1>7, <1>8, <1>10, <1>11

LEMMA OrderedLeft ==
    ASSUME NEW k \in Int, NEW k2 \in Int, NEW v2 \in Text,
           NEW a, NEW b, NEW c, AVL(a), AVL(b), AVL(c),
           Ordered(k, a, Mk(k2, v2, b, c)), Ordered(k2, b, c), NEW v \in Text
    PROVE  /\ Ordered(k, a, b) /\ Ordered(k2, Mk(k, v, a, b), c)
           /\ k < k2
           /\ Items(Mk(k2, v2, Mk(k, v, a, b), c)) =
                 Items(Mk(k, v, a, Mk(k2, v2, b, c)))
<1>1. a \in Tree /\ b \in Tree /\ c \in Tree
  BY DEF AVL
<1>2. Mk(k2, v2, b, c) \in Tree /\ Mk(k, v, a, b) \in Tree
  BY <1>1, MkIsTree
<1>3. Items(Mk(k2, v2, b, c)) = {<<k2, v2>>} \cup Items(b) \cup Items(c)
  BY <1>1, ItemsDef
<1>4. Items(Mk(k, v, a, b)) = {<<k, v>>} \cup Items(a) \cup Items(b)
  BY <1>1, ItemsDef
<1>5. Items(Mk(k2, v2, Mk(k, v, a, b), c)) =
        {<<k2, v2>>} \cup Items(Mk(k, v, a, b)) \cup Items(c)
  BY <1>1, <1>2, ItemsDef
<1>6. Items(Mk(k, v, a, Mk(k2, v2, b, c))) =
        {<<k, v>>} \cup Items(a) \cup Items(Mk(k2, v2, b, c))
  BY <1>1, <1>2, ItemsDef
<1>7. k < k2
  <2>1. <<k2, v2>> \in Items(Mk(k2, v2, b, c)) /\ <<k2, v2>>[1] = k2
    BY <1>3
  <2> QED
    BY <2>1 DEF Ordered
<1>8. Ordered(k, a, b)
  BY <1>3 DEF Ordered
<1>9. \A x \in Items(a) : x[1] < k2
  <2>1. \A x \in Items(a) : x[1] < k /\ x[1] \in Int
    BY ItemsType DEF Ordered
  <2> QED
    BY <1>7, <2>1
<1>10. Ordered(k2, Mk(k, v, a, b), c)
  <2>1. <<k, v>>[1] < k2
    BY <1>7
  <2> QED
    BY <1>4, <1>9, <2>1 DEF Ordered
<1>11. Items(Mk(k2, v2, Mk(k, v, a, b), c)) =
         Items(Mk(k, v, a, Mk(k2, v2, b, c)))
  BY <1>3, <1>4, <1>5, <1>6
<1> QED
  BY <1>7, <1>8, <1>10, <1>11

(* The left side has become two levels deeper. *)
LEMMA RebalanceLeft ==
    ASSUME NEW k \in Int, NEW v \in Text, NEW l, NEW r, AVL(l), AVL(r),
           Ordered(k, l, r), l.height = r.height + 2
    PROVE  /\ TakesPlace(Rebalance(Mk(k, v, l, r)), k, v, l, r)
           /\ Rebalance(Mk(k, v, l, r)).height \in {l.height, l.height + 1}
<1> DEFINE t == Mk(k, v, l, r)
<1>1. /\ l \in Tree /\ l.height \in Nat /\ r \in Tree /\ r.height \in Nat
  BY AVLHeight
<1>2. l # NoItem
  BY <1>1, NoItemIsTree
<1>3. PICK k2 \in Int, v2 \in Text, a \in Tree, b \in Tree :
         /\ l = Mk(k2, v2, a, b)
         /\ AVL(a) /\ AVL(b) /\ Ordered(k2, a, b)
         /\ a.height \in Nat /\ b.height \in Nat
         /\ b.height - a.height \in -1 .. 1
         /\ balance(l) = b.height - a.height
         /\ l.height = (IF b.height > a.height THEN b.height ELSE a.height) + 1
  BY <1>2, AVLParts
<1>4. balance(t) < -1 /\ ~(balance(t) > 1) /\ t.left = l
  <2>1. t.left = l /\ t.right = r
    BY DEF Mk
  <2>2. balance(t) = r.height - l.height
    BY <2>1 DEF balance
  <2> QED
    BY <1>1, <2>1, <2>2
<1>5. CASE balance(l) <= 0
  <2> DEFINE low == Mk(k, v, b, r)
             x == Mk(k2, v2, a, low)
  <2>1. Rebalance(t) = aa_rotate_right(t)
    <3>1. balance(t.left) <= 0 /\ ~(balance(t.left) > 0)
      BY <1>3, <1>4, <1>5
    <3> HIDE DEF t
    <3> QED
      BY <1>4, <3>1 DEF Rebalance
  <2>2. aa_rotate_right(t) = x
    <3>1. PICK h : t = Raw(h, k, v, l, r)
      BY MkIsRaw
    <3> QED
      BY <1>3, <3>1, RotateRight
  <2>3. /\ Ordered(k, b, r) /\ Ordered(k2, a, low) /\ Items(x) = Items(t)
    BY <1>3, OrderedRight
  <2>4. /\ a.height = r.height + 1
        /\ b.height = r.height \/ b.height = r.height + 1
    BY <1>1, <1>3, <1>5
  <2>5. r.height - b.height \in -1 .. 1
    BY <1>1, <2>4
  <2>6. /\ AVL(low)
        /\ low.height = (IF r.height > b.height THEN r.height ELSE b.height) + 1
    BY <1>3, <2>3, <2>5, AVLMk
  <2> HIDE DEF low
  <2>7. low.height = b.height + 1 /\ low.height - a.height \in -1 .. 1
    BY <1>1, <2>4, <2>6
  <2>8. /\ AVL(x)
        /\ x.height = (IF low.height > a.height THEN low.height ELSE a.height) + 1
    BY <1>3, <2>3, <2>6, <2>7, AVLMk
  <2> HIDE DEF x
  <2>9. x.height \in {l.height, l.height + 1}
    BY <1>1, <2>4, <2>7, <2>8
  <2> QED
    BY <2>1, <2>2, <2>3, <2>8, <2>9 DEF TakesPlace
<1>6. CASE balance(l) > 0
  <2>1. Rebalance(t) = aa_rotate_left_right(t)
    <3>1. balance(t.left) > 0 /\ ~(balance(t.left) <= 0)
      BY <1>3, <1>4, <1>6
    <3> HIDE DEF t
    <3> QED
      BY <1>4, <3>1 DEF Rebalance
  <2>2. a.height = r.height /\ b.height = r.height + 1
    BY <1>1, <1>3, <1>6
  <2>3. b # NoItem
    BY <1>1, <2>2, NoItemIsTree
  <2>4. PICK k3 \in Int, v3 \in Text, c \in Tree, d \in Tree :
           /\ b = Mk(k3, v3, c, d)
           /\ AVL(c) /\ AVL(d) /\ Ordered(k3, c, d)
           /\ c.height \in Nat /\ d.height \in Nat
           /\ d.height - c.height \in -1 .. 1
           /\ balance(b) = d.height - c.height
           /\ b.height = (IF d.height > c.height THEN d.height ELSE c.height) + 1
    BY <1>3, <2>3, AVLParts
  <2> DEFINE p == Mk(k2, v2, a, c)
             q == Mk(k, v, d, r)
             y == Mk(k3, v3, p, d)
             x == Mk(k3, v3, p, q)
  <2>5. aa_rotate_left_right(t) = x
    BY <1>3, <2>4, RotateLeftRight
  <2>6. /\ Ordered(k2, a, c) /\ Ordered(k3, p, d) /\ Items(y) = Items(l)
    BY <1>3, <2>4, OrderedLeft
  <2>7. c.height - a.height \in -1 .. 1 /\ r.height - d.height \in -1 .. 1
    BY <1>1, <1>3, <2>2, <2>4
  <2>8. /\ AVL(p)
        /\ p.height = (IF c.height > a.height THEN c.height ELSE a.height) + 1
    BY <1>3, <2>4, <2>6, <2>7, AVLMk
  <2>9. p \in Tree /\ y \in Tree
    BY <1>3, <2>4, MkIsTree
  <2> HIDE DEF p
  <2>10. Ordered(k, y, r)
    BY <2>6 DEF Ordered
  <2>11. /\ Ordered(k, d, r) /\ Ordered(k3, p, q)
         /\ Items(x) = Items(Mk(k, v, y, r))
    BY <2>4, <2>6, <2>8, <2>10, OrderedRight
  <2>12. Items(Mk(k, v, y, r)) = Items(t)
    <3>1. Items(Mk(k, v, y, r)) = {<<k, v>>} \cup Items(y) \cup Items(r)
      BY <1>1, <2>9, ItemsDef
    <3>2. Items(t) = {<<k, v>>} \cup Items(l) \cup Items(r)
      BY <1>1, ItemsDef
    <3> QED
      BY <2>6, <3>1, <3>2
  <2>13. /\ AVL(q)
         /\ q.height = (IF r.height > d.height THEN r.height ELSE d.height) + 1
    BY <2>4, <2>7, <2>11, AVLMk
  <2> HIDE DEF q
  <2>14. p.height = r.height + 1 /\ q.height = r.height + 1
    BY <1>1, <2>2, <2>4, <2>8, <2>13
  <2>15. q.height - p.height \in -1 .. 1
    BY <1>1, <2>14
  <2>16. /\ AVL(x)
         /\ x.height = (IF q.height > p.height THEN q.height ELSE p.height) + 1
    BY <2>4, <2>8, <2>11, <2>13, <2>15, AVLMk
  <2> HIDE DEF x
  <2>17. x.height = l.height
    BY <1>1, <2>14, <2>16
  <2> QED
    BY <2>1, <2>5, <2>11, <2>12, <2>16, <2>17 DEF TakesPlace
<1>7. balance(l) <= 0 \/ balance(l) > 0
  BY <1>3
<1> QED
  BY <1>5, <1>6, <1>7

(* The right side has become two levels deeper. *)
LEMMA RebalanceRight ==
    ASSUME NEW k \in Int, NEW v \in Text, NEW l, NEW r, AVL(l), AVL(r),
           Ordered(k, l, r), r.height = l.height + 2
    PROVE  /\ TakesPlace(Rebalance(Mk(k, v, l, r)), k, v, l, r)
           /\ Rebalance(Mk(k, v, l, r)).height \in {r.height, r.height + 1}
<1> DEFINE t == Mk(k, v, l, r)
<1>1. /\ l \in Tree /\ l.height \in Nat /\ r \in Tree /\ r.height \in Nat
  BY AVLHeight
<1>2. r # NoItem
  BY <1>1, NoItemIsTree
<1>3. PICK k2 \in Int, v2 \in Text, a \in Tree, b \in Tree :
         /\ r = Mk(k2, v2, a, b)
         /\ AVL(a) /\ AVL(b) /\ Ordered(k2, a, b)
         /\ a.height \in Nat /\ b.height \in Nat
         /\ b.height - a.height \in -1 .. 1
         /\ balance(r) = b.height - a.height
         /\ r.height = (IF b.height > a.height THEN b.height ELSE a.height) + 1
  BY <1>2, AVLParts
<1>4. ~(balance(t) < -1) /\ balance(t) > 1 /\ t.right = r
  <2>1. t.left = l /\ t.right = r
    BY DEF Mk
  <2>2. balance(t) = r.height - l.height
    BY <2>1 DEF balance
  <2> QED
    BY <1>1, <2>1, <2>2
<1>5. CASE balance(r) >= 0
  <2> DEFINE low == Mk(k, v, l, a)
             x == Mk(k2, v2, low, b)
  <2>1. Rebalance(t) = aa_rotate_left(t)
    <3>1. balance(t.right) >= 0 /\ ~(balance(t.right) < 0)
      BY <1>3, <1>4, <1>5
    <3> HIDE DEF t
    <3> QED
      BY <1>4, <3>1 DEF Rebalance
  <2>2. aa_rotate_left(t) = x
    <3>1. PICK h : t = Raw(h, k, v, l, r)
      BY MkIsRaw
    <3> QED
      BY <1>3, <3>1, RotateLeft
  <2>3. /\ Ordered(k, l, a) /\ Ordered(k2, low, b) /\ Items(x) = Items(t)
    BY <1>3, OrderedLeft
  <2>4. /\ b.height = l.height + 1
        /\ a.height = l.height \/ a.height = l.height + 1
    BY <1>1, <1>3, <1>5
  <2>5. a.height - l.height \in -1 .. 1
    BY <1>1, <2>4
  <2>6. /\ AVL(low)
        /\ low.height = (IF a.height > l.height THEN a.height ELSE l.height) + 1
    BY <1>3, <2>3, <2>5, AVLMk
  <2> HIDE DEF low
  <2>7. low.height = a.height + 1 /\ b.height - low.height \in -1 .. 1
    BY <1>1, <2>4, <2>6
  <2>8. /\ AVL(x)
        /\ x.height = (IF b.height > low.height THEN b.height ELSE low.height) + 1
    BY <1>3, <2>3, <2>6, <2>7, AVLMk
  <2> HIDE DEF x
  <2>9. x.height \in {r.height, r.height + 1}
    BY <1>1, <2>4, <2>7, <2>8
  <2> QED
    BY <2>1, <2>2, <2>3, <2>8, <2>9 DEF TakesPlace
<1>6. CASE balance(r) < 0
  <2>1. Rebalance(t) = aa_rotate_right_left(t)
    <3>1. balance(t.right) < 0 /\ ~(balance(t.right) >= 0)
      BY <1>3, <1>4, <1>6
    <3> HIDE DEF t
    <3> QED
      BY <1>4, <3>1 DEF Rebalance
  <2>2. b.height = l.height /\ a.height = l.height + 1
    BY <1>1, <1>3, <1>6
  <2>3. a # NoItem
    BY <1>1, <2>2, NoItemIsTree
  <2>4. PICK k3 \in Int, v3 \in Text, c \in Tree, d \in Tree :
           /\ a = Mk(k3, v3, c, d)
           /\ AVL(c) /\ AVL(d) /\ Ordered(k3, c, d)
           /\ c.height \in Nat /\ d.height \in Nat
           /\ d.height - c.height \in -1 .. 1
           /\ balance(a) = d.height - c.height
           /\ a.height = (IF d.height > c.height THEN d.height ELSE c.height) + 1
    BY <1>3, <2>3, AVLParts
  <2> DEFINE p == Mk(k, v, l, c)
             q == Mk(k2, v2, d, b)
             y == Mk(k3, v3, c, q)
             x == Mk(k3, v3, p, q)
  <2>5. aa_rotate_right_left(t) = x
    BY <1>3, <2>4, RotateRightLeft
  <2>6. /\ Ordered(k2, d, b) /\ Ordered(k3, c, q) /\ Items(y) = Items(r)
    BY <1>3, <2>4, OrderedRight
  <2>7. c.height - l.height \in -1 .. 1 /\ b.height - d.height \in -1 .. 1
    BY <1>1, <1>3, <2>2, <2>4
  <2>8. /\ AVL(q)
        /\ q.height = (IF b.height > d.height THEN b.height ELSE d.height) + 1
    BY <1>3, <2>4, <2>6, <2>7, AVLMk
  <2>9. q \in Tree /\ y \in Tree
    BY <1>3, <2>4, MkIsTree
  <2> HIDE DEF q
  <2>10. Ordered(k, l, y)
    BY <2>6 DEF Ordered
  <2>11. /\ Ordered(k, l, c) /\ Ordered(k3, p, q)
         /\ Items(x) = Items(Mk(k, v, l, y))
    BY <2>4, <2>6, <2>8, <2>10, OrderedLeft
  <2>12. Items(Mk(k, v, l, y)) = Items(t)
    <3>1. Items(Mk(k, v, l, y)) = {<<k, v>>} \cup Items(l) \cup Items(y)
      BY <1>1, <2>9, ItemsDef
    <3>2. Items(t) = {<<k, v>>} \cup Items(l) \cup Items(r)
      BY <1>1, ItemsDef
    <3> QED
      BY <2>6, <3>1, <3>2
  <2>13. /\ AVL(p)
         /\ p.height = (IF c.height > l.height THEN c.height ELSE l.height) + 1
    BY <2>4, <2>7, <2>11, AVLMk
  <2> HIDE DEF p
  <2>14. p.height = l.height + 1 /\ q.height = l.height + 1
    BY <1>1, <2>2, <2>4, <2>8, <2>13
  <2>15. q.height - p.height \in -1 .. 1
    BY <1>1, <2>14
  <2>16. /\ AVL(x)
         /\ x.height = (IF q.height > p.height THEN q.height ELSE p.height) + 1
    BY <2>4, <2>8, <2>11, <2>13, <2>15, AVLMk
  <2> HIDE DEF x
  <2>17. x.height = r.height
    BY <1>1, <2>14, <2>16
  <2> QED
    BY <2>1, <2>5, <2>11, <2>12, <2>16, <2>17 DEF TakesPlace
<1>7. balance(r) >= 0 \/ balance(r) < 0
  BY <1>3
<1> QED
  BY <1>5, <1>6, <1>7

LEMMA RebalanceNot ==
    ASSUME NEW k, NEW v, NEW l, NEW r, r.height - l.height \in -1 .. 1
    PROVE  Rebalance(Mk(k, v, l, r)) = Mk(k, v, l, r)
<1> DEFINE t == Mk(k, v, l, r)
<1>1. t.left = l /\ t.right = r
  BY DEF Mk
<1>2. balance(t) = r.height - l.height
  BY <1>1 DEF balance
<1>3. ~(balance(t) < -1) /\ ~(balance(t) > 1)
  BY <1>2
<1> HIDE DEF t
<1>4. Rebalance(t) = t
  BY <1>3 DEF Rebalance
<1> QED
  BY <1>4 DEF t

(* The way back from a subtree that may have grown a level: the heights    *)
(* were balanced before.                                                   *)
LEMMA RebalanceGrown ==
    ASSUME NEW k \in Int, NEW v \in Text, NEW l, NEW r, AVL(l), AVL(r),
           Ordered(k, l, r), NEW hl \in Nat, NEW hr \in Nat,
           hr - hl \in -1 .. 1,
           \/ l.height \in {hl, hl + 1} /\ r.height = hr
           \/ l.height = hl /\ r.height \in {hr, hr + 1}
    PROVE  LET x == Rebalance(WithHeight(Mk(k, v, l, r)))
               h == (IF hr > hl THEN hr ELSE hl) + 1
           IN  /\ AVL(x) /\ Items(x) = {<<k, v>>} \cup Items(l) \cup Items(r)
               /\ x.height \in {h, h + 1}
<1> DEFINE t == Mk(k, v, l, r)
           h == (IF hr > hl THEN hr ELSE hl) + 1
<1>1. /\ l \in Tree /\ l.height \in Nat /\ r \in Tree /\ r.height \in Nat
  BY AVLHeight
<1>2. WithHeight(t) = t
  BY MkIsRaw, WithHeightIs
<1>3. Items(t) = {<<k, v>>} \cup Items(l) \cup Items(r)
  BY <1>1, ItemsDef
<1>4. CASE r.height - l.height \in -1 .. 1
  <2>1. Rebalance(t) = t
    BY <1>4, RebalanceNot
  <2>2. /\ AVL(t)
        /\ t.height = (IF r.height > l.height THEN r.height ELSE l.height) + 1
    BY <1>4, AVLMk
  <2> HIDE DEF t
  <2>3. t.height \in {h, h + 1}
    BY <1>1, <1>4, <2>2
  <2> QED
    BY <1>2, <1>3, <2>1, <2>2, <2>3 DEF t
<1>5. CASE l.height = r.height + 2
  <2>1. /\ TakesPlace(Rebalance(t), k, v, l, r)
        /\ Rebalance(t).height \in {l.height, l.height + 1}
    BY <1>5, RebalanceLeft
  <2>2. l.height = h
    BY <1>1, <1>5
  <2> QED
    BY <1>2, <1>3, <2>1, <2>2 DEF TakesPlace
<1>6. CASE r.height = l.height + 2
  <2>1. /\ TakesPlace(Rebalance(t), k, v, l, r)
        /\ Rebalance(t).height \in {r.height, r.height + 1}
    BY <1>6, RebalanceRight
  <2>2. r.height = h
    BY <1>1, <1>6
  <2> QED
    BY <1>2, <1>3, <2>1, <2>2 DEF TakesPlace
<1>7. r.height - l.height \in -1 .. 1 \/ l.height = r.height + 2
      \/ r.height = l.height + 2
  BY <1>1
<1> QED
  BY <1>4, <1>5, <1>6, <1>7

(* An item whose value is set. *)
LEMMA MkValue ==
    ASSUME NEW k, NEW v, NEW l, NEW r, NEW w
    PROVE  [Mk(k, v, l, r) EXCEPT !.value = w] = Mk(k, w, l, r)
BY DEF Mk

(* An item one of whose sides is set. *)
SetLeft(t, x) == [t EXCEPT !.left = x]

SetRight(t, x) == [t EXCEPT !.right = x]

LEMMA MkExcept ==
    ASSUME NEW k, NEW v, NEW l, NEW r, NEW x
    PROVE  /\ WithHeight(SetLeft(Mk(k, v, l, r), x)) = Mk(k, v, x, r)
           /\ WithHeight(SetRight(Mk(k, v, l, r), x)) = Mk(k, v, l, x)
           /\ x.height = l.height =>
                 SetLeft(Mk(k, v, l, r), x) = Mk(k, v, x, r)
           /\ x.height = r.height =>
                 SetRight(Mk(k, v, l, r), x) = Mk(k, v, l, x)
<1>2. PICK h : Mk(k, v, l, r) = Raw(h, k, v, l, r)
  BY MkIsRaw
<1>3. /\ SetLeft(Mk(k, v, l, r), x) = Raw(h, k, v, x, r)
      /\ SetRight(Mk(k, v, l, r), x) = Raw(h, k, v, l, x)
  BY <1>2, RawSides DEF SetLeft, SetRight
<1>4. /\ x.height = l.height =>
            SetLeft(Mk(k, v, l, r), x) = Mk(k, v, x, r)
      /\ x.height = r.height =>
            SetRight(Mk(k, v, l, r), x) = Mk(k, v, l, x)
  BY DEF Mk, SetLeft, SetRight
<1> QED
  BY <1>3, <1>4, WithHeightIs

(* What res, returned for tree t, is to be. *)
IsPutInto(t, key, value, res) ==
    /\ AVL(res.node)
    /\ Items(res.node) = {x \in Items(t) : x[1] # key} \cup {<<key, value>>}
    /\ \/ res.node.height = t.height /\ res.inserted_new = FALSE
       \/ res.node.height \in {t.height, t.height + 1} /\ res.inserted_new = TRUE

LEMMA BackIs ==
    ASSUME NEW node
    PROVE  /\ Back(node, TRUE).node = Rebalance(WithHeight(node))
           /\ Back(node, TRUE).inserted_new = TRUE
           /\ Back(node, FALSE).node = node
           /\ Back(node, FALSE).inserted_new = FALSE
BY DEF Back

LEMMA PutLeft ==
    ASSUME NEW key \in Int, NEW value \in Text, NEW k \in Int, NEW v \in Text,
           NEW l \in Tree, NEW r \in Tree, AVL(Mk(k, v, l, r)), key < k,
           NEW low, IsPutInto(l, key, value, low)
    PROVE  IsPutInto(Mk(k, v, l, r), key, value,
                     Back(SetLeft(Mk(k, v, l, r), low.node),
                          low.inserted_new))
<1> DEFINE t == Mk(k, v, l, r)
           x == low.node
           new == SetLeft(t, x)
<1>1. /\ AVL(l) /\ AVL(r) /\ Ordered(k, l, r)
      /\ r.height - l.height \in -1 .. 1
  BY AVLDef
<1>2. /\ l.height \in Nat /\ r.height \in Nat
      /\ t.height = (IF r.height > l.height THEN r.height ELSE l.height) + 1
  BY TreeFits, MkIsTree
<1>3. /\ AVL(x) /\ x \in Tree
      /\ Items(x) = {y \in Items(l) : y[1] # key} \cup {<<key, value>>}
  BY AVLHeight DEF IsPutInto
<1>4. Ordered(k, x, r)
  <2>1. <<key, value>>[1] < k
    OBVIOUS
  <2> QED
    BY <1>1, <1>3, <2>1 DEF Ordered
<1>5. {<<k, v>>} \cup Items(x) \cup Items(r) =
        {y \in Items(t) : y[1] # key} \cup {<<key, value>>}
  <2>1. Items(t) = {<<k, v>>} \cup Items(l) \cup Items(r)
    BY ItemsDef
  <2>2. \A y \in Items(r) : y[1] # key
    <3>1. \A y \in Items(r) : y[1] \in Int /\ y[1] > k
      BY <1>1, ItemsType DEF Ordered
    <3> QED
      BY <3>1
  <2>3. <<k, v>>[1] # key
    OBVIOUS
  <2> QED
    BY <1>3, <2>1, <2>2, <2>3
<1>6. WithHeight(new) = Mk(k, v, x, r) /\ WithHeight(Mk(k, v, x, r)) = Mk(k, v, x, r)
  <2>1. WithHeight(new) = Mk(k, v, x, r)
    BY MkExcept
  <2> QED
    BY <2>1, MkIsRaw, WithHeightIs
<1>7. CASE x.height = l.height /\ low.inserted_new = FALSE
  <2>1. new = Mk(k, v, x, r)
    BY <1>7, MkExcept
  <2>2. /\ AVL(Mk(k, v, x, r))
        /\ Items(Mk(k, v, x, r)) = {<<k, v>>} \cup Items(x) \cup Items(r)
    BY <1>1, <1>3, <1>4, <1>7, AVLMk
  <2>3. Mk(k, v, x, r).height = t.height
    BY <1>7 DEF Mk
  <2>4. Back(new, FALSE).node = new /\ Back(new, FALSE).inserted_new = FALSE
    BY BackIs
  <2> HIDE DEF t, x, new
  <2>5. IsPutInto(t, key, value, Back(new, FALSE))
    BY <1>5, <2>1, <2>2, <2>3, <2>4 DEF IsPutInto
  <2> QED
    BY <1>7, <2>5 DEF t, x, new
<1>8. CASE x.height \in {l.height, l.height + 1} /\ low.inserted_new = TRUE
  <2> DEFINE y == Rebalance(WithHeight(new))
  <2>1. /\ AVL(y) /\ Items(y) = {<<k, v>>} \cup Items(x) \cup Items(r)
        /\ y.height \in {t.height, t.height + 1}
    <3> HIDE DEF t, x, new
    <3>1. y = Rebalance(WithHeight(Mk(k, v, x, r)))
      BY <1>6
    <3> QED
      BY <1>1, <1>2, <1>3, <1>4, <1>8, <3>1, RebalanceGrown
  <2>2. Back(new, TRUE).node = y /\ Back(new, TRUE).inserted_new = TRUE
    BY BackIs
  <2> HIDE DEF t, x, new, y
  <2>3. IsPutInto(t, key, value, Back(new, TRUE))
    BY <1>5, <2>1, <2>2 DEF IsPutInto
  <2> QED
    BY <1>8, <2>3 DEF t, x, new
<1> QED
  BY <1>7, <1>8 DEF IsPutInto

LEMMA PutRight ==
    ASSUME NEW key \in Int, NEW value \in Text, NEW k \in Int, NEW v \in Text,
           NEW l \in Tree, NEW r \in Tree, AVL(Mk(k, v, l, r)), key > k,
           NEW low, IsPutInto(r, key, value, low)
    PROVE  IsPutInto(Mk(k, v, l, r), key, value,
                     Back(SetRight(Mk(k, v, l, r), low.node),
                          low.inserted_new))
<1> DEFINE t == Mk(k, v, l, r)
           x == low.node
           new == SetRight(t, x)
<1>1. /\ AVL(l) /\ AVL(r) /\ Ordered(k, l, r)
      /\ r.height - l.height \in -1 .. 1
  BY AVLDef
<1>2. /\ l.height \in Nat /\ r.height \in Nat
      /\ t.height = (IF r.height > l.height THEN r.height ELSE l.height) + 1
  BY TreeFits, MkIsTree
<1>3. /\ AVL(x) /\ x \in Tree
      /\ Items(x) = {y \in Items(r) : y[1] # key} \cup {<<key, value>>}
  BY AVLHeight DEF IsPutInto
<1>4. Ordered(k, l, x)
  <2>1. <<key, value>>[1] > k
    OBVIOUS
  <2> QED
    BY <1>1, <1>3, <2>1 DEF Ordered
<1>5. {<<k, v>>} \cup Items(l) \cup Items(x) =
        {y \in Items(t) : y[1] # key} \cup {<<key, value>>}
  <2>1. Items(t) = {<<k, v>>} \cup Items(l) \cup Items(r)
    BY ItemsDef
  <2>2. \A y \in Items(l) : y[1] # key
    <3>1. \A y \in Items(l) : y[1] \in Int /\ y[1] < k
      BY <1>1, ItemsType DEF Ordered
    <3> QED
      BY <3>1
  <2>3. <<k, v>>[1] # key
    OBVIOUS
  <2> QED
    BY <1>3, <2>1, <2>2, <2>3
<1>6. WithHeight(new) = Mk(k, v, l, x) /\ WithHeight(Mk(k, v, l, x)) = Mk(k, v, l, x)
  <2>1. WithHeight(new) = Mk(k, v, l, x)
    BY MkExcept
  <2> QED
    BY <2>1, MkIsRaw, WithHeightIs
<1>7. CASE x.height = r.height /\ low.inserted_new = FALSE
  <2>1. new = Mk(k, v, l, x)
    BY <1>7, MkExcept
  <2>2. /\ AVL(Mk(k, v, l, x))
        /\ Items(Mk(k, v, l, x)) = {<<k, v>>} \cup Items(l) \cup Items(x)
    BY <1>1, <1>3, <1>4, <1>7, AVLMk
  <2>3. Mk(k, v, l, x).height = t.height
    BY <1>7 DEF Mk
  <2>4. Back(new, FALSE).node = new /\ Back(new, FALSE).inserted_new = FALSE
    BY BackIs
  <2> HIDE DEF t, x, new
  <2>5. IsPutInto(t, key, value, Back(new, FALSE))
    BY <1>5, <2>1, <2>2, <2>3, <2>4 DEF IsPutInto
  <2> QED
    BY <1>7, <2>5 DEF t, x, new
<1>8. CASE x.height \in {r.height, r.height + 1} /\ low.inserted_new = TRUE
  <2> DEFINE y == Rebalance(WithHeight(new))
  <2>1. /\ AVL(y) /\ Items(y) = {<<k, v>>} \cup Items(l) \cup Items(x)
        /\ y.height \in {t.height, t.height + 1}
    <3> HIDE DEF t, x, new
    <3>1. y = Rebalance(WithHeight(Mk(k, v, l, x)))
      BY <1>6
    <3> QED
      BY <1>1, <1>2, <1>3, <1>4, <1>8, <3>1, RebalanceGrown
  <2>2. Back(new, TRUE).node = y /\ Back(new, TRUE).inserted_new = TRUE
    BY BackIs
  <2> HIDE DEF t, x, new, y
  <2>3. IsPutInto(t, key, value, Back(new, TRUE))
    BY <1>5, <2>1, <2>2 DEF IsPutInto
  <2> QED
    BY <1>8, <2>3 DEF t, x, new
<1> QED
  BY <1>7, <1>8 DEF IsPutInto

(* aa_set_or_put_item keeps the tree a balanced search tree and changes    *)
(* what it has for one key only.                                           *)
LEMMA PutSpec ==
    ASSUME NEW key \in Int, NEW value \in Text
    PROVE  \A t \in Tree : AVL(t) =>
              IsPutInto(t, key, value, aa_set_or_put_item(t, key, value))
<1> DEFINE put(t) == aa_set_or_put_item(t, key, value)
           S == {t \in Tree : AVL(t) => IsPutInto(t, key, value, put(t))}
<1>1. NoItem \in S
  <2>1. put(NoItem) =
          [node |-> aa_item_create(key, value), inserted_new |-> TRUE]
    BY NoItemIsTree, PutDef
  <2>2. aa_item_create(key, value) = Mk(key, value, NoItem, NoItem)
    BY NoItemIsTree DEF aa_item_create, Mk
  <2>3. Ordered(key, NoItem, NoItem) /\ AVL(NoItem) /\ Items(NoItem) = {}
    BY ItemsDef, AVLDef DEF Ordered
  <2> DEFINE x == Mk(key, value, NoItem, NoItem)
  <2>4. NoItem.height = 0 /\ NoItem.height - NoItem.height \in -1 .. 1
    BY NoItemIsTree
  <2>5. AVL(x) /\ Items(x) = {<<key, value>>} \cup Items(NoItem) \cup Items(NoItem)
        /\ x.height = (IF NoItem.height > NoItem.height THEN NoItem.height
                       ELSE NoItem.height) + 1
    BY <2>3, <2>4, AVLMk
  <2> HIDE DEF x
  <2>6. x.height \in {NoItem.height, NoItem.height + 1}
    BY <2>4, <2>5
  <2>7. IsPutInto(NoItem, key, value, put(NoItem))
    BY <2>1, <2>2, <2>3, <2>5, <2>6 DEF IsPutInto, x
  <2> QED
    BY <2>7, NoItemIsTree
<1>2. ASSUME NEW k \in Int, NEW v \in Text, NEW l \in Tree, NEW r \in Tree,
             l \in S, r \in S
      PROVE  Mk(k, v, l, r) \in S
  <2> DEFINE t == Mk(k, v, l, r)
  <2>1. t \in Tree /\ t # NoItem /\ t.key = k /\ t.left = l /\ t.right = r
    BY MkIsTree
  <2>2. SUFFICES ASSUME AVL(t) PROVE IsPutInto(t, key, value, put(t))
    BY <2>1
  <2>3. /\ AVL(l) /\ AVL(r) /\ Ordered(k, l, r)
        /\ r.height - l.height \in -1 .. 1
    BY <2>2, AVLDef
  <2>4. IsPutInto(l, key, value, put(l)) /\ IsPutInto(r, key, value, put(r))
    BY <1>2, <2>3
  <2>5. put(t) = IF key = k
                 THEN [node |-> [t EXCEPT !.value = value], inserted_new |-> FALSE]
                 ELSE IF key < k
                 THEN Back([t EXCEPT !.left = put(l).node], put(l).inserted_new)
                 ELSE Back([t EXCEPT !.right = put(r).node], put(r).inserted_new)
    <3> HIDE DEF t
    <3>1. put(t) =
            IF t = NoItem
            THEN [node |-> aa_item_create(key, value), inserted_new |-> TRUE]
            ELSE IF key = t.key
            THEN [node |-> [t EXCEPT !.value = value], inserted_new |-> FALSE]
            ELSE IF key < t.key
            THEN Back([t EXCEPT !.left = put(t.left).node],
                      put(t.left).inserted_new)
            ELSE Back([t EXCEPT !.right = put(t.right).node],
                      put(t.right).inserted_new)
      BY ONLY <2>1, PutDef
    <3> HIDE DEF put
    <3> QED
      BY ONLY <2>1, <3>1
  <2> HIDE DEF put
  <2>6. CASE key = k
    <3> DEFINE x == Mk(k, value, l, r)
    <3>1. put(t).node = x /\ put(t).inserted_new = FALSE
      <4>1. [t EXCEPT !.value = value] = x
        BY MkValue
      <4> HIDE DEF t, x
      <4> QED
        BY <2>5, <2>6, <4>1
    <3>2. AVL(x) /\ Items(x) = {<<k, value>>} \cup Items(l) \cup Items(r)
      BY <2>3, AVLMk
    <3>3. x.height = t.height
      BY DEF Mk
    <3>4. Items(t) = {<<k, v>>} \cup Items(l) \cup Items(r)
      BY ItemsDef
    <3>5. \A y \in Items(l) \cup Items(r) : y[1] # k
      <4>1. /\ \A y \in Items(l) : y[1] \in Int /\ y[1] < k
            /\ \A y \in Items(r) : y[1] \in Int /\ y[1] > k
        BY <2>3, ItemsType DEF Ordered
      <4> QED
        BY <4>1
    <3>6. Items(x) = {y \in Items(t) : y[1] # key} \cup {<<key, value>>}
      <4>1. <<k, v>>[1] = k
        OBVIOUS
      <4> HIDE DEF t, x
      <4> QED
        BY <2>6, <3>2, <3>4, <3>5, <4>1
    <3> HIDE DEF t, x
    <3> QED
      BY <3>1, <3>2, <3>3, <3>6 DEF IsPutInto
  <2>7. CASE key < k
    <3>1. put(t) = Back(SetLeft(t, put(l).node), put(l).inserted_new)
      BY <2>5, <2>7 DEF SetLeft
    <3> QED
      BY <2>2, <2>4, <2>7, <3>1, PutLeft
  <2>8. CASE key > k
    <3>1. put(t) = Back(SetRight(t, put(r).node), put(r).inserted_new)
      BY <2>5, <2>8 DEF SetRight
    <3> QED
      BY <2>2, <2>4, <2>8, <3>1, PutRight
  <2> QED
    BY <2>6, <2>7, <2>8
<1> HIDE DEF S
<1>3. \A t \in Tree : t \in S
  BY <1>1, <1>2, TreeInduction
<1> QED
  BY <1>3 DEF S

(* aa_put, for every balanced search tree. *)
LEMMA PutIs ==
    ASSUME NEW key \in Int, NEW value \in Text, NEW t, AVL(t)
    PROVE  /\ AVL(aa_put(t, key, value)) /\ aa_put(t, key, value) # NoItem
           /\ Items(aa_put(t, key, value)) =
                 {x \in Items(t) : x[1] # key} \cup {<<key, value>>}
<1>1. t \in Tree
  BY DEF AVL
<1>2. IsPutInto(t, key, value, aa_set_or_put_item(t, key, value))
  BY <1>1, PutSpec
<1> DEFINE x == aa_put(t, key, value)
<1>3. /\ AVL(x)
      /\ Items(x) = {y \in Items(t) : y[1] # key} \cup {<<key, value>>}
  BY <1>2 DEF IsPutInto, aa_put
<1>4. x # NoItem
  BY <1>3, ItemsDef
<1> QED
  BY <1>3, <1>4

-----------------------------------------------------------------------------
(* Lookup. *)

(* The item aa_get finds is the one with the key. *)
LEMMA GetIs ==
    ASSUME NEW key \in Int
    PROVE  \A t \in Tree : AVL(t) =>
              \/ aa_get(t, key) = NoItem /\ \A x \in Items(t) : x[1] # key
              \/ /\ aa_get(t, key) # NoItem /\ aa_get(t, key).key = key
                 /\ <<key, aa_get(t, key).value>> \in Items(t)
<1> DEFINE P(t) == \/ aa_get(t, key) = NoItem /\ \A x \in Items(t) : x[1] # key
                   \/ /\ aa_get(t, key) # NoItem /\ aa_get(t, key).key = key
                      /\ <<key, aa_get(t, key).value>> \in Items(t)
           S == {t \in Tree : AVL(t) => P(t)}
<1>1. NoItem \in S
  BY NoItemIsTree, GetDef, ItemsDef
<1>2. ASSUME NEW k \in Int, NEW v \in Text, NEW l \in Tree, NEW r \in Tree,
             l \in S, r \in S
      PROVE  Mk(k, v, l, r) \in S
  <2> DEFINE t == Mk(k, v, l, r)
  <2>1. /\ t \in Tree /\ t # NoItem /\ t.key = k /\ t.left = l /\ t.right = r
        /\ t.value = v
    BY MkIsTree
  <2>2. SUFFICES ASSUME AVL(t) PROVE P(t)
    BY <2>1
  <2>3. AVL(l) /\ AVL(r) /\ Ordered(k, l, r)
    BY <2>2, AVLDef
  <2>4. P(l) /\ P(r)
    BY <1>2, <2>3
  <2>5. Items(t) = {<<k, v>>} \cup Items(l) \cup Items(r)
    BY ItemsDef
  <2>6. /\ \A y \in Items(l) : y[1] \in Int /\ y[1] < k
        /\ \A y \in Items(r) : y[1] \in Int /\ y[1] > k
    BY <2>3, ItemsType DEF Ordered
  <2>7. <<k, v>>[1] = k
    OBVIOUS
  <2> HIDE DEF t
  <2>8. aa_get(t, key) = IF key = k THEN t
                         ELSE IF key < k THEN aa_get(l, key) ELSE aa_get(r, key)
    BY <2>1, GetDef
  <2>9. CASE key = k
    BY <2>1, <2>5, <2>8, <2>9
  <2>10. CASE key < k
    <3>1. aa_get(t, key) = aa_get(l, key)
      BY <2>8, <2>10
    <3>2. \A y \in Items(r) : y[1] # key
      BY <2>6, <2>10
    <3>3. <<k, v>>[1] # key
      BY <2>10
    <3> QED
      BY <2>4, <2>5, <3>1, <3>2, <3>3
  <2>11. CASE key > k
    <3>1. aa_get(t, key) = aa_get(r, key)
      BY <2>8, <2>11
    <3>2. \A y \in Items(l) : y[1] # key
      BY <2>6, <2>11
    <3>3. <<k, v>>[1] # key
      BY <2>11
    <3> QED
      BY <2>4, <2>5, <3>1, <3>2, <3>3
  <2> QED
    BY <2>9, <2>10, <2>11
<1> HIDE DEF S
<1>3. \A t \in Tree : t \in S
  BY <1>1, <1>2, TreeInduction
<1> QED
  BY <1>3 DEF S

(* aa_has finds what aa_get finds, and counts no more items than levels. *)
LEMMA HasIs ==
    ASSUME NEW key
    PROVE  \A t \in Tree :
              /\ aa_has(t, key) \in 0 .. t.height
              /\ aa_has(t, key) = 0 <=> aa_get(t, key) = NoItem
<1> DEFINE P(t) == /\ aa_has(t, key) \in 0 .. t.height
                   /\ aa_has(t, key) = 0 <=> aa_get(t, key) = NoItem
           S == {t \in Tree : P(t)}
<1>1. NoItem \in S
  BY NoItemIsTree, GetDef, HasDef
<1>2. ASSUME NEW k \in Int, NEW v \in Text, NEW l \in Tree, NEW r \in Tree,
             l \in S, r \in S
      PROVE  Mk(k, v, l, r) \in S
  <2> DEFINE t == Mk(k, v, l, r)
  <2>1. /\ t \in Tree /\ t # NoItem /\ t.key = k /\ t.left = l /\ t.right = r
        /\ t.height = (IF r.height > l.height THEN r.height ELSE l.height) + 1
    BY MkIsTree
  <2>2. l.height \in Nat /\ r.height \in Nat
    BY TreeFits
  <2> HIDE DEF t
  <2>3. aa_get(t, key) = IF key = k THEN t
                         ELSE IF key < k THEN aa_get(l, key) ELSE aa_get(r, key)
    BY <2>1, GetDef
  <2>4. aa_has(t, key) =
          IF key = k THEN 1
          ELSE IF key < k
          THEN (IF aa_has(l, key) > 0 THEN aa_has(l, key) + 1 ELSE 0)
          ELSE (IF aa_has(r, key) > 0 THEN aa_has(r, key) + 1 ELSE 0)
    BY <2>1, HasDef
  <2>5. t.height \in Nat /\ l.height + 1 <= t.height /\ r.height + 1 <= t.height
    BY <2>1, <2>2
  <2>6. CASE key = k
    BY <2>1, <2>2, <2>3, <2>4, <2>5, <2>6 DEF t
  <2>7. CASE key # k /\ key < k
    <3>1. /\ aa_get(t, key) = aa_get(l, key)
          /\ aa_has(t, key) = IF aa_has(l, key) > 0 THEN aa_has(l, key) + 1 ELSE 0
      BY <2>3, <2>4, <2>7
    <3>2. P(l)
      BY <1>2
    <3>3. P(t)
      BY <2>2, <2>5, <3>1, <3>2
    <3> QED
      BY <2>1, <3>3 DEF t
  <2>8. CASE key # k /\ ~(key < k)
    <3>1. /\ aa_get(t, key) = aa_get(r, key)
          /\ aa_has(t, key) = IF aa_has(r, key) > 0 THEN aa_has(r, key) + 1 ELSE 0
      BY <2>3, <2>4, <2>8
    <3>2. P(r)
      BY <1>2
    <3>3. P(t)
      BY <2>2, <2>5, <3>1, <3>2
    <3> QED
      BY <2>1, <3>3 DEF t
  <2> QED
    BY <2>6, <2>7, <2>8
<1> HIDE DEF S
<1>3. \A t \in Tree : t \in S
  BY <1>1, <1>2, TreeInduction
<1> QED
  BY <1>3 DEF S

-----------------------------------------------------------------------------
(* Writing out, and copying. *)

(* No key is written twice. *)
LEMMA OrderDistinct ==
    \A t \in Tree : AVL(t) =>
       \A i, j \in 1 .. Len(Preorder(t)) :
          Preorder(t)[i].key = Preorder(t)[j].key => i = j
<1> DEFINE P(t) == \A i, j \in 1 .. Len(Preorder(t)) :
                      Preorder(t)[i].key = Preorder(t)[j].key => i = j
           S == {t \in Tree : AVL(t) => P(t)}
<1>1. NoItem \in S
  <2>1. Preorder(NoItem) = <<>>
    BY NoItemIsTree, OrderDef
  <2> QED
    BY <2>1, NoItemIsTree
<1>2. ASSUME NEW k \in Int, NEW v \in Text, NEW l \in Tree, NEW r \in Tree,
             l \in S, r \in S
      PROVE  Mk(k, v, l, r) \in S
  <2> DEFINE t == Mk(k, v, l, r)
  <2>1. /\ t \in Tree /\ t # NoItem /\ t.key = k /\ t.left = l /\ t.right = r
    BY MkIsTree
  <2>2. SUFFICES ASSUME AVL(t) PROVE P(t)
    BY <2>1
  <2>3. AVL(l) /\ AVL(r) /\ Ordered(k, l, r)
    BY <2>2, AVLDef
  <2>4. P(l) /\ P(r)
    BY <1>2, <2>3
  <2> HIDE DEF t
  <2> DEFINE o == <<t>>
             p == Preorder(l)
             q == Preorder(r)
             op == o \o p
             s == op \o q
  <2>5. Preorder(t) = s
    BY <2>1, OrderDef
  <2>6. o \in Seq(Tree) /\ Len(o) = 1 /\ o[1] = t
    BY <2>1
  <2>7. /\ p \in Seq(Tree \ {NoItem}) /\ q \in Seq(Tree \ {NoItem})
        /\ p \in Seq(Tree) /\ q \in Seq(Tree)
        /\ Len(p) \in Nat /\ Len(q) \in Nat
    <3>1. p \in Seq(Tree \ {NoItem}) /\ q \in Seq(Tree \ {NoItem})
      BY OrderIsSeq
    <3> QED
      BY <3>1
  <2>8. /\ \A i \in 1 .. Len(p) : p[i].key \in Int /\ p[i].key < k
        /\ \A i \in 1 .. Len(q) : q[i].key \in Int /\ q[i].key > k
    <3>1. /\ \A i \in 1 .. Len(p) : <<p[i].key, p[i].value>> \in Items(l)
          /\ \A i \in 1 .. Len(q) : <<q[i].key, q[i].value>> \in Items(r)
      BY DEF Items, Nodes
    <3>2. /\ \A x \in Items(l) : x[1] \in Int /\ x[1] < k
          /\ \A x \in Items(r) : x[1] \in Int /\ x[1] > k
      BY <2>3, ItemsType DEF Ordered
    <3>3. \A a, b : <<a, b>>[1] = a
      OBVIOUS
    <3> QED
      BY <3>1, <3>2, <3>3
  <2>9. P(l) = (\A i, j \in 1 .. Len(p) : p[i].key = p[j].key => i = j)
        /\ P(r) = (\A i, j \in 1 .. Len(q) : q[i].key = q[j].key => i = j)
    OBVIOUS
  <2> HIDE DEF o, p, q
  <2>10. /\ op \in Seq(Tree) /\ Len(op) = 1 + Len(p)
         /\ \A i \in 1 .. 1 + Len(p) : op[i] = IF i <= 1 THEN o[i] ELSE p[i - 1]
    <3>1. /\ op \in Seq(Tree) /\ Len(op) = Len(o) + Len(p)
          /\ \A i \in 1 .. Len(o) + Len(p) :
                op[i] = IF i <= Len(o) THEN o[i] ELSE p[i - Len(o)]
      BY <2>6, <2>7, ConcatProperties
    <3> QED
      BY <2>6, <3>1
  <2> HIDE DEF op
  <2>11. /\ Len(s) = Len(op) + Len(q)
         /\ \A i \in 1 .. Len(op) + Len(q) :
               s[i] = IF i <= Len(op) THEN op[i] ELSE q[i - Len(op)]
    BY <2>7, <2>10, ConcatProperties
  <2> HIDE DEF s
  <2> DEFINE L == Len(p)
             M == Len(q)
  <2>12. /\ L \in Nat /\ M \in Nat /\ Len(s) = 1 + L + M
         /\ \A i \in 1 .. 1 + L + M :
               \/ i = 1 /\ s[i].key = k
               \/ i \in 2 .. 1 + L /\ i - 1 \in 1 .. L /\ s[i] = p[i - 1]
               \/ /\ i \in 2 + L .. 1 + L + M /\ i - (1 + L) \in 1 .. M
                  /\ s[i] = q[i - (1 + L)]
    <3>1. L \in Nat /\ M \in Nat /\ Len(op) = 1 + L /\ Len(s) = 1 + L + M
      BY <2>7, <2>10, <2>11
    <3>2. ASSUME NEW i \in 1 .. 1 + L + M
          PROVE  \/ i = 1 /\ s[i].key = k
                 \/ i \in 2 .. 1 + L /\ i - 1 \in 1 .. L /\ s[i] = p[i - 1]
                 \/ /\ i \in 2 + L .. 1 + L + M /\ i - (1 + L) \in 1 .. M
                    /\ s[i] = q[i - (1 + L)]
      <4>1. CASE i = 1
        <5>1. s[1] = op[1] /\ op[1] = o[1]
          BY <2>10, <2>11, <3>1
        <5> QED
          BY <2>1, <2>6, <4>1, <5>1
      <4>2. CASE i \in 2 .. 1 + L
        <5>1. s[i] = op[i] /\ op[i] = p[i - 1]
          BY <2>10, <2>11, <3>1, <4>2
        <5>2. i - 1 \in 1 .. L
          BY <3>1, <4>2
        <5> QED
          BY <4>2, <5>1, <5>2
      <4>3. CASE i \in 2 + L .. 1 + L + M
        <5>1. s[i] = q[i - (1 + L)]
          BY <2>11, <3>1, <4>3
        <5>2. i - (1 + L) \in 1 .. M
          BY <3>1, <4>3
        <5> QED
          BY <4>3, <5>1, <5>2
      <4>4. i = 1 \/ i \in 2 .. 1 + L \/ i \in 2 + L .. 1 + L + M
        BY <3>1
      <4> QED
        BY <4>1, <4>2, <4>3, <4>4
    <3> QED
      BY <3>1, <3>2
  <2> HIDE DEF L, M, P
  <2>13. /\ \A i \in 1 .. L : p[i].key \in Int /\ p[i].key < k
         /\ \A i \in 1 .. M : q[i].key \in Int /\ q[i].key > k
         /\ \A i, j \in 1 .. L : p[i].key = p[j].key => i = j
         /\ \A i, j \in 1 .. M : q[i].key = q[j].key => i = j
    BY <2>4, <2>8, <2>9 DEF L, M
  <2>14. ASSUME NEW i \in 1 .. 1 + L + M, NEW j \in 1 .. 1 + L + M,
                s[i].key = s[j].key
         PROVE  i = j
    <3>1. CASE i = 1
      <4>1. s[i].key = k
        BY <2>12, <3>1
      <4> QED
        BY <2>12, <2>13, <2>14, <3>1, <4>1
    <3>2. CASE i \in 2 .. 1 + L
      <4>1. i - 1 \in 1 .. L /\ s[i] = p[i - 1]
        BY <2>12, <3>2
      <4>2. s[i].key \in Int /\ s[i].key < k
        BY <2>13, <4>1
      <4>3. j \in 2 .. 1 + L /\ j - 1 \in 1 .. L /\ s[j] = p[j - 1]
        BY <2>12, <2>13, <2>14, <4>2
      <4>4. i - 1 = j - 1
        BY <2>13, <2>14, <4>1, <4>3
      <4> QED
        BY <2>12, <4>4
    <3>3. CASE i \in 2 + L .. 1 + L + M
      <4>1. i - (1 + L) \in 1 .. M /\ s[i] = q[i - (1 + L)]
        BY <2>12, <3>3
      <4>2. s[i].key \in Int /\ s[i].key > k
        BY <2>13, <4>1
      <4>3. j - (1 + L) \in 1 .. M /\ s[j] = q[j - (1 + L)]
        BY <2>12, <2>13, <2>14, <4>2
      <4>4. i - (1 + L) = j - (1 + L)
        BY <2>13, <2>14, <4>1, <4>3
      <4> QED
        BY <2>12, <4>4
    <3> QED
      BY <2>12, <3>1, <3>2, <3>3
  <2>15. P(t)
    BY <2>5, <2>12, <2>14 DEF P
  <2> QED
    BY <2>15 DEF t
<1> HIDE DEF S
<1>3. \A t \in Tree : t \in S
  BY <1>1, <1>2, TreeInduction
<1> QED
  BY <1>3 DEF S

Line == [key : Int, value : Text]

Lines(t) == aa_create_str_representation(t)

LEMMA LinesIs ==
    ASSUME NEW t, AVL(t)
    PROVE  /\ Lines(t) \in Seq(Line)
           /\ \A i, j \in 1 .. Len(Lines(t)) :
                 Lines(t)[i].key = Lines(t)[j].key => i = j
           /\ Items(t) = {<<Lines(t)[i].key, Lines(t)[i].value>> :
                            i \in 1 .. Len(Lines(t))}
<1> DEFINE s == Preorder(t)
<1>1. t \in Tree
  BY DEF AVL
<1>2. s \in Seq(Tree \ {NoItem}) /\ Len(s) \in Nat
  BY <1>1, OrderIsSeq
<1>3. \A i \in 1 .. Len(s) : s[i].key \in Int /\ s[i].value \in Text
  <2>1. \A i \in 1 .. Len(s) : s[i] \in Tree /\ s[i] # NoItem
    BY <1>2
  <2> QED
    BY <2>1, TreeIsMk
<1>4. \A i, j \in 1 .. Len(s) : s[i].key = s[j].key => i = j
  BY <1>1, OrderDistinct
<1>5. Items(t) = {<<s[i].key, s[i].value>> : i \in 1 .. Len(s)}
  BY DEF Items, Nodes
<1>6. Lines(t) = [i \in 1 .. Len(s) |-> [key |-> s[i].key, value |-> s[i].value]]
  BY DEF Lines, aa_create_str_representation
<1> HIDE DEF s
<1>7. \A i \in 1 .. Len(s) : [key |-> s[i].key, value |-> s[i].value] \in Line
  BY <1>3 DEF Line
<1>8. Lines(t) \in Seq(Line) /\ Len(Lines(t)) = Len(s)
  BY <1>2, <1>6, <1>7
<1>9. \A i \in 1 .. Len(s) : /\ Lines(t)[i].key = s[i].key
                             /\ Lines(t)[i].value = s[i].value
  BY <1>6
<1> DEFINE n == Len(s)
           x == Lines(t)
<1>10. /\ x \in Seq(Line) /\ Len(x) = n
       /\ \A i \in 1 .. n : x[i].key = s[i].key /\ x[i].value = s[i].value
       /\ \A i, j \in 1 .. n : s[i].key = s[j].key => i = j
       /\ Items(t) = {<<s[i].key, s[i].value>> : i \in 1 .. n}
  BY <1>4, <1>5, <1>8, <1>9
<1> HIDE DEF n, x
<1>11. \A i, j \in 1 .. n : x[i].key = x[j].key => i = j
  BY <1>10
<1>12. Items(t) = {<<x[i].key, x[i].value>> : i \in 1 .. n}
  BY <1>10
<1> QED
  BY <1>10, <1>11, <1>12 DEF x

-----------------------------------------------------------------------------
(* PutAll is what its definition says: the function it chooses exists. *)

PutAllStep(f, a, lines, n) ==
    IF n = 0 THEN a ELSE aa_put(f[n - 1], lines[n].key, lines[n].value)

IsPutAll(f, m, a, lines) ==
    f = [n \in 0 .. m |-> PutAllStep(f, a, lines, n)]

LEMMA PutAllChosen ==
    ASSUME NEW a, NEW lines \in Seq(Line)
    PROVE  \E f : /\ IsPutAll(f, Len(lines), a, lines)
                 /\ PutAll(a, lines) = f[Len(lines)]
<1> DEFINE G == {m \in Nat : \E f : IsPutAll(f, m, a, lines)}
<1>1. 0 \in G
  <2> DEFINE f == [n \in 0 .. 0 |-> a]
  <2>1. IsPutAll(f, 0, a, lines)
    BY DEF IsPutAll, PutAllStep
  <2> QED
    BY <2>1
<1>2. ASSUME NEW m \in G PROVE m + 1 \in G
  <2>1. PICK f : IsPutAll(f, m, a, lines)
    OBVIOUS
  <2> DEFINE g == [n \in 0 .. m + 1 |-> IF n \in 0 .. m THEN f[n]
                                        ELSE PutAllStep(f, a, lines, n)]
  <2>2. ASSUME NEW n \in 0 .. m + 1
        PROVE  g[n] = PutAllStep(g, a, lines, n)
    <3>1. n = 0 \/ (n - 1 \in 0 .. m /\ g[n - 1] = f[n - 1])
      OBVIOUS
    <3>2. PutAllStep(g, a, lines, n) = PutAllStep(f, a, lines, n)
      BY <3>1 DEF PutAllStep
    <3>3. n \in 0 .. m => f[n] = PutAllStep(f, a, lines, n)
      BY <2>1 DEF IsPutAll
    <3> QED
      BY <3>2, <3>3
  <2>3. IsPutAll(g, m + 1, a, lines)
    BY <2>2 DEF IsPutAll
  <2> QED
    BY <2>3
<1>3. G = Nat
  <2> HIDE DEF G
  <2>1. G \in SUBSET Nat
    BY DEF G
  <2> QED
    BY <1>1, <1>2, <2>1, SetInduction
<1> DEFINE c == CHOOSE f : IsPutAll(f, Len(lines), a, lines)
<1>4. IsPutAll(c, Len(lines), a, lines)
  <2>1. \E f : IsPutAll(f, Len(lines), a, lines)
    <3>1. Len(lines) \in Nat
      OBVIOUS
    <3>2. \A m \in Nat : m \in G
      BY <1>3
    <3> QED
      BY <3>1, <3>2
  <2> QED
    BY <2>1
<1>5. PutAll(a, lines) = c[Len(lines)]
  BY DEF PutAll, IsPutAll, PutAllStep
<1> QED
  BY <1>4, <1>5

(* What a tree that held X holds after the first n lines were put. *)
Overwritten(X, lines, n) ==
    {x \in X : \A i \in 1 .. n : x[1] # lines[i].key}
      \cup {<<lines[i].key, lines[i].value>> : i \in 1 .. n}

(* Lines that do not contradict each other are all in the tree afterwards, *)
(* and the other items are as they were.                                   *)
LEMMA PutAllIs ==
    ASSUME NEW a, AVL(a), NEW lines \in Seq(Line),
           \A i, j \in 1 .. Len(lines) :
              lines[i].key = lines[j].key => lines[i].value = lines[j].value
    PROVE  /\ AVL(PutAll(a, lines))
           /\ Items(PutAll(a, lines)) = Overwritten(Items(a), lines, Len(lines))
<1>1. PICK f : /\ IsPutAll(f, Len(lines), a, lines)
               /\ PutAll(a, lines) = f[Len(lines)]
  BY PutAllChosen
<1> DEFINE P(n) == AVL(f[n]) /\ Items(f[n]) = Overwritten(Items(a), lines, n)
           G == {n \in Nat : n <= Len(lines) => P(n)}
<1>2. Len(lines) \in Nat
  OBVIOUS
<1>3. 0 \in G
  <2>1. f[0] = a
    BY <1>1, <1>2 DEF IsPutAll, PutAllStep
  <2>2. Overwritten(Items(a), lines, 0) = Items(a)
    BY DEF Overwritten
  <2> QED
    BY <2>1, <2>2
<1>4. ASSUME NEW n \in G PROVE n + 1 \in G
  <2>1. SUFFICES ASSUME n + 1 <= Len(lines) PROVE P(n + 1)
    OBVIOUS
  <2>2. n \in Nat /\ n + 1 \in 0 .. Len(lines) /\ n + 1 \in 1 .. Len(lines)
        /\ n + 1 # 0 /\ (n + 1) - 1 = n
    BY <1>2, <2>1
  <2>3. P(n)
    BY <1>2, <2>1
  <2> DEFINE key == lines[n + 1].key
             value == lines[n + 1].value
  <2>4. f[n + 1] = aa_put(f[n], key, value)
    <3>1. f[n + 1] = PutAllStep(f, a, lines, n + 1)
      BY <1>1, <2>2 DEF IsPutAll
    <3> QED
      BY <2>2, <3>1 DEF PutAllStep
  <2>5. key \in Int /\ value \in Text
    <3>1. lines[n + 1] \in Line
      BY <2>2
    <3> QED
      BY <3>1 DEF Line
  <2>6. \A i \in 1 .. n : lines[i].key = key => lines[i].value = value
    <3>1. \A i \in 1 .. n : i \in 1 .. Len(lines)
      BY <1>2, <2>2
    <3> QED
      BY <2>2, <3>1
  <2> HIDE DEF key, value
  <2>7. /\ AVL(f[n + 1])
        /\ Items(f[n + 1]) = {x \in Items(f[n]) : x[1] # key} \cup {<<key, value>>}
    BY <2>3, <2>4, <2>5, PutIs
  <2> DEFINE I == Items(a)
             A == {x \in I : \A i \in 1 .. n : x[1] # lines[i].key}
             B == {<<lines[i].key, lines[i].value>> : i \in 1 .. n}
             A1 == {x \in I : \A i \in 1 .. n + 1 : x[1] # lines[i].key}
             B1 == {<<lines[i].key, lines[i].value>> : i \in 1 .. n + 1}
  <2>8. \A i \in 1 .. n + 1 : i \in 1 .. n \/ i = n + 1
    BY <2>2
  <2>9. n + 1 \in 1 .. n + 1 /\ \A i \in 1 .. n : i \in 1 .. n + 1
    BY <2>2
  <2>10. A1 = {x \in A : x[1] # key}
    BY <2>8, <2>9 DEF key
  <2>11. B1 = {x \in B : x[1] # key} \cup {<<key, value>>}
    <3>1. ASSUME NEW x \in B1
          PROVE  x \in {y \in B : y[1] # key} \cup {<<key, value>>}
      <4>1. PICK i \in 1 .. n + 1 : x = <<lines[i].key, lines[i].value>>
        OBVIOUS
      <4>2. CASE i = n + 1
        BY <4>1, <4>2 DEF key, value
      <4>3. CASE i \in 1 .. n /\ lines[i].key = key
        BY <2>6, <4>1, <4>3
      <4>4. CASE i \in 1 .. n /\ lines[i].key # key
        BY <4>1, <4>4
      <4> QED
        BY <2>8, <4>2, <4>3, <4>4
    <3>2. <<key, value>> \in B1
      BY <2>9 DEF key, value
    <3>3. B \subseteq B1
      BY <2>9
    <3> QED
      BY <3>1, <3>2, <3>3
  <2>12. Items(f[n]) = A \cup B
    BY <2>3 DEF Overwritten
  <2>13. Items(f[n + 1]) = A1 \cup B1
    <3> HIDE DEF A, B, A1, B1
    <3> QED
      BY <2>7, <2>10, <2>11, <2>12
  <2> QED
    BY <2>7, <2>13 DEF Overwritten
<1>5. G = Nat
  <2> HIDE DEF G
  <2>1. G \in SUBSET Nat
    BY DEF G
  <2> QED
    BY <1>3, <1>4, <2>1, SetInduction
<1>6. P(Len(lines))
  BY <1>2, <1>5
<1> QED
  BY <1>1, <1>6

(* aa_merge copies. *)
LEMMA MergeIs ==
    ASSUME NEW t, AVL(t)
    PROVE  /\ AVL(aa_merge(NoItem, t))
           /\ Items(aa_merge(NoItem, t)) = Items(t)
<1> DEFINE s == Lines(t)
<1>1. /\ s \in Seq(Line)
      /\ \A i, j \in 1 .. Len(s) : s[i].key = s[j].key => i = j
      /\ Items(t) = {<<s[i].key, s[i].value>> : i \in 1 .. Len(s)}
  BY LinesIs
<1>2. aa_merge(NoItem, t) = PutAll(NoItem, s)
  BY DEF aa_merge, Lines
<1> HIDE DEF s
<1>3. \A i, j \in 1 .. Len(s) : s[i].key = s[j].key => s[i].value = s[j].value
  BY <1>1
<1>4. AVL(NoItem) /\ Items(NoItem) = {}
  BY AVLDef, ItemsDef
<1>5. /\ AVL(PutAll(NoItem, s))
      /\ Items(PutAll(NoItem, s)) = Overwritten(Items(NoItem), s, Len(s))
  BY <1>1, <1>3, <1>4, PutAllIs
<1>6. Overwritten({}, s, Len(s)) = Items(t)
  BY <1>1 DEF Overwritten
<1> QED
  BY <1>2, <1>4, <1>5, <1>6

-----------------------------------------------------------------------------
(* The headers of a message. *)

(* What a tree holds that has f[k] for header k, NULL for none. *)
Table(f) == {<<k, f[k]>> : k \in {h \in Keys : f[h] # NULL}}

Headers == [Keys -> Text \cup {NULL}]

(* The headers of the copy: as in the last frame, or before the first. *)
Held ==
    [k \in Keys |->
       IF sent > 0 THEN Expected(k, sent)
       ELSE CASE k \in {content_type, content_length} -> <<"content", 0>>
              [] k \in asked -> <<"figure", 0>>
              [] OTHER -> given[k]]

(* The names of the headers the broker sets. *)
OwnSet ==
    {content_type, content_length, message_id, destination, subscription}

(* Both trees are balanced search trees, hold what was given and what the  *)
(* broker has made of it, and the last frame is what the copy holds.       *)
HeadersInv ==
    /\ AVL(headers) /\ AVL(message_headers)
    /\ given \in Headers /\ topic \in Text \cup {NULL} /\ sent \in Nat
    /\ asked \subseteq Keys \ OwnSet
    /\ Items(headers) = Table(given)
    /\ message_headers = NoItem => sent = 0 /\ asked = {}
    /\ message_headers # NoItem =>
          topic # NULL /\ Items(message_headers) = Table(Held)
    /\ sent > 0 => frame = Lines(message_headers)

LEMMA OwnFacts ==
    /\ content_type \in Keys /\ content_length \in Keys /\ message_id \in Keys
    /\ destination \in Keys /\ subscription \in Keys
    /\ content_type # content_length
    /\ message_id \notin {content_type, content_length, destination, subscription}
    /\ destination \notin {content_type, content_length, subscription}
    /\ subscription \notin {content_type, content_length}
    /\ {Own[i] : i \in 1 .. 5} = OwnSet
<1>1. /\ Own \in Seq(Keys) /\ Len(Own) = 5
      /\ \A i, j \in 1 .. 5 : Own[i] = Own[j] => i = j
  BY MessageHeadersAssumption DEF Own
<1>2. \A i \in 1 .. 5 : Own[i] \in Keys
  <2>1. \A i \in 1 .. Len(Own) : Own[i] \in Keys
    BY <1>1, ElementOfSeq
  <2> QED
    BY <1>1, <2>1
<1>3. /\ Own[1] = content_type /\ Own[2] = content_length
      /\ Own[3] = message_id /\ Own[4] = destination /\ Own[5] = subscription
  BY DEF Own
<1>4. 1 \in 1 .. 5 /\ 2 \in 1 .. 5 /\ 3 \in 1 .. 5 /\ 4 \in 1 .. 5 /\ 5 \in 1 .. 5
  OBVIOUS
<1>5. /\ Own[1] \in Keys /\ Own[2] \in Keys /\ Own[3] \in Keys
      /\ Own[4] \in Keys /\ Own[5] \in Keys
  BY <1>2, <1>4
<1>6. /\ Own[1] # Own[2] /\ Own[3] # Own[1] /\ Own[3] # Own[2]
      /\ Own[3] # Own[4] /\ Own[3] # Own[5] /\ Own[4] # Own[1]
      /\ Own[4] # Own[2] /\ Own[4] # Own[5] /\ Own[5] # Own[1]
      /\ Own[5] # Own[2]
  BY <1>1, <1>4
<1>7. {Own[i] : i \in 1 .. 5} = OwnSet
  <2>1. \A i \in 1 .. 5 : i \in {1, 2, 3, 4, 5}
    OBVIOUS
  <2> QED
    BY <1>3, <1>4, <2>1 DEF OwnSet
<1> QED
  BY <1>3, <1>5, <1>6, <1>7

LEMMA TextFacts ==
    /\ NULL \notin Text
    /\ \A n \in Int : /\ <<"client", n>> \in Text /\ <<"content", n>> \in Text
                      /\ <<"figure", n>> \in Text /\ <<"id", n>> \in Text
                      /\ <<"sub", n>> \in Text
BY MessageHeadersAssumption DEF Text

(* One header is put. *)
LEMMA TablePut ==
    ASSUME NEW f \in Headers, NEW key \in Keys, NEW v \in Text
    PROVE  /\ {x \in Table(f) : x[1] # key} \cup {<<key, v>>} =
                 Table([f EXCEPT ![key] = v])
           /\ [f EXCEPT ![key] = v] \in Headers
<1> DEFINE g == [f EXCEPT ![key] = v]
<1>1. /\ g \in Headers /\ g[key] = v /\ v # NULL
      /\ \A k \in Keys : k # key => g[k] = f[k]
  BY TextFacts DEF Headers
<1> HIDE DEF g
<1>2. ASSUME NEW x \in Table(f), x[1] # key PROVE x \in Table(g)
  BY <1>1, <1>2 DEF Table
<1>3. <<key, v>> \in Table(g)
  BY <1>1 DEF Table
<1>4. ASSUME NEW x \in Table(g)
      PROVE  x \in {y \in Table(f) : y[1] # key} \cup {<<key, v>>}
  <2>1. PICK k \in Keys : g[k] # NULL /\ x = <<k, g[k]>>
    BY DEF Table
  <2>2. CASE k = key
    BY <1>1, <2>1, <2>2
  <2>3. CASE k # key
    BY <1>1, <2>1, <2>3 DEF Table
  <2> QED
    BY <2>2, <2>3
<1> QED
  BY <1>1, <1>2, <1>3, <1>4 DEF g

(* aa_put of a header. *)
LEMMA PutHeader ==
    ASSUME NEW t, AVL(t), NEW f \in Headers, Items(t) = Table(f),
           NEW key \in Keys, NEW v \in Text
    PROVE  /\ AVL(aa_put(t, key, v)) /\ aa_put(t, key, v) # NoItem
           /\ Items(aa_put(t, key, v)) = Table([f EXCEPT ![key] = v])
           /\ [f EXCEPT ![key] = v] \in Headers
<1>1. key \in Int
  BY MessageHeadersAssumption
<1>2. /\ AVL(aa_put(t, key, v)) /\ aa_put(t, key, v) # NoItem
      /\ Items(aa_put(t, key, v)) =
            {x \in Items(t) : x[1] # key} \cup {<<key, v>>}
  BY <1>1, PutIs
<1> QED
  BY <1>2, TablePut

LEMMA InitHeaders ==
    Init => HeadersInv
<1> SUFFICES ASSUME Init PROVE HeadersInv
  OBVIOUS
<1>1. AVL(headers) /\ AVL(message_headers) /\ Items(headers) = {}
  BY AVLDef, ItemsDef DEF Init
<1>2. given \in Headers /\ Table(given) = {}
  BY DEF Init, Headers, Table
<1> QED
  BY <1>1, <1>2 DEF Init, HeadersInv

LEMMA ParseStep ==
    ASSUME HeadersInv, NEW key \in Keys, NEW value \in Values,
           ParseHeader(key, value)
    PROVE  HeadersInv'
<1>1. <<"client", value>> \in Text
  BY TextFacts, MessageHeadersAssumption
<1> DEFINE v == <<"client", value>>
<1> HIDE DEF v
<1>2. /\ headers' = aa_put(headers, key, v)
      /\ given' = [given EXCEPT ![key] = v]
      /\ topic' \in {v, topic}
      /\ message_headers = NoItem
      /\ UNCHANGED <<message_headers, frame, sent, asked>>
  BY DEF ParseHeader, v
<1>3. v \in Text
  BY <1>1 DEF v
<1>4. /\ AVL(headers) /\ given \in Headers /\ Items(headers) = Table(given)
  BY DEF HeadersInv
<1>5. /\ AVL(headers') /\ Items(headers') = Table(given') /\ given' \in Headers
  <2>1. /\ AVL(aa_put(headers, key, v))
        /\ Items(aa_put(headers, key, v)) = Table([given EXCEPT ![key] = v])
        /\ [given EXCEPT ![key] = v] \in Headers
    BY <1>3, <1>4, PutHeader
  <2> QED
    BY <1>2, <2>1
<1> QED
  BY <1>2, <1>3, <1>5 DEF HeadersInv

(* The copy of the headers with the type and the length of the content. *)
LEMMA PutContentIs ==
    ASSUME NEW t, AVL(t), NEW f \in Headers, Items(t) = Table(f)
    PROVE  LET g == [k \in Keys |-> IF k \in {content_type, content_length}
                                     THEN <<"content", 0>> ELSE f[k]]
           IN  /\ AVL(PutContent(t)) /\ PutContent(t) # NoItem
               /\ g \in Headers /\ Items(PutContent(t)) = Table(g)
<1> DEFINE c == <<"content", 0>>
           g == [k \in Keys |-> IF k \in {content_type, content_length}
                                THEN c ELSE f[k]]
<1>1. c \in Text
  BY DEF Text
<1>2. PutContent(t) = aa_put(aa_put(t, content_type, c), content_length, c)
  BY DEF PutContent
<1>3. content_type \in Keys /\ content_length \in Keys
  BY OwnFacts
<1> HIDE DEF c
<1> DEFINE t1 == aa_put(t, content_type, c)
           f1 == [f EXCEPT ![content_type] = c]
           f2 == [f1 EXCEPT ![content_length] = c]
<1>4. AVL(t1) /\ Items(t1) = Table(f1) /\ f1 \in Headers
  BY <1>1, <1>3, PutHeader
<1>5. f2 = g
  BY <1>3 DEF Headers
<1> HIDE DEF t1, f1
<1>6. /\ AVL(aa_put(t1, content_length, c)) /\ aa_put(t1, content_length, c) # NoItem
      /\ Items(aa_put(t1, content_length, c)) = Table(f2) /\ f2 \in Headers
  BY <1>1, <1>3, <1>4, PutHeader
<1> QED
  BY <1>2, <1>5, <1>6 DEF t1, c

(* The answer to a query. *)
LEMMA PutAnswerIs ==
    ASSUME NEW t, AVL(t), t # NoItem, NEW f \in Headers, Items(t) = Table(f),
           NEW query \in Seq(Keys)
    PROVE  LET g == [k \in Keys |-> IF k \in {query[i] : i \in 1 .. Len(query)}
                                     THEN <<"figure", 0>> ELSE f[k]]
           IN  /\ AVL(PutAnswer(t, query)) /\ PutAnswer(t, query) # NoItem
               /\ Items(PutAnswer(t, query)) = Table(g)
<1> DEFINE c == <<"figure", 0>>
           Q == {query[i] : i \in 1 .. Len(query)}
           g == [k \in Keys |-> IF k \in Q THEN c ELSE f[k]]
           s == [i \in 1 .. Len(query) |-> [key |-> query[i], value |-> c]]
<1>1. c \in Text /\ c # NULL
  <2>1. c \in Text
    BY DEF Text
  <2> QED
    BY <2>1, TextFacts
<1>2. PutAnswer(t, query) = PutAll(t, s)
  BY DEF PutAnswer
<1> HIDE DEF c
<1>3. Len(query) \in Nat /\ \A i \in 1 .. Len(query) : query[i] \in Keys
  OBVIOUS
<1>4. \A i \in 1 .. Len(query) : [key |-> query[i], value |-> c] \in Line
  BY <1>1, <1>3, MessageHeadersAssumption DEF Line
<1>5. /\ s \in Seq(Line) /\ Len(s) = Len(query)
      /\ \A i \in 1 .. Len(s) : s[i].key = query[i] /\ s[i].value = c
  BY <1>3, <1>4
<1> HIDE DEF s
<1> DEFINE x == PutAll(t, s)
<1>6. AVL(x) /\ Items(x) = Overwritten(Items(t), s, Len(s))
  BY <1>5, PutAllIs
<1> HIDE DEF x
<1>7. Overwritten(Table(f), s, Len(s)) = Table(g)
  <2>1. \A k \in Keys : k \in Q => g[k] = c
    OBVIOUS
  <2>2. \A k \in Keys : k \notin Q => g[k] = f[k]
    OBVIOUS
  <2>3. Q \subseteq Keys /\ \A k \in Q : \E i \in 1 .. Len(s) : k = query[i]
    BY <1>3, <1>5
  <2>4. \A i \in 1 .. Len(s) : query[i] \in Q /\ s[i].key = query[i]
                             /\ s[i].value = c
    BY <1>5
  <2> HIDE DEF Q, g
  <2>5. ASSUME NEW y \in Overwritten(Table(f), s, Len(s)) PROVE y \in Table(g)
    <3>1. CASE y \in Table(f) /\ \A i \in 1 .. Len(s) : y[1] # s[i].key
      <4>1. PICK k \in Keys : f[k] # NULL /\ y = <<k, f[k]>>
        BY <3>1 DEF Table
      <4>2. k \notin Q
        BY <2>3, <2>4, <3>1, <4>1
      <4> QED
        BY <2>2, <4>1, <4>2 DEF Table
    <3>2. ASSUME NEW i \in 1 .. Len(s), y = <<s[i].key, s[i].value>>
          PROVE  y \in Table(g)
      <4>1. y = <<query[i], g[query[i]]>> /\ query[i] \in Keys
            /\ g[query[i]] # NULL
        BY <1>1, <2>1, <2>3, <2>4, <3>2
      <4> QED
        BY <4>1 DEF Table
    <3> QED
      BY <3>1, <3>2 DEF Overwritten
  <2>6. ASSUME NEW y \in Table(g) PROVE y \in Overwritten(Table(f), s, Len(s))
    <3>1. PICK k \in Keys : g[k] # NULL /\ y = <<k, g[k]>>
      BY DEF Table
    <3>2. CASE k \in Q
      <4>1. PICK i \in 1 .. Len(s) : k = query[i]
        BY <2>3, <3>2
      <4>2. y = <<s[i].key, s[i].value>>
        BY <2>1, <2>4, <3>1, <3>2, <4>1
      <4> QED
        BY <4>2 DEF Overwritten
    <3>3. CASE k \notin Q
      <4>1. y \in Table(f) /\ y[1] = k
        BY <2>2, <3>1, <3>3 DEF Table
      <4>2. \A i \in 1 .. Len(s) : y[1] # s[i].key
        BY <2>4, <3>3, <4>1
      <4> QED
        BY <4>1, <4>2 DEF Overwritten
    <3> QED
      BY <3>2, <3>3
  <2> QED
    BY <2>5, <2>6
<1>8. Items(t) # {}
  <2>1. PICK k \in Int, v \in Text, l \in Tree, r \in Tree : t = Mk(k, v, l, r)
    BY AVLParts
  <2>2. Items(t) = {<<k, v>>} \cup Items(l) \cup Items(r)
    BY <2>1, ItemsDef
  <2> QED
    BY <2>2
<1>9. x # NoItem
  <2>1. Overwritten(Items(t), s, Len(s)) # {}
    <3>1. PICK y \in Items(t) : TRUE
      BY <1>8
    <3>2. CASE \A i \in 1 .. Len(s) : y[1] # s[i].key
      BY <3>2 DEF Overwritten
    <3>3. ASSUME NEW i \in 1 .. Len(s)
          PROVE  <<s[i].key, s[i].value>> \in Overwritten(Items(t), s, Len(s))
      BY DEF Overwritten
    <3> QED
      BY <3>2, <3>3
  <2> QED
    BY <1>6, <2>1, ItemsDef
<1> QED
  BY <1>2, <1>6, <1>7, <1>9 DEF x, c

LEMMA DistributeStep ==
    ASSUME HeadersInv, NEW query \in Queries, Distribute(query)
    PROVE  HeadersInv'
<1> DEFINE copy == PutContent(aa_merge(NoItem, headers))
           own == {content_type, content_length}
           f == [k \in Keys |-> IF k \in own THEN <<"content", 0>> ELSE given[k]]
           Q == {query[i] : i \in 1 .. Len(query)}
           g == [k \in Keys |-> IF k \in Q THEN <<"figure", 0>> ELSE f[k]]
<1>1. /\ topic # NULL /\ message_headers = NoItem
      /\ UNCHANGED <<headers, topic, frame, sent, given>>
      /\ \/ message_headers' = PutAnswer(copy, query) /\ asked' = Q
         \/ message_headers' = copy /\ UNCHANGED asked
  BY DEF Distribute
<1>2. /\ AVL(headers) /\ given \in Headers /\ Items(headers) = Table(given)
      /\ sent = 0 /\ asked = {} /\ topic \in Text \cup {NULL}
  BY <1>1 DEF HeadersInv
<1>3. /\ AVL(aa_merge(NoItem, headers))
      /\ Items(aa_merge(NoItem, headers)) = Table(given)
  BY <1>2, MergeIs
<1>4. /\ AVL(copy) /\ copy # NoItem /\ f \in Headers /\ Items(copy) = Table(f)
  BY <1>2, <1>3, PutContentIs
<1>5. /\ query \in Seq(Keys) /\ Q \subseteq Keys \ OwnSet
      /\ Q \subseteq Keys \ own
  <2>1. query \in Seq(Keys \ OwnSet)
    BY MessageHeadersAssumption, OwnFacts
  <2>2. query \in Seq(Keys) /\ Q \subseteq Keys \ OwnSet
    BY <2>1
  <2> QED
    BY <2>2 DEF OwnSet
<1>6. /\ AVL(PutAnswer(copy, query)) /\ PutAnswer(copy, query) # NoItem
      /\ Items(PutAnswer(copy, query)) = Table(g)
  <2> HIDE DEF copy, f
  <2> QED
    BY <1>4, <1>5, PutAnswerIs
<1>7. Held' = [k \in Keys |-> CASE k \in own -> <<"content", 0>>
                               [] k \in asked' -> <<"figure", 0>>
                               [] OTHER -> given[k]]
  BY <1>1, <1>2 DEF Held
<1>8. CASE message_headers' = PutAnswer(copy, query) /\ asked' = Q
  <2>1. Held' = g
    BY <1>5, <1>7, <1>8
  <2> HIDE DEF copy, f, g, Q
  <2> QED
    BY <1>1, <1>2, <1>5, <1>6, <1>8, <2>1 DEF HeadersInv
<1>9. CASE message_headers' = copy /\ UNCHANGED asked
  <2>1. Held' = f
    BY <1>2, <1>7, <1>9
  <2> HIDE DEF copy, f
  <2> QED
    BY <1>1, <1>2, <1>4, <1>9, <2>1 DEF HeadersInv
<1> QED
  BY <1>1, <1>8, <1>9

LEMMA HeldIsHeaders ==
    ASSUME HeadersInv, topic # NULL
    PROVE  Held \in Headers
<1>1. ASSUME NEW k \in Keys PROVE Held[k] \in Text \cup {NULL}
  <2>1. /\ given[k] \in Text \cup {NULL} /\ topic \in Text /\ sent - 1 \in Int
    BY DEF HeadersInv, Headers
  <2>2. /\ <<"id", sent - 1>> \in Text /\ <<"sub", sent - 1>> \in Text
        /\ <<"content", 0>> \in Text /\ <<"figure", 0>> \in Text
    BY <2>1 DEF Text
  <2> HIDE DEF Text
  <2>3. Expected(k, sent) \in Text \cup {NULL}
    BY <2>1, <2>2 DEF Expected
  <2>4. CASE sent > 0
    BY <2>3, <2>4 DEF Held
  <2>5. CASE ~(sent > 0)
    BY <2>1, <2>2, <2>5 DEF Held
  <2> QED
    BY <2>4, <2>5
<1> QED
  BY <1>1 DEF Held, Headers

LEMMA SendStep ==
    ASSUME HeadersInv, SendNext
    PROVE  HeadersInv'
<1> DEFINE vi == <<"id", sent>>
           vs == <<"sub", sent>>
           t1 == aa_put(message_headers, message_id, vi)
           t2 == aa_put(t1, destination, topic)
           t3 == aa_put(t2, subscription, vs)
           f1 == [Held EXCEPT ![message_id] = vi]
           f2 == [f1 EXCEPT ![destination] = topic]
           f3 == [f2 EXCEPT ![subscription] = vs]
<1>1. /\ message_headers # NoItem /\ sent' = sent + 1
      /\ message_headers' = t3
      /\ frame' = Lines(t3)
      /\ UNCHANGED <<headers, topic, given, asked>>
  BY DEF SendNext, Lines
<1>2. /\ AVL(message_headers) /\ Items(message_headers) = Table(Held)
      /\ topic # NULL /\ topic \in Text /\ sent \in Nat
      /\ asked \subseteq Keys \ OwnSet
  BY <1>1 DEF HeadersInv
<1>3. Held \in Headers
  BY <1>2, HeldIsHeaders
<1>4. vi \in Text /\ vs \in Text
  BY <1>2 DEF Text
<1>5. message_id \in Keys /\ destination \in Keys /\ subscription \in Keys
  BY OwnFacts
<1> HIDE DEF vi, vs
<1>6. AVL(t1) /\ Items(t1) = Table(f1) /\ f1 \in Headers
  BY <1>2, <1>3, <1>4, <1>5, PutHeader
<1>7. f1 = [k \in Keys |-> IF k = message_id THEN vi ELSE Held[k]]
  BY <1>3, <1>5 DEF Headers
<1> HIDE DEF t1, f1
<1>8. AVL(t2) /\ Items(t2) = Table(f2) /\ f2 \in Headers
  BY <1>2, <1>5, <1>6, PutHeader
<1>9. f2 = [k \in Keys |-> IF k = destination THEN topic ELSE f1[k]]
  BY <1>5, <1>6 DEF Headers
<1> HIDE DEF t2, f2
<1>10. AVL(t3) /\ t3 # NoItem /\ Items(t3) = Table(f3) /\ f3 \in Headers
  BY <1>4, <1>5, <1>8, PutHeader
<1>11. f3 = [k \in Keys |-> IF k = subscription THEN vs ELSE f2[k]]
  BY <1>5, <1>8 DEF Headers
<1> HIDE DEF t3, f3
<1>12. Held' = f3
  <2>1. sent' > 0 /\ sent' - 1 = sent
    BY <1>1, <1>2
  <2>2. Held' = [k \in Keys |-> Expected(k, sent)']
    BY <2>1 DEF Held
  <2>3. ASSUME NEW k \in Keys PROVE Expected(k, sent)' = f3[k]
    <3>1. Expected(k, sent)' =
            CASE k \in {content_type, content_length} -> <<"content", 0>>
              [] k = message_id -> vi
              [] k = subscription -> vs
              [] k = destination -> topic
              [] k \in asked -> <<"figure", 0>>
              [] OTHER -> given[k]
      BY <1>1, <2>1 DEF Expected, vi, vs
    <3>2. k \notin {message_id, subscription, destination} =>
            Held[k] = CASE k \in {content_type, content_length} -> <<"content", 0>>
                        [] k \in asked -> <<"figure", 0>>
                        [] OTHER -> given[k]
      BY DEF Held, Expected
    <3>3. f3[k] = IF k = subscription THEN vs
                  ELSE IF k = destination THEN topic
                  ELSE IF k = message_id THEN vi ELSE Held[k]
      BY <1>7, <1>9, <1>11
    <3>6. k \in {message_id, subscription, destination} => k \notin asked
      BY <1>2 DEF OwnSet
    <3>4. CASE k \in {message_id, subscription, destination}
      <4>1. CASE k = message_id
        <5>1. f3[k] = vi
          BY <3>3, <4>1, OwnFacts
        <5>2. Expected(k, sent)' = vi
          BY <3>1, <3>6, <4>1, OwnFacts
        <5> QED
          BY <5>1, <5>2
      <4>2. CASE k = subscription
        <5>1. f3[k] = vs
          BY <3>3, <4>2, OwnFacts
        <5>2. Expected(k, sent)' = vs
          BY <3>1, <3>6, <4>2, OwnFacts
        <5> QED
          BY <5>1, <5>2
      <4>3. CASE k = destination
        <5>1. f3[k] = topic
          BY <3>3, <4>3, OwnFacts
        <5>2. Expected(k, sent)' = topic
          BY <3>1, <3>6, <4>3, OwnFacts
        <5> QED
          BY <5>1, <5>2
      <4> QED
        BY <3>4, <4>1, <4>2, <4>3
    <3>5. CASE k \notin {message_id, subscription, destination}
      <4>1. f3[k] = Held[k]
        BY <3>3, <3>5
      <4> HIDE DEF Expected
      <4> QED
        BY <3>1, <3>2, <3>5, <4>1
    <3> QED
      BY <3>4, <3>5
  <2> QED
    BY <1>11, <2>2, <2>3
<1> QED
  BY <1>1, <1>2, <1>10, <1>12 DEF HeadersInv

LEMMA NextHeaders ==
    HeadersInv /\ [Next]_vars => HeadersInv'
<1> SUFFICES ASSUME HeadersInv, [Next]_vars PROVE HeadersInv'
  OBVIOUS
<1>1. CASE Done
  <2>1. Init'
    BY <1>1 DEF Done, Init
  <2>2. (Init => HeadersInv)'
    BY InitHeaders, PTL
  <2> QED
    BY <2>1, <2>2
<1>2. CASE UNCHANGED vars
  BY <1>2 DEF vars, HeadersInv, Held, Expected, Lines
<1> QED
  BY <1>1, <1>2, ParseStep, DistributeStep, SendStep DEF Next

(* The inductive invariant. *)
LEMMA HeadersInvHolds == Spec => []HeadersInv
BY InitHeaders, NextHeaders, PTL DEF Spec

-----------------------------------------------------------------------------
(* TreesBalanced: whatever headers a client sends, in whatever order, the  *)
(* tree of them and the copy of it stay balanced search trees.             *)
THEOREM TreesBalancedHolds == Spec => []TreesBalanced
<1>1. HeadersInv => TreesBalanced
  BY DEF HeadersInv, TreesBalanced, AVL
<1> QED
  BY <1>1, HeadersInvHolds, PTL

(* LastValueWins: aa_get and aa_has find each header with the last value   *)
(* given for it, and no other, in no more steps than the tree has levels.  *)
THEOREM LastValueWinsHolds == Spec => []LastValueWins
<1>1. ASSUME HeadersInv PROVE LastValueWins
  <2>1. SUFFICES ASSUME NEW k \in Keys
                 PROVE  LET item == aa_get(headers, k)
                        IN  /\ (item = NoItem) = (given[k] = NULL)
                            /\ (item = NoItem) = (aa_has(headers, k) = 0)
                            /\ item # NoItem =>
                                  /\ item.key = k
                                  /\ item.value = given[k]
                                  /\ aa_has(headers, k) <= headers.height
    BY DEF LastValueWins
  <2>2. /\ AVL(headers) /\ headers \in Tree /\ Items(headers) = Table(given)
        /\ given \in Headers /\ k \in Int
    BY <1>1, MessageHeadersAssumption DEF HeadersInv, AVL
  <2> DEFINE item == aa_get(headers, k)
  <2>3. \/ item = NoItem /\ \A x \in Table(given) : x[1] # k
        \/ /\ item # NoItem /\ item.key = k
           /\ <<k, item.value>> \in Table(given)
    BY <2>2, GetIs
  <2>4. /\ aa_has(headers, k) \in 0 .. headers.height
        /\ aa_has(headers, k) = 0 <=> item = NoItem
        /\ headers.height \in Nat
    BY <2>2, HasIs, TreeFits
  <2>5. given[k] # NULL => <<k, given[k]>> \in Table(given) /\ <<k, given[k]>>[1] = k
    BY DEF Table
  <2>6. \A v : <<k, v>> \in Table(given) => given[k] = v /\ given[k] # NULL
    BY DEF Table
  <2> HIDE DEF item
  <2>7. item = NoItem <=> given[k] = NULL
    BY <2>3, <2>5, <2>6
  <2>8. item # NoItem => item.key = k /\ item.value = given[k]
    BY <2>3, <2>6
  <2>9. aa_has(headers, k) <= headers.height
    BY <2>4
  <2> QED
    BY <2>4, <2>7, <2>8, <2>9 DEF item
<1>2. HeadersInv => LastValueWins
  BY <1>1
<1> QED
  BY <1>2, HeadersInvHolds, PTL

(* FrameComplete: every subscriber gets each header once, the broker's own *)
(* ones with what belongs to this subscriber and this message.             *)
THEOREM FrameCompleteHolds == Spec => []FrameComplete
<1>1. ASSUME HeadersInv PROVE FrameComplete
  <2>1. SUFFICES ASSUME sent > 0
                 PROVE  /\ \A i, j \in DOMAIN frame :
                              frame[i].key = frame[j].key => i = j
                        /\ {frame[i].key : i \in DOMAIN frame} =
                              {k \in Keys : Expected(k, sent) # NULL}
                        /\ \A i \in DOMAIN frame :
                              frame[i].value = Expected(frame[i].key, sent)
    BY DEF FrameComplete
  <2>2. /\ AVL(message_headers) /\ Items(message_headers) = Table(Held)
        /\ frame = Lines(message_headers)
    BY <1>1, <2>1 DEF HeadersInv
  <2>3. /\ frame \in Seq(Line)
        /\ \A i, j \in 1 .. Len(frame) : frame[i].key = frame[j].key => i = j
        /\ Table(Held) = {<<frame[i].key, frame[i].value>> : i \in 1 .. Len(frame)}
    BY <2>2, LinesIs
  <2>4. DOMAIN frame = 1 .. Len(frame)
    BY <2>3
  <2>5. \A k \in Keys : Held[k] = Expected(k, sent)
    BY <2>1 DEF Held
  <2>6. ASSUME NEW i \in DOMAIN frame
        PROVE  /\ frame[i].key \in Keys /\ Held[frame[i].key] # NULL
               /\ frame[i].value = Held[frame[i].key]
    <3>1. <<frame[i].key, frame[i].value>> \in Table(Held)
      BY <2>3, <2>4
    <3> QED
      BY <3>1 DEF Table
  <2>7. ASSUME NEW k \in Keys, Held[k] # NULL
        PROVE  \E i \in DOMAIN frame : frame[i].key = k
    <3>1. <<k, Held[k]>> \in Table(Held)
      BY <2>7 DEF Table
    <3> QED
      BY <2>3, <2>4, <3>1
  <2>8. {frame[i].key : i \in DOMAIN frame} =
          {k \in Keys : Expected(k, sent) # NULL}
    BY <2>5, <2>6, <2>7
  <2> QED
    BY <2>3, <2>4, <2>5, <2>6, <2>8
<1>2. HeadersInv => FrameComplete
  BY <1>1
<1> QED
  BY <1>2, HeadersInvHolds, PTL

=============================================================================
