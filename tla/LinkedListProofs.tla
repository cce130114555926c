-------------------------- MODULE LinkedListProofs --------------------------
(***************************************************************************)
(* The pointers of module LinkedList hold a list together, for any number  *)
(* of cells and data.  CellAt and Kept are recursive; what they compute is *)
(* found by induction, which SetInduction states about sets of numbers.    *)
(***************************************************************************)
EXTENDS LinkedList, DataProofs, SequenceTheorems

-----------------------------------------------------------------------------
(* Kept is what its definition says: the function it chooses exists. *)

KeptStep(f, s, d, n) ==
    IF n = 0 THEN <<>>
    ELSE IF s[n] = d THEN f[n - 1] ELSE Append(f[n - 1], s[n])

LEMMA KeptDef ==
    ASSUME NEW s \in Seq(Data), NEW d
    PROVE  \A n \in 0 .. Len(s) : Kept(s, d)[n] = KeptStep(Kept(s, d), s, d, n)
<1> DEFINE Upto(f, m) == f = [n \in 0 .. m |-> KeptStep(f, s, d, n)]
           G == {m \in Nat : \E f : Upto(f, m)}
<1>1. 0 \in G
  <2> DEFINE f == [n \in 0 .. 0 |-> <<>>]
  <2>1. Upto(f, 0)
    BY DEF KeptStep
  <2> QED
    BY <2>1
<1>2. ASSUME NEW m \in G PROVE m + 1 \in G
  <2>1. PICK f : Upto(f, m)
    OBVIOUS
  <2> DEFINE g == [n \in 0 .. m + 1 |-> IF n \in 0 .. m THEN f[n]
                                        ELSE KeptStep(f, s, d, n)]
  <2>2. ASSUME NEW n \in 0 .. m + 1
        PROVE  g[n] = KeptStep(g, s, d, n)
    <3>1. n = 0 \/ (n - 1 \in 0 .. m /\ g[n - 1] = f[n - 1])
      OBVIOUS
    <3>2. KeptStep(g, s, d, n) = KeptStep(f, s, d, n)
      BY <3>1 DEF KeptStep
    <3>3. n \in 0 .. m => f[n] = KeptStep(f, s, d, n)
      BY <2>1
    <3> QED
      BY <3>2, <3>3
  <2>3. Upto(g, m + 1)
    BY <2>2
  <2> QED
    BY <2>3
<1>3. G = Nat
  <2> HIDE DEF G
  <2>1. G \in SUBSET Nat
    BY DEF G
  <2> QED
    BY <1>1, <1>2, <2>1, SetInduction
<1>4. PICK f : Upto(f, Len(s))
  BY <1>3
<1>5. Kept(s, d) = CHOOSE g : g = [n \in 0 .. Len(s) |-> KeptStep(g, s, d, n)]
  BY DEF Kept, KeptStep
<1>6. Upto(Kept(s, d), Len(s))
  BY <1>4, <1>5
<1> QED
  BY <1>6

-----------------------------------------------------------------------------
(* The cell at place i of a list, NULL outside of it. *)
At(s, i) == IF i \in 1 .. Len(s) THEN s[i] ELSE NULL

(* The cells of s are the ones allocated, and are linked in this order. *)
IsChain(h, s) ==
    /\ s \in Seq(Cells)
    /\ \A i, j \in 1 .. Len(s) : s[i] = s[j] => i = j
    /\ DOMAIN h = {s[i] : i \in 1 .. Len(s)}
    /\ h \in [DOMAIN h -> [data : Data, next : Cells \cup {NULL}]]
    /\ \A i \in 1 .. Len(s) : h[s[i]].next = At(s, i + 1)

(* The list is s. *)
Shape(s) ==
    /\ IsChain(heap, s)
    /\ first = At(s, 1) /\ last = At(s, Len(s)) /\ size = Len(s)

DataOf(h, s) == [i \in 1 .. Len(s) |-> h[s[i]].data]

Steps == Cardinality(Cells)

LEMMA StepsType == Steps \in Nat
BY FS_CardinalityType, LinkedListAssumption DEF Steps

(* No cell is twice in a list, so that it is not longer than the memory. *)
LEMMA ChainFits ==
    ASSUME NEW h, NEW s, IsChain(h, s)
    PROVE  /\ Len(s) \in Nat /\ Len(s) <= Steps
           /\ \A i \in 1 .. Len(s) : s[i] \in Cells /\ s[i] # NULL
<1>1. s \in Seq(Cells) /\ Len(s) \in Nat
  BY DEF IsChain
<1>2. \A i \in 1 .. Len(s) : s[i] \in Cells /\ s[i] # NULL
  BY <1>1, LinkedListAssumption
<1> DEFINE I == 1 .. Len(s)
           f == [i \in I |-> s[i]]
<1>3. IsFiniteSet(I) /\ Cardinality(I) = Len(s)
  <2>1. IsFiniteSet(1 .. Len(s)) /\ Cardinality(1 .. Len(s)) =
          IF 1 > Len(s) THEN 0 ELSE Len(s) - 1 + 1
    BY <1>1, FS_Interval
  <2> QED
    BY <1>1, <2>1
<1>4. f \in Injection(I, Cells)
  <2>1. f \in [I -> Cells]
    BY <1>2
  <2>2. \A a, b \in I : f[a] = f[b] => a = b
    BY DEF IsChain
  <2> QED
    BY <2>1, <2>2 DEF Injection, IsInjective
<1>5. Cardinality(I) <= Cardinality(Cells)
  <2> HIDE DEF I, f
  <2> QED
    BY <1>4, FS_Injection, LinkedListAssumption DEF ExistsInjection
<1> QED
  BY <1>1, <1>2, <1>3, <1>5 DEF Steps

LEMMA ChainFacts ==
    ASSUME NEW h, NEW s, IsChain(h, s)
    PROVE  /\ s \in Seq(Cells) /\ Len(s) \in Nat
           /\ h \in [DOMAIN h -> [data : Data, next : Cells \cup {NULL}]]
           /\ \A i \in 1 .. Len(s) : s[i] \in Cells /\ s[i] # NULL
           /\ \A i \in 1 .. Len(s) : s[i] \in DOMAIN h
           /\ \A x \in DOMAIN h : x \in Cells /\ x # NULL
<1>1. /\ Len(s) \in Nat
      /\ \A i \in 1 .. Len(s) : s[i] \in Cells /\ s[i] # NULL
  BY ChainFits
<1>2. /\ DOMAIN h = {s[i] : i \in 1 .. Len(s)} /\ s \in Seq(Cells)
      /\ h \in [DOMAIN h -> [data : Data, next : Cells \cup {NULL}]]
  BY DEF IsChain
<1>3. \A i \in 1 .. Len(s) : s[i] \in DOMAIN h
  BY <1>2
<1>4. \A x \in DOMAIN h : x \in Cells /\ x # NULL
  BY <1>1, <1>2
<1> QED
  BY <1>1, <1>2, <1>3, <1>4

CellStep(g, h, c, n) ==
    IF n = 0 THEN c
    ELSE IF g[n - 1] \notin DOMAIN h THEN NULL
    ELSE h[g[n - 1]].next

(* Where CellAt can only lead. *)
LEMMA CellsAlong ==
    ASSUME NEW h, NEW s, IsChain(h, s), NEW g, NEW n \in Nat \ {0},
           g[n - 1] = At(s, n)
    PROVE  CellStep(g, h, At(s, 1), n) = At(s, n + 1)
<1>1. /\ Len(s) \in Nat
      /\ \A i \in 1 .. Len(s) : s[i] \in Cells /\ s[i] # NULL
  BY ChainFits
<1>2. CASE n \in 1 .. Len(s)
  <2>1. g[n - 1] = s[n] /\ s[n] \in DOMAIN h
    BY <1>2 DEF At, IsChain
  <2>2. h[s[n]].next = At(s, n + 1)
    BY <1>2 DEF IsChain
  <2> QED
    BY <2>1, <2>2 DEF CellStep
<1>3. CASE n \notin 1 .. Len(s)
  <2>1. g[n - 1] = NULL /\ NULL \notin DOMAIN h
    BY <1>1, <1>3 DEF At, IsChain
  <2>2. n + 1 \notin 1 .. Len(s)
    BY <1>1, <1>3
  <2> QED
    BY <2>1, <2>2 DEF At, CellStep
<1> QED
  BY <1>2, <1>3

LEMMA CellsUnique ==
    ASSUME NEW h, NEW s, IsChain(h, s), NEW g,
           g = [n \in 0 .. Steps |-> CellStep(g, h, At(s, 1), n)]
    PROVE  g = [n \in 0 .. Steps |-> At(s, n + 1)]
<1> DEFINE G == {n \in Nat : n \in 0 .. Steps => g[n] = At(s, n + 1)}
<1>0. \A k \in Nat \ {0} : g[k - 1] = At(s, k) =>
         CellStep(g, h, At(s, 1), k) = At(s, k + 1)
  BY ONLY IsChain(h, s), CellsAlong
<1>1. 0 \in G
  <2>1. 0 \in 0 .. Steps => g[0] = At(s, 1)
    BY DEF CellStep
  <2> QED
    BY <2>1
<1>2. ASSUME NEW n \in G PROVE n + 1 \in G
  <2> SUFFICES ASSUME n + 1 \in 0 .. Steps PROVE g[n + 1] = At(s, n + 2)
    OBVIOUS
  <2>1. g[n] = At(s, n + 1)
    BY StepsType
  <2>2. PICK k \in Nat \ {0} : k = n + 1 /\ k - 1 = n /\ k + 1 = n + 2
    OBVIOUS
  <2> HIDE DEF G
  <2>3. CellStep(g, h, At(s, 1), k) = At(s, k + 1)
    <3>1. g[k - 1] = At(s, k)
      BY <2>1, <2>2
    <3> QED
      BY ONLY <1>0, <3>1, k \in Nat \ {0}
  <2> QED
    BY <2>2, <2>3
<1>3. G = Nat
  <2> HIDE DEF G
  <2>1. G \in SUBSET Nat
    BY DEF G
  <2> QED
    BY <1>1, <1>2, <2>1, SetInduction
<1>4. ASSUME NEW n \in 0 .. Steps PROVE g[n] = At(s, n + 1)
  <2>1. n \in Nat
    BY StepsType
  <2>2. n \in G
    BY ONLY <1>3, <2>1
  <2> QED
    BY <2>2
<1> QED
  BY <1>4

LEMMA CellsExist ==
    ASSUME NEW h, NEW s, IsChain(h, s)
    PROVE  \E g : g = [n \in 0 .. Steps |-> CellStep(g, h, At(s, 1), n)]
<1> DEFINE g == [n \in 0 .. Steps |-> At(s, n + 1)]
<1>1. ASSUME NEW n \in 0 .. Steps
      PROVE  CellStep(g, h, At(s, 1), n) = At(s, n + 1)
  <2>1. CASE n = 0
    BY <2>1 DEF CellStep
  <2>2. CASE n # 0
    <3>1. n \in Nat \ {0} /\ n - 1 \in 0 .. Steps /\ (n - 1) + 1 = n
      BY <2>2, StepsType
    <3>2. g[n - 1] = At(s, n)
      BY <3>1
    <3> HIDE DEF g
    <3> QED
      BY <3>1, <3>2, CellsAlong
  <2> QED
    BY <2>1, <2>2
<1>2. g = [n \in 0 .. Steps |-> CellStep(g, h, At(s, 1), n)]
  BY <1>1
<1> QED
  BY <1>2

(* The definitions that follow the pointers find the list. *)
Found(s) ==
    /\ \A n \in 0 .. Steps : CellAt[n] = At(s, n + 1)
    /\ Length = Len(s)
    /\ Chain = s
    /\ Contents = DataOf(heap, s)

LEMMA ChainFound == \A s : Shape(s) => Found(s)
<1> SUFFICES ASSUME NEW s, Shape(s) PROVE Found(s)
  OBVIOUS
<1>0. /\ IsChain(heap, s) /\ first = At(s, 1) /\ s \in Seq(Cells)
      /\ Len(s) \in Nat /\ Len(s) <= Steps
      /\ \A i \in 1 .. Len(s) : s[i] # NULL
  BY ChainFits DEF Shape, IsChain
<1>1. CellAt = CHOOSE g : g = [n \in 0 .. Steps |-> CellStep(g, heap, first, n)]
  BY DEF CellAt, CellStep, Steps, Allocated
<1>2. \E g : g = [n \in 0 .. Steps |-> CellStep(g, heap, first, n)]
  BY <1>0, CellsExist
<1>3. CellAt = [n \in 0 .. Steps |-> CellStep(CellAt, heap, first, n)]
  BY <1>1, <1>2
<1>4. CellAt = [n \in 0 .. Steps |-> At(s, n + 1)]
  BY <1>0, <1>3, CellsUnique
<1>5. Length = Len(s)
  <2>1. {n \in DOMAIN CellAt : CellAt[n] # NULL} = 0 .. Len(s) - 1
    BY <1>0, <1>4, StepsType DEF At
  <2>2. Cardinality(0 .. Len(s) - 1) =
          IF 0 > Len(s) - 1 THEN 0 ELSE (Len(s) - 1) - 0 + 1
    BY <1>0, FS_Interval
  <2>3. Len(s) \in Nat
    BY <1>0
  <2>4. Cardinality(0 .. Len(s) - 1) = Len(s)
    BY ONLY <2>2, <2>3
  <2> QED
    BY <2>1, <2>4 DEF Length
<1>6. Chain = s
  <2>1. \A i \in 1 .. Len(s) : i - 1 \in 0 .. Steps /\ (i - 1) + 1 = i
    BY <1>0, StepsType
  <2>2. \A i \in 1 .. Len(s) : CellAt[i - 1] = s[i]
    BY <1>4, <2>1 DEF At
  <2>3. Chain = [i \in 1 .. Len(s) |-> s[i]]
    BY <1>5, <2>2 DEF Chain
  <2> QED
    BY <1>0, <2>3
<1> QED
  BY <1>4, <1>5, <1>6 DEF Found, Contents, DataOf

LEMMA ChainFoundNext == \A s : Shape(s)' => Found(s)'
<1>1. (\A s : Shape(s) => Found(s))'
  BY ChainFound, PTL
<1> QED
  BY <1>1

-----------------------------------------------------------------------------
(* What the operations do to a list, and to the data in it. *)

(* s without place k, and with c in front. *)
Drop(s, k) == [i \in 1 .. Len(s) - 1 |-> IF i < k THEN s[i] ELSE s[i + 1]]
Before(c, s) == [i \in 1 .. Len(s) + 1 |-> IF i = 1 THEN c ELSE s[i - 1]]

LEMMA DropIs ==
    ASSUME NEW S, NEW s \in Seq(S), NEW k \in 1 .. Len(s)
    PROVE  /\ Drop(s, k) \in Seq(S) /\ Len(Drop(s, k)) = Len(s) - 1
           /\ SubSeq(s, 1, k - 1) \o SubSeq(s, k + 1, Len(s)) = Drop(s, k)
<1>1. Len(s) \in Nat /\ Len(s) - 1 \in Nat
  OBVIOUS
<1>2. \A i \in 1 .. Len(s) - 1 : Drop(s, k)[i] \in S
  BY <1>1 DEF Drop
<1>3. Drop(s, k) \in Seq(S) /\ Len(Drop(s, k)) = Len(s) - 1
  BY <1>1, <1>2 DEF Drop
<1>4. /\ SubSeq(s, 1, k - 1) \in Seq(S) /\ Len(SubSeq(s, 1, k - 1)) = k - 1
      /\ \A i \in 1 .. k - 1 : SubSeq(s, 1, k - 1)[i] = s[i]
  BY <1>1
<1>5. /\ SubSeq(s, k + 1, Len(s)) \in Seq(S)
      /\ Len(SubSeq(s, k + 1, Len(s))) = Len(s) - k
      /\ \A i \in 1 .. Len(s) - k : SubSeq(s, k + 1, Len(s))[i] = s[k + i]
  BY <1>1
<1>6. PICK a, b : a = SubSeq(s, 1, k - 1) /\ b = SubSeq(s, k + 1, Len(s))
  OBVIOUS
<1>7. /\ a \o b \in Seq(S) /\ Len(a \o b) = Len(s) - 1
      /\ \A i \in 1 .. Len(s) - 1 :
            (a \o b)[i] = IF i < k THEN s[i] ELSE s[i + 1]
  <2>1. a \in Seq(S) /\ b \in Seq(S) /\ Len(a) = k - 1 /\ Len(b) = Len(s) - k
    BY <1>4, <1>5, <1>6
  <2>2. /\ a \o b \in Seq(S) /\ Len(a \o b) = Len(a) + Len(b)
        /\ \A i \in 1 .. Len(a) + Len(b) :
              (a \o b)[i] = IF i <= Len(a) THEN a[i] ELSE b[i - Len(a)]
    BY <2>1, ConcatProperties
  <2>3. Len(a) + Len(b) = Len(s) - 1
    BY <1>1, <2>1
  <2>4. ASSUME NEW i \in 1 .. Len(s) - 1
        PROVE  (a \o b)[i] = IF i < k THEN s[i] ELSE s[i + 1]
    <3>1. (a \o b)[i] = IF i <= k - 1 THEN a[i] ELSE b[i - (k - 1)]
      BY <2>1, <2>2, <2>3
    <3>2. CASE i < k
      <4>1. i \in 1 .. k - 1 /\ i <= k - 1
        BY <1>1, <3>2
      <4>2. a[i] = s[i]
        BY <1>4, <1>6, <4>1
      <4> QED
        BY <3>1, <3>2, <4>1, <4>2
    <3>3. CASE ~(i < k)
      <4>1. /\ i - (k - 1) \in 1 .. Len(s) - k /\ k + (i - (k - 1)) = i + 1
            /\ ~(i <= k - 1)
        BY <1>1, <3>3
      <4>2. b[i - (k - 1)] = s[k + (i - (k - 1))]
        BY <1>5, <1>6, <4>1
      <4> QED
        BY <3>1, <3>3, <4>1, <4>2
    <3> QED
      BY <3>2, <3>3
  <2> QED
    BY <2>2, <2>3, <2>4
<1>8. PICK w \in Seq(S) : w = a \o b
  BY <1>7
<1>9. w = [i \in 1 .. Len(s) - 1 |-> w[i]]
  <2>1. w = [i \in 1 .. Len(w) |-> w[i]]
    BY ONLY w \in Seq(S)
  <2>2. Len(w) = Len(s) - 1
    BY <1>7, <1>8
  <2> QED
    BY ONLY <2>1, <2>2
<1>10. w = Drop(s, k)
  BY <1>7, <1>8, <1>9 DEF Drop
<1> QED
  BY <1>3, <1>6, <1>8, <1>10

LEMMA BeforeIs ==
    ASSUME NEW S, NEW s \in Seq(S), NEW c \in S
    PROVE  /\ Before(c, s) \in Seq(S) /\ Len(Before(c, s)) = Len(s) + 1
           /\ <<c>> \o s = Before(c, s)
<1>1. Len(s) \in Nat
  OBVIOUS
<1>2. \A i \in 1 .. Len(s) + 1 : Before(c, s)[i] \in S
  BY <1>1 DEF Before
<1>3. Before(c, s) \in Seq(S) /\ Len(Before(c, s)) = Len(s) + 1
  BY <1>1, <1>2 DEF Before
<1>4. /\ <<c>> \in Seq(S) /\ Len(<<c>>) = 1 /\ <<c>>[1] = c
  OBVIOUS
<1>5. /\ <<c>> \o s \in Seq(S) /\ Len(<<c>> \o s) = 1 + Len(s)
      /\ \A i \in 1 .. 1 + Len(s) :
            (<<c>> \o s)[i] = IF i <= 1 THEN <<c>>[i] ELSE s[i - 1]
  BY <1>4, ConcatProperties
<1>6. ASSUME NEW i \in 1 .. Len(s) + 1
      PROVE  (<<c>> \o s)[i] = IF i = 1 THEN c ELSE s[i - 1]
  BY <1>1, <1>4, <1>5
<1>7. <<c>> \o s = [i \in 1 .. Len(s) + 1 |-> (<<c>> \o s)[i]]
  BY <1>1, <1>5
<1>8. <<c>> \o s = Before(c, s)
  BY <1>6, <1>7 DEF Before
<1> QED
  BY <1>3, <1>8

(* h is the memory with cell d added to it, c being the last cell so far. *)
Added(h, h2, cell, d, next, c) ==
    /\ h2 \in [DOMAIN h \cup {cell} -> [data : Data, next : Cells \cup {NULL}]]
    /\ h2[cell] = [data |-> d, next |-> next]
    /\ \A x \in DOMAIN h :
          /\ x # c => h2[x] = h[x]
          /\ x = c => h2[x].data = h[x].data /\ h2[x].next = cell

LEMMA AddedBehind ==
    ASSUME NEW h, NEW s, IsChain(h, s), NEW cell \in Cells \ DOMAIN h,
           NEW d \in Data, NEW h2, Added(h, h2, cell, d, NULL, At(s, Len(s)))
    PROVE  /\ IsChain(h2, Append(s, cell))
           /\ DataOf(h2, Append(s, cell)) = Append(DataOf(h, s), d)
<1>1. /\ s \in Seq(Cells) /\ Len(s) \in Nat
      /\ \A i \in 1 .. Len(s) : s[i] \in Cells /\ s[i] # NULL /\ s[i] \in DOMAIN h
      /\ DOMAIN h = {s[i] : i \in 1 .. Len(s)}
      /\ \A i, j \in 1 .. Len(s) : s[i] = s[j] => i = j
      /\ h \in [DOMAIN h -> [data : Data, next : Cells \cup {NULL}]]
      /\ \A i \in 1 .. Len(s) : h[s[i]].next = At(s, i + 1)
  BY ChainFits DEF IsChain
<1>2. PICK n, t : n = Len(s) /\ t = Append(s, cell)
  OBVIOUS
<1>3. /\ t \in Seq(Cells) /\ Len(t) = n + 1 /\ t[n + 1] = cell
      /\ \A i \in 1 .. n : t[i] = s[i]
  BY <1>1, <1>2, AppendProperties
<1>4. \A i \in 1 .. n + 1 : i \in 1 .. n \/ i = n + 1
  BY <1>1, <1>2
<1>5. \A i, j \in 1 .. Len(t) : t[i] = t[j] => i = j
  BY <1>1, <1>2, <1>3, <1>4
<1>6. DOMAIN h2 = {t[i] : i \in 1 .. Len(t)}
  <2>1. DOMAIN h2 = DOMAIN h \cup {cell}
    BY DEF Added
  <2>2. \A i \in 1 .. n : i \in 1 .. n + 1
    BY <1>1, <1>2
  <2>3. n + 1 \in 1 .. n + 1
    BY <1>1, <1>2
  <2> QED
    BY <1>1, <1>2, <1>3, <1>4, <2>1, <2>2, <2>3
<1>7. ASSUME NEW i \in 1 .. Len(t) PROVE h2[t[i]].next = At(t, i + 1)
  <2>1. CASE i = n + 1
    <3>1. At(t, i + 1) = NULL
      BY <1>1, <1>2, <1>3, <2>1 DEF At
    <3> QED
      BY <1>3, <2>1, <3>1 DEF Added
  <2>2. CASE i = n /\ i \in 1 .. n
    <3>1. At(s, Len(s)) = s[i] /\ At(t, i + 1) = cell
      BY <1>1, <1>2, <1>3, <2>2 DEF At
    <3>2. t[i] = s[i] /\ s[i] \in DOMAIN h
      BY <1>1, <1>2, <1>3, <2>2
    <3>3. \A x \in DOMAIN h : x = At(s, Len(s)) => h2[x].next = cell
      BY DEF Added
    <3> QED
      BY ONLY <3>1, <3>2, <3>3
  <2>3. CASE i # n /\ i \in 1 .. n
    <3>1. i + 1 \in 1 .. n /\ i + 1 \in 1 .. n + 1 /\ n \in 1 .. n
      BY <1>1, <1>2, <2>3
    <3>2. At(s, Len(s)) = s[n] /\ s[n] # s[i]
      BY <1>1, <1>2, <2>3, <3>1 DEF At
    <3>3. h2[t[i]] = h[s[i]]
      BY <1>1, <1>2, <1>3, <2>3, <3>2 DEF Added
    <3>4. At(t, i + 1) = At(s, i + 1)
      BY <1>2, <1>3, <3>1 DEF At
    <3> QED
      BY <1>1, <1>2, <2>3, <3>3, <3>4
  <2> QED
    BY <1>3, <1>4, <2>1, <2>2, <2>3
<1>8. IsChain(h2, t)
  <2>1. h2 \in [DOMAIN h2 -> [data : Data, next : Cells \cup {NULL}]]
    BY DEF Added
  <2> QED
    BY <1>3, <1>5, <1>6, <1>7, <2>1 DEF IsChain
<1>9. DataOf(h2, t) = Append(DataOf(h, s), d)
  <2>1. PICK u : u = DataOf(h, s)
    OBVIOUS
  <2>2. u \in Seq(Data) /\ Len(u) = n /\ \A i \in 1 .. n : u[i] = h[s[i]].data
    BY <1>1, <1>2, <2>1 DEF DataOf
  <2>3. PICK v \in Seq(Data) : v = Append(u, d)
    BY <2>2, AppendProperties
  <2>4. /\ Len(v) = n + 1 /\ v[n + 1] = d
        /\ \A i \in 1 .. n : v[i] = u[i]
    BY <2>2, <2>3, AppendProperties
  <2>5. ASSUME NEW i \in 1 .. n PROVE h2[t[i]].data = u[i]
    <3>1. t[i] = s[i] /\ s[i] \in DOMAIN h /\ u[i] = h[s[i]].data
      BY <1>1, <1>2, <1>3, <2>2
    <3>2. h2[s[i]].data = h[s[i]].data
      BY <3>1 DEF Added
    <3> QED
      BY <3>1, <3>2
  <2>6. h2[t[n + 1]].data = d
    BY <1>3 DEF Added
  <2>7. v = [i \in 1 .. Len(v) |-> v[i]]
    OBVIOUS
  <2>8. \A i \in 1 .. n + 1 : v[i] = h2[t[i]].data
    BY <1>4, <2>4, <2>5, <2>6
  <2>9. v = DataOf(h2, t)
    BY <1>3, <2>4, <2>7, <2>8 DEF DataOf
  <2> QED
    BY <2>1, <2>3, <2>9
<1> QED
  BY <1>2, <1>8, <1>9

LEMMA AddedBefore ==
    ASSUME NEW h, NEW s, IsChain(h, s), NEW cell \in Cells \ DOMAIN h,
           NEW d \in Data, NEW h2, Added(h, h2, cell, d, At(s, 1), NULL)
    PROVE  /\ IsChain(h2, Before(cell, s))
           /\ DataOf(h2, Before(cell, s)) = Before(d, DataOf(h, s))
<1>1. /\ s \in Seq(Cells) /\ Len(s) \in Nat
      /\ \A i \in 1 .. Len(s) : s[i] \in Cells /\ s[i] # NULL /\ s[i] \in DOMAIN h
      /\ DOMAIN h = {s[i] : i \in 1 .. Len(s)}
      /\ \A i, j \in 1 .. Len(s) : s[i] = s[j] => i = j
      /\ h \in [DOMAIN h -> [data : Data, next : Cells \cup {NULL}]]
      /\ \A i \in 1 .. Len(s) : h[s[i]].next = At(s, i + 1)
  BY ChainFits DEF IsChain
<1>2. PICK n, t : n = Len(s) /\ t = Before(cell, s)
  OBVIOUS
<1>3. t \in Seq(Cells) /\ Len(t) = n + 1 /\ n \in Nat
  BY <1>1, <1>2, BeforeIs
<1>4. \A i \in 1 .. n + 1 : i = 1 \/ i - 1 \in 1 .. n
  BY <1>3
<1>5. t[1] = cell /\ \A i \in 1 .. n + 1 : i # 1 => t[i] = s[i - 1]
  BY <1>2, <1>3 DEF Before
<1>6. \A x \in DOMAIN h : x # NULL
  BY <1>1
<1>7. \A i, j \in 1 .. Len(t) : t[i] = t[j] => i = j
  <2> SUFFICES ASSUME NEW i \in 1 .. n + 1, NEW j \in 1 .. n + 1, t[i] = t[j]
               PROVE  i = j
    BY <1>3
  <2>1. CASE i = 1 /\ j = 1
    BY <2>1
  <2>2. CASE i = 1 /\ j # 1
    BY <1>1, <1>2, <1>4, <1>5, <2>2
  <2>3. CASE i # 1 /\ j = 1
    BY <1>1, <1>2, <1>4, <1>5, <2>3
  <2>4. CASE i # 1 /\ j # 1
    <3>1. i - 1 = j - 1
      BY <1>1, <1>2, <1>4, <1>5, <2>4
    <3> QED
      BY <1>3, <3>1
  <2> QED
    BY <2>1, <2>2, <2>3, <2>4
<1>8. DOMAIN h2 = {t[i] : i \in 1 .. Len(t)}
  <2>1. DOMAIN h2 = DOMAIN h \cup {cell}
    BY DEF Added
  <2>2. \A i \in 1 .. n : i + 1 \in 1 .. n + 1 /\ t[i + 1] = s[i]
    <3> SUFFICES ASSUME NEW i \in 1 .. n
                 PROVE  i + 1 \in 1 .. n + 1 /\ t[i + 1] = s[i]
      OBVIOUS
    <3>1. i + 1 \in 1 .. n + 1 /\ i + 1 # 1 /\ (i + 1) - 1 = i
      BY <1>3
    <3> QED
      BY <1>5, <3>1
  <2>3. 1 \in 1 .. n + 1
    BY <1>3
  <2>4. ASSUME NEW x \in DOMAIN h2 PROVE x \in {t[i] : i \in 1 .. Len(t)}
    BY <1>1, <1>2, <1>3, <1>5, <2>1, <2>2, <2>3
  <2>5. ASSUME NEW i \in 1 .. n + 1 PROVE t[i] \in DOMAIN h2
    BY <1>1, <1>2, <1>4, <1>5, <2>1
  <2> QED
    BY <1>3, <2>4, <2>5
<1>9. ASSUME NEW i \in 1 .. Len(t) PROVE h2[t[i]].next = At(t, i + 1)
  <2>1. CASE i = 1
    <3>1. At(t, 2) = At(s, 1)
      <4>1. (2 \in 1 .. n + 1) = (1 \in 1 .. n)
        BY <1>3
      <4> QED
        BY <1>2, <1>3, <1>5, <4>1 DEF At
    <3> QED
      BY <1>5, <2>1, <3>1 DEF Added
  <2>2. CASE i # 1
    <3>1. PICK j \in 1 .. n : j = i - 1 /\ j + 1 = i
      BY <1>3, <1>4, <2>2
    <3>2. h2[t[i]] = h[s[j]]
      BY <1>1, <1>2, <1>3, <1>5, <1>6, <2>2, <3>1 DEF Added
    <3>3. (i + 1 \in 1 .. n + 1) = (j + 1 \in 1 .. n) /\ i + 1 # 1
          /\ (i + 1) - 1 = j + 1
      BY <1>3, <3>1
    <3>4. At(t, i + 1) = At(s, j + 1)
      BY <1>2, <1>3, <1>5, <3>3 DEF At
    <3> QED
      BY <1>1, <1>2, <3>1, <3>2, <3>4
  <2> QED
    BY <2>1, <2>2
<1>10. IsChain(h2, t)
  <2>1. h2 \in [DOMAIN h2 -> [data : Data, next : Cells \cup {NULL}]]
    BY DEF Added
  <2> QED
    BY <1>3, <1>7, <1>8, <1>9, <2>1 DEF IsChain
<1>11. DataOf(h2, t) = Before(d, DataOf(h, s))
  <2>1. Len(DataOf(h, s)) = n /\ \A i \in 1 .. n : DataOf(h, s)[i] = h[s[i]].data
    BY <1>1, <1>2 DEF DataOf
  <2>2. ASSUME NEW i \in 1 .. n + 1
        PROVE  h2[t[i]].data = IF i = 1 THEN d ELSE DataOf(h, s)[i - 1]
    <3>1. CASE i = 1
      BY <1>5, <3>1 DEF Added
    <3>2. CASE i # 1
      <4>1. i - 1 \in 1 .. n /\ t[i] = s[i - 1]
        BY <1>4, <1>5, <3>2
      <4>2. h2[t[i]] = h[s[i - 1]]
        BY <1>1, <1>2, <1>6, <4>1 DEF Added
      <4> QED
        BY <2>1, <3>2, <4>1, <4>2
    <3> QED
      BY <3>1, <3>2
  <2> QED
    BY <1>3, <2>1, <2>2 DEF DataOf, Before
<1> QED
  BY <1>2, <1>10, <1>11

LEMMA AtDrop ==
    ASSUME NEW S, NEW s \in Seq(S), NEW k \in 1 .. Len(s), NEW i \in Nat
    PROVE  At(Drop(s, k), i) = IF i < k THEN At(s, i) ELSE At(s, i + 1)
<1>1. Len(Drop(s, k)) = Len(s) - 1 /\ Len(s) \in Nat
  <2>1. Len(Drop(s, k)) = Len(s) - 1
    BY DropIs
  <2> QED
    BY <2>1
<1>2. CASE i \in 1 .. Len(s) - 1
  <2>1. Drop(s, k)[i] = IF i < k THEN s[i] ELSE s[i + 1]
    BY <1>2 DEF Drop
  <2>2. i \in 1 .. Len(s) /\ i + 1 \in 1 .. Len(s)
    BY <1>1, <1>2
  <2> QED
    BY <1>1, <1>2, <2>1, <2>2 DEF At
<1>3. CASE i \notin 1 .. Len(s) - 1
  <2>1. i + 1 \notin 1 .. Len(s) \/ i < k
    BY <1>1, <1>3
  <2>2. i < k => i \notin 1 .. Len(s)
    BY <1>1, <1>3
  <2>3. ~(i < k) => i + 1 \notin 1 .. Len(s)
    BY <2>1
  <2> QED
    BY <1>1, <1>3, <2>2, <2>3 DEF At
<1> QED
  BY <1>2, <1>3

Unchained(h, p, c) ==
    [x \in DOMAIN h \ {c} |-> IF x = p THEN [h[x] EXCEPT !.next = h[c].next]
                              ELSE h[x]]

LEMMA UnchainedAt ==
    ASSUME NEW h, NEW s, IsChain(h, s), NEW k \in 1 .. Len(s), NEW h2,
           h2 = Unchained(h, At(s, k - 1), s[k])
    PROVE  /\ IsChain(h2, Drop(s, k))
           /\ DataOf(h2, Drop(s, k)) = Drop(DataOf(h, s), k)
<1>1. /\ s \in Seq(Cells) /\ Len(s) \in Nat
      /\ \A i \in 1 .. Len(s) : s[i] \in Cells /\ s[i] # NULL /\ s[i] \in DOMAIN h
      /\ DOMAIN h = {s[i] : i \in 1 .. Len(s)}
      /\ \A i, j \in 1 .. Len(s) : s[i] = s[j] => i = j
      /\ h \in [DOMAIN h -> [data : Data, next : Cells \cup {NULL}]]
      /\ \A i \in 1 .. Len(s) : h[s[i]].next = At(s, i + 1)
  BY ChainFits DEF IsChain
<1>2. PICK n, t : n = Len(s) /\ t = Drop(s, k)
  OBVIOUS
<1>3. t \in Seq(Cells) /\ Len(t) = n - 1 /\ n \in Nat /\ k \in 1 .. n
  BY <1>1, <1>2, DropIs
<1>4. \A i \in 1 .. n - 1 : t[i] = IF i < k THEN s[i] ELSE s[i + 1]
  BY <1>2, <1>3 DEF Drop
<1>5. \A i \in 1 .. n - 1 :
         \E j \in 1 .. n : j # k /\ j = (IF i < k THEN i ELSE i + 1) /\ t[i] = s[j]
  <2> SUFFICES ASSUME NEW i \in 1 .. n - 1
               PROVE  \E j \in 1 .. n : /\ j # k
                                        /\ j = (IF i < k THEN i ELSE i + 1)
                                        /\ t[i] = s[j]
    OBVIOUS
  <2>1. CASE i < k
    <3>1. i \in 1 .. n /\ i # k
      BY <1>3, <2>1
    <3> QED
      BY <1>4, <2>1, <3>1
  <2>2. CASE ~(i < k)
    <3>1. i + 1 \in 1 .. n /\ i + 1 # k
      BY <1>3, <2>2
    <3> QED
      BY <1>4, <2>2, <3>1
  <2> QED
    BY <2>1, <2>2
<1>6. \A i, j \in 1 .. Len(t) : t[i] = t[j] => i = j
  <2> SUFFICES ASSUME NEW i \in 1 .. n - 1, NEW j \in 1 .. n - 1, t[i] = t[j]
               PROVE  i = j
    BY <1>3
  <2>1. PICK a \in 1 .. n : a = (IF i < k THEN i ELSE i + 1) /\ t[i] = s[a]
    BY <1>5
  <2>2. PICK b \in 1 .. n : b = (IF j < k THEN j ELSE j + 1) /\ t[j] = s[b]
    BY <1>5
  <2>3. a = b
    BY <1>1, <1>2, <2>1, <2>2
  <2>4. /\ (i < k /\ a = i) \/ (~(i < k) /\ a = i + 1)
        /\ (j < k /\ b = j) \/ (~(j < k) /\ b = j + 1)
        /\ i \in Int /\ j \in Int /\ k \in Int /\ a \in Int /\ b \in Int
    BY <1>3, <2>1, <2>2
  <2> QED
    BY ONLY <2>3, <2>4
<1>7. DOMAIN h2 = DOMAIN h \ {s[k]}
  BY DEF Unchained
<1>8. DOMAIN h2 = {t[i] : i \in 1 .. Len(t)}
  <2>1. ASSUME NEW i \in 1 .. n - 1 PROVE t[i] \in DOMAIN h2
    <3>1. PICK j \in 1 .. n : j # k /\ t[i] = s[j]
      BY <1>5
    <3> QED
      BY <1>1, <1>2, <1>3, <1>7, <3>1
  <2>2. ASSUME NEW x \in DOMAIN h2 PROVE \E i \in 1 .. n - 1 : t[i] = x
    <3>1. PICK j \in 1 .. n : x = s[j] /\ j # k
      BY <1>1, <1>2, <1>7
    <3>2. CASE j < k
      <4>1. j \in 1 .. n - 1
        BY <1>3, <3>2
      <4> QED
        BY <1>4, <3>1, <3>2, <4>1
    <3>3. CASE ~(j < k)
      <4>1. j - 1 \in 1 .. n - 1 /\ ~(j - 1 < k) /\ (j - 1) + 1 = j
        BY <1>3, <3>1, <3>3
      <4> QED
        BY <1>4, <3>1, <4>1
    <3> QED
      BY <3>2, <3>3
  <2> QED
    BY <1>3, <2>1, <2>2
<1>9. \A x \in DOMAIN h2 :
         /\ h2[x].data = h[x].data
         /\ x # At(s, k - 1) => h2[x].next = h[x].next
         /\ x = At(s, k - 1) => h2[x].next = At(s, k + 1)
  <2> SUFFICES ASSUME NEW x \in DOMAIN h2
               PROVE  /\ h2[x].data = h[x].data
                      /\ x # At(s, k - 1) => h2[x].next = h[x].next
                      /\ x = At(s, k - 1) => h2[x].next = At(s, k + 1)
    OBVIOUS
  <2>1. x \in DOMAIN h /\ h[x] \in [data : Data, next : Cells \cup {NULL}]
    BY <1>1, <1>7
  <2>2. h[s[k]].next = At(s, k + 1)
    BY <1>1
  <2>3. h2[x] = IF x = At(s, k - 1) THEN [h[x] EXCEPT !.next = h[s[k]].next]
                ELSE h[x]
    BY <1>7 DEF Unchained
  <2> QED
    BY <2>1, <2>2, <2>3
<1>10. ASSUME NEW i \in 1 .. Len(t) PROVE h2[t[i]].next = At(t, i + 1)
  <2>1. PICK j \in 1 .. n :
          j # k /\ j = (IF i < k THEN i ELSE i + 1) /\ t[i] = s[j]
    BY <1>3, <1>5
  <2>2. i \in 1 .. n - 1 /\ i + 1 \in Nat
    BY <1>3
  <2>3. At(t, i + 1) = IF i + 1 < k THEN At(s, i + 1) ELSE At(s, (i + 1) + 1)
    BY <1>1, <1>2, <2>2, AtDrop
  <2>4. t[i] \in DOMAIN h2
    BY <1>8
  <2>5. h[s[j]].next = At(s, j + 1)
    BY <1>1, <1>2
  <2>6. CASE j = k - 1
    <3>1. At(s, k - 1) = s[j]
      BY <1>2, <2>6 DEF At
    <3>2. ~(i + 1 < k) /\ (i + 1) + 1 = k + 1
      <4>1. i \in Int /\ k \in Int /\ j = (IF i < k THEN i ELSE i + 1)
        BY <1>3, <2>1
      <4> QED
        BY ONLY <4>1, <2>6
    <3> QED
      BY <1>9, <2>1, <2>3, <2>4, <3>1, <3>2
  <2>7. CASE j # k - 1
    <3>1. At(s, k - 1) # s[j]
      BY <1>1, <1>2, <1>3, <2>7 DEF At
    <3>2. (i + 1 < k /\ j + 1 = i + 1) \/ (~(i + 1 < k) /\ j + 1 = (i + 1) + 1)
      <4>1. i \in Int /\ k \in Int /\ j = (IF i < k THEN i ELSE i + 1)
        BY <1>3, <2>1
      <4> QED
        BY ONLY <4>1, <2>7
    <3> QED
      BY <1>9, <2>1, <2>3, <2>4, <2>5, <3>1, <3>2
  <2> QED
    BY <2>6, <2>7
<1>11. IsChain(h2, t)
  <2>1. \A x \in DOMAIN h2 : h2[x] \in [data : Data, next : Cells \cup {NULL}]
    <3> SUFFICES ASSUME NEW x \in DOMAIN h2
                 PROVE  h2[x] \in [data : Data, next : Cells \cup {NULL}]
      OBVIOUS
    <3>1. /\ x \in DOMAIN h /\ h[x] \in [data : Data, next : Cells \cup {NULL}]
          /\ h[s[k]] \in [data : Data, next : Cells \cup {NULL}]
      BY <1>1, <1>7
    <3>2. h2[x] = IF x = At(s, k - 1) THEN [h[x] EXCEPT !.next = h[s[k]].next]
                  ELSE h[x]
      BY <1>7 DEF Unchained
    <3> QED
      BY <3>1, <3>2
  <2>2. h2 \in [DOMAIN h2 -> [data : Data, next : Cells \cup {NULL}]]
    BY <2>1 DEF Unchained
  <2> QED
    BY <1>3, <1>6, <1>8, <1>10, <2>2 DEF IsChain
<1>12. DataOf(h2, t) = Drop(DataOf(h, s), k)
  <2>1. Len(DataOf(h, s)) = n /\ \A i \in 1 .. n : DataOf(h, s)[i] = h[s[i]].data
    BY <1>1, <1>2 DEF DataOf
  <2>2. ASSUME NEW i \in 1 .. n - 1
        PROVE  h2[t[i]].data =
                 IF i < k THEN DataOf(h, s)[i] ELSE DataOf(h, s)[i + 1]
    <3>1. PICK j \in 1 .. n : j = (IF i < k THEN i ELSE i + 1) /\ t[i] = s[j]
      BY <1>5
    <3>2. h2[t[i]].data = h[s[j]].data
      BY <1>3, <1>8, <1>9, <3>1
    <3> QED
      BY <2>1, <3>1, <3>2
  <2> QED
    BY <1>3, <2>1, <2>2 DEF DataOf, Drop
<1> QED
  BY <1>2, <1>11, <1>12

-----------------------------------------------------------------------------
(* A loop that started with the data b has looked at m of them and kept k. *)
Walking(s, k, m, b, d) ==
    /\ k \in 0 .. Len(s) /\ b \in Seq(Data) /\ m \in 0 .. Len(b)
    /\ walk = [on |-> TRUE, p |-> At(s, k), c |-> At(s, k + 1), match |-> d,
               before |-> b]
    /\ Len(s) - k = Len(b) - m
    /\ \A i \in 1 .. Len(b) - m : DataOf(heap, s)[k + i] = b[m + i]
    /\ Kept(b, d)[m] = [i \in 1 .. k |-> DataOf(heap, s)[i]]

(* The inductive invariant: some sequence of cells is the list, and a loop *)
(* is somewhere along it.                                                  *)
Inv ==
    \E s : /\ Shape(s)
           /\ walk = Idle \/ \E k, m, b, d : Walking(s, k, m, b, d)

(* What a step comes to: the list stays one, and its data changes as the   *)
(* abstract list allows.                                                   *)
Sound == Inv' /\ (Abstract!Next \/ (Contents' = Contents /\ did' = did))

LEMMA DataOfType ==
    ASSUME NEW h, NEW s, IsChain(h, s)
    PROVE  /\ s \in Seq(Cells) /\ Len(s) \in Nat
           /\ DataOf(h, s) \in Seq(Data) /\ Len(DataOf(h, s)) = Len(s)
<1>1. /\ s \in Seq(Cells) /\ Len(s) \in Nat
      /\ \A i \in 1 .. Len(s) : s[i] \in DOMAIN h /\ h[s[i]].data \in Data
  BY DEF IsChain
<1> QED
  BY <1>1 DEF DataOf

LEMMA InitInv == Init => Inv /\ Abstract!Init
<1> SUFFICES ASSUME Init PROVE Inv /\ Abstract!Init
  OBVIOUS
<1>1. /\ heap = [c \in {} |-> NULL] /\ first = NULL /\ last = NULL /\ size = 0
      /\ walk = Idle
  BY DEF Init
<1>2. <<>> \in Seq(Cells) /\ Len(<<>>) = 0 /\ \A i : At(<<>>, i) = NULL
  BY DEF At
<1>3. DOMAIN heap = {} /\ heap \in [{} -> [data : Data, next : Cells \cup {NULL}]]
  BY <1>1
<1>4. IsChain(heap, <<>>)
  BY <1>2, <1>3 DEF IsChain
<1>5. Shape(<<>>)
  BY <1>1, <1>2, <1>4 DEF Shape
<1>6. Contents = DataOf(heap, <<>>)
  BY <1>5, ChainFound DEF Found
<1>7. DataOf(heap, <<>>) = <<>>
  BY <1>2 DEF DataOf
<1>8. did = [op |-> "none"]
  BY DEF Init
<1> QED
  BY <1>1, <1>5, <1>6, <1>7, <1>8 DEF Inv, Abstract!Init

(* A step outside of a loop that makes the list s the list t. *)
LEMMA Becomes ==
    ASSUME NEW s, Shape(s), NEW t, Shape(t)', walk' = Idle, Abstract!Next
    PROVE  Sound
<1>1. Inv'
  BY DEF Inv
<1> QED
  BY <1>1 DEF Sound

(* The data before and after a step. *)
LEMMA ContentsStep ==
    ASSUME NEW s, Shape(s), NEW t, Shape(t)'
    PROVE  Contents = DataOf(heap, s) /\ Contents' = DataOf(heap', t)
<1>1. Contents = DataOf(heap, s)
  BY ChainFound DEF Found
<1>2. Contents' = DataOf(heap', t)
  BY ChainFoundNext DEF Found
<1> QED
  BY <1>1, <1>2

(* What list_add and enqueue have in common. *)
LEMMA BehindStep ==
    ASSUME NEW s, Shape(s), NEW d \in Data, NEW cell \in Cells \ Allocated,
           heap' = IF s = <<>> THEN Create(cell, d, NULL)
                   ELSE CreateBehind(cell, d),
           first' = IF s = <<>> THEN cell ELSE first,
           last' = cell, size' = Len(s) + 1, walk' = Idle,
           \/ did' = [op |-> "list_add", data |-> d]
           \/ did' = [op |-> "enqueue", data |-> d]
    PROVE  Sound
<1>0. /\ IsChain(heap, s) /\ first = At(s, 1) /\ last = At(s, Len(s))
      /\ cell \in Cells \ DOMAIN heap
  BY DEF Shape, Allocated
<1>1. /\ IsChain(heap, s) /\ first = At(s, 1) /\ last = At(s, Len(s))
      /\ s \in Seq(Cells) /\ Len(s) \in Nat
      /\ heap \in [DOMAIN heap -> [data : Data, next : Cells \cup {NULL}]]
      /\ \A i \in 1 .. Len(s) : s[i] \in DOMAIN heap
      /\ \A x \in DOMAIN heap : x \in Cells /\ x # NULL
      /\ cell \in Cells \ DOMAIN heap
  BY <1>0, ChainFacts
<1>2. PICK h2 : h2 = heap'
  OBVIOUS
<1>3. Added(heap, h2, cell, d, NULL, At(s, Len(s)))
  <2>1. CASE s = <<>>
    <3>1. At(s, Len(s)) = NULL
      BY <2>1 DEF At
    <3> QED
      BY <1>1, <1>2, <2>1, <3>1 DEF Added, Create, Allocated
  <2>2. CASE s # <<>>
    <3>1. Len(s) \in 1 .. Len(s) /\ last \in DOMAIN heap
      BY <1>1, <2>2 DEF At
    <3>2. h2 = [Create(cell, d, NULL) EXCEPT ![last].next = cell]
      BY <1>2, <2>2 DEF CreateBehind
    <3>3. PICK h1 : h1 = Create(cell, d, NULL)
      OBVIOUS
    <3>4. /\ h1 \in [DOMAIN heap \cup {cell} ->
                       [data : Data, next : Cells \cup {NULL}]]
          /\ h1[cell] = [data |-> d, next |-> NULL]
          /\ \A x \in DOMAIN heap : h1[x] = heap[x]
      BY <1>1, <3>3 DEF Create, Allocated
    <3>5. /\ h2 \in [DOMAIN heap \cup {cell} ->
                       [data : Data, next : Cells \cup {NULL}]]
          /\ h2[cell] = h1[cell]
          /\ \A x \in DOMAIN heap : x # last => h2[x] = h1[x]
          /\ h2[last] = [h1[last] EXCEPT !.next = cell]
      BY <1>1, <3>1, <3>2, <3>3, <3>4
    <3>6. h1[last] \in [data : Data, next : Cells \cup {NULL}]
      BY <3>1, <3>4
    <3>7. h2[last].data = heap[last].data /\ h2[last].next = cell
      BY <3>1, <3>4, <3>5, <3>6
    <3> QED
      BY <1>1, <3>4, <3>5, <3>7 DEF Added
  <2> QED
    BY <2>1, <2>2
<1>4. PICK t : t = Append(s, cell)
  OBVIOUS
<1>5. /\ IsChain(h2, t) /\ DataOf(h2, t) = Append(DataOf(heap, s), d)
  BY <1>1, <1>3, <1>4, AddedBehind
<1>6. /\ Len(t) = Len(s) + 1 /\ t[Len(s) + 1] = cell
      /\ \A i \in 1 .. Len(s) : t[i] = s[i]
  BY <1>1, <1>4, AppendProperties
<1>7. Shape(t)'
  <2>1. last' = At(t, Len(t))
    BY <1>1, <1>6 DEF At
  <2>2. first' = At(t, 1)
    <3>1. CASE s = <<>>
      BY <1>6, <3>1 DEF At
    <3>2. CASE s # <<>>
      <4>1. 1 \in 1 .. Len(s) /\ 1 \in 1 .. Len(s) + 1
        BY <1>1, <3>2
      <4> QED
        BY <1>1, <1>6, <3>2, <4>1 DEF At
    <3> QED
      BY <3>1, <3>2
  <2> QED
    BY <1>2, <1>5, <1>6, <2>1, <2>2 DEF Shape
<1>8. Contents' = Append(Contents, d)
  BY <1>2, <1>5, <1>7, ContentsStep
<1>9. Abstract!Next
  BY <1>8 DEF Abstract!Next, Abstract!list_add, Abstract!enqueue
<1> QED
  BY <1>7, <1>9, Becomes

(* The list is empty when its fields say so. *)
LEMMA EmptyWhen ==
    ASSUME NEW s, Shape(s)
    PROVE  /\ s = <<>> <=> size = 0
           /\ s = <<>> <=> last = NULL
           /\ s = <<>> <=> first = NULL
<1>1. /\ s \in Seq(Cells) /\ Len(s) \in Nat /\ first = At(s, 1)
      /\ last = At(s, Len(s)) /\ size = Len(s)
      /\ \A i \in 1 .. Len(s) : s[i] # NULL
  BY ChainFits DEF Shape, IsChain
<1>2. CASE s = <<>>
  BY <1>1, <1>2 DEF At
<1>3. CASE s # <<>>
  <2>1. Len(s) \in 1 .. Len(s) /\ 1 \in 1 .. Len(s) /\ Len(s) # 0
    BY <1>1, <1>3
  <2> QED
    BY <1>1, <1>3, <2>1 DEF At
<1> QED
  BY <1>2, <1>3

(* Outside of a loop there is only the list. *)
LEMMA IdleList ==
    ASSUME Inv, walk = Idle
    PROVE  \E s : Shape(s)
BY DEF Inv

LEMMA ListAddStep ==
    ASSUME Inv, NEW d \in Data, NEW cell \in Cells \ Allocated,
           list_add(d, cell) \/ enqueue(d, cell)
    PROVE  Sound
<1>1. PICK s : Shape(s)
  BY IdleList DEF list_add, enqueue
<1>2. /\ s = <<>> <=> size = 0
      /\ s = <<>> <=> last = NULL
      /\ size = Len(s)
  BY <1>1, EmptyWhen DEF Shape
<1>3. /\ heap' = IF s = <<>> THEN Create(cell, d, NULL) ELSE CreateBehind(cell, d)
      /\ first' = IF s = <<>> THEN cell ELSE first
      /\ last' = cell /\ walk' = Idle
  BY <1>2 DEF list_add, enqueue
<1>4. size' = Len(s) + 1
  BY <1>2 DEF list_add, enqueue
<1>5. \/ did' = [op |-> "list_add", data |-> d]
      \/ did' = [op |-> "enqueue", data |-> d]
  BY DEF list_add, enqueue
<1> QED
  BY <1>1, <1>3, <1>4, <1>5, BehindStep

LEMMA PutHeadStep ==
    ASSUME Inv, NEW d \in Data, NEW cell \in Cells \ Allocated,
           put_head(d, cell)
    PROVE  Sound
<1>1. PICK s : Shape(s)
  BY IdleList DEF put_head
<1>0. /\ IsChain(heap, s) /\ first = At(s, 1) /\ last = At(s, Len(s))
      /\ size = Len(s) /\ cell \in Cells \ DOMAIN heap
  BY <1>1 DEF Shape, Allocated
<1>2. /\ IsChain(heap, s) /\ first = At(s, 1) /\ last = At(s, Len(s))
      /\ size = Len(s) /\ s \in Seq(Cells) /\ Len(s) \in Nat
      /\ heap \in [DOMAIN heap -> [data : Data, next : Cells \cup {NULL}]]
      /\ \A i \in 1 .. Len(s) : s[i] \in Cells
      /\ \A x \in DOMAIN heap : x # NULL
      /\ cell \in Cells \ DOMAIN heap
  BY <1>0, ChainFacts
<1>3. /\ heap' = Create(cell, d, first) /\ first' = cell /\ walk' = Idle
      /\ last' = IF size = 0 THEN cell ELSE last
      /\ size' = size + 1
  BY DEF put_head
<1>4. PICK h2, t : h2 = heap' /\ t = Before(cell, s)
  OBVIOUS
<1>5. first \in Cells \cup {NULL}
  BY <1>2 DEF At
<1>6. Added(heap, h2, cell, d, At(s, 1), NULL)
  BY <1>2, <1>3, <1>4, <1>5 DEF Added, Create, Allocated
<1>7. IsChain(h2, t) /\ DataOf(h2, t) = Before(d, DataOf(heap, s))
  BY <1>2, <1>4, <1>6, AddedBefore
<1>8. Len(t) = Len(s) + 1 /\ \A i \in 1 .. Len(s) + 1 :
                                 t[i] = IF i = 1 THEN cell ELSE s[i - 1]
  <2>1. Len(t) = Len(s) + 1
    BY <1>2, <1>4, BeforeIs
  <2> QED
    BY <1>4, <2>1 DEF Before
<1>9. Shape(t)'
  <2>1. first' = At(t, 1)
    BY <1>2, <1>3, <1>8 DEF At
  <2>2. last' = At(t, Len(t))
    <3>1. CASE Len(s) = 0
      BY <1>2, <1>3, <1>8, <3>1 DEF At
    <3>2. CASE Len(s) # 0
      <4>1. /\ Len(s) + 1 \in 1 .. Len(s) + 1 /\ Len(s) \in 1 .. Len(s)
            /\ Len(s) + 1 # 1 /\ (Len(s) + 1) - 1 = Len(s)
        BY <1>2, <3>2
      <4> QED
        BY <1>2, <1>3, <1>8, <3>2, <4>1 DEF At
    <3> QED
      BY <3>1, <3>2
  <2> QED
    BY <1>2, <1>3, <1>4, <1>7, <1>8, <2>1, <2>2 DEF Shape
<1>10. Contents' = <<d>> \o Contents
  <2>1. Contents = DataOf(heap, s) /\ Contents' = DataOf(heap', t)
    BY <1>1, <1>9, ContentsStep
  <2>2. DataOf(heap, s) \in Seq(Data)
    BY <1>2, DataOfType
  <2>3. <<d>> \o DataOf(heap, s) = Before(d, DataOf(heap, s))
    BY <2>2, BeforeIs
  <2> QED
    BY <1>4, <1>7, <2>1, <2>3
<1>11. Abstract!Next
  BY <1>10 DEF Abstract!Next, Abstract!put_head, put_head
<1> QED
  BY <1>1, <1>3, <1>9, <1>11, Becomes

(* Every way to take an item out of the list, here the one at place k. *)
LEMMA UnchainShape ==
    ASSUME NEW s, Shape(s), NEW k \in 1 .. Len(s),
           unchain_child(At(s, k - 1), s[k])
    PROVE  /\ Shape(Drop(s, k))'
           /\ DataOf(heap', Drop(s, k)) = Drop(DataOf(heap, s), k)
           /\ Contents \in Seq(Data) /\ Len(Contents) = Len(s)
           /\ Contents' = Abstract!Without(Contents, k)
           /\ Contents[k] = heap[s[k]].data
<1>0. /\ IsChain(heap, s) /\ first = At(s, 1) /\ last = At(s, Len(s))
      /\ size = Len(s)
  BY DEF Shape
<1>1. /\ s \in Seq(Cells) /\ Len(s) \in Nat
      /\ \A i \in 1 .. Len(s) : s[i] \in Cells /\ s[i] # NULL
      /\ \A i, j \in 1 .. Len(s) : s[i] = s[j] => i = j
      /\ heap[s[k]].next = At(s, k + 1)
  BY <1>0, ChainFacts DEF IsChain
<1>2. PICK h2, t : h2 = heap' /\ t = Drop(s, k)
  OBVIOUS
<1>3. h2 = Unchained(heap, At(s, k - 1), s[k])
  BY <1>2 DEF unchain_child, Unchained, Allocated
<1>4. IsChain(h2, t) /\ DataOf(h2, t) = Drop(DataOf(heap, s), k)
  BY <1>0, <1>2, <1>3, UnchainedAt
<1>5. Len(t) = Len(s) - 1
  BY <1>1, <1>2, DropIs
<1>6. first' = At(t, 1)
  <2>1. At(t, 1) = IF 1 < k THEN At(s, 1) ELSE At(s, 1 + 1)
    BY <1>1, <1>2, AtDrop
  <2>2. first' = IF At(s, k - 1) = NULL THEN At(s, k + 1) ELSE At(s, 1)
    BY <1>0, <1>1 DEF unchain_child
  <2>3. CASE k = 1
    BY <2>1, <2>2, <2>3 DEF At
  <2>4. CASE k # 1
    <3>1. 1 < k /\ k - 1 \in 1 .. Len(s)
      BY <1>1, <2>4
    <3> QED
      BY <1>1, <2>1, <2>2, <3>1 DEF At
  <2> QED
    BY <2>3, <2>4
<1>7. last' = At(t, Len(t))
  <2>1. Len(s) - 1 \in Nat
    BY <1>1
  <2>2. At(t, Len(s) - 1) = IF Len(s) - 1 < k THEN At(s, Len(s) - 1)
                            ELSE At(s, (Len(s) - 1) + 1)
    BY <1>1, <1>2, <2>1, AtDrop
  <2>3. last' = IF At(s, Len(s)) = s[k] THEN At(s, k - 1) ELSE At(s, Len(s))
    BY <1>0 DEF unchain_child
  <2>4. At(s, Len(s)) = s[Len(s)] /\ Len(s) \in 1 .. Len(s)
    BY <1>1 DEF At
  <2>5. CASE k = Len(s)
    <3>1. Len(s) - 1 < k
      BY <1>1, <2>5
    <3> QED
      BY <1>5, <2>2, <2>3, <2>4, <2>5, <3>1
  <2>6. CASE k # Len(s)
    <3>1. ~(Len(s) - 1 < k) /\ (Len(s) - 1) + 1 = Len(s)
      BY <1>1, <2>6
    <3>2. s[Len(s)] # s[k]
      BY <1>1, <2>4, <2>6
    <3> QED
      BY <1>5, <2>2, <2>3, <2>4, <3>1, <3>2
  <2> QED
    BY <2>5, <2>6
<1>8. Shape(t)'
  <2>1. size' = Len(t)
    BY <1>0, <1>5 DEF unchain_child
  <2> QED
    BY <1>2, <1>4, <1>6, <1>7, <2>1 DEF Shape
<1>9. /\ Contents \in Seq(Data) /\ Len(Contents) = Len(s)
      /\ Contents' = Abstract!Without(Contents, k)
      /\ Contents[k] = heap[s[k]].data
  <2>1. Contents = DataOf(heap, s) /\ Contents' = DataOf(heap', t)
    BY <1>8, ContentsStep
  <2>2. PICK u \in Seq(Data) : u = DataOf(heap, s) /\ Len(u) = Len(s)
    BY <1>0, DataOfType
  <2>3. SubSeq(u, 1, k - 1) \o SubSeq(u, k + 1, Len(u)) = Drop(u, k)
    BY <2>2, DropIs
  <2>4. u[k] = heap[s[k]].data
    BY <1>1, <2>2 DEF DataOf
  <2>5. Contents = u /\ Contents' = Drop(u, k)
    BY <1>2, <1>4, <2>1, <2>2
  <2> QED
    BY <2>2, <2>3, <2>4, <2>5 DEF Abstract!Without
<1> QED
  BY <1>2, <1>4, <1>8, <1>9

(* Without the first item a sequence is its tail. *)
LEMMA WithoutFirst ==
    ASSUME NEW u \in Seq(Data), u # <<>>
    PROVE  Abstract!Without(u, 1) = Tail(u) /\ Head(u) = u[1]
<1>1. Len(u) \in Nat /\ 1 \in 1 .. Len(u) /\ Len(u) # 0
  OBVIOUS
<1>2. SubSeq(u, 1, 1 - 1) \o SubSeq(u, 1 + 1, Len(u)) = Drop(u, 1)
  BY <1>1, DropIs
<1>3. Drop(u, 1) = Tail(u)
  <2>1. Tail(u) = [i \in 1 .. Len(u) - 1 |-> u[i + 1]]
    <3>1. /\ Tail(u) \in Seq(Data) /\ Len(Tail(u)) = Len(u) - 1
          /\ \A i \in 1 .. Len(u) - 1 : Tail(u)[i] = u[i + 1]
      BY HeadTailProperties
    <3>2. PICK t \in Seq(Data) : t = Tail(u)
      BY <3>1
    <3>3. t = [i \in 1 .. Len(t) |-> t[i]]
      BY ONLY t \in Seq(Data)
    <3> QED
      BY <3>1, <3>2, <3>3
  <2>2. Drop(u, 1) = [i \in 1 .. Len(u) - 1 |-> u[i + 1]]
    BY <1>1 DEF Drop
  <2> QED
    BY <2>1, <2>2
<1> QED
  BY <1>2, <1>3 DEF Abstract!Without

LEMMA DequeueStep ==
    ASSUME Inv, dequeue
    PROVE  Sound
<1>1. PICK s : Shape(s)
  BY IdleList DEF dequeue
<1>2. /\ IsChain(heap, s) /\ first = At(s, 1) /\ last = At(s, Len(s))
      /\ size = Len(s) /\ (s = <<>> <=> first = NULL) /\ walk' = Idle
  BY <1>1, EmptyWhen DEF Shape, dequeue
<1>3. /\ s \in Seq(Cells) /\ Len(s) \in Nat
      /\ \A x \in DOMAIN heap : x # NULL
  BY <1>2, ChainFacts
<1>4. CASE first # NULL
  <2>1. 1 \in 1 .. Len(s) /\ first = s[1] /\ At(s, 1 - 1) = NULL
    BY <1>2, <1>3, <1>4 DEF At
  <2>2. unchain_child(NULL, first)
    <3>1. free(first) = [c \in Allocated \ {first} |->
                          IF c = NULL THEN [heap[c] EXCEPT !.next = heap[first].next]
                          ELSE heap[c]]
      BY <1>3 DEF free, Allocated
    <3> QED
      BY <1>4, <3>1 DEF dequeue, unchain_child
  <2>3. /\ Shape(Drop(s, 1))' /\ Contents \in Seq(Data)
        /\ Len(Contents) = Len(s)
        /\ Contents' = Abstract!Without(Contents, 1)
        /\ Contents[1] = heap[s[1]].data
    BY <1>1, <2>1, <2>2, UnchainShape
  <2>4. Contents # <<>>
    BY <2>1, <2>3
  <2>5. Contents' = Tail(Contents) /\ heap[first].data = Head(Contents)
    BY <2>1, <2>3, <2>4, WithoutFirst
  <2>6. did' = [op |-> "dequeue", data |-> heap[first].data]
    BY <1>4 DEF dequeue
  <2>7. Abstract!Next
    BY <2>4, <2>5, <2>6 DEF Abstract!Next, Abstract!dequeue
  <2> QED
    BY <1>1, <1>2, <2>3, <2>7, Becomes
<1>5. CASE first = NULL
  <2>1. /\ UNCHANGED <<heap, first, last, size>>
        /\ did' = [op |-> "dequeue", data |-> NULL]
    BY <1>5 DEF dequeue
  <2>2. Shape(s)'
    BY <1>1, <2>1 DEF Shape
  <2>3. Contents = DataOf(heap, s) /\ Contents' = DataOf(heap', s)
    BY <1>1, <2>2, ContentsStep
  <2>4. Contents = <<>> /\ Contents' = Contents
    BY <1>2, <1>5, <2>1, <2>3 DEF DataOf
  <2>5. Abstract!Next
    BY <2>1, <2>4 DEF Abstract!Next, Abstract!dequeue
  <2> QED
    BY <1>1, <1>2, <2>2, <2>5, Becomes
<1> QED
  BY <1>4, <1>5

LEMMA UnchainAtStep ==
    ASSUME Inv, NEW ix \in 0 .. Cardinality(Cells) - 1, list_unchain_at(ix)
    PROVE  Sound
<1>1. PICK s : Shape(s)
  BY IdleList DEF list_unchain_at
<1>2. /\ size = Len(s) /\ walk' = Idle /\ ix < size
  BY <1>1 DEF Shape, list_unchain_at
<1>3. Len(s) \in Nat /\ \A n \in 0 .. Steps : CellAt[n] = At(s, n + 1)
  BY <1>1, ChainFound, ChainFacts DEF Found, Shape
<1>4. PICK k \in 1 .. Len(s) : k = ix + 1 /\ k - 1 = ix
  BY <1>2, <1>3
<1>5. CellAt[ix] = s[k]
  BY <1>3, <1>4, StepsType DEF At, Steps
<1>6. (IF ix = 0 THEN NULL ELSE CellAt[ix - 1]) = At(s, k - 1)
  <2>1. CASE ix = 0
    BY <1>4, <2>1 DEF At
  <2>2. CASE ix # 0
    <3>1. ix - 1 \in 0 .. Steps /\ (ix - 1) + 1 = k - 1
      BY <1>4, <2>2, StepsType DEF Steps
    <3> QED
      BY <1>3, <2>2, <3>1
  <2> QED
    BY <2>1, <2>2
<1>7. unchain_child(At(s, k - 1), s[k])
  BY <1>5, <1>6 DEF list_unchain_at
<1>8. /\ Shape(Drop(s, k))' /\ Len(Contents) = Len(s)
      /\ Contents' = Abstract!Without(Contents, k)
      /\ Contents[k] = heap[s[k]].data
  BY <1>1, <1>7, UnchainShape
<1>9. ix \in 0 .. Len(Contents) - 1 /\ ix + 1 = k
  BY <1>2, <1>3, <1>4, <1>8
<1>10. did' = [op |-> "list_unchain_at", ix |-> ix, data |-> Contents[k]]
  BY <1>5, <1>8 DEF list_unchain_at
<1>11. Abstract!list_unchain_at(ix)
  BY <1>8, <1>9, <1>10 DEF Abstract!list_unchain_at
<1>12. Abstract!Next
  BY <1>9, <1>11 DEF Abstract!Next
<1> QED
  BY <1>1, <1>2, <1>8, <1>12, Becomes

LEMMA ClearStep ==
    ASSUME Inv, list_clear
    PROVE  Sound
<1>1. PICK s : Shape(s)
  BY IdleList DEF list_clear
<1>2. Chain = s /\ Len(s) \in Nat /\ s \in Seq(Cells)
      /\ DOMAIN heap = {s[i] : i \in 1 .. Len(s)}
  BY <1>1, ChainFound, ChainFacts DEF Found, Shape, IsChain
<1>3. /\ heap' = [c \in Allocated \ {Chain[i] : i \in DOMAIN Chain} |-> heap[c]]
      /\ first' = NULL /\ last' = NULL /\ size' = 0 /\ walk' = Idle
  BY DEF list_clear
<1>4. Allocated \ {Chain[i] : i \in DOMAIN Chain} = {}
  BY <1>2 DEF Allocated
<1>5. <<>> \in Seq(Cells) /\ Len(<<>>) = 0 /\ \A i : At(<<>>, i) = NULL
  BY DEF At
<1>6. DOMAIN heap' = {}
      /\ heap' \in [{} -> [data : Data, next : Cells \cup {NULL}]]
  BY <1>3, <1>4
<1>7. IsChain(heap', <<>>)
  BY <1>5, <1>6 DEF IsChain
<1>8. Shape(<<>>)'
  BY <1>3, <1>5, <1>7 DEF Shape
<1>9. Contents' = <<>>
  BY <1>1, <1>5, <1>8, ContentsStep DEF DataOf
<1>10. Abstract!Next
  BY <1>9 DEF Abstract!Next, Abstract!list_clear, list_clear
<1> QED
  BY <1>1, <1>3, <1>8, <1>10, Becomes

-----------------------------------------------------------------------------
(* The loops. *)

LEMMA WalkStartStep ==
    ASSUME Inv, NEW d \in Data, WalkStart(d)
    PROVE  Sound
<1>1. PICK s : Shape(s)
  BY IdleList DEF WalkStart
<1>2. /\ walk' = [on |-> TRUE, p |-> NULL, c |-> first, match |-> d,
                  before |-> Contents]
      /\ UNCHANGED <<heap, first, last, size, did>>
  BY DEF WalkStart
<1>3. Contents = DataOf(heap, s) /\ IsChain(heap, s) /\ first = At(s, 1)
  BY <1>1, ChainFound DEF Found, Shape
<1>4. PICK b \in Seq(Data) : b = DataOf(heap, s) /\ Len(b) = Len(s)
                             /\ Len(s) \in Nat
  BY <1>3, DataOfType
<1>5. Shape(s)'
  BY <1>1, <1>2 DEF Shape
<1>6. Contents' = Contents
  BY <1>1, <1>2, <1>5, ContentsStep
<1>7. Kept(b, d)[0] = <<>>
  BY <1>4, KeptDef DEF KeptStep
<1>8. Walking(s, 0, 0, b, d)'
  <2>1. At(s, 0) = NULL
    BY DEF At
  <2>2. <<>> = [i \in 1 .. 0 |-> DataOf(heap', s)[i]]
    OBVIOUS
  <2>3. Kept(b, d)[0]' = [i \in 1 .. 0 |-> DataOf(heap', s)[i]]
    BY <1>7, <2>2 DEF Kept
  <2>4. \A i \in 1 .. Len(b) - 0 : DataOf(heap', s)[0 + i] = b[0 + i]
    BY <1>2, <1>4
  <2>5. walk' = [on |-> TRUE, p |-> At(s, 0), c |-> At(s, 0 + 1), match |-> d,
                 before |-> b]
    <3>1. At(s, 0) = NULL /\ first = At(s, 0 + 1) /\ Contents = b
      BY <1>3, <1>4, <2>1
    <3> QED
      BY <1>2, <3>1
  <2> QED
    BY <1>4, <2>3, <2>4, <2>5 DEF Walking
<1> QED
  BY <1>2, <1>5, <1>6, <1>8 DEF Sound, Inv

(* Where a loop is that has an item to look at. *)
LEMMA WalkAt ==
    ASSUME Inv, walk.on
    PROVE  \E s, k, m, b, d : Shape(s) /\ Walking(s, k, m, b, d)
BY DEF Inv, Idle

(* A loop has as many items in front of it as in the list it started with. *)
LEMMA WalkPlace ==
    ASSUME NEW s, NEW k, NEW m, NEW b, NEW d, Shape(s), Walking(s, k, m, b, d)
    PROVE  /\ IsChain(heap, s) /\ Len(s) \in Nat /\ Len(b) \in Nat
           /\ b \in Seq(Data) /\ k \in 0 .. Len(s) /\ m \in 0 .. Len(b)
           /\ walk = [on |-> TRUE, p |-> At(s, k), c |-> At(s, k + 1),
                      match |-> d, before |-> b]
           /\ walk.c = NULL => k = Len(s) /\ m = Len(b)
           /\ walk.c # NULL =>
                /\ k + 1 \in 1 .. Len(s) /\ m + 1 \in 1 .. Len(b)
                /\ walk.c = s[k + 1]
                /\ heap[s[k + 1]].next = At(s, k + 2)
                /\ heap[s[k + 1]].data = b[m + 1]
                /\ DataOf(heap, s)[k + 1] = b[m + 1]
<1>0. IsChain(heap, s)
  BY DEF Shape
<1>1. /\ Len(s) \in Nat /\ Len(b) \in Nat /\ Len(DataOf(heap, s)) = Len(s)
      /\ b \in Seq(Data) /\ k \in 0 .. Len(s) /\ m \in 0 .. Len(b)
      /\ Len(s) - k = Len(b) - m
      /\ walk = [on |-> TRUE, p |-> At(s, k), c |-> At(s, k + 1),
                 match |-> d, before |-> b]
      /\ walk.c = At(s, k + 1)
  BY <1>0, DataOfType DEF Walking
<1>2. ASSUME k = Len(s) PROVE walk.c = NULL /\ m = Len(b)
  BY <1>1, <1>2 DEF At
<1>3. ASSUME k # Len(s)
      PROVE  /\ k + 1 \in 1 .. Len(s) /\ m + 1 \in 1 .. Len(b)
             /\ walk.c = s[k + 1] /\ walk.c # NULL
             /\ heap[s[k + 1]].next = At(s, k + 2)
             /\ heap[s[k + 1]].data = b[m + 1]
             /\ DataOf(heap, s)[k + 1] = b[m + 1]
  <2>1. /\ k + 1 \in 1 .. Len(s) /\ m + 1 \in 1 .. Len(b)
        /\ 1 \in 1 .. Len(b) - m /\ (k + 1) + 1 = k + 2
    <3>1. /\ Len(s) \in Nat /\ Len(b) \in Nat /\ k \in 0 .. Len(s)
          /\ m \in 0 .. Len(b) /\ Len(s) - k = Len(b) - m
      BY <1>1
    <3> QED
      BY ONLY <1>3, <3>1
  <2>2. walk.c = s[k + 1] /\ walk.c # NULL
    BY <1>0, <1>1, <2>1, ChainFacts DEF At
  <2>3. heap[s[k + 1]].next = At(s, k + 2)
    BY <1>0, <2>1 DEF IsChain
  <2>4. DataOf(heap, s)[k + 1] = b[m + 1]
    BY <2>1 DEF Walking
  <2>5. DataOf(heap, s)[k + 1] = heap[s[k + 1]].data
    BY <2>1 DEF DataOf
  <2> QED
    BY <2>1, <2>2, <2>3, <2>4, <2>5
<1> QED
  BY <1>0, <1>1, <1>2, <1>3

(* Kept does not depend on the state. *)
LEMMA KeptNext ==
    ASSUME NEW s \in Seq(Data), NEW d, NEW m \in 0 .. Len(s), m + 1 \in 1 .. Len(s)
    PROVE  Kept(s, d)[m + 1] = IF s[m + 1] = d THEN Kept(s, d)[m]
                               ELSE Append(Kept(s, d)[m], s[m + 1])
<1>1. m + 1 \in 0 .. Len(s) /\ m + 1 # 0 /\ (m + 1) - 1 = m
  OBVIOUS
<1>2. Kept(s, d)[m + 1] = KeptStep(Kept(s, d), s, d, m + 1)
  BY <1>1, KeptDef
<1> QED
  BY <1>1, <1>2 DEF KeptStep

LEMMA WalkSkipStep ==
    ASSUME Inv, WalkSkip
    PROVE  Sound
<1>1. PICK s, k, m, b, d : Shape(s) /\ Walking(s, k, m, b, d)
  BY WalkAt DEF WalkSkip
<1>2. /\ walk.c # NULL /\ heap[walk.c].data # walk.match
      /\ walk' = [walk EXCEPT !.p = walk.c, !.c = heap[walk.c].next]
      /\ UNCHANGED <<heap, first, last, size, did>>
  BY DEF WalkSkip
<1>3. /\ IsChain(heap, s) /\ Len(s) \in Nat /\ Len(b) \in Nat
      /\ b \in Seq(Data) /\ k \in 0 .. Len(s) /\ m \in 0 .. Len(b)
      /\ walk = [on |-> TRUE, p |-> At(s, k), c |-> At(s, k + 1),
                 match |-> d, before |-> b]
      /\ k + 1 \in 1 .. Len(s) /\ m + 1 \in 1 .. Len(b)
      /\ walk.c = s[k + 1]
      /\ heap[s[k + 1]].next = At(s, k + 2)
      /\ heap[s[k + 1]].data = b[m + 1]
      /\ DataOf(heap, s)[k + 1] = b[m + 1]
  BY <1>1, <1>2, WalkPlace
<1>4. Shape(s)'
  BY <1>1, <1>2 DEF Shape
<1>5. Contents' = Contents
  BY <1>1, <1>2, <1>4, ContentsStep
<1>6. PICK u \in Seq(Data) : u = DataOf(heap, s) /\ Len(u) = Len(s)
  BY <1>3, DataOfType
<1>7. /\ Len(s) - k = Len(b) - m
      /\ \A i \in 1 .. Len(b) - m : u[k + i] = b[m + i]
      /\ Kept(b, d)[m] = [i \in 1 .. k |-> u[i]]
  BY <1>1, <1>6 DEF Walking
<1>8. Kept(b, d)[m + 1] = [i \in 1 .. k + 1 |-> u[i]]
  <2>1. Kept(b, d)[m + 1] = Append([i \in 1 .. k |-> u[i]], u[k + 1])
    <3>1. b[m + 1] # d /\ b[m + 1] = u[k + 1]
      BY <1>2, <1>3, <1>6
    <3>2. Kept(b, d)[m + 1] = Append(Kept(b, d)[m], b[m + 1])
      <4>1. b \in Seq(Data) /\ m \in 0 .. Len(b) /\ m + 1 \in 1 .. Len(b)
        BY <1>3
      <4>2. Kept(b, d)[m + 1] = IF b[m + 1] = d THEN Kept(b, d)[m]
                                ELSE Append(Kept(b, d)[m], b[m + 1])
        BY <4>1, KeptNext
      <4> QED
        BY <3>1, <4>2
    <3> QED
      BY <1>7, <3>1, <3>2
  <2>2. PICK v : v = [i \in 1 .. k |-> u[i]]
    OBVIOUS
  <2>3. v \in Seq(Data) /\ Len(v) = k /\ \A i \in 1 .. k : v[i] = u[i]
    BY <1>3, <1>6, <2>2
  <2>4. PICK w \in Seq(Data) : w = Append(v, u[k + 1])
    <3>1. u[k + 1] \in Data
      BY <1>3, <1>6
    <3> QED
      BY <2>3, <3>1, AppendProperties
  <2>5. /\ Len(w) = k + 1 /\ w[k + 1] = u[k + 1]
        /\ \A i \in 1 .. k : w[i] = u[i]
    BY <1>3, <1>6, <2>3, <2>4, AppendProperties
  <2>6. \A i \in 1 .. k + 1 : i \in 1 .. k \/ i = k + 1
    BY <1>3
  <2>7. w = [i \in 1 .. k + 1 |-> w[i]]
    <3>1. w = [i \in 1 .. Len(w) |-> w[i]]
      BY ONLY w \in Seq(Data)
    <3> QED
      BY ONLY <2>5, <3>1
  <2>8. w = [i \in 1 .. k + 1 |-> u[i]]
    BY <2>5, <2>6, <2>7
  <2> QED
    BY <2>1, <2>2, <2>4, <2>8
<1>9. \A i \in 1 .. Len(b) - (m + 1) : u[(k + 1) + i] = b[(m + 1) + i]
  <2> SUFFICES ASSUME NEW i \in 1 .. Len(b) - (m + 1)
               PROVE  u[(k + 1) + i] = b[(m + 1) + i]
    OBVIOUS
  <2>1. /\ i + 1 \in 1 .. Len(b) - m /\ k + (i + 1) = (k + 1) + i
        /\ m + (i + 1) = (m + 1) + i
    BY <1>3
  <2> QED
    BY <1>7, <2>1
<1>10. Walking(s, k + 1, m + 1, b, d)'
  <2>1. walk' = [on |-> TRUE, p |-> At(s, k + 1), c |-> At(s, (k + 1) + 1),
                 match |-> d, before |-> b]
    <3>1. (k + 1) + 1 = k + 2
      BY <1>3
    <3> QED
      BY <1>2, <1>3, <3>1
  <2>2. /\ k + 1 \in 0 .. Len(s) /\ m + 1 \in 0 .. Len(b)
        /\ Len(s) - (k + 1) = Len(b) - (m + 1)
    BY <1>3, <1>7
  <2>3. DataOf(heap', s) = u
    BY <1>2, <1>6
  <2>4. Kept(b, d)[m + 1]' = Kept(b, d)[m + 1]
    BY DEF Kept
  <2> QED
    BY <1>3, <1>8, <1>9, <2>1, <2>2, <2>3, <2>4 DEF Walking
<1> QED
  BY <1>2, <1>4, <1>5, <1>10 DEF Sound, Inv

LEMMA WalkUnchainStep ==
    ASSUME Inv, WalkUnchain
    PROVE  Sound
<1>1. PICK s, k, m, b, d : Shape(s) /\ Walking(s, k, m, b, d)
  BY WalkAt DEF WalkUnchain
<1>2. /\ walk.c # NULL /\ heap[walk.c].data = walk.match
      /\ walk' = [walk EXCEPT !.c = heap[walk.c].next]
      /\ unchain_child(walk.p, walk.c)
      /\ did' = [op |-> "unchain_child", data |-> walk.match]
  BY DEF WalkUnchain
<1>3. /\ IsChain(heap, s) /\ Len(s) \in Nat /\ Len(b) \in Nat
      /\ b \in Seq(Data) /\ k \in 0 .. Len(s) /\ m \in 0 .. Len(b)
      /\ walk = [on |-> TRUE, p |-> At(s, k), c |-> At(s, k + 1),
                 match |-> d, before |-> b]
      /\ k + 1 \in 1 .. Len(s) /\ m + 1 \in 1 .. Len(b)
      /\ walk.c = s[k + 1]
      /\ heap[s[k + 1]].next = At(s, k + 2)
      /\ heap[s[k + 1]].data = b[m + 1]
      /\ DataOf(heap, s)[k + 1] = b[m + 1]
  BY <1>1, <1>2, WalkPlace
<1>4. \E j \in 1 .. Len(s) : j = k + 1 /\ j - 1 = k
  BY <1>3
<1> PICK j \in 1 .. Len(s) : j = k + 1 /\ j - 1 = k
  BY <1>4
<1> PICK t : t = Drop(s, j)
  OBVIOUS
<1>5. /\ Shape(t)' /\ DataOf(heap', t) = Drop(DataOf(heap, s), j)
      /\ Contents \in Seq(Data) /\ Len(Contents) = Len(s)
      /\ Contents' = Abstract!Without(Contents, j)
      /\ Contents[j] = heap[s[j]].data
  <2>1. unchain_child(At(s, j - 1), s[j])
    BY <1>2, <1>3, <1>4
  <2> QED
    BY <1>1, <1>4, <2>1, UnchainShape
<1>6. PICK u \in Seq(Data) : u = DataOf(heap, s) /\ Len(u) = Len(s)
  BY <1>3, DataOfType
<1>7. PICK v : v = DataOf(heap', t)
  OBVIOUS
<1>8. /\ Len(t) = Len(s) - 1
      /\ \A i \in 1 .. Len(s) - 1 : v[i] = IF i < j THEN u[i] ELSE u[i + 1]
  <2>1. s \in Seq(Cells)
    BY <1>3, ChainFacts
  <2>2. Len(t) = Len(s) - 1
    BY <1>4, <2>1, DropIs
  <2> QED
    BY <1>5, <1>6, <1>7, <2>2 DEF Drop
<1>9. /\ Len(s) - k = Len(b) - m
      /\ \A i \in 1 .. Len(b) - m : u[k + i] = b[m + i]
      /\ Kept(b, d)[m] = [i \in 1 .. k |-> u[i]]
  BY <1>1, <1>6 DEF Walking
<1>10. Kept(b, d)[m + 1] = [i \in 1 .. k |-> v[i]]
  <2>1. Kept(b, d)[m + 1] = Kept(b, d)[m]
    BY <1>2, <1>3, KeptNext
  <2>2. ASSUME NEW i \in 1 .. k PROVE v[i] = u[i]
    <3>1. i \in 1 .. Len(s) - 1 /\ i < j
      BY <1>3, <1>4
    <3> QED
      BY <1>8, <3>1
  <2> QED
    BY <1>9, <2>1, <2>2
<1>11. \A i \in 1 .. Len(b) - (m + 1) : v[k + i] = b[(m + 1) + i]
  <2> SUFFICES ASSUME NEW i \in 1 .. Len(b) - (m + 1)
               PROVE  v[k + i] = b[(m + 1) + i]
    OBVIOUS
  <2>1. /\ Len(s) \in Nat /\ Len(b) \in Nat /\ Len(s) - k = Len(b) - m
        /\ k \in 0 .. Len(s) /\ m \in 0 .. Len(b) /\ j = k + 1
        /\ i \in 1 .. Len(b) - (m + 1)
    BY <1>3, <1>4, <1>9
  <2>2. /\ k + i \in 1 .. Len(s) - 1 /\ ~(k + i < j)
        /\ (k + i) + 1 = k + (i + 1) /\ i + 1 \in 1 .. Len(b) - m
        /\ m + (i + 1) = (m + 1) + i
    BY ONLY <2>1
  <2> QED
    BY <1>8, <1>9, <2>2
<1>12. Walking(t, k, m + 1, b, d)'
  <2>1. walk' = [on |-> TRUE, p |-> At(t, k), c |-> At(t, k + 1),
                 match |-> d, before |-> b]
    <3>1. s \in Seq(Cells) /\ k \in Nat /\ k + 1 \in Nat /\ (k + 1) + 1 = k + 2
      BY <1>3, ChainFacts
    <3>2. k < j /\ ~(k + 1 < j)
      BY <1>4, <3>1
    <3>3. At(t, k) = At(s, k) /\ At(t, k + 1) = At(s, k + 2)
      BY <1>4, <3>1, <3>2, AtDrop
    <3> QED
      BY <1>2, <1>3, <3>3
  <2>2. /\ k \in 0 .. Len(t) /\ m + 1 \in 0 .. Len(b)
        /\ Len(t) - k = Len(b) - (m + 1)
    <3>1. /\ Len(s) \in Nat /\ Len(b) \in Nat /\ Len(s) - k = Len(b) - m
          /\ k \in 0 .. Len(s) /\ m \in 0 .. Len(b) /\ k + 1 \in 1 .. Len(s)
          /\ m + 1 \in 1 .. Len(b) /\ Len(t) = Len(s) - 1
      BY <1>3, <1>8, <1>9
    <3> QED
      BY ONLY <3>1
  <2>3. Kept(b, d)[m + 1]' = Kept(b, d)[m + 1]
    BY DEF Kept
  <2> QED
    BY <1>3, <1>7, <1>10, <1>11, <2>1, <2>2, <2>3 DEF Walking
<1>13. Abstract!Next
  <2>1. j \in DOMAIN Contents
    BY <1>5
  <2>2. Contents[j] = d /\ walk.match = d
    BY <1>2, <1>3, <1>4, <1>5
  <2>3. Contents[j] \in Data
    BY <1>5
  <2>4. Abstract!unchain_child(j, d)
    BY <1>2, <1>5, <2>2 DEF Abstract!unchain_child
  <2> QED
    BY <2>1, <2>2, <2>3, <2>4 DEF Abstract!Next
<1> QED
  <2>1. Inv'
    BY <1>5, <1>12 DEF Inv
  <2> QED
    BY <1>13, <2>1 DEF Sound

LEMMA WalkEndStep ==
    ASSUME Inv, WalkEnd \/ UNCHANGED vars
    PROVE  Sound
<1>1. PICK s : /\ Shape(s)
               /\ walk = Idle \/ \E k, m, b, d : Walking(s, k, m, b, d)
  BY DEF Inv
<1>2. UNCHANGED <<heap, first, last, size, did>> /\ (walk' = Idle \/ walk' = walk)
  BY DEF WalkEnd, vars
<1>3. Shape(s)'
  BY <1>1, <1>2 DEF Shape
<1>4. Contents' = Contents
  BY <1>1, <1>2, <1>3, ContentsStep
<1>5. ASSUME walk' = walk, NEW k, NEW m, NEW b, NEW d, Walking(s, k, m, b, d)
      PROVE  Walking(s, k, m, b, d)'
  <2>1. Kept(b, d)[m]' = Kept(b, d)[m]
    BY DEF Kept
  <2> QED
    BY <1>2, <1>5, <2>1 DEF Walking
<1> QED
  BY <1>1, <1>2, <1>3, <1>4, <1>5 DEF Sound, Inv

LEMMA NextSound == Inv /\ [Next]_vars => Sound
BY ListAddStep, PutHeadStep, DequeueStep, UnchainAtStep, ClearStep,
   WalkStartStep, WalkSkipStep, WalkUnchainStep, WalkEndStep DEF Next

(* The invariant holds, and it has the two of the runs in it. *)
LEMMA InvHolds == Spec => []Inv
<1>1. Init => Inv
  BY InitInv
<1>2. Inv /\ [Next]_vars => Inv'
  BY NextSound DEF Sound
<1> QED
  BY <1>1, <1>2, PTL DEF Spec

LEMMA InvFieldsAgree == Inv => FieldsAgree
<1> SUFFICES ASSUME Inv PROVE FieldsAgree
  OBVIOUS
<1>1. PICK s : /\ Shape(s)
               /\ walk = Idle \/ \E k, m, b, d : Walking(s, k, m, b, d)
  BY DEF Inv
<1>2. /\ IsChain(heap, s) /\ size = Len(s) /\ last = At(s, Len(s))
      /\ Length = Len(s) /\ Chain = s
      /\ DOMAIN heap = {s[i] : i \in 1 .. Len(s)}
  BY <1>1, ChainFound DEF Shape, Found, IsChain
<1>3. s \in Seq(Cells) /\ Len(s) \in Nat
      /\ \A i \in 1 .. Len(s) : s[i] \in DOMAIN heap
  BY <1>2, ChainFacts
<1>4. (first = NULL) = (last = NULL)
  BY <1>1, EmptyWhen
<1>5. size > 0 => last = Chain[size]
  BY <1>2, <1>3 DEF At
<1>6. {Chain[i] : i \in DOMAIN Chain} = Allocated
  <2>1. DOMAIN s = 1 .. Len(s)
    BY <1>3
  <2> QED
    BY <1>2, <2>1 DEF Allocated
<1>7. ASSUME walk.on PROVE {walk.p, walk.c} \subseteq Allocated \cup {NULL}
  <2>1. PICK k, m, b, d : Walking(s, k, m, b, d)
    BY <1>1, <1>7 DEF Idle
  <2>2. walk.p = At(s, k) /\ walk.c = At(s, k + 1)
    BY <2>1 DEF Walking
  <2> QED
    BY <1>3, <2>2 DEF At, Allocated
<1> QED
  BY <1>2, <1>4, <1>5, <1>6, <1>7 DEF FieldsAgree

LEMMA InvWalkExact == Inv => WalkExact
<1> SUFFICES ASSUME Inv, walk.on, walk.c = NULL
             PROVE  Contents = Kept(walk.before, walk.match)[Len(walk.before)]
  BY DEF WalkExact
<1>1. PICK s, k, m, b, d : Shape(s) /\ Walking(s, k, m, b, d)
  BY WalkAt
<1>2. /\ k = Len(s) /\ m = Len(b) /\ walk.before = b /\ walk.match = d
      /\ IsChain(heap, s)
  BY <1>1, WalkPlace
<1>3. Kept(b, d)[m] = [i \in 1 .. k |-> DataOf(heap, s)[i]]
  BY <1>1 DEF Walking
<1>4. PICK u \in Seq(Data) : u = DataOf(heap, s) /\ Len(u) = Len(s)
  BY <1>2, DataOfType
<1>5. u = [i \in 1 .. Len(u) |-> u[i]]
  BY ONLY u \in Seq(Data)
<1>6. Contents = u
  BY <1>1, <1>4, ChainFound DEF Found
<1> QED
  BY <1>2, <1>3, <1>4, <1>5, <1>6

(* The fields of the list agree with its chain after every operation and   *)
(* within every loop of queue.c, general_list.c and pub_sub.c: size counts *)
(* the items, last is the last of them, no item is lost or used when freed.*)
THEOREM FieldsAgreeHolds == Spec => []FieldsAgree
BY InvHolds, InvFieldsAgree, PTL

(* A loop that unchains (pubsub_unsubscribe, pubsub_remove_client, the     *)
(* writers' search) takes out the matches and nothing else, wherever in    *)
(* the list they are.                                                      *)
THEOREM WalkExactHolds == Spec => []WalkExact
BY InvHolds, InvWalkExact, PTL

(* The linked list implements the sequence its users take it for: each     *)
(* operation of queue.c and general_list.c does to the sequence of the     *)
(* data what SequenceList says under its name and returns what that says,  *)
(* and following the pointers does nothing.                                *)
THEOREM ListImplemented == Spec => Implements
<1>1. Init => Abstract!Init
  BY InitInv
<1>2. Inv /\ [Next]_vars => [Abstract!Next]_<<Contents, did>>
  BY NextSound DEF Sound
<1> QED
  BY <1>1, <1>2, InvHolds, PTL DEF Spec, Implements, Abstract!Spec

=============================================================================
