----------------------------- MODULE DataProofs -----------------------------
(***************************************************************************)
(* What the list operations preserve, for lists of any data, what the      *)
(* flags and the lengths of module SessionFlags do for every descriptor    *)
(* and every text, and what the other proofs need to count with finite     *)
(* sets and to argue by induction.                                         *)
(***************************************************************************)
EXTENDS GeneralList, SessionFlags, Integers, FiniteSetTheorems,
        FunctionTheorems, WellFoundedInduction, TLAPS

-----------------------------------------------------------------------------
(* Every set of numbers has a least one. *)
LEMMA LeastNumber ==
    ASSUME NEW S, S \subseteq Nat, S # {}
    PROVE  \E m \in S : \A n \in S : m <= n
<1> DEFINE R == OpToRel(<, Nat)
<1>1. IsWellFoundedOn(R, Nat)
  BY NatLessThanWellFounded
<1>2. \A x, y \in Nat : <<y, x>> \in R <=> y < x
  BY DEF OpToRel
<1> HIDE DEF R
<1>3. \E x \in S : \A y \in S : ~(<<y, x>> \in R)
  BY <1>1, WFMin
<1>4. PICK m \in S : \A y \in S : ~(<<y, m>> \in R)
  BY <1>3
<1>5. \A n \in S : n \in Nat /\ m \in Nat /\ ~(n < m)
  BY <1>2, <1>4
<1>6. \A n \in S : m <= n
  BY ONLY <1>5
<1> QED
  BY <1>6

(* A set with 0 that has with each number the next one has them all. *)
LEMMA SetInduction ==
    ASSUME NEW S \in SUBSET Nat, 0 \in S, \A n \in S : n + 1 \in S
    PROVE  S = Nat
<1> SUFFICES ASSUME S # Nat PROVE FALSE
  OBVIOUS
<1> DEFINE B == Nat \ S
<1>1. B \subseteq Nat /\ B # {}
  OBVIOUS
<1>2. PICK m \in B : \A n \in B : m <= n
  <2> HIDE DEF B
  <2> QED
    BY <1>1, LeastNumber
<1>3. m # 0 /\ m \in Nat
  OBVIOUS
<1>4. m - 1 \in Nat /\ m - 1 \notin B
  BY <1>2, <1>3
<1> QED
  BY <1>3, <1>4

-----------------------------------------------------------------------------
(* The index of an item (Rank) is below the number of items. *)
LEMMA RankBounds ==
    ASSUME NEW S, IsFiniteSet(S), NEW x \in S, x.pos \in Nat
    PROVE  /\ Rank(S, x) \in Nat
           /\ Cardinality(S) \in Nat
           /\ Rank(S, x) < Cardinality(S)
<1> DEFINE F == {y \in S : y.pos < x.pos}
<1>1. F \in SUBSET S /\ x \notin F
  OBVIOUS
<1>2. IsFiniteSet(F) /\ Cardinality(F) <= Cardinality(S)
      /\ (Cardinality(S) = Cardinality(F) => S = F)
  BY <1>1, FS_Subset
<1>3. Cardinality(F) \in Nat /\ Cardinality(S) \in Nat
  BY <1>2, FS_CardinalityType
<1>4. Cardinality(F) # Cardinality(S)
  BY <1>1, <1>2
<1> QED
  BY <1>2, <1>3, <1>4 DEF Rank

(* Indices grow with the places. *)
LEMMA RankMonotonic ==
    ASSUME NEW S, IsFiniteSet(S), NEW x \in S, NEW y \in S,
           \A z \in S : z.pos \in Nat, x.pos < y.pos
    PROVE  Rank(S, x) < Rank(S, y)
<1> DEFINE F == {z \in S : z.pos < x.pos}
           G == {z \in S : z.pos < y.pos}
<1>1. F \in SUBSET G
  OBVIOUS
<1>2. x \in G /\ x \notin F
  OBVIOUS
<1>3. IsFiniteSet(G)
  BY FS_Subset, G \in SUBSET S
<1>4. IsFiniteSet(F) /\ Cardinality(F) <= Cardinality(G)
      /\ (Cardinality(G) = Cardinality(F) => G = F)
  BY <1>1, <1>3, FS_Subset
<1>5. Cardinality(F) \in Nat /\ Cardinality(G) \in Nat
  BY <1>3, <1>4, FS_CardinalityType
<1> QED
  BY <1>2, <1>4, <1>5 DEF Rank

LEMMA RankInjective ==
    ASSUME NEW S, IsFiniteSet(S), UniquePlaces(S),
           \A z \in S : z.pos \in Nat, NEW x \in S, NEW y \in S,
           Rank(S, x) = Rank(S, y)
    PROVE  x = y
<1>1. Rank(S, x) \in Nat
  BY RankBounds
<1>2. ~(x.pos < y.pos) /\ ~(y.pos < x.pos)
  BY <1>1, RankMonotonic
<1> QED
  BY <1>2 DEF UniquePlaces

(* Every index below the number of items is the index of an item: n items  *)
(* at different places have n different indices, all below n.              *)
LEMMA RankOnto ==
    ASSUME NEW S, IsFiniteSet(S), UniquePlaces(S),
           \A x \in S : x.pos \in Nat,
           NEW k \in Nat, k < Cardinality(S)
    PROVE  \E x \in S : Rank(S, x) = k
<1> DEFINE n == Cardinality(S)
           f == [x \in S |-> Rank(S, x)]
<1>1. n \in Nat /\ n > 0
  BY FS_CardinalityType
<1>2. \A x \in S : Rank(S, x) \in 0 .. n - 1
  BY <1>1, RankBounds
<1>3. IsFiniteSet(0 .. n - 1) /\ Cardinality(0 .. n - 1) = n
  <2> HIDE DEF n
  <2>1. 0 \in Int /\ n - 1 \in Int /\ ~(0 > n - 1) /\ (n - 1) - 0 + 1 = n
    BY <1>1
  <2> QED
    BY <2>1, FS_Interval
<1>4. f \in Injection(S, 0 .. n - 1)
  <2>1. f \in [S -> 0 .. n - 1]
    BY <1>2
  <2>2. ASSUME NEW x \in S, NEW y \in S, Rank(S, x) = Rank(S, y)
        PROVE  x = y
    BY <2>2, RankInjective
  <2> QED
    BY <2>1, <2>2 DEF Injection, IsInjective
<1>5. f \in Surjection(S, 0 .. n - 1)
  BY <1>3, <1>4, FS_Injection
<1>6. k \in 0 .. n - 1
  BY <1>1
<1> QED
  BY <1>5, <1>6 DEF Surjection

(* A new last item leaves the indices of the others alone. *)
LEMMA RankAddLast ==
    ASSUME NEW S, IsFiniteSet(S), NEW y, y.pos \in Nat,
           \A x \in S : x.pos \in Nat /\ x.pos < y.pos
    PROVE  /\ \A x \in S : Rank(S \cup {y}, x) = Rank(S, x)
           /\ Rank(S \cup {y}, y) = Cardinality(S)
           /\ Cardinality(S \cup {y}) = Cardinality(S) + 1
           /\ IsFiniteSet(S \cup {y})
<1>1. y \notin S
  OBVIOUS
<1>2. ASSUME NEW x \in S
      PROVE  {z \in S \cup {y} : z.pos < x.pos} = {z \in S : z.pos < x.pos}
  OBVIOUS
<1>3. {z \in S \cup {y} : z.pos < y.pos} = S
  OBVIOUS
<1> QED
  BY <1>1, <1>2, <1>3, FS_AddElement DEF Rank

(* The index of an item when those in front of it and of others go. *)
LEMMA RankRemoveFirst ==
    ASSUME NEW S, IsFiniteSet(S), NEW P \in SUBSET S,
           \A x \in S : x.pos \in Nat,
           \A x \in P, y \in S \ P : x.pos < y.pos
    PROVE  /\ \A y \in S \ P : Rank(S, y) = Cardinality(P) + Rank(S \ P, y)
           /\ Cardinality(S) = Cardinality(P) + Cardinality(S \ P)
           /\ Cardinality(P) \in Nat /\ Cardinality(S \ P) \in Nat
           /\ IsFiniteSet(S \ P)
<1>1. IsFiniteSet(P) /\ IsFiniteSet(S \ P)
  <2>1. S \ P \in SUBSET S
    OBVIOUS
  <2> QED
    BY <2>1, FS_Subset
<1>2. Cardinality(P) \in Nat /\ Cardinality(S \ P) \in Nat
  BY <1>1, FS_CardinalityType
<1>3. ASSUME NEW Q \in SUBSET (S \ P)
      PROVE  Cardinality(P \cup Q) = Cardinality(P) + Cardinality(Q)
  <2>1. IsFiniteSet(Q) /\ P \cap Q = {}
    BY <1>1, FS_Subset
  <2>2. Cardinality({}) = 0 /\ Cardinality(Q) \in Nat
    BY <2>1, FS_EmptySet, FS_CardinalityType
  <2>3. Cardinality(P \cup Q) =
        Cardinality(P) + Cardinality(Q) - Cardinality(P \cap Q)
    BY <1>1, <2>1, FS_Union
  <2>4. Cardinality(P \cup Q) = Cardinality(P) + Cardinality(Q) - 0
    BY <2>1, <2>2, <2>3
  <2> QED
    BY <1>2, <2>2, <2>4
<1>4. ASSUME NEW y \in S \ P
      PROVE  Rank(S, y) = Cardinality(P) + Rank(S \ P, y)
  <2> DEFINE Q == {z \in S \ P : z.pos < y.pos}
  <2>1. {z \in S : z.pos < y.pos} = P \cup Q
    OBVIOUS
  <2>2. Cardinality(P \cup Q) = Cardinality(P) + Cardinality(Q)
    BY <1>3
  <2> QED
    BY <2>1, <2>2 DEF Rank
<1>5. S = P \cup (S \ P)
  OBVIOUS
<1>6. Cardinality(S) = Cardinality(P) + Cardinality(S \ P)
  BY <1>3, <1>5
<1> QED
  BY <1>1, <1>2, <1>4, <1>6

(* The image of a finite set is finite. *)
LEMMA FiniteImage ==
    ASSUME NEW S, IsFiniteSet(S), NEW f, f = [x \in S |-> f[x]]
    PROVE  IsFiniteSet({f[x] : x \in S})
<1> DEFINE T == {f[x] : x \in S}
<1>1. f \in Surjection(S, T)
  BY DEF Surjection
<1> QED
  BY <1>1, FS_Surjection

(* The pieces of the elements of S, len[i] of them for element i.  Their   *)
(* number is the sum of the lengths; unlike a fold, it can be reasoned     *)
(* about with the theorems on cardinality.                                 *)
Pieces(S, len) == UNION {{i} \X (1 .. len[i]) : i \in S}

LEMMA PiecesOfOne ==
    ASSUME NEW n \in Nat, NEW i
    PROVE  /\ IsFiniteSet({i} \X (1 .. n))
           /\ Cardinality({i} \X (1 .. n)) = n
<1>1. IsFiniteSet({i}) /\ Cardinality({i}) = 1
  BY FS_Singleton
<1>2. IsFiniteSet(1 .. n) /\ Cardinality(1 .. n) = n
  <2>1. 1 \in Int /\ n \in Int /\ (1 > n => n = 0) /\ n - 1 + 1 = n
    OBVIOUS
  <2> QED
    BY <2>1, FS_Interval
<1>3. /\ IsFiniteSet({i} \X (1 .. n))
      /\ Cardinality({i} \X (1 .. n)) = Cardinality({i}) * Cardinality(1 .. n)
  BY <1>1, <1>2, FS_Product
<1> QED
  BY <1>1, <1>2, <1>3

(* Finitely many elements have finitely many pieces, and these add up. *)
LEMMA PiecesAdd ==
    ASSUME NEW S, IsFiniteSet(S), NEW len \in [S -> Nat]
    PROVE  /\ \A T \in SUBSET S :
                 /\ Cardinality(Pieces(T, len)) \in Nat
                 /\ Cardinality(Pieces(T, len)) <= Cardinality(Pieces(S, len))
                 /\ IsFiniteSet(Pieces(T, len))
           /\ \A i \in S : Cardinality(Pieces(S, len)) =
                             Cardinality(Pieces(S \ {i}, len)) + len[i]
<1> DEFINE part(i) == {i} \X (1 .. len[i])
<1>1. \A i \in S : IsFiniteSet(part(i)) /\ Cardinality(part(i)) = len[i]
  BY PiecesOfOne
<1>2. \A T : Pieces(T, len) = UNION {part(i) : i \in T}
  BY DEF Pieces
<1>3. \A i \in S : \A p \in part(i) : p[1] = i
  OBVIOUS
<1>4. IsFiniteSet(Pieces(S, len))
  <2> DEFINE f == [i \in S |-> part(i)]
             F == {f[i] : i \in S}
  <2> HIDE DEF part
  <2>1. F = {part(i) : i \in S}
    OBVIOUS
  <2>2. f = [i \in S |-> f[i]]
    OBVIOUS
  <2>3. IsFiniteSet(F)
    <3> HIDE DEF f
    <3> QED
      BY <2>2, FiniteImage
  <2>4. \A T \in F : IsFiniteSet(T)
    BY <1>1
  <2>5. IsFiniteSet(UNION F)
    <3> HIDE DEF F
    <3> QED
      BY <2>3, <2>4, FS_UNION
  <2> HIDE DEF f, F
  <2> QED
    BY <1>2, <2>1, <2>5
<1> HIDE DEF part
<1>5. ASSUME NEW T \in SUBSET S
      PROVE  /\ Cardinality(Pieces(T, len)) \in Nat
             /\ Cardinality(Pieces(T, len)) <= Cardinality(Pieces(S, len))
             /\ IsFiniteSet(Pieces(T, len))
  <2>1. Pieces(T, len) \in SUBSET Pieces(S, len)
    BY <1>2
  <2> QED
    BY <1>4, <2>1, FS_Subset, FS_CardinalityType
<1>6. ASSUME NEW i \in S
      PROVE  Cardinality(Pieces(S, len)) =
             Cardinality(Pieces(S \ {i}, len)) + len[i]
  <2> DEFINE A == Pieces(S \ {i}, len)
             B == part(i)
  <2>1. Pieces(S, len) = A \cup B
    BY <1>2
  <2>2. A \cap B = {}
    BY <1>2, <1>3
  <2>3. /\ IsFiniteSet(A) /\ IsFiniteSet(B) /\ Cardinality(B) = len[i]
        /\ Cardinality(A) \in Nat /\ len[i] \in Nat
    BY <1>1, <1>5
  <2> HIDE DEF A, B
  <2>4. Cardinality(A \cup B) =
          Cardinality(A) + Cardinality(B) - Cardinality(A \cap B)
    BY <2>3, FS_Union
  <2>5. Cardinality(A \cap B) = 0
    BY <2>2, FS_EmptySet
  <2>6. Cardinality(A \cup B) = Cardinality(A) + len[i]
    BY <2>3, <2>4, <2>5
  <2> QED
    BY <2>1, <2>6 DEF A
<1> QED
  BY <1>5, <1>6

LEMMA EmptyListWellFormed ==
    ASSUME NEW D
    PROVE  EmptyList \in List(D) /\ WellFormed(EmptyList)
BY FS_EmptySet DEF EmptyList, List, WellFormed, UniquePlaces

(* enqueue keeps a list well formed. *)
LEMMA EnqueueWellFormed ==
    ASSUME NEW D, NEW l \in List(D), WellFormed(l), NEW d \in D
    PROVE  Enqueue(l, d) \in List(D) /\ WellFormed(Enqueue(l, d))
<1> DEFINE i == [pos |-> l.last + 1, data |-> d]
<1>1. l.last \in Nat /\ l.items \in SUBSET Item(D)
  BY DEF List, Item
<1>2. i \in Item(D)
  BY <1>1 DEF Item
<1>3. Enqueue(l, d) \in List(D)
  BY <1>1, <1>2 DEF Enqueue, List, Item
<1>4. IsFiniteSet(l.items \cup {i})
  BY FS_AddElement DEF WellFormed
<1>5. UniquePlaces(l.items \cup {i})
  BY <1>1 DEF WellFormed, UniquePlaces, Item
<1>6. \A x \in l.items \cup {i} : x.pos <= l.last + 1
  BY <1>1 DEF WellFormed, Item
<1> QED
  BY <1>3, <1>4, <1>5, <1>6 DEF WellFormed, Enqueue

(* ts_enqueue_multiple keeps a list well formed. *)
LEMMA EnqueueMultipleWellFormed ==
    ASSUME NEW D, NEW l \in List(D), WellFormed(l),
           NEW S \in SUBSET Item(D), IsFiniteSet(S), UniquePlaces(S)
    PROVE  /\ EnqueueMultiple(l, S) \in List(D)
           /\ WellFormed(EnqueueMultiple(l, S))
<1> DEFINE f == [x \in S |-> [pos |-> l.last + 1 + Rank(S, x),
                              data |-> x.data]]
           T == {f[x] : x \in S}
<1>1. l.last \in Nat /\ l.items \in SUBSET Item(D)
  BY DEF List, Item
<1>2. Cardinality(S) \in Nat
  BY FS_CardinalityType
<1>3. \A x \in S : /\ x.pos \in Nat /\ x.data \in D
                   /\ Rank(S, x) \in Nat /\ Rank(S, x) < Cardinality(S)
  BY RankBounds DEF Item
<1>4. T = {[pos |-> l.last + 1 + Rank(S, x), data |-> x.data] : x \in S}
  OBVIOUS
<1>5. T \in SUBSET Item(D)
  BY <1>1, <1>3 DEF Item
<1>6. EnqueueMultiple(l, S) = [items |-> l.items \cup T,
                               last |-> l.last + Cardinality(S)]
  BY <1>4 DEF EnqueueMultiple
<1>7. EnqueueMultiple(l, S) \in List(D)
  BY <1>1, <1>2, <1>5, <1>6 DEF List, Item
<1>8. IsFiniteSet(l.items \cup T)
  <2>1. IsFiniteSet(T)
    <3> HIDE DEF f
    <3>1. f = [x \in S |-> f[x]]
      BY DEF f
    <3> QED
      BY <3>1, FiniteImage
  <2> QED
    BY <2>1, FS_Union DEF WellFormed
<1>9. UniquePlaces(l.items \cup T)
  <2> SUFFICES ASSUME NEW x \in l.items \cup T, NEW y \in l.items \cup T,
                      x.pos = y.pos
               PROVE  x = y
    BY DEF UniquePlaces
  <2>1. \A z \in l.items : z.pos \in Nat /\ z.pos <= l.last
    BY <1>1 DEF WellFormed, Item
  <2>2. \A z \in T : z.pos \in Nat /\ z.pos > l.last
    BY <1>1, <1>3
  <2>3. CASE x \in l.items /\ y \in l.items
    BY <2>3 DEF WellFormed, UniquePlaces
  <2>4. CASE x \in T /\ y \in T
    <3>1. PICK u \in S : x = f[u]
      BY <2>4
    <3>2. PICK v \in S : y = f[v]
      BY <2>4
    <3>3. Rank(S, u) = Rank(S, v)
      BY <1>1, <1>3, <3>1, <3>2
    <3>4. ~(u.pos < v.pos) /\ ~(v.pos < u.pos)
      BY <1>3, <3>3, RankMonotonic
    <3>5. u = v
      BY <1>3, <3>4 DEF UniquePlaces
    <3> QED
      BY <3>1, <3>2, <3>5
  <2> QED
    BY <1>1, <2>1, <2>2, <2>3, <2>4
<1>10. \A x \in l.items \cup T : x.pos <= l.last + Cardinality(S)
  BY <1>1, <1>2, <1>3 DEF WellFormed, Item
<1> QED
  BY <1>6, <1>7, <1>8, <1>9, <1>10 DEF WellFormed

(* unchain_child keeps a list well formed. *)
LEMMA UnchainWellFormed ==
    ASSUME NEW D, NEW l \in List(D), WellFormed(l), NEW K \in SUBSET l.items
    PROVE  Unchain(l, K) \in List(D) /\ WellFormed(Unchain(l, K))
<1>1. l.last \in Nat /\ l.items \in SUBSET Item(D)
  BY DEF List, Item
<1>2. IsFiniteSet(K)
  BY FS_Subset DEF WellFormed
<1> QED
  BY <1>1, <1>2 DEF Unchain, List, WellFormed, UniquePlaces, Item

(* enqueue_limited keeps a list well formed. *)
LEMMA EnqueueLimitedWellFormed ==
    ASSUME NEW D, NEW l \in List(D), WellFormed(l), NEW d \in D, NEW n
    PROVE  /\ EnqueueLimited(l, d, n) \in List(D)
           /\ WellFormed(EnqueueLimited(l, d, n))
BY EnqueueWellFormed DEF EnqueueLimited

-----------------------------------------------------------------------------
(* Below the mask nothing is lost: whatever flags travel with a descriptor *)
(* (session_set_encoded, session_set_cmd_purge), session_without_flags     *)
(* gives the descriptor back, and session_wo_cmd_purge the word that       *)
(* subscriptions are kept under.                                           *)
THEOREM FlagsRoundTrip ==
    ASSUME NEW fd \in Nat, fd < FD_SPACE
    PROVE  /\ \A w \in Words(fd) : session_without_flags(w) = fd
           /\ session_wo_cmd_purge(session_set_cmd_purge(fd)) = fd
           /\ session_wo_cmd_purge(session_set_cmd_purge(session_set_encoded(fd)))
                = session_set_encoded(fd)
<1>1. session_set_encoded(fd) = fd + 524288
  BY DEF session_set_encoded, session_is_encoded, FD_IS_ENCODED, FD_SPACE
<1>2. session_set_cmd_purge(fd) = fd + 1048576
  BY DEF session_set_cmd_purge, session_is_cmd_purge, FD_CMD_PURGE_SESSION, FD_SPACE
<1>3. session_set_cmd_purge(fd + 524288) = fd + 1572864
  BY DEF session_set_cmd_purge, session_is_cmd_purge, FD_CMD_PURGE_SESSION, FD_SPACE
<1>4. \A w \in Words(fd) : session_without_flags(w) = fd
  <2>1. Words(fd) = {fd, fd + 524288, fd + 1048576, fd + 1572864}
    BY <1>1, <1>2, <1>3 DEF Words
  <2>2. /\ fd % 16384 = fd /\ (fd + 524288) % 16384 = fd
        /\ (fd + 1048576) % 16384 = fd /\ (fd + 1572864) % 16384 = fd
    BY DEF FD_SPACE
  <2> QED
    BY <2>1, <2>2 DEF session_without_flags, FD_SPACE
<1>5. session_wo_cmd_purge(fd + 1048576) = fd
  BY DEF session_wo_cmd_purge, session_is_encoded, FD_IS_ENCODED, FD_SPACE
<1>6. session_wo_cmd_purge(fd + 1572864) = fd + 524288
  BY DEF session_wo_cmd_purge, session_is_encoded, FD_IS_ENCODED, FD_SPACE
<1> QED
  BY <1>1, <1>2, <1>3, <1>4, <1>5, <1>6

(* The mask is smaller than what the table admits: from FD_SPACE on every  *)
(* descriptor that session_storage_add_new accepts is taken for the one    *)
(* FD_SPACE below by the STOMP logic and by the writers, which both use    *)
(* session_without_flags.                                                  *)
THEOREM DescriptorsShared ==
    ASSUME NEW fd \in Descriptor, fd >= FD_SPACE
    PROVE  /\ fd - FD_SPACE \in Descriptor
           /\ session_without_flags(fd - FD_SPACE) = session_without_flags(fd)
<1>1. fd \in Nat /\ fd >= 16384 /\ fd <= 131072
  BY SMT DEF Descriptor, FD_SPACE, MAX_NUMBER_OF_CONNECTIONS
<1>2. fd - 16384 \in Nat /\ fd - 16384 <= 131072
  BY <1>1, SMT
<1>3. (fd - 16384) % 16384 = fd % 16384
  BY <1>1, SMT
<1> QED
  BY <1>2, <1>3, SMT
     DEF session_without_flags, FD_SPACE, Descriptor, MAX_NUMBER_OF_CONNECTIONS

(* Two descriptors never share a bit of session_connected, and what        *)
(* session_without_flags returns is within the table.                      *)
THEOREM ConnectedBitsDistinct ==
    /\ \A fd, other \in Nat :
          ConnectedBit(fd) = ConnectedBit(other) => fd = other
    /\ \A w \in Nat :
          ConnectedBit(session_without_flags(w)).i < STOMP_SESSION_SIZE
<1>1. ASSUME NEW fd \in Nat, NEW other \in Nat,
             ConnectedBit(fd) = ConnectedBit(other)
      PROVE  fd = other
  <2>1. /\ fd \div 64 = other \div 64
        /\ (fd % 64) % 32 = (other % 64) % 32
        /\ (fd % 64 >= 32) = (other % 64 >= 32)
    BY <1>1 DEF ConnectedBit
  <2>2. fd % 64 = other % 64
    BY <2>1
  <2>3. /\ fd = 64 * (fd \div 64) + (fd % 64)
        /\ other = 64 * (other \div 64) + (other % 64)
    OBVIOUS
  <2> QED
    BY <2>1, <2>2, <2>3
<1>2. ASSUME NEW w \in Nat
      PROVE  ConnectedBit(session_without_flags(w)).i < STOMP_SESSION_SIZE
  <2>1. ConnectedBit(session_without_flags(w)).i = (w % 16384) \div 64
    BY DEF ConnectedBit, session_without_flags, FD_SPACE
  <2>2. STOMP_SESSION_SIZE = 2048
    BY DEF STOMP_SESSION_SIZE, MAX_NUMBER_OF_CONNECTIONS
  <2>3. (w % 16384) \div 64 < 2048
    OBVIOUS
  <2> QED
    BY <2>1, <2>2, <2>3
<1> QED
  BY <1>1, <1>2

(* frame_len, by which a writer decides what still fits its buffer, is the *)
(* length of what ws_output_filter writes, but for two lengths of text: at *)
(* 125 and at 65535 the closing byte needs the longer header, and          *)
(* frame_len is short by 2 and by 6.  A handshake's answer is one byte     *)
(* shorter than its frame_len.                                             *)
THEOREM FrameLenExact ==
    ASSUME NEW n \in Nat
    PROVE  /\ n \notin {125, 65535} =>
                 ws_output_filter(n, TRUE, FALSE) = frame_len(n, TRUE)
           /\ n = 125 => ws_output_filter(n, TRUE, FALSE) = frame_len(n, TRUE) + 2
           /\ n = 65535 => ws_output_filter(n, TRUE, FALSE) = frame_len(n, TRUE) + 6
           /\ ws_output_filter(n, FALSE, FALSE) = frame_len(n, FALSE)
           /\ ws_output_filter(n, FALSE, TRUE) + 1 = frame_len(n, FALSE)
BY DEF ws_output_filter, frame_len, encode_websocket_frame

=============================================================================
