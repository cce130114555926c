-------------------------- MODULE WriterPoolProofs --------------------------
(***************************************************************************)
(* NoLostWakeup, TakenInOrder, BatchFits and StreamIntact for every number *)
(* of writers, descriptors and messages.                                   *)
(*                                                                         *)
(* NoLostWakeup is not inductive: a writer that is awake may take a pill   *)
(* and exit, so there must be another one awake before it does.            *)
(* EnoughAwake counts them.  The order of what is taken, and the stream of *)
(* a client, need what a writer has in its hands meanwhile: OrderInv and   *)
(* StreamInv put batch and buffer between the queue and the wire.          *)
(***************************************************************************)
EXTENDS WriterPool, DataProofs, SequenceTheorems

(* A writer holds a batch only while it looks through it. *)
BatchHeld == \A w \in Writers : batch[w] # {} => pc[w] = "filtering"

IInv == TypeOK /\ WellFormed(output_queue) /\ BatchHeld /\ EnoughAwake

USE WriterPoolAssumption

-----------------------------------------------------------------------------
(* Messages are not pills. *)
LEMMA MessageOrPill ==
    ASSUME NEW d \in Message \cup {Pill}
    PROVE  /\ d.fd \in Fds \cup {None}
           /\ d.fd # None => d \in Message
           /\ d \in Message => d.fd # None
BY DEF Message, Pill

LEMMA NewMessageFields ==
    ASSUME NEW n \in Nat, NEW f \in Fds, NEW c \in Contents
    PROVE  /\ NewMessage(n, f, c) \in Message
           /\ NewMessage(n, f, c).id = n /\ NewMessage(n, f, c).fd = f
           /\ f # None
<1>1. c.length \in Nat
  OBVIOUS
<1>2. HeaderLen(c.length) \in Nat
  BY DEF HeaderLen
<1>3. ExpectedLen(f, c) \in Nat
  BY <1>1, <1>2 DEF ExpectedLen
<1> QED
  BY <1>3 DEF NewMessage, Message

LEMMA FiniteGroups ==
    /\ IsFiniteSet(Going) /\ IsFiniteSet(Awake)
    /\ Cardinality(Going) \in Nat /\ Cardinality(Awake) \in Nat
<1>1. Going \in SUBSET Writers /\ Awake \in SUBSET Writers
  BY DEF Going, Awake
<1> QED
  BY <1>1, FS_Subset, FS_CardinalityType

LEMMA FinitePills ==
    ASSUME WellFormed(output_queue)
    PROVE  IsFiniteSet(Pills) /\ Cardinality(Pills) \in Nat
<1>1. IsFiniteSet(Items) /\ Pills \in SUBSET Items
  BY DEF WellFormed, Pills, Items
<1> QED
  BY <1>1, FS_Subset, FS_CardinalityType

(* The type invariant of a step that only touches queue, pc and counters.  *)
LEMMA TypeFrame ==
    ASSUME TypeOK, UNCHANGED <<batch, fd, buffer, retry_count, open, wire, mixed>>,
           output_queue' \in List(Message \cup {Pill}),
           pc' \in [Writers -> States], sent' \in Nat, killed' \in Nat
    PROVE  TypeOK'
<1>1. batch' \in [Writers -> SUBSET Item(Message \cup {Pill})]
  BY DEF TypeOK
<1>2. buffer' \in [Writers -> Seq(Unit)] /\ wire' \in [Fds -> Seq(Unit)]
  BY DEF TypeOK
<1>3. fd' \in [Writers -> Fds \cup {None}]
  BY DEF TypeOK
<1>4. /\ mixed' \subseteq Fds /\ open' \subseteq Fds
      /\ retry_count' \in [Writers -> 1 .. Retries]
  BY DEF TypeOK
<1> QED
  BY <1>1, <1>2, <1>3, <1>4 DEF TypeOK

(* pthread_cond_signal adds one to the writers awake, unless all are. *)
LEMMA SignalWakes ==
    ASSUME TypeOK, BatchHeld, Signal, UNCHANGED batch
    PROVE  /\ pc' \in [Writers -> States]
           /\ BatchHeld'
           /\ Going' = Going
           /\ \/ Awake' = Going'
              \/ /\ Awake # Going
                 /\ Cardinality(Awake') = Cardinality(Awake) + 1
<1>1. CASE \A w \in Writers : pc[w] # "waiting" /\ UNCHANGED pc
  BY <1>1 DEF TypeOK, BatchHeld, Going, Awake, Doomed
<1>2. ASSUME NEW w \in Writers, pc[w] = "waiting",
             pc' = [pc EXCEPT ![w] = "ready"]
      PROVE  /\ pc' \in [Writers -> States]
             /\ BatchHeld'
             /\ Going' = Going
             /\ \/ Awake' = Going'
                \/ /\ Awake # Going
                   /\ Cardinality(Awake') = Cardinality(Awake) + 1
  <2>1. batch[w] = {}
    BY <1>2 DEF BatchHeld
  <2>2. pc' \in [Writers -> States] /\ BatchHeld'
    BY <1>2, <2>1 DEF TypeOK, BatchHeld, States
  <2>3. Going' = Going /\ w \in Going /\ w \notin Awake
    BY <1>2, <2>1 DEF TypeOK, Going, Awake, Doomed
  <2>4. Awake' = Awake \cup {w}
    BY <1>2, <2>3 DEF TypeOK, Awake
  <2>5. Cardinality(Awake') = Cardinality(Awake) + 1
    BY <2>3, <2>4, FiniteGroups, FS_AddElement
  <2> QED
    BY <2>2, <2>3, <2>5
<1> QED
  BY <1>1, <1>2 DEF Signal

(* Adding messages and at most one pill, with a signal, keeps EnoughAwake. *)
LEMMA EnqueueKeepsAwake ==
    ASSUME IInv, Signal, UNCHANGED batch, WellFormed(output_queue)',
           \/ Pills' = Pills
           \/ /\ Items # Pills <=> Items' # Pills'
              /\ \E p : Pills' = Pills \cup {p}
    PROVE  EnoughAwake'
<1>1. /\ Going' = Going
      /\ \/ Awake' = Going'
         \/ /\ Awake # Going
            /\ Cardinality(Awake') = Cardinality(Awake) + 1
  BY SignalWakes DEF IInv
<1>2. Cardinality(Awake) \in Nat /\ Cardinality(Awake') \in Nat
  <2>1. Awake' \in SUBSET Writers
    BY DEF Awake, Going
  <2> QED
    BY <2>1, FiniteGroups, FS_Subset, FS_CardinalityType
<1>3. /\ Cardinality(Pills) \in Nat /\ Cardinality(Pills') \in Nat
      /\ Cardinality(Pills') <= Cardinality(Pills) + 1
  <2>1. IsFiniteSet(Pills) /\ Cardinality(Pills) \in Nat
    BY FinitePills DEF IInv
  <2>2. CASE Pills' = Pills
    BY <2>1, <2>2
  <2>3. ASSUME NEW p, Pills' = Pills \cup {p}
        PROVE  /\ Cardinality(Pills') \in Nat
               /\ Cardinality(Pills') <= Cardinality(Pills) + 1
    <3>1. Cardinality(Pills') = Cardinality(Pills)
          \/ Cardinality(Pills') = Cardinality(Pills) + 1
      BY <2>1, <2>3, FS_AddElement
    <3> QED
      BY <2>1, <3>1
  <2> QED
    BY <2>1, <2>2, <2>3
<1>4. CASE Awake' = Going'
  BY <1>4 DEF EnoughAwake
<1>5. CASE Awake # Going /\ Cardinality(Awake') = Cardinality(Awake) + 1
  <2>1. /\ Cardinality(Awake) >= Cardinality(Pills)
        /\ Items # Pills => Cardinality(Awake) > Cardinality(Pills)
    BY <1>5 DEF IInv, EnoughAwake
  <2>2. CASE Pills' = Pills
    BY <1>2, <1>3, <1>5, <2>1, <2>2 DEF EnoughAwake
  <2>3. CASE Items # Pills <=> Items' # Pills'
    BY <1>2, <1>3, <1>5, <2>1, <2>3 DEF EnoughAwake
  <2> QED
    BY <2>2, <2>3
<1> QED
  BY <1>1, <1>4, <1>5

-----------------------------------------------------------------------------
(* The producers. *)

LEMMA ts_enqueueStep ==
    ASSUME IInv, NEW f \in Fds, NEW c \in Contents, ts_enqueue(f, c)
    PROVE  IInv'
<1> DEFINE m == NewMessage(sent + 1, f, c)
           D == Message \cup {Pill}
<1> USE DEF ts_enqueue
<1>1. m \in Message /\ m.fd # None
  <2>1. sent + 1 \in Nat
    BY DEF IInv, TypeOK
  <2> QED
    BY <2>1, NewMessageFields
<1>2. output_queue' \in List(D) /\ WellFormed(output_queue)'
  <2>1. output_queue \in List(D) /\ WellFormed(output_queue) /\ m \in D
    BY <1>1 DEF IInv, TypeOK
  <2>2. output_queue' = Enqueue(output_queue, m)
    OBVIOUS
  <2> HIDE DEF m, D, ts_enqueue
  <2> QED
    BY <2>1, <2>2, EnqueueWellFormed
<1>3. Pills' = Pills
  BY <1>1 DEF Pills, Items, IsPill, Enqueue
<1>4. pc' \in [Writers -> States] /\ BatchHeld'
  BY SignalWakes DEF IInv
<1>5. TypeOK'
  <2>1. TypeOK
    BY DEF IInv
  <2>2. sent' \in Nat /\ killed' \in Nat
    BY <1>1, <2>1 DEF TypeOK
  <2> QED
    BY <1>2, <1>4, <2>1, <2>2, TypeFrame
<1>6. EnoughAwake'
  BY <1>2, <1>3, EnqueueKeepsAwake
<1> QED
  BY <1>2, <1>4, <1>5, <1>6 DEF IInv

LEMMA ts_enqueue_multipleStep ==
    ASSUME IInv, NEW f \in Fds, NEW g \in Fds, NEW c \in Contents,
           ts_enqueue_multiple(<<f, g>>, c)
    PROVE  IInv'
<1> DEFINE fds == <<f, g>>
           item(i) == [pos |-> i, data |-> NewMessage(sent + i, fds[i], c)]
           S == {item(i) : i \in 1 .. Len(fds)}
           D == Message \cup {Pill}
<1> USE DEF ts_enqueue_multiple
<1>1. Len(fds) = 2 /\ fds[1] \in Fds /\ fds[2] \in Fds /\ sent \in Nat
      /\ 1 .. 2 = {1, 2}
  BY DEF IInv, TypeOK
<1>2. S = {item(1), item(2)}
  BY <1>1
<1>3. S \in SUBSET Item(Message) /\ UniquePlaces(S)
  <2>1. ASSUME NEW i \in {1, 2}
        PROVE  item(i) \in Item(Message) /\ item(i).pos = i
    <3>1. sent + i \in Nat /\ fds[i] \in Fds /\ i \in Nat
      BY <1>1
    <3> HIDE DEF fds
    <3>2. NewMessage(sent + i, fds[i], c) \in Message
      BY <3>1, NewMessageFields
    <3> QED
      BY <3>1, <3>2 DEF Item
  <2> HIDE DEF item
  <2> QED
    BY <1>2, <2>1 DEF UniquePlaces
<1>4. IsFiniteSet(S)
  <2>1. S = {item(1)} \cup {item(2)}
    BY <1>2
  <2> HIDE DEF item, S
  <2>2. IsFiniteSet({item(1)})
    BY FS_Singleton
  <2> QED
    BY <2>1, <2>2, FS_AddElement
<1>5. output_queue' = EnqueueMultiple(output_queue, S)
  OBVIOUS
<1>6. output_queue' \in List(D) /\ WellFormed(output_queue)'
  <2>1. output_queue \in List(D) /\ WellFormed(output_queue)
    BY DEF IInv, TypeOK
  <2>2. S \in SUBSET Item(D)
    BY <1>3 DEF Item
  <2> HIDE DEF S, D, ts_enqueue_multiple
  <2> QED
    BY <1>3, <1>4, <1>5, <2>1, <2>2, EnqueueMultipleWellFormed
<1>7. Pills' = Pills
  <2>1. \A x \in S : x.data.fd # None
    BY <1>3 DEF Item, Message
  <2> DEFINE T == {[pos |-> output_queue.last + 1 + Rank(S, x),
                    data |-> x.data] : x \in S}
  <2> HIDE DEF S, ts_enqueue_multiple
  <2>2. Items' = Items \cup T
    BY <1>5 DEF Items, EnqueueMultiple
  <2>3. \A x \in T : x.data.fd # None
    BY <2>1
  <2> HIDE DEF T
  <2> QED
    BY <2>2, <2>3 DEF Pills, IsPill
<1>8. pc' \in [Writers -> States] /\ BatchHeld'
  BY SignalWakes DEF IInv
<1>9. TypeOK'
  <2>1. TypeOK
    BY DEF IInv
  <2>2. sent' \in Nat /\ killed' \in Nat
    BY <1>1, <2>1 DEF TypeOK
  <2> QED
    BY <1>1, <1>6, <1>8, <2>1, <2>2, TypeFrame
<1>10. EnoughAwake'
  BY <1>6, <1>7, EnqueueKeepsAwake
<1> QED
  BY <1>6, <1>8, <1>9, <1>10 DEF IInv

LEMMA KillStep ==
    ASSUME IInv, Kill
    PROVE  IInv'
<1> DEFINE D == Message \cup {Pill}
           p == [pos |-> output_queue.last + 1, data |-> Pill]
<1> USE DEF Kill
<1>1. output_queue' \in List(D) /\ WellFormed(output_queue)'
  <2>1. output_queue \in List(D) /\ WellFormed(output_queue) /\ Pill \in D
    BY DEF IInv, TypeOK
  <2>2. output_queue' = Enqueue(output_queue, Pill)
    OBVIOUS
  <2> HIDE DEF D, Kill
  <2> QED
    BY <2>1, <2>2, EnqueueWellFormed
<1>2. Items' = Items \cup {p} /\ Pills' = Pills \cup {p}
  BY DEF Pills, Items, IsPill, Enqueue, Pill
<1>3. Items # Pills <=> Items' # Pills'
  BY <1>2 DEF Pills, IsPill, p, Pill
<1>4. pc' \in [Writers -> States] /\ BatchHeld'
  BY SignalWakes DEF IInv
<1>5. TypeOK'
  <2>1. TypeOK
    BY DEF IInv
  <2>2. sent' \in Nat /\ killed' \in Nat
    BY <1>1, <2>1 DEF TypeOK
  <2> QED
    BY <1>1, <1>4, <2>1, <2>2, TypeFrame
<1>6. EnoughAwake'
  BY <1>1, <1>2, <1>3, EnqueueKeepsAwake
<1> QED
  BY <1>1, <1>4, <1>5, <1>6 DEF IInv

-----------------------------------------------------------------------------
(* The writers and the sessions. *)

(* A step that leaves the queue alone and lets no writer fall asleep. *)
LEMMA QuietStep ==
    ASSUME IInv, UNCHANGED output_queue, TypeOK', BatchHeld',
           Going' = Going, Awake' = Awake \/ Awake' = Going'
    PROVE  IInv'
<1>1. Items' = Items /\ Pills' = Pills
  BY DEF Items, Pills, IsPill
<1>2. WellFormed(output_queue)'
  BY DEF IInv, WellFormed, UniquePlaces
<1>3. EnoughAwake'
  BY <1>1 DEF IInv, EnoughAwake
<1> QED
  BY <1>2, <1>3 DEF IInv

LEMMA WaitStep ==
    ASSUME IInv, NEW w \in Writers, Wait(w)
    PROVE  IInv'
<1> USE DEF Wait
<1>1. TypeOK /\ WellFormed(output_queue) /\ BatchHeld
  BY DEF IInv
<1>2. pc' \in [Writers -> States] /\ BatchHeld'
  BY <1>1 DEF TypeOK, BatchHeld, States
<1>3. TypeOK'
  <2>1. output_queue' \in List(Message \cup {Pill})
    BY <1>1 DEF TypeOK
  <2>2. sent' \in Nat /\ killed' \in Nat
    BY <1>1 DEF TypeOK
  <2> QED
    BY <1>1, <1>2, <2>1, <2>2, TypeFrame
<1>4. WellFormed(output_queue)'
  BY <1>1 DEF WellFormed, UniquePlaces
<1>5. Items' = {} /\ Pills' = {}
  BY DEF Items, Pills
<1>6. Cardinality(Awake') \in Nat
  <2>1. Awake' \in SUBSET Writers
    BY DEF Awake, Going
  <2> QED
    BY <2>1, FS_Subset, FS_CardinalityType
<1>7. EnoughAwake'
  <2>1. Cardinality(Pills') = 0
    BY <1>5, FS_EmptySet
  <2> QED
    BY <1>5, <1>6, <2>1 DEF EnoughAwake
<1> QED
  BY <1>2, <1>3, <1>4, <1>7 DEF IInv

LEMMA SpuriousWakeupStep ==
    ASSUME IInv, NEW w \in Writers, SpuriousWakeup(w)
    PROVE  IInv'
<1> USE DEF SpuriousWakeup
<1>1. TypeOK /\ WellFormed(output_queue) /\ BatchHeld
  BY DEF IInv
<1>2. Signal /\ UNCHANGED batch
  BY DEF Signal
<1>3. WellFormed(output_queue)' /\ Pills' = Pills
  BY <1>1 DEF WellFormed, UniquePlaces, Pills, Items, IsPill
<1>4. EnoughAwake'
  BY <1>2, <1>3, EnqueueKeepsAwake
<1>5. pc' \in [Writers -> States] /\ BatchHeld'
  BY <1>1, <1>2, SignalWakes
<1>6. TypeOK'
  <2>1. output_queue' \in List(Message \cup {Pill})
    BY <1>1 DEF TypeOK
  <2>2. sent' \in Nat /\ killed' \in Nat
    BY <1>1 DEF TypeOK
  <2> QED
    BY <1>1, <1>5, <2>1, <2>2, TypeFrame
<1> QED
  BY <1>3, <1>4, <1>5, <1>6 DEF IInv

LEMMA FilterPillStep ==
    ASSUME IInv, NEW w \in Writers, FilterPill(w)
    PROVE  IInv'
<1> USE DEF FilterPill
<1>1. TypeOK /\ BatchHeld
  BY DEF IInv
<1>2. TypeOK'
  <2>1. pc' \in [Writers -> States]
    BY <1>1 DEF TypeOK, States
  <2>2. batch' \in [Writers -> SUBSET Item(Message \cup {Pill})]
    BY <1>1 DEF TypeOK
  <2>3. buffer' \in [Writers -> Seq(Unit)]
    BY <1>1, EmptySeq DEF TypeOK
  <2>4. /\ output_queue' \in List(Message \cup {Pill})
        /\ fd' \in [Writers -> Fds \cup {None}]
        /\ open' \subseteq Fds /\ wire' \in [Fds -> Seq(Unit)]
    BY <1>1 DEF TypeOK
  <2>5. /\ sent' \in Nat /\ killed' \in Nat /\ mixed' \subseteq Fds
        /\ retry_count' \in [Writers -> 1 .. Retries]
    BY <1>1 DEF TypeOK
  <2> QED
    BY <2>1, <2>2, <2>3, <2>4, <2>5 DEF TypeOK
<1>3. BatchHeld'
  BY <1>1 DEF TypeOK, BatchHeld
<1>4. w \notin Going /\ w \notin Going'
  BY <1>1 DEF TypeOK, Going, Doomed
<1>5. Going' = Going
  BY <1>1, <1>4 DEF TypeOK, Going, Doomed
<1>6. Awake' = Awake
  BY <1>1, <1>4, <1>5 DEF TypeOK, Awake
<1> QED
  BY <1>2, <1>3, <1>5, <1>6, QuietStep

(* What a writer copies into its buffer for one message: at least a byte. *)
LEMMA WrittenType ==
    ASSUME NEW m \in Message
    PROVE  /\ WrittenLen(m) \in Nat /\ WrittenLen(m) > 0
           /\ m.id \in Nat /\ m.frame_len \in Nat
<1>1. /\ m.content \in Contents /\ m.fd \in Fds
      /\ m.id \in Nat /\ m.frame_len \in Nat
  BY DEF Message
<1> DEFINE n == m.content.length
<1>2. n \in Nat /\ n # 0
  BY <1>1
<1>3. HeaderLen(n + 1) \in Nat
  BY DEF HeaderLen
<1>4. WrittenLen(m) \in {n + 1 + HeaderLen(n + 1), n, n + 1}
  BY DEF WrittenLen
<1> HIDE DEF n
<1> QED
  BY <1>1, <1>2, <1>3, <1>4

LEMMA UnitsType ==
    ASSUME NEW m \in Message
    PROVE  Units(m) \in Seq(Unit)
<1>1. /\ WrittenLen(m) \in Nat
      /\ m.id \in Nat /\ m.frame_len \in Nat
  BY WrittenType
<1>2. \A k \in 1 .. WrittenLen(m) :
         [id |-> m.id, part |-> k, len |-> WrittenLen(m),
          frame_len |-> m.frame_len] \in Unit
  BY <1>1 DEF Unit
<1>3. Units(m) \in [1 .. WrittenLen(m) -> Unit]
  BY <1>2 DEF Units
<1> QED
  BY <1>1, <1>3

LEMMA FilterMessageStep ==
    ASSUME IInv, NEW w \in Writers, FilterMessage(w)
    PROVE  IInv'
<1>1. TypeOK /\ BatchHeld
  BY DEF IInv
<1>2. PICK item \in batch[w] :
         LET rest == batch[w] \ {item}
             filled == IF item.data.fd \in open
                       THEN buffer[w] \o Units(item.data) ELSE buffer[w]
         IN  /\ ~IsPill(item)
             /\ batch' = [batch EXCEPT ![w] = rest]
             /\ buffer' = [buffer EXCEPT ![w] = filled]
             /\ pc' = [pc EXCEPT ![w] = IF rest # {} THEN "filtering"
                                        ELSE IF filled = <<>> THEN "ready"
                                        ELSE "writing"]
  BY DEF FilterMessage
<1>3. UNCHANGED <<output_queue, fd, retry_count, open, wire, sent, killed, mixed>>
      /\ pc[w] = "filtering"
  BY DEF FilterMessage
<1>4. item.data \in Message
  <2>1. item \in Item(Message \cup {Pill})
    BY <1>1 DEF TypeOK
  <2> QED
    BY <1>2, <2>1, MessageOrPill DEF Item, IsPill
<1>5. Units(item.data) \in Seq(Unit)
  BY <1>4, UnitsType
<1>6. TypeOK'
  <2>1. pc' \in [Writers -> States]
    BY <1>1, <1>2 DEF TypeOK, States
  <2>2. batch' \in [Writers -> SUBSET Item(Message \cup {Pill})]
    BY <1>1, <1>2 DEF TypeOK
  <2>3. buffer' \in [Writers -> Seq(Unit)]
    <3>1. buffer[w] \in Seq(Unit)
      BY <1>1 DEF TypeOK
    <3>2. buffer[w] \o Units(item.data) \in Seq(Unit)
      BY <1>5, <3>1, ConcatProperties
    <3> QED
      BY <1>1, <1>2, <3>1, <3>2 DEF TypeOK
  <2>4. /\ output_queue' \in List(Message \cup {Pill})
        /\ fd' \in [Writers -> Fds \cup {None}]
        /\ open' \subseteq Fds /\ wire' \in [Fds -> Seq(Unit)]
    BY <1>1, <1>3 DEF TypeOK
  <2>5. /\ sent' \in Nat /\ killed' \in Nat /\ mixed' \subseteq Fds
        /\ retry_count' \in [Writers -> 1 .. Retries]
    BY <1>1, <1>3 DEF TypeOK
  <2> QED
    BY <2>1, <2>2, <2>3, <2>4, <2>5 DEF TypeOK
<1>7. BatchHeld'
  BY <1>1, <1>2 DEF TypeOK, BatchHeld
<1>8. \A v \in Writers : /\ Doomed(v)' <=> Doomed(v)
                         /\ pc'[v] = "waiting" <=> pc[v] = "waiting"
  BY <1>1, <1>2, <1>3 DEF TypeOK, Doomed, IsPill
<1>9. Going' = Going /\ Awake' = Awake
  BY <1>8 DEF Going, Awake
<1> QED
  BY <1>3, <1>6, <1>7, <1>9, QuietStep

LEMMA RetriesStart == Retries \in 1 .. Retries
OBVIOUS

LEMMA WriteFailsStep ==
    ASSUME IInv, NEW w \in Writers, WriteFails(w)
    PROVE  IInv'
<1> USE DEF WriteFails
<1>1. TypeOK /\ BatchHeld
  BY DEF IInv
<1>2. TypeOK'
  <2>1. retry_count' \in [Writers -> 1 .. Retries]
    <3>1. retry_count[w] \in 1 .. Retries
      BY <1>1 DEF TypeOK
    <3>2. retry_count[w] - 1 \in 1 .. Retries
      BY <3>1
    <3> QED
      BY <1>1, <3>2 DEF TypeOK
  <2>2. /\ output_queue' \in List(Message \cup {Pill})
        /\ pc' \in [Writers -> States]
        /\ batch' \in [Writers -> SUBSET Item(Message \cup {Pill})]
        /\ fd' \in [Writers -> Fds \cup {None}]
    BY <1>1 DEF TypeOK
  <2>3. /\ buffer' \in [Writers -> Seq(Unit)] /\ wire' \in [Fds -> Seq(Unit)]
        /\ open' \subseteq Fds /\ mixed' \subseteq Fds
        /\ sent' \in Nat /\ killed' \in Nat
    BY <1>1 DEF TypeOK
  <2> QED
    BY <2>1, <2>2, <2>3 DEF TypeOK
<1>3. BatchHeld'
  BY <1>1 DEF BatchHeld
<1>4. Going' = Going /\ Awake' = Awake
  BY DEF Going, Awake, Doomed
<1> QED
  BY <1>2, <1>3, <1>4, QuietStep

LEMMA WriteStep ==
    ASSUME IInv, NEW w \in Writers, NEW n, Write(w, n)
    PROVE  IInv'
<1> USE DEF Write
<1>1. TypeOK /\ BatchHeld
  BY DEF IInv
<1>2. /\ buffer[w] \in Seq(Unit) /\ fd[w] \in Fds /\ wire[fd[w]] \in Seq(Unit)
      /\ Len(buffer[w]) \in Nat /\ n \in 1 .. Len(buffer[w])
  BY <1>1 DEF TypeOK
<1>3. /\ SubSeq(buffer[w], 1, n) \in Seq(Unit)
      /\ SubSeq(buffer[w], n + 1, Len(buffer[w])) \in Seq(Unit)
  BY <1>2
<1>4. TypeOK'
  <2>1. pc' \in [Writers -> States]
    BY <1>1 DEF TypeOK, States
  <2>2. buffer' \in [Writers -> Seq(Unit)]
    BY <1>1, <1>3 DEF TypeOK
  <2>3. wire' \in [Fds -> Seq(Unit)]
    <3>1. wire[fd[w]] \o SubSeq(buffer[w], 1, n) \in Seq(Unit)
      BY <1>2, <1>3, ConcatProperties
    <3> QED
      BY <1>1, <3>1 DEF TypeOK
  <2>4. /\ output_queue' \in List(Message \cup {Pill})
        /\ batch' \in [Writers -> SUBSET Item(Message \cup {Pill})]
        /\ fd' \in [Writers -> Fds \cup {None}]
    BY <1>1 DEF TypeOK
  <2>5. /\ open' \subseteq Fds /\ mixed' \subseteq Fds
        /\ sent' \in Nat /\ killed' \in Nat
    BY <1>1 DEF TypeOK
  <2>6. retry_count' \in [Writers -> 1 .. Retries]
    BY <1>1, RetriesStart DEF TypeOK
  <2> QED
    BY <2>1, <2>2, <2>3, <2>4, <2>5, <2>6 DEF TypeOK
<1>5. BatchHeld'
  BY <1>1 DEF TypeOK, BatchHeld
<1>6. Going' = Going /\ Awake' = Awake
  BY <1>1 DEF TypeOK, Going, Awake, Doomed
<1> QED
  BY <1>4, <1>5, <1>6, QuietStep

LEMMA GiveUpStep ==
    ASSUME IInv, NEW w \in Writers, GiveUp(w)
    PROVE  IInv'
<1> USE DEF GiveUp
<1>1. TypeOK /\ BatchHeld
  BY DEF IInv
<1>2. TypeOK'
  <2>1. pc' \in [Writers -> States]
    BY <1>1 DEF TypeOK, States
  <2>2. buffer' \in [Writers -> Seq(Unit)]
    BY <1>1, EmptySeq DEF TypeOK
  <2>3. /\ output_queue' \in List(Message \cup {Pill})
        /\ batch' \in [Writers -> SUBSET Item(Message \cup {Pill})]
        /\ fd' \in [Writers -> Fds \cup {None}]
        /\ wire' \in [Fds -> Seq(Unit)]
    BY <1>1 DEF TypeOK
  <2>4. /\ open' \subseteq Fds /\ mixed' \subseteq Fds
        /\ sent' \in Nat /\ killed' \in Nat
    BY <1>1 DEF TypeOK
  <2>5. retry_count' \in [Writers -> 1 .. Retries]
    BY <1>1, RetriesStart DEF TypeOK
  <2> QED
    BY <2>1, <2>2, <2>3, <2>4, <2>5 DEF TypeOK
<1>3. BatchHeld'
  BY <1>1 DEF TypeOK, BatchHeld
<1>4. Going' = Going /\ Awake' = Awake
  BY <1>1 DEF TypeOK, Going, Awake, Doomed
<1> QED
  BY <1>2, <1>3, <1>4, QuietStep

LEMMA SessionStep ==
    ASSUME IInv, NEW f \in Fds, CloseSession(f) \/ OpenSession(f)
    PROVE  IInv'
<1> USE DEF CloseSession, OpenSession
<1>1. TypeOK /\ BatchHeld
  BY DEF IInv
<1>2. TypeOK'
  <2>1. wire' \in [Fds -> Seq(Unit)]
    <3>1. wire \in [Fds -> Seq(Unit)] /\ <<>> \in Seq(Unit)
      BY <1>1, EmptySeq DEF TypeOK
    <3>2. wire' = wire \/ wire' = [wire EXCEPT ![f] = <<>>]
      OBVIOUS
    <3> QED
      BY <3>1, <3>2
  <2>2. open' \subseteq Fds /\ mixed' \subseteq Fds
    BY <1>1 DEF TypeOK
  <2>3. /\ output_queue' \in List(Message \cup {Pill})
        /\ pc' \in [Writers -> States]
        /\ batch' \in [Writers -> SUBSET Item(Message \cup {Pill})]
        /\ fd' \in [Writers -> Fds \cup {None}]
    BY <1>1 DEF TypeOK
  <2>4. /\ buffer' \in [Writers -> Seq(Unit)]
        /\ retry_count' \in [Writers -> 1 .. Retries]
        /\ sent' \in Nat /\ killed' \in Nat
    BY <1>1 DEF TypeOK
  <2> QED
    BY <2>1, <2>2, <2>3, <2>4 DEF TypeOK
<1>3. BatchHeld'
  BY <1>1 DEF BatchHeld
<1>4. Going' = Going /\ Awake' = Awake
  BY DEF Going, Awake, Doomed
<1> QED
  BY <1>2, <1>3, <1>4, QuietStep

(* What ts_dequeue_multiple_messages_for_same_fd takes: some items of the  *)
(* queue, and among them at most one pill.                                 *)
LEMMA PickedItems ==
    ASSUME TypeOK, WellFormed(output_queue), NEW first
    PROVE  /\ PickedMessages(first) \in SUBSET (Items \ Pills)
           /\ PickedPill(first) \in SUBSET Pills
           /\ \A p, q \in PickedPill(first) : p = q
<1>1. PickedMessages(first) \in SUBSET (Items \ Pills)
  BY DEF PickedMessages
<1>2. PickedPill(first) \in SUBSET Pills
      /\ \A p \in PickedPill(first) : IsFirst(p, Pills)
  BY DEF PickedPill
<1>3. ASSUME NEW p \in PickedPill(first), NEW q \in PickedPill(first)
      PROVE  p = q
  <2>1. /\ p \in Pills /\ q \in Pills
        /\ p.pos <= q.pos /\ q.pos <= p.pos
    BY <1>2 DEF IsFirst
  <2>2. p \in Items /\ q \in Items /\ p.pos \in Nat /\ q.pos \in Nat
    BY <2>1 DEF TypeOK, List, Item, Pills, Items
  <2> QED
    BY <2>1, <2>2 DEF WellFormed, UniquePlaces, Items
<1> QED
  BY <1>1, <1>2, <1>3

LEMMA TakeStep ==
    ASSUME IInv, NEW w \in Writers, Take(w)
    PROVE  IInv'
<1>1. TypeOK /\ WellFormed(output_queue) /\ BatchHeld /\ EnoughAwake
  BY DEF IInv
<1>2. /\ pc[w] = "ready" /\ pc' = [pc EXCEPT ![w] = "filtering"]
      /\ UNCHANGED <<buffer, retry_count, open, wire, sent, killed>>
  BY DEF Take
<1>3. PICK first \in Items :
         LET picked == PickedMessages(first) \cup PickedPill(first)
             f == first.data.fd
         IN  /\ output_queue' = Unchain(output_queue, Items \ picked)
             /\ batch' = [batch EXCEPT ![w] = picked]
             /\ fd' = [fd EXCEPT ![w] = f]
             /\ mixed' = IF \E v \in Writers \ {w} : Serves(v, f)
                         THEN mixed \cup ({f} \ {None}) ELSE mixed
  BY DEF Take
<1> DEFINE M == PickedMessages(first)
           P == PickedPill(first)
           D == Message \cup {Pill}
<1>4. M \in SUBSET (Items \ Pills) /\ P \in SUBSET Pills /\ \A p, q \in P : p = q
  BY <1>1, PickedItems
<1>5. /\ output_queue' = Unchain(output_queue, Items \ (M \cup P))
      /\ batch' = [batch EXCEPT ![w] = M \cup P]
  BY <1>3
<1>6. first.data.fd \in Fds \cup {None}
  <2>1. first.data \in D
    BY <1>1 DEF TypeOK, List, Item, Items
  <2> QED
    BY <2>1, MessageOrPill
<1> HIDE DEF M, P
<1>7. Pills \in SUBSET Items /\ Items = output_queue.items
  BY DEF Pills, Items
<1>8. output_queue' \in List(D) /\ WellFormed(output_queue)'
  <2>1. output_queue \in List(D) /\ Items \ (M \cup P) \in SUBSET output_queue.items
    BY <1>1, <1>7 DEF TypeOK
  <2> HIDE DEF D
  <2> QED
    BY <1>1, <1>5, <2>1, UnchainWellFormed
<1>9. TypeOK'
  <2>1. pc' \in [Writers -> States]
    BY <1>1, <1>2 DEF TypeOK, States
  <2>2. batch' \in [Writers -> SUBSET Item(D)]
    <3>1. M \cup P \in SUBSET Item(D)
      BY <1>1, <1>4, <1>7 DEF TypeOK, List
    <3> QED
      BY <1>1, <1>5, <3>1 DEF TypeOK
  <2>3. fd' \in [Writers -> Fds \cup {None}]
    BY <1>1, <1>3, <1>6 DEF TypeOK
  <2>4. mixed' \subseteq Fds
    BY <1>1, <1>3, <1>6 DEF TypeOK
  <2>5. /\ buffer' \in [Writers -> Seq(Unit)] /\ wire' \in [Fds -> Seq(Unit)]
        /\ open' \subseteq Fds /\ sent' \in Nat /\ killed' \in Nat
        /\ retry_count' \in [Writers -> 1 .. Retries]
    BY <1>1, <1>2 DEF TypeOK
  <2> QED
    BY <1>8, <2>1, <2>2, <2>3, <2>4, <2>5 DEF TypeOK
<1>10. BatchHeld'
  BY <1>1, <1>2, <1>5 DEF TypeOK, BatchHeld
<1>11. Items' = Items \ (M \cup P) /\ Pills' = Pills \ P
  BY <1>4, <1>5, <1>7 DEF Items, Pills, IsPill, Unchain
<1>12. Items' # Pills' => Items # Pills
  BY <1>4, <1>7, <1>11
<1>13. batch[w] = {} /\ w \in Awake /\ w \in Going
  BY <1>1, <1>2 DEF TypeOK, BatchHeld, Awake, Going, Doomed
<1>14. \A v \in Writers \ {w} : (v \in Going' <=> v \in Going)
                                /\ (v \in Awake' <=> v \in Awake)
  BY <1>1, <1>2, <1>5 DEF TypeOK, Awake, Going, Doomed
<1>15. Going \in SUBSET Writers /\ Going' \in SUBSET Writers
       /\ Awake \in SUBSET Writers /\ Awake' \in SUBSET Writers
  BY DEF Going, Awake
<1>16. CASE P = {}
  <2>1. w \in Going' /\ w \in Awake'
    BY <1>1, <1>2, <1>4, <1>5, <1>16 DEF TypeOK, Awake, Going, Doomed, Pills
  <2>2. Going' = Going /\ Awake' = Awake /\ Pills' = Pills
    <3>1. Pills' = Pills
      BY <1>11, <1>16
    <3>2. Going' = Going
      BY ONLY <1>13, <1>14, <1>15, <2>1, SMTT(30)
    <3>3. Awake' = Awake
      BY ONLY <1>13, <1>14, <1>15, <2>1, SMTT(30)
    <3> QED
      BY <3>1, <3>2, <3>3
  <2>3. EnoughAwake'
    BY <1>1, <1>12, <2>2 DEF EnoughAwake
  <2> QED
    BY <1>8, <1>9, <1>10, <2>3 DEF IInv
<1>17. CASE P # {}
  <2>1. PICK p : P = {p} /\ p \in Pills
    BY <1>4, <1>17
  <2>2. w \notin Going'
    <3>1. p \in batch'[w] /\ p.data.fd = None
      BY <1>1, <1>5, <2>1 DEF TypeOK, Pills, IsPill
    <3> QED
      BY <3>1 DEF Going, Doomed, IsPill
  <2>3. Going' = Going \ {w} /\ Awake' = Awake \ {w}
    <3>1. w \notin Awake'
      BY <2>2 DEF Awake
    <3> QED
      BY <1>14, <1>15, <2>2, <3>1
  <2>4. Pills' = Pills \ {p}
    BY <1>11, <2>1
  <2>5. /\ Cardinality(Awake') = Cardinality(Awake) - 1
        /\ Cardinality(Pills') = Cardinality(Pills) - 1
        /\ Cardinality(Awake) \in Nat /\ Cardinality(Pills) \in Nat
    BY <1>1, <1>13, <2>1, <2>3, <2>4, FiniteGroups, FinitePills,
       FS_RemoveElement
  <2>6. EnoughAwake'
    BY <1>1, <1>12, <2>3, <2>5 DEF EnoughAwake
  <2> QED
    BY <1>8, <1>9, <1>10, <2>6 DEF IInv
<1> QED
  BY <1>16, <1>17

-----------------------------------------------------------------------------
LEMMA InitIInv == Init => IInv
<1> SUFFICES ASSUME Init PROVE IInv
  OBVIOUS
<1> USE DEF Init
<1>1. output_queue \in List(Message \cup {Pill}) /\ WellFormed(output_queue)
  BY EmptyListWellFormed
<1>2. <<>> \in Seq(Unit)
  BY EmptySeq
<1>3. TypeOK
  <2>1. buffer \in [Writers -> Seq(Unit)] /\ wire \in [Fds -> Seq(Unit)]
    BY <1>2
  <2>2. pc \in [Writers -> States] /\ fd \in [Writers -> Fds \cup {None}]
    BY DEF States
  <2>3. batch \in [Writers -> SUBSET Item(Message \cup {Pill})]
    OBVIOUS
  <2>4. retry_count \in [Writers -> 1 .. Retries]
    BY RetriesStart
  <2> QED
    BY <1>1, <2>1, <2>2, <2>3, <2>4 DEF TypeOK
<1>4. BatchHeld
  BY DEF BatchHeld
<1>5. Awake = Going
  BY DEF Awake, Going
<1> QED
  BY <1>1, <1>3, <1>4, <1>5 DEF IInv, EnoughAwake

LEMMA NextIInv == IInv /\ [Next]_vars => IInv'
<1> SUFFICES ASSUME IInv, [Next]_vars PROVE IInv'
  OBVIOUS
<1>1. CASE UNCHANGED vars
  <2> USE <1>1 DEF vars
  <2>1. TypeOK'
    BY TypeFrame DEF IInv, TypeOK
  <2>2. BatchHeld' /\ Going' = Going /\ Awake' = Awake
    BY DEF IInv, BatchHeld, Going, Awake, Doomed
  <2> QED
    BY <2>1, <2>2, QuietStep
<1>2. CASE Produce
  BY <1>2, ts_enqueueStep, ts_enqueue_multipleStep, KillStep DEF Produce
<1>3. CASE Sessions
  BY <1>3, SessionStep DEF Sessions
<1>4. ASSUME NEW w \in Writers, WriterStep(w) \/ SpuriousWakeup(w)
      PROVE  IInv'
  BY <1>4, WaitStep, TakeStep, FilterPillStep, FilterMessageStep, WriteStep,
     WriteFailsStep, GiveUpStep, SpuriousWakeupStep DEF WriterStep
<1> QED
  BY <1>1, <1>2, <1>3, <1>4 DEF Next

(* The types of the writer threads' state, and EnoughAwake, hold in every  *)
(* reachable state, however many writers and messages there are.           *)
THEOREM IInvHolds == Spec => []IInv
BY InitIInv, NextIInv, PTL DEF Spec

(* Every step of a writer and of the producers keeps the types of the      *)
(* queue, the batches, the buffers and the wire.                           *)
THEOREM TypeOKHolds == Spec => []TypeOK
<1>1. IInv => TypeOK
  BY DEF IInv
<1> QED
  BY <1>1, IInvHolds, PTL

(* However many pills and messages are queued, and however few signals     *)
(* ts_enqueue_multiple sends, the writers awake suffice for them: each     *)
(* pill ends one, and one is left for the messages.                        *)
THEOREM EnoughAwakeHolds == Spec => []EnoughAwake
<1>1. IInv => EnoughAwake
  BY DEF IInv
<1> QED
  BY <1>1, IInvHolds, PTL

(* No signal is lost: with something in the queue, some writer that still  *)
(* runs is not asleep in pthread_cond_wait.  The awake writers that go on  *)
(* number at least the pills; if none goes on, a writer that is not done   *)
(* holds a pill and so is looking through its batch.                       *)
THEOREM NoLostWakeupHolds == Spec => []NoLostWakeup
<1>1. IInv => NoLostWakeup
  <2> SUFFICES ASSUME IInv, Items # {}, NEW v \in Writers, pc[v] # "exited"
               PROVE  \E w \in Writers : pc[w] # "exited" /\ pc[w] # "waiting"
    BY DEF NoLostWakeup, Live
  <2>1. BatchHeld /\ EnoughAwake /\ WellFormed(output_queue)
    BY DEF IInv
  <2>2. CASE Going = {}
    <3>1. Doomed(v)
      BY <2>2 DEF Going
    <3> QED
      BY <2>1, <3>1 DEF Doomed, BatchHeld
  <2>3. ASSUME Going # {}, Awake = {}
        PROVE  FALSE
    <3>1. Cardinality(Awake) = 0
      BY <2>3, FS_EmptySet
    <3>2. IsFiniteSet(Pills) /\ Cardinality(Pills) \in Nat
      BY <2>1, FinitePills
    <3>3. /\ 0 >= Cardinality(Pills)
          /\ Items # Pills => 0 > Cardinality(Pills)
      BY <2>1, <2>3, <3>1 DEF EnoughAwake
    <3>4. Pills = {}
      BY <3>2, <3>3, FS_EmptySet
    <3> QED
      BY <3>2, <3>3, <3>4
  <2>4. Awake # {} => \E w \in Writers : pc[w] # "exited" /\ pc[w] # "waiting"
    BY DEF Awake, Going, Doomed
  <2> QED
    BY <2>2, <2>3, <2>4
<1> QED
  BY <1>1, IInvHolds, PTL

-----------------------------------------------------------------------------
(* The order of the messages.  TakenInOrder is not inductive: that a new   *)
(* message is younger than what the writers hold, and that the rest of the *)
(* queue is younger than what one of them takes, follows from the numbers  *)
(* of all that is queued, taken and buffered.                              *)

(* A writer has a batch exactly while it looks through it, and a buffer    *)
(* only then and while it writes it.                                       *)
Held ==
    \A w \in Writers :
        /\ batch[w] # {} <=> pc[w] = "filtering"
        /\ pc[w] = "writing" => buffer[w] # <<>>
        /\ buffer[w] # <<>> => pc[w] \in {"filtering", "writing"}

(* The messages of S were queued, in the order of their places. *)
Ascending(S) ==
    /\ \A x \in S : ~IsPill(x) => x.data.id <= sent
    /\ \A x, y \in S : ~IsPill(x) /\ ~IsPill(y) /\ x.pos < y.pos
                        => x.data.id < y.data.id

BatchInOrder ==
    \A w \in Writers :
        /\ IsFiniteSet(batch[w]) /\ UniquePlaces(batch[w])
        /\ Ascending(batch[w])
        /\ \A x \in batch[w] : ~IsPill(x) => x.data.fd = fd[w]

BufferInOrder ==
    \A w \in Writers : \A k \in 1 .. Len(buffer[w]) :
        /\ buffer[w][k].id <= sent
        /\ \A x \in batch[w] : ~IsPill(x) => buffer[w][k].id < x.data.id

OrderInv ==
    /\ IInv /\ Held
    /\ Ascending(Items) /\ BatchInOrder /\ BufferInOrder
    /\ TakenInOrder

(* What the fields of an item are. *)
LEMMA ItemFields ==
    ASSUME NEW x \in Item(Message \cup {Pill})
    PROVE  /\ x.pos \in Nat /\ x.data.id \in Nat /\ x.data.frame_len \in Nat
           /\ IsPill(x) => x.data.frame_len = 0
           /\ ~IsPill(x) => x.data \in Message /\ x.data.fd \in Fds
                            /\ x.data.frame_len \in Nat
<1>1. x.pos \in Nat /\ x.data \in Message \cup {Pill}
  BY DEF Item
<1>2. CASE x.data \in Message
  <2>1. /\ x.data.id \in Nat /\ x.data.fd \in Fds /\ x.data.frame_len \in Nat
        /\ x.data.fd # None
    BY <1>2 DEF Message
  <2>2. x.data.frame_len \in Nat
    BY <2>1
  <2> QED
    BY <1>1, <1>2, <2>1, <2>2 DEF IsPill
<1>3. CASE x.data = Pill
  BY <1>1, <1>3 DEF Pill, IsPill
<1> QED
  BY <1>1, <1>2, <1>3

LEMMA ItemsTyped ==
    ASSUME TypeOK
    PROVE  /\ Items \in SUBSET Item(Message \cup {Pill})
           /\ \A w \in Writers : batch[w] \in SUBSET Item(Message \cup {Pill})
           /\ \A w \in Writers : buffer[w] \in Seq(Unit) /\ Len(buffer[w]) \in Nat
           /\ sent \in Nat
<1>1. Items \in SUBSET Item(Message \cup {Pill})
  BY DEF TypeOK, List, Items
<1>2. \A w \in Writers : batch[w] \in SUBSET Item(Message \cup {Pill})
  BY DEF TypeOK
<1>3. ASSUME NEW w \in Writers
      PROVE  buffer[w] \in Seq(Unit) /\ Len(buffer[w]) \in Nat
  BY DEF TypeOK
<1>4. sent \in Nat
  BY DEF TypeOK
<1> QED
  BY <1>1, <1>2, <1>3, <1>4

(* A producer puts messages behind the queue, with new numbers. *)
LEMMA ProducerKeepsOrder ==
    ASSUME OrderInv, IInv', Signal, UNCHANGED <<batch, fd, buffer>>,
           sent <= sent',
           \A y \in Items' :
              \/ y \in Items
              \/ IsPill(y)
              \/ sent < y.data.id /\ y.data.id <= sent',
           Ascending(Items)'
    PROVE  OrderInv'
<1>1. /\ TypeOK /\ Held /\ Ascending(Items) /\ BatchInOrder /\ BufferInOrder
      /\ TakenInOrder
  BY DEF OrderInv, IInv
<1>2. sent \in Nat /\ sent' \in Nat
  BY DEF OrderInv, IInv, TypeOK
<1>3. Held'
  <2>1. \A w \in Writers : pc'[w] = pc[w] \/ (pc[w] = "waiting" /\ pc'[w] = "ready")
    BY <1>1 DEF Signal, TypeOK
  <2> QED
    BY <1>1, <2>1 DEF Held
<1>4. BatchInOrder'
  <2> SUFFICES ASSUME NEW w \in Writers
               PROVE  /\ IsFiniteSet(batch[w]) /\ UniquePlaces(batch[w])
                      /\ Ascending(batch[w])'
                      /\ \A x \in batch[w] : ~IsPill(x) => x.data.fd = fd[w]
    BY DEF BatchInOrder, UniquePlaces, IsPill
  <2>1. Ascending(batch[w])'
    <3>1. \A x \in batch[w] : x.data.id \in Nat
      BY <1>1, ItemsTyped, ItemFields
    <3>2. Ascending(batch[w])
      BY <1>1 DEF BatchInOrder
    <3> QED
      BY <1>2, <3>1, <3>2 DEF Ascending, IsPill
  <2> QED
    BY <1>1, <2>1 DEF BatchInOrder
<1>5. BufferInOrder'
  <2> SUFFICES ASSUME NEW w \in Writers, NEW k \in 1 .. Len(buffer[w])
               PROVE  /\ buffer[w][k].id <= sent'
                      /\ \A x \in batch[w] : ~IsPill(x)
                                              => buffer[w][k].id < x.data.id
    BY DEF BufferInOrder, IsPill
  <2>1. buffer[w][k] \in Unit
    BY <1>1, ItemsTyped, ElementOfSeq
  <2>2. buffer[w][k].id \in Nat
    BY <2>1 DEF Unit
  <2> QED
    BY <1>1, <1>2, <2>2 DEF BufferInOrder
<1>6. TakenInOrder'
  <2> SUFFICES ASSUME NEW w \in Writers, NEW y \in Items',
                      y.data.fd = fd[w], y.data.fd # None
               PROVE  /\ \A x \in batch[w] : ~IsPill(x) => x.data.id < y.data.id
                      /\ \A k \in 1 .. Len(buffer[w]) :
                            buffer[w][k].id < y.data.id
    BY DEF TakenInOrder, IsPill
  <2>1. CASE y \in Items
    BY <1>1, <2>1 DEF TakenInOrder
  <2>2. CASE sent < y.data.id
    <3>1. y.data.id \in Nat
      <4>1. Items' \in SUBSET Item(Message \cup {Pill})
        BY DEF IInv, TypeOK, List, Items
      <4> QED
        BY <4>1, ItemFields
    <3>2. \A x \in batch[w] : x.data.id \in Nat
      BY <1>1, ItemsTyped, ItemFields
    <3>3. \A x \in batch[w] : ~IsPill(x) => x.data.id <= sent
      BY <1>1 DEF BatchInOrder, Ascending
    <3>4. ASSUME NEW k \in 1 .. Len(buffer[w])
          PROVE  buffer[w][k].id < y.data.id
      <4>1. buffer[w][k] \in Unit
        BY <1>1, ItemsTyped, ElementOfSeq
      <4>2. buffer[w][k].id \in Nat /\ buffer[w][k].id <= sent
        BY <1>1, <4>1 DEF Unit, BufferInOrder
      <4> QED
        BY <1>2, <2>2, <3>1, <4>2
    <3> QED
      BY <1>2, <2>2, <3>1, <3>2, <3>3, <3>4
  <2> QED
    BY <2>1, <2>2 DEF IsPill
<1> QED
  BY <1>3, <1>4, <1>5, <1>6 DEF OrderInv

LEMMA ts_enqueueKeepsOrder ==
    ASSUME OrderInv, NEW f \in Fds, NEW c \in Contents, ts_enqueue(f, c)
    PROVE  OrderInv'
<1> DEFINE i == [pos |-> output_queue.last + 1,
                 data |-> NewMessage(sent + 1, f, c)]
<1>1. IInv /\ IInv' /\ Ascending(Items)
  BY ts_enqueueStep DEF OrderInv
<1>2. /\ Signal /\ UNCHANGED <<batch, fd, buffer>>
      /\ sent \in Nat /\ sent' = sent + 1
      /\ Items' = Items \cup {i}
  BY <1>1 DEF ts_enqueue, Enqueue, Items, IInv, TypeOK
<1>3. \A x \in Items : x.pos \in Nat /\ x.data.id \in Nat /\ x.pos < i.pos
  <2>1. output_queue.last \in Nat
    BY <1>1 DEF IInv, TypeOK, List
  <2>2. \A x \in Items : x.pos \in Nat /\ x.data.id \in Nat
    BY <1>1, ItemsTyped, ItemFields DEF IInv
  <2> QED
    BY <1>1, <2>1, <2>2 DEF IInv, WellFormed, Items
<1>4. i.data.id = sent + 1 /\ i.pos \in Nat /\ i.data.fd # None
  <2>1. sent + 1 \in Nat /\ i.pos \in Nat
    BY <1>1 DEF IInv, TypeOK, List
  <2> QED
    BY <2>1, NewMessageFields
<1> HIDE DEF i
<1>5. Ascending(Items)'
  BY <1>1, <1>2, <1>3, <1>4 DEF Ascending, IsPill
<1>6. \A y \in Items' :
         y \in Items \/ (sent < y.data.id /\ y.data.id <= sent')
  BY <1>2, <1>4
<1>7. sent <= sent'
  BY <1>2
<1> QED
  BY <1>1, <1>2, <1>5, <1>6, <1>7, ProducerKeepsOrder

LEMMA ts_enqueue_multipleKeepsOrder ==
    ASSUME OrderInv, NEW f \in Fds, NEW g \in Fds, NEW c \in Contents,
           ts_enqueue_multiple(<<f, g>>, c)
    PROVE  OrderInv'
<1> DEFINE fds == <<f, g>>
           item(i) == [pos |-> i, data |-> NewMessage(sent + i, fds[i], c)]
           S == {item(i) : i \in 1 .. Len(fds)}
           place(x) == output_queue.last + 1 + Rank(S, x)
           T == {[pos |-> place(x), data |-> x.data] : x \in S}
<1>1. IInv /\ IInv' /\ Ascending(Items)
  BY ts_enqueue_multipleStep DEF OrderInv
<1>2. /\ Signal /\ UNCHANGED <<batch, fd, buffer>>
      /\ sent \in Nat /\ sent' = sent + 2
      /\ Items' = Items \cup T
  BY <1>1 DEF ts_enqueue_multiple, EnqueueMultiple, Items, IInv, TypeOK
<1>3. /\ S = {item(1), item(2)} /\ IsFiniteSet(S)
      /\ \A x \in S : x.pos \in {1, 2} /\ x.data.id = sent + x.pos
  <2>1. 1 .. Len(fds) = {1, 2}
    OBVIOUS
  <2>2. S = {item(1)} \cup {item(2)}
    BY <2>1
  <2>3. IsFiniteSet(S)
    <3> HIDE DEF item, S
    <3>1. IsFiniteSet({item(1)})
      BY FS_Singleton
    <3> QED
      BY <2>2, <3>1, FS_AddElement
  <2>4. ASSUME NEW i \in {1, 2}
        PROVE  item(i).pos \in {1, 2} /\ item(i).data.id = sent + item(i).pos
    <3>1. sent + i \in Nat /\ fds[i] \in Fds
      BY <1>2
    <3> HIDE DEF fds
    <3>2. NewMessage(sent + i, fds[i], c).id = sent + i
      BY <3>1, NewMessageFields
    <3> QED
      BY <3>2
  <2>5. S = {item(1), item(2)}
    BY <2>2
  <2> HIDE DEF item, S
  <2> QED
    BY <2>3, <2>4, <2>5
<1> HIDE DEF S
<1>4. output_queue.last \in Nat
  BY <1>1 DEF IInv, TypeOK, List
<1>5. \A x \in S : Rank(S, x) \in Nat
  BY <1>3, RankBounds
<1>6. \A x, y \in S : place(x) < place(y) => x.pos < y.pos
  <2> SUFFICES ASSUME NEW x \in S, NEW y \in S, ~(x.pos < y.pos)
               PROVE  ~(place(x) < place(y))
    OBVIOUS
  <2>1. x.pos \in Nat /\ y.pos \in Nat
    BY <1>3
  <2>2. CASE y.pos < x.pos
    <3>1. Rank(S, y) < Rank(S, x)
      BY <1>3, <2>2, RankMonotonic
    <3> QED
      BY <1>4, <1>5, <3>1
  <2>3. CASE y.pos = x.pos
    <3>1. Rank(S, y) = Rank(S, x)
      BY <2>3 DEF Rank
    <3> QED
      BY <1>4, <1>5, <3>1
  <2> QED
    BY <2>1, <2>2, <2>3
<1>7. \A y \in T : /\ y.pos \in Nat /\ y.pos > output_queue.last
                   /\ y.data.id \in {sent + 1, sent + 2}
  <2> SUFFICES ASSUME NEW x \in S
               PROVE  /\ place(x) \in Nat /\ place(x) > output_queue.last
                      /\ x.data.id \in {sent + 1, sent + 2}
    OBVIOUS
  <2> QED
    BY <1>3, <1>4, <1>5
<1>8. \A y, z \in T : y.pos < z.pos => y.data.id < z.data.id
  <2> SUFFICES ASSUME NEW x \in S, NEW y \in S, place(x) < place(y)
               PROVE  x.data.id < y.data.id
    OBVIOUS
  <2>1. x.pos < y.pos /\ x.pos \in Nat /\ y.pos \in Nat
    BY <1>3, <1>6
  <2>2. x.data.id = sent + x.pos /\ y.data.id = sent + y.pos
    BY <1>3
  <2> QED
    BY <1>2, <2>1, <2>2
<1> HIDE DEF T
<1>9. \A x \in Items : /\ x.pos \in Nat /\ x.data.id \in Nat
                       /\ x.pos <= output_queue.last
  <2>1. \A x \in Items : x.pos \in Nat /\ x.data.id \in Nat
    BY <1>1, ItemsTyped, ItemFields DEF IInv
  <2> QED
    BY <1>1, <2>1 DEF IInv, WellFormed, Items
<1>10. Ascending(Items)'
  <2>1. \A x \in Items' : ~IsPill(x) => x.data.id <= sent'
    BY <1>1, <1>2, <1>7, <1>9 DEF Ascending, IsPill
  <2>2. ASSUME NEW x \in Items', NEW y \in Items', ~IsPill(x), ~IsPill(y),
               x.pos < y.pos
        PROVE  x.data.id < y.data.id
    <3>1. CASE x \in Items /\ y \in Items
      BY <1>1, <2>2, <3>1 DEF Ascending
    <3>2. CASE x \in Items /\ y \in T
      <4>1. x.data.id <= sent /\ x.data.id \in Nat
        BY <1>1, <1>9, <2>2, <3>2 DEF Ascending
      <4> QED
        BY <1>2, <1>7, <3>2, <4>1
    <3>3. CASE x \in T /\ y \in Items
      BY <1>4, <1>7, <1>9, <2>2, <3>3
    <3>4. CASE x \in T /\ y \in T
      BY <1>8, <2>2, <3>4
    <3> QED
      BY <1>2, <3>1, <3>2, <3>3, <3>4
  <2> QED
    BY <2>1, <2>2 DEF Ascending, IsPill
<1>11. \A y \in Items' :
          y \in Items \/ (sent < y.data.id /\ y.data.id <= sent')
  BY <1>2, <1>7
<1>12. sent <= sent'
  BY <1>2
<1> QED
  BY <1>1, <1>2, <1>10, <1>11, <1>12, ProducerKeepsOrder

LEMMA KillKeepsOrder ==
    ASSUME OrderInv, Kill
    PROVE  OrderInv'
<1> DEFINE p == [pos |-> output_queue.last + 1, data |-> Pill]
<1>1. IInv /\ IInv' /\ Ascending(Items)
  BY KillStep DEF OrderInv
<1>2. /\ Signal /\ UNCHANGED <<batch, fd, buffer, sent>> /\ sent \in Nat
      /\ Items' = Items \cup {p} /\ IsPill(p)
  BY <1>1 DEF Kill, Enqueue, Items, IInv, TypeOK, IsPill, Pill
<1> HIDE DEF p
<1>3. Ascending(Items)'
  BY <1>1, <1>2 DEF Ascending, IsPill
<1>4. sent <= sent' /\ \A y \in Items' : y \in Items \/ IsPill(y)
  BY <1>2
<1> QED
  BY <1>1, <1>2, <1>3, <1>4, ProducerKeepsOrder

(* A step that only moves messages from batches into buffers, or drops     *)
(* them, in their order.                                                   *)
LEMMA WriterKeepsOrder ==
    ASSUME OrderInv, IInv', Held', UNCHANGED <<output_queue, fd, sent>>,
           \A w \in Writers : batch'[w] \in SUBSET batch[w],
           \A w \in Writers : \A k \in 1 .. Len(buffer'[w]) :
              \/ \E j \in 1 .. Len(buffer[w]) : buffer'[w][k].id = buffer[w][j].id
              \/ \E x \in batch[w] \ batch'[w] :
                    /\ IsFirst(x, batch[w]) /\ ~IsPill(x)
                    /\ buffer'[w][k].id = x.data.id
    PROVE  OrderInv'
<1>1. /\ TypeOK /\ Ascending(Items) /\ BatchInOrder /\ BufferInOrder
      /\ TakenInOrder
  BY DEF OrderInv, IInv
<1>2. Items' = Items /\ sent' = sent /\ fd' = fd
  BY DEF Items
<1>3. Ascending(Items)'
  BY <1>1, <1>2 DEF Ascending, IsPill
<1>4. BatchInOrder'
  <2> SUFFICES ASSUME NEW w \in Writers
               PROVE  /\ IsFiniteSet(batch'[w]) /\ UniquePlaces(batch'[w])
                      /\ Ascending(batch[w])'
                      /\ \A x \in batch'[w] : ~IsPill(x) => x.data.fd = fd[w]
    BY <1>2 DEF BatchInOrder, UniquePlaces, IsPill
  <2>1. IsFiniteSet(batch'[w])
    BY <1>1, FS_Subset DEF BatchInOrder
  <2>2. UniquePlaces(batch'[w])
    BY <1>1 DEF BatchInOrder, UniquePlaces
  <2>3. Ascending(batch[w])'
    BY <1>1, <1>2 DEF BatchInOrder, Ascending, IsPill
  <2> QED
    BY <1>1, <2>1, <2>2, <2>3 DEF BatchInOrder
<1>5. BufferInOrder'
  <2> SUFFICES ASSUME NEW w \in Writers, NEW k \in 1 .. Len(buffer'[w])
               PROVE  /\ buffer'[w][k].id <= sent
                      /\ \A x \in batch'[w] : ~IsPill(x)
                                              => buffer'[w][k].id < x.data.id
    BY <1>2 DEF BufferInOrder, IsPill
  <2>1. CASE \E j \in 1 .. Len(buffer[w]) : buffer'[w][k].id = buffer[w][j].id
    BY <1>1, <2>1 DEF BufferInOrder
  <2>2. ASSUME NEW x \in batch[w] \ batch'[w], IsFirst(x, batch[w]),
               ~IsPill(x), buffer'[w][k].id = x.data.id
        PROVE  /\ buffer'[w][k].id <= sent
               /\ \A y \in batch'[w] : ~IsPill(y)
                                       => buffer'[w][k].id < y.data.id
    <3>1. x.data.id <= sent
      BY <1>1, <2>2 DEF BatchInOrder, Ascending
    <3>2. ASSUME NEW y \in batch'[w], ~IsPill(y)
          PROVE  x.data.id < y.data.id
      <4>1. y \in batch[w] /\ y # x /\ x.pos \in Nat /\ y.pos \in Nat
        BY <1>1, ItemsTyped, ItemFields
      <4>2. x.pos <= y.pos /\ x.pos # y.pos
        BY <1>1, <2>2, <4>1 DEF IsFirst, BatchInOrder, UniquePlaces
      <4> QED
        BY <1>1, <2>2, <3>2, <4>1, <4>2 DEF BatchInOrder, Ascending
    <3> QED
      BY <2>2, <3>1, <3>2
  <2> QED
    BY <2>1, <2>2
<1>6. TakenInOrder'
  <2> SUFFICES ASSUME NEW w \in Writers, NEW y \in Items,
                      y.data.fd = fd[w], y.data.fd # None
               PROVE  /\ \A x \in batch'[w] : ~IsPill(x) => x.data.id < y.data.id
                      /\ \A k \in 1 .. Len(buffer'[w]) :
                            buffer'[w][k].id < y.data.id
    BY <1>2 DEF TakenInOrder, IsPill
  <2>1. /\ \A x \in batch[w] : ~IsPill(x) => x.data.id < y.data.id
        /\ \A j \in 1 .. Len(buffer[w]) : buffer[w][j].id < y.data.id
    BY <1>1 DEF TakenInOrder
  <2>2. \A x \in batch'[w] : ~IsPill(x) => x.data.id < y.data.id
    BY <2>1
  <2>3. ASSUME NEW k \in 1 .. Len(buffer'[w])
        PROVE  buffer'[w][k].id < y.data.id
    <3>1. CASE \E j \in 1 .. Len(buffer[w]) :
                  buffer'[w][k].id = buffer[w][j].id
      BY <2>1, <3>1
    <3>2. CASE \E x \in batch[w] : ~IsPill(x) /\ buffer'[w][k].id = x.data.id
      BY <2>1, <3>2
    <3> QED
      BY <3>1, <3>2
  <2> QED
    BY <2>2, <2>3
<1> QED
  BY <1>3, <1>4, <1>5, <1>6 DEF OrderInv

(* The steps that leave batches and buffers alone. *)
LEMMA IdleKeepsOrder ==
    ASSUME OrderInv, IInv',
           UNCHANGED <<output_queue, batch, fd, buffer, sent>>,
           \A w \in Writers : \/ pc'[w] = pc[w]
                              \/ {pc[w], pc'[w]} = {"ready", "waiting"}
    PROVE  OrderInv'
<1>1. Held'
  <2> SUFFICES ASSUME NEW w \in Writers
               PROVE  /\ batch[w] # {} <=> pc'[w] = "filtering"
                      /\ pc'[w] = "writing" => buffer[w] # <<>>
                      /\ buffer[w] # <<>> => pc'[w] \in {"filtering", "writing"}
    BY DEF Held
  <2>1. pc'[w] = pc[w] \/ (pc[w] \in {"ready", "waiting"}
                           /\ pc'[w] \in {"ready", "waiting"})
    OBVIOUS
  <2> QED
    BY <2>1 DEF OrderInv, Held
<1>2. \A w \in Writers : batch'[w] \in SUBSET batch[w]
  OBVIOUS
<1>3. \A w \in Writers : \A k \in 1 .. Len(buffer'[w]) :
         \E j \in 1 .. Len(buffer[w]) : buffer'[w][k].id = buffer[w][j].id
  OBVIOUS
<1> QED
  BY <1>1, <1>2, <1>3, WriterKeepsOrder

(* The loop over the batch of writer w leaves it or goes on. *)
LEMMA FilterPillKeepsOrder ==
    ASSUME OrderInv, NEW w \in Writers, FilterPill(w)
    PROVE  OrderInv'
<1>1. IInv' /\ TypeOK /\ Held
  BY FilterPillStep DEF OrderInv, IInv
<1>2. /\ UNCHANGED <<output_queue, fd, sent>>
      /\ batch' = [batch EXCEPT ![w] = {}]
      /\ buffer' = [buffer EXCEPT ![w] = <<>>]
      /\ pc' = [pc EXCEPT ![w] = "exited"]
  BY DEF FilterPill
<1>3. Held'
  BY <1>1, <1>2 DEF Held, TypeOK
<1>4. \A v \in Writers : batch'[v] \in SUBSET batch[v]
  BY <1>1, <1>2 DEF TypeOK
<1>5. \A v \in Writers : \A k \in 1 .. Len(buffer'[v]) :
         \E j \in 1 .. Len(buffer[v]) : buffer'[v][k].id = buffer[v][j].id
  <2> SUFFICES ASSUME NEW v \in Writers, NEW k \in 1 .. Len(buffer'[v])
               PROVE  \E j \in 1 .. Len(buffer[v]) :
                         buffer'[v][k].id = buffer[v][j].id
    OBVIOUS
  <2>1. v # w
    BY <1>1, <1>2 DEF TypeOK
  <2> QED
    BY <1>1, <1>2, <2>1 DEF TypeOK
<1> QED
  BY <1>1, <1>2, <1>3, <1>4, <1>5, WriterKeepsOrder

LEMMA GiveUpKeepsOrder ==
    ASSUME OrderInv, NEW w \in Writers, GiveUp(w)
    PROVE  OrderInv'
<1>1. IInv' /\ TypeOK /\ Held
  BY GiveUpStep DEF OrderInv, IInv
<1>2. /\ UNCHANGED <<output_queue, batch, fd, sent>>
      /\ buffer' = [buffer EXCEPT ![w] = <<>>]
      /\ pc[w] = "writing" /\ pc' = [pc EXCEPT ![w] = "ready"]
  BY DEF GiveUp
<1>3. Held'
  BY <1>1, <1>2 DEF Held, TypeOK
<1>4. \A v \in Writers : batch'[v] \in SUBSET batch[v]
  BY <1>2
<1>5. \A v \in Writers : \A k \in 1 .. Len(buffer'[v]) :
         \E j \in 1 .. Len(buffer[v]) : buffer'[v][k].id = buffer[v][j].id
  <2> SUFFICES ASSUME NEW v \in Writers, NEW k \in 1 .. Len(buffer'[v])
               PROVE  \E j \in 1 .. Len(buffer[v]) :
                         buffer'[v][k].id = buffer[v][j].id
    OBVIOUS
  <2>1. v # w
    BY <1>1, <1>2 DEF TypeOK
  <2> QED
    BY <1>1, <1>2, <2>1 DEF TypeOK
<1> QED
  BY <1>1, <1>2, <1>3, <1>4, <1>5, WriterKeepsOrder

(* write() cuts the buffer in two. *)
LEMMA CutBuffer ==
    ASSUME NEW s \in Seq(Unit), NEW n \in 1 .. Len(s)
    PROVE  /\ SubSeq(s, 1, n) \in Seq(Unit) /\ Len(SubSeq(s, 1, n)) = n
           /\ \A k \in 1 .. n : SubSeq(s, 1, n)[k] = s[k]
           /\ SubSeq(s, n + 1, Len(s)) \in Seq(Unit)
           /\ Len(SubSeq(s, n + 1, Len(s))) = Len(s) - n
           /\ \A k \in 1 .. Len(s) - n : SubSeq(s, n + 1, Len(s))[k] = s[n + k]
<1>1. Len(s) \in Nat /\ n \in Nat /\ n <= Len(s)
  OBVIOUS
<1>2. \A k \in 1 .. Len(s) : s[k] \in Unit
  BY ElementOfSeq
<1>3. /\ SubSeq(s, 1, n) \in Seq(Unit) /\ Len(SubSeq(s, 1, n)) = n
      /\ \A k \in 1 .. n : SubSeq(s, 1, n)[k] = s[k]
  BY <1>1, <1>2
<1>4. /\ SubSeq(s, n + 1, Len(s)) \in Seq(Unit)
      /\ Len(SubSeq(s, n + 1, Len(s))) = Len(s) - n
      /\ \A k \in 1 .. Len(s) - n : SubSeq(s, n + 1, Len(s))[k] = s[n + k]
  BY <1>1, <1>2
<1> QED
  BY <1>3, <1>4

LEMMA WriteKeepsOrder ==
    ASSUME OrderInv, NEW w \in Writers, NEW n, Write(w, n)
    PROVE  OrderInv'
<1> DEFINE rest == SubSeq(buffer[w], n + 1, Len(buffer[w]))
<1>1. IInv' /\ TypeOK /\ Held
  BY WriteStep DEF OrderInv, IInv
<1>2. /\ UNCHANGED <<output_queue, batch, fd, sent>>
      /\ buffer' = [buffer EXCEPT ![w] = rest]
      /\ pc[w] = "writing"
      /\ pc' = [pc EXCEPT ![w] = IF n = Len(buffer[w]) THEN "ready"
                                 ELSE "writing"]
      /\ n \in 1 .. Len(buffer[w])
  BY DEF Write
<1>3. /\ Len(buffer[w]) \in Nat /\ rest \in Seq(Unit)
      /\ Len(rest) = Len(buffer[w]) - n
      /\ \A k \in 1 .. Len(buffer[w]) - n : rest[k] = buffer[w][n + k]
  BY <1>1, <1>2, ItemsTyped, CutBuffer
<1>4. n = Len(buffer[w]) <=> rest = <<>>
  <2>1. rest = <<>> <=> Len(rest) = 0
    BY <1>3, EmptySeq
  <2> QED
    BY <1>2, <1>3, <2>1
<1> HIDE DEF rest
<1>5. Held'
  BY <1>1, <1>2, <1>4 DEF Held, TypeOK
<1>6. \A v \in Writers : batch'[v] \in SUBSET batch[v]
  BY <1>2
<1>7. \A v \in Writers : \A k \in 1 .. Len(buffer'[v]) :
         \E j \in 1 .. Len(buffer[v]) : buffer'[v][k].id = buffer[v][j].id
  <2> SUFFICES ASSUME NEW v \in Writers, NEW k \in 1 .. Len(buffer'[v])
               PROVE  \E j \in 1 .. Len(buffer[v]) :
                         buffer'[v][k].id = buffer[v][j].id
    OBVIOUS
  <2>1. CASE v # w
    BY <1>1, <1>2, <2>1 DEF TypeOK
  <2>2. CASE v = w
    <3>1. buffer'[v] = rest
      BY <1>1, <1>2, <2>2 DEF TypeOK
    <3>2. n + k \in 1 .. Len(buffer[w]) /\ rest[k] = buffer[w][n + k]
      BY <1>2, <1>3, <3>1
    <3> QED
      BY <2>2, <3>1, <3>2
  <2> QED
    BY <2>1, <2>2
<1> QED
  BY <1>1, <1>2, <1>5, <1>6, <1>7, WriterKeepsOrder

(* What ws_output_filter appends for a message. *)
LEMMA UnitsFields ==
    ASSUME NEW m \in Message
    PROVE  /\ Units(m) \in Seq(Unit) /\ Len(Units(m)) \in Nat
           /\ Len(Units(m)) > 0
           /\ \A k \in 1 .. Len(Units(m)) :
                 /\ Units(m)[k].id = m.id /\ Units(m)[k].part = k
                 /\ Units(m)[k].len = Len(Units(m))
                 /\ Units(m)[k].frame_len = m.frame_len
<1>1. WrittenLen(m) \in Nat /\ WrittenLen(m) > 0
  BY WrittenType
<1>2. Units(m) \in Seq(Unit)
  BY UnitsType
<1>3. DOMAIN Units(m) = 1 .. WrittenLen(m)
  BY DEF Units
<1>4. Len(Units(m)) = WrittenLen(m)
  BY <1>1, <1>2, <1>3, LenProperties
<1> QED
  BY <1>1, <1>2, <1>4 DEF Units

LEMMA FilterMessageKeepsOrder ==
    ASSUME OrderInv, NEW w \in Writers, FilterMessage(w)
    PROVE  OrderInv'
<1>1. IInv' /\ TypeOK /\ Held
  BY FilterMessageStep DEF OrderInv, IInv
<1>2. PICK item \in batch[w] :
         LET rest == batch[w] \ {item}
             filled == IF item.data.fd \in open
                       THEN buffer[w] \o Units(item.data) ELSE buffer[w]
         IN  /\ IsFirst(item, batch[w]) /\ ~IsPill(item)
             /\ batch' = [batch EXCEPT ![w] = rest]
             /\ buffer' = [buffer EXCEPT ![w] = filled]
             /\ pc' = [pc EXCEPT ![w] = IF rest # {} THEN "filtering"
                                        ELSE IF filled = <<>> THEN "ready"
                                        ELSE "writing"]
  BY DEF FilterMessage
<1> DEFINE filled == IF item.data.fd \in open
                     THEN buffer[w] \o Units(item.data) ELSE buffer[w]
<1>3. /\ UNCHANGED <<output_queue, fd, sent>> /\ pc[w] = "filtering"
      /\ batch' = [batch EXCEPT ![w] = batch[w] \ {item}]
      /\ buffer' = [buffer EXCEPT ![w] = filled]
      /\ pc' = [pc EXCEPT ![w] = IF batch[w] \ {item} # {} THEN "filtering"
                                 ELSE IF filled = <<>> THEN "ready"
                                 ELSE "writing"]
  BY <1>2 DEF FilterMessage
<1>4. item.data \in Message /\ buffer[w] \in Seq(Unit) /\ Len(buffer[w]) \in Nat
  BY <1>1, <1>2, ItemsTyped, ItemFields
<1>5. \A k \in 1 .. Len(filled) :
         \/ k \in 1 .. Len(buffer[w]) /\ filled[k].id = buffer[w][k].id
         \/ filled[k].id = item.data.id
  <2> DEFINE u == Units(item.data)
  <2>1. /\ u \in Seq(Unit) /\ Len(u) \in Nat
        /\ \A k \in 1 .. Len(u) : u[k].id = item.data.id
    BY <1>4, UnitsFields
  <2> HIDE DEF u
  <2>2. /\ Len(buffer[w] \o u) = Len(buffer[w]) + Len(u)
        /\ \A k \in 1 .. Len(buffer[w]) + Len(u) :
              (buffer[w] \o u)[k] = IF k <= Len(buffer[w]) THEN buffer[w][k]
                                    ELSE u[k - Len(buffer[w])]
    BY <1>4, <2>1, ConcatProperties, ZenonT(30)
  <2>3. ASSUME NEW k \in 1 .. Len(buffer[w]) + Len(u)
        PROVE  \/ k \in 1 .. Len(buffer[w])
                  /\ (buffer[w] \o u)[k].id = buffer[w][k].id
               \/ (buffer[w] \o u)[k].id = item.data.id
    <3>1. k <= Len(buffer[w]) \/ k - Len(buffer[w]) \in 1 .. Len(u)
      BY <1>4, <2>1
    <3> QED
      BY <1>4, <2>1, <2>2, <3>1
  <2>4. filled = buffer[w] \o u \/ filled = buffer[w]
    BY DEF u
  <2> HIDE DEF filled
  <2> QED
    BY <2>2, <2>3, <2>4
<1> HIDE DEF filled
<1>6. Held'
  BY <1>1, <1>3 DEF Held, TypeOK
<1>7. \A v \in Writers : batch'[v] \in SUBSET batch[v]
  BY <1>1, <1>3 DEF TypeOK
<1>8. \A v \in Writers : \A k \in 1 .. Len(buffer'[v]) :
         \/ \E j \in 1 .. Len(buffer[v]) : buffer'[v][k].id = buffer[v][j].id
         \/ \E x \in batch[v] \ batch'[v] :
               /\ IsFirst(x, batch[v]) /\ ~IsPill(x)
               /\ buffer'[v][k].id = x.data.id
  <2> SUFFICES ASSUME NEW v \in Writers, NEW k \in 1 .. Len(buffer'[v])
               PROVE  \/ \E j \in 1 .. Len(buffer[v]) :
                            buffer'[v][k].id = buffer[v][j].id
                      \/ \E x \in batch[v] \ batch'[v] :
                            /\ IsFirst(x, batch[v]) /\ ~IsPill(x)
                            /\ buffer'[v][k].id = x.data.id
    OBVIOUS
  <2>1. CASE v # w
    BY <1>1, <1>3, <2>1 DEF TypeOK
  <2>2. CASE v = w
    <3>1. buffer'[v] = filled /\ item \in batch[v] \ batch'[v]
      BY <1>1, <1>3, <2>2 DEF TypeOK
    <3> QED
      BY <1>2, <1>5, <2>2, <3>1
  <2> QED
    BY <2>1, <2>2
<1> QED
  BY <1>1, <1>3, <1>6, <1>7, <1>8, WriterKeepsOrder

-----------------------------------------------------------------------------
(* How long messages are together. *)

(* Finitely many items have a length, and it adds up. *)
LEMMA LengthAdds ==
    ASSUME NEW S, IsFiniteSet(S), \A i \in S : i.data.frame_len \in Nat
    PROVE  /\ Length(S) \in Nat
           /\ \A T \in SUBSET S : Length(T) \in Nat /\ Length(T) <= Length(S)
           /\ \A i \in S : Length(S) = Length(S \ {i}) + i.data.frame_len
<1> DEFINE len == [i \in S |-> i.data.frame_len]
<1>1. len \in [S -> Nat] /\ \A i \in S : len[i] = i.data.frame_len
  OBVIOUS
<1> HIDE DEF len
<1>2. \A T \in SUBSET S : Length(T) = Cardinality(Pieces(T, len))
  <2> SUFFICES ASSUME NEW T \in SUBSET S
               PROVE  {{i} \X (1 .. i.data.frame_len) : i \in T} =
                      {{i} \X (1 .. len[i]) : i \in T}
    BY DEF Length, Pieces
  <2> QED
    BY <1>1
<1>3. /\ \A T \in SUBSET S :
            /\ Cardinality(Pieces(T, len)) \in Nat
            /\ Cardinality(Pieces(T, len)) <= Cardinality(Pieces(S, len))
      /\ \A i \in S : Cardinality(Pieces(S, len)) =
                        Cardinality(Pieces(S \ {i}, len)) + len[i]
  BY <1>1, PiecesAdd
<1>4. S \in SUBSET S /\ \A i \in S : S \ {i} \in SUBSET S
  OBVIOUS
<1>5. ASSUME NEW i \in S
      PROVE  Length(S) = Length(S \ {i}) + i.data.frame_len
  BY <1>1, <1>2, <1>3, <1>4
<1> QED
  BY <1>2, <1>3, <1>4, <1>5

LEMMA QueueLengths ==
    ASSUME TypeOK, WellFormed(output_queue), NEW S \in SUBSET Items
    PROVE  IsFiniteSet(S) /\ \A i \in S : i.data.frame_len \in Nat
<1>1. IsFiniteSet(Items)
  BY DEF WellFormed, Items
<1>2. IsFiniteSet(S)
  BY <1>1, FS_Subset
<1> QED
  BY <1>2, ItemsTyped, ItemFields

(* The loop of ts_dequeue_multiple_messages_for_same_fd stops at the first *)
(* message that does not fit: what it leaves for the descriptor is behind  *)
(* what it takes.                                                          *)
LEMMA PickedPrefix ==
    ASSUME TypeOK, WellFormed(output_queue),
           NEW first \in Items, IsFirst(first, Items),
           NEW x \in PickedMessages(first), NEW y \in Items,
           y \notin PickedMessages(first), y.data.fd = first.data.fd, ~IsPill(y)
    PROVE  x.pos < y.pos
<1>1. x \in Items /\ x \notin Pills /\ y \notin Pills
      /\ x.data.fd = first.data.fd /\ \A p \in Pills : x.pos < p.pos
  BY DEF PickedMessages, Pills
<1>2. \A i \in Items : i.pos \in Nat /\ i.data.frame_len \in Nat
  BY ItemsTyped, ItemFields
<1>3. SUFFICES ASSUME y.pos < x.pos PROVE FALSE
  <2>1. x # y
    OBVIOUS
  <2>2. x.pos # y.pos
    BY <1>1, <2>1 DEF WellFormed, UniquePlaces, Items
  <2> QED
    BY <1>1, <1>2, <2>2
<1>4. x # first
  BY <1>2, <1>3 DEF IsFirst
<1>5. /\ Cardinality(Before(x)) < BatchSize
      /\ Length(Before(x)) + x.data.frame_len <= BufferSize
  BY <1>4 DEF PickedMessages
<1>6. \A p \in Pills : y.pos < p.pos
  <2> SUFFICES ASSUME NEW p \in Pills PROVE y.pos < p.pos
    OBVIOUS
  <2>1. x.pos < p.pos /\ p.pos \in Nat
    BY <1>1, <1>2 DEF Pills
  <2> QED
    BY <1>1, <1>2, <1>3, <2>1
<1>7. /\ y \in Before(x) /\ Before(x) \in SUBSET Items
      /\ Before(y) \in SUBSET (Before(x) \ {y})
  BY <1>1, <1>2, <1>3 DEF Before
<1>8. IsFiniteSet(Before(x)) /\ \A i \in Before(x) : i.data.frame_len \in Nat
  BY <1>7, QueueLengths
<1>9. Cardinality(Before(y)) < BatchSize
  <2>1. Before(y) \in SUBSET Before(x)
    BY <1>7
  <2>2. Cardinality(Before(y)) <= Cardinality(Before(x)) /\ IsFiniteSet(Before(y))
    BY <1>8, <2>1, FS_Subset
  <2>3. Cardinality(Before(y)) \in Nat /\ Cardinality(Before(x)) \in Nat
    BY <1>8, <2>2, FS_CardinalityType
  <2> QED
    BY <1>5, <2>2, <2>3
<1>10. Length(Before(y)) + y.data.frame_len <= BufferSize
  <2>1. /\ Length(Before(x)) \in Nat
        /\ Length(Before(x)) = Length(Before(x) \ {y}) + y.data.frame_len
    BY <1>7, <1>8, LengthAdds
  <2>2. IsFiniteSet(Before(x) \ {y})
        /\ \A i \in Before(x) \ {y} : i.data.frame_len \in Nat
    BY <1>8, FS_RemoveElement
  <2>3. /\ Length(Before(x) \ {y}) \in Nat /\ Length(Before(y)) \in Nat
        /\ Length(Before(y)) <= Length(Before(x) \ {y})
    BY <1>7, <2>2, LengthAdds
  <2>4. x.data.frame_len \in Nat /\ y.data.frame_len \in Nat /\ BufferSize \in Nat
    BY <1>1, <1>2
  <2> QED
    BY <1>5, <2>1, <2>3, <2>4
<1>11. y \in PickedMessages(first)
  BY <1>1, <1>6, <1>9, <1>10 DEF PickedMessages
<1> QED
  BY <1>11

(* What Take does, by its parts. *)
LEMMA TakeParts ==
    ASSUME IInv, NEW w \in Writers, Take(w)
    PROVE  \E first \in Items, P \in SUBSET Pills :
              /\ IsFirst(first, Items)
              /\ P = PickedPill(first) /\ \A p, q \in P : p = q
              /\ Items' = Items \ (PickedMessages(first) \cup P)
              /\ PickedMessages(first) \in SUBSET (Items \ Pills)
              /\ batch' = [batch EXCEPT ![w] = PickedMessages(first) \cup P]
              /\ batch'[w] # {}
              /\ fd' = [fd EXCEPT ![w] = first.data.fd]
              /\ mixed' = IF \E v \in Writers \ {w} : Serves(v, first.data.fd)
                          THEN mixed \cup ({first.data.fd} \ {None}) ELSE mixed
              /\ pc[w] = "ready" /\ pc' = [pc EXCEPT ![w] = "filtering"]
              /\ UNCHANGED <<buffer, open, wire, sent, killed>>
<1>1. TypeOK /\ WellFormed(output_queue)
  BY DEF IInv
<1>2. PICK first \in Items :
         LET picked == PickedMessages(first) \cup PickedPill(first)
             f == first.data.fd
         IN  /\ IsFirst(first, Items)
             /\ output_queue' = Unchain(output_queue, Items \ picked)
             /\ batch' = [batch EXCEPT ![w] = picked]
             /\ fd' = [fd EXCEPT ![w] = f]
             /\ mixed' = IF \E v \in Writers \ {w} : Serves(v, f)
                         THEN mixed \cup ({f} \ {None}) ELSE mixed
  BY DEF Take
<1> DEFINE M == PickedMessages(first)
           P == PickedPill(first)
<1>3. M \in SUBSET (Items \ Pills) /\ P \in SUBSET Pills /\ \A p, q \in P : p = q
  BY <1>1, PickedItems
<1>4. first \in M \cup P
  <2>1. CASE first \in Pills
    <3>1. IsFirst(first, Pills)
      BY <1>2, <2>1 DEF IsFirst, Pills
    <3> QED
      BY <2>1, <3>1 DEF PickedPill
  <2>2. CASE first \notin Pills
    <3>1. \A p \in Pills : first.pos < p.pos
      <4> SUFFICES ASSUME NEW p \in Pills PROVE first.pos < p.pos
        OBVIOUS
      <4>1. p \in Items /\ first.pos <= p.pos /\ p # first
        BY <1>2, <2>2 DEF Pills, IsFirst
      <4>2. first.pos # p.pos
        BY <1>1, <4>1 DEF WellFormed, UniquePlaces, Items
      <4>3. first.pos \in Nat /\ p.pos \in Nat
        BY <1>1, <4>1, ItemsTyped, ItemFields
      <4> QED
        BY <4>1, <4>2, <4>3
    <3> QED
      BY <2>2, <3>1 DEF PickedMessages
  <2> QED
    BY <2>1, <2>2
<1>5. Items' = Items \ (M \cup P)
  BY <1>2 DEF Items, Unchain
<1>6. batch' = [batch EXCEPT ![w] = M \cup P] /\ batch'[w] # {}
  BY <1>1, <1>2, <1>4 DEF TypeOK
<1>7. /\ IsFirst(first, Items)
      /\ fd' = [fd EXCEPT ![w] = first.data.fd]
      /\ mixed' = IF \E v \in Writers \ {w} : Serves(v, first.data.fd)
                  THEN mixed \cup ({first.data.fd} \ {None}) ELSE mixed
  BY <1>2
<1>8. /\ pc[w] = "ready" /\ pc' = [pc EXCEPT ![w] = "filtering"]
      /\ UNCHANGED <<buffer, retry_count, open, wire, sent, killed>>
  BY DEF Take
<1>9. P = PickedPill(first)
  OBVIOUS
<1> HIDE DEF P
<1> QED
  BY <1>3, <1>5, <1>6, <1>7, <1>8, <1>9 DEF M

LEMMA TakeKeepsOrder ==
    ASSUME OrderInv, NEW w \in Writers, Take(w)
    PROVE  OrderInv'
<1>1. IInv /\ TypeOK /\ WellFormed(output_queue) /\ Held /\ Ascending(Items)
      /\ BatchInOrder /\ BufferInOrder /\ TakenInOrder /\ IInv'
  BY TakeStep DEF OrderInv, IInv
<1>2. PICK first \in Items, P \in SUBSET Pills :
         /\ IsFirst(first, Items)
         /\ Items' = Items \ (PickedMessages(first) \cup P)
         /\ PickedMessages(first) \in SUBSET (Items \ Pills)
         /\ batch' = [batch EXCEPT ![w] = PickedMessages(first) \cup P]
         /\ batch'[w] # {}
         /\ fd' = [fd EXCEPT ![w] = first.data.fd]
         /\ pc[w] = "ready" /\ pc' = [pc EXCEPT ![w] = "filtering"]
         /\ UNCHANGED <<buffer, sent>>
  BY <1>1, TakeParts
<1> DEFINE M == PickedMessages(first)
<1>3. batch'[w] = M \cup P /\ M \cup P \in SUBSET Items /\ fd'[w] = first.data.fd
  BY <1>1, <1>2 DEF TypeOK, Pills
<1>4. \A x \in M : ~IsPill(x) /\ x.data.fd = first.data.fd
  BY DEF PickedMessages, Pills
<1>5. \A x \in P : IsPill(x)
  BY DEF Pills
<1>6. \A v \in Writers : v # w => batch'[v] = batch[v] /\ fd'[v] = fd[v]
  BY <1>1, <1>2 DEF TypeOK
<1>7. buffer[w] = <<>> /\ Len(buffer[w]) = 0
  BY <1>1, <1>2 DEF Held
<1>8. Held'
  BY <1>1, <1>2, <1>6 DEF Held, TypeOK
<1>9. Ascending(Items)'
  BY <1>1, <1>2 DEF Ascending, IsPill
<1>10. BatchInOrder'
  <2> SUFFICES ASSUME NEW v \in Writers
               PROVE  /\ IsFiniteSet(batch'[v]) /\ UniquePlaces(batch'[v])
                      /\ Ascending(batch[v])'
                      /\ \A x \in batch'[v] : ~IsPill(x) => x.data.fd = fd'[v]
    BY DEF BatchInOrder, UniquePlaces, IsPill
  <2>1. CASE v = w
    <3>1. IsFiniteSet(batch'[w])
      BY <1>1, <1>3, QueueLengths
    <3>2. UniquePlaces(batch'[w])
      BY <1>1, <1>3 DEF WellFormed, UniquePlaces, Items
    <3>3. Ascending(batch[w])'
      BY <1>1, <1>2, <1>3 DEF Ascending, IsPill
    <3> QED
      BY <1>3, <1>4, <1>5, <2>1, <3>1, <3>2, <3>3
  <2>2. CASE v # w
    <3>1. Ascending(batch[v])'
      BY <1>1, <1>2, <1>6, <2>2 DEF BatchInOrder, Ascending, IsPill
    <3> QED
      BY <1>1, <1>6, <2>2, <3>1 DEF BatchInOrder
  <2> QED
    BY <2>1, <2>2
<1>11. BufferInOrder'
  <2> SUFFICES ASSUME NEW v \in Writers, NEW k \in 1 .. Len(buffer[v])
               PROVE  /\ buffer[v][k].id <= sent
                      /\ \A x \in batch'[v] : ~IsPill(x)
                                              => buffer[v][k].id < x.data.id
    BY <1>2 DEF BufferInOrder, IsPill
  <2>1. v # w
    BY <1>7
  <2> QED
    BY <1>1, <1>6, <2>1 DEF BufferInOrder
<1>12. TakenInOrder'
  <2> SUFFICES ASSUME NEW v \in Writers, NEW y \in Items',
                      y.data.fd = fd'[v], y.data.fd # None
               PROVE  /\ \A x \in batch'[v] : ~IsPill(x) => x.data.id < y.data.id
                      /\ \A k \in 1 .. Len(buffer[v]) :
                            buffer[v][k].id < y.data.id
    BY <1>2 DEF TakenInOrder, IsPill
  <2>1. y \in Items /\ y \notin M
    BY <1>2
  <2>2. CASE v # w
    BY <1>1, <1>6, <2>1, <2>2 DEF TakenInOrder
  <2>3. CASE v = w
    <3>1. ~IsPill(y) /\ y.data.fd = first.data.fd
      BY <1>3, <2>3 DEF IsPill
    <3>2. ASSUME NEW x \in batch'[v], ~IsPill(x)
          PROVE  x.data.id < y.data.id
      <4>1. x \in M /\ x \in Items
        BY <1>3, <1>5, <2>3, <3>2
      <4>2. x.pos < y.pos
        BY <1>1, <1>2, <2>1, <3>1, <4>1, PickedPrefix
      <4> QED
        BY <1>1, <2>1, <3>1, <3>2, <4>1, <4>2 DEF Ascending
    <3> QED
      BY <1>7, <2>3, <3>2
  <2> QED
    BY <2>2, <2>3
<1> QED
  BY <1>1, <1>8, <1>9, <1>10, <1>11, <1>12 DEF OrderInv

LEMMA InitOrderInv == Init => OrderInv
<1> SUFFICES ASSUME Init PROVE OrderInv
  OBVIOUS
<1>1. IInv
  BY InitIInv
<1>2. Items = {} /\ \A w \in Writers : batch[w] = {} /\ buffer[w] = <<>>
                                       /\ pc[w] = "ready"
  BY DEF Init, Items, EmptyList
<1>3. \A w \in Writers : Len(buffer[w]) = 0
  BY <1>2
<1>4. Held
  BY <1>2 DEF Held
<1>5. BatchInOrder
  BY <1>2, FS_EmptySet DEF BatchInOrder, UniquePlaces, Ascending
<1> QED
  BY <1>1, <1>2, <1>3, <1>4, <1>5
     DEF OrderInv, Ascending, BufferInOrder, TakenInOrder

LEMMA NextOrderInv == OrderInv /\ [Next]_vars => OrderInv'
<1> SUFFICES ASSUME OrderInv, [Next]_vars PROVE OrderInv'
  OBVIOUS
<1>1. IInv /\ IInv' /\ TypeOK
  BY NextIInv DEF OrderInv, IInv
<1>2. CASE UNCHANGED vars
  BY <1>1, <1>2, IdleKeepsOrder DEF vars
<1>3. CASE Produce
  BY <1>3, ts_enqueueKeepsOrder, ts_enqueue_multipleKeepsOrder, KillKeepsOrder
     DEF Produce
<1>4. ASSUME NEW f \in Fds, CloseSession(f) \/ OpenSession(f)
      PROVE  OrderInv'
  <2>1. UNCHANGED <<output_queue, batch, fd, buffer, sent, pc>>
    BY <1>4 DEF CloseSession, OpenSession
  <2> QED
    BY <1>1, <2>1, IdleKeepsOrder
<1>5. ASSUME NEW w \in Writers, Wait(w) \/ SpuriousWakeup(w) \/ WriteFails(w)
      PROVE  OrderInv'
  <2>1. UNCHANGED <<output_queue, batch, fd, buffer, sent>>
    BY <1>5 DEF Wait, SpuriousWakeup, WriteFails
  <2>2. \A v \in Writers : \/ pc'[v] = pc[v]
                           \/ {pc[v], pc'[v]} = {"ready", "waiting"}
    BY <1>1, <1>5 DEF Wait, SpuriousWakeup, WriteFails, TypeOK
  <2> QED
    BY <1>1, <2>1, <2>2, IdleKeepsOrder
<1>6. ASSUME NEW w \in Writers, WriterStep(w) \/ SpuriousWakeup(w)
      PROVE  OrderInv'
  BY <1>5, <1>6, TakeKeepsOrder, FilterPillKeepsOrder, FilterMessageKeepsOrder,
     WriteKeepsOrder, GiveUpKeepsOrder DEF WriterStep
<1> QED
  BY <1>2, <1>3, <1>4, <1>6 DEF Next, Sessions

(* What is queued, taken and buffered stays in the order in which it was   *)
(* put on the queue.                                                       *)
THEOREM OrderInvHolds == Spec => []OrderInv
BY InitOrderInv, NextOrderInv, PTL DEF Spec

(* A writer never overtakes the queue: however the messages of several     *)
(* descriptors are mixed in it, and wherever the limits of a batch cut it, *)
(* what ts_dequeue_multiple_messages_for_same_fd leaves for a descriptor   *)
(* is younger than what it took.                                           *)
THEOREM TakenInOrderHolds == Spec => []TakenInOrder
<1>1. OrderInv => TakenInOrder
  BY DEF OrderInv
<1> QED
  BY <1>1, OrderInvHolds, PTL

-----------------------------------------------------------------------------
(* The write buffer is large enough.  What is expected of the batch, and   *)
(* the bytes of the buffer that were expected, fit it together; the only   *)
(* other case is a single message too large for the buffer.                *)

(* The bytes that frame_len counts; a longer message has more behind them. *)
Covered(s) == {k \in 1 .. Len(s) : s[k].part <= s[k].frame_len}

Fitting(b, s) == Length(b) + Cardinality(Covered(s)) <= BufferSize

TooLarge(b, s) ==
    \/ s = <<>> /\ \E i : b = {i} /\ i.data.frame_len > BufferSize
    \/ b = {} /\ \A k \in 1 .. Len(s) : s[k].frame_len > BufferSize

Bounded(s) == \A k \in 1 .. Len(s) : s[k].part <= s[k].len

FitsInv ==
    \A w \in Writers : /\ Bounded(buffer[w])
                       /\ \/ Fitting(batch[w], buffer[w])
                          \/ TooLarge(batch[w], buffer[w])

LEMMA CoveredFinite ==
    ASSUME NEW s \in Seq(Unit)
    PROVE  IsFiniteSet(Covered(s)) /\ Cardinality(Covered(s)) \in Nat
<1>1. Covered(s) \in SUBSET (1 .. Len(s)) /\ Len(s) \in Nat
  BY DEF Covered
<1>2. IsFiniteSet(1 .. Len(s))
  BY <1>1, FS_Interval
<1> QED
  BY <1>1, <1>2, FS_Subset, FS_CardinalityType

LEMMA CoveredEmpty == Cardinality(Covered(<<>>)) = 0
<1>1. Covered(<<>>) = {}
  BY DEF Covered
<1> QED
  BY <1>1, FS_EmptySet

(* write() takes bytes away from the front. *)
LEMMA CoveredCut ==
    ASSUME NEW s \in Seq(Unit), NEW n \in 1 .. Len(s)
    PROVE  Cardinality(Covered(SubSeq(s, n + 1, Len(s))))
              <= Cardinality(Covered(s))
<1> DEFINE t == SubSeq(s, n + 1, Len(s))
           S == Covered(t)
           T == Covered(s)
           f == [k \in S |-> k + n]
<1>1. /\ Len(t) = Len(s) - n /\ Len(s) \in Nat
      /\ \A k \in 1 .. Len(s) - n : t[k] = s[n + k]
  BY CutBuffer
<1> HIDE DEF t
<1>2. \A k \in S : k \in Nat /\ k + n \in T
  <2> SUFFICES ASSUME NEW k \in S PROVE k \in Nat /\ k + n \in T
    OBVIOUS
  <2>1. k \in 1 .. Len(s) - n /\ t[k].part <= t[k].frame_len
    BY <1>1 DEF Covered
  <2>2. k + n \in 1 .. Len(s) /\ t[k] = s[k + n]
    BY <1>1, <2>1
  <2> QED
    BY <2>1, <2>2 DEF Covered
<1>3. IsFiniteSet(T)
  BY CoveredFinite
<1> HIDE DEF S, T
<1>4. f \in Injection(S, T)
  <2>1. f \in [S -> T]
    BY <1>2
  <2>2. \A x, y \in S : f[x] = f[y] => x = y
    BY <1>2
  <2> QED
    BY <2>1, <2>2 DEF Injection, IsInjective
<1> HIDE DEF f
<1>5. Cardinality(S) <= Cardinality(T)
  BY <1>3, <1>4, FS_Injection
<1> QED
  BY <1>5 DEF S, T, t

(* A message adds no more such bytes than were expected. *)
LEMMA CoveredGrows ==
    ASSUME NEW s \in Seq(Unit), NEW m \in Message
    PROVE  Cardinality(Covered(s \o Units(m)))
              <= Cardinality(Covered(s)) + m.frame_len
<1> DEFINE u == Units(m)
           t == s \o u
           A == Covered(s)
           B == (Len(s) + 1) .. (Len(s) + m.frame_len)
           C == Covered(t)
<1>1. /\ u \in Seq(Unit) /\ Len(u) \in Nat
      /\ \A k \in 1 .. Len(u) : u[k].part = k /\ u[k].frame_len = m.frame_len
  BY UnitsFields
<1>2. m.frame_len \in Nat /\ Len(s) \in Nat
  BY WrittenType
<1> HIDE DEF u
<1>3. /\ Len(t) = Len(s) + Len(u)
      /\ \A k \in 1 .. Len(s) + Len(u) :
            t[k] = IF k <= Len(s) THEN s[k] ELSE u[k - Len(s)]
  BY <1>1, ConcatProperties, ZenonT(30)
<1> HIDE DEF t
<1>4. C \in SUBSET (A \cup B)
  <2> SUFFICES ASSUME NEW k \in C PROVE k \in A \cup B
    OBVIOUS
  <2>1. k \in 1 .. Len(s) + Len(u) /\ t[k].part <= t[k].frame_len
    BY <1>3 DEF Covered
  <2>2. CASE k <= Len(s)
    <3>1. k \in 1 .. Len(s) /\ t[k] = s[k]
      BY <1>2, <1>3, <2>1, <2>2
    <3> QED
      BY <2>1, <3>1 DEF Covered
  <2>3. CASE ~(k <= Len(s))
    <3>1. k - Len(s) \in 1 .. Len(u) /\ t[k] = u[k - Len(s)]
      BY <1>1, <1>2, <1>3, <2>1, <2>3
    <3>2. k - Len(s) <= m.frame_len
      BY <1>1, <2>1, <3>1
    <3> QED
      BY <1>2, <2>1, <2>3, <3>2
  <2> QED
    BY <2>2, <2>3
<1>5. IsFiniteSet(A) /\ Cardinality(A) \in Nat
  BY CoveredFinite
<1>6. IsFiniteSet(B) /\ Cardinality(B) = m.frame_len
  <2> DEFINE x == Len(s) + 1
             y == Len(s) + m.frame_len
  <2>1. /\ x \in Int /\ y \in Int
        /\ (IF x > y THEN 0 ELSE y - x + 1) = m.frame_len
    BY <1>2
  <2> HIDE DEF x, y
  <2>2. IsFiniteSet(x .. y) /\ Cardinality(x .. y) = m.frame_len
    BY <2>1, FS_Interval
  <2> QED
    BY <2>2 DEF x, y
<1> HIDE DEF A, B, C
<1>7. IsFiniteSet(A \cup B) /\ IsFiniteSet(A \cap B)
      /\ Cardinality(A \cup B) =
            Cardinality(A) + Cardinality(B) - Cardinality(A \cap B)
  BY <1>5, <1>6, FS_Union, FS_Intersection
<1>8. Cardinality(A \cap B) \in Nat
  BY <1>7, FS_CardinalityType
<1>9. Cardinality(C) <= Cardinality(A \cup B) /\ Cardinality(C) \in Nat
  BY <1>4, <1>7, FS_Subset, FS_CardinalityType
<1>10. Cardinality(C) <= Cardinality(A) + m.frame_len
  BY <1>2, <1>5, <1>6, <1>7, <1>8, <1>9
<1> QED
  BY <1>10 DEF A, C, t, u

(* Of finitely many items one is the last. *)
LEMMA LastItem ==
    ASSUME NEW S, IsFiniteSet(S), S # {}, UniquePlaces(S),
           \A x \in S : x.pos \in Nat
    PROVE  \E z \in S : \A x \in S \ {z} : x.pos < z.pos
<1> DEFINE n == Cardinality(S)
<1>1. n \in Nat /\ n # 0
  BY FS_CardinalityType, FS_EmptySet
<1>2. n - 1 \in Nat /\ n - 1 < Cardinality(S)
  BY <1>1
<1>3. PICK z \in S : Rank(S, z) = n - 1
  BY <1>2, RankOnto
<1>4. \A x \in S : Rank(S, x) \in Nat /\ Rank(S, x) < n
  BY RankBounds
<1>5. ASSUME NEW x \in S \ {z}
      PROVE  x.pos < z.pos
  <2>1. ~(z.pos < x.pos)
    <3>1. z.pos < x.pos => Rank(S, z) < Rank(S, x)
      BY RankMonotonic
    <3>2. Rank(S, x) \in Nat /\ Rank(S, x) < n
      BY <1>4
    <3> HIDE DEF n
    <3> QED
      BY <1>1, <1>3, <3>1, <3>2
  <2>2. x.pos # z.pos
    BY DEF UniquePlaces
  <2> QED
    BY <2>1, <2>2
<1> QED
  BY <1>5

(* What ts_dequeue_multiple_messages_for_same_fd takes fits the buffer, or *)
(* is a single message too large for it.                                   *)
LEMMA PickedFits ==
    ASSUME TypeOK, WellFormed(output_queue),
           NEW first \in Items, IsFirst(first, Items), NEW P \in SUBSET Pills,
           IsFiniteSet(PickedMessages(first) \cup P), \A p, q \in P : p = q,
           P = PickedPill(first)
    PROVE  \/ Length(PickedMessages(first) \cup P) <= BufferSize
           \/ /\ PickedMessages(first) \cup P = {first}
              /\ first.data.frame_len > BufferSize
<1> DEFINE M == PickedMessages(first)
<1>1. /\ M \in SUBSET Items /\ P \in SUBSET Items /\ M \cup P \in SUBSET Items
      /\ M \in SUBSET (Items \ Pills)
  BY DEF PickedMessages, Pills
<1>2. /\ IsFiniteSet(M) /\ \A i \in M : i.data.frame_len \in Nat
      /\ \A i \in M \cup P : i.data.frame_len \in Nat
  BY <1>1, QueueLengths
<1>3. Length(M) \in Nat /\ Length(M \cup P) = Length(M)
  <2>1. Length(M) \in Nat
    <3> HIDE DEF M
    <3> QED
      BY <1>2, LengthAdds
  <2>2. CASE P = {}
    BY <2>1, <2>2
  <2>3. ASSUME NEW p \in P
        PROVE  Length(M \cup P) = Length(M)
    <3>1. (M \cup P) \ {p} = M /\ p \in M \cup P
      BY <1>1, <2>3
    <3>2. p.data.frame_len = 0
      BY <1>1, <2>3, ItemsTyped, ItemFields DEF Pills
    <3> DEFINE U == M \cup P
    <3>3. IsFiniteSet(U) /\ p \in U /\ U \ {p} = M /\ \A i \in U : i.data.frame_len \in Nat
      BY <1>2, <3>1
    <3>4. Length(U) = Length(U \ {p}) + p.data.frame_len
      <4> HIDE DEF U
      <4> QED
        BY <3>3, LengthAdds
    <3> HIDE DEF M, U
    <3>5. Length(U) = Length(M) + 0
      BY <3>2, <3>3, <3>4
    <3>6. Length(U) = Length(M)
      BY <2>1, <3>5
    <3> QED
      BY <3>6 DEF U
  <2> QED
    BY <2>1, <2>2, <2>3
<1>4. \/ Length(M) <= BufferSize
      \/ M = {first} /\ Length(M) = first.data.frame_len /\ Length(M) > BufferSize
  <2>1. CASE M = {}
    <3>1. Length({}) = 0
      BY FS_EmptySet DEF Length
    <3> QED
      BY <2>1, <3>1
  <2>2. CASE M # {}
    <3>1. UniquePlaces(M) /\ \A x \in M : x.pos \in Nat
      BY <1>1, ItemsTyped, ItemFields DEF WellFormed, UniquePlaces, Items
    <3>2. PICK z \in M : \A x \in M \ {z} : x.pos < z.pos
      <4> HIDE DEF M
      <4> QED
        BY <1>2, <2>2, <3>1, LastItem
    <3>3. Length(M) = Length(M \ {z}) + z.data.frame_len
      <4> HIDE DEF M
      <4> QED
        BY <1>2, LengthAdds
    <3>4. z \in Items /\ z.data.frame_len \in Nat
      BY <1>1, ItemsTyped, ItemFields
    <3>5. M \ {z} \in SUBSET Before(z)
      BY <1>1, <3>2 DEF PickedMessages, Before
    <3>6. CASE z = first
      <4>1. M \ {z} = {}
        <5> SUFFICES ASSUME NEW x \in M \ {z} PROVE FALSE
          OBVIOUS
        <5>1. x.pos < first.pos /\ x \in Items
          BY <1>1, <3>2, <3>6
        <5>2. first.pos <= x.pos /\ x.pos \in Nat /\ first.pos \in Nat
          BY <5>1, ItemsTyped, ItemFields DEF IsFirst
        <5> QED
          BY <5>1, <5>2
      <4>2. Length({}) = 0
        BY FS_EmptySet DEF Length
      <4> HIDE DEF M
      <4>3. M = {first}
        BY <3>2, <3>6, <4>1
      <4>4. Length(M) = 0 + first.data.frame_len
        BY <3>3, <3>6, <4>1, <4>2
      <4> QED
        BY <1>3, <3>4, <3>6, <4>3, <4>4
    <3>7. CASE z # first
      <4>1. Length(Before(z)) + z.data.frame_len <= BufferSize
        BY <3>7 DEF PickedMessages
      <4>2. IsFiniteSet(Before(z)) /\ \A i \in Before(z) : i.data.frame_len \in Nat
        <5>1. Before(z) \in SUBSET Items
          BY DEF Before
        <5> QED
          BY <5>1, QueueLengths
      <4>3. /\ Length(M \ {z}) \in Nat /\ Length(Before(z)) \in Nat
            /\ Length(M \ {z}) <= Length(Before(z))
        BY <3>5, <4>2, LengthAdds
      <4> HIDE DEF M
      <4> QED
        BY <3>3, <3>4, <4>1, <4>3
    <3> QED
      BY <3>6, <3>7
  <2> QED
    BY <2>1, <2>2
<1>5. CASE M = {first} /\ Length(M) = first.data.frame_len /\ Length(M) > BufferSize
  <2>1. P = {}
    <3> SUFFICES ASSUME NEW p \in P PROVE FALSE
      OBVIOUS
    <3>1. p # first
      BY <1>1, <1>5
    <3>2. Length(M) < BufferSize
      BY <3>1 DEF PickedPill
    <3> HIDE DEF M
    <3> QED
      BY <1>3, <1>5, <3>2
  <2> QED
    BY <1>5, <2>1
<1> HIDE DEF M
<1>6. CASE Length(M) <= BufferSize
  BY <1>3, <1>6 DEF M
<1> QED
  BY <1>4, <1>5, <1>6 DEF M

LEMMA BatchLengths ==
    ASSUME OrderInv, NEW w \in Writers
    PROVE  /\ IsFiniteSet(batch[w]) /\ Length(batch[w]) \in Nat
           /\ \A i \in batch[w] : i.data.frame_len \in Nat
           /\ buffer[w] \in Seq(Unit) /\ Len(buffer[w]) \in Nat
<1>1. TypeOK /\ BatchInOrder
  BY DEF OrderInv, IInv
<1>2. IsFiniteSet(batch[w]) /\ \A i \in batch[w] : i.data.frame_len \in Nat
  BY <1>1, ItemsTyped, ItemFields DEF BatchInOrder
<1>3. Length(batch[w]) \in Nat
  BY <1>2, LengthAdds
<1> QED
  BY <1>1, <1>2, <1>3, ItemsTyped

(* The steps of writer w change what it has, and no other writer's. *)
LEMMA FitsNext ==
    OrderInv /\ FitsInv /\ [Next]_vars => FitsInv'
<1> SUFFICES ASSUME OrderInv, FitsInv, [Next]_vars PROVE FitsInv'
  OBVIOUS
<1>1. TypeOK /\ WellFormed(output_queue) /\ IInv /\ Held
  BY DEF OrderInv, IInv
<1>2. CASE UNCHANGED <<batch, buffer>>
  BY <1>2 DEF FitsInv, Bounded, Fitting, TooLarge, Length, Covered
<1>3. CASE Produce \/ Sessions \/ UNCHANGED vars
  BY <1>2, <1>3 DEF Produce, Sessions, vars, ts_enqueue, ts_enqueue_multiple,
                    Kill, CloseSession, OpenSession
<1>4. ASSUME NEW w \in Writers, Wait(w) \/ SpuriousWakeup(w) \/ WriteFails(w)
      PROVE  FitsInv'
  BY <1>2, <1>4 DEF Wait, SpuriousWakeup, WriteFails
<1>5. ASSUME NEW w \in Writers, NEW b, NEW s,
             batch' = [batch EXCEPT ![w] = b],
             buffer' = [buffer EXCEPT ![w] = s],
             Bounded(s), Fitting(b, s) \/ TooLarge(b, s)
      PROVE  FitsInv'
  <2> SUFFICES ASSUME NEW v \in Writers
               PROVE  /\ Bounded(buffer'[v])
                      /\ \/ Fitting(batch'[v], buffer'[v])
                         \/ TooLarge(batch'[v], buffer'[v])
    BY DEF FitsInv, Bounded, Fitting, TooLarge, Length, Covered
  <2>1. CASE v = w
    BY <1>1, <1>5, <2>1 DEF TypeOK
  <2>2. CASE v # w
    BY <1>1, <1>5, <2>2 DEF TypeOK, FitsInv
  <2> QED
    BY <2>1, <2>2
<1>0. Bounded(<<>>)
  BY DEF Bounded
<1>6. ASSUME NEW w \in Writers, Take(w)
      PROVE  FitsInv'
  <2>1. PICK first \in Items, P \in SUBSET Pills :
           /\ IsFirst(first, Items) /\ P = PickedPill(first)
           /\ \A p, q \in P : p = q
           /\ PickedMessages(first) \in SUBSET (Items \ Pills)
           /\ batch' = [batch EXCEPT ![w] = PickedMessages(first) \cup P]
           /\ pc[w] = "ready"
           /\ UNCHANGED buffer
    BY <1>1, <1>6, TakeParts
  <2> DEFINE b == PickedMessages(first) \cup P
  <2>2. b \in SUBSET Items
    BY <2>1 DEF Pills
  <2>3. IsFiniteSet(b) /\ \A i \in b : i.data.frame_len \in Nat
    BY <1>1, <2>2, QueueLengths
  <2>4. \/ Length(b) <= BufferSize
        \/ b = {first} /\ first.data.frame_len > BufferSize
    BY <1>1, <2>1, <2>3, PickedFits
  <2>5. buffer[w] = <<>>
    BY <1>1, <2>1 DEF Held
  <2>6. buffer' = [buffer EXCEPT ![w] = <<>>] /\ batch' = [batch EXCEPT ![w] = b]
    BY <1>1, <2>1, <2>5 DEF TypeOK
  <2> HIDE DEF b
  <2>7. Length(b) \in Nat
    BY <2>3, LengthAdds
  <2>8. Fitting(b, <<>>) \/ TooLarge(b, <<>>)
    BY <2>4, <2>7, CoveredEmpty DEF Fitting, TooLarge
  <2> QED
    BY <1>0, <1>5, <2>6, <2>8
<1>7. ASSUME NEW w \in Writers, FilterPill(w)
      PROVE  FitsInv'
  <2>1. TooLarge({}, <<>>)
    BY DEF TooLarge
  <2> QED
    BY <1>0, <1>5, <1>7, <2>1 DEF FilterPill
<1>8. ASSUME NEW w \in Writers, GiveUp(w)
      PROVE  FitsInv'
  <2>1. batch[w] = {}
    BY <1>1, <1>8 DEF GiveUp, Held
  <2>2. TooLarge(batch[w], <<>>)
    BY <2>1 DEF TooLarge
  <2>3. /\ buffer' = [buffer EXCEPT ![w] = <<>>]
        /\ batch' = [batch EXCEPT ![w] = batch[w]]
    BY <1>1, <1>8 DEF GiveUp, TypeOK
  <2> QED
    BY <1>0, <1>5, <2>2, <2>3
<1>9. ASSUME NEW w \in Writers, NEW n, Write(w, n)
      PROVE  FitsInv'
  <2> DEFINE rest == SubSeq(buffer[w], n + 1, Len(buffer[w]))
  <2>1. /\ Length(batch[w]) \in Nat /\ Len(buffer[w]) \in Nat
        /\ n \in 1 .. Len(buffer[w]) /\ buffer[w] \in Seq(Unit)
    BY <1>9, BatchLengths DEF Write
  <2>2. /\ Len(rest) = Len(buffer[w]) - n /\ rest \in Seq(Unit)
        /\ \A k \in 1 .. Len(buffer[w]) - n : rest[k] = buffer[w][n + k]
    BY <2>1, CutBuffer
  <2>3. Cardinality(Covered(rest)) <= Cardinality(Covered(buffer[w]))
    BY <2>1, CoveredCut
  <2>4. /\ buffer' = [buffer EXCEPT ![w] = rest]
        /\ batch' = [batch EXCEPT ![w] = batch[w]]
    BY <1>1, <1>9 DEF Write, TypeOK
  <2> HIDE DEF rest
  <2>5. /\ Cardinality(Covered(rest)) \in Nat
        /\ Cardinality(Covered(buffer[w])) \in Nat
    BY <2>1, <2>2, CoveredFinite
  <2>8. Bounded(rest)
    <3> SUFFICES ASSUME NEW k \in 1 .. Len(rest) PROVE rest[k].part <= rest[k].len
      BY DEF Bounded
    <3>1. n + k \in 1 .. Len(buffer[w]) /\ rest[k] = buffer[w][n + k]
      BY <2>1, <2>2
    <3> QED
      BY <3>1 DEF FitsInv, Bounded
  <2>6. CASE Fitting(batch[w], buffer[w])
    <3>1. Fitting(batch[w], rest)
      BY <2>1, <2>3, <2>5, <2>6 DEF Fitting
    <3> QED
      BY <1>5, <2>4, <2>8, <3>1
  <2>7. CASE TooLarge(batch[w], buffer[w])
    <3>1. buffer[w] # <<>>
      BY <2>1
    <3>2. /\ batch[w] = {}
          /\ \A k \in 1 .. Len(buffer[w]) : buffer[w][k].frame_len > BufferSize
      BY <2>7, <3>1 DEF TooLarge
    <3>3. ASSUME NEW k \in 1 .. Len(rest)
          PROVE  rest[k].frame_len > BufferSize
      <4>1. n + k \in 1 .. Len(buffer[w]) /\ rest[k] = buffer[w][n + k]
        BY <2>1, <2>2
      <4> QED
        BY <3>2, <4>1
    <3>4. TooLarge(batch[w], rest)
      BY <3>2, <3>3 DEF TooLarge
    <3> QED
      BY <1>5, <2>4, <2>8, <3>4
  <2> QED
    BY <2>6, <2>7 DEF FitsInv
<1>10. ASSUME NEW w \in Writers, FilterMessage(w)
       PROVE  FitsInv'
  <2>1. PICK item \in batch[w] :
           /\ ~IsPill(item)
           /\ batch' = [batch EXCEPT ![w] = batch[w] \ {item}]
           /\ buffer' = [buffer EXCEPT ![w] =
                 IF item.data.fd \in open
                 THEN buffer[w] \o Units(item.data) ELSE buffer[w]]
    BY <1>10 DEF FilterMessage
  <2> DEFINE u == Units(item.data)
             b == batch[w] \ {item}
             s == IF item.data.fd \in open THEN buffer[w] \o u ELSE buffer[w]
  <2>2. /\ Length(batch[w]) \in Nat /\ Len(buffer[w]) \in Nat
        /\ buffer[w] \in Seq(Unit) /\ item.data.frame_len \in Nat
        /\ IsFiniteSet(batch[w]) /\ \A i \in batch[w] : i.data.frame_len \in Nat
    BY BatchLengths
  <2>3. /\ Length(batch[w]) = Length(b) + item.data.frame_len
        /\ Length(b) \in Nat
    <3>1. b \in SUBSET batch[w]
      OBVIOUS
    <3> QED
      BY <2>2, <3>1, LengthAdds
  <2>4. item.data \in Message
    BY <1>1, <2>1, ItemsTyped, ItemFields
  <2>5. /\ u \in Seq(Unit) /\ buffer[w] \o u \in Seq(Unit)
        /\ \A k \in 1 .. Len(u) : u[k].frame_len = item.data.frame_len
        /\ Bounded(u)
    <3>1. /\ u \in Seq(Unit)
          /\ \A k \in 1 .. Len(u) : /\ u[k].frame_len = item.data.frame_len
                                     /\ u[k].part = k /\ u[k].len = Len(u)
      BY <2>4, UnitsFields
    <3> HIDE DEF u
    <3>2. Bounded(u)
      BY <3>1 DEF Bounded
    <3> QED
      BY <2>2, <3>1, <3>2, ConcatProperties
  <2>6. Cardinality(Covered(buffer[w] \o u))
           <= Cardinality(Covered(buffer[w])) + item.data.frame_len
    BY <2>2, <2>4, CoveredGrows
  <2>7. buffer' = [buffer EXCEPT ![w] = s] /\ batch' = [batch EXCEPT ![w] = b]
    BY <2>1
  <2>8. s = buffer[w] \o u \/ s = buffer[w]
    OBVIOUS
  <2>11. Bounded(s)
    <3> HIDE DEF u
    <3>0. Len(u) \in Nat
      BY <2>5
    <3>1. /\ Len(buffer[w] \o u) = Len(buffer[w]) + Len(u)
          /\ \A k \in 1 .. Len(buffer[w]) + Len(u) :
                (buffer[w] \o u)[k] = IF k <= Len(buffer[w]) THEN buffer[w][k]
                                      ELSE u[k - Len(buffer[w])]
      BY <2>2, <2>5, ConcatProperties, ZenonT(30)
    <3>2. Bounded(buffer[w])
      BY DEF FitsInv
    <3>3. Bounded(buffer[w] \o u)
      <4> DEFINE t == buffer[w] \o u
      <4> SUFFICES ASSUME NEW k \in 1 .. Len(t) PROVE t[k].part <= t[k].len
        BY DEF Bounded
      <4>1. CASE k <= Len(buffer[w])
        <5>1. k \in 1 .. Len(buffer[w]) /\ t[k] = buffer[w][k]
          BY <2>2, <3>0, <3>1, <4>1
        <5> HIDE DEF t
        <5> QED
          BY <3>2, <5>1 DEF Bounded
      <4>2. CASE ~(k <= Len(buffer[w]))
        <5>1. /\ k - Len(buffer[w]) \in 1 .. Len(u)
              /\ t[k] = u[k - Len(buffer[w])]
          BY <2>2, <3>0, <3>1, <4>2
        <5> HIDE DEF t
        <5> QED
          BY <2>5, <5>1 DEF Bounded
      <4> QED
        BY <4>1, <4>2
    <3> QED
      BY <2>8, <3>2, <3>3
  <2>9. CASE Fitting(batch[w], buffer[w])
    <3> DEFINE c == Cardinality(Covered(buffer[w]))
               d == Cardinality(Covered(buffer[w] \o u))
               e == Cardinality(Covered(s))
    <3>1. c \in Nat
      BY <2>2, CoveredFinite
    <3>2. d \in Nat
      <4> HIDE DEF u
      <4> QED
        BY <2>5, CoveredFinite
    <3>3. e = c \/ e = d
      BY <2>8
    <3>4. /\ Length(batch[w]) + c <= BufferSize
          /\ d <= c + item.data.frame_len
      BY <2>6, <2>9 DEF Fitting
    <3> HIDE DEF b, c, d, e
    <3>5. Length(b) + e <= BufferSize
      <4>1. PICK f, l, m : /\ f = item.data.frame_len
                           /\ l = Length(batch[w]) /\ m = Length(b)
        OBVIOUS
      <4>2. /\ f \in Nat /\ l \in Nat /\ m \in Nat /\ BufferSize \in Nat
            /\ l = m + f /\ l + c <= BufferSize /\ d <= c + f
        BY <2>2, <2>3, <3>4, <4>1, WriterPoolAssumption
      <4>3. m + e <= BufferSize
        BY ONLY <3>1, <3>2, <3>3, <4>2
      <4> QED
        BY <4>1, <4>3
    <3>6. Fitting(b, s)
      BY <3>5 DEF Fitting, e
    <3> HIDE DEF s
    <3> QED
      BY <1>5, <2>7, <2>11, <3>6
  <2>10. CASE TooLarge(batch[w], buffer[w])
    <3>1. /\ buffer[w] = <<>> /\ b = {}
          /\ item.data.frame_len > BufferSize
      BY <2>1, <2>10 DEF TooLarge
    <3>2. <<>> \o u = u
      <4> HIDE DEF u
      <4> QED
        BY <2>5, ConcatEmptySeq
    <3>3. s = u \/ s = <<>>
      BY <2>8, <3>1, <3>2
    <3> HIDE DEF u, s, b
    <3>4. \A k \in 1 .. Len(s) : s[k].frame_len > BufferSize
      BY <2>5, <3>1, <3>3
    <3>5. TooLarge(b, s)
      BY <3>1, <3>4 DEF TooLarge
    <3> QED
      BY <1>5, <2>7, <2>11, <3>5
  <2> QED
    BY <2>9, <2>10 DEF FitsInv
<1> QED
  BY <1>3, <1>4, <1>6, <1>7, <1>8, <1>9, <1>10 DEF Next, WriterStep

(* Messages that each fit the write buffer of a thread, and that           *)
(* ws_output_filter makes no longer than frame_len, never overflow it      *)
(* together: the length ts_dequeue_multiple_messages_for_same_fd adds up   *)
(* while it picks a batch bounds what the writer copies, for any header    *)
(* lengths, any limits and any mix of clients.                             *)
THEOREM BatchFitsHolds == Spec => []BatchFits
<1>1. Init => FitsInv
  <2> SUFFICES ASSUME Init, NEW w \in Writers
               PROVE  Bounded(buffer[w]) /\ TooLarge(batch[w], buffer[w])
    BY DEF FitsInv
  <2> QED
    BY DEF Init, TooLarge, Bounded
<1>2. OrderInv /\ FitsInv /\ [Next]_vars => FitsInv'
  BY FitsNext
<1>3. OrderInv /\ FitsInv => BatchFits
  <2> SUFFICES ASSUME OrderInv, FitsInv, NEW w \in Writers,
                      \A k \in 1 .. Len(buffer[w]) : AsExpected(buffer[w][k])
               PROVE  Len(buffer[w]) <= BufferSize
    BY DEF BatchFits
  <2>1. /\ Length(batch[w]) \in Nat /\ buffer[w] \in Seq(Unit)
        /\ Len(buffer[w]) \in Nat
    BY BatchLengths
  <2>2. CASE Fitting(batch[w], buffer[w])
    <3>1. Covered(buffer[w]) = 1 .. Len(buffer[w])
      <4> SUFFICES ASSUME NEW k \in 1 .. Len(buffer[w])
                   PROVE  buffer[w][k].part <= buffer[w][k].frame_len
        BY DEF Covered
      <4>1. buffer[w][k] \in Unit
        BY <2>1, ElementOfSeq
      <4>2. /\ buffer[w][k].part \in Nat /\ buffer[w][k].len \in Nat
            /\ buffer[w][k].frame_len \in Nat
        BY <4>1 DEF Unit
      <4>3. buffer[w][k].part <= buffer[w][k].len
        BY DEF FitsInv, Bounded
      <4> QED
        BY <4>2, <4>3 DEF AsExpected
    <3>2. Cardinality(1 .. Len(buffer[w])) = Len(buffer[w])
      <4> DEFINE n == Len(buffer[w])
      <4>1. 1 \in Int /\ n \in Int /\ (IF 1 > n THEN 0 ELSE n - 1 + 1) = n
        BY <2>1
      <4> HIDE DEF n
      <4>2. Cardinality(1 .. n) = n
        BY <4>1, FS_Interval
      <4> QED
        BY <4>2 DEF n
    <3> QED
      BY <2>1, <2>2, <3>1, <3>2 DEF Fitting
  <2>3. CASE TooLarge(batch[w], buffer[w])
    <3>1. buffer[w] = <<>>
      <4> SUFFICES ASSUME buffer[w] # <<>> PROVE FALSE
        OBVIOUS
      <4>1. 1 \in 1 .. Len(buffer[w])
        BY <2>1, EmptySeq
      <4>2. buffer[w][1].frame_len > BufferSize
        BY <2>3, <4>1 DEF TooLarge
      <4>3. buffer[w][1].frame_len <= BufferSize /\ buffer[w][1].frame_len \in Nat
        <5>1. buffer[w][1] \in Unit
          BY <2>1, <4>1, ElementOfSeq
        <5> QED
          BY <4>1, <5>1 DEF AsExpected, Unit
      <4> QED
        BY <4>2, <4>3
    <3> QED
      BY <3>1
  <2> QED
    BY <2>2, <2>3 DEF FitsInv
<1> QED
  BY <1>1, <1>2, <1>3, OrderInvHolds, PTL DEF Spec

-----------------------------------------------------------------------------
(* What the clients receive.  A message may be on the wire in part and in  *)
(* a buffer in part, so StreamIntact needs to know how the two join, and   *)
(* that one writer at a time is busy for a descriptor that is not mixed.   *)

Chain(s) == \A k \in 1 .. Len(s) - 1 : Follows(s[k], s[k + 1])
Starts(s) == s # <<>> => s[1].part = 1
Whole(s) == s # <<>> => s[Len(s)].part = s[Len(s)].len
Joins(s, t) ==
    /\ s = <<>> => Starts(t)
    /\ s # <<>> /\ t # <<>> => Follows(s[Len(s)], t[1])

Busy(w, f) == fd[w] = f /\ pc[w] \in {"filtering", "writing"}
Writing(w, f) == fd[w] = f /\ pc[w] = "writing"

(* Message n is older than what is still to be written for descriptor f,   *)
(* except by a writer that is writing already.                             *)
Older(n, f) ==
    /\ n <= sent
    /\ \A y \in Items : y.data.fd = f => n < y.data.id
    /\ \A w \in Writers : fd[w] = f /\ pc[w] = "filtering" =>
          /\ \A x \in batch[w] : ~IsPill(x) => n < x.data.id
          /\ \A k \in 1 .. Len(buffer[w]) : n < buffer[w][k].id

(* The buffer of a writer goes on with what is on the wire; without such a *)
(* writer the wire ends with a whole message.                              *)
Linked(f) ==
    /\ wire[f] # <<>> => Older(wire[f][Len(wire[f])].id, f)
    /\ \A w \in Writers : Writing(w, f) => Joins(wire[f], buffer[w])
    /\ (\A w \in Writers : ~Writing(w, f)) => Whole(wire[f])

Alone(f) == \A v, w \in Writers : Busy(v, f) /\ Busy(w, f) => v = w

Stream(f) ==
    /\ Alone(f)
    /\ Starts(wire[f]) /\ Chain(wire[f])
    /\ f \in open => Linked(f)

(* A buffer holds messages to their end; a writer that is not writing yet  *)
(* has them from their start.                                              *)
Buffered(w) ==
    /\ Chain(buffer[w]) /\ Whole(buffer[w])
    /\ pc[w] = "filtering" => Starts(buffer[w])

StreamInv ==
    /\ OrderInv
    /\ \A w \in Writers : Buffered(w)
    /\ \A f \in Fds \ mixed : Stream(f)

(* A writer that still has something is looking through it or writing it. *)
LEMMA ServesBusy ==
    ASSUME Held, NEW w \in Writers, NEW f
    PROVE  Serves(w, f) <=> Busy(w, f)
BY DEF Held, Serves, Busy

LEMMA ChainConcat ==
    ASSUME NEW s \in Seq(Unit), NEW t \in Seq(Unit), Chain(s), Chain(t),
           Joins(s, t)
    PROVE  Chain(s \o t)
<1>1. Len(s) \in Nat /\ Len(t) \in Nat
  OBVIOUS
<1>2. /\ Len(s \o t) = Len(s) + Len(t)
      /\ \A i \in 1 .. Len(s) + Len(t) :
            (s \o t)[i] = IF i <= Len(s) THEN s[i] ELSE t[i - Len(s)]
  BY ConcatProperties
<1> SUFFICES ASSUME NEW k \in 1 .. Len(s) + Len(t) - 1
             PROVE  Follows((s \o t)[k], (s \o t)[k + 1])
  BY <1>2 DEF Chain
<1>3. k \in Nat /\ k \in 1 .. Len(s) + Len(t) /\ k + 1 \in 1 .. Len(s) + Len(t)
  BY <1>1
<1>4. CASE k < Len(s)
  <2>1. (s \o t)[k] = s[k] /\ (s \o t)[k + 1] = s[k + 1] /\ k \in 1 .. Len(s) - 1
    BY <1>1, <1>2, <1>3, <1>4
  <2> QED
    BY <2>1 DEF Chain
<1>5. CASE k = Len(s)
  <2>1. (s \o t)[k] = s[Len(s)] /\ (s \o t)[k + 1] = t[1]
    BY <1>1, <1>2, <1>3, <1>5
  <2>2. s # <<>> /\ t # <<>>
    BY <1>1, <1>3, <1>5
  <2> QED
    BY <2>1, <2>2 DEF Joins
<1>6. CASE k > Len(s)
  <2>1. /\ (s \o t)[k] = t[k - Len(s)] /\ (s \o t)[k + 1] = t[k + 1 - Len(s)]
        /\ k - Len(s) \in 1 .. Len(t) - 1
        /\ k + 1 - Len(s) = (k - Len(s)) + 1
    BY <1>1, <1>2, <1>3, <1>6
  <2> QED
    BY <2>1 DEF Chain
<1> QED
  BY <1>1, <1>3, <1>4, <1>5, <1>6

LEMMA StartsConcat ==
    ASSUME NEW s \in Seq(Unit), NEW t \in Seq(Unit), Starts(s),
           s = <<>> => Starts(t)
    PROVE  Starts(s \o t)
<1>1. Len(s) \in Nat /\ Len(t) \in Nat
  OBVIOUS
<1>2. CASE s = <<>>
  BY <1>2, ConcatEmptySeq
<1>3. CASE s # <<>>
  <2>1. Len(s) # 0
    BY <1>3, EmptySeq
  <2>2. 1 \in 1 .. Len(s) + Len(t) /\ 1 <= Len(s)
    BY <1>1, <2>1
  <2>3. (s \o t)[1] = s[1]
    BY <2>2, ConcatProperties
  <2> QED
    BY <1>3, <2>3 DEF Starts
<1> QED
  BY <1>2, <1>3

(* The last unit of s \o t, if t is not empty. *)
LEMMA EndConcat ==
    ASSUME NEW s \in Seq(Unit), NEW t \in Seq(Unit), t # <<>>
    PROVE  /\ s \o t # <<>>
           /\ (s \o t)[Len(s \o t)] = t[Len(t)]
<1>1. Len(s) \in Nat /\ Len(t) \in Nat /\ Len(t) # 0
  BY EmptySeq
<1>2. /\ Len(s \o t) = Len(s) + Len(t) /\ s \o t \in Seq(Unit)
      /\ \A i \in 1 .. Len(s) + Len(t) :
            (s \o t)[i] = IF i <= Len(s) THEN s[i] ELSE t[i - Len(s)]
  BY ConcatProperties
<1>3. /\ Len(s) + Len(t) \in 1 .. Len(s) + Len(t)
      /\ ~(Len(s) + Len(t) <= Len(s)) /\ (Len(s) + Len(t)) - Len(s) = Len(t)
  BY <1>1
<1>4. (s \o t)[Len(s \o t)] = t[Len(t)]
  BY <1>2, <1>3
<1>5. Len(s \o t) # 0
  BY <1>1, <1>2
<1> QED
  BY <1>4, <1>5

(* A descriptor the step is not about: what is on its wire stays, its      *)
(* busy writers are as they were or have stopped, and what is new in the   *)
(* queue has a new number.                                                 *)
LEMMA StreamFrame ==
    ASSUME StreamInv, OrderInv', NEW f \in Fds \ mixed,
           wire'[f] = wire[f], f \in open' => f \in open, sent <= sent',
           \A y \in Items' : \/ y \in Items \/ IsPill(y) \/ sent < y.data.id,
           \A w \in Writers : Busy(w, f)' =>
              /\ Busy(w, f) /\ pc'[w] = pc[w]
              /\ batch'[w] = batch[w] /\ buffer'[w] = buffer[w],
           f \in open' => \A w \in Writers : Writing(w, f) => Writing(w, f)'
    PROVE  Stream(f)'
<1>1. Stream(f) /\ TypeOK /\ TypeOK'
  BY DEF StreamInv, OrderInv, IInv
<1>2. Alone(f)'
  BY <1>1 DEF Stream, Alone
<1>3. (Starts(wire[f]) /\ Chain(wire[f]))'
  BY <1>1 DEF Stream, Starts, Chain, Follows
<1>4. ASSUME f \in open'
      PROVE  Linked(f)'
  <2>1. Linked(f)
    BY <1>1, <1>4 DEF Stream
  <2>2. ASSUME wire[f] # <<>>
        PROVE  Older(wire[f][Len(wire[f])].id, f)'
    <3> DEFINE n == wire[f][Len(wire[f])].id
    <3>1. n \in Nat
      <4>1. wire[f] \in Seq(Unit) /\ Len(wire[f]) \in Nat
        BY <1>1 DEF TypeOK
      <4>2. Len(wire[f]) # 0
        BY <2>2, <4>1, EmptySeq
      <4>3. Len(wire[f]) \in 1 .. Len(wire[f])
        BY <4>1, <4>2
      <4>4. wire[f][Len(wire[f])] \in Unit
        BY <4>1, <4>3, ElementOfSeq
      <4> QED
        BY <4>4 DEF Unit
    <3>2. Older(n, f)
      BY <2>1, <2>2 DEF Linked
    <3> HIDE DEF n
    <3>3. sent \in Nat /\ sent' \in Nat /\ n <= sent
      BY <1>1, <3>2 DEF TypeOK, Older
    <3>4. ASSUME NEW y \in Items', y.data.fd = f
          PROVE  n < y.data.id
      <4>1. ~IsPill(y)
        BY <3>4 DEF IsPill
      <4>2. CASE y \in Items
        BY <3>2, <3>4, <4>2 DEF Older
      <4>3. CASE sent < y.data.id
        <5>1. y.data.id \in Nat
          <6>1. Items' \in SUBSET Item(Message \cup {Pill})
            BY <1>1 DEF TypeOK, List, Items
          <6> QED
            BY <6>1, ItemFields
        <5> QED
          BY <3>1, <3>3, <4>3, <5>1
      <4> QED
        BY <4>1, <4>2, <4>3
    <3>5. ASSUME NEW w \in Writers, fd'[w] = f, pc'[w] = "filtering"
          PROVE  /\ \A x \in batch'[w] : ~IsPill(x) => n < x.data.id
                 /\ \A k \in 1 .. Len(buffer'[w]) : n < buffer'[w][k].id
      <4>1. Busy(w, f)'
        BY <3>5 DEF Busy
      <4>2. /\ fd[w] = f /\ pc[w] = "filtering"
            /\ batch'[w] = batch[w] /\ buffer'[w] = buffer[w]
        BY <3>5, <4>1 DEF Busy
      <4> QED
        BY <3>2, <4>2 DEF Older
    <3>6. n <= sent'
      BY <3>1, <3>3
    <3>7. n = wire'[f][Len(wire'[f])].id
      BY DEF n
    <3> QED
      BY <3>4, <3>5, <3>6, <3>7 DEF Older, IsPill
  <2>3. ASSUME NEW w \in Writers, Writing(w, f)'
        PROVE  Joins(wire[f], buffer[w])'
    <3>1. Busy(w, f)'
      BY <2>3 DEF Writing, Busy
    <3>2. Writing(w, f) /\ buffer'[w] = buffer[w]
      BY <2>3, <3>1 DEF Writing, Busy
    <3> QED
      BY <2>1, <3>2 DEF Linked, Joins, Starts, Follows
  <2>4. ASSUME \A w \in Writers : ~Writing(w, f)'
        PROVE  Whole(wire[f])'
    <3>1. \A w \in Writers : ~Writing(w, f)
      BY <1>4, <2>4
    <3> QED
      BY <2>1, <3>1 DEF Linked, Whole
  <2> QED
    BY <2>2, <2>3, <2>4 DEF Linked
<1> QED
  BY <1>2, <1>3, <1>4 DEF Stream

(* The steps that leave the buffers, the wire and the writers at work      *)
(* alone.                                                                  *)
LEMMA IdleKeepsStream ==
    ASSUME StreamInv, OrderInv',
           UNCHANGED <<batch, fd, buffer, wire, mixed>>,
           open' \in SUBSET open, sent <= sent',
           \A y \in Items' : \/ y \in Items \/ IsPill(y) \/ sent < y.data.id,
           \A w \in Writers : \/ pc'[w] = pc[w]
                              \/ {pc[w], pc'[w]} = {"ready", "waiting"}
    PROVE  StreamInv'
<1>1. \A w \in Writers : \/ pc'[w] = pc[w]
                         \/ /\ pc[w] \in {"ready", "waiting"}
                            /\ pc'[w] \in {"ready", "waiting"}
  OBVIOUS
<1>2. \A w \in Writers : Buffered(w)'
  BY <1>1 DEF StreamInv, Buffered, Chain, Whole, Starts, Follows
<1>3. ASSUME NEW f \in Fds \ mixed
      PROVE  Stream(f)'
  <2>1. \A w \in Writers : Busy(w, f)' =>
           /\ Busy(w, f) /\ pc'[w] = pc[w]
           /\ batch'[w] = batch[w] /\ buffer'[w] = buffer[w]
    BY <1>1 DEF Busy
  <2>2. \A w \in Writers : Writing(w, f) => Writing(w, f)'
    BY <1>1 DEF Writing
  <2>3. wire'[f] = wire[f] /\ (f \in open' => f \in open)
    OBVIOUS
  <2> QED
    BY <2>1, <2>2, <2>3, StreamFrame
<1> QED
  BY <1>2, <1>3 DEF StreamInv

LEMMA ProducerKeepsStream ==
    ASSUME StreamInv, Produce
    PROVE  StreamInv'
<1>1. OrderInv /\ OrderInv' /\ TypeOK
  BY NextOrderInv DEF StreamInv, Next, OrderInv, IInv
<1>2. Signal /\ UNCHANGED <<batch, fd, buffer, wire, mixed, open>>
  BY DEF Produce, ts_enqueue, ts_enqueue_multiple, Kill
<1>3. \A w \in Writers : \/ pc'[w] = pc[w]
                         \/ {pc[w], pc'[w]} = {"ready", "waiting"}
  BY <1>1, <1>2 DEF Signal, TypeOK
<1>4. /\ sent <= sent'
      /\ \A y \in Items' : \/ y \in Items \/ IsPill(y) \/ sent < y.data.id
  <2>0. sent \in Nat
    BY <1>1 DEF TypeOK
  <2>1. ASSUME NEW f \in Fds, NEW c \in Contents, ts_enqueue(f, c)
        PROVE  <1>4!:
    <3>1. NewMessage(sent + 1, f, c).id = sent + 1
      BY <2>0, NewMessageFields
    <3> QED
      BY <2>0, <2>1, <3>1 DEF ts_enqueue, Enqueue, Items
  <2>2. ASSUME NEW f \in Fds, NEW g \in Fds, NEW c \in Contents,
               ts_enqueue_multiple(<<f, g>>, c)
        PROVE  <1>4!:
    <3> DEFINE fds == <<f, g>>
               S == {[pos |-> i, data |-> NewMessage(sent + i, fds[i], c)] :
                        i \in 1 .. Len(fds)}
    <3>1. Items' = Items \cup {[pos |-> output_queue.last + 1 + Rank(S, x),
                                data |-> x.data] : x \in S}
          /\ sent' = sent + Len(fds) /\ Len(fds) = 2
      BY <2>2 DEF ts_enqueue_multiple, EnqueueMultiple, Items
    <3>2. \A x \in S : sent < x.data.id
      <4> SUFFICES ASSUME NEW i \in 1 .. Len(fds)
                   PROVE  sent < NewMessage(sent + i, fds[i], c).id
        OBVIOUS
      <4>1. i \in {1, 2} /\ fds[i] \in Fds /\ sent + i \in Nat /\ sent < sent + i
        BY <2>0
      <4> HIDE DEF fds
      <4> QED
        BY <4>1, NewMessageFields
    <3> HIDE DEF S
    <3>3. \A y \in Items' : y \in Items \/ sent < y.data.id
      BY <3>1, <3>2
    <3> QED
      BY <2>0, <3>1, <3>3
  <2>3. CASE Kill
    BY <2>0, <2>3 DEF Kill, Enqueue, Items, IsPill, Pill
  <2> QED
    BY <2>1, <2>2, <2>3 DEF Produce
<1> QED
  BY <1>1, <1>2, <1>3, <1>4, IdleKeepsStream

LEMMA OpenSessionKeepsStream ==
    ASSUME StreamInv, NEW f \in Fds, OpenSession(f)
    PROVE  StreamInv'
<1>1. OrderInv /\ OrderInv' /\ TypeOK /\ Held
  BY NextOrderInv DEF StreamInv, Next, Sessions, OrderInv, IInv
<1>2. /\ UNCHANGED <<output_queue, pc, batch, fd, buffer, sent>>
      /\ f \notin open /\ open' = open \cup {f}
      /\ wire' = [wire EXCEPT ![f] = <<>>]
      /\ mixed' = IF \E w \in Writers : Serves(w, f) THEN mixed \cup {f}
                  ELSE mixed \ {f}
  BY DEF OpenSession
<1>3. \A w \in Writers : Buffered(w)'
  BY <1>2 DEF StreamInv, Buffered, Chain, Whole, Starts, Follows
<1>4. ASSUME NEW g \in Fds \ mixed', g # f
      PROVE  Stream(g)'
  <2>1. /\ g \in Fds \ mixed /\ wire'[g] = wire[g] /\ (g \in open' => g \in open)
        /\ Items' = Items /\ sent <= sent'
    BY <1>1, <1>2, <1>4 DEF TypeOK, Items
  <2>2. \A w \in Writers : Busy(w, g)' =>
           /\ Busy(w, g) /\ pc'[w] = pc[w]
           /\ batch'[w] = batch[w] /\ buffer'[w] = buffer[w]
    BY <1>2 DEF Busy
  <2>3. \A w \in Writers : Writing(w, g) => Writing(w, g)'
    BY <1>2 DEF Writing
  <2> QED
    BY <1>1, <2>1, <2>2, <2>3, StreamFrame
<1>5. ASSUME f \notin mixed'
      PROVE  Stream(f)'
  <2>1. \A w \in Writers : ~Busy(w, f)
    BY <1>1, <1>2, <1>5, ServesBusy
  <2>2. \A w \in Writers : ~Busy(w, f)' /\ ~Writing(w, f)'
    BY <1>2, <2>1 DEF Busy, Writing
  <2>3. wire'[f] = <<>>
    BY <1>1, <1>2 DEF TypeOK
  <2>4. Len(<<>>) - 1 = -1
    OBVIOUS
  <2>5. (Starts(wire[f]) /\ Chain(wire[f]) /\ Whole(wire[f]))'
    BY <2>3, <2>4 DEF Starts, Chain, Whole
  <2> QED
    BY <2>2, <2>3, <2>5 DEF Stream, Alone, Linked
<1> QED
  BY <1>1, <1>3, <1>4, <1>5 DEF StreamInv

LEMMA TakeKeepsStream ==
    ASSUME StreamInv, NEW w \in Writers, Take(w)
    PROVE  StreamInv'
<1>1. OrderInv /\ OrderInv' /\ TypeOK /\ Held /\ IInv
  BY TakeKeepsOrder DEF StreamInv, OrderInv, IInv
<1>2. PICK first \in Items, P \in SUBSET Pills :
         /\ Items' = Items \ (PickedMessages(first) \cup P)
         /\ PickedMessages(first) \in SUBSET (Items \ Pills)
         /\ batch' = [batch EXCEPT ![w] = PickedMessages(first) \cup P]
         /\ fd' = [fd EXCEPT ![w] = first.data.fd]
         /\ mixed' = IF \E v \in Writers \ {w} : Serves(v, first.data.fd)
                     THEN mixed \cup ({first.data.fd} \ {None}) ELSE mixed
         /\ pc[w] = "ready" /\ pc' = [pc EXCEPT ![w] = "filtering"]
         /\ UNCHANGED <<buffer, open, wire, sent>>
  BY <1>1, TakeParts
<1> DEFINE f == first.data.fd
<1>3. buffer[w] = <<>> /\ Len(buffer[w]) = 0
  BY <1>1, <1>2 DEF Held
<1>4. \A v \in Writers : v # w => /\ pc'[v] = pc[v] /\ fd'[v] = fd[v]
                                  /\ batch'[v] = batch[v]
  BY <1>1, <1>2 DEF TypeOK
<1>5. pc'[w] = "filtering" /\ fd'[w] = f
      /\ batch'[w] = PickedMessages(first) \cup P
  BY <1>1, <1>2 DEF TypeOK
<1>6. \A v \in Writers : Buffered(v)'
  <2> SUFFICES ASSUME NEW v \in Writers PROVE Buffered(v)'
    OBVIOUS
  <2>1. Buffered(v) /\ buffer'[v] = buffer[v]
    BY <1>2 DEF StreamInv
  <2>2. CASE v # w
    BY <1>4, <2>1, <2>2 DEF Buffered, Chain, Whole, Starts, Follows
  <2>3. CASE v = w
    BY <1>3, <2>1, <2>3 DEF Buffered, Chain, Whole, Starts, Follows
  <2> QED
    BY <2>2, <2>3
<1>7. \A y \in Items' : y \in Items
  BY <1>2
<1>8. sent <= sent'
  BY <1>1, <1>2 DEF TypeOK
<1>9. ASSUME NEW g \in Fds \ mixed', g # f
      PROVE  Stream(g)'
  <2>1. g \in Fds \ mixed /\ wire'[g] = wire[g] /\ (g \in open' => g \in open)
    BY <1>2, <1>9
  <2>2. \A v \in Writers : Busy(v, g)' =>
           /\ Busy(v, g) /\ pc'[v] = pc[v]
           /\ batch'[v] = batch[v] /\ buffer'[v] = buffer[v]
    BY <1>2, <1>4, <1>5, <1>9 DEF Busy
  <2>3. \A v \in Writers : Writing(v, g) => Writing(v, g)'
    BY <1>2, <1>4 DEF Writing
  <2> QED
    BY <1>1, <1>7, <1>8, <2>1, <2>2, <2>3, StreamFrame
<1>10. ASSUME f \in Fds, f \notin mixed'
       PROVE  Stream(f)'
  <2>1. f \notin mixed /\ \A v \in Writers \ {w} : ~Serves(v, f)
    BY <1>2, <1>10
  <2>2. \A v \in Writers : v # w => ~Busy(v, f) /\ ~Busy(v, f)'
    BY <1>1, <1>4, <2>1, ServesBusy DEF Busy
  <2>3. Stream(f)
    BY <1>10, <2>1 DEF StreamInv
  <2>4. Alone(f)'
    BY <2>2 DEF Alone
  <2>5. (Starts(wire[f]) /\ Chain(wire[f]))'
    BY <1>2, <2>3 DEF Stream, Starts, Chain, Follows
  <2>6. ASSUME f \in open'
        PROVE  Linked(f)'
    <3>1. Linked(f)
      BY <1>2, <2>3, <2>6 DEF Stream
    <3>2. \A v \in Writers : ~Writing(v, f) /\ ~Writing(v, f)'
      BY <1>2, <1>5, <2>2 DEF Writing, Busy
    <3>3. Whole(wire[f])'
      BY <1>2, <3>1, <3>2 DEF Linked, Whole
    <3> DEFINE n == wire[f][Len(wire[f])].id
    <3>4. ASSUME wire[f] # <<>>
          PROVE  Older(wire[f][Len(wire[f])].id, f)'
      <4>1. Older(n, f)
        BY <3>1, <3>4 DEF Linked
      <4>2. n = wire'[f][Len(wire'[f])].id
        BY <1>2
      <4> HIDE DEF n
      <4>3. n <= sent' /\ \A y \in Items' : y.data.fd = f => n < y.data.id
        BY <1>2, <1>7, <4>1 DEF Older
      <4>4. ASSUME NEW v \in Writers, fd'[v] = f, pc'[v] = "filtering"
            PROVE  /\ \A x \in batch'[v] : ~IsPill(x) => n < x.data.id
                   /\ \A k \in 1 .. Len(buffer'[v]) : n < buffer'[v][k].id
        <5>1. v = w
          BY <2>2, <4>4 DEF Busy
        <5>2. \A x \in batch'[w] : ~IsPill(x) => x \in Items /\ x.data.fd = f
          BY <1>2, <1>5 DEF Pills, PickedMessages
        <5> QED
          BY <1>2, <1>3, <4>1, <5>1, <5>2 DEF Older
      <4> QED
        BY <4>2, <4>3, <4>4 DEF Older, IsPill
    <3>6. wire'[f] # <<>> => Older(wire[f][Len(wire[f])].id, f)'
      BY <1>2, <3>4
    <3> QED
      BY <3>2, <3>3, <3>6 DEF Linked
  <2> QED
    BY <2>4, <2>5, <2>6 DEF Stream
<1> QED
  BY <1>1, <1>6, <1>9, <1>10 DEF StreamInv

(* FilterPill and GiveUp: writer w stops, with an empty buffer; if it was  *)
(* writing, its descriptor is closed.                                      *)
LEMMA StopKeepsStream ==
    ASSUME StreamInv, NEW w \in Writers, FilterPill(w) \/ GiveUp(w)
    PROVE  StreamInv'
<1>1. OrderInv /\ OrderInv' /\ TypeOK
  BY FilterPillKeepsOrder, GiveUpKeepsOrder DEF StreamInv, OrderInv, IInv
<1>2. /\ UNCHANGED <<output_queue, fd, wire, sent, mixed>>
      /\ buffer' = [buffer EXCEPT ![w] = <<>>]
      /\ open' \in SUBSET open
      /\ pc[w] = "writing" => fd[w] \notin open'
  BY DEF FilterPill, GiveUp
<1>3. /\ pc'[w] \in {"ready", "exited"}
      /\ \A v \in Writers : v # w => /\ pc'[v] = pc[v] /\ batch'[v] = batch[v]
                                     /\ buffer'[v] = buffer[v]
      /\ buffer'[w] = <<>>
  BY <1>1 DEF FilterPill, GiveUp, TypeOK
<1>4. \A v \in Writers : Buffered(v)'
  <2> SUFFICES ASSUME NEW v \in Writers PROVE Buffered(v)'
    OBVIOUS
  <2>1. CASE v # w
    BY <1>3, <2>1 DEF StreamInv, Buffered, Chain, Whole, Starts, Follows
  <2>2. CASE v = w
    <3>1. Len(<<>>) - 1 = -1
      OBVIOUS
    <3> QED
      BY <1>3, <2>2, <3>1 DEF Buffered, Chain, Whole, Starts
  <2> QED
    BY <2>1, <2>2
<1>5. ASSUME NEW g \in Fds \ mixed
      PROVE  Stream(g)'
  <2>1. /\ wire'[g] = wire[g] /\ (g \in open' => g \in open)
        /\ Items' = Items /\ sent <= sent'
    BY <1>1, <1>2 DEF TypeOK, Items
  <2>2. \A v \in Writers : Busy(v, g)' =>
           /\ Busy(v, g) /\ pc'[v] = pc[v]
           /\ batch'[v] = batch[v] /\ buffer'[v] = buffer[v]
    BY <1>2, <1>3 DEF Busy
  <2>3. g \in open' => \A v \in Writers : Writing(v, g) => Writing(v, g)'
    BY <1>2, <1>3 DEF Writing
  <2> QED
    BY <1>1, <2>1, <2>2, <2>3, StreamFrame
<1> QED
  BY <1>1, <1>2, <1>4, <1>5 DEF StreamInv

(* A message, and the buffer with a message behind it. *)
LEMMA FilledBuffer ==
    ASSUME NEW m \in Message, NEW s \in Seq(Unit), Chain(s), Whole(s), Starts(s),
           \A k \in 1 .. Len(s) : s[k].id < m.id
    PROVE  /\ s \o Units(m) \in Seq(Unit) /\ s \o Units(m) # <<>>
           /\ Chain(s \o Units(m)) /\ Whole(s \o Units(m)) /\ Starts(s \o Units(m))
<1> DEFINE u == Units(m)
<1>1. /\ Len(u) \in Nat /\ Len(u) > 0 /\ u \in Seq(Unit)
      /\ \A k \in 1 .. Len(u) : /\ u[k].id = m.id /\ u[k].part = k
                                 /\ u[k].len = Len(u)
  BY UnitsFields
<1> HIDE DEF u
<1>2. u # <<>> /\ Len(u) \in 1 .. Len(u) /\ 1 \in 1 .. Len(u)
  BY <1>1
<1>3. Chain(u)
  <2> SUFFICES ASSUME NEW k \in 1 .. Len(u) - 1 PROVE Follows(u[k], u[k + 1])
    BY DEF Chain
  <2>1. k \in 1 .. Len(u) /\ k + 1 \in 1 .. Len(u)
    BY <1>1
  <2> QED
    BY <1>1, <2>1 DEF Follows
<1>4. Starts(u)
  BY <1>1, <1>2 DEF Starts
<1>5. Joins(s, u)
  <2>1. ASSUME s # <<>>
        PROVE  Follows(s[Len(s)], u[1])
    <3>1. Len(s) \in 1 .. Len(s)
      BY <2>1, EmptySeq
    <3>2. s[Len(s)].id < m.id /\ s[Len(s)].part = s[Len(s)].len
      BY <2>1, <3>1 DEF Whole
    <3>3. u[1].id = m.id /\ u[1].part = 1
      BY <1>1, <1>2
    <3>4. s[Len(s)].id \in Nat /\ m.id \in Nat
      <4>1. s[Len(s)] \in Unit
        BY <3>1, ElementOfSeq
      <4> QED
        BY <4>1 DEF Unit, Message
    <3> QED
      BY <3>2, <3>3, <3>4 DEF Follows
  <2> QED
    BY <1>4, <2>1 DEF Joins
<1>6. Chain(s \o u)
  BY <1>1, <1>3, <1>5, ChainConcat
<1>7. Starts(s \o u)
  BY <1>1, <1>4, StartsConcat
<1>8. s \o u # <<>> /\ (s \o u)[Len(s \o u)] = u[Len(u)]
  BY <1>1, <1>2, EndConcat
<1>9. u[Len(u)].part = u[Len(u)].len
  BY <1>1, <1>2
<1>10. Whole(s \o u)
  BY <1>8, <1>9 DEF Whole
<1>11. s \o u \in Seq(Unit)
  BY <1>1, ConcatProperties
<1> QED
  BY <1>6, <1>7, <1>8, <1>10, <1>11 DEF u

LEMMA FilterMessageKeepsStream ==
    ASSUME StreamInv, NEW w \in Writers, FilterMessage(w)
    PROVE  StreamInv'
<1>1. OrderInv /\ OrderInv' /\ TypeOK /\ BatchInOrder /\ BufferInOrder
  BY FilterMessageKeepsOrder DEF StreamInv, OrderInv, IInv
<1>2. PICK item \in batch[w] :
         /\ ~IsPill(item)
         /\ batch' = [batch EXCEPT ![w] = batch[w] \ {item}]
         /\ buffer' = [buffer EXCEPT ![w] =
               IF item.data.fd \in open
               THEN buffer[w] \o Units(item.data) ELSE buffer[w]]
         /\ \E q \in {"filtering", "ready", "writing"} :
               pc' = [pc EXCEPT ![w] = q]
  BY DEF FilterMessage
<1> DEFINE f == fd[w]
           old == buffer[w]
           new == buffer'[w]
<1>3. /\ UNCHANGED <<output_queue, fd, open, wire, sent, mixed>>
      /\ pc[w] = "filtering"
  BY DEF FilterMessage
<1>4. /\ item.data \in Message /\ item.data.fd = f /\ f \in Fds
      /\ \A k \in 1 .. Len(old) : old[k].id < item.data.id
      /\ old \in Seq(Unit)
  <2>1. item.data \in Message /\ item.data.fd \in Fds /\ old \in Seq(Unit)
    BY <1>1, <1>2, ItemsTyped, ItemFields
  <2> QED
    BY <1>1, <1>2, <2>1 DEF BatchInOrder, BufferInOrder
<1>5. /\ pc'[w] \in {"filtering", "ready", "writing"}
      /\ batch'[w] \in SUBSET batch[w]
      /\ f \in open => new = old \o Units(item.data)
      /\ f \notin open => new = old
      /\ \A v \in Writers : v # w => /\ pc'[v] = pc[v] /\ batch'[v] = batch[v]
                                     /\ buffer'[v] = buffer[v]
  BY <1>1, <1>2, <1>4 DEF TypeOK
<1>6. Chain(old) /\ Whole(old) /\ Starts(old)
  BY <1>3 DEF StreamInv, Buffered
<1>7. Chain(new) /\ Whole(new) /\ Starts(new)
  <2>1. CASE f \in open
    <3>1. /\ Chain(old \o Units(item.data)) /\ Whole(old \o Units(item.data))
          /\ Starts(old \o Units(item.data))
      <4> HIDE DEF old
      <4> QED
        BY <1>4, <1>6, FilledBuffer
    <3> QED
      BY <1>5, <2>1, <3>1
  <2>2. CASE f \notin open
    BY <1>5, <1>6, <2>2
  <2> QED
    BY <2>1, <2>2
<1>8. \A v \in Writers : Buffered(v)'
  <2> SUFFICES ASSUME NEW v \in Writers PROVE Buffered(v)'
    OBVIOUS
  <2>1. CASE v # w
    BY <1>5, <2>1 DEF StreamInv, Buffered, Chain, Whole, Starts, Follows
  <2>2. CASE v = w
    BY <1>7, <2>2 DEF Buffered, Chain, Whole, Starts, Follows
  <2> QED
    BY <2>1, <2>2
<1>9. Items' = Items /\ sent' = sent /\ sent <= sent'
  BY <1>1, <1>3 DEF TypeOK, Items
<1>10. ASSUME NEW g \in Fds \ mixed, g # f
       PROVE  Stream(g)'
  <2>1. wire'[g] = wire[g] /\ (g \in open' => g \in open)
    BY <1>3
  <2>2. \A v \in Writers : Busy(v, g)' =>
           /\ Busy(v, g) /\ pc'[v] = pc[v]
           /\ batch'[v] = batch[v] /\ buffer'[v] = buffer[v]
    BY <1>3, <1>5, <1>10 DEF Busy
  <2>3. \A v \in Writers : Writing(v, g) => Writing(v, g)'
    BY <1>3, <1>5, <1>10 DEF Writing
  <2> QED
    BY <1>1, <1>9, <2>1, <2>2, <2>3, StreamFrame
<1>11. ASSUME NEW g \in Fds \ mixed, g = f
       PROVE  Stream(g)'
  <2>1. Stream(g) /\ Busy(w, g)
    BY <1>3, <1>11 DEF StreamInv, Busy
  <2>2. \A v \in Writers : v # w => ~Busy(v, g) /\ ~Busy(v, g)'
    BY <1>3, <1>5, <2>1 DEF Stream, Alone, Busy
  <2>3. Alone(g)'
    BY <2>2 DEF Alone
  <2>4. (Starts(wire[g]) /\ Chain(wire[g]))'
    BY <1>3, <2>1 DEF Stream, Starts, Chain, Follows
  <2>5. ASSUME g \in open'
        PROVE  Linked(g)'
    <3>1. Linked(g) /\ g \in open
      BY <1>3, <2>1, <2>5 DEF Stream
    <3>2. \A v \in Writers : ~Writing(v, g)
      BY <1>3, <2>2 DEF Writing, Busy
    <3>3. Whole(wire[g])
      BY <3>1, <3>2 DEF Linked
    <3> DEFINE n == wire[g][Len(wire[g])].id
    <3>4. ASSUME wire[g] # <<>>
          PROVE  /\ Older(n, g)
                 /\ \A k \in 1 .. Len(new) : n < new[k].id
      <4>1. Older(n, g)
        BY <3>1, <3>4 DEF Linked
      <4> HIDE DEF n
      <4>2. /\ n < item.data.id
            /\ \A k \in 1 .. Len(old) : n < old[k].id
        BY <1>2, <1>3, <1>11, <4>1 DEF Older
      <4> DEFINE u == Units(item.data)
      <4>3. /\ u \in Seq(Unit) /\ Len(u) \in Nat
            /\ \A k \in 1 .. Len(u) : u[k].id = item.data.id
        BY <1>4, UnitsFields
      <4>4. new = old \o u
        BY <1>5, <1>11, <3>1
      <4> HIDE DEF u, old, new
      <4>5. ASSUME NEW k \in 1 .. Len(old \o u)
            PROVE  n < (old \o u)[k].id
        <5>1. /\ Len(old \o u) = Len(old) + Len(u)
              /\ Len(old) \in Nat /\ Len(u) \in Nat
              /\ (old \o u)[k] = IF k <= Len(old) THEN old[k]
                                 ELSE u[k - Len(old)]
          <6>1. old \in Seq(Unit) /\ u \in Seq(Unit)
            BY <1>4, <4>3
          <6>2. /\ Len(old \o u) = Len(old) + Len(u)
                /\ \A i \in 1 .. Len(old) + Len(u) :
                      (old \o u)[i] = IF i <= Len(old) THEN old[i]
                                      ELSE u[i - Len(old)]
            BY <6>1, ConcatProperties
          <6> QED
            BY <6>1, <6>2, LenProperties
        <5>2. k \in 1 .. Len(old) \/ (~(k <= Len(old)) /\ k - Len(old) \in 1 .. Len(u))
          BY <5>1
        <5>3. CASE k \in 1 .. Len(old)
          BY <4>2, <5>1, <5>3
        <5>4. CASE ~(k <= Len(old)) /\ k - Len(old) \in 1 .. Len(u)
          BY <4>2, <4>3, <5>1, <5>4
        <5> QED
          BY <5>2, <5>3, <5>4
      <4> QED
        BY <4>1, <4>4, <4>5
    <3>5. ASSUME wire'[g] # <<>>
          PROVE  Older(wire[g][Len(wire[g])].id, g)'
      <4>1. /\ wire[g] # <<>> /\ n = wire'[g][Len(wire'[g])].id
        BY <1>3, <3>5
      <4>2. Older(n, g) /\ \A k \in 1 .. Len(new) : n < new[k].id
        BY <3>4, <4>1
      <4> HIDE DEF n
      <4>3. n <= sent' /\ \A y \in Items' : y.data.fd = g => n < y.data.id
        BY <1>9, <4>2 DEF Older
      <4>4. ASSUME NEW v \in Writers, fd'[v] = g, pc'[v] = "filtering"
            PROVE  /\ \A x \in batch'[v] : ~IsPill(x) => n < x.data.id
                   /\ \A k \in 1 .. Len(buffer'[v]) : n < buffer'[v][k].id
        <5>1. v = w
          BY <2>2, <4>4 DEF Busy
        <5> QED
          BY <1>3, <1>5, <1>11, <4>2, <5>1 DEF Older
      <4> QED
        BY <4>1, <4>3, <4>4 DEF Older, IsPill
    <3>6. ASSUME NEW v \in Writers, Writing(v, g)'
          PROVE  Joins(wire[g], buffer[v])'
      <4>1. v = w /\ buffer'[v] = new /\ wire'[g] = wire[g]
        BY <1>3, <2>2, <3>6 DEF Busy, Writing
      <4>2. ASSUME wire[g] # <<>>, new # <<>>
            PROVE  Follows(wire[g][Len(wire[g])], new[1])
        <5>1. new \in Seq(Unit) /\ wire[g] \in Seq(Unit)
          BY <1>1 DEF OrderInv, IInv, TypeOK
        <5>2. 1 \in 1 .. Len(new) /\ Len(wire[g]) \in 1 .. Len(wire[g])
          <6> HIDE DEF new
          <6> QED
            BY <4>2, <5>1, EmptySeq
        <5>3. n < new[1].id /\ new[1].part = 1
          BY <1>7, <3>4, <4>2, <5>2 DEF Starts
        <5>4. n \in Nat /\ new[1].id \in Nat
          <6> HIDE DEF new
          <6>1. new[1] \in Unit /\ wire[g][Len(wire[g])] \in Unit
            BY <5>1, <5>2, ElementOfSeq
          <6> QED
            BY <6>1 DEF Unit
        <5> HIDE DEF new
        <5> QED
          BY <3>3, <4>2, <5>3, <5>4 DEF Follows, Whole
      <4> HIDE DEF new
      <4>3. Joins(wire[g], new)
        BY <1>7, <4>2 DEF Joins
      <4> QED
        BY <4>1, <4>3 DEF Joins, Starts, Follows
    <3>7. Whole(wire[g])'
      BY <1>3, <3>3 DEF Whole
    <3> QED
      BY <3>5, <3>6, <3>7 DEF Linked
  <2> QED
    BY <2>3, <2>4, <2>5 DEF Stream
<1> QED
  BY <1>1, <1>3, <1>8, <1>10, <1>11 DEF StreamInv

(* write() moves the front of a chain to the wire. *)
LEMMA CutChain ==
    ASSUME NEW s \in Seq(Unit), NEW n \in 1 .. Len(s), Chain(s), Whole(s)
    PROVE  LET head == SubSeq(s, 1, n)
               rest == SubSeq(s, n + 1, Len(s))
           IN  /\ head \in Seq(Unit) /\ head # <<>> /\ Len(head) = n
               /\ head[1] = s[1] /\ head[n] = s[n]
               /\ Chain(head) /\ Chain(rest) /\ Whole(rest)
               /\ rest # <<>> => n < Len(s) /\ rest[1] = s[n + 1]
<1> DEFINE head == SubSeq(s, 1, n)
           rest == SubSeq(s, n + 1, Len(s))
<1>1. Len(s) \in Nat /\ n \in Nat /\ n >= 1 /\ n <= Len(s)
  OBVIOUS
<1>2. /\ head \in Seq(Unit) /\ Len(head) = n
      /\ \A k \in 1 .. n : head[k] = s[k]
      /\ rest \in Seq(Unit) /\ Len(rest) = Len(s) - n
      /\ \A k \in 1 .. Len(s) - n : rest[k] = s[n + k]
  BY CutBuffer
<1> HIDE DEF head, rest
<1>3. head # <<>> /\ head[1] = s[1] /\ head[n] = s[n]
  BY <1>1, <1>2
<1>4. Chain(head)
  <2> SUFFICES ASSUME NEW k \in 1 .. n - 1 PROVE Follows(head[k], head[k + 1])
    BY <1>2 DEF Chain
  <2>1. k \in 1 .. n /\ k + 1 \in 1 .. n /\ k \in 1 .. Len(s) - 1
    BY <1>1
  <2> QED
    BY <1>2, <2>1 DEF Chain
<1>5. Chain(rest)
  <2> SUFFICES ASSUME NEW k \in 1 .. (Len(s) - n) - 1
               PROVE  Follows(rest[k], rest[k + 1])
    BY <1>2 DEF Chain
  <2>1. k \in 1 .. Len(s) - n /\ k + 1 \in 1 .. Len(s) - n
        /\ n + k \in 1 .. Len(s) - 1 /\ n + (k + 1) = (n + k) + 1
    BY <1>1
  <2>2. rest[k] = s[n + k] /\ rest[k + 1] = s[(n + k) + 1]
    BY <1>2, <2>1
  <2> QED
    BY <2>1, <2>2 DEF Chain
<1>6. ASSUME rest # <<>>
      PROVE  n < Len(s) /\ rest[1] = s[n + 1] /\ rest[Len(rest)] = s[Len(s)]
  <2>1. Len(rest) # 0
    BY <1>2, <1>6, EmptySeq
  <2>2. n < Len(s) /\ 1 \in 1 .. Len(s) - n /\ Len(s) - n \in 1 .. Len(s) - n
        /\ n + (Len(s) - n) = Len(s)
    BY <1>1, <1>2, <2>1
  <2> QED
    BY <1>2, <2>2
<1>7. Whole(rest)
  <2>1. s # <<>>
    BY <1>1
  <2> QED
    BY <1>6, <2>1 DEF Whole
<1> QED
  BY <1>2, <1>3, <1>4, <1>5, <1>6, <1>7 DEF head, rest

LEMMA WriteKeepsStream ==
    ASSUME StreamInv, NEW w \in Writers, NEW n, Write(w, n)
    PROVE  StreamInv'
<1> DEFINE f == fd[w]
           s == buffer[w]
           head == SubSeq(buffer[w], 1, n)
           rest == SubSeq(buffer[w], n + 1, Len(buffer[w]))
<1>1. OrderInv /\ OrderInv' /\ TypeOK /\ BufferInOrder /\ TakenInOrder
  BY WriteKeepsOrder DEF StreamInv, OrderInv, IInv
<1>2. /\ UNCHANGED <<output_queue, batch, fd, open, sent, mixed>>
      /\ pc[w] = "writing" /\ f \in open /\ n \in 1 .. Len(s)
      /\ wire' = [wire EXCEPT ![f] = wire[f] \o head]
      /\ buffer' = [buffer EXCEPT ![w] = rest]
      /\ pc' = [pc EXCEPT ![w] = IF n = Len(s) THEN "ready" ELSE "writing"]
  BY DEF Write
<1>3. /\ s \in Seq(Unit) /\ f \in Fds /\ wire[f] \in Seq(Unit) /\ f # None
      /\ Len(s) \in Nat /\ n \in Nat
  BY <1>1, <1>2 DEF TypeOK
<1>4. Chain(s) /\ Whole(s)
  BY DEF StreamInv, Buffered
<1>5. /\ head \in Seq(Unit) /\ head # <<>> /\ Len(head) = n
      /\ head[1] = s[1] /\ head[n] = s[n]
      /\ Chain(head) /\ Chain(rest) /\ Whole(rest)
      /\ rest # <<>> => n < Len(s) /\ rest[1] = s[n + 1]
  BY <1>2, <1>3, <1>4, CutChain
<1>6. /\ buffer'[w] = rest /\ wire'[f] = wire[f] \o head
      /\ pc'[w] = (IF n = Len(s) THEN "ready" ELSE "writing")
      /\ \A v \in Writers : v # w => /\ pc'[v] = pc[v] /\ buffer'[v] = buffer[v]
      /\ \A g \in Fds : g # f => wire'[g] = wire[g]
  BY <1>1, <1>2, <1>3 DEF TypeOK
<1> HIDE DEF s, head, rest
<1>7. \A v \in Writers : Buffered(v)'
  <2> SUFFICES ASSUME NEW v \in Writers PROVE Buffered(v)'
    OBVIOUS
  <2>1. CASE v # w
    <3>1. Buffered(v) /\ pc'[v] = pc[v] /\ buffer'[v] = buffer[v]
      BY <1>6, <2>1 DEF StreamInv
    <3> QED
      BY <3>1 DEF Buffered, Chain, Whole, Starts, Follows
  <2>2. CASE v = w
    <3>1. pc'[w] # "filtering"
      BY <1>6
    <3> QED
      BY <1>5, <1>6, <2>2, <3>1 DEF Buffered, Chain, Whole, Follows
  <2> QED
    BY <2>1, <2>2
<1>8. Items' = Items /\ sent' = sent /\ sent <= sent'
  BY <1>1, <1>2 DEF TypeOK, Items
<1>9. ASSUME NEW g \in Fds \ mixed, g # f
      PROVE  Stream(g)'
  <2>1. wire'[g] = wire[g] /\ (g \in open' => g \in open)
    BY <1>2, <1>6, <1>9
  <2>2. \A v \in Writers : Busy(v, g)' =>
           /\ Busy(v, g) /\ pc'[v] = pc[v]
           /\ batch'[v] = batch[v] /\ buffer'[v] = buffer[v]
    BY <1>2, <1>6, <1>9 DEF Busy
  <2>3. \A v \in Writers : Writing(v, g) => Writing(v, g)'
    BY <1>2, <1>6, <1>9 DEF Writing
  <2> QED
    BY <1>1, <1>8, <2>1, <2>2, <2>3, StreamFrame
<1>10. ASSUME NEW g \in Fds \ mixed, g = f
       PROVE  Stream(g)'
  <2> DEFINE t == wire[f]
  <2>1. Stream(g) /\ Linked(g) /\ Writing(w, g) /\ Busy(w, g)
    BY <1>2, <1>10 DEF StreamInv, Stream, Busy, Writing
  <2>2. \A v \in Writers : v # w => ~Busy(v, g) /\ ~Busy(v, g)'
    BY <1>2, <1>6, <2>1 DEF Stream, Alone, Busy
  <2>3. Alone(g)'
    BY <2>2 DEF Alone
  <2>4. Starts(t) /\ Chain(t) /\ Joins(t, s)
    BY <1>10, <2>1 DEF Stream, Linked, s
  <2>5. Joins(t, head)
    <3>1. s # <<>>
      BY <1>2, <1>3
    <3> QED
      BY <1>5, <2>4, <3>1 DEF Joins, Starts
  <2>6. t \in Seq(Unit) /\ wire'[g] = t \o head
    BY <1>3, <1>6, <1>10
  <2> HIDE DEF t
  <2>7. Chain(t \o head) /\ Starts(t \o head)
    <3>1. Chain(t \o head)
      BY <1>5, <2>4, <2>5, <2>6, ChainConcat
    <3>2. t = <<>> => Starts(head)
      BY <2>5 DEF Joins
    <3> QED
      BY <1>5, <2>4, <2>6, <3>1, <3>2, StartsConcat
  <2>8. (Starts(wire[g]) /\ Chain(wire[g]))'
    BY <2>6, <2>7 DEF Starts, Chain, Follows
  <2>9. wire'[g] # <<>> /\ wire'[g][Len(wire'[g])] = s[n]
    BY <1>5, <2>6, EndConcat
  <2>10. Older(wire[g][Len(wire[g])].id, g)'
    <3> DEFINE id == s[n].id
    <3>1. id <= sent' /\ \A y \in Items' : y.data.fd = g => id < y.data.id
      BY <1>1, <1>2, <1>3, <1>8, <1>10 DEF BufferInOrder, TakenInOrder, s
    <3>2. ASSUME NEW v \in Writers, fd'[v] = g, pc'[v] = "filtering"
          PROVE  FALSE
      <4>1. Busy(v, g)'
        BY <3>2 DEF Busy
      <4>2. pc'[w] # "filtering"
        BY <1>6
      <4> QED
        BY <2>2, <3>2, <4>1, <4>2
    <3>3. id = wire'[g][Len(wire'[g])].id
      BY <2>9
    <3> HIDE DEF id
    <3> QED
      BY <3>1, <3>2, <3>3 DEF Older
  <2>11. ASSUME NEW v \in Writers, Writing(v, g)'
         PROVE  Joins(wire[g], buffer[v])'
    <3>1. v = w /\ buffer'[v] = rest
      BY <1>6, <2>2, <2>11 DEF Busy, Writing
    <3>2. ASSUME rest # <<>>
          PROVE  Follows(s[n], rest[1])
      <4>1. n \in 1 .. Len(s) - 1 /\ rest[1] = s[n + 1]
        BY <1>2, <1>3, <1>5, <3>2
      <4> QED
        BY <1>4, <4>1 DEF Chain
    <3> QED
      BY <2>9, <3>1, <3>2 DEF Joins, Starts, Follows
  <2>12. ASSUME \A v \in Writers : ~Writing(v, g)'
         PROVE  Whole(wire[g])'
    <3>1. pc'[w] # "writing"
      BY <1>2, <1>10, <2>12 DEF Writing
    <3>2. n = Len(s) /\ s # <<>>
      BY <1>2, <1>3, <1>6, <3>1
    <3> QED
      BY <1>4, <2>9, <3>2 DEF Whole
  <2>13. Linked(g)'
    BY <2>10, <2>11, <2>12 DEF Linked
  <2> QED
    BY <2>3, <2>8, <2>13 DEF Stream
<1> QED
  BY <1>1, <1>2, <1>7, <1>9, <1>10 DEF StreamInv

LEMMA InitStreamInv == Init => StreamInv
<1> SUFFICES ASSUME Init PROVE StreamInv
  OBVIOUS
<1>1. OrderInv
  BY InitOrderInv
<1>2. /\ \A w \in Writers : buffer[w] = <<>> /\ pc[w] = "ready"
      /\ \A f \in Fds : wire[f] = <<>>
  BY DEF Init
<1>3. Len(<<>>) - 1 = -1
  OBVIOUS
<1>4. \A w \in Writers : Buffered(w)
  BY <1>2, <1>3 DEF Buffered, Chain, Whole, Starts
<1>5. \A f \in Fds : Stream(f)
  BY <1>2, <1>3 DEF Stream, Alone, Busy, Starts, Chain, Linked, Writing, Whole
<1> QED
  BY <1>1, <1>4, <1>5 DEF StreamInv

LEMMA NextStreamInv == StreamInv /\ [Next]_vars => StreamInv'
<1> SUFFICES ASSUME StreamInv, [Next]_vars PROVE StreamInv'
  OBVIOUS
<1>1. OrderInv /\ OrderInv' /\ TypeOK
  BY NextOrderInv DEF StreamInv, OrderInv, IInv
<1>2. ASSUME UNCHANGED <<output_queue, batch, fd, buffer, wire, mixed, sent>>,
             open' \in SUBSET open,
             \A w \in Writers : \/ pc'[w] = pc[w]
                                \/ {pc[w], pc'[w]} = {"ready", "waiting"}
      PROVE  StreamInv'
  <2>1. sent <= sent' /\ \A y \in Items' : y \in Items
    BY <1>1, <1>2 DEF TypeOK, Items
  <2> QED
    BY <1>1, <1>2, <2>1, IdleKeepsStream
<1>3. CASE UNCHANGED vars
  BY <1>2, <1>3 DEF vars
<1>4. CASE Produce
  BY <1>4, ProducerKeepsStream
<1>5. ASSUME NEW f \in Fds, CloseSession(f)
      PROVE  StreamInv'
  BY <1>2, <1>5 DEF CloseSession
<1>6. ASSUME NEW w \in Writers, Wait(w) \/ SpuriousWakeup(w) \/ WriteFails(w)
      PROVE  StreamInv'
  <2>1. \A v \in Writers : \/ pc'[v] = pc[v]
                           \/ {pc[v], pc'[v]} = {"ready", "waiting"}
    BY <1>1, <1>6 DEF Wait, SpuriousWakeup, WriteFails, TypeOK
  <2> QED
    BY <1>2, <1>6, <2>1 DEF Wait, SpuriousWakeup, WriteFails
<1>7. ASSUME NEW w \in Writers, WriterStep(w) \/ SpuriousWakeup(w)
      PROVE  StreamInv'
  BY <1>6, <1>7, TakeKeepsStream, StopKeepsStream, FilterMessageKeepsStream,
     WriteKeepsStream DEF WriterStep
<1> QED
  BY <1>3, <1>4, <1>5, <1>7, OpenSessionKeepsStream DEF Next, Sessions

(* A client receives whole messages, in the order in which they were       *)
(* queued, however write() cuts the buffers and however the writers are    *)
(* scheduled, as long as no two writers served its descriptor at the same  *)
(* time and nobody still served it when it was reused.                     *)
THEOREM StreamIntactHolds == Spec => []StreamIntact
<1>1. Spec => []StreamInv
  BY InitStreamInv, NextStreamInv, PTL DEF Spec
<1>2. StreamInv => StreamIntact
  BY DEF StreamInv, Stream, StreamIntact, Starts, Chain
<1> QED
  BY <1>1, <1>2, PTL

=============================================================================
