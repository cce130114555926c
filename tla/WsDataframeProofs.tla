------------------------- MODULE WsDataframeProofs -------------------------
(***************************************************************************)
(* The data frames of every number of clients, whatever the lengths of     *)
(* their frames, and however recv cuts them up.                            *)
(*                                                                         *)
(* The properties speak of the moments at which the main thread is out of  *)
(* the filter; the invariant places the buffer in the client's stream at   *)
(* every step of the loop (Placed) and says why the loop ended (Settled).  *)
(* For the accounting it says what the two cleanups that may meet have     *)
(* read and are about to write (Pending).                                  *)
(***************************************************************************)
EXTENDS WsDataframe, DataProofs, SequenceTheorems

USE WsDataframeAssumption

Fits(f) ==
    (f.form = "7" => f.payload < Len7) /\ (f.form = "16" => f.payload < Len16)
Frame == {f \in [op : {"text", "close", "other"}, form : {"7", "16", "64"},
                 payload : Nat, at : Nat] : Fits(f)}
Mains ==
    {Idle} \cup [at : {"filter", "lost"}, out : Seq(Nat), fd : Fds]
           \cup [at : {"return"}, out : Seq(Nat), fd : Fds, status : Statuses]

Cleanings ==
    {NotCleaning} \cup [at : {"remove", "free"}, fd : Fds]
                  \cup [at : {"store"}, fd : Fds, size : Nat, len : Nat]

(* The types, with those of the main thread's record and of the history. *)
TypeInv ==
    /\ stream \in [Fds -> Seq(Frame)]
    /\ taken \in [Fds -> Nat]
    /\ session \in [Fds -> {"none", "plain", "encoded"}]
    /\ ws_buffer \in [Fds -> [start : Nat, received_len : Nat]]
    /\ allocated_size \in Nat
    /\ main \in Mains
    /\ delivered \in [Fds -> Seq(Nat)]
    /\ torn \subseteq Fds
    /\ clean \in [Cleaners -> Cleanings]
    /\ raced \in BOOLEAN

(* Where the bytes behind the first k frames begin. *)
From(fd, k) == IF k = 0 THEN 0 ELSE End(stream[fd][k])

(* A client's frames are one behind the other, and recv returns no more    *)
(* than was sent.                                                          *)
Laid(fd) ==
    /\ \A k \in 1 .. Len(stream[fd]) : stream[fd][k].at = From(fd, k - 1)
    /\ \A j, k \in 1 .. Len(stream[fd]) :
          j < k => End(stream[fd][j]) <= stream[fd][k].at
    /\ taken[fd] <= From(fd, Len(stream[fd]))

(* Nothing is left of a client without a session. *)
Fresh(fd) ==
    session[fd] = "none" =>
        stream[fd] = <<>> /\ taken[fd] = 0 /\ delivered[fd] = <<>>

(* While the main thread looks through a buffer it is there, and nobody    *)
(* cleans up.                                                              *)
Working ==
    /\ main.at \in {"filter", "lost"} =>
          /\ HasItem(main.fd) /\ session[main.fd] = "encoded"
          /\ \A c \in Cleaners : clean[c] = NotCleaning
    /\ main # Idle => clean["main"] = NotCleaning

BytesOf(S) == UNION {{fd} \X (1 .. ws_buffer[fd].received_len) : fd \in S}

(* A cleanup past the session has its client for itself.  What it is about *)
(* to write is enough for the bytes that will be left.                     *)
Pending(c) ==
    /\ clean[c].at \in {"free", "store"} => session[clean[c].fd] = "none"
    /\ clean[c].at = "store" =>
         /\ clean[c].size - clean[c].len >= Cardinality(BytesOf(Fds \ {clean[c].fd}))
         /\ clean[c].size <= MaxBuffer
         /\ ~raced => /\ clean[c].size = allocated_size
                      /\ clean[c].len = ws_buffer[clean[c].fd].received_len

Cleanup ==
    /\ \A c \in Cleaners : Pending(c)
    /\ ~raced => \A c, d \in Cleaners :
                    clean[c].at = "store" /\ clean[d].at = "store" => c = d

Inside(fd) == main.at \in {"filter", "lost"} /\ main.fd = fd
Dropping(fd) ==
    main.at = "return" /\ main.fd = fd /\ main.status \in Disconnects

(* The first k frames are decoded, and the buffer begins behind them. *)
Placed(fd, k) ==
    /\ k <= Len(stream[fd])
    /\ Decoded(fd) = [j \in 1 .. k |-> j]
    /\ \A j \in 1 .. k : stream[fd][j].op = "text"
    /\ HasItem(fd) => /\ ws_buffer[fd].start = From(fd, k)
                      /\ taken[fd] = From(fd, k) + ws_buffer[fd].received_len
    /\ HasItem(fd) \/ taken[fd] = From(fd, k) \/ Dropping(fd)

(* Why frame d + 1 is not decoded. *)
Done(fd, d) ==
    \/ d = Len(stream[fd])
    \/ taken[fd] - stream[fd][d + 1].at <= MinFrame
    \/ stream[fd][d + 1].op = "other"
    \/ End(stream[fd][d + 1]) > taken[fd]

Settled(fd) ==
    ~Inside(fd) /\ ~Dropping(fd) => Done(fd, Len(Decoded(fd)))

(* A client is refused for a frame it sent. *)
Allowed(f) == f.op = "text" /\ f.payload <= MaxPayload
Blamed(fd) ==
    main.at = "return" /\ main.fd = fd
    /\ main.status \in {"CLIENT_DISCONNECT", "UNHANDLED", "TOO_LARGE_DATAFRAME"}
    => \E k \in 1 .. Len(stream[fd]) : ~Allowed(stream[fd][k])

Client(fd) ==
    fd \in Whole => /\ Placed(fd, Len(Decoded(fd)))
                    /\ Settled(fd) /\ Blamed(fd)

Inv ==
    /\ TypeInv /\ Accounted /\ Working /\ Cleanup
    /\ \A fd \in Fds : Laid(fd) /\ Fresh(fd) /\ Client(fd)

-----------------------------------------------------------------------------
(* The lengths of headers and frames. *)

LEMMA HeaderLens ==
    /\ \A form : HeaderLen(form) \in Nat /\ HeaderLen(form) > 0
    /\ \A n : Skip(n) \in Nat /\ Skip(n) > 0
<1>1. Header7 \in Nat /\ Header16 \in Nat /\ Header64 \in Nat
      /\ 0 < Header7 /\ 0 < Header16 /\ 0 < Header64
  OBVIOUS
<1>2. \A form : HeaderLen(form) \in {Header7, Header16, Header64}
  <2> SUFFICES ASSUME NEW form
               PROVE  HeaderLen(form) \in {Header7, Header16, Header64}
    OBVIOUS
  <2>1. CASE form = "7"
    BY <2>1 DEF HeaderLen
  <2>2. CASE form = "16"
    BY <2>2 DEF HeaderLen
  <2>3. CASE form # "7" /\ form # "16"
    BY <2>3 DEF HeaderLen
  <2> QED
    BY <2>1, <2>2, <2>3
<1>3. \A n : Skip(n) \in {Header7, Header16, Header64}
  BY DEF Skip
<1> QED
  BY ONLY <1>1, <1>2, <1>3

(* What ws_dataframe_decode removes is the whole frame if the length has   *)
(* its shortest form, and never more than the frame.                       *)
LEMMA SkipOfForm ==
    ASSUME NEW f, f.payload \in Nat, f.form \in {"7", "16", "64"}, Fits(f)
    PROVE  /\ Skip(f.payload) <= HeaderLen(f.form)
           /\ Shortest(f) => HeaderLen(f.form) = Skip(f.payload)
<1>1. Header7 \in Nat /\ Header16 \in Nat /\ Header64 \in Nat
      /\ Len7 \in Nat /\ Len16 \in Nat
      /\ Header7 <= Header16 /\ Header16 <= Header64
  OBVIOUS
<1>2. PICK n : n = f.payload
  OBVIOUS
<1>3. Skip(n) <= HeaderLen(f.form)
  <2>1. CASE f.form = "7"
    <3>1. n < Len7
      BY <1>2, <2>1 DEF Fits
    <3> QED
      BY <1>1, <2>1, <3>1 DEF Skip, HeaderLen
  <2>2. CASE f.form = "16"
    <3>1. n < Len16
      BY <1>2, <2>2 DEF Fits
    <3>2. Skip(n) = Header7 \/ Skip(n) = Header16
      BY <3>1 DEF Skip
    <3>3. HeaderLen(f.form) = Header16
      BY <2>2 DEF HeaderLen
    <3> QED
      BY <1>1, <3>2, <3>3
  <2>3. CASE f.form = "64"
    <3>1. HeaderLen(f.form) = Header64
      BY <2>3 DEF HeaderLen
    <3> QED
      BY <1>1, <3>1 DEF Skip
  <2> QED
    BY <2>1, <2>2, <2>3
<1>4. Skip(n) = CASE n < Len7 -> Header7
                  [] n \in Len7 .. Len16 - 1 -> Header16
                  [] OTHER -> Header64
  <2>1. n \in Nat
    BY <1>2
  <2>2. CASE n < Len7
    <3>1. n \notin Len7 .. Len16 - 1
      BY <1>1, <2>1, <2>2
    <3> QED
      BY <2>2, <3>1 DEF Skip
  <2>3. CASE ~(n < Len7) /\ n < Len16
    <3>1. n \in Len7 .. Len16 - 1
      BY <1>1, <2>1, <2>3
    <3> QED
      BY <2>3, <3>1 DEF Skip
  <2>4. CASE ~(n < Len7) /\ ~(n < Len16)
    <3>1. n \notin Len7 .. Len16 - 1
      BY <1>1, <2>1, <2>4
    <3> QED
      BY <2>4, <3>1 DEF Skip
  <2> QED
    BY <2>2, <2>3, <2>4
<1>5. Shortest(f) => HeaderLen(f.form) = Skip(n)
  BY <1>2, <1>4 DEF Shortest
<1> QED
  BY <1>2, <1>3, <1>5

LEMMA FrameEnd ==
    ASSUME NEW f \in Frame
    PROVE  /\ End(f) \in Nat /\ End(f) > f.at
           /\ End(f) = f.at + (f.payload + HeaderLen(f.form))
<1>1. f.payload \in Nat /\ f.at \in Nat
  BY DEF Frame
<1>2. HeaderLen(f.form) \in Nat /\ HeaderLen(f.form) > 0
  BY HeaderLens
<1>3. End(f) = f.at + (f.payload + HeaderLen(f.form))
  BY DEF End, FrameLen
<1> QED
  BY <1>1, <1>2, <1>3

LEMMA MainFields ==
    ASSUME main \in Mains
    PROVE  /\ main.at \in {"idle", "filter", "return", "lost"}
           /\ main = Idle <=> main.at = "idle"
           /\ main # Idle => main.fd \in Fds
           /\ main.out \in Seq(Nat)
           /\ main.at = "return" => main.status \in Statuses
<1>1. CASE main = Idle
  <2>1. Idle.at = "idle" /\ Idle.out = <<>>
    BY DEF Idle
  <2> QED
    BY <1>1, <2>1, EmptySeq
<1>2. CASE main \in [at : {"filter", "lost"}, out : Seq(Nat), fd : Fds]
  <2>1. main.at \in {"filter", "lost"} /\ main.out \in Seq(Nat) /\ main.fd \in Fds
    BY <1>2
  <2> QED
    BY <2>1 DEF Idle
<1>3. CASE main \in [at : {"return"}, out : Seq(Nat), fd : Fds, status : Statuses]
  <2>1. /\ main.at = "return" /\ main.out \in Seq(Nat) /\ main.fd \in Fds
        /\ main.status \in Statuses
    BY <1>3
  <2> QED
    BY <2>1 DEF Idle
<1> QED
  BY <1>1, <1>2, <1>3 DEF Mains

LEMMA StreamFields ==
    ASSUME TypeInv, NEW fd \in Fds
    PROVE  /\ stream[fd] \in Seq(Frame) /\ Len(stream[fd]) \in Nat
           /\ \A k \in 1 .. Len(stream[fd]) :
                 /\ stream[fd][k] \in Frame
                 /\ stream[fd][k].at \in Nat /\ stream[fd][k].payload \in Nat
                 /\ End(stream[fd][k]) \in Nat
                 /\ End(stream[fd][k]) > stream[fd][k].at
           /\ \A k \in 0 .. Len(stream[fd]) : From(fd, k) \in Nat
           /\ Sent(fd) = From(fd, Len(stream[fd]))
           /\ DOMAIN stream[fd] = 1 .. Len(stream[fd])
<1>1. stream[fd] \in Seq(Frame) /\ Len(stream[fd]) \in Nat
  BY DEF TypeInv
<1>2. ASSUME NEW k \in 1 .. Len(stream[fd])
      PROVE  /\ stream[fd][k] \in Frame
             /\ stream[fd][k].at \in Nat /\ stream[fd][k].payload \in Nat
             /\ End(stream[fd][k]) \in Nat
             /\ End(stream[fd][k]) > stream[fd][k].at
  <2>1. stream[fd][k] \in Frame
    BY <1>1, ElementOfSeq
  <2>2. stream[fd][k].at \in Nat /\ stream[fd][k].payload \in Nat
    BY <2>1 DEF Frame
  <2> QED
    BY <2>1, <2>2, FrameEnd
<1>3. ASSUME NEW k \in 0 .. Len(stream[fd])
      PROVE  From(fd, k) \in Nat
  <2>1. k = 0 \/ k \in 1 .. Len(stream[fd])
    BY <1>1
  <2> QED
    BY <1>2, <2>1 DEF From
<1>4. Sent(fd) = From(fd, Len(stream[fd]))
  <2>1. stream[fd] = <<>> <=> Len(stream[fd]) = 0
    BY <1>1, EmptySeq
  <2> QED
    BY <2>1 DEF Sent, From
<1> QED
  BY <1>1, <1>2, <1>3, <1>4, LenProperties

-----------------------------------------------------------------------------
(* The accounting of the continuation buffer. *)

LEMMA ResizeAccounts ==
    ASSUME TypeInv, allocated_size >= Cardinality(Bytes),
           NEW fd \in Fds, NEW start \in Nat, NEW new_len \in Nat,
           ws_buffer_resize(fd, start, new_len)
    PROVE  /\ ws_buffer' \in [Fds -> [start : Nat, received_len : Nat]]
           /\ ws_buffer'[fd] = [start |-> start, received_len |-> new_len]
           /\ \A g \in Fds : g # fd => ws_buffer'[g] = ws_buffer[g]
           /\ allocated_size' >= Cardinality(Bytes)'
           /\ allocated_size = Cardinality(Bytes) =>
                allocated_size' = Cardinality(Bytes)'
           /\ allocated_size' \in Nat
           /\ allocated_size' = allocated_size + new_len - ws_buffer[fd].received_len
<1> DEFINE item == [start |-> start, received_len |-> new_len]
           len == [g \in Fds |-> ws_buffer[g].received_len]
           len1 == [g \in Fds |-> ws_buffer'[g].received_len]
           others == Fds \ {fd}
<1>1. /\ ws_buffer \in [Fds -> [start : Nat, received_len : Nat]]
      /\ ws_buffer' = [ws_buffer EXCEPT ![fd] = item]
      /\ allocated_size' = allocated_size + new_len - ws_buffer[fd].received_len
      /\ allocated_size \in Nat
  BY DEF TypeInv, ws_buffer_resize
<1>2. item \in [start : Nat, received_len : Nat] /\ item.received_len = new_len
  OBVIOUS
<1> HIDE DEF item
<1>3. /\ ws_buffer' \in [Fds -> [start : Nat, received_len : Nat]]
      /\ ws_buffer'[fd] = item
      /\ \A g \in Fds : g # fd => ws_buffer'[g] = ws_buffer[g]
  BY <1>1, <1>2
<1>4. len \in [Fds -> Nat] /\ len1 \in [Fds -> Nat]
  BY <1>1, <1>3
<1>5. /\ \A g \in Fds : len[g] = ws_buffer[g].received_len
      /\ \A g \in Fds : len1[g] = ws_buffer'[g].received_len
  OBVIOUS
<1> HIDE DEF len, len1
<1>6. Bytes = Pieces(Fds, len) /\ Bytes' = Pieces(Fds, len1)
  <2>1. {{g} \X (1 .. ws_buffer[g].received_len) : g \in Fds} =
        {{g} \X (1 .. len[g]) : g \in Fds}
    BY <1>5
  <2>2. {{g} \X (1 .. ws_buffer'[g].received_len) : g \in Fds} =
        {{g} \X (1 .. len1[g]) : g \in Fds}
    BY <1>5
  <2> QED
    BY <2>1, <2>2 DEF Bytes, Pieces
<1>7. Pieces(others, len) = Pieces(others, len1)
  <2>1. \A g \in others : len[g] = len1[g]
    BY <1>3, <1>5
  <2>2. {{g} \X (1 .. len[g]) : g \in others} =
        {{g} \X (1 .. len1[g]) : g \in others}
    BY <2>1
  <2> QED
    BY <2>2 DEF Pieces
<1>8. /\ Cardinality(Pieces(Fds, len)) =
           Cardinality(Pieces(others, len)) + len[fd]
      /\ Cardinality(Pieces(Fds, len1)) =
           Cardinality(Pieces(others, len1)) + len1[fd]
      /\ Cardinality(Pieces(others, len)) \in Nat
  BY <1>4, PiecesAdd
<1>9. len[fd] = ws_buffer[fd].received_len /\ len1[fd] = new_len
      /\ len[fd] \in Nat
  BY <1>2, <1>3, <1>4, <1>5
<1> DEFINE rest == Cardinality(Pieces(others, len))
           old == len[fd]
<1>10. /\ Cardinality(Bytes) = rest + old /\ rest \in Nat /\ old \in Nat
       /\ old = ws_buffer[fd].received_len
       /\ Cardinality(Bytes') = rest + new_len
  BY <1>6, <1>7, <1>8, <1>9
<1> HIDE DEF rest, old
<1>11. /\ allocated_size' = allocated_size + new_len - old
       /\ allocated_size >= rest + old
  BY <1>1, <1>10
<1>12. /\ allocated_size' \in Nat /\ allocated_size' >= rest + new_len
       /\ allocated_size = rest + old => allocated_size' = rest + new_len
  BY ONLY <1>1, <1>10, <1>11, new_len \in Nat
<1>13. /\ allocated_size' \in Nat /\ allocated_size' >= Cardinality(Bytes')
       /\ allocated_size = Cardinality(Bytes) =>
            allocated_size' = Cardinality(Bytes')
  BY <1>10, <1>12
<1> QED
  BY <1>1, <1>3, <1>13 DEF item

(* The bytes of one client and those of the others. *)
LEMMA BytesAdd ==
    ASSUME TypeInv, NEW fd \in Fds
    PROVE  /\ Cardinality(Bytes) =
                Cardinality(BytesOf(Fds \ {fd})) + ws_buffer[fd].received_len
           /\ Cardinality(BytesOf(Fds \ {fd})) \in Nat
           /\ Cardinality(Bytes) \in Nat
           /\ IsFiniteSet(BytesOf(Fds \ {fd}))
<1> DEFINE len == [g \in Fds |-> ws_buffer[g].received_len]
<1>1. len \in [Fds -> Nat] /\ \A g \in Fds : len[g] = ws_buffer[g].received_len
  BY DEF TypeInv
<1> HIDE DEF len
<1>2. ASSUME NEW S \in SUBSET Fds
      PROVE  BytesOf(S) = Pieces(S, len)
  <2>1. {{g} \X (1 .. ws_buffer[g].received_len) : g \in S} =
        {{g} \X (1 .. len[g]) : g \in S}
    BY <1>1
  <2> QED
    BY <2>1 DEF BytesOf, Pieces
<1>3. Fds \in SUBSET Fds /\ Fds \ {fd} \in SUBSET Fds
  OBVIOUS
<1>4. Bytes = BytesOf(Fds)
  BY DEF Bytes, BytesOf
<1>5. /\ Cardinality(Pieces(Fds, len)) =
           Cardinality(Pieces(Fds \ {fd}, len)) + len[fd]
      /\ Cardinality(Pieces(Fds, len)) \in Nat
      /\ Cardinality(Pieces(Fds \ {fd}, len)) \in Nat
  BY <1>1, <1>3, PiecesAdd
<1>6. IsFiniteSet(Pieces(Fds \ {fd}, len))
  BY <1>1, <1>3, PiecesAdd
<1> QED
  BY <1>1, <1>2, <1>3, <1>4, <1>5, <1>6

(* Giving up a buffer leaves no more bytes to any others. *)
LEMMA BytesLess ==
    ASSUME TypeInv, NEW fd \in Fds, NEW g \in Fds,
           ws_buffer'[fd].received_len = 0,
           \A h \in Fds \ {fd} : ws_buffer'[h] = ws_buffer[h]
    PROVE  /\ Cardinality(BytesOf(Fds \ {g})') <= Cardinality(BytesOf(Fds \ {g}))
           /\ Cardinality(BytesOf(Fds \ {g})') \in Nat
<1> DEFINE A == BytesOf(Fds \ {g})
           B == BytesOf(Fds \ {g})'
           p(h) == {h} \X (1 .. ws_buffer[h].received_len)
           q(h) == {h} \X (1 .. ws_buffer'[h].received_len)
<1>1. IsFiniteSet(A)
  BY BytesAdd
<1>2. B \subseteq A
  <2>1. \A h \in Fds \ {fd} : q(h) = p(h)
    OBVIOUS
  <2>2. q(fd) = {}
    <3>1. 1 .. 0 = {}
      OBVIOUS
    <3> QED
      BY <3>1
  <2>3. A = UNION {p(h) : h \in Fds \ {g}} /\ B = UNION {q(h) : h \in Fds \ {g}}
    BY DEF BytesOf
  <2> HIDE DEF A, B, p, q
  <2> QED
    BY <2>1, <2>2, <2>3
<1> HIDE DEF A, B
<1>3. IsFiniteSet(B) /\ Cardinality(B) <= Cardinality(A)
  BY <1>1, <1>2, FS_Subset
<1>4. Cardinality(B) \in Nat
  BY <1>3, FS_CardinalityType
<1> QED
  BY <1>3, <1>4 DEF A, B

LEMMA FreeIsResize ==
    ASSUME TypeInv, NEW fd \in Fds, ws_buffer_free(fd)
    PROVE  ws_buffer_resize(fd, 0, 0) /\ ws_buffer'[fd] = NoItem
<1>1. /\ ws_buffer' = [ws_buffer EXCEPT ![fd] = NoItem]
      /\ ws_buffer[fd].received_len \in Nat /\ allocated_size \in Nat
  BY DEF ws_buffer_free, TypeInv
<1>2. allocated_size - ws_buffer[fd].received_len =
      allocated_size + 0 - ws_buffer[fd].received_len
  BY <1>1
<1> QED
  BY <1>1, <1>2 DEF ws_buffer_free, ws_buffer_resize, NoItem, TypeInv

(* The slots in use, when only the slot of fd changes. *)
LEMMA SlotsKept ==
    ASSUME TypeInv, SlotsInUse <= Slots, NEW fd \in Fds,
           \A g \in Fds : g # fd => ws_buffer'[g] = ws_buffer[g],
           \/ ws_buffer'[fd] = NoItem
           \/ HasItem(fd)
           \/ SlotsInUse < Slots
    PROVE  (SlotsInUse <= Slots)'
<1> DEFINE A == {g \in Fds : HasItem(g)}
           B == {g \in Fds : HasItem(g)'}
<1>1. IsFiniteSet(A) /\ IsFiniteSet(B)
      /\ Cardinality(A) \in Nat /\ Cardinality(B) \in Nat /\ Slots \in Nat
  <2>1. A \in SUBSET Fds /\ B \in SUBSET Fds
    OBVIOUS
  <2> HIDE DEF A, B
  <2> QED
    BY <2>1, FS_Subset, FS_CardinalityType
<1>2. B \in SUBSET (A \cup {fd})
  BY DEF HasItem
<1>3. SlotsInUse = Cardinality(A) /\ SlotsInUse' = Cardinality(B)
  BY DEF SlotsInUse
<1>4. /\ Cardinality(B) <= Cardinality(A \cup {fd})
      /\ Cardinality(A \cup {fd}) =
           IF fd \in A THEN Cardinality(A) ELSE Cardinality(A) + 1
  <2> HIDE DEF A, B
  <2>1. IsFiniteSet(A \cup {fd})
        /\ Cardinality(A \cup {fd}) =
             IF fd \in A THEN Cardinality(A) ELSE Cardinality(A) + 1
    BY <1>1, FS_AddElement
  <2> QED
    BY <1>2, <2>1, FS_Subset
<1>5. CASE HasItem(fd) \/ SlotsInUse < Slots
  <2>1. fd \in A \/ Cardinality(A) < Slots
    BY <1>3, <1>5
  <2>2. Cardinality(A) <= Slots
    BY <1>3
  <2> HIDE DEF A, B
  <2>3. Cardinality(B) <= Slots
    BY <1>1, <1>4, <2>1, <2>2
  <2> QED
    BY <1>3, <2>3
<1>6. CASE ws_buffer'[fd] = NoItem
  <2>1. B \in SUBSET A
    BY <1>6 DEF HasItem
  <2>2. Cardinality(A) <= Slots
    BY <1>3
  <2> HIDE DEF A, B
  <2>3. Cardinality(B) <= Cardinality(A)
    BY <1>1, <2>1, FS_Subset
  <2>4. Cardinality(B) <= Slots
    BY <1>1, <2>2, <2>3
  <2> QED
    BY <1>3, <2>4
<1> QED
  BY <1>5, <1>6

-----------------------------------------------------------------------------
(* The clients a step is not about. *)

OffMain(fd) == main = Idle \/ main.fd # fd

LEMMA WholeKept ==
    ASSUME NEW fd \in Fds, stream'[fd] = stream[fd],
           session'[fd] # "none" => session[fd] # "none",
           fd \in torn => fd \in torn', Cleaned(fd) => Cleaned(fd)', fd \in Whole'
    PROVE  fd \in Whole
<1>1. /\ fd \notin torn' /\ session'[fd] # "none" /\ ~Cleaned(fd)'
      /\ \A k \in DOMAIN stream'[fd] : Shortest(stream'[fd][k])
  BY DEF Whole, Shortest, HeaderLen
<1> QED
  BY <1>1 DEF Whole

LEMMA ClientFrame ==
    ASSUME Inv, NEW fd \in Fds, TypeInv',
           stream'[fd] = stream[fd], taken'[fd] = taken[fd],
           session'[fd] = session[fd], ws_buffer'[fd] = ws_buffer[fd],
           delivered'[fd] = delivered[fd], fd \in torn' <=> fd \in torn,
           Cleaned(fd) => Cleaned(fd)',
           UNCHANGED main \/ (OffMain(fd) /\ OffMain(fd)')
    PROVE  Laid(fd)' /\ Fresh(fd)' /\ Client(fd)'
<1>1. Laid(fd) /\ Fresh(fd) /\ Client(fd) /\ TypeInv
  BY DEF Inv
<1>2. \A k : From(fd, k)' = From(fd, k)
  BY DEF From, End, FrameLen, HeaderLen
<1>3. Laid(fd)'
  BY <1>1, <1>2 DEF Laid, End, FrameLen, HeaderLen
<1>4. Fresh(fd)' /\ (HasItem(fd)' <=> HasItem(fd))
  BY <1>1 DEF Fresh, HasItem
<1>5. main.at = "idle" <=> main = Idle
  BY <1>1, MainFields DEF TypeInv
<1>6. main'.at = "idle" <=> main' = Idle
  <2>1. main' \in Mains
    BY DEF TypeInv
  <2> QED
    BY <2>1 DEF Mains, Idle
<1>7. /\ Decoded(fd)' = Decoded(fd)
      /\ Inside(fd)' <=> Inside(fd)
      /\ Dropping(fd)' <=> Dropping(fd)
      /\ Blamed(fd) => Blamed(fd)'
  <2>1. CASE UNCHANGED main
    BY <2>1 DEF Decoded, Inside, Dropping, Blamed, Allowed
  <2>2. CASE OffMain(fd) /\ OffMain(fd)'
    BY <1>5, <1>6, <2>2 DEF OffMain, Decoded, Inside, Dropping, Blamed
  <2> QED
    BY <2>1, <2>2
<1>8. fd \in Whole' => fd \in Whole
  BY WholeKept
<1>9. Client(fd)'
  <2> SUFFICES ASSUME fd \in Whole
               PROVE  /\ Placed(fd, Len(Decoded(fd)))'
                      /\ Settled(fd)' /\ Blamed(fd)'
    BY <1>8 DEF Client
  <2>1. Placed(fd, Len(Decoded(fd))) /\ Settled(fd) /\ Blamed(fd)
    BY <1>1 DEF Client
  <2>2. Placed(fd, Len(Decoded(fd)))'
    BY <1>2, <1>4, <1>7, <2>1 DEF Placed
  <2>3. Settled(fd)'
    BY <1>7, <2>1 DEF Settled, Done, End, FrameLen, HeaderLen
  <2> QED
    BY <1>7, <2>1, <2>2, <2>3
<1> QED
  BY <1>3, <1>4, <1>9

(* A step about client fd. *)
LEMMA OneClient ==
    ASSUME Inv, NEW fd \in Fds, TypeInv', Accounted', Working', Cleanup',
           Laid(fd)', Fresh(fd)', Client(fd)',
           \A g \in Fds \ {fd} :
              /\ stream'[g] = stream[g] /\ taken'[g] = taken[g]
              /\ session'[g] = session[g] /\ ws_buffer'[g] = ws_buffer[g]
              /\ delivered'[g] = delivered[g] /\ (g \in torn' <=> g \in torn)
              /\ Cleaned(g) => Cleaned(g)'
              /\ UNCHANGED main \/ (OffMain(g) /\ OffMain(g)')
    PROVE  Inv'
<1>1. ASSUME NEW g \in Fds
      PROVE  Laid(g)' /\ Fresh(g)' /\ Client(g)'
  <2>1. CASE g = fd
    BY <2>1
  <2>2. CASE g # fd
    BY <2>2, ClientFrame
  <2> QED
    BY <2>1, <2>2
<1> QED
  BY <1>1 DEF Inv

(* The cleanups, when a step is not theirs. *)
LEMMA CleanupSame ==
    ASSUME Cleanup, UNCHANGED <<clean, raced, ws_buffer, allocated_size, session>>
    PROVE  Cleanup' /\ \A fd \in Fds : Cleaned(fd) => Cleaned(fd)'
<1>1. \A c \in Cleaners : Pending(c)'
  BY DEF Cleanup, Pending, BytesOf
<1>2. \A fd \in Fds : Cleaned(fd) => Cleaned(fd)'
  BY DEF Cleaned
<1> QED
  BY <1>1, <1>2 DEF Cleanup

LEMMA NobodyCleans ==
    ASSUME \A c \in Cleaners : clean[c] = NotCleaning, UNCHANGED clean
    PROVE  /\ Cleanup' /\ \A c \in Cleaners : clean'[c] = NotCleaning
           /\ \A fd \in Fds : ~Cleaned(fd) /\ ~Cleaned(fd)'
<1>1. \A c \in Cleaners : clean'[c] = NotCleaning /\ clean'[c].at = "none"
  BY DEF NotCleaning
<1>2. \A c \in Cleaners : Pending(c)'
  BY <1>1 DEF Pending
<1>3. \A fd \in Fds : ~Cleaned(fd) /\ ~Cleaned(fd)'
  BY <1>1 DEF Cleaned
<1> QED
  BY <1>1, <1>2, <1>3 DEF Cleanup

LEMMA EpollNobody ==
    ASSUME AtEpoll, LockFree
    PROVE  main = Idle /\ \A c \in Cleaners : clean[c] = NotCleaning
BY DEF AtEpoll, LockFree, Cleaners

LEMMA DecodedType ==
    ASSUME TypeInv, NEW fd \in Fds
    PROVE  Decoded(fd) \in Seq(Nat) /\ Len(Decoded(fd)) \in Nat
<1>1. delivered[fd] \in Seq(Nat) /\ main.out \in Seq(Nat)
  BY MainFields DEF TypeInv
<1>2. delivered[fd] \o main.out \in Seq(Nat)
  BY <1>1, ConcatProperties
<1>3. Decoded(fd) \in Seq(Nat)
  BY <1>1, <1>2 DEF Decoded
<1> QED
  BY <1>3, LenProperties

(* The frame at the front of the buffer is the next one to decode. *)
LEMMA Front ==
    ASSUME TypeInv, NEW fd \in Fds, Laid(fd), NEW k \in Nat, Placed(fd, k),
           HasItem(fd), ws_buffer[fd].received_len > 0
    PROVE  /\ k + 1 \in 1 .. Len(stream[fd])
           /\ stream[fd][k + 1].at = ws_buffer[fd].start
           /\ FrameAt(fd, ws_buffer[fd].start) = {k + 1}
<1> DEFINE s == stream[fd]
           n == Len(s)
           r == ws_buffer[fd].received_len
<1>1. /\ s \in Seq(Frame) /\ n \in Nat
      /\ \A j \in 1 .. n : /\ s[j].at \in Nat /\ End(s[j]) \in Nat
                           /\ End(s[j]) > s[j].at
      /\ \A j \in 0 .. n : From(fd, j) \in Nat
      /\ DOMAIN s = 1 .. n
  BY StreamFields
<1>2. r \in Nat /\ r > 0
  BY DEF TypeInv
<1>3. /\ k <= n /\ ws_buffer[fd].start = From(fd, k)
      /\ taken[fd] = From(fd, k) + r /\ taken[fd] <= From(fd, n)
  BY DEF Placed, Laid
<1>4. k # n
  <2>1. From(fd, n) \in Nat
    BY <1>1
  <2> HIDE DEF r
  <2> QED
    BY <1>2, <1>3, <2>1
<1>5. k + 1 \in 1 .. n /\ k = (k + 1) - 1
  <2> HIDE DEF n
  <2> QED
    BY <1>1, <1>3, <1>4
<1>6. s[k + 1].at = From(fd, k)
  BY <1>5 DEF Laid
<1>7. ASSUME NEW j \in 1 .. n, s[j].at = s[k + 1].at
      PROVE  j = k + 1
  <2>1. j < k + 1 => End(s[j]) <= s[k + 1].at
    BY <1>5 DEF Laid
  <2>2. k + 1 < j => End(s[k + 1]) <= s[j].at
    BY <1>5 DEF Laid
  <2>3. /\ s[j].at \in Nat /\ End(s[j]) \in Nat /\ End(s[j]) > s[j].at
        /\ s[k + 1].at \in Nat /\ End(s[k + 1]) \in Nat
        /\ End(s[k + 1]) > s[k + 1].at
    BY <1>1, <1>5
  <2>4. j \in Nat
    BY <1>1
  <2>5. ~(j < k + 1) /\ ~(k + 1 < j)
    <3> HIDE DEF s, n
    <3> QED
      BY <1>7, <2>1, <2>2, <2>3
  <2> QED
    BY <2>4, <2>5
<1> HIDE DEF s, n
<1>8. {j \in DOMAIN s : s[j].at = ws_buffer[fd].start} = {k + 1}
  BY <1>1, <1>3, <1>5, <1>6, <1>7
<1> QED
  BY <1>3, <1>5, <1>6, <1>8 DEF FrameAt, s, n

-----------------------------------------------------------------------------
(* The clients. *)

LEMMA NothingDecoded == <<>> = [j \in 1 .. 0 |-> j]
<1>1. [j \in 1 .. 0 |-> j] \in Seq(Nat)
  OBVIOUS
<1> QED
  BY <1>1, EmptySeq

LEMMA OpenStep ==
    ASSUME Inv, NEW fd \in Fds, Open(fd)
    PROVE  Inv'
<1>1. TypeInv /\ Accounted /\ Laid(fd) /\ Fresh(fd)
  BY DEF Inv
<1>2. /\ main = Idle /\ session[fd] = "none"
      /\ session' = [session EXCEPT ![fd] = "plain"]
      /\ UNCHANGED <<stream, taken, ws_buffer, allocated_size, main, delivered,
                     torn, clean, raced>>
      /\ \A c \in Cleaners : clean[c] = NotCleaning
  BY EpollNobody DEF Open, clean_vars
<1>a. /\ Cleanup' /\ \A c \in Cleaners : clean'[c] = NotCleaning
      /\ \A g \in Fds : ~Cleaned(g) /\ ~Cleaned(g)'
  BY <1>2, NobodyCleans
<1>3. /\ stream[fd] = <<>> /\ taken[fd] = 0 /\ delivered[fd] = <<>>
      /\ ~HasItem(fd) /\ ~HasItem(fd)'
  BY <1>1, <1>2, <1>a DEF Fresh, HasItem, Accounted
<1>4. TypeInv'
  BY <1>1, <1>2 DEF TypeInv
<1>5. session'[fd] = "plain" /\ \A g \in Fds \ {fd} : session'[g] = session[g]
  BY <1>1, <1>2 DEF TypeInv
<1>6. Accounted'
  <2>1. Bytes' = Bytes /\ SlotsInUse' = SlotsInUse
    BY <1>2 DEF Bytes, SlotsInUse, HasItem
  <2>2. \A g \in Fds : HasItem(g)' => session'[g] = "encoded"
    BY <1>1, <1>2, <1>3, <1>5, <1>a DEF Accounted, HasItem
  <2> QED
    BY <1>1, <1>2, <2>1, <2>2 DEF Accounted
<1>7. Working'
  BY <1>2, <1>a DEF Working, Idle
<1>8. Laid(fd)'
  BY <1>1, <1>2 DEF Laid, From, End, FrameLen, HeaderLen
<1>9. Fresh(fd)'
  BY <1>5 DEF Fresh
<1>10. Client(fd)'
  <2>1. Decoded(fd)' = <<>> /\ Len(<<>>) = 0
    BY <1>2, <1>3 DEF Decoded
  <2>2. stream'[fd] = <<>> /\ taken'[fd] = 0 /\ From(fd, 0)' = 0
    BY <1>2, <1>3 DEF From
  <2>3. 0 <= Len(stream'[fd]) /\ \A j \in 1 .. 0 : FALSE
    BY <2>2
  <2>4. Placed(fd, Len(Decoded(fd)))'
    BY <1>3, <2>1, <2>2, <2>3, NothingDecoded DEF Placed
  <2>5. Settled(fd)' /\ Blamed(fd)'
    BY <1>2, <2>1, <2>2 DEF Settled, Done, Blamed, Idle
  <2> QED
    BY <2>4, <2>5 DEF Client
<1> QED
  BY <1>2, <1>4, <1>5, <1>6, <1>7, <1>8, <1>9, <1>10, <1>a, OneClient

LEMMA SendStep ==
    ASSUME Inv, NEW fd \in Fds, NEW f \in Frames[fd], Send(fd, f)
    PROVE  Inv'
<1> DEFINE new == [op |-> f.op, form |-> f.form, payload |-> f.payload, at |-> Sent(fd)]
<1>0. PICK s, n : s = stream[fd] /\ n = Len(stream[fd])
  OBVIOUS
<1>1. TypeInv /\ Accounted /\ Working /\ Cleanup /\ Laid(fd) /\ Client(fd)
  BY DEF Inv
<1>2. /\ session[fd] # "none"
      /\ stream' = [stream EXCEPT ![fd] = Append(s, new)]
      /\ UNCHANGED <<taken, session, ws_buffer, allocated_size, main, delivered,
                     torn, clean, raced>>
  BY <1>0 DEF Send, clean_vars
<1>a. Cleanup' /\ \A g \in Fds : Cleaned(g) => Cleaned(g)'
  BY <1>1, <1>2, CleanupSame
<1>3. /\ s \in Seq(Frame) /\ n \in Nat
      /\ \A k \in 1 .. n : /\ s[k].at \in Nat /\ End(s[k]) \in Nat
                           /\ End(s[k]) > s[k].at
      /\ \A k \in 0 .. n : From(fd, k) \in Nat
      /\ Sent(fd) = From(fd, n) /\ n \in 0 .. n
  BY <1>0, <1>1, StreamFields, SMTT(30)
<1>4. new \in Frame /\ new.at = From(fd, n)
  <2>1. f \in [op : {"text", "close", "other"}, form : {"7", "16", "64"},
                payload : Nat] /\ Fits(f)
    BY DEF Fits
  <2>2. Sent(fd) \in Nat
    BY <1>3
  <2>3. new \in [op : {"text", "close", "other"}, form : {"7", "16", "64"},
                 payload : Nat, at : Nat] /\ Fits(new)
    BY <2>1, <2>2 DEF Fits
  <2> QED
    BY <1>3, <2>3 DEF Frame
<1> HIDE DEF new
<1>5. /\ stream'[fd] = Append(s, new)
      /\ \A g \in Fds \ {fd} : stream'[g] = stream[g]
  BY <1>1, <1>2 DEF TypeInv
<1>6. /\ Append(s, new) \in Seq(Frame) /\ Len(Append(s, new)) = n + 1
      /\ \A k \in 1 .. n : Append(s, new)[k] = s[k]
      /\ Append(s, new)[n + 1] = new
  <2>1. n = Len(s)
    BY <1>0
  <2> QED
    BY <1>3, <1>4, <2>1, AppendProperties
<1>7. /\ Len(stream'[fd]) = n + 1
      /\ \A k \in 1 .. n : stream'[fd][k] = s[k]
      /\ stream'[fd][n + 1] = new
  BY <1>5, <1>6
<1>8. \A k \in 0 .. n : From(fd, k)' = From(fd, k)
  <2> SUFFICES ASSUME NEW k \in 0 .. n PROVE From(fd, k)' = From(fd, k)
    OBVIOUS
  <2>1. k = 0 \/ (k # 0 /\ k \in 1 .. n)
    BY <1>3
  <2>2. CASE k = 0
    BY <2>2 DEF From
  <2>3. CASE k # 0 /\ k \in 1 .. n
    <3>1. stream'[fd][k] = stream[fd][k]
      BY <1>0, <1>7, <2>3
    <3> QED
      BY <2>3, <3>1 DEF From, End, FrameLen, HeaderLen
  <2> QED
    BY <2>1, <2>2, <2>3
<1>9. End(new) \in Nat /\ End(new) > new.at /\ From(fd, n + 1)' = End(new)
  <2>1. End(new) \in Nat /\ End(new) > new.at
    BY <1>4, FrameEnd
  <2>2. n + 1 # 0
    BY <1>3
  <2> QED
    BY <1>7, <2>1, <2>2 DEF From, End, FrameLen, HeaderLen
<1>10. TypeInv'
  <2>1. stream' \in [Fds -> Seq(Frame)]
    BY <1>1, <1>2, <1>6 DEF TypeInv
  <2>2. /\ taken' \in [Fds -> Nat]
        /\ session' \in [Fds -> {"none", "plain", "encoded"}]
        /\ ws_buffer' \in [Fds -> [start : Nat, received_len : Nat]]
        /\ allocated_size' \in Nat /\ main' \in Mains
        /\ delivered' \in [Fds -> Seq(Nat)] /\ torn' \subseteq Fds
        /\ clean' \in [Cleaners -> Cleanings] /\ raced' \in BOOLEAN
    BY <1>1, <1>2 DEF TypeInv
  <2> QED
    BY <2>1, <2>2 DEF TypeInv
<1>11. Accounted' /\ Working' /\ Fresh(fd)'
  <2>1. Bytes' = Bytes /\ SlotsInUse' = SlotsInUse
    BY <1>2 DEF Bytes, SlotsInUse, HasItem
  <2>2. Accounted'
    BY <1>1, <1>2, <1>a, <2>1 DEF Accounted, HasItem
  <2> QED
    BY <1>1, <1>2, <2>2 DEF Working, HasItem, Fresh
<1>12. Laid(fd)'
  <2>1. ASSUME NEW k \in 1 .. n + 1
        PROVE  stream'[fd][k].at = From(fd, k - 1)'
    <3>0. n \in Nat /\ k \in 1 .. n + 1
      BY <1>3
    <3>1. k - 1 \in 0 .. n /\ (k \in 1 .. n \/ (k = n + 1 /\ k - 1 = n))
      BY ONLY <3>0
    <3>2. From(fd, k - 1)' = From(fd, k - 1)
      BY <1>8, <3>1
    <3>3. CASE k \in 1 .. n
      BY <1>0, <1>1, <1>7, <3>2, <3>3 DEF Laid
    <3>4. CASE k = n + 1 /\ k - 1 = n
      BY <1>4, <1>7, <3>2, <3>4
    <3> QED
      BY <3>1, <3>3, <3>4
  <2>2. ASSUME NEW j \in 1 .. n + 1, NEW k \in 1 .. n + 1, j < k
        PROVE  End(stream[fd][j])' <= stream'[fd][k].at
    <3>0. n \in Nat /\ j \in 1 .. n + 1 /\ k \in 1 .. n + 1 /\ j < k
      BY <1>3, <2>2
    <3>1. j \in 1 .. n /\ (k \in 1 .. n \/ k = n + 1)
      BY ONLY <3>0
    <3>2. End(stream[fd][j])' = End(s[j])
      BY <1>7, <3>1 DEF End, FrameLen, HeaderLen
    <3>3. CASE k \in 1 .. n
      BY <1>0, <1>1, <1>7, <2>2, <3>1, <3>2, <3>3 DEF Laid
    <3>4. CASE k = n + 1
      <4>1. stream'[fd][k].at = End(s[n]) /\ n \in 1 .. n
        <5>0. n \in Nat /\ j \in 1 .. n
          BY <1>3, <3>1
        <5>1. n # 0 /\ n \in 1 .. n
          BY ONLY <5>0
        <5> QED
          BY <1>0, <1>4, <1>7, <3>4, <5>1 DEF From
      <4>2. j = n \/ (j < n /\ End(s[j]) <= s[n].at)
        <5>1. j < n => End(s[j]) <= s[n].at
          BY <1>0, <1>1, <3>1, <4>1 DEF Laid
        <5>2. n \in Nat /\ j \in 1 .. n
          BY <1>3, <3>1
        <5>3. j = n \/ j < n
          BY ONLY <5>2
        <5> QED
          BY <5>1, <5>3
      <4>3. /\ End(s[j]) \in Nat /\ s[n].at \in Nat /\ End(s[n]) \in Nat
            /\ End(s[n]) > s[n].at
        BY <1>3, <3>1, <4>1
      <4>4. End(s[j]) <= End(s[n])
        BY <4>2, <4>3
      <4> QED
        BY <3>2, <4>1, <4>4
    <3> QED
      BY <3>1, <3>3, <3>4
  <2>3. taken'[fd] <= From(fd, n + 1)'
    <3>1. /\ taken[fd] <= From(fd, n) /\ taken[fd] \in Nat
          /\ From(fd, n) \in Nat
      BY <1>0, <1>1, <1>3 DEF Laid, TypeInv
    <3>2. taken'[fd] = taken[fd]
      BY <1>2
    <3> QED
      BY <1>4, <1>9, <3>1, <3>2
  <2>4. \A k \in 1 .. Len(stream'[fd]) : stream'[fd][k].at = From(fd, k - 1)'
    BY <1>7, <2>1
  <2>5. \A j, k \in 1 .. Len(stream'[fd]) :
           j < k => End(stream[fd][j])' <= stream'[fd][k].at
    BY <1>7, <2>2
  <2>6. taken'[fd] <= From(fd, Len(stream[fd]))'
    BY <1>7, <2>3
  <2> QED
    BY <2>4, <2>5, <2>6 DEF Laid
<1>13. Client(fd)'
  <2>a. fd \in Whole' => fd \in Whole
    <3> SUFFICES ASSUME fd \in Whole' PROVE fd \in Whole
      OBVIOUS
    <3>1. /\ fd \notin torn' /\ session'[fd] # "none" /\ ~Cleaned(fd)'
          /\ \A k \in DOMAIN stream'[fd] : Shortest(stream'[fd][k])
      BY DEF Whole, Shortest, HeaderLen
    <3>2. DOMAIN stream'[fd] = 1 .. n + 1 /\ DOMAIN stream[fd] = 1 .. n
      BY <1>0, <1>3, <1>5, <1>6, LenProperties
    <3>3. ASSUME NEW k \in DOMAIN stream[fd] PROVE Shortest(stream[fd][k])
      <4>1. k \in 1 .. n /\ k \in 1 .. n + 1
        BY <1>3, <3>2
      <4>2. stream'[fd][k] = stream[fd][k]
        BY <1>0, <1>7, <4>1
      <4>3. Shortest(stream'[fd][k])
        BY <3>1, <3>2, <4>1
      <4> QED
        BY <4>2, <4>3
    <3> QED
      BY <1>2, <1>a, <3>1, <3>3 DEF Whole
  <2> SUFFICES ASSUME fd \in Whole
               PROVE  /\ Placed(fd, Len(Decoded(fd)))'
                      /\ Settled(fd)' /\ Blamed(fd)'
    BY <2>a DEF Client
  <2>0. PICK d : d = Len(Decoded(fd))
    OBVIOUS
  <2>1. Placed(fd, d) /\ Settled(fd) /\ Blamed(fd)
    BY <1>1, <2>0 DEF Client
  <2>2. /\ Decoded(fd)' = Decoded(fd) /\ Len(Decoded(fd)') = d
        /\ d \in Nat /\ d <= n
        /\ HasItem(fd)' <=> HasItem(fd)
        /\ Inside(fd)' <=> Inside(fd)
        /\ Dropping(fd)' <=> Dropping(fd)
    BY <1>0, <1>1, <1>2, <2>0, <2>1, DecodedType
       DEF Decoded, Placed, HasItem, Inside, Dropping
  <2>3. From(fd, d)' = From(fd, d) /\ 1 .. d \in SUBSET (1 .. n)
    <3>1. n \in Nat /\ d \in Nat /\ d <= n
      BY <1>3, <2>2
    <3>2. d \in 0 .. n /\ 1 .. d \in SUBSET (1 .. n)
      BY ONLY <3>1
    <3> QED
      BY <1>8, <3>2
  <2>4. Placed(fd, d)'
    <3>1. d <= Len(stream'[fd])
      BY <1>3, <1>7, <2>2
    <3>2. \A j \in 1 .. d : stream'[fd][j].op = "text"
      BY <1>0, <1>7, <2>1, <2>3 DEF Placed
    <3> QED
      BY <1>2, <2>1, <2>2, <2>3, <3>1, <3>2 DEF Placed
  <2>5. Settled(fd)'
    <3> SUFFICES ASSUME ~Inside(fd), ~Dropping(fd)
                 PROVE  \/ d = Len(stream'[fd])
                        \/ taken[fd] - stream'[fd][d + 1].at <= MinFrame
                        \/ stream'[fd][d + 1].op = "other"
                        \/ End(stream'[fd][d + 1]) > taken[fd]
      BY <1>2, <2>2 DEF Settled, Done, End, FrameLen, HeaderLen
    <3>1. Done(fd, d)
      BY <2>0, <2>1 DEF Settled
    <3>2. CASE d = n
      <4>1. stream'[fd][d + 1] = new
        BY <1>7, <3>2
      <4>2. taken[fd] <= From(fd, n) /\ taken[fd] \in Nat /\ From(fd, n) \in Nat
        BY <1>0, <1>1, <1>3 DEF Laid, TypeInv
      <4>3. End(new) > taken[fd]
        BY <1>4, <1>9, <4>2
      <4> QED
        BY <4>1, <4>3
    <3>3. CASE d # n
      <4>1. d + 1 \in 1 .. n
        BY <1>3, <2>2, <3>3
      <4>2. stream'[fd][d + 1] = s[d + 1]
        BY <1>7, <4>1
      <4> QED
        BY <1>0, <3>1, <3>3, <4>2 DEF Done
    <3> QED
      BY <3>2, <3>3
  <2>6. Blamed(fd)'
    <3> SUFFICES ASSUME main.at = "return", main.fd = fd,
                        main.status \in {"CLIENT_DISCONNECT", "UNHANDLED",
                                         "TOO_LARGE_DATAFRAME"}
                 PROVE  \E k \in 1 .. n + 1 : ~Allowed(stream'[fd][k])
      BY <1>2, <1>7 DEF Blamed, Allowed
    <3>1. PICK k \in 1 .. n : ~Allowed(s[k])
      BY <1>0, <2>1 DEF Blamed
    <3>2. k \in 1 .. n + 1 /\ stream'[fd][k] = s[k]
      BY <1>3, <1>7
    <3> QED
      BY <3>1, <3>2
  <2>7. Placed(fd, Len(Decoded(fd)))'
    BY <2>2, <2>4 DEF Placed
  <2> QED
    BY <2>5, <2>6, <2>7
<1> QED
  BY <1>2, <1>5, <1>10, <1>11, <1>12, <1>13, <1>a, OneClient

-----------------------------------------------------------------------------
(* What the steps of the main thread have in common. *)

LEMMA MainValues ==
    ASSUME NEW fd \in Fds, NEW out \in Seq(Nat)
    PROVE  /\ Filter(fd, out) \in Mains
           /\ Filter(fd, out).at = "filter" /\ Filter(fd, out).fd = fd
           /\ Filter(fd, out).out = out /\ Filter(fd, out) # Idle
           /\ \A st \in Statuses :
                 /\ Return(fd, st, out) \in Mains
                 /\ Return(fd, st, out).at = "return"
                 /\ Return(fd, st, out).fd = fd
                 /\ Return(fd, st, out).out = out
                 /\ Return(fd, st, out).status = st
                 /\ Return(fd, st, out) # Idle
<1>1. /\ Filter(fd, out) \in Mains
      /\ Filter(fd, out).at = "filter" /\ Filter(fd, out).fd = fd
      /\ Filter(fd, out).out = out /\ Idle.at = "idle"
  BY DEF Filter, Mains, Idle
<1>2. ASSUME NEW st \in Statuses
      PROVE  /\ Return(fd, st, out) \in Mains
             /\ Return(fd, st, out).at = "return"
             /\ Return(fd, st, out).fd = fd
             /\ Return(fd, st, out).out = out
             /\ Return(fd, st, out).status = st
             /\ Return(fd, st, out) # Idle
  BY <1>1 DEF Return, Mains
<1>3. Filter(fd, out) # Idle
  BY <1>1
<1> QED
  BY <1>1, <1>2, <1>3

LEMMA LaidKept ==
    ASSUME TypeInv, NEW fd \in Fds, Laid(fd), stream'[fd] = stream[fd],
           taken'[fd] <= From(fd, Len(stream[fd]))
    PROVE  Laid(fd)' /\ \A k : From(fd, k)' = From(fd, k)
<1>1. \A k : From(fd, k)' = From(fd, k)
  BY DEF From, End, FrameLen, HeaderLen
<1> QED
  BY <1>1 DEF Laid, End, FrameLen, HeaderLen

LEMMA AccountedSame ==
    ASSUME Accounted, UNCHANGED <<ws_buffer, allocated_size>>, raced => raced',
           \A g \in Fds : \/ session'[g] = session[g]
                          \/ session'[g] = "encoded"
                          \/ Cleaned(g)',
           \A g \in Fds : Cleaned(g) => Cleaned(g)' \/ ~HasItem(g)
    PROVE  Accounted'
<1>1. Bytes' = Bytes /\ SlotsInUse' = SlotsInUse
  BY DEF Bytes, SlotsInUse, HasItem
<1> QED
  BY <1>1 DEF Accounted, HasItem

LEMMA AccountedResize ==
    ASSUME TypeInv, Accounted, NEW fd \in Fds,
           NEW start \in Nat, NEW new_len \in Nat,
           ws_buffer_resize(fd, start, new_len),
           allocated_size + new_len - ws_buffer[fd].received_len <= MaxBuffer,
           \/ ws_buffer'[fd] = NoItem
           \/ HasItem(fd)
           \/ SlotsInUse < Slots,
           ws_buffer'[fd] = NoItem \/ session'[fd] = "encoded",
           \A g \in Fds : g # fd => session'[g] = session[g],
           UNCHANGED clean_vars
    PROVE  Accounted'
<1>0. UNCHANGED <<clean, raced>> /\ \A g \in Fds : Cleaned(g)' <=> Cleaned(g)
  BY DEF clean_vars, Cleaned
<1>1. /\ \A g \in Fds : g # fd => ws_buffer'[g] = ws_buffer[g]
      /\ allocated_size' >= Cardinality(Bytes)'
      /\ allocated_size = Cardinality(Bytes) =>
           allocated_size' = Cardinality(Bytes)'
      /\ allocated_size' = allocated_size + new_len - ws_buffer[fd].received_len
  BY ResizeAccounts DEF Accounted
<1>2. (SlotsInUse <= Slots)'
  BY <1>1, SlotsKept DEF Accounted
<1>3. \A g \in Fds : HasItem(g)' => session'[g] = "encoded" \/ Cleaned(g)'
  BY <1>0, <1>1 DEF Accounted, HasItem
<1> QED
  BY <1>0, <1>1, <1>2, <1>3 DEF Accounted

(* The buffer of a client is given up. *)
LEMMA AccountedFree ==
    ASSUME TypeInv, Accounted, NEW fd \in Fds, ws_buffer_free(fd),
           \A g \in Fds : g # fd => session'[g] = session[g],
           UNCHANGED clean_vars
    PROVE  /\ Accounted' /\ ws_buffer'[fd] = NoItem /\ allocated_size' \in Nat
           /\ ws_buffer' \in [Fds -> [start : Nat, received_len : Nat]]
           /\ \A g \in Fds : g # fd => ws_buffer'[g] = ws_buffer[g]
<1>1. ws_buffer_resize(fd, 0, 0) /\ ws_buffer'[fd] = NoItem
  BY FreeIsResize
<1>2. /\ allocated_size \in Nat /\ ws_buffer[fd].received_len \in Nat
      /\ allocated_size <= MaxBuffer /\ MaxBuffer \in Nat
      /\ allocated_size >= Cardinality(Bytes)
  BY DEF TypeInv, Accounted
<1>3. allocated_size + 0 - ws_buffer[fd].received_len <= MaxBuffer
  BY <1>2
<1>4. 0 \in Nat
  OBVIOUS
<1>5. Accounted'
  BY <1>1, <1>3, <1>4, AccountedResize
<1> QED
  BY <1>1, <1>2, <1>4, <1>5, ResizeAccounts

(* A step of the main thread that leaves a buffer in use as it was. *)
LEMMA PlacedKept ==
    ASSUME TypeInv, NEW fd \in Fds, HasItem(fd), Placed(fd, Len(Decoded(fd))),
           stream'[fd] = stream[fd], taken'[fd] = taken[fd],
           ws_buffer'[fd] = ws_buffer[fd], Decoded(fd)' = Decoded(fd)
    PROVE  Placed(fd, Len(Decoded(fd)))'
<1>1. \A k : From(fd, k)' = From(fd, k)
  BY DEF From, End, FrameLen, HeaderLen
<1>2. HasItem(fd)'
  BY DEF HasItem
<1> QED
  BY <1>1, <1>2 DEF Placed, HasItem

LEMMA ReadPlainStep ==
    ASSUME Inv, NEW fd \in Fds, NEW read_len \in 1 .. ReadSize,
           ReadPlain(fd, read_len)
    PROVE  Inv'
<1>1. TypeInv /\ Accounted /\ Laid(fd) /\ Fresh(fd)
  BY DEF Inv
<1>2. /\ main = Idle /\ session[fd] # "none"
      /\ read_len <= Sent(fd) - taken[fd]
      /\ taken' = [taken EXCEPT ![fd] = taken[fd] + read_len]
      /\ torn' = torn \cup {fd}
      /\ UNCHANGED <<stream, session, ws_buffer, allocated_size, main, delivered,
                     clean, raced>>
      /\ \A c \in Cleaners : clean[c] = NotCleaning
  BY EpollNobody DEF ReadPlain, Chunk, clean_vars
<1>a. /\ Cleanup' /\ \A c \in Cleaners : clean'[c] = NotCleaning
      /\ \A g \in Fds : ~Cleaned(g) /\ ~Cleaned(g)'
  BY <1>2, NobodyCleans
<1>3. taken[fd] \in Nat /\ read_len \in Nat /\ Sent(fd) \in Nat
      /\ Sent(fd) = From(fd, Len(stream[fd]))
  <2>1. Len(stream[fd]) \in Nat
    BY <1>1, StreamFields
  <2>2. Len(stream[fd]) \in 0 .. Len(stream[fd])
    BY <2>1
  <2>3. Sent(fd) \in Nat /\ Sent(fd) = From(fd, Len(stream[fd]))
    BY <1>1, <2>2, StreamFields
  <2>4. read_len \in Nat /\ read_len > 0
    OBVIOUS
  <2> QED
    BY <1>1, <2>3, <2>4 DEF TypeInv
<1>4. /\ taken'[fd] = taken[fd] + read_len
      /\ \A g \in Fds : g # fd => taken'[g] = taken[g]
  BY <1>1, <1>2 DEF TypeInv
<1>5. taken'[fd] <= From(fd, Len(stream[fd]))
  BY <1>2, <1>3, <1>4, SMTT(30)
<1>6. Laid(fd)'
  BY <1>1, <1>2, <1>5, LaidKept
<1>7. TypeInv'
  <2>1. taken' \in [Fds -> Nat]
    BY <1>1, <1>2, <1>3, SMTT(30) DEF TypeInv
  <2> QED
    BY <1>1, <1>2, <2>1 DEF TypeInv
<1>8. Accounted'
  BY <1>1, <1>2, <1>a, AccountedSame
<1>9. Working' /\ Fresh(fd)' /\ Client(fd)'
  BY <1>2, <1>a DEF Working, Idle, Fresh, Client, Whole
<1> QED
  BY <1>2, <1>4, <1>6, <1>7, <1>8, <1>9, <1>a, OneClient

LEMMA ReadEncodedStep ==
    ASSUME Inv, NEW fd \in Fds, NEW read_len \in 1 .. ReadSize,
           ReadEncoded(fd, read_len)
    PROVE  Inv'
<1>1. TypeInv /\ Accounted /\ Laid(fd) /\ Client(fd)
  BY DEF Inv
<1>2. /\ main = Idle /\ session[fd] # "none"
      /\ read_len <= Sent(fd) - taken[fd]
      /\ taken' = [taken EXCEPT ![fd] = taken[fd] + read_len]
      /\ session' = [session EXCEPT ![fd] = "encoded"]
      /\ UNCHANGED <<stream, delivered, torn, clean, raced>>
      /\ UNCHANGED clean_vars
      /\ \A c \in Cleaners : clean[c] = NotCleaning
  BY EpollNobody DEF ReadEncoded, Chunk, clean_vars
<1>a. /\ Cleanup' /\ \A c \in Cleaners : clean'[c] = NotCleaning
      /\ \A g \in Fds : ~Cleaned(g) /\ ~Cleaned(g)'
  BY <1>2, NobodyCleans
<1>3. /\ taken[fd] \in Nat /\ read_len \in Nat /\ read_len > 0
      /\ Sent(fd) \in Nat /\ Sent(fd) = From(fd, Len(stream[fd]))
      /\ ws_buffer[fd].start \in Nat /\ ws_buffer[fd].received_len \in Nat
      /\ allocated_size \in Nat /\ MaxBuffer \in Nat
  <2>1. Len(stream[fd]) \in Nat
    BY <1>1, StreamFields
  <2>2. Len(stream[fd]) \in 0 .. Len(stream[fd])
    BY <2>1
  <2>3. Sent(fd) \in Nat /\ Sent(fd) = From(fd, Len(stream[fd]))
    BY <1>1, <2>2, StreamFields
  <2>4. read_len \in Nat /\ read_len > 0
    OBVIOUS
  <2> QED
    BY <1>1, <2>3, <2>4 DEF TypeInv
<1>4. /\ taken'[fd] = taken[fd] + read_len /\ session'[fd] = "encoded"
      /\ \A g \in Fds : g # fd => taken'[g] = taken[g] /\ session'[g] = session[g]
  BY <1>1, <1>2 DEF TypeInv
<1>5. taken'[fd] <= From(fd, Len(stream[fd]))
  BY <1>2, <1>3, <1>4, SMTT(30)
<1>6. Laid(fd)' /\ \A k : From(fd, k)' = From(fd, k)
  BY <1>1, <1>2, <1>5, LaidKept
<1>7. /\ taken' \in [Fds -> Nat] /\ session' \in [Fds -> {"none", "plain", "encoded"}]
      /\ stream' \in [Fds -> Seq(Frame)] /\ delivered' \in [Fds -> Seq(Nat)]
      /\ torn' \subseteq Fds
  <2>1. taken' \in [Fds -> Nat]
    BY <1>1, <1>2, <1>3, SMTT(30) DEF TypeInv
  <2>2. session' \in [Fds -> {"none", "plain", "encoded"}]
    BY <1>1, <1>2 DEF TypeInv
  <2> QED
    BY <1>1, <1>2, <2>1, <2>2 DEF TypeInv
<1>8. Fresh(fd)' /\ (fd \in Whole' => fd \in Whole)
  BY <1>2, <1>4, <1>a, WholeKept DEF Fresh
(* Whatever the case, the rest follows from these. *)
<1>9. ASSUME ws_buffer' \in [Fds -> [start : Nat, received_len : Nat]],
             allocated_size' \in Nat, Accounted',
             \A g \in Fds : g # fd => ws_buffer'[g] = ws_buffer[g],
             \/ /\ main' = Filter(fd, <<>>) /\ HasItem(fd)'
                /\ fd \in Whole =>
                     /\ ws_buffer'[fd].start = From(fd, Len(delivered[fd]))
                     /\ taken'[fd] = From(fd, Len(delivered[fd]))
                                       + ws_buffer'[fd].received_len
             \/ /\ \E st \in {"BUFFER_EXCEEDED_MAX", "BUFFER_OUT_OF_SLOTS"} :
                      main' = Return(fd, st, <<>>)
                /\ ~HasItem(fd)'
      PROVE  Inv'
  <2>1. /\ main' \in Mains /\ main' # Idle /\ main'.fd = fd /\ main'.out = <<>>
        /\ \/ main'.at = "filter" /\ HasItem(fd)'
           \/ /\ main'.at = "return" /\ ~HasItem(fd)'
              /\ main'.status \in {"BUFFER_EXCEEDED_MAX", "BUFFER_OUT_OF_SLOTS"}
    <3>1. <<>> \in Seq(Nat)
      OBVIOUS
    <3>2. {"BUFFER_EXCEEDED_MAX", "BUFFER_OUT_OF_SLOTS"} \subseteq Statuses
      BY DEF Statuses
    <3>3. CASE main' = Filter(fd, <<>>) /\ HasItem(fd)'
      <4>1. /\ Filter(fd, <<>>) \in Mains /\ Filter(fd, <<>>) # Idle
            /\ Filter(fd, <<>>).fd = fd /\ Filter(fd, <<>>).out = <<>>
            /\ Filter(fd, <<>>).at = "filter"
        <5>1. PICK out \in Seq(Nat) : out = <<>>
          BY <3>1
        <5>2. /\ Filter(fd, out) \in Mains /\ Filter(fd, out) # Idle
              /\ Filter(fd, out).fd = fd /\ Filter(fd, out).out = out
              /\ Filter(fd, out).at = "filter"
          BY MainValues
        <5> QED
          BY <5>1, <5>2
      <4> QED
        BY <3>3, <4>1
    <3>4. CASE ~HasItem(fd)' /\ \E st \in {"BUFFER_EXCEEDED_MAX",
                                          "BUFFER_OUT_OF_SLOTS"} :
                                   main' = Return(fd, st, <<>>)
      <4>1. PICK st \in {"BUFFER_EXCEEDED_MAX", "BUFFER_OUT_OF_SLOTS"} :
                    main' = Return(fd, st, <<>>)
        BY <3>4
      <4>2. st \in Statuses
        BY <3>2
      <4>3. /\ Return(fd, st, <<>>) \in Mains /\ Return(fd, st, <<>>) # Idle
            /\ Return(fd, st, <<>>).fd = fd /\ Return(fd, st, <<>>).out = <<>>
            /\ Return(fd, st, <<>>).at = "return"
            /\ Return(fd, st, <<>>).status = st
        <5>1. PICK out \in Seq(Nat) : out = <<>>
          BY <3>1
        <5>2. /\ Return(fd, st, out) \in Mains /\ Return(fd, st, out) # Idle
              /\ Return(fd, st, out).fd = fd /\ Return(fd, st, out).out = out
              /\ Return(fd, st, out).at = "return"
              /\ Return(fd, st, out).status = st
          BY <4>2, MainValues
        <5> QED
          BY <5>1, <5>2
      <4> QED
        BY <3>4, <4>1, <4>3
    <3> QED
      BY <1>9, <3>3, <3>4
  <2>2. TypeInv'
    BY <1>1, <1>2, <1>7, <1>9, <2>1 DEF TypeInv
  <2>3. Working'
    <3>1. clean'["main"] = NotCleaning
      BY <1>a DEF Cleaners
    <3> QED
      BY <1>4, <1>a, <2>1, <3>1 DEF Working
  <2>4. Decoded(fd)' = delivered[fd] /\ Decoded(fd) = delivered[fd]
    <3>1. delivered[fd] \in Seq(Nat)
      BY <1>1 DEF TypeInv
    <3>2. delivered[fd] \o <<>> = delivered[fd]
      BY <3>1, ConcatEmptySeq
    <3> QED
      BY <1>2, <2>1, <3>2 DEF Decoded
  <2>5. ASSUME fd \in Whole
        PROVE  Placed(fd, Len(Decoded(fd)))' /\ Settled(fd)' /\ Blamed(fd)'
    <3>1. Placed(fd, Len(delivered[fd]))
      BY <1>1, <2>4, <2>5 DEF Client
    <3>2. /\ Len(delivered[fd]) <= Len(stream'[fd])
          /\ Decoded(fd)' = [j \in 1 .. Len(delivered[fd]) |-> j]
          /\ \A j \in 1 .. Len(delivered[fd]) : stream'[fd][j].op = "text"
      BY <1>2, <2>4, <3>1 DEF Placed
    <3>3. /\ HasItem(fd)' =>
               /\ ws_buffer'[fd].start = From(fd, Len(delivered[fd]))
               /\ taken'[fd] = From(fd, Len(delivered[fd]))
                                 + ws_buffer'[fd].received_len
          /\ Inside(fd)' \/ Dropping(fd)'
          /\ HasItem(fd)' \/ Dropping(fd)'
          /\ Blamed(fd)'
      BY <1>9, <2>1, <2>5 DEF Inside, Dropping, Disconnects, Blamed
    <3>4. Placed(fd, Len(Decoded(fd)))'
      BY <1>6, <2>4, <3>2, <3>3 DEF Placed
    <3>5. Settled(fd)'
      BY <3>3 DEF Settled
    <3> QED
      BY <3>3, <3>4, <3>5
  <2>6. Client(fd)'
    BY <1>8, <2>5 DEF Client
  <2>7. \A g \in Fds \ {fd} : OffMain(g) /\ OffMain(g)'
    BY <1>2, <2>1 DEF OffMain
  <2> QED
    BY <1>2, <1>4, <1>6, <1>8, <1>9, <1>a, <2>2, <2>3, <2>6, <2>7, OneClient
<1>10. ASSUME fd \in Whole
       PROVE  /\ HasItem(fd) =>
                   /\ ws_buffer[fd].start = From(fd, Len(delivered[fd]))
                   /\ taken[fd] = From(fd, Len(delivered[fd]))
                                    + ws_buffer[fd].received_len
              /\ ~HasItem(fd) => taken[fd] = From(fd, Len(delivered[fd]))
              /\ From(fd, Len(delivered[fd])) \in Nat
  <2>1. Decoded(fd) = delivered[fd] /\ ~Dropping(fd)
    BY <1>2 DEF Decoded, Dropping, Idle
  <2>2. Placed(fd, Len(delivered[fd]))
    BY <1>1, <1>10, <2>1 DEF Client
  <2>3. /\ Len(delivered[fd]) \in Nat /\ Len(stream[fd]) \in Nat
        /\ \A k \in 0 .. Len(stream[fd]) : From(fd, k) \in Nat
    BY <1>1, <2>1, DecodedType, StreamFields
  <2>4. Len(delivered[fd]) <= Len(stream[fd])
    BY <2>2 DEF Placed
  <2>5. From(fd, Len(delivered[fd])) \in Nat
    <3>1. Len(delivered[fd]) \in Nat /\ Len(stream[fd]) \in Nat
      BY <2>3
    <3>2. Len(delivered[fd]) \in 0 .. Len(stream[fd])
      BY ONLY <2>4, <3>1
    <3> QED
      BY <2>3, <3>2
  <2> QED
    BY <2>1, <2>2, <2>5 DEF Placed
<1>11. CASE /\ MaxBuffer - (allocated_size + read_len) < 0
            /\ ws_buffer_free(fd)
            /\ main' = Return(fd, "BUFFER_EXCEEDED_MAX", <<>>)
  <2>1. /\ Accounted' /\ ws_buffer'[fd] = NoItem /\ allocated_size' \in Nat
        /\ ws_buffer' \in [Fds -> [start : Nat, received_len : Nat]]
        /\ \A g \in Fds : g # fd => ws_buffer'[g] = ws_buffer[g]
    BY <1>1, <1>2, <1>4, <1>11, AccountedFree
  <2>2. ~HasItem(fd)'
    BY <2>1 DEF HasItem
  <2> QED
    BY <1>9, <1>11, <2>1, <2>2
<1>12. CASE /\ MaxBuffer - (allocated_size + read_len) >= 0
            /\ HasItem(fd)
            /\ ws_buffer_resize(fd, ws_buffer[fd].start,
                                ws_buffer[fd].received_len + read_len)
            /\ main' = Filter(fd, <<>>)
  <2>0. PICK r : r = ws_buffer[fd].received_len
    OBVIOUS
  <2>1. /\ r + read_len \in Nat /\ r + read_len # 0
        /\ allocated_size + (r + read_len) - r <= MaxBuffer
    <3>1. r \in Nat /\ read_len \in Nat /\ read_len > 0
          /\ allocated_size \in Nat /\ MaxBuffer \in Nat
      BY <1>3, <2>0
    <3>2. MaxBuffer - (allocated_size + read_len) >= 0
      BY <1>12
    <3> QED
      BY ONLY <3>1, <3>2
  <2>2. /\ ws_buffer' \in [Fds -> [start : Nat, received_len : Nat]]
        /\ ws_buffer'[fd] = [start |-> ws_buffer[fd].start,
                             received_len |-> r + read_len]
        /\ \A g \in Fds : g # fd => ws_buffer'[g] = ws_buffer[g]
        /\ allocated_size' \in Nat
    <3>1. /\ ws_buffer_resize(fd, ws_buffer[fd].start, r + read_len)
          /\ allocated_size >= Cardinality(Bytes)
      BY <1>1, <1>12, <2>0 DEF Accounted
    <3>2. ws_buffer'[fd] = [start |-> ws_buffer[fd].start,
                            received_len |-> r + read_len]
      BY <1>1, <3>1 DEF ws_buffer_resize, TypeInv
    <3>3. /\ ws_buffer' \in [Fds -> [start : Nat, received_len : Nat]]
          /\ allocated_size' \in Nat
      BY <1>1, <1>3, <2>1, <3>1, ResizeAccounts
    <3> QED
      BY <1>1, <3>1, <3>2, <3>3 DEF ws_buffer_resize, TypeInv
  <2>3. Accounted'
    BY <1>1, <1>2, <1>3, <1>4, <1>12, <2>0, <2>1, AccountedResize
  <2>4. /\ HasItem(fd)' /\ ws_buffer'[fd].start = ws_buffer[fd].start
        /\ ws_buffer'[fd].received_len = r + read_len
    BY <2>1, <2>2 DEF HasItem, NoItem
  <2>5. fd \in Whole =>
          /\ ws_buffer'[fd].start = From(fd, Len(delivered[fd]))
          /\ taken'[fd] = From(fd, Len(delivered[fd]))
                            + ws_buffer'[fd].received_len
    <3> SUFFICES ASSUME fd \in Whole
                 PROVE  /\ ws_buffer'[fd].start = From(fd, Len(delivered[fd]))
                        /\ taken'[fd] = From(fd, Len(delivered[fd]))
                                          + ws_buffer'[fd].received_len
      OBVIOUS
    <3>0. PICK b : b = From(fd, Len(delivered[fd]))
      OBVIOUS
    <3>1. b \in Nat /\ r \in Nat /\ taken[fd] = b + r
      BY <1>3, <1>10, <1>12, <2>0, <3>0
    <3>2. taken'[fd] = b + (r + read_len)
      BY <1>3, <1>4, <3>1
    <3> QED
      BY <1>10, <1>12, <2>4, <3>0, <3>2
  <2> QED
    BY <1>9, <1>12, <2>2, <2>3, <2>4, <2>5
<1>13. CASE /\ MaxBuffer - (allocated_size + read_len) >= 0
            /\ ~HasItem(fd)
            /\ SlotsInUse < Slots
            /\ ws_buffer_add(fd, read_len)
            /\ main' = Filter(fd, <<>>)
  <2>0. ws_buffer_resize(fd, taken[fd], read_len) /\ ws_buffer[fd].received_len = 0
    BY <1>13 DEF ws_buffer_add, HasItem, NoItem
  <2>1. allocated_size + read_len - ws_buffer[fd].received_len <= MaxBuffer
    BY <1>3, <1>13, <2>0
  <2>2. /\ ws_buffer' \in [Fds -> [start : Nat, received_len : Nat]]
        /\ ws_buffer'[fd] = [start |-> taken[fd], received_len |-> read_len]
        /\ \A g \in Fds : g # fd => ws_buffer'[g] = ws_buffer[g]
        /\ allocated_size' \in Nat
    <3>1. allocated_size >= Cardinality(Bytes)
      BY <1>1 DEF Accounted
    <3>2. ws_buffer'[fd] = [start |-> taken[fd], received_len |-> read_len]
      BY <1>1, <2>0 DEF ws_buffer_resize, TypeInv
    <3>3. /\ ws_buffer' \in [Fds -> [start : Nat, received_len : Nat]]
          /\ allocated_size' \in Nat
      BY <1>1, <1>3, <2>0, <3>1, ResizeAccounts
    <3> QED
      BY <1>1, <2>0, <3>2, <3>3 DEF ws_buffer_resize, TypeInv
  <2>3. Accounted'
    BY <1>1, <1>2, <1>3, <1>4, <1>13, <2>0, <2>1, AccountedResize
  <2>4. /\ HasItem(fd)' /\ ws_buffer'[fd].start = taken[fd]
        /\ ws_buffer'[fd].received_len = read_len
    BY <1>3, <2>2 DEF HasItem, NoItem
  <2>5. fd \in Whole =>
          /\ ws_buffer'[fd].start = From(fd, Len(delivered[fd]))
          /\ taken'[fd] = From(fd, Len(delivered[fd]))
                            + ws_buffer'[fd].received_len
    BY <1>4, <1>10, <1>13, <2>4
  <2> QED
    BY <1>9, <1>13, <2>2, <2>3, <2>4, <2>5
<1>14. CASE /\ ~HasItem(fd)
            /\ main' = Return(fd, "BUFFER_OUT_OF_SLOTS", <<>>)
            /\ UNCHANGED <<ws_buffer, allocated_size>>
  <2>1. /\ ws_buffer' \in [Fds -> [start : Nat, received_len : Nat]]
        /\ \A g \in Fds : g # fd => ws_buffer'[g] = ws_buffer[g]
        /\ allocated_size' \in Nat /\ ~HasItem(fd)'
    BY <1>1, <1>14 DEF TypeInv, HasItem
  <2>2. Accounted'
    BY <1>1, <1>2, <1>4, <1>14, <1>a, AccountedSame
  <2> QED
    BY <1>9, <1>14, <2>1, <2>2
<1> QED
  BY <1>11, <1>12, <1>13, <1>14 DEF ReadEncoded

-----------------------------------------------------------------------------
(* The filter. *)

LEMMA FilterStep ==
    ASSUME Inv, NEW fd \in Fds, main.at = "filter", main.fd = fd,
           UNCHANGED <<stream, taken, session, delivered, torn, clean, raced>>,
           ws_buffer' \in [Fds -> [start : Nat, received_len : Nat]],
           allocated_size' \in Nat, Accounted',
           \A g \in Fds : g # fd => ws_buffer'[g] = ws_buffer[g],
           main' \in Mains, main' # Idle, main'.fd = fd,
           main'.at \in {"filter", "lost"} => HasItem(fd)',
           fd \in Whole =>
             Placed(fd, Len(Decoded(fd)))' /\ Settled(fd)' /\ Blamed(fd)'
    PROVE  Inv'
<1>1. TypeInv /\ Working /\ Laid(fd)
  BY DEF Inv
<1>2. /\ HasItem(fd) /\ session[fd] = "encoded"
      /\ \A c \in Cleaners : clean[c] = NotCleaning
  BY <1>1 DEF Working
<1>a. /\ Cleanup' /\ \A c \in Cleaners : clean'[c] = NotCleaning
      /\ \A g \in Fds : ~Cleaned(g) /\ ~Cleaned(g)'
  BY <1>2, NobodyCleans
<1>3. TypeInv'
  BY <1>1 DEF TypeInv
<1>4. Working'
  BY <1>2, <1>a DEF Working, Cleaners
<1>5. taken'[fd] <= From(fd, Len(stream[fd]))
  BY <1>1 DEF Laid
<1>6. Laid(fd)'
  BY <1>1, <1>5, LaidKept
<1>7. Fresh(fd)'
  BY <1>2 DEF Fresh
<1>8. Client(fd)'
  <2>1. fd \in Whole' => fd \in Whole
    BY <1>a, WholeKept
  <2> QED
    BY <2>1 DEF Client
<1>9. \A g \in Fds \ {fd} : OffMain(g) /\ OffMain(g)'
  BY DEF OffMain
<1> QED
  BY <1>3, <1>4, <1>6, <1>7, <1>8, <1>9, <1>a, OneClient

LEMMA HeaderType ==
    ASSUME TypeInv, NEW fd \in Fds, NEW h \in Headers(fd)
    PROVE  /\ h.k \in Nat /\ h.payload \in Nat
           /\ h.op \in {"text", "close", "other"}
           /\ h.form \in {"7", "16", "64"} /\ Fits(h)
<1>0. PICK front : front = FrameAt(fd, ws_buffer[fd].start)
  OBVIOUS
<1>1. CASE front = {}
  <2>1. PICK f \in Frames[fd] :
                h = [k |-> 0, op |-> f.op, form |-> f.form, payload |-> f.payload]
    BY <1>0, <1>1 DEF Headers
  <2>2. f \in [op : {"text", "close", "other"}, form : {"7", "16", "64"},
               payload : Nat] /\ Fits(f)
    BY DEF Fits
  <2>3. /\ f.op \in {"text", "close", "other"} /\ f.payload \in Nat
        /\ f.form \in {"7", "16", "64"}
    BY <2>2
  <2> QED
    BY <2>1, <2>2, <2>3 DEF Fits
<1>2. CASE front # {}
  <2>1. PICK k \in front : h = [k |-> k, op |-> stream[fd][k].op,
                                form |-> stream[fd][k].form,
                                payload |-> stream[fd][k].payload]
    BY <1>0, <1>2 DEF Headers
  <2>2. k \in DOMAIN stream[fd]
    BY <1>0 DEF FrameAt
  <2>3. k \in 1 .. Len(stream[fd]) /\ Len(stream[fd]) \in Nat
    BY <2>2, StreamFields
  <2>4. stream[fd][k] \in Frame
    BY <2>3, StreamFields
  <2>5. k \in Nat
    BY <2>3
  <2>6. /\ stream[fd][k].op \in {"text", "close", "other"}
        /\ stream[fd][k].payload \in Nat
        /\ stream[fd][k].form \in {"7", "16", "64"} /\ Fits(stream[fd][k])
    BY <2>4 DEF Frame
  <2> QED
    BY <2>1, <2>5, <2>6 DEF Fits
<1> QED
  BY <1>1, <1>2

(* In the loop, what is read as a header is the header of the next frame. *)
LEMMA HeaderOfNext ==
    ASSUME Inv, NEW fd \in Fds, fd \in Whole, Looping(fd),
           NEW h \in Headers(fd), NEW k, k = Len(Decoded(fd))
    PROVE  /\ k \in Nat /\ Placed(fd, k)
           /\ k + 1 \in 1 .. Len(stream[fd]) /\ h.k = k + 1
           /\ h.op = stream[fd][k + 1].op
           /\ h.payload = stream[fd][k + 1].payload
           /\ stream[fd][k + 1].at = ws_buffer[fd].start
           /\ taken[fd] = ws_buffer[fd].start + ws_buffer[fd].received_len
           /\ End(stream[fd][k + 1]) =
                ws_buffer[fd].start + (h.payload + HeaderLen(h.form))
           /\ HeaderLen(h.form) = Skip(h.payload)
<1>1. TypeInv /\ Laid(fd) /\ Working /\ Client(fd)
  BY DEF Inv
<1>2. HasItem(fd) /\ main.at = "filter" /\ main.fd = fd
      /\ ws_buffer[fd].received_len > MinFrame
  BY <1>1 DEF Looping, Working
<1>3. ws_buffer[fd].received_len > 0
  <2>1. ws_buffer[fd].received_len \in Nat /\ MinFrame \in Nat
    BY <1>1 DEF TypeInv
  <2> QED
    BY <1>2, <2>1
<1>4. k \in Nat /\ Placed(fd, k)
  BY <1>1, DecodedType DEF Client
<1>5. /\ k + 1 \in 1 .. Len(stream[fd])
      /\ stream[fd][k + 1].at = ws_buffer[fd].start
      /\ FrameAt(fd, ws_buffer[fd].start) = {k + 1}
  BY <1>1, <1>2, <1>3, <1>4, Front
<1>6. h = [k |-> k + 1, op |-> stream[fd][k + 1].op,
           form |-> stream[fd][k + 1].form, payload |-> stream[fd][k + 1].payload]
  <2>1. FrameAt(fd, ws_buffer[fd].start) # {}
    BY <1>5
  <2>2. PICK j \in FrameAt(fd, ws_buffer[fd].start) :
               h = [k |-> j, op |-> stream[fd][j].op,
                    form |-> stream[fd][j].form, payload |-> stream[fd][j].payload]
    BY <2>1 DEF Headers
  <2>3. j = k + 1
    BY <1>5
  <2> QED
    BY <2>2, <2>3
<1>7. h.k = k + 1 /\ h.op = stream[fd][k + 1].op
      /\ h.payload = stream[fd][k + 1].payload /\ h.form = stream[fd][k + 1].form
  BY <1>6
<1>8. stream[fd][k + 1] \in Frame
  BY <1>1, <1>5, StreamFields
<1>9. End(stream[fd][k + 1]) =
           stream[fd][k + 1].at + (h.payload + HeaderLen(h.form))
  BY <1>7, <1>8, FrameEnd
<1>10. HeaderLen(h.form) = Skip(h.payload)
  <2>1. DOMAIN stream[fd] = 1 .. Len(stream[fd])
    BY <1>1, StreamFields
  <2>2. Shortest(stream[fd][k + 1])
    BY <1>5, <2>1 DEF Whole
  <2>3. /\ stream[fd][k + 1].payload \in Nat /\ Fits(stream[fd][k + 1])
        /\ stream[fd][k + 1].form \in {"7", "16", "64"}
    BY <1>8 DEF Frame
  <2> QED
    BY <1>7, <2>2, <2>3, SkipOfForm
<1>11. taken[fd] = ws_buffer[fd].start + ws_buffer[fd].received_len
  BY <1>2, <1>4 DEF Placed
<1> QED
  BY <1>4, <1>5, <1>7, <1>9, <1>10, <1>11

LEMMA RefusalOf ==
    ASSUME NEW h, h.op \in {"text", "close", "other"}, h.payload \in Nat
    PROVE  /\ Refusal(h) = "none" <=> Allowed(h)
           /\ Refusal(h) # "none" => Refusal(h) \in Statuses
           /\ Refusal(h) # "none" =>
                Refusal(h) \in Disconnects \/ h.op = "other"
<1>1. CASE h.op = "close"
  BY <1>1 DEF Refusal, Allowed, Statuses, Disconnects
<1>2. CASE h.op = "other"
  BY <1>2 DEF Refusal, Allowed, Statuses, Disconnects
<1>3. CASE h.op = "text" /\ h.payload > MaxPayload
  <2>1. ~(h.payload <= MaxPayload)
    BY <1>3
  <2>2. Refusal(h) = "TOO_LARGE_DATAFRAME"
    BY <1>3 DEF Refusal
  <2> QED
    BY <2>1, <2>2 DEF Allowed, Statuses, Disconnects
<1>4. CASE h.op = "text" /\ ~(h.payload > MaxPayload)
  <2>1. h.payload <= MaxPayload
    BY <1>4
  <2>2. Refusal(h) = "none"
    BY <1>4 DEF Refusal
  <2> QED
    BY <1>4, <2>1, <2>2 DEF Allowed
<1> QED
  BY <1>1, <1>2, <1>3, <1>4

(* The fields of the main thread's record when it leaves the filter. *)
LEMMA LeavesFilter ==
    ASSUME TypeInv, NEW fd \in Fds, main.at = "filter", main.fd = fd,
           NEW st \in Statuses, main' = Return(fd, st, main.out),
           delivered' = delivered
    PROVE  /\ main' \in Mains /\ main' # Idle /\ main'.fd = fd
           /\ main'.at = "return" /\ main'.status = st
           /\ Decoded(fd)' = Decoded(fd) /\ ~Inside(fd)'
           /\ Dropping(fd)' <=> st \in Disconnects
<1>0. PICK out : out = main.out
  OBVIOUS
<1>1. out \in Seq(Nat) /\ main # Idle
  BY <1>0, MainFields DEF TypeInv, Idle
<1>2. /\ Return(fd, st, out) \in Mains /\ Return(fd, st, out) # Idle
      /\ Return(fd, st, out).fd = fd /\ Return(fd, st, out).out = out
      /\ Return(fd, st, out).at = "return"
      /\ Return(fd, st, out).status = st
  BY <1>1, MainValues
<1>3. /\ main' \in Mains /\ main' # Idle /\ main'.fd = fd
      /\ main'.at = "return" /\ main'.status = st /\ main'.out = main.out
  BY <1>0, <1>2
<1>4. Decoded(fd)' = Decoded(fd)
  BY <1>1, <1>3 DEF Decoded
<1>5. ~Inside(fd)' /\ (Dropping(fd)' <=> st \in Disconnects)
  BY <1>3 DEF Inside, Dropping
<1> QED
  BY <1>3, <1>4, <1>5

LEMMA RefuseStep ==
    ASSUME Inv, NEW fd \in Fds, Refuse(fd)
    PROVE  Inv'
<1>1. TypeInv /\ Accounted /\ Working /\ Client(fd)
  BY DEF Inv
<1>2. /\ Looping(fd) /\ main.at = "filter" /\ main.fd = fd
      /\ UNCHANGED <<stream, taken, session, ws_buffer, allocated_size,
                     delivered, torn, clean, raced>>
  BY DEF Refuse, Looping, client_vars, clean_vars
<1>3. PICK h \in Headers(fd) : /\ Refusal(h) # "none"
                               /\ main' = Return(fd, Refusal(h), main.out)
  BY DEF Refuse
<1>4. /\ h.payload \in Nat /\ h.op \in {"text", "close", "other"}
  BY <1>1, HeaderType
<1>5. /\ Refusal(h) \in Statuses /\ ~Allowed(h)
      /\ Refusal(h) \in Disconnects \/ h.op = "other"
  BY <1>3, <1>4, RefusalOf
<1>6. /\ main' \in Mains /\ main' # Idle /\ main'.fd = fd
      /\ main'.at = "return" /\ main'.status = Refusal(h)
      /\ Decoded(fd)' = Decoded(fd) /\ ~Inside(fd)'
      /\ Dropping(fd)' <=> Refusal(h) \in Disconnects
  <2>1. PICK st \in Statuses : st = Refusal(h)
    BY <1>5
  <2> QED
    BY <1>1, <1>2, <1>3, <2>1, LeavesFilter
<1>7. HasItem(fd)
  BY <1>1, <1>2 DEF Working
<1>8. ASSUME fd \in Whole
      PROVE  Placed(fd, Len(Decoded(fd)))' /\ Settled(fd)' /\ Blamed(fd)'
  <2>0. PICK k : k = Len(Decoded(fd))
    OBVIOUS
  <2>1. /\ k + 1 \in 1 .. Len(stream[fd]) /\ Placed(fd, k)
        /\ h.op = stream[fd][k + 1].op /\ h.payload = stream[fd][k + 1].payload
    BY <1>2, <1>8, <2>0, HeaderOfNext, SMTT(40)
  <2>2. Placed(fd, Len(Decoded(fd)))'
    BY <1>1, <1>2, <1>6, <1>7, <2>0, <2>1, PlacedKept
  <2>3. Settled(fd)'
    <3> SUFFICES ASSUME Refusal(h) \notin Disconnects
                 PROVE  Done(fd, Len(Decoded(fd)))'
      BY <1>6 DEF Settled
    <3>1. stream'[fd][k + 1].op = "other"
      BY <1>2, <1>5, <2>1
    <3>2. Len(Decoded(fd)') = k
      BY <1>6, <2>0
    <3> QED
      BY <3>1, <3>2 DEF Done
  <2>4. Blamed(fd)'
    <3>1. ~Allowed(stream'[fd][k + 1]) /\ k + 1 \in 1 .. Len(stream'[fd])
      BY <1>2, <1>5, <2>1 DEF Allowed
    <3> QED
      BY <3>1 DEF Blamed, Allowed
  <2> QED
    BY <2>2, <2>3, <2>4
<1>9. Accounted'
  BY <1>1, <1>2, AccountedSame DEF Cleaned
<1>10. /\ ws_buffer' \in [Fds -> [start : Nat, received_len : Nat]]
       /\ allocated_size' \in Nat
       /\ \A g \in Fds : g # fd => ws_buffer'[g] = ws_buffer[g]
       /\ main'.at \in {"filter", "lost"} => HasItem(fd)'
  BY <1>1, <1>2, <1>6 DEF TypeInv
<1> QED
  BY <1>2, <1>6, <1>8, <1>9, <1>10, FilterStep

LEMMA StatusOf ==
    ASSUME NEW out
    PROVE  /\ Status(out) \in Statuses /\ Status(out) \notin Disconnects
           /\ Status(out) \notin {"CLIENT_DISCONNECT", "UNHANDLED",
                                  "TOO_LARGE_DATAFRAME"}
BY DEF Status, Statuses, Disconnects

LEMMA BreakStep ==
    ASSUME Inv, NEW fd \in Fds, Break(fd)
    PROVE  Inv'
<1>1. TypeInv /\ Accounted /\ Working /\ Client(fd)
  BY DEF Inv
<1>2. /\ Looping(fd) /\ main.at = "filter" /\ main.fd = fd
      /\ main' = Return(fd, Status(main.out), main.out)
      /\ UNCHANGED <<stream, taken, session, ws_buffer, allocated_size,
                     delivered, torn, clean, raced>>
  BY DEF Break, Looping, client_vars, clean_vars
<1>3. PICK h \in Headers(fd) :
             ~(ws_buffer[fd].received_len >= h.payload + HeaderLen(h.form))
  BY DEF Break, Complete
<1>4. PICK st \in Statuses : st = Status(main.out)
  BY StatusOf
<1>5. st \notin Disconnects /\ st \notin {"CLIENT_DISCONNECT", "UNHANDLED",
                                          "TOO_LARGE_DATAFRAME"}
  BY <1>4, StatusOf
<1>6. /\ main' \in Mains /\ main' # Idle /\ main'.fd = fd
      /\ main'.at = "return" /\ main'.status = st
      /\ Decoded(fd)' = Decoded(fd) /\ ~Inside(fd)'
      /\ Dropping(fd)' <=> st \in Disconnects
  BY <1>1, <1>2, <1>4, LeavesFilter
<1>7. HasItem(fd)
  BY <1>1, <1>2 DEF Working
<1>8. ASSUME fd \in Whole
      PROVE  Placed(fd, Len(Decoded(fd)))' /\ Settled(fd)' /\ Blamed(fd)'
  <2>0. PICK k : k = Len(Decoded(fd))
    OBVIOUS
  <2>1. /\ k + 1 \in 1 .. Len(stream[fd]) /\ Placed(fd, k)
        /\ taken[fd] = ws_buffer[fd].start + ws_buffer[fd].received_len
        /\ End(stream[fd][k + 1]) =
             ws_buffer[fd].start + (h.payload + HeaderLen(h.form))
    BY <1>2, <1>8, <2>0, HeaderOfNext, SMTT(40)
  <2>2. Placed(fd, Len(Decoded(fd)))'
    BY <1>1, <1>2, <1>6, <1>7, <2>0, <2>1, PlacedKept
  <2>3. End(stream[fd][k + 1]) > taken[fd]
    <3>1. /\ h.payload \in Nat /\ ws_buffer[fd].start \in Nat
          /\ ws_buffer[fd].received_len \in Nat
      BY <1>1, HeaderType DEF TypeInv
    <3>2. PICK p, l, r, b : /\ p = h.payload /\ l = HeaderLen(h.form)
                            /\ r = ws_buffer[fd].received_len
                            /\ b = ws_buffer[fd].start
      OBVIOUS
    <3>3. p \in Nat /\ l \in Nat /\ r \in Nat /\ b \in Nat
      BY <3>1, <3>2, HeaderLens
    <3>4. r < p + l
      BY <1>3, <3>2, <3>3
    <3>5. End(stream[fd][k + 1]) = b + (p + l) /\ taken[fd] = b + r
      BY <2>1, <3>2
    <3>6. b + (p + l) > b + r
      BY ONLY <3>3, <3>4
    <3> QED
      BY <3>5, <3>6
  <2>4. Settled(fd)'
    <3>1. Len(Decoded(fd)') = k
      BY <1>6, <2>0
    <3>2. (End(stream[fd][k + 1]) > taken[fd])'
      BY <1>2, <2>3 DEF End, FrameLen, HeaderLen
    <3> QED
      BY <3>1, <3>2 DEF Settled, Done
  <2>5. Blamed(fd)'
    BY <1>5, <1>6 DEF Blamed
  <2> QED
    BY <2>2, <2>4, <2>5
<1>9. Accounted'
  BY <1>1, <1>2, AccountedSame DEF Cleaned
<1>10. /\ ws_buffer' \in [Fds -> [start : Nat, received_len : Nat]]
       /\ allocated_size' \in Nat
       /\ \A g \in Fds : g # fd => ws_buffer'[g] = ws_buffer[g]
       /\ main'.at \in {"filter", "lost"} => HasItem(fd)'
  BY <1>1, <1>2, <1>6 DEF TypeInv
<1> QED
  BY <1>2, <1>6, <1>8, <1>9, <1>10, FilterStep

LEMMA DecodeEmptyStep ==
    ASSUME Inv, NEW fd \in Fds, DecodeEmpty(fd)
    PROVE  Inv'
<1>1. TypeInv /\ Accounted /\ Working /\ Client(fd)
  BY DEF Inv
<1>2. /\ main.at = "filter" /\ main.fd = fd
      /\ main' = [main EXCEPT !.at = "lost"]
      /\ UNCHANGED <<stream, taken, session, ws_buffer, allocated_size,
                     delivered, torn, clean, raced>>
  BY DEF DecodeEmpty, Looping, client_vars, clean_vars
<1>3. /\ main' \in Mains /\ main' # Idle /\ main'.fd = fd
      /\ main'.at = "lost" /\ main'.out = main.out
  <2>1. main \in [at : {"filter", "lost"}, out : Seq(Nat), fd : Fds]
    BY <1>1, <1>2, SMTT(30) DEF TypeInv, Mains, Idle
  <2>2. main' \in [at : {"filter", "lost"}, out : Seq(Nat), fd : Fds]
        /\ main'.at = "lost" /\ main'.out = main.out /\ main'.fd = fd
    BY <1>2, <2>1
  <2> QED
    BY <2>2 DEF Mains, Idle
<1>4. HasItem(fd) /\ HasItem(fd)'
  BY <1>1, <1>2 DEF Working, HasItem
<1>5. Decoded(fd)' = Decoded(fd) /\ Inside(fd)'
  <2>1. main # Idle
    BY <1>2 DEF Idle
  <2>2. main.fd = fd /\ delivered'[fd] = delivered[fd]
    BY <1>2
  <2>3. Decoded(fd)' = Decoded(fd)
    BY <1>3, <2>1, <2>2 DEF Decoded
  <2> QED
    BY <1>3, <2>3 DEF Inside
<1>6. ASSUME fd \in Whole
      PROVE  Placed(fd, Len(Decoded(fd)))' /\ Settled(fd)' /\ Blamed(fd)'
  <2>1. Placed(fd, Len(Decoded(fd)))
    BY <1>1, <1>6 DEF Client
  <2>2. Placed(fd, Len(Decoded(fd)))'
    BY <1>1, <1>2, <1>4, <1>5, <2>1, PlacedKept
  <2> QED
    BY <1>3, <1>5, <2>2 DEF Settled, Blamed
<1>7. Accounted'
  BY <1>1, <1>2, AccountedSame DEF Cleaned
<1>8. /\ ws_buffer' \in [Fds -> [start : Nat, received_len : Nat]]
      /\ allocated_size' \in Nat
      /\ \A g \in Fds : g # fd => ws_buffer'[g] = ws_buffer[g]
      /\ main'.at \in {"filter", "lost"} => HasItem(fd)'
  BY <1>1, <1>2, <1>4 DEF TypeInv
<1> QED
  BY <1>2, <1>3, <1>6, <1>7, <1>8, FilterStep

LEMMA LeaveLoopStep ==
    ASSUME Inv, NEW fd \in Fds, LeaveLoop(fd)
    PROVE  Inv'
<1>1. TypeInv /\ Accounted /\ Working /\ Client(fd) /\ Laid(fd)
  BY DEF Inv
<1>2. /\ main.at = "filter" /\ main.fd = fd
      /\ ~(ws_buffer[fd].received_len > MinFrame)
      /\ main' = Return(fd, Status(main.out), main.out)
      /\ UNCHANGED <<stream, taken, session, delivered, torn, clean, raced>>
      /\ UNCHANGED clean_vars
  BY DEF LeaveLoop, Looping, client_vars, clean_vars
<1>3. HasItem(fd)
  BY <1>1, <1>2 DEF Working
<1>4. PICK st \in Statuses : st = Status(main.out)
  BY StatusOf
<1>5. st \notin Disconnects /\ st \notin {"CLIENT_DISCONNECT", "UNHANDLED",
                                          "TOO_LARGE_DATAFRAME"}
  BY <1>4, StatusOf
<1>6. /\ main' \in Mains /\ main' # Idle /\ main'.fd = fd
      /\ main'.at = "return" /\ main'.status = st
      /\ Decoded(fd)' = Decoded(fd) /\ ~Inside(fd)'
      /\ Dropping(fd)' <=> st \in Disconnects
  BY <1>1, <1>2, <1>4, LeavesFilter
<1>7. /\ ws_buffer' \in [Fds -> [start : Nat, received_len : Nat]]
      /\ allocated_size' \in Nat /\ Accounted'
      /\ \A g \in Fds : g # fd => ws_buffer'[g] = ws_buffer[g]
      /\ \/ ws_buffer[fd].received_len = 0 /\ ws_buffer'[fd] = NoItem
         \/ ws_buffer'[fd] = ws_buffer[fd]
  <2>1. CASE ws_buffer[fd].received_len = 0
    <3>1. ws_buffer_free(fd)
      BY <2>1 DEF LeaveLoop
    <3> QED
      BY <1>1, <1>2, <2>1, <3>1, AccountedFree
  <2>2. CASE ws_buffer[fd].received_len # 0
    <3>1. UNCHANGED <<ws_buffer, allocated_size>>
      BY <2>2 DEF LeaveLoop
    <3>2. Accounted'
      BY <1>1, <1>2, <3>1, AccountedSame DEF Cleaned
    <3> QED
      BY <1>1, <3>1, <3>2 DEF TypeInv
  <2> QED
    BY <2>1, <2>2
<1>8. ASSUME fd \in Whole
      PROVE  Placed(fd, Len(Decoded(fd)))' /\ Settled(fd)' /\ Blamed(fd)'
  <2>0. PICK k, b, r : /\ k = Len(Decoded(fd)) /\ b = From(fd, k)
                       /\ r = ws_buffer[fd].received_len
    OBVIOUS
  <2>1. k \in Nat /\ Placed(fd, k) /\ Len(Decoded(fd)') = k
    BY <1>1, <1>6, <1>8, <2>0, DecodedType DEF Client
  <2>2. k <= Len(stream[fd]) /\ Len(stream[fd]) \in Nat
    BY <1>1, <2>1, StreamFields DEF Placed
  <2>3. b \in Nat /\ r \in Nat /\ MinFrame \in Nat /\ r <= MinFrame
        /\ taken[fd] = b + r
    <3>1. k \in 0 .. Len(stream[fd])
      BY <2>1, <2>2
    <3>2. b \in Nat /\ r \in Nat /\ MinFrame \in Nat
      BY <1>1, <2>0, <3>1, StreamFields DEF TypeInv
    <3>3. r <= MinFrame
      BY <1>2, <2>0, <3>2
    <3> QED
      BY <1>3, <2>0, <2>1, <3>2, <3>3 DEF Placed
  <2>4. From(fd, k)' = b
    BY <1>2, <2>0 DEF From, End, FrameLen, HeaderLen
  <2>5. Placed(fd, k)'
    <3>1. /\ HasItem(fd)' => ws_buffer'[fd] = ws_buffer[fd]
          /\ ~HasItem(fd)' => taken[fd] = b
      <4>1. r = 0 => taken[fd] = b
        BY <2>3
      <4> QED
        BY <1>3, <1>7, <2>0, <4>1 DEF HasItem
    <3>2. HasItem(fd)' => /\ ws_buffer'[fd].start = b
                          /\ taken'[fd] = b + ws_buffer'[fd].received_len
      BY <1>2, <1>3, <2>0, <2>1, <3>1 DEF Placed
    <3>3. /\ k <= Len(stream'[fd]) /\ Decoded(fd)' = [j \in 1 .. k |-> j]
          /\ \A j \in 1 .. k : stream'[fd][j].op = "text"
      BY <1>2, <1>6, <2>1 DEF Placed
    <3> QED
      BY <1>2, <2>4, <3>1, <3>2, <3>3 DEF Placed
  <2>6. Settled(fd)'
    <3> SUFFICES ASSUME k # Len(stream[fd])
                 PROVE  taken[fd] - stream[fd][k + 1].at <= MinFrame
      BY <1>2, <2>1 DEF Settled, Done
    <3>1. k + 1 \in 1 .. Len(stream[fd]) /\ k = (k + 1) - 1
      BY <2>1, <2>2, SMTT(30)
    <3>2. stream[fd][k + 1].at = b
      BY <1>1, <2>0, <3>1 DEF Laid
    <3> QED
      BY <2>3, <3>2
  <2>7. Blamed(fd)'
    BY <1>5, <1>6 DEF Blamed
  <2>8. Placed(fd, Len(Decoded(fd)))'
    BY <2>1, <2>5 DEF Placed
  <2> QED
    BY <2>6, <2>7, <2>8
<1>9. main'.at \in {"filter", "lost"} => HasItem(fd)'
  BY <1>6
<1> QED
  BY <1>2, <1>6, <1>7, <1>8, <1>9, FilterStep

LEMMA ConcatAppend ==
    ASSUME NEW s \in Seq(Nat), NEW t \in Seq(Nat), NEW x \in Nat
    PROVE  s \o Append(t, x) = Append(s \o t, x)
<1>1. PICK v \in Seq(Nat), w \in Seq(Nat) : v = Append(t, x) /\ w = s \o t
  BY AppendProperties, ConcatProperties
<1>2. /\ Len(v) = Len(t) + 1 /\ v[Len(t) + 1] = x
      /\ \A i \in 1 .. Len(t) : v[i] = t[i]
  BY <1>1, AppendProperties
<1>3. /\ Len(w) = Len(s) + Len(t)
      /\ \A i \in 1 .. Len(s) + Len(t) :
           w[i] = IF i <= Len(s) THEN s[i] ELSE t[i - Len(s)]
  <2>1. /\ Len(s \o t) = Len(s) + Len(t)
        /\ \A i \in 1 .. Len(s) + Len(t) :
             (s \o t)[i] = IF i <= Len(s) THEN s[i] ELSE t[i - Len(s)]
    BY ConcatProperties
  <2> QED
    BY <1>1, <2>1
<1>4. /\ s \o v \in Seq(Nat) /\ Len(s \o v) = Len(s) + Len(v)
      /\ \A i \in 1 .. Len(s) + Len(v) :
           (s \o v)[i] = IF i <= Len(s) THEN s[i] ELSE v[i - Len(s)]
  BY ConcatProperties
<1>5. /\ Append(w, x) \in Seq(Nat) /\ Len(Append(w, x)) = Len(w) + 1
      /\ \A i \in 1 .. Len(w) : Append(w, x)[i] = w[i]
      /\ Append(w, x)[Len(w) + 1] = x
  BY AppendProperties
<1>6. Len(s) \in Nat /\ Len(t) \in Nat
  OBVIOUS
<1>7. Len(s \o v) = Len(Append(w, x))
  BY <1>2, <1>3, <1>4, <1>5, <1>6
<1>8. ASSUME NEW i \in 1 .. Len(s \o v)
      PROVE  (s \o v)[i] = Append(w, x)[i]
  <2>1. i \in Nat /\ i <= Len(s) + (Len(t) + 1) /\ 1 <= i
        /\ i \in 1 .. Len(s) + Len(v)
    BY <1>2, <1>4, <1>6
  <2>2. CASE i <= Len(s)
    <3>1. i \in 1 .. Len(s) + Len(t)
      BY <1>6, <2>1, <2>2
    <3> QED
      BY <1>3, <1>4, <1>5, <2>1, <2>2, <3>1
  <2>3. CASE ~(i <= Len(s)) /\ i <= Len(s) + Len(t)
    <3>1. i \in 1 .. Len(s) + Len(t) /\ i - Len(s) \in 1 .. Len(t)
      BY ONLY <1>6, <2>1, <2>3
    <3> QED
      BY <1>2, <1>3, <1>4, <1>5, <2>1, <2>3, <3>1
  <2>4. CASE i = Len(s) + (Len(t) + 1)
    <3>1. i - Len(s) = Len(t) + 1 /\ ~(i <= Len(s)) /\ i = Len(w) + 1
      BY <1>3, <1>6, <2>4
    <3> QED
      BY <1>2, <1>4, <1>5, <2>1, <3>1
  <2>5. \/ i <= Len(s)
        \/ ~(i <= Len(s)) /\ i <= Len(s) + Len(t)
        \/ i = Len(s) + (Len(t) + 1)
    BY ONLY <1>6, <2>1
  <2> QED
    BY <2>2, <2>3, <2>4, <2>5
<1>9. s \o v = Append(w, x)
  BY <1>4, <1>5, <1>7, <1>8, SeqEqual
<1> QED
  BY <1>1, <1>9

LEMMA OneMore ==
    ASSUME NEW k \in Nat, NEW s \in Seq(Nat), NEW t \in Seq(Nat),
           s \o t = [j \in 1 .. k |-> j], Len(s \o t) = k
    PROVE  /\ s \o Append(t, k + 1) = [j \in 1 .. k + 1 |-> j]
           /\ Len(s \o Append(t, k + 1)) = k + 1
<1>1. s \o t \in Seq(Nat) /\ k + 1 \in Nat
  <2>1. s \o t \in Seq(Nat)
    BY ONLY s \in Seq(Nat), t \in Seq(Nat), ConcatProperties
  <2> QED
    BY ONLY <2>1, k \in Nat
<1>2. s \o Append(t, k + 1) = Append(s \o t, k + 1)
  BY <1>1, ConcatAppend, ZenonT(30)
<1>3. PICK u \in Seq(Nat) : u = s \o t
  BY <1>1
<1>4. u = [j \in 1 .. k |-> j] /\ Len(u) = k
  BY <1>3
<1>5. /\ Append(u, k + 1) \in Seq(Nat) /\ Len(Append(u, k + 1)) = k + 1
      /\ \A j \in 1 .. k : Append(u, k + 1)[j] = u[j]
      /\ Append(u, k + 1)[k + 1] = k + 1
  BY <1>1, <1>4, AppendProperties
<1>6. ASSUME NEW j \in 1 .. k + 1
      PROVE  Append(u, k + 1)[j] = j
  <2>1. j \in 1 .. k \/ j = k + 1
    OBVIOUS
  <2> QED
    BY <1>4, <1>5, <2>1
<1>7. Append(u, k + 1) = [j \in 1 .. k + 1 |-> j]
  <2>1. PICK v \in Seq(Nat) : v = Append(u, k + 1)
    BY <1>5
  <2>2. Len(v) = k + 1 /\ \A j \in 1 .. k + 1 : v[j] = j
    BY <1>5, <1>6, <2>1, SMTT(30)
  <2>3. v = [j \in 1 .. Len(v) |-> v[j]]
    BY ONLY v \in Seq(Nat), SMTT(30)
  <2>4. [j \in 1 .. Len(v) |-> v[j]] = [j \in 1 .. k + 1 |-> j]
    BY <2>2
  <2> QED
    BY <2>1, <2>3, <2>4
<1> QED
  BY <1>2, <1>3, <1>5, <1>7

LEMMA DecodeStep ==
    ASSUME Inv, NEW fd \in Fds, Decode(fd)
    PROVE  Inv'
<1>1. TypeInv /\ Accounted /\ Working /\ Client(fd) /\ Laid(fd)
  BY DEF Inv
<1>2. /\ Looping(fd) /\ main.at = "filter" /\ main.fd = fd
      /\ UNCHANGED <<stream, taken, session, delivered, torn, clean, raced>>
      /\ UNCHANGED clean_vars
  BY DEF Decode, Looping, client_vars, clean_vars
<1>3. PICK h \in Headers(fd) :
             /\ Refusal(h) = "none"
             /\ ws_buffer[fd].received_len >= h.payload + HeaderLen(h.form)
             /\ ws_buffer_resize(fd,
                  ws_buffer[fd].start + (h.payload + Skip(h.payload)),
                  ws_buffer[fd].received_len - (h.payload + Skip(h.payload)))
             /\ main' = Filter(fd, Append(main.out,
                                 IF HeaderLen(h.form) = Skip(h.payload)
                                 THEN h.k ELSE 0))
  BY DEF Decode, Complete
<1>4. PICK b, r, len, out, a, x :
             /\ b = ws_buffer[fd].start
             /\ r = ws_buffer[fd].received_len
             /\ len = h.payload + Skip(h.payload)
             /\ out = main.out /\ a = allocated_size
             /\ x = IF HeaderLen(h.form) = Skip(h.payload) THEN h.k ELSE 0
  OBVIOUS
<1>5. /\ h.k \in Nat /\ h.payload \in Nat /\ x \in Nat
      /\ h.form \in {"7", "16", "64"} /\ Fits(h)
      /\ h.op \in {"text", "close", "other"} /\ Allowed(h)
  <2>1. /\ h.k \in Nat /\ h.payload \in Nat /\ h.form \in {"7", "16", "64"}
        /\ h.op \in {"text", "close", "other"} /\ Fits(h)
    BY <1>1, HeaderType
  <2>2. Allowed(h)
    BY <1>3, <2>1, RefusalOf
  <2> QED
    BY <1>4, <2>1, <2>2
<1>6. /\ b \in Nat /\ r \in Nat /\ out \in Seq(Nat) /\ a \in Nat
      /\ MaxBuffer \in Nat /\ a <= MaxBuffer
  BY <1>1, <1>4, MainFields DEF TypeInv, Accounted
<1>7. len \in Nat /\ len > 0 /\ r >= len
  <2>1. PICK p, k, l : p = h.payload /\ k = Skip(h.payload) /\ l = HeaderLen(h.form)
    OBVIOUS
  <2>2. /\ p \in Nat /\ k \in Nat /\ k > 0 /\ l \in Nat
        /\ k <= l /\ r >= p + l /\ len = p + k
    BY <1>3, <1>4, <1>5, <2>1, HeaderLens, SkipOfForm
  <2> QED
    BY ONLY <1>6, <2>2
<1>8. /\ r >= len /\ main' = Filter(fd, Append(out, x))
      /\ ws_buffer_resize(fd, b + len, r - len)
  BY <1>3, <1>4, <1>7
<1>9. /\ b + len \in Nat /\ b + len # 0 /\ r - len \in Nat
      /\ a + (r - len) - r <= MaxBuffer
  BY ONLY <1>6, <1>7, <1>8
<1>10. /\ HasItem(fd) /\ session[fd] = "encoded"
       /\ \A g \in Fds : g # fd => session'[g] = session[g]
       /\ session'[fd] = "encoded"
  BY <1>1, <1>2 DEF Working
<1>11. Accounted'
  BY <1>1, <1>2, <1>4, <1>8, <1>9, <1>10, AccountedResize
<1>12. /\ ws_buffer' \in [Fds -> [start : Nat, received_len : Nat]]
       /\ allocated_size' \in Nat
       /\ \A g \in Fds : g # fd => ws_buffer'[g] = ws_buffer[g]
       /\ ws_buffer'[fd] = [start |-> b + len, received_len |-> r - len]
  <2>1. allocated_size >= Cardinality(Bytes)
    BY <1>1 DEF Accounted
  <2>2. /\ ws_buffer' \in [Fds -> [start : Nat, received_len : Nat]]
        /\ allocated_size' \in Nat
    BY <1>1, <1>8, <1>9, <2>1, ResizeAccounts
  <2> QED
    BY <1>1, <1>8, <2>2 DEF ws_buffer_resize, TypeInv
<1>13. /\ HasItem(fd)' /\ ws_buffer'[fd].start = b + len
       /\ ws_buffer'[fd].received_len = r - len
  BY <1>9, <1>12 DEF HasItem, NoItem
<1>14. PICK out1 \in Seq(Nat) : out1 = Append(out, x)
  BY <1>5, <1>6, AppendProperties
<1>15. /\ main' \in Mains /\ main' # Idle /\ main'.fd = fd
       /\ main'.at = "filter" /\ main'.out = out1
  <2>1. /\ Filter(fd, out1) \in Mains /\ Filter(fd, out1) # Idle
        /\ Filter(fd, out1).fd = fd /\ Filter(fd, out1).at = "filter"
        /\ Filter(fd, out1).out = out1
    BY MainValues
  <2> QED
    BY <1>8, <1>14, <2>1
<1>16. ASSUME fd \in Whole
       PROVE  Placed(fd, Len(Decoded(fd)))' /\ Settled(fd)' /\ Blamed(fd)'
  <2>0. PICK k : k = Len(Decoded(fd))
    OBVIOUS
  <2>1. /\ k \in Nat /\ Placed(fd, k) /\ k + 1 \in 1 .. Len(stream[fd])
        /\ x = k + 1 /\ h.op = stream[fd][k + 1].op
        /\ taken[fd] = b + r /\ End(stream[fd][k + 1]) = b + len
    <3>1. /\ k \in Nat /\ Placed(fd, k) /\ k + 1 \in 1 .. Len(stream[fd])
          /\ h.k = k + 1 /\ h.op = stream[fd][k + 1].op
          /\ taken[fd] = ws_buffer[fd].start + ws_buffer[fd].received_len
          /\ End(stream[fd][k + 1]) =
               ws_buffer[fd].start + (h.payload + HeaderLen(h.form))
          /\ HeaderLen(h.form) = Skip(h.payload)
      BY <1>2, <1>16, <2>0, HeaderOfNext, SMTT(40)
    <3> QED
      BY <1>4, <3>1
  <2>2. Decoded(fd) = delivered[fd] \o out
    <3>1. main # Idle
      BY <1>2 DEF Idle
    <3> QED
      BY <1>2, <1>4, <3>1 DEF Decoded
  <2>3. Decoded(fd)' = delivered[fd] \o Append(out, k + 1)
    <3>1. Decoded(fd)' = delivered[fd] \o out1
      BY <1>2, <1>15 DEF Decoded
    <3> QED
      BY <1>14, <2>1, <3>1
  <2>4. /\ Decoded(fd)' = [j \in 1 .. k + 1 |-> j]
        /\ Len(Decoded(fd)') = k + 1
    <3>1. /\ delivered[fd] \in Seq(Nat) /\ Len(delivered[fd] \o out) = k
          /\ delivered[fd] \o out = [j \in 1 .. k |-> j]
      BY <1>1, <2>0, <2>1, <2>2 DEF TypeInv, Placed
    <3>2. /\ delivered[fd] \o Append(out, k + 1) = [j \in 1 .. k + 1 |-> j]
          /\ Len(delivered[fd] \o Append(out, k + 1)) = k + 1
      BY <1>6, <2>1, <3>1, OneMore
    <3> QED
      BY <2>3, <3>2
  <2>5. From(fd, k + 1)' = b + len
    <3>1. k + 1 # 0
      BY <2>1
    <3>2. stream'[fd][k + 1] = stream[fd][k + 1]
      BY <1>2
    <3>3. End(stream[fd][k + 1])' = End(stream[fd][k + 1])
      BY <3>2 DEF End, FrameLen, HeaderLen
    <3> QED
      BY <2>1, <3>1, <3>3 DEF From
  <2>6. Placed(fd, k + 1)'
    <3>1. k + 1 <= Len(stream'[fd])
      <4>1. Len(stream[fd]) \in Nat
        BY <1>1, StreamFields
      <4> QED
        BY <1>2, <2>1, <4>1
    <3>2. ASSUME NEW j \in 1 .. k + 1
          PROVE  stream'[fd][j].op = "text"
      <4>1. j \in 1 .. k \/ j = k + 1
        BY <2>1
      <4> QED
        BY <1>2, <1>5, <2>1, <4>1 DEF Placed, Allowed
    <3>3. taken'[fd] = (b + len) + (r - len)
      <4>1. taken'[fd] = b + r
        BY <1>2, <2>1
      <4>2. b + r = (b + len) + (r - len)
        BY ONLY <1>6, <1>7
      <4> QED
        BY <4>1, <4>2
    <3> QED
      BY <1>13, <2>4, <2>5, <3>1, <3>2, <3>3 DEF Placed
  <2>7. Placed(fd, Len(Decoded(fd)))'
    BY <2>4, <2>6 DEF Placed
  <2>8. Settled(fd)' /\ Blamed(fd)'
    BY <1>15 DEF Settled, Inside, Blamed
  <2> QED
    BY <2>7, <2>8
<1> QED
  BY <1>2, <1>11, <1>12, <1>13, <1>15, <1>16, FilterStep

-----------------------------------------------------------------------------
(* clean_by_fd in the main thread and in a writer. *)

LEMMA CleaningFields ==
    ASSUME TypeInv, NEW c \in Cleaners
    PROVE  /\ clean[c].at \in {"none", "remove", "free", "store"}
           /\ clean[c] = NotCleaning <=> clean[c].at = "none"
           /\ clean[c] # NotCleaning => clean[c].fd \in Fds
           /\ clean[c].at = "store" => clean[c].size \in Nat /\ clean[c].len \in Nat
<1>1. clean[c] \in Cleanings /\ NotCleaning.at = "none"
  BY DEF TypeInv, NotCleaning
<1>2. CASE clean[c] = NotCleaning
  BY <1>1, <1>2
<1>3. CASE clean[c] \in [at : {"remove", "free"}, fd : Fds]
  BY <1>1, <1>3
<1>4. CASE clean[c] \in [at : {"store"}, fd : Fds, size : Nat, len : Nat]
  BY <1>1, <1>4
<1> QED
  BY <1>1, <1>2, <1>3, <1>4 DEF Cleanings

(* A cleaner that is, or will be, busy with fd. *)
LEMMA CleanerMoves ==
    ASSUME TypeInv, NEW c \in Cleaners, NEW fd \in Fds, NEW v,
           clean' = [clean EXCEPT ![c] = v],
           clean[c] = NotCleaning \/ clean[c].fd = fd
    PROVE  /\ clean'[c] = v
           /\ \A d \in Cleaners : d # c => clean'[d] = clean[d]
           /\ \A g \in Fds \ {fd} : Cleaned(g) => Cleaned(g)'
           /\ v # NotCleaning /\ v.fd = fd => Cleaned(fd)'
<1>1. clean \in [Cleaners -> Cleanings]
  BY DEF TypeInv
<1>2. clean'[c] = v /\ \A d \in Cleaners : d # c => clean'[d] = clean[d]
  BY <1>1
<1>3. ASSUME NEW g \in Fds \ {fd}, Cleaned(g) PROVE Cleaned(g)'
  <2>1. PICK d \in Cleaners : clean[d] # NotCleaning /\ clean[d].fd = g
    BY <1>3 DEF Cleaned
  <2>2. d # c
    BY <2>1
  <2>3. clean'[d] # NotCleaning /\ clean'[d].fd = g
    BY <1>2, <2>1, <2>2
  <2> QED
    BY <2>3 DEF Cleaned
<1>4. v # NotCleaning /\ v.fd = fd => Cleaned(fd)'
  BY <1>2 DEF Cleaned
<1> QED
  BY <1>2, <1>3, <1>4

(* A client that is being cleaned up is nobody's client any more. *)
LEMMA CleanedClient ==
    ASSUME NEW fd \in Fds, Cleaned(fd)' \/ session'[fd] = "none"
    PROVE  Client(fd)'
BY DEF Client, Whole

(* The main thread or a writer takes a client up. *)
LEMMA StartCleanup ==
    ASSUME TypeInv, Cleanup, NEW c \in Cleaners, NEW fd \in Fds,
           clean[c] = NotCleaning, Cleans(c, fd),
           UNCHANGED <<session, ws_buffer, allocated_size, raced>>
    PROVE  /\ Cleanup' /\ clean' \in [Cleaners -> Cleanings]
           /\ \A d \in Cleaners : d # c => clean'[d] = clean[d]
           /\ \A g \in Fds : Cleaned(g) => Cleaned(g)'
           /\ Cleaned(fd)'
<1> DEFINE v == [at |-> "remove", fd |-> fd]
<1>1. clean' = [clean EXCEPT ![c] = v]
  BY DEF Cleans
<1>2. v \in Cleanings /\ v.at = "remove" /\ v.fd = fd /\ v # NotCleaning
  BY DEF Cleanings, NotCleaning
<1> HIDE DEF v
<1>3. /\ clean'[c] = v
      /\ \A d \in Cleaners : d # c => clean'[d] = clean[d]
      /\ \A g \in Fds \ {fd} : Cleaned(g) => Cleaned(g)'
      /\ v # NotCleaning /\ v.fd = fd => Cleaned(fd)'
  BY <1>1, CleanerMoves
<1>4. clean' \in [Cleaners -> Cleanings]
  BY <1>1, <1>2 DEF TypeInv
<1>5. ASSUME NEW d \in Cleaners PROVE Pending(d)'
  <2>1. CASE d = c
    BY <1>2, <1>3, <2>1 DEF Pending
  <2>2. CASE d # c
    <3>1. clean'[d] = clean[d] /\ Pending(d)
      BY <1>3, <2>2 DEF Cleanup
    <3> QED
      BY <3>1 DEF Pending, BytesOf
  <2> QED
    BY <2>1, <2>2
<1>6. ~raced' => \A d, e \in Cleaners :
                   clean'[d].at = "store" /\ clean'[e].at = "store" => d = e
  BY <1>2, <1>3 DEF Cleanup
<1>7. Cleanup'
  BY <1>5, <1>6 DEF Cleanup
<1> QED
  BY <1>2, <1>3, <1>4, <1>7

LEMMA StartStep ==
    ASSUME Inv, NEW fd \in Fds, HangUp(fd) \/ WriterClean(fd)
    PROVE  Inv'
<1>1. TypeInv /\ Accounted /\ Working /\ Cleanup /\ Laid(fd) /\ Fresh(fd)
  BY DEF Inv
<1>2. UNCHANGED <<stream, taken, session, delivered, torn, ws_buffer,
                  allocated_size, main, raced>>
  BY DEF HangUp, WriterClean, client_vars
<1>3. PICK c \in Cleaners :
             /\ clean[c] = NotCleaning /\ Cleans(c, fd)
             /\ main.at \notin {"filter", "lost"}
             /\ c = "main" => main = Idle
  BY DEF HangUp, WriterClean, AtEpoll, LockFree, Cleaners, Idle
<1>4. /\ Cleanup' /\ clean' \in [Cleaners -> Cleanings]
      /\ \A d \in Cleaners : d # c => clean'[d] = clean[d]
      /\ \A g \in Fds : Cleaned(g) => Cleaned(g)'
      /\ Cleaned(fd)'
  BY <1>1, <1>2, <1>3, StartCleanup
<1>5. TypeInv'
  BY <1>1, <1>2, <1>4 DEF TypeInv
<1>6. Accounted'
  BY <1>1, <1>2, <1>4, AccountedSame
<1>7. Working'
  <2>1. main' = main /\ main'.at \notin {"filter", "lost"}
    BY <1>2, <1>3
  <2>2. main' # Idle => clean'["main"] = NotCleaning
    <3>1. main # Idle => c # "main" /\ clean["main"] = NotCleaning
      BY <1>1, <1>3 DEF Working
    <3>2. "main" \in Cleaners
      BY DEF Cleaners
    <3> QED
      BY <1>4, <2>1, <3>1, <3>2
  <2> QED
    BY <2>1, <2>2 DEF Working
<1>8. Laid(fd)'
  <2>1. taken'[fd] <= From(fd, Len(stream[fd]))
    BY <1>1, <1>2 DEF Laid
  <2> QED
    BY <1>1, <1>2, <2>1, LaidKept
<1>9. Fresh(fd)' /\ Client(fd)'
  BY <1>1, <1>2, <1>4, CleanedClient DEF Fresh
<1> QED
  BY <1>2, <1>4, <1>5, <1>6, <1>7, <1>8, <1>9, OneClient

(* What the steps of clean_by_fd have in common. *)
LEMMA CleanStep ==
    ASSUME Inv, NEW c \in Cleaners, NEW fd \in Fds,
           clean[c] # NotCleaning,
           \A d \in Cleaners : d # c => clean'[d] = clean[d],
           \A g \in Fds \ {fd} : Cleaned(g) => Cleaned(g)',
           UNCHANGED main, TypeInv', Accounted', Cleanup', session'[fd] = "none",
           Laid(fd)', Fresh(fd)',
           \A g \in Fds \ {fd} :
              /\ stream'[g] = stream[g] /\ taken'[g] = taken[g]
              /\ session'[g] = session[g] /\ ws_buffer'[g] = ws_buffer[g]
              /\ delivered'[g] = delivered[g] /\ (g \in torn' <=> g \in torn)
    PROVE  Inv'
<1>1. TypeInv /\ Working
  BY DEF Inv
<1>2. main.at \notin {"filter", "lost"} /\ (c = "main" => main = Idle)
  BY <1>1 DEF Working
<1>3. Working'
  <2>1. main' # Idle => c # "main" /\ clean["main"] = NotCleaning
    BY <1>1, <1>2 DEF Working
  <2>2. "main" \in Cleaners
    BY DEF Cleaners
  <2> QED
    BY <1>2, <2>1, <2>2 DEF Working
<1>4. Client(fd)'
  BY CleanedClient
<1> QED
  BY <1>3, <1>4, OneClient

LEMMA RemoveStep ==
    ASSUME Inv, NEW c \in Cleaners, Remove(c)
    PROVE  Inv'
<1>1. TypeInv /\ Accounted /\ Cleanup
  BY DEF Inv
<1>2. PICK fd : fd = clean[c].fd
  OBVIOUS
<1> DEFINE v == [at |-> "free", fd |-> fd]
<1>3. /\ clean[c].at = "remove"
      /\ session' = [session EXCEPT ![fd] = "none"]
      /\ stream' = [stream EXCEPT ![fd] = <<>>]
      /\ taken' = [taken EXCEPT ![fd] = 0]
      /\ delivered' = [delivered EXCEPT ![fd] = <<>>]
      /\ torn' = torn \ {fd}
      /\ clean' = [clean EXCEPT ![c] = v]
      /\ UNCHANGED <<ws_buffer, allocated_size, main, raced>>
  BY <1>2 DEF Remove
<1>4. fd \in Fds /\ clean[c] # NotCleaning
  BY <1>1, <1>2, <1>3, CleaningFields
<1>5. v \in Cleanings /\ v.at = "free" /\ v.fd = fd /\ v # NotCleaning
  BY <1>4 DEF Cleanings, NotCleaning
<1> HIDE DEF v
<1>6. /\ clean'[c] = v
      /\ \A d \in Cleaners : d # c => clean'[d] = clean[d]
      /\ \A g \in Fds \ {fd} : Cleaned(g) => Cleaned(g)'
      /\ Cleaned(fd)'
  BY <1>1, <1>2, <1>3, <1>4, <1>5, CleanerMoves
<1>7. /\ session'[fd] = "none" /\ stream'[fd] = <<>> /\ taken'[fd] = 0
      /\ delivered'[fd] = <<>>
      /\ \A g \in Fds \ {fd} : /\ session'[g] = session[g]
                               /\ stream'[g] = stream[g]
                               /\ taken'[g] = taken[g]
                               /\ delivered'[g] = delivered[g]
                               /\ (g \in torn' <=> g \in torn)
  BY <1>1, <1>3, <1>4 DEF TypeInv
<1>8. TypeInv'
  <2>1. <<>> \in Seq(Frame) /\ <<>> \in Seq(Nat)
    OBVIOUS
  <2>2. stream' \in [Fds -> Seq(Frame)] /\ delivered' \in [Fds -> Seq(Nat)]
    BY <1>1, <1>3, <2>1 DEF TypeInv
  <2>3. taken' \in [Fds -> Nat] /\ torn' \subseteq Fds
    BY <1>1, <1>3 DEF TypeInv
  <2>4. session' \in [Fds -> {"none", "plain", "encoded"}]
    BY <1>1, <1>3 DEF TypeInv
  <2>5. clean' \in [Cleaners -> Cleanings]
    BY <1>1, <1>3, <1>5 DEF TypeInv
  <2> QED
    BY <1>1, <1>3, <2>2, <2>3, <2>4, <2>5 DEF TypeInv
<1>9. Accounted'
  <2>1. \A g \in Fds : session'[g] = session[g] \/ Cleaned(g)'
    BY <1>6, <1>7
  <2>2. \A g \in Fds : Cleaned(g) => Cleaned(g)'
    BY <1>6
  <2> QED
    BY <1>1, <1>3, <2>1, <2>2, AccountedSame
<1>10. Cleanup'
  <2>1. ASSUME NEW d \in Cleaners PROVE Pending(d)'
    <3>1. CASE d = c
      BY <1>5, <1>6, <1>7, <3>1 DEF Pending
    <3>2. CASE d # c
      <4>1. clean'[d] = clean[d] /\ Pending(d)
        BY <1>1, <1>6, <3>2 DEF Cleanup
      <4>2. clean[d].at \in {"free", "store"} => clean[d].fd \in Fds
        BY <1>1, CleaningFields
      <4>3. clean'[d].at \in {"free", "store"} => session'[clean'[d].fd] = "none"
        BY <1>7, <4>1, <4>2 DEF Pending
      <4> QED
        BY <1>3, <4>1, <4>3 DEF Pending, BytesOf
    <3> QED
      BY <3>1, <3>2
  <2>2. ~raced' => \A d, e \in Cleaners :
                     clean'[d].at = "store" /\ clean'[e].at = "store" => d = e
    BY <1>1, <1>3, <1>5, <1>6 DEF Cleanup
  <2> QED
    BY <2>1, <2>2 DEF Cleanup
<1>11. Laid(fd)'
  <2>1. Len(stream'[fd]) = 0 /\ taken'[fd] = 0
    BY <1>7
  <2>2. From(fd, 0)' = 0
    BY DEF From
  <2> QED
    BY <2>1, <2>2 DEF Laid
<1>12. Fresh(fd)'
  BY <1>7 DEF Fresh
<1>13. \A g \in Fds \ {fd} :
         /\ stream'[g] = stream[g] /\ taken'[g] = taken[g]
         /\ session'[g] = session[g] /\ ws_buffer'[g] = ws_buffer[g]
         /\ delivered'[g] = delivered[g] /\ (g \in torn' <=> g \in torn)
  BY <1>3, <1>7
<1> QED
  BY <1>3, <1>4, <1>6, <1>7, <1>8, <1>9, <1>10, <1>11, <1>12, <1>13, CleanStep

LEMMA FreeStep ==
    ASSUME Inv, NEW c \in Cleaners, Free(c)
    PROVE  Inv'
<1>1. TypeInv /\ Accounted /\ Cleanup
  BY DEF Inv
<1>2. PICK fd : fd = clean[c].fd
  OBVIOUS
<1>3. /\ clean[c].at = "free"
      /\ UNCHANGED <<stream, taken, session, delivered, torn, ws_buffer,
                     allocated_size, main>>
  BY DEF Free, client_vars
<1>4. fd \in Fds /\ clean[c] # NotCleaning /\ Laid(fd) /\ Fresh(fd)
  <2>1. fd \in Fds /\ clean[c] # NotCleaning
    BY <1>1, <1>2, <1>3, CleaningFields
  <2> QED
    BY <2>1 DEF Inv
<1>5. session'[fd] = "none"
  BY <1>1, <1>2, <1>3 DEF Cleanup, Pending
<1>6. Laid(fd)' /\ Fresh(fd)'
  <2>1. taken'[fd] <= From(fd, Len(stream[fd]))
    BY <1>3, <1>4 DEF Laid
  <2> QED
    BY <1>1, <1>3, <1>4, <2>1, LaidKept DEF Fresh
(* Whatever the case, the rest follows from these. *)
<1>7. ASSUME NEW v \in Cleanings, clean' = [clean EXCEPT ![c] = v],
             raced => raced', raced' \in BOOLEAN,
             (v = NotCleaning /\ ~HasItem(fd)) \/ (v.at = "store" /\ v.fd = fd),
             (\E d \in Cleaners : clean[d].at = "store") => raced' \/ v = NotCleaning,
             v.at = "store" =>
               /\ v.size - v.len >= Cardinality(BytesOf(Fds \ {fd}))
               /\ v.size <= MaxBuffer
               /\ v.size = allocated_size /\ v.len = ws_buffer[fd].received_len
      PROVE  Inv'
  <2>1. /\ clean'[c] = v
        /\ \A d \in Cleaners : d # c => clean'[d] = clean[d]
        /\ \A g \in Fds \ {fd} : Cleaned(g) => Cleaned(g)'
        /\ v # NotCleaning /\ v.fd = fd => Cleaned(fd)'
    <3>1. TypeInv /\ fd \in Fds /\ clean[c].fd = fd
      BY <1>1, <1>2, <1>4
    <3>2. clean' = [clean EXCEPT ![c] = v]
      BY <1>7
    <3> QED
      BY ONLY c \in Cleaners, <3>1, <3>2, CleanerMoves
  <2>2. TypeInv'
    BY <1>1, <1>3, <1>7 DEF TypeInv
  <2>3. NotCleaning.at = "none"
    BY DEF NotCleaning
  <2>4. Accounted'
    <3>1. \A g \in Fds : Cleaned(g) => Cleaned(g)' \/ ~HasItem(g)
      BY <1>7, <2>1, <2>3
    <3> QED
      BY <1>1, <1>3, <1>7, <3>1, AccountedSame
  <2>5. ASSUME NEW d \in Cleaners PROVE Pending(d)'
    <3>1. CASE d = c
      <4>1. v.at = "store" => v.fd = fd
        BY <1>7, <2>3
      <4>2. v.at \in {"none", "store"}
        BY <1>7, <2>3
      <4>3. Pending(d)'
        <5>1. BytesOf(Fds \ {fd})' = BytesOf(Fds \ {fd})
          BY <1>3 DEF BytesOf
        <5>2. CASE v.at = "none"
          BY <2>1, <3>1, <5>2 DEF Pending
        <5>3. CASE v.at = "store"
          <6>1. clean'[d] = v /\ v.fd = fd /\ session'[v.fd] = "none"
            BY <1>5, <2>1, <3>1, <4>1, <5>3
          <6>2. /\ v.size - v.len >= Cardinality(BytesOf(Fds \ {fd}))
                /\ v.size <= MaxBuffer
                /\ v.size = allocated_size' /\ v.len = ws_buffer'[fd].received_len
            BY <1>3, <1>7, <5>3
          <6> QED
            BY <5>1, <6>1, <6>2 DEF Pending
        <5> QED
          BY <4>2, <5>2, <5>3
      <4> QED
        BY <4>3
    <3>2. CASE d # c
      <4>1. clean'[d] = clean[d] /\ Pending(d)
        BY <1>1, <2>1, <3>2 DEF Cleanup
      <4> QED
        BY <1>3, <1>7, <4>1 DEF Pending, BytesOf
    <3> QED
      BY <3>1, <3>2
  <2>6. ~raced' => \A d, e \in Cleaners :
                     clean'[d].at = "store" /\ clean'[e].at = "store" => d = e
    BY <1>1, <1>7, <2>1, <2>3 DEF Cleanup
  <2>7. Cleanup'
    BY <2>5, <2>6 DEF Cleanup
  <2>8. \A g \in Fds \ {fd} :
           /\ stream'[g] = stream[g] /\ taken'[g] = taken[g]
           /\ session'[g] = session[g] /\ ws_buffer'[g] = ws_buffer[g]
           /\ delivered'[g] = delivered[g] /\ (g \in torn' <=> g \in torn)
    BY <1>3
  <2> QED
    BY <1>3, <1>4, <1>5, <1>6, <2>1, <2>2, <2>4, <2>7, <2>8, CleanStep
<1>8. CASE HasItem(fd)
  <2> DEFINE v == [at |-> "store", fd |-> fd, size |-> allocated_size,
                   len |-> ws_buffer[fd].received_len]
  <2>1. /\ clean' = [clean EXCEPT ![c] = v]
        /\ raced' = (raced \/ \E d \in Cleaners : clean[d].at = "store")
    BY <1>2, <1>8 DEF Free
  <2>2. /\ allocated_size \in Nat /\ ws_buffer[fd].received_len \in Nat
        /\ allocated_size <= MaxBuffer
    BY <1>1, <1>4 DEF TypeInv, Accounted
  <2>3. /\ v \in Cleanings /\ v.at = "store" /\ v.fd = fd
        /\ v.size = allocated_size /\ v.len = ws_buffer[fd].received_len
    BY <1>4, <2>2 DEF Cleanings
  <2>4. v.size - v.len >= Cardinality(BytesOf(Fds \ {fd}))
    <3>1. /\ Cardinality(Bytes) =
               Cardinality(BytesOf(Fds \ {fd})) + ws_buffer[fd].received_len
          /\ Cardinality(BytesOf(Fds \ {fd})) \in Nat
      BY <1>1, <1>4, BytesAdd
    <3>2. allocated_size >= Cardinality(Bytes)
      BY <1>1 DEF Accounted
    <3> HIDE DEF v
    <3>3. PICK o, l : o = Cardinality(BytesOf(Fds \ {fd}))
                      /\ l = ws_buffer[fd].received_len
      OBVIOUS
    <3>4. o \in Nat /\ l \in Nat /\ allocated_size >= o + l
      BY <2>2, <3>1, <3>2, <3>3
    <3>5. allocated_size - l >= o
      BY <2>2, <3>4
    <3> QED
      BY <2>3, <3>3, <3>5
  <2>5. raced' \in BOOLEAN /\ (raced => raced')
        /\ ((\E d \in Cleaners : clean[d].at = "store") => raced')
    BY <2>1
  <2> HIDE DEF v
  <2> QED
    BY <1>7, <2>1, <2>2, <2>3, <2>4, <2>5
<1>9. CASE ~HasItem(fd)
  <2>1. clean' = [clean EXCEPT ![c] = NotCleaning] /\ raced' = raced
    BY <1>2, <1>9 DEF Free
  <2>2. PICK v : v = NotCleaning
    OBVIOUS
  <2>3. v \in Cleanings /\ v.at = "none" /\ raced' \in BOOLEAN
    BY <1>1, <2>1, <2>2 DEF Cleanings, NotCleaning, TypeInv
  <2>4. /\ clean' = [clean EXCEPT ![c] = v] /\ v = NotCleaning /\ v.at # "store"
        /\ (raced => raced') /\ ~HasItem(fd)
    BY <1>9, <2>1, <2>2, <2>3
  <2> QED
    BY <1>7, <2>3, <2>4
<1> QED
  BY <1>8, <1>9

LEMMA StoreStep ==
    ASSUME Inv, NEW c \in Cleaners, Store(c)
    PROVE  Inv'
<1>1. TypeInv /\ Accounted /\ Cleanup
  BY DEF Inv
<1>2. PICK fd, v : fd = clean[c].fd /\ v = NotCleaning
  OBVIOUS
<1>3. /\ clean[c].at = "store"
      /\ allocated_size' = clean[c].size - clean[c].len
      /\ ws_buffer' = [ws_buffer EXCEPT ![fd] = NoItem]
      /\ clean' = [clean EXCEPT ![c] = v]
      /\ UNCHANGED <<stream, taken, session, delivered, torn, main, raced>>
  BY <1>2 DEF Store, client_vars
<1>4. /\ fd \in Fds /\ clean[c] # NotCleaning
      /\ clean[c].size \in Nat /\ clean[c].len \in Nat
  BY <1>1, <1>2, <1>3, CleaningFields
<1>5. Laid(fd) /\ Fresh(fd) /\ session'[fd] = "none"
  <2>1. Laid(fd) /\ Fresh(fd)
    BY <1>4 DEF Inv
  <2>2. session[fd] = "none"
    BY <1>1, <1>2, <1>3 DEF Cleanup, Pending
  <2> QED
    BY <1>3, <2>1, <2>2
<1>6. Laid(fd)' /\ Fresh(fd)'
  <2>1. taken'[fd] <= From(fd, Len(stream[fd]))
    BY <1>3, <1>5 DEF Laid
  <2> QED
    BY <1>1, <1>3, <1>4, <1>5, <2>1, LaidKept DEF Fresh
<1>7. v \in Cleanings /\ v.at = "none"
  BY <1>2 DEF Cleanings, NotCleaning
<1>8. /\ clean'[c] = v
      /\ \A d \in Cleaners : d # c => clean'[d] = clean[d]
      /\ \A g \in Fds \ {fd} : Cleaned(g) => Cleaned(g)'
  BY <1>1, <1>2, <1>3, <1>4, CleanerMoves
<1>9. /\ ws_buffer'[fd] = NoItem /\ ws_buffer'[fd].received_len = 0
      /\ \A g \in Fds \ {fd} : ws_buffer'[g] = ws_buffer[g]
      /\ ws_buffer' \in [Fds -> [start : Nat, received_len : Nat]]
  <2>1. NoItem \in [start : Nat, received_len : Nat] /\ NoItem.received_len = 0
    BY DEF NoItem
  <2> QED
    BY <1>1, <1>3, <1>4, <2>1 DEF TypeInv
<1>10. /\ Cardinality(Bytes) =
            Cardinality(BytesOf(Fds \ {fd})) + ws_buffer[fd].received_len
       /\ Cardinality(BytesOf(Fds \ {fd})) \in Nat
  BY <1>1, <1>4, BytesAdd
<1>11. Bytes' = BytesOf(Fds \ {fd})
  <2>1. {fd} \X (1 .. ws_buffer'[fd].received_len) = {}
    <3>1. 1 .. 0 = {}
      OBVIOUS
    <3> QED
      BY <1>9, <3>1
  <2> DEFINE p(g) == {g} \X (1 .. ws_buffer[g].received_len)
             q(g) == {g} \X (1 .. ws_buffer'[g].received_len)
  <2>2. \A g \in Fds \ {fd} : p(g) = q(g)
    BY <1>9
  <2>3. q(fd) = {}
    BY <2>1
  <2> HIDE DEF p, q
  <2>4. UNION {q(g) : g \in Fds} = UNION {p(g) : g \in Fds \ {fd}}
    BY <1>4, <2>2, <2>3
  <2> QED
    BY <2>4 DEF Bytes, BytesOf, p, q
<1>12. /\ clean[c].size - clean[c].len >= Cardinality(BytesOf(Fds \ {fd}))
       /\ clean[c].size <= MaxBuffer
       /\ ~raced => /\ clean[c].size = allocated_size
                    /\ clean[c].len = ws_buffer[fd].received_len
  BY <1>1, <1>2, <1>3 DEF Cleanup, Pending
<1>13. PICK o, z, l : /\ o = Cardinality(BytesOf(Fds \ {fd}))
                      /\ z = clean[c].size /\ l = clean[c].len
  OBVIOUS
<1>14. /\ o \in Nat /\ z \in Nat /\ l \in Nat /\ z - l >= o /\ z <= MaxBuffer
       /\ MaxBuffer \in Nat /\ allocated_size' = z - l /\ Cardinality(Bytes') = o
  BY <1>3, <1>4, <1>10, <1>11, <1>12, <1>13
<1>15. allocated_size' \in Nat /\ allocated_size' >= o /\ allocated_size' <= MaxBuffer
  BY ONLY <1>14
<1>16. TypeInv'
  BY <1>1, <1>3, <1>7, <1>9, <1>15 DEF TypeInv
<1>17. Accounted'
  <2>1. ~raced' => allocated_size' = Cardinality(Bytes')
    <3> SUFFICES ASSUME ~raced PROVE allocated_size' = Cardinality(Bytes')
      BY <1>3
    <3>1. z = Cardinality(Bytes) /\ l = ws_buffer[fd].received_len
      BY <1>1, <1>12, <1>13 DEF Accounted
    <3>2. z = o + l
      BY <1>10, <1>13, <3>1
    <3>3. z - l = o
      BY ONLY <1>14, <3>2
    <3> QED
      BY <1>14, <3>3
  <2>2. (SlotsInUse <= Slots)'
    <3>1. SlotsInUse <= Slots
      BY <1>1 DEF Accounted
    <3>2. \A g \in Fds : g # fd => ws_buffer'[g] = ws_buffer[g]
      BY <1>9
    <3> QED
      BY <1>1, <1>4, <1>9, <3>1, <3>2, SlotsKept
  <2>3. \A g \in Fds : HasItem(g)' => session'[g] = "encoded" \/ Cleaned(g)'
    <3> SUFFICES ASSUME NEW g \in Fds, HasItem(g)'
                 PROVE  session'[g] = "encoded" \/ Cleaned(g)'
      OBVIOUS
    <3>1. g # fd
      BY <1>9 DEF HasItem
    <3>2. HasItem(g)
      BY <1>9, <3>1 DEF HasItem
    <3> QED
      BY <1>1, <1>3, <1>8, <3>1, <3>2 DEF Accounted
  <2> QED
    BY <1>14, <1>15, <2>1, <2>2, <2>3 DEF Accounted
<1>18. Cleanup'
  <2>1. ASSUME NEW d \in Cleaners PROVE Pending(d)'
    <3>1. CASE d = c
      BY <1>7, <1>8, <3>1 DEF Pending
    <3>2. CASE d # c
      <4>1. clean'[d] = clean[d] /\ Pending(d)
        BY <1>1, <1>8, <3>2 DEF Cleanup
      <4>2. CASE clean[d].at # "store"
        BY <1>3, <4>1, <4>2 DEF Pending
      <4>3. CASE clean[d].at = "store"
        <5>1. PICK g, z2, l2 : /\ g = clean[d].fd
                               /\ z2 = clean[d].size /\ l2 = clean[d].len
          OBVIOUS
        <5>2. g \in Fds /\ z2 \in Nat /\ l2 \in Nat
          BY <1>1, <4>3, <5>1, CleaningFields
        <5>3. raced
          BY <1>1, <1>3, <3>2, <4>3 DEF Cleanup
        <5>4. /\ z2 - l2 >= Cardinality(BytesOf(Fds \ {g})) /\ z2 <= MaxBuffer
              /\ session[g] = "none"
          BY <4>1, <4>3, <5>1 DEF Pending
        <5>5. Cardinality(BytesOf(Fds \ {g})') <= Cardinality(BytesOf(Fds \ {g}))
          BY <1>1, <1>4, <1>9, <5>2, BytesLess
        <5>6. Cardinality(BytesOf(Fds \ {g})) \in Nat
          BY <1>1, <5>2, BytesAdd
        <5>7. Cardinality(BytesOf(Fds \ {g})') \in Nat
          BY <1>1, <1>4, <1>9, <5>2, BytesLess
        <5>8. z2 - l2 >= Cardinality(BytesOf(Fds \ {g})')
          BY <5>2, <5>4, <5>5, <5>6, <5>7
        <5>9. /\ clean'[d].fd = g /\ clean'[d].size = z2 /\ clean'[d].len = l2
              /\ session'[g] = "none" /\ raced'
          BY <1>3, <4>1, <5>1, <5>3, <5>4
        <5> QED
          BY <5>4, <5>8, <5>9 DEF Pending
      <4> QED
        BY <4>2, <4>3
    <3> QED
      BY <3>1, <3>2
  <2>2. ~raced' => \A d, e \in Cleaners :
                     clean'[d].at = "store" /\ clean'[e].at = "store" => d = e
    BY <1>1, <1>3, <1>7, <1>8 DEF Cleanup
  <2> QED
    BY <2>1, <2>2 DEF Cleanup
<1>19. \A g \in Fds \ {fd} :
         /\ stream'[g] = stream[g] /\ taken'[g] = taken[g]
         /\ session'[g] = session[g] /\ ws_buffer'[g] = ws_buffer[g]
         /\ delivered'[g] = delivered[g] /\ (g \in torn' <=> g \in torn)
  BY <1>3, <1>9
<1> QED
  BY <1>3, <1>4, <1>5, <1>6, <1>8, <1>16, <1>17, <1>18, <1>19, CleanStep

LEMMA ApplyStep ==
    ASSUME Inv, NEW fd \in Fds, Apply(fd)
    PROVE  Inv'
<1>1. /\ TypeInv /\ Accounted /\ Working /\ Cleanup
      /\ Laid(fd) /\ Fresh(fd) /\ Client(fd)
  BY DEF Inv
<1>2. /\ main.at = "return" /\ main.fd = fd /\ main' = Idle
      /\ UNCHANGED <<stream, taken, session, ws_buffer, allocated_size, torn,
                     raced>>
  BY DEF Apply
<1>3. PICK out : out = main.out
  OBVIOUS
<1>4. out \in Seq(Nat) /\ main # Idle /\ clean["main"] = NotCleaning
  <2>1. out \in Seq(Nat) /\ main # Idle
    BY <1>1, <1>2, <1>3, MainFields DEF TypeInv, Idle
  <2> QED
    BY <1>1, <2>1 DEF Working
<1>5. /\ delivered' \in [Fds -> Seq(Nat)]
      /\ \A g \in Fds : g # fd => delivered'[g] = delivered[g]
      /\ \/ session[fd] # "none" /\ delivered'[fd] = delivered[fd] \o out
         \/ session[fd] = "none" /\ delivered'[fd] = delivered[fd]
  <2>1. delivered[fd] \o out \in Seq(Nat)
    BY <1>1, <1>4, ConcatProperties DEF TypeInv
  <2>2. \/ /\ session[fd] # "none"
           /\ delivered' = [delivered EXCEPT ![fd] = delivered[fd] \o out]
        \/ session[fd] = "none" /\ delivered' = delivered
    BY <1>3 DEF Apply
  <2> QED
    BY <1>1, <2>1, <2>2 DEF TypeInv
<1>6. /\ Cleanup' /\ clean' \in [Cleaners -> Cleanings]
      /\ \A g \in Fds : Cleaned(g) => Cleaned(g)'
      /\ \/ Cleaned(fd)'
         \/ session[fd] = "none"
         \/ main.status \notin Disconnects
  <2>1. CASE UNCHANGED clean
    <3>1. Cleanup' /\ \A g \in Fds : Cleaned(g) => Cleaned(g)'
      BY <1>1, <1>2, <2>1, CleanupSame
    <3>2. session[fd] = "none" \/ main.status \notin Disconnects
      <4> SUFFICES ASSUME session[fd] # "none", main.status \in Disconnects
                   PROVE  FALSE
        OBVIOUS
      <4>1. Cleans("main", fd)
        BY DEF Apply
      <4>2. clean'["main"] = [at |-> "remove", fd |-> fd] /\ "main" \in Cleaners
        BY <1>1, <4>1 DEF Cleans, Cleaners, TypeInv
      <4>3. clean'["main"].at = "remove" /\ clean'["main"].at = "none"
        BY <1>4, <2>1, <4>2 DEF NotCleaning
      <4> QED
        BY <4>3
    <3> QED
      BY <1>1, <2>1, <3>1, <3>2 DEF TypeInv
  <2>2. CASE Cleans("main", fd)
    <3>1. "main" \in Cleaners
      BY DEF Cleaners
    <3> QED
      BY <1>1, <1>2, <1>4, <2>2, <3>1, StartCleanup
  <2> QED
    BY <2>1, <2>2 DEF Apply
<1>7. TypeInv'
  BY <1>1, <1>2, <1>5, <1>6 DEF TypeInv, Mains
<1>8. Accounted'
  BY <1>1, <1>2, <1>6, AccountedSame
<1>9. Working'
  BY <1>2 DEF Working, Idle
<1>10. Laid(fd)' /\ \A k : From(fd, k)' = From(fd, k)
  <2>1. taken'[fd] <= From(fd, Len(stream[fd]))
    BY <1>1, <1>2 DEF Laid
  <2> QED
    BY <1>1, <1>2, <2>1, LaidKept
<1>11. Fresh(fd)'
  BY <1>1, <1>2, <1>5 DEF Fresh
<1>12. Client(fd)'
  <2> SUFFICES ASSUME fd \in Whole'
               PROVE  /\ Placed(fd, Len(Decoded(fd)))'
                      /\ Settled(fd)' /\ Blamed(fd)'
    BY DEF Client
  <2>1. fd \in Whole /\ session[fd] # "none" /\ main.status \notin Disconnects
    <3>1. session'[fd] # "none" /\ ~Cleaned(fd)'
      BY DEF Whole
    <3>2. fd \in Whole
      BY <1>2, <1>6, WholeKept
    <3> QED
      BY <1>2, <1>6, <3>1, <3>2
  <2>2. Decoded(fd)' = Decoded(fd)
    BY <1>2, <1>3, <1>4, <1>5, <2>1 DEF Decoded
  <2>3. ~Dropping(fd) /\ ~Inside(fd) /\ ~Dropping(fd)' /\ ~Inside(fd)'
    BY <1>2, <2>1 DEF Dropping, Inside, Idle
  <2>4. Placed(fd, Len(Decoded(fd))) /\ Settled(fd)
    BY <1>1, <2>1 DEF Client
  <2>5. Placed(fd, Len(Decoded(fd)))'
    BY <1>2, <1>10, <2>2, <2>3, <2>4 DEF Placed, HasItem
  <2>6. Settled(fd)'
    BY <1>2, <2>2, <2>3, <2>4 DEF Settled, Done, End, FrameLen, HeaderLen
  <2>7. Blamed(fd)'
    BY <1>2 DEF Blamed, Idle
  <2> QED
    BY <2>5, <2>6, <2>7
<1>13. \A g \in Fds \ {fd} : OffMain(g) /\ OffMain(g)'
  BY <1>2 DEF OffMain
<1> QED
  BY <1>2, <1>5, <1>6, <1>7, <1>8, <1>9, <1>10, <1>11, <1>12, <1>13, OneClient

-----------------------------------------------------------------------------
LEMMA InitInv == Init => Inv
<1> SUFFICES ASSUME Init PROVE Inv
  OBVIOUS
<1>1. /\ stream = [fd \in Fds |-> <<>>] /\ taken = [fd \in Fds |-> 0]
      /\ session = [fd \in Fds |-> "none"] /\ ws_buffer = [fd \in Fds |-> NoItem]
      /\ allocated_size = 0 /\ main = Idle
      /\ delivered = [fd \in Fds |-> <<>>] /\ torn = {}
      /\ clean = [c \in Cleaners |-> NotCleaning] /\ raced = FALSE
  BY DEF Init
<1>a. \A c \in Cleaners : clean[c] = NotCleaning /\ clean[c].at = "none"
  BY <1>1 DEF NotCleaning
<1>b. Cleanup
  BY <1>a DEF Cleanup, Pending
<1>2. TypeInv
  <2>1. <<>> \in Seq(Frame) /\ <<>> \in Seq(Nat)
    OBVIOUS
  <2>2. stream \in [Fds -> Seq(Frame)] /\ delivered \in [Fds -> Seq(Nat)]
    BY <1>1, <2>1
  <2>3. NoItem \in [start : Nat, received_len : Nat]
    BY DEF NoItem
  <2>4. ws_buffer \in [Fds -> [start : Nat, received_len : Nat]]
    BY <1>1, <2>3
  <2> QED
    BY <1>1, <2>2, <2>4 DEF TypeInv, Mains, Cleanings
<1>3. \A fd \in Fds : ~HasItem(fd)
  BY <1>1 DEF HasItem
<1>4. Accounted
  <2>1. Cardinality({}) = 0
    BY FS_EmptySet
  <2>2. SlotsInUse = 0
    <3>1. {fd \in Fds : HasItem(fd)} = {}
      BY <1>3
    <3> QED
      BY <2>1, <3>1 DEF SlotsInUse
  <2>3. Bytes = {}
    <3>1. ASSUME NEW fd \in Fds
          PROVE  {fd} \X (1 .. ws_buffer[fd].received_len) = {}
      <4>1. 1 .. ws_buffer[fd].received_len = {}
        BY <1>1 DEF NoItem
      <4> QED
        BY <4>1
    <3> QED
      BY <3>1 DEF Bytes
  <2>4. 0 <= MaxBuffer /\ 0 <= Slots
    OBVIOUS
  <2> QED
    BY <1>1, <1>3, <2>1, <2>2, <2>3, <2>4 DEF Accounted
<1>5. Working
  BY <1>1 DEF Working, Idle
<1>6. ASSUME NEW fd \in Fds
      PROVE  Laid(fd) /\ Fresh(fd) /\ Client(fd)
  <2>1. Laid(fd)
    <3>1. Len(stream[fd]) = 0 /\ taken[fd] = 0
      BY <1>1
    <3>2. From(fd, 0) = 0
      BY DEF From
    <3> QED
      BY <3>1, <3>2 DEF Laid
  <2>2. Fresh(fd)
    BY <1>1, <1>3 DEF Fresh
  <2>3. Client(fd)
    BY <1>1 DEF Client, Whole
  <2> QED
    BY <2>1, <2>2, <2>3
<1> QED
  BY <1>2, <1>4, <1>5, <1>6, <1>b DEF Inv

LEMMA StutterInv == Inv /\ UNCHANGED vars => Inv'
<1> SUFFICES ASSUME Inv, UNCHANGED vars PROVE Inv'
  OBVIOUS
<1>1. UNCHANGED <<stream, taken, session, ws_buffer, allocated_size, main,
                  delivered, torn, clean, raced>>
  BY DEF vars
<1>2. TypeInv'
  BY <1>1 DEF Inv, TypeInv
<1>a. Cleanup' /\ \A fd \in Fds : Cleaned(fd) => Cleaned(fd)'
  BY <1>1, CleanupSame DEF Inv
<1>3. Accounted' /\ Working'
  BY <1>1, <1>a, AccountedSame DEF Inv, Working, HasItem
<1>4. ASSUME NEW fd \in Fds PROVE Laid(fd)' /\ Fresh(fd)' /\ Client(fd)'
  BY <1>1, <1>2, <1>a, ClientFrame
<1> QED
  BY <1>2, <1>3, <1>4, <1>a DEF Inv

LEMMA NextInv == Inv /\ [Next]_vars => Inv'
<1> SUFFICES ASSUME Inv, [Next]_vars PROVE Inv'
  OBVIOUS
<1>1. ASSUME NEW fd \in Fds, NEW f \in Frames[fd], Send(fd, f) PROVE Inv'
  BY <1>1, SendStep
<1>2. ASSUME NEW fd \in Fds, NEW n \in 1 .. ReadSize,
             ReadPlain(fd, n) \/ ReadEncoded(fd, n)
      PROVE  Inv'
  BY <1>2, ReadPlainStep, ReadEncodedStep
<1>3. ASSUME NEW fd \in Fds, Open(fd) PROVE Inv'
  BY <1>3, OpenStep
<1>4. ASSUME NEW fd \in Fds, HangUp(fd) \/ WriterClean(fd) PROVE Inv'
  BY <1>4, StartStep
<1>5. ASSUME NEW c \in Cleaners, clean_by_fd(c) PROVE Inv'
  BY <1>5, RemoveStep, FreeStep, StoreStep DEF clean_by_fd
<1>6. ASSUME MainStep PROVE Inv'
  <2>1. CASE clean_by_fd("main")
    BY <1>5, <2>1 DEF Cleaners
  <2> QED
    BY <1>6, <2>1, RefuseStep, BreakStep, DecodeStep, DecodeEmptyStep,
       LeaveLoopStep, ApplyStep DEF MainStep
<1>7. ASSUME clean_by_fd("writer") PROVE Inv'
  BY <1>5, <1>7 DEF Cleaners
<1>8. ASSUME UNCHANGED vars PROVE Inv'
  BY <1>8, StutterInv
<1> QED
  BY <1>1, <1>2, <1>3, <1>4, <1>6, <1>7, <1>8 DEF Next

(* The inductive invariant holds in every state of every behaviour. *)
THEOREM InvHolds == Spec => []Inv
BY InitInv, NextInv, PTL DEF Spec

LEMMA ImpliesTypeOK == Inv => TypeOK
<1> SUFFICES ASSUME Inv PROVE TypeOK
  OBVIOUS
<1>1. TypeInv
  BY DEF Inv
<1>2. ASSUME NEW fd \in Fds, NEW k \in DOMAIN stream[fd]
      PROVE  stream[fd][k] \in Frame
  BY <1>1, StreamFields
<1>3. /\ main.at \in {"idle", "filter", "return", "lost"}
      /\ main.at = "return" => main.status \in Statuses
  BY <1>1, MainFields DEF TypeInv
<1>4. \A c \in Cleaners : clean[c].at \in {"none", "remove", "free", "store"}
  BY <1>1, CleaningFields
<1> QED
  BY <1>1, <1>2, <1>3, <1>4 DEF TypeInv, TypeOK, Frame

LEMMA ImpliesDecodedInOrder == Inv => DecodedInOrder
<1> SUFFICES ASSUME Inv, NEW fd \in Whole
             PROVE  LET k == Len(Decoded(fd))
                        start == IF k = 0 THEN 0 ELSE End(stream[fd][k])
                    IN  /\ Decoded(fd) = [j \in 1 .. k |-> j]
                        /\ \A j \in 1 .. k : stream[fd][j].op = "text"
                        /\ HasItem(fd) =>
                             /\ ws_buffer[fd].start = start
                             /\ taken[fd] = start + ws_buffer[fd].received_len
  BY DEF DecodedInOrder
<1>1. Placed(fd, Len(Decoded(fd)))
  BY DEF Inv, Client, Whole
<1> QED
  BY <1>1 DEF Placed, From

LEMMA ImpliesNothingCompleteWaits == Inv => NothingCompleteWaits
<1> SUFFICES ASSUME Inv, NEW fd \in Whole, main = Idle,
                    NEW k \in DOMAIN stream[fd],
                    stream[fd][k].op = "text", k > Len(delivered[fd]),
                    End(stream[fd][k]) <= taken[fd]
             PROVE  \/ taken[fd] - stream[fd][Len(delivered[fd]) + 1].at <= MinFrame
                    \/ \E j \in Len(delivered[fd]) + 1 .. k - 1 :
                          stream[fd][j].op = "other"
  BY DEF NothingCompleteWaits
<1>1. fd \in Fds /\ TypeInv /\ Laid(fd) /\ Client(fd)
  BY DEF Inv, Whole
<1>2. PICK d : d = Len(delivered[fd])
  OBVIOUS
<1>3. d \in Nat
  BY <1>1, <1>2 DEF TypeInv
<1>4. Done(fd, d)
  <2>1. Decoded(fd) = delivered[fd] /\ ~Inside(fd) /\ ~Dropping(fd)
    BY DEF Decoded, Inside, Dropping, Idle
  <2> QED
    BY <1>1, <1>2, <2>1 DEF Client, Settled
<1>5. /\ k \in 1 .. Len(stream[fd]) /\ Len(stream[fd]) \in Nat /\ k \in Nat
      /\ taken[fd] \in Nat
  <2>1. k \in 1 .. Len(stream[fd]) /\ Len(stream[fd]) \in Nat
    BY <1>1, StreamFields
  <2> QED
    BY <1>1, <2>1 DEF TypeInv
<1>6. k > d
  BY <1>2
<1>7. d + 1 \in 1 .. Len(stream[fd]) /\ d # Len(stream[fd])
  BY <1>3, <1>5, <1>6
<1>8. CASE taken[fd] - stream[fd][d + 1].at <= MinFrame
  BY <1>2, <1>8
<1>9. CASE stream[fd][d + 1].op = "other"
  <2>1. k # d + 1
    BY <1>9
  <2>2. d + 1 \in d + 1 .. k - 1
    BY ONLY <1>3, <1>5, <1>6, <2>1
  <2> QED
    BY <1>2, <1>9, <2>2
<1>10. CASE End(stream[fd][d + 1]) > taken[fd]
  <2>1. /\ End(stream[fd][d + 1]) \in Nat /\ End(stream[fd][k]) \in Nat
        /\ stream[fd][k].at \in Nat /\ End(stream[fd][k]) > stream[fd][k].at
    BY <1>1, <1>5, <1>7, StreamFields
  <2>2. k = d + 1 \/ d + 1 < k
    BY <1>3, <1>5, <1>6
  <2>3. d + 1 < k => End(stream[fd][d + 1]) <= stream[fd][k].at
    BY <1>1, <1>5, <1>7 DEF Laid
  <2>4. CASE k = d + 1
    BY <1>5, <1>10, <2>1, <2>4
  <2>5. CASE d + 1 < k
    <3>1. PICK a, b, c, e : /\ a = End(stream[fd][d + 1]) /\ b = stream[fd][k].at
                            /\ c = End(stream[fd][k]) /\ e = taken[fd]
      OBVIOUS
    <3>2. /\ a \in Nat /\ b \in Nat /\ c \in Nat /\ e \in Nat
          /\ a <= b /\ c > b /\ c <= e /\ a > e
      BY <1>5, <1>10, <2>1, <2>3, <2>5, <3>1
    <3> QED
      BY ONLY <3>2
  <2> QED
    BY <2>2, <2>4, <2>5
<1> QED
  BY <1>4, <1>7, <1>8, <1>9, <1>10 DEF Done

LEMMA ImpliesLimitIsAllowed == Inv => LimitIsAllowed
<1> SUFFICES ASSUME Inv, NEW fd \in Whole, main.at = "return", main.fd = fd,
                    \A k \in DOMAIN stream[fd] : Allowed(stream[fd][k])
             PROVE  main.status \notin {"CLIENT_DISCONNECT", "UNHANDLED",
                                        "TOO_LARGE_DATAFRAME"}
  BY DEF LimitIsAllowed, Allowed
<1>1. fd \in Fds /\ TypeInv /\ Blamed(fd)
  BY DEF Inv, Client, Whole
<1>2. DOMAIN stream[fd] = 1 .. Len(stream[fd])
  BY <1>1, StreamFields
<1> QED
  BY <1>1, <1>2 DEF Blamed

(* The types of the clients' table, the buffer and the main thread. *)
THEOREM TypeOKHolds == Spec => []TypeOK
BY InvHolds, ImpliesTypeOK, PTL

(* Whatever the lengths of the frames, the limits and the sizes of the     *)
(* chunks recv returns: each frame of a client whose bytes all went        *)
(* through the filter and whose lengths have their shortest form is        *)
(* decoded once and in order, and its buffer begins where the next frame   *)
(* does.                                                                   *)
THEOREM DecodedInOrderHolds == Spec => []DecodedInOrder
BY InvHolds, ImpliesDecodedInOrder, PTL

(* The buffers of all clients together hold at most allocated_size bytes,  *)
(* and that is at most WS_MAX_BUFFER_SIZE, although the main thread        *)
(* updates it without the lock; it is exact until two updates meet.        *)
THEOREM AccountedHolds == Spec => []Accounted
<1>1. Inv => Accounted
  BY DEF Inv
<1> QED
  BY <1>1, InvHolds, PTL

(* When the main thread returns to epoll no complete text frame waits,     *)
(* except in the last bytes or behind an opcode that is not handled.       *)
THEOREM NothingCompleteWaitsHolds == Spec => []NothingCompleteWaits
BY InvHolds, ImpliesNothingCompleteWaits, PTL

(* No client is refused for a text frame within the limit. *)
THEOREM LimitIsAllowedHolds == Spec => []LimitIsAllowed
BY InvHolds, ImpliesLimitIsAllowed, PTL

=============================================================================
