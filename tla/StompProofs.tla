---------------------------- MODULE StompProofs ----------------------------
(***************************************************************************)
(* The types of the exchange, the ownership of subscriptions and the end   *)
(* of sessions, the order of what subscribers get and the refinement of    *)
(* Exchange, for any set of descriptors, frames, writers and limits.       *)
(***************************************************************************)
EXTENDS Stomp, DataProofs, SequenceTheorems

InputType == FrameMessage \cup PurgeCommand

(* The lists are as the queue operations build them. *)
Lists ==
    WellFormed(topics) /\ WellFormed(stale_queue) /\ WellFormed(output_queue)

TypeInv == TypeOK /\ Lists

USE StompAssumption

-----------------------------------------------------------------------------
LEMMA SingletonIsSeq ==
    ASSUME NEW S, NEW x \in S
    PROVE  <<x>> \in Seq(S)
OBVIOUS

LEMMA OutputIsTyped ==
    ASSUME NEW kind \in Kinds, NEW session \in Session,
           NEW frame \in Frames \cup {None}, NEW n \in Nat,
           NEW sub \in SubscriptionType \cup {None}
    PROVE  Output(kind, session, frame, n, sub) \in OutputType
BY DEF Output, OutputType

(* What ts_dequeue hands to the reader, and what it leaves. *)
LEMMA DequeueType ==
    ASSUME TypeOK, NEW m, Dequeue(m)
    PROVE  /\ m \in InputType /\ input_queue' \in Seq(InputType)
           /\ m.session \in Session /\ m.session.fd \in Fds
           /\ ~m.purge => /\ m \in FrameMessage /\ m.frame \in Frames
                          /\ m.frame \in FrameType /\ m.ticket \in Nat
<1>1. input_queue \in Seq(InputType) /\ input_queue # <<>>
      /\ m = Head(input_queue) /\ input_queue' = Tail(input_queue)
  BY DEF Dequeue, TypeOK, InputType
<1>2. m \in InputType /\ input_queue' \in Seq(InputType)
  BY <1>1
<1>3. m.session \in Session
  BY <1>2 DEF InputType, FrameMessage, PurgeCommand
<1>4. m.session.fd \in Fds
  BY <1>3 DEF Session
<1>5. ASSUME ~m.purge
      PROVE  /\ m \in FrameMessage /\ m.frame \in Frames
             /\ m.frame \in FrameType /\ m.ticket \in Nat
  <2>1. m \in FrameMessage
    BY <1>2, <1>5 DEF InputType, PurgeCommand
  <2>2. m.frame \in Frames /\ m.ticket \in Nat
    BY <2>1 DEF FrameMessage
  <2> QED
    BY <2>1, <2>2, StompAssumption
<1> QED
  BY <1>2, <1>3, <1>4, <1>5

(* A step of the reader is typed when what it does to its own state is. *)
LEMMA ReaderStep ==
    ASSUME TypeInv, NEW m, Dequeue(m),
           session_connected' \in [Fds -> BOOLEAN],
           topics' \in List(SubscriptionType), WellFormed(topics)',
           stale_queue' \in List(FrameMessage), WellFormed(stale_queue)',
           next_counter' \in 0 .. UintSize - 1,
           output_queue' \in List(OutputType), WellFormed(output_queue)'
    PROVE  TypeInv'
<1>1. TypeOK
  BY DEF TypeInv
<1>2. input_queue' \in Seq(FrameMessage \cup PurgeCommand)
  BY <1>1, DequeueType DEF InputType
<1>3. /\ clients' \in [Fds -> {"empty", "plain", "encoded"}]
      /\ writer' \in [Writers -> BusyWriter \cup {IdleWriter}]
      /\ ticket' \in Nat /\ leaked' \subseteq Fds
  BY <1>1 DEF Dequeue, TypeOK
<1>4. TypeOK'
  BY <1>2, <1>3 DEF TypeOK
<1> QED
  BY <1>4 DEF TypeInv, Lists

(* What the reader leaves alone stays typed. *)
LEMMA ReaderKeeps ==
    ASSUME TypeInv
    PROVE  /\ UNCHANGED session_connected
                  => session_connected' \in [Fds -> BOOLEAN]
           /\ UNCHANGED topics => topics' \in List(SubscriptionType)
                                  /\ WellFormed(topics)'
           /\ UNCHANGED stale_queue => stale_queue' \in List(FrameMessage)
                                       /\ WellFormed(stale_queue)'
           /\ UNCHANGED next_counter => next_counter' \in 0 .. UintSize - 1
           /\ UNCHANGED output_queue => output_queue' \in List(OutputType)
                                        /\ WellFormed(output_queue)'
<1>1. TypeOK /\ WellFormed(topics) /\ WellFormed(stale_queue)
      /\ WellFormed(output_queue)
  BY DEF TypeInv, Lists
<1>2. UNCHANGED topics => topics' \in List(SubscriptionType)
                          /\ WellFormed(topics)'
  BY <1>1 DEF TypeOK, WellFormed, UniquePlaces
<1>3. UNCHANGED stale_queue => stale_queue' \in List(FrameMessage)
                               /\ WellFormed(stale_queue)'
  BY <1>1 DEF TypeOK, WellFormed, UniquePlaces
<1>4. UNCHANGED output_queue => output_queue' \in List(OutputType)
                                /\ WellFormed(output_queue)'
  BY <1>1 DEF TypeOK, WellFormed, UniquePlaces
<1> QED
  BY <1>1, <1>2, <1>3, <1>4 DEF TypeOK

(* An answer to the client, and a receipt, keep the output queue typed. *)
LEMMA RespondType ==
    ASSUME TypeInv, NEW m, m.session \in Session, NEW kind \in Kinds,
           Respond(m, kind)
    PROVE  output_queue' \in List(OutputType) /\ WellFormed(output_queue)'
<1>1. Output(kind, m.session, None, 0, None) \in OutputType
  BY OutputIsTyped
<1>2. output_queue \in List(OutputType) /\ WellFormed(output_queue)
  BY DEF TypeInv, TypeOK, Lists
<1>3. output_queue'
        = Enqueue(output_queue, Output(kind, m.session, None, 0, None))
  BY DEF Respond
<1> QED
  BY <1>1, <1>2, <1>3, EnqueueWellFormed

LEMMA ReceiptType ==
    ASSUME NEW m \in FrameMessage, NEW queue \in List(OutputType),
           WellFormed(queue), Receipt(m, queue)
    PROVE  output_queue' \in List(OutputType) /\ WellFormed(output_queue)'
<1> DEFINE out == Output("RECEIPT", m.session, m.frame, m.ticket, None)
<1>1. out \in OutputType
  BY OutputIsTyped DEF FrameMessage, Kinds
<1>2. output_queue' = queue \/ output_queue' = Enqueue(queue, out)
  BY DEF Receipt
<1> HIDE DEF out
<1>3. Enqueue(queue, out) \in List(OutputType) /\ WellFormed(Enqueue(queue, out))
  BY <1>1, EnqueueWellFormed
<1> QED
  BY <1>2, <1>3 DEF WellFormed, UniquePlaces

-----------------------------------------------------------------------------
(* The steps of the reader. *)

LEMMA PurgeTyped ==
    ASSUME TypeInv, NEW m, Purge(m)
    PROVE  TypeInv'
<1>1. Dequeue(m) /\ TypeOK
  BY DEF Purge, TypeInv
<1>2. m.session.fd \in Fds
  BY <1>1, DequeueType
<1>3. session_connected' \in [Fds -> BOOLEAN]
  BY <1>1, <1>2 DEF Purge, TypeOK
<1>4. topics' \in List(SubscriptionType) /\ WellFormed(topics)'
  <2>1. topics \in List(SubscriptionType) /\ WellFormed(topics)
    BY DEF TypeInv, TypeOK, Lists
  <2> QED
    BY <2>1, UnchainWellFormed DEF Purge, pubsub_remove_client
<1>5. UNCHANGED <<stale_queue, next_counter, output_queue>>
  BY DEF Purge
<1> QED
  BY <1>1, <1>3, <1>4, <1>5, ReaderKeeps, ReaderStep

LEMMA AnswerTyped ==
    ASSUME TypeInv, NEW m, Handshake(m) \/ Reject(m) \/ Diagnostic(m)
    PROVE  TypeInv'
<1>1. Dequeue(m) /\ TypeOK /\ UNCHANGED readerState
  BY DEF Handshake, Reject, Diagnostic, TypeInv
<1>2. m.session \in Session
  BY <1>1, DequeueType
<1>3. \/ UNCHANGED output_queue
      \/ \E kind \in Kinds : Respond(m, kind)
  BY DEF Handshake, Reject, Diagnostic, Kinds
<1>4. output_queue' \in List(OutputType) /\ WellFormed(output_queue)'
  BY <1>2, <1>3, RespondType, ReaderKeeps
<1> QED
  BY <1>1, <1>4, ReaderKeeps, ReaderStep DEF readerState

LEMMA ConnectTyped ==
    ASSUME TypeInv, NEW m, Connect(m)
    PROVE  TypeInv'
<1>1. Dequeue(m) /\ TypeOK /\ Respond(m, "CONNECTED")
      /\ UNCHANGED <<topics, stale_queue, next_counter>>
  BY DEF Connect, TypeInv
<1>2. m.session \in Session /\ m.session.fd \in Fds
  BY <1>1, DequeueType
<1>3. session_connected' \in [Fds -> BOOLEAN]
  BY <1>1, <1>2 DEF Connect, TypeOK
<1>4. output_queue' \in List(OutputType) /\ WellFormed(output_queue)'
  BY <1>1, <1>2, RespondType DEF Kinds
<1> QED
  BY <1>1, <1>3, <1>4, ReaderKeeps, ReaderStep

LEMMA DisconnectTyped ==
    ASSUME TypeInv, NEW m, Disconnect(m)
    PROVE  TypeInv'
<1>1. Dequeue(m) /\ TypeOK /\ ~m.purge /\ Receipt(m, output_queue)
      /\ UNCHANGED <<stale_queue, next_counter>>
  BY DEF Disconnect, IsFrame, TypeInv
<1>2. m.session.fd \in Fds /\ m \in FrameMessage
  BY <1>1, DequeueType
<1>3. session_connected' \in [Fds -> BOOLEAN]
  BY <1>1, <1>2 DEF Disconnect, TypeOK
<1>4. topics' \in List(SubscriptionType) /\ WellFormed(topics)'
  <2>1. topics \in List(SubscriptionType) /\ WellFormed(topics)
    BY DEF TypeInv, TypeOK, Lists
  <2> QED
    BY <2>1, UnchainWellFormed DEF Disconnect, pubsub_remove_client
<1>5. output_queue' \in List(OutputType) /\ WellFormed(output_queue)'
  <2>1. output_queue \in List(OutputType) /\ WellFormed(output_queue)
    BY DEF TypeInv, TypeOK, Lists
  <2> QED
    BY <1>1, <1>2, <2>1, ReceiptType
<1> QED
  BY <1>1, <1>3, <1>4, <1>5, ReaderKeeps, ReaderStep

LEMMA UnsubscribeTyped ==
    ASSUME TypeInv, NEW m, Unsubscribe(m)
    PROVE  TypeInv'
<1>1. Dequeue(m) /\ TypeOK /\ ~m.purge /\ Receipt(m, output_queue)
      /\ UNCHANGED <<session_connected, stale_queue, next_counter>>
  BY DEF Unsubscribe, IsFrame, TypeInv
<1>2. m \in FrameMessage
  BY <1>1, DequeueType
<1>3. topics' \in List(SubscriptionType) /\ WellFormed(topics)'
  <2>1. topics \in List(SubscriptionType) /\ WellFormed(topics)
    BY DEF TypeInv, TypeOK, Lists
  <2> QED
    BY <2>1, UnchainWellFormed DEF Unsubscribe, pubsub_unsubscribe
<1>4. output_queue' \in List(OutputType) /\ WellFormed(output_queue)'
  <2>1. output_queue \in List(OutputType) /\ WellFormed(output_queue)
    BY DEF TypeInv, TypeOK, Lists
  <2> QED
    BY <1>1, <1>2, <2>1, ReceiptType
<1> QED
  BY <1>1, <1>3, <1>4, ReaderKeeps, ReaderStep

(* A subscription that passes the checks of stomp_process has a            *)
(* destination and an id.                                                  *)
LEMMA SubscriptionIsTyped ==
    ASSUME NEW m \in FrameMessage, IsFrame(m, "SUBSCRIBE"), ~IsRejected(m)
    PROVE  Subscription(m.session, m.frame.topic, m.frame.id, m.ticket)
               \in SubscriptionType
<1>1. m.session \in Session /\ m.frame \in FrameType /\ m.ticket \in Nat
  BY StompAssumption DEF FrameMessage
<1>2. m.frame.topic \in Destinations \cup {None} /\ m.frame.id \in Ids \cup {None}
  BY <1>1 DEF FrameType
<1>3. m.frame.topic # None /\ m.frame.id # None
  BY DEF IsRejected
<1> QED
  BY <1>1, <1>2, <1>3 DEF Subscription, SubscriptionType

(* Copies of a message, each for one of the items in S, behind what is in  *)
(* the output queue.                                                       *)
LEMMA CopiesTyped ==
    ASSUME TypeInv, NEW S, IsFiniteSet(S), UniquePlaces(S),
           \A x \in S : x.pos \in Nat, NEW out,
           out \in [S -> OutputType]
    PROVE  LET copies == {[pos |-> x.pos, data |-> out[x]] : x \in S}
           IN  /\ EnqueueMultiple(output_queue, copies) \in List(OutputType)
               /\ WellFormed(EnqueueMultiple(output_queue, copies))
<1>1. PICK f : f = [x \in S |-> [pos |-> x.pos, data |-> out[x]]]
  OBVIOUS
<1> DEFINE copies == {f[x] : x \in S}
<1>2. copies = {[pos |-> x.pos, data |-> out[x]] : x \in S}
  BY <1>1
<1>3. f = [x \in S |-> f[x]] /\ \A x \in S : f[x].pos = x.pos
  BY <1>1
<1>4. \A x \in S : f[x] \in Item(OutputType)
  BY <1>1 DEF Item
<1>5. IsFiniteSet(copies) /\ UniquePlaces(copies)
  <2>1. f = [x \in S |-> f[x]]
    BY <1>3
  <2>2. IsFiniteSet(copies)
    BY <2>1, FiniteImage
  <2>3. UniquePlaces(copies)
    BY <1>3 DEF UniquePlaces
  <2> QED
    BY <2>2, <2>3
<1>6. copies \in SUBSET Item(OutputType)
  BY <1>4
<1>7. output_queue \in List(OutputType) /\ WellFormed(output_queue)
  BY DEF TypeInv, TypeOK, Lists
<1> HIDE DEF copies
<1>8. /\ EnqueueMultiple(output_queue, copies) \in List(OutputType)
      /\ WellFormed(EnqueueMultiple(output_queue, copies))
  BY <1>5, <1>6, <1>7, EnqueueMultipleWellFormed
<1> QED
  BY <1>2, <1>8

LEMMA SubscribeTyped ==
    ASSUME TypeInv, NEW m, Subscribe(m)
    PROVE  TypeInv'
<1>1. Dequeue(m) /\ TypeOK /\ ~m.purge /\ IsFrame(m, "SUBSCRIBE")
      /\ ~IsRejected(m) /\ UNCHANGED <<session_connected, next_counter>>
  BY DEF Subscribe, IsFrame, TypeInv
<1>2. m \in FrameMessage /\ m.session \in Session
  BY <1>1, DequeueType
<1> DEFINE sub == Subscription(m.session, m.frame.topic, m.frame.id, m.ticket)
<1>3. PICK expired :
        LET copies == {[pos |-> s.pos,
                        data |-> Output("MESSAGE", m.session, None,
                                       s.data.ticket, sub)] :
                          s \in FromStale(sub, expired)}
        IN  /\ topics' = pubsub_subscribe(topics, sub)
            /\ stale_queue' = Unchain(stale_queue, stale_queue.items
                                 \ (expired \cup FromStale(sub, expired)))
            /\ Receipt(m, EnqueueMultiple(output_queue, copies))
  BY DEF Subscribe
<1>4. sub \in SubscriptionType
  BY <1>1, <1>2, SubscriptionIsTyped
<1> HIDE DEF sub
<1>5. topics' \in List(SubscriptionType) /\ WellFormed(topics)'
  <2>1. topics \in List(SubscriptionType) /\ WellFormed(topics)
    BY DEF TypeInv, TypeOK, Lists
  <2>2. topics' = Enqueue(topics, sub)
    BY <1>3 DEF pubsub_subscribe
  <2> QED
    BY <1>4, <2>1, <2>2, EnqueueWellFormed
<1>6. /\ stale_queue \in List(FrameMessage) /\ WellFormed(stale_queue)
      /\ stale_queue.items \in SUBSET Item(FrameMessage)
  BY DEF TypeInv, TypeOK, Lists, List
<1>7. stale_queue' \in List(FrameMessage) /\ WellFormed(stale_queue)'
  <2> DEFINE kept == stale_queue.items \ (expired \cup FromStale(sub, expired))
  <2>1. stale_queue' = Unchain(stale_queue, kept)
    BY <1>3
  <2>2. kept \in SUBSET stale_queue.items
    OBVIOUS
  <2> HIDE DEF kept
  <2> QED
    BY <1>6, <2>1, <2>2, UnchainWellFormed
<1>8. output_queue' \in List(OutputType) /\ WellFormed(output_queue)'
  <2> DEFINE S == FromStale(sub, expired)
             out == [s \in S |-> Output("MESSAGE", m.session, None,
                                        s.data.ticket, sub)]
             copies == {[pos |-> s.pos, data |-> out[s]] : s \in S}
  <2>1. Receipt(m, EnqueueMultiple(output_queue, copies))
    BY <1>3
  <2>2. S \in SUBSET stale_queue.items
    BY DEF FromStale
  <2>3. IsFiniteSet(S) /\ UniquePlaces(S)
    BY <1>6, <2>2, FS_Subset DEF WellFormed, UniquePlaces
  <2> HIDE DEF S
  <2>4. \A s \in S : s.pos \in Nat /\ s.data.ticket \in Nat
    BY <1>6, <2>2 DEF Item, FrameMessage
  <2>5. \A s \in S : Output("MESSAGE", m.session, None, s.data.ticket, sub)
                         \in OutputType
    BY <1>2, <1>4, <2>4, OutputIsTyped DEF Kinds
  <2>6. out \in [S -> OutputType]
    BY <2>5
  <2> HIDE DEF out
  <2>7. /\ EnqueueMultiple(output_queue, copies) \in List(OutputType)
        /\ WellFormed(EnqueueMultiple(output_queue, copies))
    BY <2>3, <2>4, <2>6, CopiesTyped
  <2> QED
    BY <1>2, <2>1, <2>7, ReceiptType
<1> QED
  BY <1>1, <1>5, <1>7, <1>8, ReaderKeeps, ReaderStep

LEMMA SendTyped ==
    ASSUME TypeInv, NEW m, Send(m)
    PROVE  TypeInv'
<1>1. Dequeue(m) /\ TypeOK /\ ~m.purge /\ Distribute(m)
      /\ UNCHANGED <<session_connected, topics>>
  BY DEF Send, IsFrame, TypeInv
<1>2. m \in FrameMessage /\ m.ticket \in Nat
  BY <1>1, DequeueType
<1> DEFINE matching == pubsub_find_matching(topics, m.frame.topic)
           worker == matching # {} /\ IsWorkerTopic(m.frame.topic)
           chosen == IF worker THEN pick_next(matching, next_counter)
                     ELSE matching
           out == [s \in chosen |-> Output("MESSAGE", s.data.session, None,
                                           m.ticket, s.data)]
           copies == {[pos |-> s.pos, data |-> out[s]] : s \in chosen}
<1>3. /\ next_counter' = IF worker THEN (next_counter + 1) % UintSize
                         ELSE next_counter
      /\ stale_queue' = IF matching # {} /\ copies = {} /\ Ttl > 0
                        THEN EnqueueLimited(stale_queue, m, MaxStaleQueue)
                        ELSE stale_queue
      /\ Receipt(m, EnqueueMultiple(output_queue, copies))
  BY <1>1 DEF Distribute
<1>4. chosen \in SUBSET topics.items
  BY DEF pubsub_find_matching, pick_next
<1> HIDE DEF matching, chosen
<1>5. next_counter' \in 0 .. UintSize - 1
  BY <1>1, <1>3 DEF TypeOK
<1>6. stale_queue' \in List(FrameMessage) /\ WellFormed(stale_queue)'
  <2>1. stale_queue \in List(FrameMessage) /\ WellFormed(stale_queue)
    BY DEF TypeInv, TypeOK, Lists
  <2>2. \/ stale_queue' = stale_queue
        \/ stale_queue' = EnqueueLimited(stale_queue, m, MaxStaleQueue)
    BY <1>3
  <2> QED
    BY <1>2, <2>1, <2>2, EnqueueLimitedWellFormed, ReaderKeeps
<1>7. output_queue' \in List(OutputType) /\ WellFormed(output_queue)'
  <2>1. WellFormed(topics) /\ topics.items \in SUBSET Item(SubscriptionType)
    BY DEF TypeInv, TypeOK, Lists, List
  <2>2. IsFiniteSet(chosen) /\ UniquePlaces(chosen)
    BY <1>4, <2>1, FS_Subset DEF WellFormed, UniquePlaces
  <2>3. \A s \in chosen : /\ s.pos \in Nat /\ s.data \in SubscriptionType
                          /\ s.data.session \in Session
    BY <1>4, <2>1 DEF Item, SubscriptionType
  <2>4. \A s \in chosen : Output("MESSAGE", s.data.session, None, m.ticket,
                                 s.data) \in OutputType
    BY <1>2, <2>3, OutputIsTyped DEF Kinds
  <2>5. out \in [chosen -> OutputType]
    BY <2>4
  <2> HIDE DEF out
  <2>6. /\ EnqueueMultiple(output_queue, copies) \in List(OutputType)
        /\ WellFormed(EnqueueMultiple(output_queue, copies))
    BY <2>2, <2>3, <2>5, CopiesTyped
  <2> QED
    BY <1>2, <1>3, <2>6, ReceiptType
<1> QED
  BY <1>1, <1>5, <1>6, <1>7, ReaderKeeps, ReaderStep

LEMMA SendExpiredTyped ==
    ASSUME TypeInv, NEW m, SendExpired(m)
    PROVE  TypeInv'
<1>1. Dequeue(m) /\ TypeOK /\ ~m.purge /\ Receipt(m, output_queue)
      /\ UNCHANGED readerState
  BY DEF SendExpired, IsFrame, TypeInv
<1>2. m \in FrameMessage
  BY <1>1, DequeueType
<1>3. output_queue' \in List(OutputType) /\ WellFormed(output_queue)'
  <2>1. output_queue \in List(OutputType) /\ WellFormed(output_queue)
    BY DEF TypeInv, TypeOK, Lists
  <2> QED
    BY <1>1, <1>2, <2>1, ReceiptType
<1> QED
  BY <1>1, <1>3, ReaderKeeps, ReaderStep DEF readerState

-----------------------------------------------------------------------------
(* The steps of the main thread and of the writers. *)

(* A step that leaves the reader's state alone. *)
LEMMA OtherStep ==
    ASSUME TypeInv, UNCHANGED readerState,
           clients' \in [Fds -> {"empty", "plain", "encoded"}],
           input_queue' \in Seq(InputType),
           output_queue' \in List(OutputType), WellFormed(output_queue)',
           writer' \in [Writers -> BusyWriter \cup {IdleWriter}],
           ticket' \in Nat, leaked' \subseteq Fds
    PROVE  TypeInv'
<1>1. /\ session_connected' \in [Fds -> BOOLEAN]
      /\ topics' \in List(SubscriptionType) /\ WellFormed(topics)'
      /\ stale_queue' \in List(FrameMessage) /\ WellFormed(stale_queue)'
      /\ next_counter' \in 0 .. UintSize - 1
  BY ReaderKeeps DEF readerState
<1>2. TypeOK'
  BY <1>1 DEF TypeOK, InputType
<1> QED
  BY <1>1, <1>2 DEF TypeInv, Lists

LEMMA MessageTypes ==
    ASSUME NEW fd \in Fds, NEW enc \in BOOLEAN
    PROVE  /\ PurgeMessage(fd, enc) \in InputType
           /\ \A frame \in Frames, n \in Nat :
                  Message(fd, enc, frame, n) \in InputType
BY DEF PurgeMessage, Message, InputType, PurgeCommand, FrameMessage, Session

LEMMA MainTyped ==
    ASSUME TypeInv, Main
    PROVE  TypeInv'
<1>1. /\ clients \in [Fds -> {"empty", "plain", "encoded"}]
      /\ input_queue \in Seq(InputType)
      /\ writer \in [Writers -> BusyWriter \cup {IdleWriter}]
      /\ ticket \in Nat /\ leaked \subseteq Fds
  BY DEF TypeInv, TypeOK, InputType
<1>2. ASSUME NEW fd \in Fds, NEW enc \in BOOLEAN, NEW frame \in Frames,
             ReadFrame(fd, enc, frame)
      PROVE  TypeInv'
  <2> USE <1>2 DEF ReadFrame
  <2>1. clients' \in [Fds -> {"empty", "plain", "encoded"}]
    BY <1>1 DEF ChannelState
  <2>2. input_queue' \in Seq(InputType) /\ ticket' \in Nat
    <3>1. Message(fd, enc, frame, ticket + 1) \in InputType
      BY <1>1, MessageTypes
    <3> QED
      BY <1>1, <3>1, SMTT(30)
  <2>3. UNCHANGED <<readerState, output_queue, writer, leaked>>
    OBVIOUS
  <2> HIDE <1>2 DEF ReadFrame
  <2> QED
    BY <1>1, <2>1, <2>2, <2>3, ReaderKeeps, OtherStep
<1>3. ASSUME NEW fd \in Fds, ReadIncomplete(fd)
      PROVE  TypeInv'
  <2>1. /\ clients' \in [Fds -> {"empty", "plain", "encoded"}]
        /\ UNCHANGED <<input_queue, readerState, output_queue, writer,
                       ticket, leaked>>
    BY <1>1, <1>3 DEF ReadIncomplete
  <2> QED
    BY <1>1, <2>1, ReaderKeeps, OtherStep
<1>4. ASSUME NEW fd \in Fds, CloseConnection(fd)
      PROVE  TypeInv'
  <2> USE <1>4 DEF CloseConnection
  <2>1. /\ clients' \in [Fds -> {"empty", "plain", "encoded"}]
        /\ leaked' \subseteq Fds
    BY <1>1
  <2>2. input_queue' \in Seq(InputType)
    <3>1. PurgeMessage(fd, clients[fd] = "encoded") \in InputType
      BY MessageTypes
    <3> QED
      BY <1>1, <3>1
  <2>3. UNCHANGED <<readerState, output_queue, writer, ticket>>
    OBVIOUS
  <2> HIDE <1>4 DEF CloseConnection
  <2> QED
    BY <1>1, <2>1, <2>2, <2>3, ReaderKeeps, OtherStep
<1> QED
  BY <1>2, <1>3, <1>4 DEF Main

LEMMA WriterTyped ==
    ASSUME TypeInv, NEW w \in Writers, Writer(w)
    PROVE  TypeInv'
<1>1. /\ clients \in [Fds -> {"empty", "plain", "encoded"}]
      /\ input_queue \in Seq(InputType)
      /\ writer \in [Writers -> BusyWriter \cup {IdleWriter}]
      /\ ticket \in Nat /\ leaked \subseteq Fds
      /\ output_queue \in List(OutputType) /\ WellFormed(output_queue)
  BY DEF TypeInv, TypeOK, Lists, InputType
<1>2. ASSUME NEW n \in 1 .. MaxBatch, WriterTake(w, n)
      PROVE  TypeInv'
  <2>1. PICK first \in output_queue.items :
          /\ output_queue' = Unchain(output_queue,
                                output_queue.items \ Batch(first, n))
          /\ writer' = IF clients[first.data.session.fd] = "empty" THEN writer
                       ELSE [writer EXCEPT ![w] =
                               [stage |-> "sending",
                                fd |-> first.data.session.fd]]
    BY <1>2 DEF WriterTake
  <2>2. UNCHANGED <<clients, input_queue, readerState, ticket, leaked>>
    BY <1>2 DEF WriterTake
  <2>3. output_queue' \in List(OutputType) /\ WellFormed(output_queue)'
    BY <1>1, <2>1, UnchainWellFormed
  <2>4. first.data.session.fd \in Fds
    BY <1>1 DEF List, Item, OutputType, Session
  <2>5. writer' \in [Writers -> BusyWriter \cup {IdleWriter}]
    BY <1>1, <2>1, <2>4 DEF BusyWriter
  <2> QED
    BY <1>1, <2>2, <2>3, <2>5, OtherStep
<1>3. ASSUME WriterSent(w)
      PROVE  TypeInv'
  <2>1. writer' \in [Writers -> BusyWriter \cup {IdleWriter}]
    BY <1>1, <1>3 DEF WriterSent
  <2>2. UNCHANGED <<clients, input_queue, readerState, output_queue, ticket,
                    leaked>>
    BY <1>3 DEF WriterSent
  <2> QED
    BY <1>1, <2>1, <2>2, ReaderKeeps, OtherStep
<1>4. ASSUME writer[w].stage # "idle"
      PROVE  writer[w] \in BusyWriter /\ writer[w].fd \in Fds
  <2>1. writer[w] \in BusyWriter
    BY <1>1, <1>4 DEF IdleWriter
  <2> QED
    BY <2>1 DEF BusyWriter
<1>5. ASSUME WriterFail(w)
      PROVE  TypeInv'
  <2>1. writer[w] \in BusyWriter /\ writer[w].fd \in Fds
    BY <1>4, <1>5 DEF WriterFail
  <2>2. writer' \in [Writers -> BusyWriter \cup {IdleWriter}]
    BY <1>1, <1>5, <2>1 DEF WriterFail, BusyWriter
  <2>3. input_queue' \in Seq(InputType)
    <3>1. PurgeMessage(writer[w].fd, FALSE) \in InputType
      BY <2>1, MessageTypes
    <3>2. <<PurgeMessage(writer[w].fd, FALSE)>> \in Seq(InputType)
      BY <3>1, SingletonIsSeq
    <3> QED
      BY <1>1, <1>5, <3>2, ConcatProperties DEF WriterFail
  <2>4. UNCHANGED <<clients, readerState, output_queue, ticket, leaked>>
    BY <1>5 DEF WriterFail
  <2> QED
    BY <1>1, <2>2, <2>3, <2>4, ReaderKeeps, OtherStep
<1>6. ASSUME WriterClean(w)
      PROVE  TypeInv'
  <2>1. writer[w].fd \in Fds
    BY <1>4, <1>6 DEF WriterClean
  <2>2. /\ clients' \in [Fds -> {"empty", "plain", "encoded"}]
        /\ leaked' \subseteq Fds
        /\ writer' \in [Writers -> BusyWriter \cup {IdleWriter}]
    BY <1>1, <1>6, <2>1 DEF WriterClean
  <2>3. UNCHANGED <<input_queue, readerState, output_queue, ticket>>
    BY <1>6 DEF WriterClean
  <2> QED
    BY <1>1, <2>2, <2>3, ReaderKeeps, OtherStep
<1> QED
  BY <1>2, <1>3, <1>5, <1>6 DEF Writer

-----------------------------------------------------------------------------
LEMMA InitTyped == Init => TypeInv
<1> SUFFICES ASSUME Init PROVE TypeInv
  OBVIOUS
<1> USE DEF Init
<1>1. Lists /\ topics \in List(SubscriptionType)
      /\ stale_queue \in List(FrameMessage) /\ output_queue \in List(OutputType)
  BY EmptyListWellFormed DEF Lists
<1>2. clients \in [Fds -> {"empty", "plain", "encoded"}]
      /\ session_connected \in [Fds -> BOOLEAN]
      /\ writer \in [Writers -> BusyWriter \cup {IdleWriter}]
  OBVIOUS
<1>3. input_queue \in Seq(FrameMessage \cup PurgeCommand)
  BY EmptySeq
<1>4. next_counter \in 0 .. UintSize - 1 /\ ticket \in Nat /\ leaked \subseteq Fds
  OBVIOUS
<1> QED
  BY <1>1, <1>2, <1>3, <1>4 DEF TypeInv, TypeOK

LEMMA NextTyped == TypeInv /\ [Next]_vars => TypeInv'
<1> SUFFICES ASSUME TypeInv, [Next]_vars PROVE TypeInv'
  OBVIOUS
<1>1. CASE UNCHANGED vars
  <2>1. TypeOK
    BY DEF TypeInv
  <2>2. /\ clients' \in [Fds -> {"empty", "plain", "encoded"}]
        /\ input_queue' \in Seq(InputType)
        /\ writer' \in [Writers -> BusyWriter \cup {IdleWriter}]
        /\ ticket' \in Nat /\ leaked' \subseteq Fds
    BY <1>1, <2>1 DEF vars, TypeOK, InputType
  <2> QED
    BY <1>1, <2>2, ReaderKeeps, OtherStep DEF vars
<1>2. CASE Reader
  <2>1. Handshake(Head(input_queue)) \/ stomp_process(Head(input_queue))
    BY <1>2 DEF Reader
  <2> QED
    BY <2>1, PurgeTyped, AnswerTyped, ConnectTyped, DisconnectTyped,
       SubscribeTyped, UnsubscribeTyped, SendTyped, SendExpiredTyped
    DEF stomp_process
<1> QED
  BY <1>1, <1>2, MainTyped, WriterTyped DEF Next

LEMMA TypeInvHolds == Spec => []TypeInv
BY InitTyped, NextTyped, PTL DEF Spec

(* Every step of the main thread, of the reader (stomp_process with all    *)
(* its branches) and of the writers keeps the types of the state; the      *)
(* round-robin counter stays below the size of an unsigned int.            *)
THEOREM TypeOKHolds == Spec => []TypeOK
<1>1. TypeInv => TypeOK
  BY DEF TypeInv
<1> QED
  BY <1>1, TypeInvHolds, PTL

-----------------------------------------------------------------------------
(* Ownership of subscriptions.  The session id of a client that sends no   *)
(* WebSocket frames never has the encoded flag, wherever it is kept, so    *)
(* pubsub_remove_client finds all its subscriptions.                       *)
PlainSession(session) == session.fd \notin Encodable => ~session.enc

PlainIds ==
    /\ \A fd \in Fds \ Encodable : clients[fd] # "encoded"
    /\ \A i \in 1 .. Len(input_queue) : PlainSession(input_queue[i].session)
    /\ \A s \in topics.items : PlainSession(s.data.session)

OwnedInv == PlainIds /\ PlainSubscriptionsOwned

(* What the branches of stomp_process do to subscriptions and sessions. *)
LEMMA ReaderEffect ==
    ASSUME TypeInv, Reader
    PROVE  \E m :
             /\ Dequeue(m)
             /\ \/ /\ topics'.items \subseteq {s \in topics.items :
                                               s.data.session # m.session}
                   /\ session_connected' =
                        [session_connected EXCEPT ![m.session.fd] = FALSE]
                \/ /\ ~m.purge
                   /\ UNCHANGED topics
                   /\ session_connected' =
                        [session_connected EXCEPT ![m.session.fd] = TRUE]
                \/ /\ ~m.purge /\ session_connected[m.session.fd]
                   /\ \A s \in topics'.items :
                         s \in topics.items \/ s.data.session = m.session
                   /\ UNCHANGED session_connected
                \/ /\ ~m.purge
                   /\ topics'.items \subseteq topics.items
                   /\ UNCHANGED session_connected
<1> DEFINE m == Head(input_queue)
<1>1. Handshake(m) \/ stomp_process(m)
  BY DEF Reader
<1> HIDE DEF m
<1>2. CASE Purge(m) \/ Disconnect(m)
  <2>1. Dequeue(m)
        /\ session_connected' =
              [session_connected EXCEPT ![m.session.fd] = FALSE]
    BY <1>2 DEF Purge, Disconnect
  <2>2. topics'.items \subseteq {s \in topics.items :
                                   s.data.session # m.session}
    BY <1>2 DEF Purge, Disconnect, pubsub_remove_client, Unchain
  <2> QED
    BY <2>1, <2>2
<1>3. CASE Connect(m)
  BY <1>3 DEF Connect, IsFrame
<1>4. CASE Subscribe(m)
  <2>1. Dequeue(m) /\ ~m.purge /\ session_connected[m.session.fd]
        /\ UNCHANGED session_connected
    BY <1>4 DEF Subscribe, IsRejected, IsFrame, IsConnected
  <2>2. topics' = Enqueue(topics, Subscription(m.session, m.frame.topic,
                                               m.frame.id, m.ticket))
    BY <1>4 DEF Subscribe, pubsub_subscribe
  <2>3. \A s \in topics'.items :
          s \in topics.items \/ s.data.session = m.session
    BY <2>2 DEF Enqueue, Subscription
  <2> QED
    BY <2>1, <2>3
<1>5. CASE Unsubscribe(m)
  <2>1. Dequeue(m) /\ ~m.purge /\ UNCHANGED session_connected
    BY <1>5 DEF Unsubscribe, IsFrame
  <2>2. topics'.items \subseteq topics.items
    BY <1>5 DEF Unsubscribe, pubsub_unsubscribe, Unchain
  <2> QED
    BY <2>1, <2>2
<1>6. CASE Handshake(m) \/ Reject(m) \/ Send(m) \/ SendExpired(m)
           \/ Diagnostic(m)
  <2>1. Dequeue(m) /\ UNCHANGED <<session_connected, topics>>
    BY <1>6 DEF Handshake, Reject, Send, SendExpired, Diagnostic, readerState
  <2>2. ~m.purge
    BY <1>6 DEF Handshake, Reject, Send, SendExpired, Diagnostic, IsRejected,
                IsFrame
  <2> QED
    BY <2>1, <2>2
<1> QED
  BY <1>1, <1>2, <1>3, <1>4, <1>5, <1>6 DEF stomp_process

(* The frame or purge command the reader takes is the first of the queue,  *)
(* and every other moves up by one place.                                  *)
LEMMA DequeueShifts ==
    ASSUME TypeOK, NEW m, Dequeue(m)
    PROVE  /\ m = input_queue[1] /\ 1 \in 1 .. Len(input_queue)
           /\ Len(input_queue') = Len(input_queue) - 1
           /\ Len(input_queue) \in Nat
           /\ \A i \in 1 .. Len(input_queue') :
                  /\ i + 1 \in 1 .. Len(input_queue)
                  /\ input_queue'[i] = input_queue[i + 1]
<1>1. input_queue \in Seq(InputType) /\ input_queue # <<>>
      /\ m = Head(input_queue) /\ input_queue' = Tail(input_queue)
  BY DEF Dequeue, TypeOK, InputType
<1> QED
  BY <1>1

LEMMA OwnedReader ==
    ASSUME TypeInv, OwnedInv, Reader
    PROVE  OwnedInv'
<1>1. TypeOK /\ PlainIds /\ PlainSubscriptionsOwned
  BY DEF TypeInv, OwnedInv
<1>2. PICK m :
        /\ Dequeue(m)
        /\ \/ /\ topics'.items \subseteq {s \in topics.items :
                                          s.data.session # m.session}
              /\ session_connected' =
                   [session_connected EXCEPT ![m.session.fd] = FALSE]
           \/ /\ UNCHANGED topics
              /\ session_connected' =
                   [session_connected EXCEPT ![m.session.fd] = TRUE]
           \/ /\ session_connected[m.session.fd]
              /\ \A s \in topics'.items :
                    s \in topics.items \/ s.data.session = m.session
              /\ UNCHANGED session_connected
           \/ /\ topics'.items \subseteq topics.items
              /\ UNCHANGED session_connected
  BY ReaderEffect
<1>3. m.session \in Session /\ PlainSession(m.session)
  BY <1>1, <1>2, DequeueType, DequeueShifts DEF PlainIds
<1>4. \A s \in topics'.items : s \in topics.items \/ s.data.session = m.session
  BY <1>2
<1>5. PlainIds'
  <2>1. clients' = clients
    BY <1>2 DEF Dequeue
  <2>2. \A i \in 1 .. Len(input_queue') :
          PlainSession(input_queue'[i].session)
    BY <1>1, <1>2, DequeueShifts DEF PlainIds
  <2>3. \A s \in topics'.items : PlainSession(s.data.session)
    BY <1>1, <1>3, <1>4 DEF PlainIds
  <2> QED
    BY <1>1, <2>1, <2>2, <2>3 DEF PlainIds, PlainSession
<1>6. PlainSubscriptionsOwned'
  <2> SUFFICES ASSUME NEW s \in topics'.items,
                      s.data.session.fd \notin Encodable
               PROVE  session_connected'[s.data.session.fd]
    BY DEF PlainSubscriptionsOwned
  <2>1. session_connected \in [Fds -> BOOLEAN]
        /\ topics.items \in SUBSET Item(SubscriptionType)
    BY <1>1 DEF TypeOK, List
  <2>2. ASSUME s \in topics.items
        PROVE  /\ session_connected[s.data.session.fd]
               /\ s.data.session \in Session /\ PlainSession(s.data.session)
               /\ s.data.session.fd \in Fds
    BY <1>1, <2>1, <2>2
    DEF PlainSubscriptionsOwned, PlainIds, Item, SubscriptionType, Session
  <2>3. m.session.fd \in Fds
    BY <1>3 DEF Session
  <2>4. CASE /\ topics'.items \subseteq {t \in topics.items :
                                          t.data.session # m.session}
             /\ session_connected' =
                   [session_connected EXCEPT ![m.session.fd] = FALSE]
    <3>1. s \in topics.items /\ s.data.session # m.session
      BY <2>4
    <3>2. s.data.session.fd # m.session.fd
      BY <1>3, <2>2, <3>1 DEF Session, PlainSession
    <3> QED
      BY <2>1, <2>2, <2>4, <3>1, <3>2
  <2>5. CASE /\ UNCHANGED topics
             /\ session_connected' =
                   [session_connected EXCEPT ![m.session.fd] = TRUE]
    BY <2>1, <2>2, <2>5
  <2>6. CASE UNCHANGED session_connected /\ session_connected[m.session.fd]
    BY <1>4, <2>2, <2>6
  <2>7. CASE UNCHANGED session_connected /\ topics'.items \subseteq topics.items
    BY <2>2, <2>7
  <2> QED
    BY <1>2, <2>4, <2>5, <2>6, <2>7
<1> QED
  BY <1>5, <1>6 DEF OwnedInv

(* The other threads leave subscriptions and STOMP sessions alone. *)
LEMMA OwnedOther ==
    ASSUME OwnedInv, UNCHANGED readerState,
           \A fd \in Fds \ Encodable : clients'[fd] # "encoded",
           \A i \in 1 .. Len(input_queue') :
               PlainSession(input_queue'[i].session)
    PROVE  OwnedInv'
<1>1. UNCHANGED <<topics, session_connected>>
  BY DEF readerState
<1>2. PlainIds'
  BY <1>1 DEF OwnedInv, PlainIds, PlainSession
<1>3. PlainSubscriptionsOwned'
  BY <1>1 DEF OwnedInv, PlainSubscriptionsOwned
<1> QED
  BY <1>2, <1>3 DEF OwnedInv

LEMMA OwnedMain ==
    ASSUME TypeInv, OwnedInv, Main
    PROVE  OwnedInv'
<1>1. /\ clients \in [Fds -> {"empty", "plain", "encoded"}]
      /\ input_queue \in Seq(InputType)
      /\ \A fd \in Fds \ Encodable : clients[fd] # "encoded"
      /\ \A i \in 1 .. Len(input_queue) : PlainSession(input_queue[i].session)
  BY DEF TypeInv, TypeOK, OwnedInv, PlainIds, InputType
<1>2. ASSUME NEW fd \in Fds, NEW enc \in BOOLEAN, NEW frame \in Frames,
             ReadFrame(fd, enc, frame)
      PROVE  OwnedInv'
  <2>1. fd \notin Encodable => ~enc
    BY <1>1, <1>2 DEF ReadFrame, ChannelForms
  <2>2. \A f \in Fds \ Encodable : clients'[f] # "encoded"
    BY <1>1, <1>2, <2>1 DEF ReadFrame, ChannelState
  <2> DEFINE m == Message(fd, enc, frame, ticket + 1)
  <2>3. PlainSession(m.session)
    BY <2>1 DEF Message, PlainSession
  <2>4. input_queue' = input_queue \/ input_queue' = Append(input_queue, m)
    BY <1>2 DEF ReadFrame
  <2> HIDE DEF m
  <2>5. \A i \in 1 .. Len(input_queue') :
          PlainSession(input_queue'[i].session)
    BY <1>1, <2>3, <2>4
  <2>6. UNCHANGED readerState
    BY <1>2 DEF ReadFrame
  <2> QED
    BY <2>2, <2>5, <2>6, OwnedOther
<1>3. ASSUME NEW fd \in Fds, ReadIncomplete(fd)
      PROVE  OwnedInv'
  <2>1. \A f \in Fds \ Encodable : clients'[f] # "encoded"
    BY <1>1, <1>3 DEF ReadIncomplete
  <2>2. UNCHANGED <<input_queue, readerState>>
    BY <1>3 DEF ReadIncomplete
  <2> QED
    BY <1>1, <2>1, <2>2, OwnedOther
<1>4. ASSUME NEW fd \in Fds, CloseConnection(fd)
      PROVE  OwnedInv'
  <2>1. \A f \in Fds \ Encodable : clients'[f] # "encoded"
    BY <1>1, <1>4 DEF CloseConnection
  <2> DEFINE m == PurgeMessage(fd, clients[fd] = "encoded")
  <2>2. PlainSession(m.session)
    BY <1>1 DEF PurgeMessage, PlainSession
  <2>3. input_queue' = input_queue \/ input_queue' = Append(input_queue, m)
    BY <1>4 DEF CloseConnection
  <2> HIDE DEF m
  <2>4. \A i \in 1 .. Len(input_queue') :
          PlainSession(input_queue'[i].session)
    BY <1>1, <2>2, <2>3
  <2>5. UNCHANGED readerState
    BY <1>4 DEF CloseConnection
  <2> QED
    BY <2>1, <2>4, <2>5, OwnedOther
<1> QED
  BY <1>2, <1>3, <1>4 DEF Main

LEMMA OwnedWriter ==
    ASSUME TypeInv, OwnedInv, NEW w \in Writers, Writer(w)
    PROVE  OwnedInv'
<1>1. /\ clients \in [Fds -> {"empty", "plain", "encoded"}]
      /\ input_queue \in Seq(InputType)
      /\ \A fd \in Fds \ Encodable : clients[fd] # "encoded"
      /\ \A i \in 1 .. Len(input_queue) : PlainSession(input_queue[i].session)
  BY DEF TypeInv, TypeOK, OwnedInv, PlainIds, InputType
<1>2. UNCHANGED readerState
  BY DEF Writer, WriterTake, WriterSent, WriterFail, WriterClean
<1>3. \A fd \in Fds \ Encodable : clients'[fd] # "encoded"
  BY <1>1 DEF Writer, WriterTake, WriterSent, WriterFail, WriterClean
<1> DEFINE m == PurgeMessage(writer[w].fd, FALSE)
<1>4. PlainSession(m.session)
  BY DEF PurgeMessage, PlainSession
<1>5. input_queue' = input_queue \/ input_queue' = <<m>> \o input_queue
  BY DEF Writer, WriterTake, WriterSent, WriterFail, WriterClean
<1> HIDE DEF m
<1>6. \A i \in 1 .. Len(input_queue') : PlainSession(input_queue'[i].session)
  <2>1. CASE input_queue' = <<m>> \o input_queue
    BY <1>1, <1>4, <2>1
  <2> QED
    BY <1>1, <1>5, <2>1
<1> QED
  BY <1>2, <1>3, <1>6, OwnedOther

(* A client that sends no WebSocket frames loses its subscriptions with    *)
(* its session, however the session ends: DISCONNECT, close_connection or  *)
(* a writer that gave up (the purge branch of stomp_process).              *)
THEOREM PlainSubscriptionsOwnedHolds == Spec => []PlainSubscriptionsOwned
<1>1. Init => OwnedInv
  BY DEF Init, EmptyList, OwnedInv, PlainIds, PlainSubscriptionsOwned
<1>2. TypeInv /\ OwnedInv /\ [Next]_vars => OwnedInv'
  <2> SUFFICES ASSUME TypeInv, OwnedInv, [Next]_vars PROVE OwnedInv'
    OBVIOUS
  <2>1. CASE UNCHANGED vars
    BY <2>1, OwnedOther DEF vars, OwnedInv, PlainIds
  <2> QED
    BY <2>1, OwnedReader, OwnedMain, OwnedWriter DEF Next
<1>3. OwnedInv => PlainSubscriptionsOwned
  BY DEF OwnedInv
<1> QED
  BY <1>1, <1>2, <1>3, TypeInvHolds, PTL DEF Spec

-----------------------------------------------------------------------------
(* The end of sessions.  Behind every frame of a client that is gone there *)
(* is a purge command.                                                     *)
FramesCovered(fd) ==
    \A i \in 1 .. Len(input_queue) :
        input_queue[i].session.fd = fd /\ ~input_queue[i].purge
        => \E j \in i + 1 .. Len(input_queue) :
               input_queue[j].purge /\ input_queue[j].session.fd = fd

Ending(fd) ==
    /\ FramesCovered(fd)
    /\ session_connected[fd] => PurgeQueued(fd)

EndInv == \A fd \in Fds \ leaked : clients[fd] = "empty" => Ending(fd)

(* A frame of another client behind the others changes nothing. *)
LEMMA AppendKeepsEnding ==
    ASSUME TypeOK, UNCHANGED session_connected, NEW fd, Ending(fd), NEW m,
           input_queue' = Append(input_queue, m), m.purge \/ m.session.fd # fd
    PROVE  Ending(fd)'
<1>1. input_queue \in Seq(InputType)
  BY DEF TypeOK, InputType
<1>2. /\ Len(input_queue') = Len(input_queue) + 1 /\ Len(input_queue) \in Nat
      /\ \A i \in 1 .. Len(input_queue) : input_queue'[i] = input_queue[i]
      /\ input_queue'[Len(input_queue) + 1] = m
  BY <1>1
<1>3. FramesCovered(fd)'
  BY <1>2 DEF Ending, FramesCovered
<1>4. session_connected'[fd] => PurgeQueued(fd)'
  BY <1>2 DEF Ending, PurgeQueued
<1> QED
  BY <1>3, <1>4 DEF Ending

(* A purge command behind the frames of its client covers them all. *)
LEMMA AppendPurgeEnds ==
    ASSUME TypeOK, NEW fd, NEW m, input_queue' = Append(input_queue, m),
           m.purge, m.session.fd = fd
    PROVE  Ending(fd)'
<1>1. input_queue \in Seq(InputType)
  BY DEF TypeOK, InputType
<1>2. /\ Len(input_queue') = Len(input_queue) + 1 /\ Len(input_queue) \in Nat
      /\ input_queue'[Len(input_queue) + 1] = m
  BY <1>1
<1>3. FramesCovered(fd)'
  BY <1>2 DEF FramesCovered
<1>4. PurgeQueued(fd)'
  BY <1>2 DEF PurgeQueued
<1> QED
  BY <1>3, <1>4 DEF Ending

(* A purge command at the head of the queue (ts_put_head) covers none. *)
LEMMA PutHeadKeepsEnding ==
    ASSUME TypeOK, UNCHANGED session_connected, NEW fd, Ending(fd), NEW m,
           m.purge, input_queue' = <<m>> \o input_queue
    PROVE  Ending(fd)'
<1>1. input_queue \in Seq(InputType)
  BY DEF TypeOK, InputType
<1>2. /\ Len(input_queue') = Len(input_queue) + 1 /\ Len(input_queue) \in Nat
      /\ input_queue'[1] = m
      /\ \A i \in 2 .. Len(input_queue) + 1 :
             input_queue'[i] = input_queue[i - 1]
  BY <1>1
<1>3. FramesCovered(fd)'
  <2> SUFFICES ASSUME NEW i \in 1 .. Len(input_queue'),
                      input_queue'[i].session.fd = fd,
                      ~input_queue'[i].purge
               PROVE  \E j \in i + 1 .. Len(input_queue') :
                        input_queue'[j].purge /\ input_queue'[j].session.fd = fd
    BY DEF FramesCovered
  <2>1. i # 1 /\ i - 1 \in 1 .. Len(input_queue)
        /\ input_queue'[i] = input_queue[i - 1]
    BY <1>2
  <2>2. PICK j \in i .. Len(input_queue) :
          input_queue[j].purge /\ input_queue[j].session.fd = fd
    BY <2>1 DEF Ending, FramesCovered
  <2>3. j + 1 \in i + 1 .. Len(input_queue')
        /\ input_queue'[j + 1] = input_queue[j]
    BY <1>2, <2>2
  <2> QED
    BY <2>2, <2>3
<1>4. session_connected'[fd] => PurgeQueued(fd)'
  <2> SUFFICES ASSUME session_connected'[fd] PROVE PurgeQueued(fd)'
    OBVIOUS
  <2>1. PICK j \in 1 .. Len(input_queue) :
          input_queue[j].purge /\ input_queue[j].session.fd = fd
    BY DEF Ending, PurgeQueued
  <2>2. j + 1 \in 1 .. Len(input_queue')
        /\ input_queue'[j + 1] = input_queue[j]
    BY <1>2, <2>1
  <2> QED
    BY <2>1, <2>2 DEF PurgeQueued
<1> QED
  BY <1>3, <1>4 DEF Ending

(* The reader takes the first message.  If that is a frame of the client,  *)
(* a purge command is behind it; if it is a purge command for it, the      *)
(* session is over.                                                        *)
LEMMA DequeueKeepsEnding ==
    ASSUME TypeOK, NEW m, Dequeue(m), NEW fd, Ending(fd),
           session_connected'[fd]
               => session_connected[fd] \/ (~m.purge /\ m.session.fd = fd),
           m.purge /\ m.session.fd = fd => ~session_connected'[fd]
    PROVE  Ending(fd)'
<1>1. /\ m = input_queue[1] /\ 1 \in 1 .. Len(input_queue)
      /\ Len(input_queue') = Len(input_queue) - 1
      /\ Len(input_queue) \in Nat
      /\ \A i \in 1 .. Len(input_queue') :
             /\ i + 1 \in 1 .. Len(input_queue)
             /\ input_queue'[i] = input_queue[i + 1]
  BY DequeueShifts
<1>2. FramesCovered(fd)'
  <2> SUFFICES ASSUME NEW i \in 1 .. Len(input_queue'),
                      input_queue'[i].session.fd = fd,
                      ~input_queue'[i].purge
               PROVE  \E j \in i + 1 .. Len(input_queue') :
                        input_queue'[j].purge /\ input_queue'[j].session.fd = fd
    BY DEF FramesCovered
  <2>1. PICK j \in i + 2 .. Len(input_queue) :
          input_queue[j].purge /\ input_queue[j].session.fd = fd
    BY <1>1, SMTT(30) DEF Ending, FramesCovered
  <2>2. j - 1 \in i + 1 .. Len(input_queue')
        /\ input_queue'[j - 1] = input_queue[j]
    BY <1>1, <2>1
  <2> QED
    BY <2>1, <2>2
<1>3. ASSUME session_connected'[fd]
      PROVE  PurgeQueued(fd)'
  <2>1. PICK j \in 2 .. Len(input_queue) :
          input_queue[j].purge /\ input_queue[j].session.fd = fd
    <3>1. CASE ~m.purge /\ m.session.fd = fd
      BY <1>1, <3>1 DEF Ending, FramesCovered
    <3>2. CASE session_connected[fd]
      <4>1. PICK j \in 1 .. Len(input_queue) :
              input_queue[j].purge /\ input_queue[j].session.fd = fd
        BY <3>2 DEF Ending, PurgeQueued
      <4>2. j # 1
        BY <1>1, <1>3, <4>1
      <4> QED
        BY <1>1, <4>1, <4>2
    <3> QED
      BY <1>3, <3>1, <3>2
  <2>2. j - 1 \in 1 .. Len(input_queue')
        /\ input_queue'[j - 1] = input_queue[j]
    BY <1>1, <2>1
  <2> QED
    BY <2>1, <2>2 DEF PurgeQueued
<1> QED
  BY <1>2, <1>3 DEF Ending

LEMMA EndReader ==
    ASSUME TypeInv, EndInv, Reader
    PROVE  EndInv'
<1>1. TypeOK
  BY DEF TypeInv
<1>2. PICK m :
        /\ Dequeue(m)
        /\ \/ session_connected' =
                [session_connected EXCEPT ![m.session.fd] = FALSE]
           \/ /\ ~m.purge
              /\ session_connected' =
                   [session_connected EXCEPT ![m.session.fd] = TRUE]
           \/ ~m.purge /\ UNCHANGED session_connected
  BY ReaderEffect
<1>3. m.session.fd \in Fds /\ session_connected \in [Fds -> BOOLEAN]
  BY <1>1, <1>2, DequeueType DEF TypeOK
<1>4. UNCHANGED <<clients, leaked>>
  BY <1>2 DEF Dequeue
<1> SUFFICES ASSUME NEW fd \in Fds, fd \notin leaked, clients[fd] = "empty"
             PROVE  Ending(fd)'
  BY <1>4 DEF EndInv
<1>5. Ending(fd)
  BY DEF EndInv
<1>6. /\ session_connected'[fd]
           => session_connected[fd] \/ (~m.purge /\ m.session.fd = fd)
      /\ m.purge /\ m.session.fd = fd => ~session_connected'[fd]
  BY <1>2, <1>3
<1> QED
  BY <1>1, <1>2, <1>5, <1>6, DequeueKeepsEnding

(* Nothing that Ending is about has changed. *)
LEMMA EndingUnchanged ==
    ASSUME NEW fd, Ending(fd), UNCHANGED <<input_queue, session_connected>>
    PROVE  Ending(fd)'
BY DEF Ending, FramesCovered, PurgeQueued

LEMMA EndMain ==
    ASSUME TypeInv, EndInv, Main
    PROVE  EndInv'
<1>1. TypeOK /\ clients \in [Fds -> {"empty", "plain", "encoded"}]
  BY DEF TypeInv, TypeOK
<1>2. UNCHANGED session_connected
  BY DEF Main, ReadFrame, ReadIncomplete, CloseConnection, readerState
<1>3. ASSUME NEW fd \in Fds, NEW enc \in BOOLEAN, NEW frame \in Frames,
             ReadFrame(fd, enc, frame)
      PROVE  EndInv'
  <2> DEFINE m == Message(fd, enc, frame, ticket + 1)
  <2>1. /\ clients' = [clients EXCEPT ![fd] = ChannelState(enc)]
        /\ input_queue' = input_queue \/ input_queue' = Append(input_queue, m)
        /\ UNCHANGED leaked
    BY <1>3 DEF ReadFrame
  <2>2. m.session.fd = fd
    BY DEF Message
  <2> HIDE DEF m
  <2> SUFFICES ASSUME NEW f \in Fds, f \notin leaked, clients'[f] = "empty"
               PROVE  Ending(f)'
    BY <2>1 DEF EndInv
  <2>3. f # fd /\ clients[f] = "empty"
    BY <1>1, <2>1 DEF ChannelState
  <2>4. Ending(f)
    BY <2>3 DEF EndInv
  <2> QED
    BY <1>1, <1>2, <2>1, <2>2, <2>3, <2>4, AppendKeepsEnding, EndingUnchanged
<1>4. ASSUME NEW fd \in Fds, ReadIncomplete(fd)
      PROVE  EndInv'
  <2>1. clients' = [clients EXCEPT ![fd] = "encoded"]
        /\ UNCHANGED <<input_queue, leaked>>
    BY <1>4 DEF ReadIncomplete
  <2> SUFFICES ASSUME NEW f \in Fds, f \notin leaked, clients'[f] = "empty"
               PROVE  Ending(f)'
    BY <2>1 DEF EndInv
  <2>2. Ending(f)
    BY <1>1, <2>1 DEF EndInv
  <2> QED
    BY <1>2, <2>1, <2>2, EndingUnchanged
<1>5. ASSUME NEW fd \in Fds, CloseConnection(fd)
      PROVE  EndInv'
  <2> DEFINE m == PurgeMessage(fd, clients[fd] = "encoded")
  <2>1. /\ clients' = [clients EXCEPT ![fd] = "empty"]
        /\ \/ /\ input_queue' = Append(input_queue, m)
              /\ leaked' = leaked \ {fd}
           \/ leaked' = leaked \cup {fd} /\ UNCHANGED input_queue
    BY <1>5 DEF CloseConnection
  <2>2. m.purge /\ m.session.fd = fd
    BY DEF PurgeMessage
  <2> HIDE DEF m
  <2> SUFFICES ASSUME NEW f \in Fds, f \notin leaked', clients'[f] = "empty"
               PROVE  Ending(f)'
    BY DEF EndInv
  <2>3. CASE f = fd
    BY <1>1, <2>1, <2>2, <2>3, AppendPurgeEnds
  <2>4. CASE f # fd
    <3>1. Ending(f)
      BY <1>1, <2>1, <2>4 DEF EndInv
    <3> QED
      BY <1>1, <1>2, <2>1, <2>2, <2>4, <3>1, AppendKeepsEnding, EndingUnchanged
  <2> QED
    BY <2>3, <2>4
<1> QED
  BY <1>3, <1>4, <1>5 DEF Main

LEMMA EndWriter ==
    ASSUME TypeInv, EndInv, NEW w \in Writers, Writer(w)
    PROVE  EndInv'
<1>1. TypeOK /\ clients \in [Fds -> {"empty", "plain", "encoded"}]
  BY DEF TypeInv, TypeOK
<1>2. UNCHANGED session_connected
  BY DEF Writer, WriterTake, WriterSent, WriterFail, WriterClean, readerState
<1>3. ASSUME UNCHANGED <<clients, input_queue, leaked>>
      PROVE  EndInv'
  BY <1>2, <1>3, EndingUnchanged DEF EndInv
<1>4. CASE WriterFail(w)
  <2> DEFINE m == PurgeMessage(writer[w].fd, FALSE)
  <2>1. UNCHANGED <<clients, leaked>> /\ input_queue' = <<m>> \o input_queue
    BY <1>4 DEF WriterFail
  <2>2. m.purge
    BY DEF PurgeMessage
  <2> HIDE DEF m
  <2> QED
    BY <1>1, <1>2, <2>1, <2>2, PutHeadKeepsEnding DEF EndInv
<1>5. CASE WriterClean(w)
  <2> DEFINE fd == writer[w].fd
  <2>1. /\ clients' = [clients EXCEPT ![fd] = "empty"]
        /\ leaked' = IF clients[fd] = "empty" THEN leaked ELSE leaked \cup {fd}
        /\ UNCHANGED input_queue
    BY <1>5 DEF WriterClean
  <2> HIDE DEF fd
  <2> SUFFICES ASSUME NEW f \in Fds, f \notin leaked', clients'[f] = "empty"
               PROVE  Ending(f)'
    BY DEF EndInv
  <2>2. f \notin leaked /\ clients[f] = "empty"
    BY <1>1, <2>1
  <2>3. Ending(f)
    BY <2>2 DEF EndInv
  <2> QED
    BY <1>2, <2>1, <2>3, EndingUnchanged
<1>6. CASE WriterSent(w) \/ \E n \in 1 .. MaxBatch : WriterTake(w, n)
  BY <1>3, <1>6 DEF WriterSent, WriterTake
<1> QED
  BY <1>4, <1>5, <1>6 DEF Writer

(* A descriptor without a client stays connected only while a purge        *)
(* command for it is queued, unless its purge command was dropped by a     *)
(* full queue or overtook its frames: for every frame that could connect   *)
(* it again, a purge command is behind that frame.                         *)
THEOREM NoLeakedSessionHolds == Spec => []NoLeakedSession
<1>1. Init => EndInv
  BY DEF Init, EndInv, Ending, FramesCovered
<1>2. TypeInv /\ EndInv /\ [Next]_vars => EndInv'
  <2> SUFFICES ASSUME TypeInv, EndInv, [Next]_vars PROVE EndInv'
    OBVIOUS
  <2>1. CASE UNCHANGED vars
    BY <2>1, EndingUnchanged DEF vars, readerState, EndInv
  <2> QED
    BY <2>1, EndReader, EndMain, EndWriter DEF Next
<1>3. EndInv => NoLeakedSession
  BY DEF EndInv, Ending, NoLeakedSession
<1> QED
  BY <1>1, <1>2, <1>3, TypeInvHolds, PTL DEF Spec


-----------------------------------------------------------------------------
(***************************************************************************)

(* The reader has dealt with frame n, and with none of those in the queue. *)
Handled(n) ==
    /\ n \in Nat /\ n <= ticket
    /\ \A i \in 1 .. Len(input_queue) :
          ~input_queue[i].purge => n < input_queue[i].ticket

(* The frames in the input queue are in the order of their tickets. *)
Numbered ==
    /\ \A i \in 1 .. Len(input_queue) :
          ~input_queue[i].purge => input_queue[i].ticket \in 1 .. ticket
    /\ \A i, j \in 1 .. Len(input_queue) :
          i < j /\ ~input_queue[i].purge /\ ~input_queue[j].purge
              => input_queue[i].ticket < input_queue[j].ticket

Behind ==
    /\ \A x \in output_queue.items : Handled(x.data.ticket)
    /\ \A s \in topics.items : Handled(s.data.born)

(* Each subscription is from a SUBSCRIBE frame of its own. *)
BornOnce == \A s, t \in topics.items : s.data.born = t.data.born => s = t

(* No message ever waits for a subscriber. *)
NoStale == stale_queue.items = {}

(* What a receipt in the output queue ended is not in the table. *)
EndedGone ==
    \A r \in output_queue.items, s \in topics.items :
        r.data.kind = "RECEIPT" /\ Ends(r.data, s.data)
            => s.data.born > r.data.ticket

OrderInv ==
    /\ Numbered /\ Behind /\ BornOnce /\ NoStale
    /\ SendOrder /\ EndedGone /\ ReceiptCloses

USE StompAssumption
-----------------------------------------------------------------------------
(* The input queue.                                                        *)

(* Taking message m: what was dealt with stays so, and is older than m. *)
LEMMA DequeueOrder ==
    ASSUME TypeOK, Numbered, NEW m, Dequeue(m)
    PROVE  /\ Numbered'
           /\ \A n : Handled(n) => Handled(n)' /\ (~m.purge => n < m.ticket)
           /\ ~m.purge => m.ticket \in Nat \ {0} /\ Handled(m.ticket)'
           /\ Handled(0)'
<1>1. /\ m = input_queue[1] /\ 1 \in 1 .. Len(input_queue)
      /\ Len(input_queue) \in Nat /\ Len(input_queue') = Len(input_queue) - 1
      /\ \A i \in 1 .. Len(input_queue') :
            /\ i + 1 \in 1 .. Len(input_queue)
            /\ input_queue'[i] = input_queue[i + 1]
  BY DequeueShifts
<1>2. ticket' = ticket /\ ticket \in Nat
  BY DEF Dequeue, TypeOK
<1>3. \A i \in 1 .. Len(input_queue) :
         ~input_queue[i].purge => input_queue[i].ticket \in 1 .. ticket
  BY DEF Numbered
<1>4. Numbered'
  <2>1. \A i \in 1 .. Len(input_queue') :
           ~input_queue'[i].purge => input_queue'[i].ticket \in 1 .. ticket
    BY <1>1, <1>3
  <2>2. ASSUME NEW i \in 1 .. Len(input_queue'), NEW j \in 1 .. Len(input_queue'),
               i < j, ~input_queue'[i].purge, ~input_queue'[j].purge
        PROVE  input_queue'[i].ticket < input_queue'[j].ticket
    <3>1. i + 1 < j + 1
      BY <1>1, <2>2
    <3> QED
      BY <1>1, <2>2, <3>1 DEF Numbered
  <2> QED
    BY <1>2, <2>1, <2>2 DEF Numbered
<1>5. ASSUME NEW n, Handled(n)
      PROVE  Handled(n)' /\ (~m.purge => n < m.ticket)
  BY <1>1, <1>2, <1>5 DEF Handled
<1>6. ASSUME ~m.purge
      PROVE  m.ticket \in Nat \ {0} /\ Handled(m.ticket)'
  <2>1. m.ticket \in 1 .. ticket
    BY <1>1, <1>3, <1>6
  <2>2. ASSUME NEW i \in 1 .. Len(input_queue'), ~input_queue'[i].purge
        PROVE  m.ticket < input_queue'[i].ticket
    <3>1. 1 < i + 1
      BY <1>1
    <3> QED
      BY <1>1, <1>6, <2>2, <3>1 DEF Numbered
  <2> QED
    BY <1>2, <2>1, <2>2 DEF Handled
<1>7. Handled(0)'
  <2>1. \A i \in 1 .. Len(input_queue') :
           ~input_queue'[i].purge => 0 < input_queue'[i].ticket
    BY <1>1, <1>2, <1>3
  <2> QED
    BY <1>2, <2>1 DEF Handled
<1> QED
  BY <1>4, <1>5, <1>6, <1>7

(* A frame with the next ticket, or a purge command, at the tail. *)
LEMMA AppendOrder ==
    ASSUME TypeOK, Numbered, NEW d \in InputType,
           input_queue' = Append(input_queue, d),
           \/ d.purge /\ ticket' = ticket
           \/ ~d.purge /\ ticket' = ticket + 1 /\ d.ticket = ticket'
    PROVE  Numbered' /\ \A n : Handled(n) => Handled(n)'
<1>1. /\ input_queue \in Seq(InputType) /\ ticket \in Nat
      /\ ticket' \in Nat /\ ticket <= ticket'
  BY DEF TypeOK, InputType
<1> DEFINE k == Len(input_queue)
<1>2. /\ k \in Nat /\ Len(input_queue') = k + 1
      /\ \A i \in 1 .. k : input_queue'[i] = input_queue[i]
      /\ input_queue'[k + 1] = d
      /\ \A i \in 1 .. Len(input_queue') : i \in 1 .. k \/ i = k + 1
  BY <1>1
<1> HIDE DEF k
<1>3. \A i \in 1 .. k : ~input_queue[i].purge
                            => input_queue[i].ticket \in 1 .. ticket
  BY DEF Numbered, k
<1>4. ~d.purge => d.ticket = ticket + 1 /\ ticket' = ticket + 1
  OBVIOUS
<1>5. Numbered'
  <2>1. \A i \in 1 .. Len(input_queue') :
           ~input_queue'[i].purge => input_queue'[i].ticket \in 1 .. ticket'
    BY <1>1, <1>2, <1>3, <1>4
  <2>2. ASSUME NEW i \in 1 .. Len(input_queue'), NEW j \in 1 .. Len(input_queue'),
               i < j, ~input_queue'[i].purge, ~input_queue'[j].purge
        PROVE  input_queue'[i].ticket < input_queue'[j].ticket
    <3>1. i \in 1 .. k
      BY <1>2, <2>2
    <3>2. CASE j \in 1 .. k
      BY <1>2, <2>2, <3>1, <3>2 DEF Numbered, k
    <3>3. CASE j = k + 1
      BY <1>1, <1>2, <1>3, <1>4, <2>2, <3>1, <3>3
    <3> QED
      BY <1>2, <3>2, <3>3
  <2> QED
    BY <2>1, <2>2 DEF Numbered
<1>6. ASSUME NEW n, Handled(n)
      PROVE  Handled(n)'
  <2>1. n \in Nat /\ n <= ticket
    BY <1>6 DEF Handled
  <2>2. \A i \in 1 .. k : ~input_queue[i].purge => n < input_queue[i].ticket
    BY <1>6 DEF Handled, k
  <2>3. \A i \in 1 .. Len(input_queue') :
           ~input_queue'[i].purge => n < input_queue'[i].ticket
    BY <1>1, <1>2, <1>4, <2>1, <2>2
  <2> QED
    BY <1>1, <2>1, <2>3 DEF Handled
<1> QED
  BY <1>5, <1>6

(* A purge command at the head. *)
LEMMA PutHeadOrder ==
    ASSUME TypeOK, Numbered, NEW d \in InputType, d.purge,
           input_queue' = <<d>> \o input_queue, ticket' = ticket
    PROVE  Numbered' /\ \A n : Handled(n) => Handled(n)'
<1>1. input_queue \in Seq(InputType)
  BY DEF TypeOK, InputType
<1>2. /\ Len(input_queue) \in Nat /\ Len(input_queue') = Len(input_queue) + 1
      /\ input_queue'[1] = d
      /\ \A i \in 1 .. Len(input_queue') :
            i = 1 \/ (/\ i - 1 \in 1 .. Len(input_queue)
                      /\ input_queue'[i] = input_queue[i - 1])
  BY <1>1
<1>3. \A i \in 1 .. Len(input_queue') :
         ~input_queue'[i].purge => /\ i - 1 \in 1 .. Len(input_queue)
                                   /\ input_queue'[i] = input_queue[i - 1]
  BY <1>2
<1>4. Numbered'
  <2>1. \A i \in 1 .. Len(input_queue') :
           ~input_queue'[i].purge => input_queue'[i].ticket \in 1 .. ticket
    BY <1>3 DEF Numbered
  <2>2. ASSUME NEW i \in 1 .. Len(input_queue'), NEW j \in 1 .. Len(input_queue'),
               i < j, ~input_queue'[i].purge, ~input_queue'[j].purge
        PROVE  input_queue'[i].ticket < input_queue'[j].ticket
    <3>1. i - 1 < j - 1
      BY <1>2, <2>2
    <3> QED
      BY <1>3, <2>2, <3>1 DEF Numbered
  <2> QED
    BY <2>1, <2>2 DEF Numbered
<1>5. ASSUME NEW n, Handled(n)
      PROVE  Handled(n)'
  BY <1>3, <1>5 DEF Handled
<1> QED
  BY <1>4, <1>5

-----------------------------------------------------------------------------
(* The reader.                                                             *)

(* What every branch of stomp_process has in common.  new is what it puts  *)
(* on the output queue: messages of this frame for subscriptions in the    *)
(* table, each once, and behind them a receipt that ends no subscription   *)
(* which stays in the table.                                               *)
LEMMA ReaderOrder ==
    ASSUME TypeInv, OrderInv, NEW m, Dequeue(m), NEW new,
           output_queue'.items = output_queue.items \cup new,
           \A x \in output_queue.items, y \in new : x.pos < y.pos,
           \A x \in new : x.pos \in Nat,
           \A x \in new : ~m.purge /\ x.data.ticket \in {0, m.ticket},
           \A x \in new : x.data.kind = "MESSAGE" =>
               /\ x.data.ticket = m.ticket
               /\ \E s \in topics.items : s.data = x.data.sub,
           \A x, y \in new : /\ x.data.kind = "MESSAGE" /\ y.data.kind = "MESSAGE"
                             /\ x.data.sub = y.data.sub
                             => x = y,
           \A x, y \in new : x.data.kind = "RECEIPT" /\ y.data.kind = "MESSAGE"
                             => y.pos < x.pos,
           \A x \in new, s \in topics'.items :
               x.data.kind = "RECEIPT" => ~Ends(x.data, s.data),
           \A s \in topics'.items :
               s \in topics.items \/ (~m.purge /\ s.data.born = m.ticket),
           \A s, t \in topics'.items \ topics.items : s = t,
           stale_queue'.items = {}
    PROVE  OrderInv'
<1> DEFINE old == output_queue.items
<1>1. /\ TypeOK /\ Numbered /\ Behind /\ BornOnce /\ SendOrder /\ EndedGone
      /\ ReceiptCloses
  BY DEF TypeInv, OrderInv
<1>2. /\ Numbered'
      /\ \A n : Handled(n) => Handled(n)' /\ (~m.purge => n < m.ticket)
      /\ ~m.purge => m.ticket \in Nat \ {0} /\ Handled(m.ticket)'
      /\ Handled(0)'
  BY <1>1, DequeueOrder
<1>3. \A x \in old : x.pos \in Nat /\ Handled(x.data.ticket)
  BY <1>1 DEF TypeOK, List, Item, Behind
<1>4. \A s \in topics.items : Handled(s.data.born)
  BY <1>1 DEF Behind
<1>5. \A n : Handled(n) => n \in Nat
  BY DEF Handled
<1>6. Behind'
  <2>1. \A x \in output_queue'.items : Handled(x.data.ticket)'
    BY <1>2, <1>3
  <2>2. \A s \in topics'.items : Handled(s.data.born)'
    BY <1>2, <1>4
  <2> QED
    BY <2>1, <2>2 DEF Behind
<1>7. BornOnce'
  <2> SUFFICES ASSUME NEW s \in topics'.items, NEW t \in topics'.items,
                      s.data.born = t.data.born
               PROVE  s = t
    BY DEF BornOnce
  <2>1. CASE s \in topics.items /\ t \in topics.items
    BY <1>1, <2>1 DEF BornOnce
  <2>2. CASE s \notin topics.items /\ t \notin topics.items
    BY <2>2
  <2>3. ASSUME NEW u \in topics.items, NEW v \in topics'.items \ topics.items
        PROVE  u.data.born # v.data.born
    BY <1>2, <1>4, <1>5
  <2> QED
    BY <2>1, <2>2, <2>3
<1>8. SendOrder'
  <2> SUFFICES ASSUME NEW x \in old \cup new, NEW y \in old \cup new,
                      x.data.kind = "MESSAGE", y.data.kind = "MESSAGE",
                      x.data.sub = y.data.sub, x.pos < y.pos
               PROVE  x.data.ticket < y.data.ticket
    BY DEF SendOrder
  <2>1. CASE x \in old /\ y \in old
    BY <1>1, <2>1 DEF SendOrder
  <2>2. CASE x \in old /\ y \in new
    BY <1>2, <1>3, <2>2
  <2>3. CASE x \in new /\ y \in old
    BY <1>3, <2>3
  <2>4. CASE x \in new /\ y \in new
    BY <2>4
  <2> QED
    BY <2>1, <2>2, <2>3, <2>4
<1>9. EndedGone'
  <2> SUFFICES ASSUME NEW r \in old \cup new, NEW s \in topics'.items,
                      r.data.kind = "RECEIPT", Ends(r.data, s.data)
               PROVE  s.data.born > r.data.ticket
    BY DEF EndedGone
  <2>1. r \in old
    OBVIOUS
  <2>2. CASE s \in topics.items
    BY <1>1, <2>1, <2>2 DEF EndedGone
  <2>3. CASE s \notin topics.items
    BY <1>2, <1>3, <1>5, <2>1, <2>3
  <2> QED
    BY <2>2, <2>3
<1>10. ReceiptCloses'
  <2> SUFFICES ASSUME NEW r \in old \cup new, NEW x \in old \cup new,
                      r.data.kind = "RECEIPT", x.data.kind = "MESSAGE",
                      r.pos < x.pos, Ends(r.data, x.data.sub)
               PROVE  x.data.sub.born > r.data.ticket
    BY DEF ReceiptCloses
  <2>1. CASE r \in old /\ x \in old
    BY <1>1, <2>1 DEF ReceiptCloses
  <2>2. CASE r \in old /\ x \in new
    BY <1>1, <2>2 DEF EndedGone
  <2>3. CASE r \in new /\ x \in old
    BY <1>3, <2>3
  <2>4. CASE r \in new /\ x \in new
    BY <2>4
  <2> QED
    BY <2>1, <2>2, <2>3, <2>4
<1> QED
  BY <1>2, <1>6, <1>7, <1>8, <1>9, <1>10 DEF OrderInv, NoStale

(* The receipt goes behind everything that is in the queue. *)
LEMMA ReceiptItems ==
    ASSUME NEW m, NEW queue \in List(OutputType), WellFormed(queue),
           Receipt(m, queue)
    PROVE  \E new :
             /\ output_queue'.items = queue.items \cup new
             /\ \A x \in queue.items, y \in new : x.pos < y.pos
             /\ \A x \in new : /\ x.pos \in Nat
                               /\ x.data = Output("RECEIPT", m.session, m.frame,
                                                  m.ticket, None)
<1> DEFINE item == [pos |-> queue.last + 1,
                    data |-> Output("RECEIPT", m.session, m.frame, m.ticket,
                                    None)]
           new == IF m.frame.receipt THEN {item} ELSE {}
<1>1. queue.last \in Nat /\ \A x \in queue.items : x.pos \in Nat
  BY DEF List, Item
<1>2. output_queue'.items = queue.items \cup new
  BY DEF Receipt, Enqueue
<1>3. \A x \in queue.items : x.pos < queue.last + 1
  BY <1>1 DEF WellFormed
<1>4. \A x \in new : x = item
  OBVIOUS
<1>5. item.pos = queue.last + 1
      /\ item.data = Output("RECEIPT", m.session, m.frame, m.ticket, None)
  OBVIOUS
<1> HIDE DEF new, item
<1>6. /\ \A x \in queue.items, y \in new : x.pos < y.pos
      /\ \A x \in new : /\ x.pos \in Nat
                        /\ x.data = Output("RECEIPT", m.session, m.frame,
                                           m.ticket, None)
  BY <1>1, <1>3, <1>4, <1>5
<1> QED
  BY <1>2, <1>6

(* The answer to a frame: no message, no receipt. *)
LEMMA RespondItems ==
    ASSUME TypeInv, NEW m, NEW kind, Respond(m, kind)
    PROVE  \E new :
             /\ output_queue'.items = output_queue.items \cup new
             /\ \A x \in output_queue.items, y \in new : x.pos < y.pos
             /\ \A x \in new : /\ x.pos \in Nat /\ x.data.kind = kind
                               /\ x.data.ticket = 0
<1> DEFINE item == [pos |-> output_queue.last + 1,
                    data |-> Output(kind, m.session, None, 0, None)]
<1>1. /\ output_queue.last \in Nat
      /\ \A x \in output_queue.items : /\ x.pos \in Nat
                                       /\ x.pos <= output_queue.last
  BY DEF TypeInv, TypeOK, Lists, WellFormed, List, Item
<1>2. output_queue'.items = output_queue.items \cup {item}
  BY DEF Respond, Enqueue
<1>3. /\ item.pos = output_queue.last + 1
      /\ item.data.kind = kind /\ item.data.ticket = 0
  BY DEF Output
<1> DEFINE new == {item}
<1> HIDE DEF item
<1>4. /\ \A x \in output_queue.items, y \in new : x.pos < y.pos
      /\ \A x \in new : /\ x.pos \in Nat /\ x.data.kind = kind
                        /\ x.data.ticket = 0
  BY <1>1, <1>3
<1>5. output_queue'.items = output_queue.items \cup new
  BY <1>2
<1> HIDE DEF new
<1> QED
  BY <1>4, <1>5

(* Handshake, Reject, Connect, Diagnostic and Purge: no message and no     *)
(* receipt, no new subscription.                                           *)
LEMMA AnswerOrder ==
    ASSUME TypeInv, OrderInv, NEW m,
           \/ Purge(m) \/ Handshake(m) \/ Reject(m) \/ Connect(m)
           \/ Diagnostic(m)
    PROVE  OrderInv'
<1>1. /\ Dequeue(m)
      /\ topics'.items \subseteq topics.items
      /\ stale_queue'.items = {}
  BY DEF Purge, Handshake, Reject, Connect, Diagnostic, readerState,
         pubsub_remove_client, Unchain, OrderInv, NoStale
<1>2. CASE UNCHANGED output_queue
  <2> DEFINE new == {}
  <2>1. output_queue'.items = output_queue.items \cup new
    BY <1>2
  <2> QED
    BY <1>1, <2>1, ReaderOrder
<1>3. ASSUME NEW kind, kind \notin {"MESSAGE", "RECEIPT"}, Respond(m, kind),
             ~m.purge
      PROVE  OrderInv'
  <2>1. PICK new :
          /\ output_queue'.items = output_queue.items \cup new
          /\ \A x \in output_queue.items, y \in new : x.pos < y.pos
          /\ \A x \in new : /\ x.pos \in Nat /\ x.data.kind = kind
                            /\ x.data.ticket = 0
    BY <1>3, RespondItems
  <2>2. \A x \in new : /\ ~(x.data.kind = "MESSAGE")
                       /\ ~(x.data.kind = "RECEIPT")
    BY <1>3, <2>1
  <2>3. \A x \in new : x.pos \in Nat /\ ~m.purge
                       /\ x.data.ticket \in {0, m.ticket}
    BY <1>3, <2>1
  <2> QED
    BY <1>1, <2>1, <2>2, <2>3, ReaderOrder
<1>4. ~Purge(m) => ~m.purge
  BY DEF Handshake, Reject, Connect, Diagnostic, IsFrame, IsRejected
<1> QED
  BY <1>2, <1>3, <1>4 DEF Purge, Handshake, Reject, Connect, Diagnostic

(* Disconnect, Unsubscribe and SendExpired: at most a receipt, and what    *)
(* its frame ends is no longer in the table.                               *)
LEMMA EndOrder ==
    ASSUME TypeInv, OrderInv, NEW m,
           Disconnect(m) \/ Unsubscribe(m) \/ SendExpired(m)
    PROVE  OrderInv'
<1>1. /\ Dequeue(m) /\ ~m.purge /\ Receipt(m, output_queue)
      /\ topics'.items \subseteq topics.items
      /\ stale_queue'.items = {}
  BY DEF Disconnect, Unsubscribe, SendExpired, IsFrame, readerState,
         pubsub_remove_client, pubsub_unsubscribe, Unchain, OrderInv, NoStale
<1>2. output_queue \in List(OutputType) /\ WellFormed(output_queue)
  BY DEF TypeInv, TypeOK, Lists
<1> DEFINE out == Output("RECEIPT", m.session, m.frame, m.ticket, None)
<1>3. PICK new :
        /\ output_queue'.items = output_queue.items \cup new
        /\ \A x \in output_queue.items, y \in new : x.pos < y.pos
        /\ \A x \in new : x.pos \in Nat /\ x.data = out
  BY <1>1, <1>2, ReceiptItems
<1>4. /\ out.kind = "RECEIPT" /\ out.ticket = m.ticket /\ out.frame = m.frame
      /\ out.session = m.session
  BY DEF Output
<1>5. \A s \in topics'.items : ~Ends(out, s.data)
  <2>1. CASE Disconnect(m)
    BY <1>4, <2>1 DEF Disconnect, pubsub_remove_client, Unchain, Ends
  <2>2. CASE Unsubscribe(m)
    BY <1>4, <2>2 DEF Unsubscribe, pubsub_unsubscribe, Unchain, Ends, IsFrame
  <2>3. CASE SendExpired(m)
    BY <1>4, <2>3 DEF SendExpired, Ends, IsFrame
  <2> QED
    BY <2>1, <2>2, <2>3
<1> HIDE DEF out
<1>6. \A x \in new : /\ ~m.purge /\ x.data.ticket \in {0, m.ticket}
                     /\ x.data.kind = "RECEIPT"
                     /\ \A s \in topics'.items : ~Ends(x.data, s.data)
  BY <1>1, <1>3, <1>4, <1>5
<1> QED
  BY <1>1, <1>3, <1>6, ReaderOrder

(* Subscribe: there is nothing to give to the new subscription. *)
LEMMA SubscribeOrder ==
    ASSUME TypeInv, OrderInv, NEW m, Subscribe(m)
    PROVE  OrderInv'
<1>1. Dequeue(m) /\ ~m.purge /\ IsFrame(m, "SUBSCRIBE")
  BY DEF Subscribe, IsFrame
<1> DEFINE sub == Subscription(m.session, m.frame.topic, m.frame.id, m.ticket)
<1>2. PICK expired :
        LET copies == {[pos |-> s.pos,
                        data |-> Output("MESSAGE", m.session, None,
                                       s.data.ticket, sub)] :
                          s \in FromStale(sub, expired)}
        IN  /\ topics' = pubsub_subscribe(topics, sub)
            /\ stale_queue' = Unchain(stale_queue, stale_queue.items
                                 \ (expired \cup FromStale(sub, expired)))
            /\ Receipt(m, EnqueueMultiple(output_queue, copies))
  BY DEF Subscribe
<1>3. FromStale(sub, expired) = {} /\ stale_queue'.items = {}
  BY <1>2 DEF OrderInv, NoStale, FromStale, Unchain
<1> DEFINE queue == EnqueueMultiple(output_queue, {})
<1>4. Receipt(m, queue)
  BY <1>2, <1>3
<1>5. queue \in List(OutputType) /\ WellFormed(queue)
  <2>1. output_queue \in List(OutputType) /\ WellFormed(output_queue)
    BY DEF TypeInv, TypeOK, Lists
  <2>2. {} \in SUBSET Item(OutputType) /\ IsFiniteSet({}) /\ UniquePlaces({})
    BY FS_EmptySet DEF UniquePlaces
  <2> QED
    BY <2>1, <2>2, EnqueueMultipleWellFormed
<1>6. queue.items = output_queue.items
  BY DEF EnqueueMultiple
<1> HIDE DEF queue
<1> DEFINE out == Output("RECEIPT", m.session, m.frame, m.ticket, None)
<1>7. PICK new :
        /\ output_queue'.items = queue.items \cup new
        /\ \A x \in queue.items, y \in new : x.pos < y.pos
        /\ \A x \in new : x.pos \in Nat /\ x.data = out
  BY <1>4, <1>5, ReceiptItems
<1>8. out.kind = "RECEIPT" /\ out.ticket = m.ticket /\ \A d : ~Ends(out, d)
  BY <1>1 DEF Output, Ends, IsFrame
<1>9. /\ \A s \in topics'.items : s \in topics.items \/ s.data.born = m.ticket
      /\ \A s, t \in topics'.items \ topics.items : s = t
  BY <1>2 DEF pubsub_subscribe, Enqueue, Subscription
<1> HIDE DEF out, sub
<1>10. \A x \in new : /\ ~m.purge /\ x.data.ticket \in {0, m.ticket}
                      /\ x.data.kind = "RECEIPT"
                      /\ \A s \in topics'.items : ~Ends(x.data, s.data)
  BY <1>1, <1>7, <1>8
<1> QED
  BY <1>1, <1>3, <1>6, <1>7, <1>9, <1>10, ReaderOrder

(* pick_next finds a subscription whenever one matches. *)
LEMMA PickNextFinds ==
    ASSUME TypeInv, NEW matching \in SUBSET topics.items, matching # {}
    PROVE  pick_next(matching, next_counter) # {}
<1>1. /\ IsFiniteSet(topics.items) /\ UniquePlaces(topics.items)
      /\ \A s \in topics.items : s.pos \in Nat
      /\ next_counter \in Nat
  BY DEF TypeInv, TypeOK, Lists, WellFormed, List, Item
<1>2. IsFiniteSet(matching) /\ UniquePlaces(matching)
  BY <1>1, FS_Subset DEF UniquePlaces
<1> DEFINE n == Cardinality(matching)
<1>3. n \in Nat \ {0}
  BY <1>2, FS_CardinalityType, FS_EmptySet
<1> HIDE DEF n
<1>4. next_counter % n \in Nat /\ next_counter % n < n
  BY <1>1, <1>3
<1>5. \E s \in matching : Rank(matching, s) = next_counter % n
  BY <1>1, <1>2, <1>4, RankOnto DEF n
<1> QED
  BY <1>5 DEF pick_next, n

(* The subscriptions that get a message, and what they get. *)
Matching(m) == pubsub_find_matching(topics, m.frame.topic)
Chosen(m) ==
    IF Matching(m) # {} /\ IsWorkerTopic(m.frame.topic)
    THEN pick_next(Matching(m), next_counter)
    ELSE Matching(m)
Copy(m, s) == Output("MESSAGE", s.data.session, None, m.ticket, s.data)

(* Send: one message for each chosen subscription, then the receipt; the   *)
(* stale queue is left alone because something was chosen.                 *)
LEMMA SendItems ==
    ASSUME TypeInv, OrderInv, NEW m, Send(m)
    PROVE  \E mail, last :
             /\ output_queue'.items = (output_queue.items \cup mail) \cup last
             /\ \A x \in mail : /\ x.pos \in Nat /\ x.pos > output_queue.last
                                /\ \E s \in Chosen(m) : x.data = Copy(m, s)
             /\ \A s \in Chosen(m) : \E x \in mail : x.data = Copy(m, s)
             /\ \A x, y \in mail : x.data.sub = y.data.sub => x = y
             /\ \A x \in last : /\ x.pos \in Nat
                                /\ x.data = Output("RECEIPT", m.session, m.frame,
                                                   m.ticket, None)
             /\ \A x \in output_queue.items \cup mail, y \in last : x.pos < y.pos
             /\ stale_queue'.items = {}
             /\ Chosen(m) \in SUBSET Matching(m)
             /\ Matching(m) # {} => Chosen(m) # {}
<1>1. /\ Dequeue(m) /\ ~m.purge /\ IsFrame(m, "SEND") /\ Distribute(m)
      /\ UNCHANGED topics
  BY DEF Send, IsFrame
<1> DEFINE matching == Matching(m)
           chosen == Chosen(m)
           out == [s \in chosen |-> Copy(m, s)]
           copies == {[pos |-> s.pos, data |-> out[s]] : s \in chosen}
           queue == EnqueueMultiple(output_queue, copies)
<1>2. /\ stale_queue' = IF matching # {} /\ copies = {} /\ Ttl > 0
                        THEN EnqueueLimited(stale_queue, m, MaxStaleQueue)
                        ELSE stale_queue
      /\ Receipt(m, queue)
  BY <1>1 DEF Distribute, Matching, Chosen, Copy
<1>3. /\ matching \in SUBSET topics.items /\ chosen \in SUBSET matching
      /\ chosen \in SUBSET topics.items
  BY DEF Matching, Chosen, pubsub_find_matching, pick_next
<1>4. matching # {} => chosen # {}
  BY <1>3, PickNextFinds DEF Chosen
<1>5. stale_queue'.items = {}
  <2>1. chosen # {} => copies # {}
    OBVIOUS
  <2>2. stale_queue' = stale_queue
    <3> HIDE DEF matching, chosen, copies
    <3> QED
      BY <1>2, <1>4, <2>1
  <2> QED
    BY <2>2 DEF OrderInv, NoStale
<1> HIDE DEF matching, chosen
<1>6. /\ IsFiniteSet(chosen) /\ UniquePlaces(chosen)
      /\ \A s \in chosen : s.pos \in Nat
      /\ out \in [chosen -> OutputType]
  <2>1. WellFormed(topics) /\ topics.items \in SUBSET Item(SubscriptionType)
    BY DEF TypeInv, TypeOK, Lists, List
  <2>2. IsFiniteSet(chosen) /\ UniquePlaces(chosen)
    BY <1>3, <2>1, FS_Subset DEF WellFormed, UniquePlaces
  <2>3. \A s \in chosen : /\ s.pos \in Nat /\ s.data \in SubscriptionType
                          /\ s.data.session \in Session
    BY <1>3, <2>1 DEF Item, SubscriptionType
  <2>4. m.ticket \in Nat
    BY <1>1, DequeueType DEF TypeInv
  <2>5. \A s \in chosen : Copy(m, s) \in OutputType
    BY <2>3, <2>4, OutputIsTyped DEF Kinds, Copy
  <2> QED
    BY <2>2, <2>3, <2>5
<1>7. \A s \in chosen : out[s] = Copy(m, s) /\ out[s].sub = s.data
  BY DEF Output, Copy
<1> HIDE DEF out
<1>8. queue \in List(OutputType) /\ WellFormed(queue)
  BY <1>6, CopiesTyped
<1>9. \A c \in copies : \E s \in chosen : c = [pos |-> s.pos, data |-> out[s]]
  OBVIOUS
<1>10. IsFiniteSet(copies)
  <2>1. PICK f : f = [s \in chosen |-> [pos |-> s.pos, data |-> out[s]]]
    OBVIOUS
  <2>2. f = [s \in chosen |-> f[s]] /\ copies = {f[s] : s \in chosen}
    BY <2>1
  <2> QED
    BY <1>6, <2>2, FiniteImage
<1> HIDE DEF copies
<1> DEFINE mail == {[pos |-> output_queue.last + 1 + Rank(copies, c),
                     data |-> c.data] : c \in copies}
<1>11. /\ queue.items = output_queue.items \cup mail
       /\ \A x \in mail : \E c \in copies :
             x = [pos |-> output_queue.last + 1 + Rank(copies, c),
                  data |-> c.data]
  BY DEF EnqueueMultiple
<1> HIDE DEF mail
<1>12. /\ output_queue.last \in Nat
       /\ \A x \in output_queue.items : x.pos \in Nat /\ x.pos <= output_queue.last
  BY DEF TypeInv, TypeOK, Lists, WellFormed, List, Item
<1>13. \A c \in copies : c.pos \in Nat /\ Rank(copies, c) \in Nat
  <2>1. \A c \in copies : c.pos \in Nat
    BY <1>6, <1>9
  <2> QED
    BY <1>10, <2>1, RankBounds
<1>14. \A x \in mail : /\ x.pos \in Nat /\ x.pos > output_queue.last
                       /\ \E s \in chosen : x.data = Copy(m, s)
  <2> SUFFICES ASSUME NEW x \in mail
               PROVE  /\ x.pos \in Nat /\ x.pos > output_queue.last
                      /\ \E s \in chosen : x.data = Copy(m, s)
    OBVIOUS
  <2>1. PICK c \in copies : x = [pos |-> output_queue.last + 1 + Rank(copies, c),
                                 data |-> c.data]
    BY <1>11
  <2>2. x.pos = output_queue.last + 1 + Rank(copies, c) /\ x.data = c.data
    BY <2>1
  <2>3. x.pos \in Nat /\ x.pos > output_queue.last
    BY <1>12, <1>13, <2>2
  <2>4. PICK s \in chosen : c = [pos |-> s.pos, data |-> out[s]]
    BY <1>9
  <2>5. x.data = out[s]
    BY <2>2, <2>4
  <2> QED
    BY <1>7, <2>3, <2>5
<1>15. ASSUME NEW x \in mail, NEW y \in mail, x.data.sub = y.data.sub
       PROVE  x = y
  <2>1. PICK c \in copies : x = [pos |-> output_queue.last + 1 + Rank(copies, c),
                                 data |-> c.data]
    BY <1>11
  <2>2. PICK d \in copies : y = [pos |-> output_queue.last + 1 + Rank(copies, d),
                                 data |-> d.data]
    BY <1>11
  <2>3. PICK s \in chosen : c = [pos |-> s.pos, data |-> out[s]]
    BY <1>9
  <2>4. PICK t \in chosen : d = [pos |-> t.pos, data |-> out[t]]
    BY <1>9
  <2>5. s.data = t.data
    BY <1>7, <1>15, <2>1, <2>2, <2>3, <2>4
  <2>6. s = t
    BY <1>3, <2>5 DEF OrderInv, BornOnce
  <2> QED
    BY <2>1, <2>2, <2>3, <2>4, <2>6
<1>16. ASSUME NEW s \in chosen
       PROVE  \E x \in mail : x.data = Copy(m, s)
  <2>1. PICK c \in copies : c = [pos |-> s.pos, data |-> out[s]]
    BY DEF copies
  <2>2. PICK x \in mail : x = [pos |-> output_queue.last + 1 + Rank(copies, c),
                               data |-> c.data]
    BY DEF mail
  <2>3. x.data = out[s]
    BY <2>1, <2>2
  <2> QED
    BY <1>7, <2>3
<1> HIDE DEF queue
<1>17. PICK last :
         /\ output_queue'.items = queue.items \cup last
         /\ \A x \in queue.items, y \in last : x.pos < y.pos
         /\ \A x \in last : /\ x.pos \in Nat
                            /\ x.data = Output("RECEIPT", m.session, m.frame,
                                               m.ticket, None)
  BY <1>2, <1>8, ReceiptItems
<1>18. /\ output_queue'.items = (output_queue.items \cup mail) \cup last
       /\ \A x \in output_queue.items \cup mail, y \in last : x.pos < y.pos
  BY <1>11, <1>17
<1>19. chosen = Chosen(m) /\ matching = Matching(m)
  BY DEF chosen, matching
<1>20. \A x \in mail : /\ x.pos \in Nat /\ x.pos > output_queue.last
                       /\ \E s \in Chosen(m) : x.data = Copy(m, s)
  BY <1>14, <1>19
<1>21. \A s \in Chosen(m) : \E x \in mail : x.data = Copy(m, s)
  BY <1>16, <1>19
<1>22. \A x, y \in mail : x.data.sub = y.data.sub => x = y
  BY <1>15
<1>23. /\ Chosen(m) \in SUBSET Matching(m)
       /\ Matching(m) # {} => Chosen(m) # {}
  BY <1>3, <1>4, <1>19
<1>24. \A x \in last : /\ x.pos \in Nat
                       /\ x.data = Output("RECEIPT", m.session, m.frame,
                                          m.ticket, None)
  BY <1>17
<1> QED
  BY ONLY <1>5, <1>18, <1>20, <1>21, <1>22, <1>23, <1>24, Zenon

LEMMA SendOrderKept ==
    ASSUME TypeInv, OrderInv, NEW m, Send(m)
    PROVE  OrderInv'
<1>1. /\ Dequeue(m) /\ ~m.purge /\ IsFrame(m, "SEND") /\ UNCHANGED topics
  BY DEF Send, IsFrame
<1>2. PICK mail, last :
             /\ output_queue'.items = (output_queue.items \cup mail) \cup last
             /\ \A x \in mail : /\ x.pos \in Nat /\ x.pos > output_queue.last
                                /\ \E s \in Chosen(m) : x.data = Copy(m, s)
             /\ \A x, y \in mail : x.data.sub = y.data.sub => x = y
             /\ \A x \in last : /\ x.pos \in Nat
                                /\ x.data = Output("RECEIPT", m.session, m.frame,
                                                   m.ticket, None)
             /\ \A x \in output_queue.items \cup mail, y \in last : x.pos < y.pos
             /\ stale_queue'.items = {}
             /\ Chosen(m) \in SUBSET Matching(m)
  BY SendItems
<1>3. /\ output_queue.last \in Nat
      /\ \A x \in output_queue.items : x.pos \in Nat /\ x.pos <= output_queue.last
  BY DEF TypeInv, TypeOK, Lists, WellFormed, List, Item
<1>4. \A x \in mail : /\ x.data.kind = "MESSAGE" /\ x.data.ticket = m.ticket
                      /\ \E s \in topics.items : s.data = x.data.sub
  <2> SUFFICES ASSUME NEW x \in mail
               PROVE  /\ x.data.kind = "MESSAGE" /\ x.data.ticket = m.ticket
                      /\ \E s \in topics.items : s.data = x.data.sub
    OBVIOUS
  <2>1. PICK s \in Chosen(m) : x.data = Copy(m, s)
    BY <1>2
  <2>2. s \in topics.items
    BY <1>2 DEF Matching, pubsub_find_matching
  <2>3. /\ Copy(m, s).kind = "MESSAGE" /\ Copy(m, s).ticket = m.ticket
        /\ Copy(m, s).sub = s.data
    BY DEF Copy, Output
  <2> QED
    BY <2>1, <2>2, <2>3
<1> DEFINE receipt == Output("RECEIPT", m.session, m.frame, m.ticket, None)
<1>5. /\ receipt.kind = "RECEIPT" /\ receipt.ticket = m.ticket
       /\ \A d : ~Ends(receipt, d)
  BY <1>1 DEF Output, Ends, IsFrame
<1> HIDE DEF receipt
<1> DEFINE new == mail \cup last
<1>6. output_queue'.items = output_queue.items \cup new
  BY <1>2
<1>7. \A x \in output_queue.items, y \in new : x.pos < y.pos
  BY <1>2, <1>3
<1>8. \A x \in last : /\ x.pos \in Nat /\ x.data.kind = "RECEIPT"
                       /\ x.data.ticket = m.ticket /\ \A d : ~Ends(x.data, d)
  BY <1>2, <1>5 DEF receipt
<1>9. \A x \in mail, y \in last : x.pos < y.pos
  BY <1>2
<1>10. \A x \in new : /\ x.pos \in Nat /\ x.data.ticket \in {0, m.ticket}
                      /\ x.data.kind = "MESSAGE" => x \in mail
                      /\ x.data.kind = "RECEIPT" => x \in last
  BY <1>2, <1>4, <1>8
<1> HIDE DEF new
<1>11. \A x \in new : x.data.kind = "MESSAGE" =>
          /\ x.data.ticket = m.ticket
          /\ \E s \in topics.items : s.data = x.data.sub
  BY <1>4, <1>10
<1>12. \A x, y \in new : /\ x.data.kind = "MESSAGE" /\ y.data.kind = "MESSAGE"
                         /\ x.data.sub = y.data.sub
                         => x = y
  BY <1>2, <1>10
<1>13. \A x, y \in new : x.data.kind = "RECEIPT" /\ y.data.kind = "MESSAGE"
                         => y.pos < x.pos
  BY <1>9, <1>10
<1>14. \A x \in new, s \in topics'.items :
          x.data.kind = "RECEIPT" => ~Ends(x.data, s.data)
  BY <1>8, <1>10
<1>15. \A x \in new : ~m.purge /\ x.pos \in Nat /\ x.data.ticket \in {0, m.ticket}
  BY <1>1, <1>10
<1> QED
  BY <1>1, <1>2, <1>6, <1>7, <1>11, <1>12, <1>13, <1>14, <1>15, ReaderOrder

-----------------------------------------------------------------------------
(* The other threads.                                                      *)

(* A step that adds to the input queue, or takes from the output queue. *)
LEMMA OthersOrder ==
    ASSUME TypeInv, OrderInv, UNCHANGED readerState,
           output_queue'.items \subseteq output_queue.items,
           Numbered', \A n : Handled(n) => Handled(n)'
    PROVE  OrderInv'
<1>1. UNCHANGED <<topics, stale_queue>>
  BY DEF readerState
<1>2. Behind'
  BY <1>1 DEF OrderInv, Behind
<1>3. BornOnce' /\ NoStale'
  BY <1>1 DEF OrderInv, BornOnce, NoStale
<1>4. SendOrder' /\ ReceiptCloses'
  BY DEF OrderInv, SendOrder, ReceiptCloses
<1>5. EndedGone'
  BY <1>1 DEF OrderInv, EndedGone
<1> QED
  BY <1>2, <1>3, <1>4, <1>5 DEF OrderInv

(* The main thread and the writers add to the input queue only at its      *)
(* tail, with the next ticket, or purge commands.                          *)
LEMMA MainNumbered ==
    ASSUME TypeOK, Numbered, Main
    PROVE  Numbered' /\ \A n : Handled(n) => Handled(n)'
<1>1. /\ ticket \in Nat
      /\ clients \in [Fds -> {"empty", "plain", "encoded"}]
  BY DEF TypeOK
<1>2. CASE UNCHANGED <<input_queue, ticket>>
  BY <1>2 DEF Numbered, Handled
<1>3. ASSUME NEW fd \in Fds, NEW enc \in BOOLEAN, NEW frame \in Frames,
             ReadFrame(fd, enc, frame), ~UNCHANGED <<input_queue, ticket>>
      PROVE  Numbered' /\ \A n : Handled(n) => Handled(n)'
  <2> DEFINE d == Message(fd, enc, frame, ticket + 1)
  <2>1. input_queue' = Append(input_queue, d) /\ ticket' = ticket + 1
    BY <1>3 DEF ReadFrame
  <2>2. d \in InputType /\ ~d.purge /\ d.ticket = ticket + 1
    BY <1>1, MessageTypes DEF Message
  <2> HIDE DEF d
  <2> QED
    BY <2>1, <2>2, AppendOrder
<1>4. ASSUME NEW fd \in Fds, CloseConnection(fd), input_queue' # input_queue
      PROVE  Numbered' /\ \A n : Handled(n) => Handled(n)'
  <2> DEFINE d == PurgeMessage(fd, clients[fd] = "encoded")
  <2>1. input_queue' = Append(input_queue, d) /\ ticket' = ticket
    BY <1>4 DEF CloseConnection
  <2>2. d \in InputType /\ d.purge
    BY MessageTypes DEF PurgeMessage
  <2> HIDE DEF d
  <2> QED
    BY <2>1, <2>2, AppendOrder
<1>5. ASSUME NEW fd \in Fds, CloseConnection(fd)
      PROVE  UNCHANGED ticket
  BY <1>5 DEF CloseConnection
<1>6. ASSUME NEW fd \in Fds, ReadIncomplete(fd)
      PROVE  UNCHANGED <<input_queue, ticket>>
  BY <1>6 DEF ReadIncomplete
<1> QED
  BY <1>2, <1>3, <1>4, <1>5, <1>6 DEF Main

LEMMA WriterNumbered ==
    ASSUME TypeOK, Numbered, NEW w \in Writers, Writer(w)
    PROVE  Numbered' /\ \A n : Handled(n) => Handled(n)'
<1>1. /\ writer \in [Writers -> BusyWriter \cup {IdleWriter}]
      /\ UNCHANGED ticket
  BY DEF TypeOK, Writer, WriterTake, WriterSent, WriterFail, WriterClean
<1>2. CASE UNCHANGED input_queue
  BY <1>1, <1>2 DEF Numbered, Handled
<1>3. CASE WriterFail(w)
  <2> DEFINE d == PurgeMessage(writer[w].fd, FALSE)
  <2>1. input_queue' = <<d>> \o input_queue
    BY <1>3 DEF WriterFail
  <2>2. writer[w].fd \in Fds
    BY <1>1, <1>3 DEF WriterFail, BusyWriter, IdleWriter
  <2>3. d \in InputType /\ d.purge
    BY <2>2, MessageTypes DEF PurgeMessage
  <2> HIDE DEF d
  <2> QED
    BY <1>1, <2>1, <2>3, PutHeadOrder
<1>4. UNCHANGED input_queue \/ WriterFail(w)
  BY DEF Writer, WriterTake, WriterSent, WriterClean
<1> QED
  BY <1>2, <1>3, <1>4

LEMMA MainOrder ==
    ASSUME TypeInv, OrderInv, Main
    PROVE  OrderInv'
<1>1. UNCHANGED <<readerState, output_queue>>
  BY DEF Main, ReadFrame, ReadIncomplete, CloseConnection
<1>2. TypeOK /\ Numbered
  BY DEF TypeInv, OrderInv
<1>3. Numbered' /\ \A n : Handled(n) => Handled(n)'
  BY <1>2, MainNumbered
<1> QED
  BY <1>1, <1>3, OthersOrder

LEMMA WriterOrder ==
    ASSUME TypeInv, OrderInv, NEW w \in Writers, Writer(w)
    PROVE  OrderInv'
<1>1. UNCHANGED readerState /\ output_queue'.items \subseteq output_queue.items
  BY DEF Writer, WriterTake, WriterSent, WriterFail, WriterClean, Unchain
<1>2. TypeOK /\ Numbered
  BY DEF TypeInv, OrderInv
<1>3. Numbered' /\ \A n : Handled(n) => Handled(n)'
  BY <1>2, WriterNumbered
<1> QED
  BY <1>1, <1>3, OthersOrder

LEMMA InitOrder == Init => OrderInv
BY EmptySeq DEF Init, OrderInv, Numbered, Behind, BornOnce, NoStale, SendOrder,
   EndedGone, ReceiptCloses, EmptyList

LEMMA NextOrder == TypeInv /\ OrderInv /\ [Next]_vars => OrderInv'
<1> SUFFICES ASSUME TypeInv, OrderInv, [Next]_vars PROVE OrderInv'
  OBVIOUS
<1>1. CASE UNCHANGED vars
  <2>1. UNCHANGED <<readerState, output_queue, input_queue, ticket>>
    BY <1>1 DEF vars
  <2> QED
    BY <2>1, OthersOrder DEF OrderInv, Numbered, Handled
<1>2. CASE Reader
  <2>1. Handshake(Head(input_queue)) \/ stomp_process(Head(input_queue))
    BY <1>2 DEF Reader
  <2> QED
    BY <2>1, AnswerOrder, EndOrder, SubscribeOrder, SendOrderKept
       DEF stomp_process
<1> QED
  BY <1>1, <1>2, MainOrder, WriterOrder DEF Next

(* The inductive invariant. *)
LEMMA OrderInvHolds == Spec => []OrderInv
BY InitOrder, NextOrder, TypeInvHolds, PTL DEF Spec

-----------------------------------------------------------------------------
(* However frames, purge commands and writers interleave, distribute_      *)
(* messages and ts_enqueue_multiple put the messages of one subscription   *)
(* on the output queue in the order of their SEND frames, each once.       *)
THEOREM SendOrderHolds == Spec => []SendOrder
<1>1. OrderInv => SendOrder
  BY DEF OrderInv
<1> QED
  BY <1>1, OrderInvHolds, PTL

(* The receipt stomp_process gives for an UNSUBSCRIBE or a DISCONNECT is   *)
(* behind the last message of the subscriptions it ended.                  *)
THEOREM ReceiptClosesHolds == Spec => []ReceiptCloses
<1>1. OrderInv => ReceiptCloses
  BY DEF OrderInv
<1> QED
  BY <1>1, OrderInvHolds, PTL

(* distribute_messages fills the stale queue only where subscriptions      *)
(* match and none of them is chosen.  pick_next always chooses one, so no  *)
(* message is ever kept for a later subscriber, whatever the time to live. *)
THEOREM StaleQueueStaysEmpty == Spec => []NoStale
<1>1. OrderInv => NoStale
  BY DEF OrderInv
<1> QED
  BY <1>1, OrderInvHolds, PTL

-----------------------------------------------------------------------------
(* The exchange.  The mail of a subscription is a sequence of tickets; it  *)
(* is compared with the set of items it stands for through their ranks.    *)

(* The items of a queue as the mail counts them. *)
Queued(W) ==
    /\ IsFiniteSet(W) /\ UniquePlaces(W)
    /\ \A x \in W : x.pos \in Nat /\ x.data.ticket \in Nat

Tickets(W) ==
    [i \in 1 .. Cardinality(W) |->
        (CHOOSE x \in W : Rank(W, x) = i - 1).data.ticket]

For(M, sub) == {x \in M : x.data.sub = sub}

MailOf(M) == [sub \in {x.data.sub : x \in M} |-> Tickets(For(M, sub))]

Mailed(Q) == {x \in Q : x.data.kind = "MESSAGE"}

LEMMA MailIs ==
    /\ Mail = MailOf(Mailed(output_queue.items))
    /\ Mail' = MailOf(Mailed(output_queue'.items))
<1>1. /\ \A sub : Waiting(sub) = For(Mailed(output_queue.items), sub)
      /\ \A sub : Waiting(sub)' = For(Mailed(output_queue'.items), sub)
  BY DEF Waiting, For, Mailed
<1>2. Mail = [sub \in {x.data.sub : x \in Mailed(output_queue.items)} |->
                Tickets(Waiting(sub))]
  BY DEF Mail, Tickets, Mailed
<1>3. Mail' = [sub \in {x.data.sub : x \in Mailed(output_queue'.items)} |->
                Tickets(Waiting(sub)')]
  BY DEF Mail, Tickets, Mailed
<1> QED
  BY <1>1, <1>2, <1>3 DEF MailOf

LEMMA QueuedSubset ==
    ASSUME NEW W, Queued(W), NEW V \in SUBSET W
    PROVE  Queued(V)
BY FS_Subset DEF Queued, UniquePlaces

LEMMA TicketsOf ==
    ASSUME NEW W, Queued(W)
    PROVE  /\ Cardinality(W) \in Nat
           /\ Tickets(W) \in Seq(Nat) /\ Len(Tickets(W)) = Cardinality(W)
           /\ \A x \in W : /\ Rank(W, x) \in Nat
                           /\ Rank(W, x) + 1 \in 1 .. Cardinality(W)
                           /\ Tickets(W)[Rank(W, x) + 1] = x.data.ticket
           /\ \A i \in 1 .. Cardinality(W) : \E x \in W : Rank(W, x) + 1 = i
<1> DEFINE n == Cardinality(W)
<1>1. n \in Nat
  BY FS_CardinalityType DEF Queued
<1>2. \A x \in W : /\ Rank(W, x) \in Nat /\ Rank(W, x) + 1 \in 1 .. n
  BY <1>1, RankBounds DEF Queued
<1>3. ASSUME NEW i \in 1 .. n
      PROVE  \E x \in W : Rank(W, x) = i - 1
  <2>1. i - 1 \in Nat /\ i - 1 < Cardinality(W)
    BY <1>1
  <2> QED
    BY <2>1, RankOnto DEF Queued
<1>4. \A x, y \in W : Rank(W, x) = Rank(W, y) => x = y
  BY RankInjective DEF Queued
<1> DEFINE at(i) == CHOOSE x \in W : Rank(W, x) = i - 1
<1>5. \A i \in 1 .. n : at(i) \in W /\ Rank(W, at(i)) = i - 1
  BY <1>3
<1>6. \A x \in W : at(Rank(W, x) + 1) = x
  <2> SUFFICES ASSUME NEW x \in W PROVE at(Rank(W, x) + 1) = x
    OBVIOUS
  <2>1. at(Rank(W, x) + 1) \in W /\ Rank(W, at(Rank(W, x) + 1)) = Rank(W, x)
    <3>1. Rank(W, x) + 1 - 1 = Rank(W, x)
      BY <1>2
    <3> QED
      BY <1>2, <1>5, <3>1
  <2> QED
    BY <1>4, <2>1
<1>7. Tickets(W) = [i \in 1 .. n |-> at(i).data.ticket]
  BY DEF Tickets
<1> HIDE DEF at, n
<1>8. \A i \in 1 .. n : at(i).data.ticket \in Nat
  BY <1>5 DEF Queued
<1>9. Tickets(W) \in Seq(Nat) /\ Len(Tickets(W)) = n
  BY <1>1, <1>7, <1>8
<1>10. \A x \in W : Tickets(W)[Rank(W, x) + 1] = x.data.ticket
  BY <1>2, <1>6, <1>7
<1>11. \A i \in 1 .. n : \E x \in W : Rank(W, x) + 1 = i
  <2> SUFFICES ASSUME NEW i \in 1 .. n
               PROVE  \E x \in W : Rank(W, x) + 1 = i
    OBVIOUS
  <2>1. PICK x \in W : Rank(W, x) = i - 1
    BY <1>3
  <2>2. (i - 1) + 1 = i
    BY <1>1
  <2> QED
    BY <2>1, <2>2
<1> QED
  BY <1>1, <1>2, <1>9, <1>10, <1>11 DEF n

LEMMA TicketsAre ==
    ASSUME NEW W, Queued(W), NEW t \in Seq(Nat), Len(t) = Cardinality(W),
           \A x \in W : t[Rank(W, x) + 1] = x.data.ticket
    PROVE  Tickets(W) = t
<1>1. /\ Tickets(W) \in Seq(Nat) /\ Len(Tickets(W)) = Cardinality(W)
      /\ \A x \in W : Tickets(W)[Rank(W, x) + 1] = x.data.ticket
      /\ \A i \in 1 .. Cardinality(W) : \E x \in W : Rank(W, x) + 1 = i
  BY TicketsOf
<1>2. \A i \in 1 .. Len(t) : Tickets(W)[i] = t[i]
  BY <1>1
<1> QED
  BY <1>1, <1>2, SeqEqual

LEMMA TicketsNone == Tickets({}) = <<>>
<1>1. Queued({}) /\ Cardinality({}) = 0
  BY FS_EmptySet DEF Queued, UniquePlaces
<1>2. PICK t \in Seq(Nat) : t = <<>> /\ Len(t) = 0
  BY EmptySeq
<1>3. Tickets({}) = t
  BY <1>1, <1>2, TicketsAre
<1> QED
  BY <1>2, <1>3

(* One more, behind the others. *)
LEMMA TicketsAdd ==
    ASSUME NEW W, Queued(W), NEW y, y.pos \in Nat, y.data.ticket \in Nat,
           \A x \in W : x.pos < y.pos
    PROVE  /\ Queued(W \cup {y})
           /\ Tickets(W \cup {y}) = Append(Tickets(W), y.data.ticket)
<1>1. /\ IsFiniteSet(W)
      /\ \A x \in W : x.pos \in Nat /\ x.pos < y.pos
  BY DEF Queued
<1>2. /\ \A x \in W : Rank(W \cup {y}, x) = Rank(W, x)
      /\ Rank(W \cup {y}, y) = Cardinality(W)
      /\ Cardinality(W \cup {y}) = Cardinality(W) + 1
      /\ IsFiniteSet(W \cup {y})
  BY <1>1, RankAddLast
<1>3. Queued(W \cup {y})
  BY <1>1, <1>2 DEF Queued, UniquePlaces
<1>4. /\ Tickets(W) \in Seq(Nat) /\ Len(Tickets(W)) = Cardinality(W)
      /\ Cardinality(W) \in Nat
      /\ \A x \in W : /\ Rank(W, x) + 1 \in 1 .. Cardinality(W)
                      /\ Tickets(W)[Rank(W, x) + 1] = x.data.ticket
  BY TicketsOf
<1>5. PICK t : t = Append(Tickets(W), y.data.ticket)
  OBVIOUS
<1>6. /\ t \in Seq(Nat) /\ Len(t) = Cardinality(W) + 1
      /\ \A i \in 1 .. Cardinality(W) : t[i] = Tickets(W)[i]
      /\ t[Cardinality(W) + 1] = y.data.ticket
  BY <1>4, <1>5, AppendProperties
<1>7. \A x \in W \cup {y} : t[Rank(W \cup {y}, x) + 1] = x.data.ticket
  BY <1>2, <1>4, <1>6
<1>8. Tickets(W \cup {y}) = t
  BY <1>2, <1>3, <1>6, <1>7, TicketsAre
<1> QED
  BY <1>3, <1>5, <1>8

(* The oldest ones taken out. *)
LEMMA TicketsRemove ==
    ASSUME NEW W, Queued(W), NEW P \in SUBSET W,
           \A x \in P, y \in W \ P : x.pos < y.pos
    PROVE  /\ Cardinality(P) \in 0 .. Len(Tickets(W))
           /\ Tickets(W \ P) = SubSeq(Tickets(W), Cardinality(P) + 1,
                                      Len(Tickets(W)))
<1>1. IsFiniteSet(W) /\ \A x \in W : x.pos \in Nat
  BY DEF Queued
<1>2. /\ \A y \in W \ P : Rank(W, y) = Cardinality(P) + Rank(W \ P, y)
      /\ Cardinality(W) = Cardinality(P) + Cardinality(W \ P)
      /\ Cardinality(P) \in Nat /\ Cardinality(W \ P) \in Nat
  BY <1>1, RankRemoveFirst
<1>3. Queued(W \ P)
  BY QueuedSubset
<1>4. /\ Tickets(W) \in Seq(Nat) /\ Len(Tickets(W)) = Cardinality(W)
      /\ \A x \in W : Tickets(W)[Rank(W, x) + 1] = x.data.ticket
  BY TicketsOf
<1>5. PICK t, k, n : /\ t = SubSeq(Tickets(W), Cardinality(P) + 1,
                                   Len(Tickets(W)))
                     /\ k = Cardinality(P) /\ n = Cardinality(W \ P)
  OBVIOUS
<1>6. /\ k \in Nat /\ n \in Nat /\ Len(Tickets(W)) = k + n
      /\ t = SubSeq(Tickets(W), k + 1, k + n)
  BY <1>2, <1>4, <1>5
<1>7. /\ t \in Seq(Nat) /\ Len(t) = n
      /\ \A i \in 1 .. n : t[i] = Tickets(W)[k + i]
  BY <1>4, <1>6
<1>8. \A y \in W \ P : t[Rank(W \ P, y) + 1] = y.data.ticket
  <2> SUFFICES ASSUME NEW y \in W \ P
               PROVE  t[Rank(W \ P, y) + 1] = y.data.ticket
    OBVIOUS
  <2>1. PICK r : r = Rank(W \ P, y)
    OBVIOUS
  <2>2. r \in Nat /\ r + 1 \in 1 .. n
    BY <1>3, <1>5, <2>1, TicketsOf
  <2>3. Rank(W, y) + 1 = k + (r + 1)
    <3>1. Rank(W, y) = k + r
      BY <1>2, <1>5, <2>1
    <3> QED
      BY <1>6, <2>2, <3>1
  <2> QED
    BY <1>4, <1>7, <2>1, <2>2, <2>3
<1>9. Tickets(W \ P) = t
  BY <1>3, <1>5, <1>7, <1>8, TicketsAre
<1>10. Cardinality(P) \in 0 .. Len(Tickets(W))
  BY <1>5, <1>6
<1> QED
  BY <1>5, <1>9, <1>10

-----------------------------------------------------------------------------
LEMMA ForType ==
    ASSUME NEW M, Queued(M), NEW sub
    PROVE  /\ For(M, sub) \in SUBSET M /\ Queued(For(M, sub))
           /\ Tickets(For(M, sub)) \in Seq(Nat)
           /\ Len(Tickets(For(M, sub))) = Cardinality(For(M, sub))
<1>1. For(M, sub) \in SUBSET M
  BY DEF For
<1> QED
  BY <1>1, QueuedSubset, TicketsOf

(* N: the message of frame n for some subscriptions, behind those in M. *)
CopiesOf(n, M, N) ==
    /\ \A y \in N : y.pos \in Nat /\ y.data.ticket = n
    /\ \A x \in M, y \in N : x.pos < y.pos
    /\ \A x, y \in N : x.data.sub = y.data.sub => x = y

Receivers(N) == {y.data.sub : y \in N}

(* Message n behind the mail of some subscriptions, as Deliver puts it. *)
Delivered(mail, receivers, n) ==
    [x \in DOMAIN mail \cup receivers |->
        LET waiting == IF x \in DOMAIN mail THEN mail[x] ELSE <<>>
        IN  IF x \in receivers THEN Append(waiting, n) ELSE waiting]

LEMMA MailAdd ==
    ASSUME NEW M, Queued(M), NEW N, NEW n \in Nat, CopiesOf(n, M, N)
    PROVE  MailOf(M \cup N) = Delivered(MailOf(M), Receivers(N), n)
<1> DEFINE receivers == Receivers(N)
           had == {x.data.sub : x \in M}
<1>1. DOMAIN MailOf(M) = had /\ \A x \in had : MailOf(M)[x] = Tickets(For(M, x))
  BY DEF MailOf
<1>2. /\ DOMAIN MailOf(M \cup N) = had \cup receivers
      /\ \A x \in had \cup receivers :
            MailOf(M \cup N)[x] = Tickets(For(M \cup N, x))
  BY DEF MailOf, Receivers
<1>3. \A x : x \notin had => For(M, x) = {}
  BY DEF For
<1>4. \A x : x \notin receivers => For(M \cup N, x) = For(M, x)
  BY DEF For, Receivers
<1>5. ASSUME NEW x \in receivers
      PROVE  Tickets(For(M \cup N, x)) = Append(Tickets(For(M, x)), n)
  <2>1. PICK y \in N : y.data.sub = x
    BY DEF Receivers
  <2>2. For(M \cup N, x) = For(M, x) \cup {y}
    BY <2>1 DEF For, CopiesOf
  <2>3. Queued(For(M, x)) /\ For(M, x) \in SUBSET M
    BY ForType
  <2>4. /\ y.pos \in Nat /\ y.data.ticket \in Nat /\ y.data.ticket = n
        /\ \A z \in For(M, x) : z.pos < y.pos
    BY <2>3 DEF CopiesOf
  <2>5. Tickets(For(M, x) \cup {y}) = Append(Tickets(For(M, x)), y.data.ticket)
    BY <2>3, <2>4, TicketsAdd
  <2> QED
    BY <2>2, <2>4, <2>5
<1> DEFINE waiting(x) == IF x \in had THEN Tickets(For(M, x)) ELSE <<>>
<1>6. \A x : waiting(x) = Tickets(For(M, x))
  BY <1>3, TicketsNone
<1> HIDE DEF had, receivers
<1>7. \A x \in had \cup receivers :
         MailOf(M \cup N)[x] = IF x \in receivers THEN Append(waiting(x), n)
                               ELSE waiting(x)
  BY <1>2, <1>4, <1>5, <1>6
<1>8. MailOf(M \cup N) = [x \in DOMAIN MailOf(M) \cup receivers |->
                            MailOf(M \cup N)[x]]
  BY DEF MailOf, Receivers, had, receivers
<1>9. \A x : waiting(x) = IF x \in DOMAIN MailOf(M) THEN MailOf(M)[x] ELSE <<>>
  BY <1>1
<1> HIDE DEF waiting
<1>10. \A x \in DOMAIN MailOf(M) \cup receivers :
         MailOf(M \cup N)[x] =
           IF x \in receivers
           THEN Append(IF x \in DOMAIN MailOf(M) THEN MailOf(M)[x] ELSE <<>>, n)
           ELSE IF x \in DOMAIN MailOf(M) THEN MailOf(M)[x] ELSE <<>>
  BY <1>1, <1>7, <1>9
<1>11. MailOf(M \cup N) = Delivered(MailOf(M), receivers, n)
  BY <1>8, <1>10 DEF Delivered
<1> QED
  BY <1>11 DEF receivers

(* The mail of session s loses its oldest messages, as Take says. *)
Taken(old, new, s) ==
    /\ DOMAIN new \subseteq DOMAIN old
    /\ \A x \in DOMAIN old :
         IF x \in DOMAIN new
         THEN \E k \in 0 .. Len(old[x]) :
                 /\ new[x] = SubSeq(old[x], k + 1, Len(old[x]))
                 /\ k > 0 => x.session = s
         ELSE x.session = s

LEMMA MailRemove ==
    ASSUME NEW M, Queued(M), NEW P \in SUBSET M, NEW s,
           \A x \in P : x.data.sub.session = s,
           \A x \in P, y \in M \ P : x.data.sub = y.data.sub => x.pos < y.pos
    PROVE  Taken(MailOf(M), MailOf(M \ P), s)
<1> DEFINE R == M \ P
           had == {x.data.sub : x \in M}
           left == {x.data.sub : x \in R}
<1>1. DOMAIN MailOf(M) = had /\ \A x \in had : MailOf(M)[x] = Tickets(For(M, x))
  BY DEF MailOf
<1>2. DOMAIN MailOf(R) = left /\ \A x \in left : MailOf(R)[x] = Tickets(For(R, x))
  BY DEF MailOf
<1>3. left \subseteq had
  OBVIOUS
<1>4. ASSUME NEW x \in had \ left
      PROVE  x.session = s
  OBVIOUS
<1>5. ASSUME NEW x \in left
      PROVE  \E k \in 0 .. Len(Tickets(For(M, x))) :
               /\ Tickets(For(R, x)) = SubSeq(Tickets(For(M, x)), k + 1,
                                              Len(Tickets(For(M, x))))
               /\ k > 0 => x.session = s
  <2>1. Queued(For(M, x)) /\ For(P, x) \in SUBSET For(M, x)
    <3>1. Queued(For(M, x))
      BY ForType
    <3> QED
      BY <3>1 DEF For
  <2>2. For(R, x) = For(M, x) \ For(P, x)
    BY DEF For
  <2>3. \A u \in For(P, x), v \in For(M, x) \ For(P, x) : u.pos < v.pos
    BY DEF For
  <2>4. /\ Cardinality(For(P, x)) \in 0 .. Len(Tickets(For(M, x)))
        /\ Tickets(For(M, x) \ For(P, x)) =
             SubSeq(Tickets(For(M, x)), Cardinality(For(P, x)) + 1,
                    Len(Tickets(For(M, x))))
    BY <2>1, <2>3, TicketsRemove
  <2>5. Cardinality(For(P, x)) > 0 => x.session = s
    <3>1. For(P, x) # {} => x.session = s
      BY DEF For
    <3>2. For(P, x) = {} => Cardinality(For(P, x)) = 0
      BY FS_EmptySet
    <3> QED
      BY <3>1, <3>2
  <2> QED
    BY <2>2, <2>4, <2>5
<1> HIDE DEF R, had, left
<1>6. /\ DOMAIN MailOf(R) \subseteq DOMAIN MailOf(M)
      /\ \A x \in DOMAIN MailOf(M) :
           IF x \in DOMAIN MailOf(R)
           THEN \E k \in 0 .. Len(MailOf(M)[x]) :
                   /\ MailOf(R)[x] = SubSeq(MailOf(M)[x], k + 1,
                                            Len(MailOf(M)[x]))
                   /\ k > 0 => x.session = s
           ELSE x.session = s
  BY <1>1, <1>2, <1>3, <1>4, <1>5
<1> QED
  BY <1>6 DEF R, Taken

LEMMA MailNone == MailOf({}) = <<>>
<1>1. PICK f : f = MailOf({})
  OBVIOUS
<1>2. f = [sub \in {} |-> Tickets(For({}, sub))]
  BY <1>1 DEF MailOf
<1>3. f = [j \in 1 .. 0 |-> j]
  <2>1. 1 .. 0 = {}
    OBVIOUS
  <2> QED
    BY <1>2, <2>1
<1>4. [j \in 1 .. 0 |-> j] \in Seq(Nat)
  OBVIOUS
<1> QED
  BY <1>1, <1>3, <1>4, EmptySeq

-----------------------------------------------------------------------------
(* The test of pubsub_find_matching is what the exchange means by covering. *)
LEMMA MatchesCovers ==
    ASSUME NEW p \in Destinations, NEW t \in Destinations
    PROVE  Matches(p, t) <=> PublishSubscribe!Covers(p, t)
<1>1. PICK a, b : /\ a = p.prefix /\ b = t.prefix
                  /\ a \in Seq(STRING) /\ b \in Seq(STRING)
  BY DestinationsAssumption
<1>2. p.wild \in BOOLEAN
  BY DestinationsAssumption
<1>3. Len(a) \in Nat /\ Len(b) \in Nat
  BY <1>1
<1>4. ASSUME Len(a) <= Len(b)
      PROVE  SamePrefix(b, a, Len(a)) <=> SubSeq(b, 1, Len(a)) = a
  <2>1. PICK c : c = SubSeq(b, 1, Len(a))
    OBVIOUS
  <2>2. /\ c \in Seq(STRING) /\ Len(c) = Len(a)
        /\ \A i \in 1 .. Len(a) : c[i] = b[i]
    BY <1>1, <1>3, <1>4, <2>1
  <2>3. SamePrefix(b, a, Len(a)) => c = a
    BY <1>1, <2>2, SeqEqual DEF SamePrefix
  <2>4. c = a => SamePrefix(b, a, Len(a))
    BY <2>2 DEF SamePrefix
  <2> QED
    BY <2>1, <2>3, <2>4
<1>5. ASSUME Len(a) = Len(b)
      PROVE  SamePrefix(b, a, Len(a)) <=> a = b
  BY <1>1, <1>5, SeqEqual DEF SamePrefix
<1>6. Matches(p, t) <=> /\ p.wild => Len(b) >= Len(a)
                        /\ ~p.wild => Len(b) = Len(a)
                        /\ SamePrefix(b, a, Len(a))
  BY <1>1 DEF Matches
<1>7. PublishSubscribe!Covers(p, t) <=>
        IF p.wild THEN Len(a) <= Len(b) /\ SubSeq(b, 1, Len(a)) = a ELSE a = b
  BY <1>1 DEF PublishSubscribe!Covers, PublishSubscribe!Begins
<1>8. CASE p.wild
  BY <1>3, <1>4, <1>6, <1>7, <1>8
<1>9. CASE ~p.wild
  BY <1>3, <1>5, <1>6, <1>7, <1>9
<1> QED
  BY <1>2, <1>8, <1>9

(* What goes to a client is for a subscription of the client. *)
Addressed ==
    \A x \in Mailed(output_queue.items) : x.data.session = x.data.sub.session

ExchangeInv == ticket <= MaxFrames /\ Addressed

Subscribed == {s.data : s \in topics.items}

(* A step the exchange does not see. *)
LEMMA Unseen ==
    ASSUME Subscribed' = Subscribed,
           Mailed(output_queue'.items) = Mailed(output_queue.items)
    PROVE  UNCHANGED PublishSubscribe!vars
<1>1. Mail' = Mail
  BY MailIs
<1> QED
  BY <1>1 DEF PublishSubscribe!vars, Subscribed

LEMMA AnswerMail ==
    ASSUME TypeInv, OrderInv, NEW m,
           Handshake(m) \/ stomp_process(m), ~Send(m)
    PROVE  Mailed(output_queue'.items) = Mailed(output_queue.items)
<1>1. ASSUME NEW kind, kind # "MESSAGE", Respond(m, kind)
      PROVE  Mailed(output_queue'.items) = Mailed(output_queue.items)
  BY <1>1 DEF Respond, Enqueue, Output, Mailed
<1>2. ASSUME NEW queue, Receipt(m, queue)
      PROVE  Mailed(output_queue'.items) = Mailed(queue.items)
  BY <1>2 DEF Receipt, Enqueue, Output, Mailed
<1>3. CASE Subscribe(m)
  <2>1. PICK queue : Receipt(m, queue) /\ queue = EnqueueMultiple(output_queue, {})
    <3>1. stale_queue.items = {}
      BY DEF OrderInv, NoStale
    <3>2. \A sub, expired : FromStale(sub, expired) = {}
      BY <3>1 DEF FromStale
    <3> QED
      BY <1>3, <3>2 DEF Subscribe
  <2>2. queue.items = output_queue.items
    BY <2>1 DEF EnqueueMultiple
  <2> QED
    BY <1>2, <2>1, <2>2
<1>4. CASE Purge(m)
  BY <1>4 DEF Purge
<1>5. CASE Handshake(m)
  BY <1>1, <1>5 DEF Handshake
<1>6. CASE Reject(m)
  BY <1>1, <1>6 DEF Reject
<1>7. CASE Connect(m)
  BY <1>1, <1>7 DEF Connect
<1>8. CASE Diagnostic(m)
  BY <1>1, <1>8 DEF Diagnostic
<1>9. CASE Disconnect(m)
  BY <1>2, <1>9 DEF Disconnect
<1>10. CASE Unsubscribe(m)
  BY <1>2, <1>10 DEF Unsubscribe
<1>11. CASE SendExpired(m)
  BY <1>2, <1>11 DEF SendExpired
<1> QED
  BY <1>3, <1>4, <1>5, <1>6, <1>7, <1>8, <1>9, <1>10, <1>11 DEF stomp_process

(* The end of a session: a purge command or a DISCONNECT. *)
LEMMA EndRefines ==
    ASSUME TypeInv, OrderInv, NEW m, Purge(m) \/ Disconnect(m)
    PROVE  PublishSubscribe!Next
<1>1. m.session \in Session
  BY DequeueType DEF TypeInv, Purge, Disconnect
<1>2. topics'.items = {s \in topics.items : s.data.session # m.session}
  BY DEF Purge, Disconnect, pubsub_remove_client, Unchain
<1>3. Subscribed' = {x \in Subscribed : x.session # m.session}
  BY <1>2 DEF Subscribed
<1>4. Mail' = Mail
  <2>1. ~Send(m)
    BY DEF Purge, Disconnect, Send, IsFrame
  <2> QED
    BY <2>1, AnswerMail, MailIs DEF stomp_process
<1>5. PublishSubscribe!EndSession(m.session)
  BY <1>3, <1>4 DEF PublishSubscribe!EndSession, Subscribed
<1> QED
  BY <1>1, <1>5 DEF PublishSubscribe!Next

LEMMA SubscribeRefines ==
    ASSUME TypeInv, OrderInv, ExchangeInv, NEW m, Subscribe(m)
    PROVE  PublishSubscribe!Next
<1>1. /\ Dequeue(m) /\ IsFrame(m, "SUBSCRIBE") /\ ~IsRejected(m) /\ ~m.purge
  BY DEF Subscribe, IsFrame
<1>2. m \in FrameMessage /\ m.session \in Session
  BY <1>1, DequeueType DEF TypeInv
<1>3. m.frame.topic \in Destinations /\ m.frame.id \in Ids
  BY <1>1, <1>2, SubscriptionIsTyped DEF SubscriptionType, Subscription
<1>4. m.ticket \in 1 .. MaxFrames
  <2>1. m.ticket \in Nat \ {0} /\ Handled(m.ticket)' /\ ticket' = ticket
    BY <1>1, DequeueOrder DEF TypeInv, OrderInv, Dequeue
  <2>2. ticket \in Nat /\ ticket <= MaxFrames
    BY DEF TypeInv, TypeOK, ExchangeInv
  <2> QED
    BY <2>1, <2>2 DEF Handled
<1> DEFINE sub == Subscription(m.session, m.frame.topic, m.frame.id, m.ticket)
<1>5. topics'.items = topics.items \cup {[pos |-> topics.last + 1, data |-> sub]}
  BY DEF Subscribe, pubsub_subscribe, Enqueue
<1>6. Subscribed' = Subscribed \cup {sub}
  <2> HIDE DEF sub
  <2>1. PICK i : i = [pos |-> topics.last + 1, data |-> sub]
    OBVIOUS
  <2>2. i.data = sub /\ topics'.items = topics.items \cup {i}
    BY <1>5, <2>1
  <2> QED
    BY <2>2 DEF Subscribed
<1>7. Mail' = Mail
  <2>1. ~Send(m)
    BY <1>1 DEF Send, IsFrame
  <2> QED
    BY <2>1, AnswerMail, MailIs DEF stomp_process
<1>8. PublishSubscribe!Subscribe(m.session, m.frame.topic, m.frame.id, m.ticket)
  BY <1>6, <1>7 DEF PublishSubscribe!Subscribe, Subscribed, Subscription
<1> QED
  BY <1>2, <1>3, <1>4, <1>8 DEF PublishSubscribe!Next

LEMMA UnsubscribeRefines ==
    ASSUME TypeInv, OrderInv, NEW m, Unsubscribe(m)
    PROVE  PublishSubscribe!Next
<1>1. /\ Dequeue(m) /\ IsFrame(m, "UNSUBSCRIBE") /\ ~IsRejected(m) /\ ~m.purge
  BY DEF Unsubscribe, IsFrame
<1>2. m.session \in Session /\ m.frame \in FrameType
  BY <1>1, DequeueType DEF TypeInv
<1>3. m.frame.topic \in Destinations /\ m.frame.id \in Ids
  BY <1>1, <1>2 DEF IsRejected, FrameType
<1>4. topics'.items = {s \in topics.items : ~ /\ s.data.session = m.session
                                              /\ s.data.topic = m.frame.topic
                                              /\ s.data.id = m.frame.id}
  BY DEF Unsubscribe, pubsub_unsubscribe, Unchain
<1>5. Subscribed' = {x \in Subscribed : ~ /\ x.session = m.session
                                          /\ x.topic = m.frame.topic
                                          /\ x.id = m.frame.id}
  BY <1>4 DEF Subscribed
<1>6. Mail' = Mail
  <2>1. ~Send(m)
    BY <1>1 DEF Send, IsFrame
  <2> QED
    BY <2>1, AnswerMail, MailIs DEF stomp_process
<1>7. PublishSubscribe!Unsubscribe(m.session, m.frame.topic, m.frame.id)
  BY <1>5, <1>6 DEF PublishSubscribe!Unsubscribe, Subscribed
<1> QED
  BY <1>2, <1>3, <1>7 DEF PublishSubscribe!Next

(* pick_next finds exactly one subscription. *)
LEMMA PickNextOne ==
    ASSUME TypeInv, NEW matching \in SUBSET topics.items, matching # {}
    PROVE  \E s \in matching : pick_next(matching, next_counter) = {s}
<1>1. /\ IsFiniteSet(matching) /\ UniquePlaces(matching)
      /\ \A s \in matching : s.pos \in Nat
  BY FS_Subset DEF TypeInv, TypeOK, Lists, WellFormed, List, Item, UniquePlaces
<1>2. PICK s \in pick_next(matching, next_counter) : TRUE
  BY PickNextFinds
<1>3. \A t \in pick_next(matching, next_counter) : t \in matching /\ t = s
  BY <1>1, <1>2, RankInjective DEF pick_next
<1> QED
  BY <1>2, <1>3

LEMMA QueuedOutput ==
    ASSUME TypeInv
    PROVE  Queued(Mailed(output_queue.items))
<1>1. Queued(output_queue.items)
  BY DEF TypeInv, TypeOK, Lists, WellFormed, List, Item, OutputType, Queued
<1> QED
  BY <1>1, QueuedSubset DEF Mailed

LEMMA SendRefines ==
    ASSUME TypeInv, OrderInv, ExchangeInv, NEW m, Send(m)
    PROVE  /\ PublishSubscribe!Next \/ UNCHANGED PublishSubscribe!vars
           /\ Addressed'
<1>1. /\ Dequeue(m) /\ IsFrame(m, "SEND") /\ ~IsRejected(m) /\ ~m.purge
      /\ UNCHANGED topics
  BY DEF Send, IsFrame
<1>2. m.frame \in FrameType
  BY <1>1, DequeueType DEF TypeInv
<1>3. m.frame.topic \in Destinations /\ ~m.frame.topic.wild
  BY <1>1, <1>2 DEF IsRejected, FrameType
<1>4. m.ticket \in 1 .. MaxFrames
  <2>1. m.ticket \in Nat \ {0} /\ Handled(m.ticket)' /\ ticket' = ticket
    BY <1>1, DequeueOrder DEF TypeInv, OrderInv, Dequeue
  <2>2. ticket \in Nat /\ ticket <= MaxFrames
    BY DEF TypeInv, TypeOK, ExchangeInv
  <2> QED
    BY <2>1, <2>2 DEF Handled
<1>5. PICK mail, last :
             /\ output_queue'.items = (output_queue.items \cup mail) \cup last
             /\ \A x \in mail : /\ x.pos \in Nat /\ x.pos > output_queue.last
                                /\ \E s \in Chosen(m) : x.data = Copy(m, s)
             /\ \A s \in Chosen(m) : \E x \in mail : x.data = Copy(m, s)
             /\ \A x, y \in mail : x.data.sub = y.data.sub => x = y
             /\ \A x \in last : x.data = Output("RECEIPT", m.session, m.frame,
                                                m.ticket, None)
             /\ Chosen(m) \in SUBSET Matching(m)
             /\ Matching(m) # {} => Chosen(m) # {}
  BY SendItems
<1>6. \A s : /\ Copy(m, s).kind = "MESSAGE" /\ Copy(m, s).ticket = m.ticket
             /\ Copy(m, s).sub = s.data /\ Copy(m, s).session = s.data.session
  BY DEF Copy, Output
<1>7. \A x \in mail : /\ x.data.kind = "MESSAGE" /\ x.data.ticket = m.ticket
                       /\ x.data.session = x.data.sub.session
                       /\ \E s \in Chosen(m) : x.data.sub = s.data
  <2> SUFFICES ASSUME NEW x \in mail
               PROVE  /\ x.data.kind = "MESSAGE" /\ x.data.ticket = m.ticket
                      /\ x.data.session = x.data.sub.session
                      /\ \E s \in Chosen(m) : x.data.sub = s.data
    OBVIOUS
  <2>1. PICK s \in Chosen(m) : x.data = Copy(m, s)
    BY <1>5
  <2> QED
    BY <1>6, <2>1
<1>8. \A x \in last : x.data.kind # "MESSAGE"
  BY <1>5 DEF Output
<1> DEFINE M == Mailed(output_queue.items)
<1>9. Mailed(output_queue'.items) = M \cup mail
  BY <1>5, <1>8, <1>7 DEF Mailed
<1>10. Addressed'
  <2>1. \A x \in mail : x.data.session = x.data.sub.session
    BY <1>7
  <2>2. \A x \in M : x.data.session = x.data.sub.session
    BY DEF ExchangeInv, Addressed
  <2>3. \A x \in Mailed(output_queue'.items) : x.data.session = x.data.sub.session
    BY <1>9, <2>1, <2>2
  <2> QED
    BY <2>3 DEF Addressed, Mailed
<1>11. Subscribed' = Subscribed
  BY <1>1 DEF Subscribed
<1>12. CASE Matching(m) = {}
  <2>1. mail = {}
    BY <1>5, <1>12
  <2>2. Mailed(output_queue'.items) = Mailed(output_queue.items)
    BY <1>9, <2>1
  <2> QED
    BY <1>10, <1>11, <2>2, Unseen
<1>13. CASE Matching(m) # {}
  <2> DEFINE covering == {x \in Subscribed :
                             PublishSubscribe!Covers(x.topic, m.frame.topic)}
             receivers == Receivers(mail)
  <2>1. covering = {s.data : s \in Matching(m)}
    <3>1. \A s \in topics.items : s.data.topic \in Destinations
      BY DEF TypeInv, TypeOK, List, Item, SubscriptionType
    <3>2. \A s \in topics.items :
             Matches(s.data.topic, m.frame.topic)
                 <=> PublishSubscribe!Covers(s.data.topic, m.frame.topic)
      BY <1>3, <3>1, MatchesCovers
    <3> QED
      BY <3>2 DEF Matching, pubsub_find_matching, Subscribed
  <2>2. covering # {}
    BY <1>13, <2>1
  <2>3. receivers = {s.data : s \in Chosen(m)}
    <3>1. \A y \in mail : \E s \in Chosen(m) : y.data.sub = s.data
      BY <1>7
    <3>2. \A s \in Chosen(m) : \E y \in mail : y.data.sub = s.data
      BY <1>5, <1>6
    <3> QED
      BY <3>1, <3>2 DEF Receivers
  <2>4. Mail' = Delivered(Mail, receivers, m.ticket)
    <3>1. Queued(M)
      BY QueuedOutput
    <3>2. m.ticket \in Nat
      BY <1>4
    <3>3. \A y \in mail : y.pos \in Nat /\ y.data.ticket = m.ticket
      BY <1>5, <1>7
    <3>4. \A x \in M, y \in mail : x.pos < y.pos
      <4>1. /\ output_queue.last \in Nat
            /\ \A x \in M : x.pos \in Nat /\ x.pos <= output_queue.last
        BY DEF TypeInv, TypeOK, Lists, WellFormed, List, Item, Mailed
      <4> HIDE DEF M
      <4> QED
        BY <1>5, <4>1
    <3>5. \A x, y \in mail : x.data.sub = y.data.sub => x = y
      BY <1>5
    <3>6. Mail = MailOf(M) /\ Mail' = MailOf(M \cup mail)
      BY <1>9, MailIs
    <3> HIDE DEF M
    <3>7. CopiesOf(m.ticket, M, mail)
      BY <3>3, <3>4, <3>5 DEF CopiesOf
    <3>8. MailOf(M \cup mail) = Delivered(MailOf(M), Receivers(mail), m.ticket)
      BY <3>1, <3>2, <3>7, MailAdd
    <3> QED
      BY <3>6, <3>8
  <2>5. PublishSubscribe!Deliver(receivers, m.ticket)
    <3> HIDE DEF receivers
    <3> QED
      BY <2>4 DEF PublishSubscribe!Deliver, Delivered
  <2>6. IF IsWorkerTopic(m.frame.topic)
        THEN \E x \in covering : receivers = {x}
        ELSE receivers = covering
    <3>1. CASE IsWorkerTopic(m.frame.topic)
      <4>1. Chosen(m) = pick_next(Matching(m), next_counter)
        BY <1>13, <3>1 DEF Chosen
      <4>2. PICK s \in Matching(m) : Chosen(m) = {s}
        BY <1>13, <4>1, PickNextOne DEF Matching, pubsub_find_matching
      <4>3. receivers = {s.data} /\ s.data \in covering
        BY <2>1, <2>3, <4>2
      <4> QED
        BY <3>1, <4>3
    <3>2. CASE ~IsWorkerTopic(m.frame.topic)
      BY <2>1, <2>3, <3>2 DEF Chosen
    <3> QED
      BY <3>1, <3>2
  <2>7. PublishSubscribe!Publish(m.frame.topic, m.ticket)
    <3> HIDE DEF receivers
    <3> QED
      BY <1>11, <2>2, <2>5, <2>6 DEF PublishSubscribe!Publish, Subscribed
  <2> QED
    BY <1>3, <1>4, <1>10, <2>7 DEF PublishSubscribe!Next
<1> QED
  BY <1>12, <1>13

(* A writer takes the oldest messages of one session. *)
LEMMA TakeRefines ==
    ASSUME TypeInv, ExchangeInv, NEW w \in Writers, NEW n \in 1 .. MaxBatch,
           WriterTake(w, n)
    PROVE  PublishSubscribe!Next
<1>1. PICK first \in output_queue.items :
         /\ IsFirst(first, output_queue.items)
         /\ output_queue'.items = output_queue.items \ Batch(first, n)
  BY DEF WriterTake, Unchain
<1>2. UNCHANGED topics
  BY DEF WriterTake, readerState
<1> DEFINE M == Mailed(output_queue.items)
           P == Mailed(Batch(first, n))
           s == first.data.session
           same == {i \in output_queue.items : i.data.session = s}
<1>3. s \in Session
  BY DEF TypeInv, TypeOK, List, Item, OutputType
<1>4. /\ IsFiniteSet(same) /\ UniquePlaces(same)
      /\ \A x \in same : x.pos \in Nat
  BY FS_Subset DEF TypeInv, TypeOK, Lists, WellFormed, List, Item, UniquePlaces
<1>5. Batch(first, n) = {i \in same : i = first \/ Rank(same, i) < n}
  BY DEF Batch
<1>6. /\ P \in SUBSET M /\ Mailed(output_queue'.items) = M \ P
      /\ \A x \in P : x \in same /\ (x = first \/ Rank(same, x) < n)
      /\ \A y \in M \ P : y \in same => y # first /\ ~(Rank(same, y) < n)
  BY <1>1, <1>5 DEF Mailed
<1>7. \A x \in M : x.data.sub.session = s => x \in same
  BY DEF ExchangeInv, Addressed, Mailed
<1>8. \A x \in same : x.data.session = s
  OBVIOUS
<1>9. \A x \in P : x.data.sub.session = s
  BY <1>6, <1>8 DEF ExchangeInv, Addressed
<1>10. \A y \in same : first.pos <= y.pos
  BY <1>1 DEF IsFirst
<1>11. first \in same
  OBVIOUS
<1> HIDE DEF same
<1>12. ASSUME NEW x \in P, NEW y \in M \ P, x.data.sub = y.data.sub
       PROVE  x.pos < y.pos
  <2>1. x \in same /\ y \in same /\ x # y
    BY <1>6, <1>7, <1>9, <1>12
  <2>2. x.pos \in Nat /\ y.pos \in Nat /\ x.pos # y.pos
    BY <1>4, <2>1 DEF UniquePlaces
  <2>3. CASE x = first
    BY <1>10, <2>1, <2>2, <2>3
  <2>4. CASE x # first
    <3>1. Rank(same, x) < n /\ ~(Rank(same, y) < n)
      BY <1>6, <2>1, <2>4
    <3>2. Rank(same, x) \in Nat /\ Rank(same, y) \in Nat
      BY <1>4, <2>1, RankBounds
    <3>3. y.pos < x.pos => Rank(same, y) < Rank(same, x)
      BY <1>4, <2>1, RankMonotonic
    <3> QED
      BY <2>2, <3>1, <3>2, <3>3
  <2> QED
    BY <2>3, <2>4
<1>13. Queued(M)
  BY QueuedOutput
<1>14. Mail = MailOf(M) /\ Mail' = MailOf(M \ P)
  BY <1>6, MailIs
<1> HIDE DEF M, P
<1>15. \A x \in P, y \in M \ P : x.data.sub = y.data.sub => x.pos < y.pos
  BY <1>12
<1>16. PICK sess : sess = s /\ sess \in Session
  BY <1>3
<1>17. \A x \in P : x.data.sub.session = sess
  BY <1>9, <1>16
<1> HIDE DEF s
<1>18. Taken(MailOf(M), MailOf(M \ P), sess)
  BY <1>6, <1>13, <1>15, <1>17, MailRemove
<1>19. Taken(Mail, Mail', sess)
  BY <1>14, <1>18
<1>20. PublishSubscribe!Take(sess)
  BY <1>2, <1>19 DEF PublishSubscribe!Take, Taken
<1> QED
  BY <1>16, <1>20 DEF PublishSubscribe!Next

(* Every step of the broker is a step of the exchange or none. *)
LEMMA NextRefines ==
    ASSUME TypeInv, OrderInv, ExchangeInv, [Next]_vars
    PROVE  /\ [PublishSubscribe!Next]_(PublishSubscribe!vars)
           /\ ExchangeInv'
<1>1. ticket \in Nat /\ ticket <= MaxFrames /\ Addressed
  BY DEF TypeInv, TypeOK, ExchangeInv
<1>2. ticket' <= MaxFrames
  <2>1. CASE UNCHANGED ticket
    BY <1>1, <2>1
  <2>2. CASE ~UNCHANGED ticket
    <3>1. ticket < MaxFrames /\ ticket' = ticket + 1
      BY <2>2 DEF Next, vars, Main, ReadFrame, ReadIncomplete, CloseConnection,
         Writer, WriterTake, WriterSent, WriterFail, WriterClean, Reader,
         stomp_process, Purge, Handshake, Reject, Connect, Disconnect, Subscribe,
         Unsubscribe, Send, SendExpired, Diagnostic, Dequeue
    <3> QED
      BY <1>1, <3>1
  <2> QED
    BY <2>1, <2>2
<1>3. ASSUME Mailed(output_queue'.items) \subseteq Mailed(output_queue.items)
      PROVE  ExchangeInv'
  <2>1. \A x \in Mailed(output_queue'.items) : x.data.session = x.data.sub.session
    BY <1>1, <1>3 DEF Addressed
  <2> QED
    BY <1>2, <2>1 DEF ExchangeInv, Addressed, Mailed
<1>4. ASSUME UNCHANGED <<topics, output_queue>>
      PROVE  UNCHANGED PublishSubscribe!vars /\ ExchangeInv'
  <2>1. /\ Subscribed' = Subscribed
        /\ Mailed(output_queue'.items) = Mailed(output_queue.items)
    BY <1>4 DEF Subscribed
  <2> QED
    BY <1>3, <2>1, Unseen
<1>5. CASE Reader
  <2>1. PICK m : Handshake(m) \/ stomp_process(m)
    BY <1>5 DEF Reader
  <2>2. CASE Send(m)
    <3>1. /\ PublishSubscribe!Next \/ UNCHANGED PublishSubscribe!vars
          /\ Addressed'
      BY <2>2, SendRefines
    <3> QED
      BY <1>2, <3>1 DEF ExchangeInv
  <2>3. CASE ~Send(m)
    <3>1. Mailed(output_queue'.items) = Mailed(output_queue.items)
      BY <2>1, <2>3, AnswerMail
    <3>2. ExchangeInv'
      BY <1>3, <3>1
    <3>3. CASE Purge(m) \/ Disconnect(m)
      BY <3>2, <3>3, EndRefines
    <3>4. CASE Subscribe(m)
      BY <3>2, <3>4, SubscribeRefines
    <3>5. CASE Unsubscribe(m)
      BY <3>2, <3>5, UnsubscribeRefines
    <3>6. CASE Handshake(m) \/ Reject(m) \/ Connect(m) \/ SendExpired(m)
               \/ Diagnostic(m)
      <4>1. UNCHANGED topics
        BY <3>6 DEF Handshake, Reject, Connect, SendExpired, Diagnostic,
           readerState
      <4>2. Subscribed' = Subscribed
        BY <4>1 DEF Subscribed
      <4> QED
        BY <3>1, <3>2, <4>2, Unseen
    <3> QED
      BY <2>1, <2>3, <3>3, <3>4, <3>5, <3>6 DEF stomp_process
  <2> QED
    BY <2>2, <2>3
<1>6. CASE Main
  BY <1>4, <1>6 DEF Main, ReadFrame, ReadIncomplete, CloseConnection, readerState
<1>7. ASSUME NEW w \in Writers, Writer(w)
      PROVE  [PublishSubscribe!Next]_(PublishSubscribe!vars) /\ ExchangeInv'
  <2>1. CASE \E n \in 1 .. MaxBatch : WriterTake(w, n)
    <3>1. output_queue'.items \subseteq output_queue.items
      BY <2>1 DEF WriterTake, Unchain
    <3>2. ExchangeInv'
      BY <1>3, <3>1 DEF Mailed
    <3> QED
      BY <2>1, <3>2, TakeRefines
  <2>2. CASE WriterSent(w) \/ WriterFail(w) \/ WriterClean(w)
    BY <1>4, <2>2 DEF WriterSent, WriterFail, WriterClean, readerState
  <2> QED
    BY <1>7, <2>1, <2>2 DEF Writer
<1>8. CASE UNCHANGED vars
  BY <1>4, <1>8 DEF vars, readerState
<1> QED
  BY <1>5, <1>6, <1>7, <1>8 DEF Next

LEMMA InitRefines == Init => PublishSubscribe!Init /\ ExchangeInv
<1> SUFFICES ASSUME Init PROVE PublishSubscribe!Init /\ ExchangeInv
  OBVIOUS
<1>1. output_queue.items = {} /\ topics.items = {} /\ ticket = 0
  BY DEF Init, EmptyList
<1>2. {s.data : s \in topics.items} = {}
  BY <1>1
<1>3. Mailed(output_queue.items) = {}
  BY <1>1 DEF Mailed
<1>4. Mail = <<>>
  BY <1>3, MailIs, MailNone
<1>5. ExchangeInv
  BY <1>1, <1>3 DEF ExchangeInv, Addressed
<1> QED
  BY <1>2, <1>4, <1>5 DEF PublishSubscribe!Init

(* stomp_process with the subscription table, distribute_messages with its *)
(* round robin, and the writers that take batches out of the middle of the *)
(* output queue implement the exchange: a message is delivered once to     *)
(* every subscription that covers its topic, or to one of them for a       *)
(* worker topic, behind the messages that wait for the same subscription,  *)
(* and leaves in that order.                                               *)
THEOREM ExchangeImplemented == Spec => ImplementsExchange
<1>1. Init => PublishSubscribe!Init /\ ExchangeInv
  BY InitRefines
<1>2. TypeInv /\ OrderInv /\ ExchangeInv /\ [Next]_vars
        => ExchangeInv' /\ [PublishSubscribe!Next]_(PublishSubscribe!vars)
  BY NextRefines
<1> QED
  BY <1>1, <1>2, TypeInvHolds, OrderInvHolds, PTL
     DEF Spec, ImplementsExchange, PublishSubscribe!Spec

-----------------------------------------------------------------------------
(* The round robin.                                                        *)

(* r is one of the places from lo up to, not including, p, going round. *)
Round(lo, p, r) ==
    IF lo <= p THEN lo <= r /\ r < p ELSE lo <= r \/ r < p

(* The consumers of group G whose turn in the current round is over have   *)
(* got one message more than the others; c is the counter of pick_next.    *)
Rounds(G, got, c) ==
    \E lo \in 0 .. Cardinality(G) - 1, least \in Nat : \A x \in G :
        got[x] = IF Round(lo, c % Cardinality(G), Rank(G, x))
                 THEN least + 1 ELSE least

TallyInv ==
    /\ Handled(next_counter)
    /\ DOMAIN tally = WorkerTopics
    /\ \A t \in WorkerTopics :
         LET G == DOMAIN tally[t]
         IN  /\ IsFiniteSet(G) /\ UniquePlaces(G)
             /\ \A x \in G : x.pos \in Nat
             /\ G # {} => Rounds(G, tally[t], next_counter)

LEMMA RoundStep ==
    ASSUME NEW n \in Nat \ {0}, NEW p \in 0 .. n - 1, NEW q \in 0 .. n - 1,
           NEW lo \in 0 .. n - 1, NEW r \in 0 .. n - 1,
           q = IF p + 1 = n THEN 0 ELSE p + 1
    PROVE  /\ ~Round(lo, p, p)
           /\ q # lo => (Round(lo, q, r) <=> Round(lo, p, r) \/ r = p)
           /\ q = lo => Round(lo, p, r) \/ r = p
           /\ ~Round(q, q, r)
BY DEF Round

LEMMA NextRemainder ==
    ASSUME NEW c \in Nat, NEW n \in Nat \ {0}
    PROVE  /\ c % n \in 0 .. n - 1 /\ (c + 1) % n \in 0 .. n - 1
           /\ (c + 1) % n = IF (c % n) + 1 = n THEN 0 ELSE (c % n) + 1
<1>1. PICK p, a, q, b : /\ p = c % n /\ a = c \div n
                        /\ q = (c + 1) % n /\ b = (c + 1) \div n
  OBVIOUS
<1>2. p \in 0 .. n - 1 /\ q \in 0 .. n - 1 /\ a \in Int /\ b \in Int
  BY <1>1
<1>3. c = n * a + p /\ c + 1 = n * b + q
  BY <1>1
<1>4. n * (b - a) = p + 1 - q
  BY <1>2, <1>3
<1>5. PICK d \in Int : d = b - a
  BY <1>2
<1>6. n * d = p + 1 - q
  BY <1>4, <1>5
<1>7. d >= 2 => n * d >= n + n
  OBVIOUS
<1>8. d <= -1 => n * d <= -n
  OBVIOUS
<1>9. d = 0 \/ d = 1
  BY <1>2, <1>6, <1>7, <1>8
<1>10. n * 0 = 0 /\ n * 1 = n
  OBVIOUS
<1>11. p + 1 = q \/ p + 1 - q = n
  BY <1>2, <1>6, <1>9, <1>10
<1>12. q = IF p + 1 = n THEN 0 ELSE p + 1
  BY <1>2, <1>11
<1> QED
  BY <1>1, <1>2, <1>12

(* One more message for the consumer whose turn it is. *)
LEMMA RoundsStep ==
    ASSUME NEW G, IsFiniteSet(G), \A x \in G : x.pos \in Nat, G # {},
           NEW c \in Nat, NEW got, NEW new, Rounds(G, got, c),
           \A x \in G : new[x] = got[x] + (IF x \in pick_next(G, c) THEN 1 ELSE 0)
    PROVE  Rounds(G, new, c + 1)
<1>1. PICK n : n = Cardinality(G) /\ n \in Nat \ {0}
  BY FS_CardinalityType, FS_EmptySet
<1>2. PICK p, q : p = c % n /\ q = (c + 1) % n
  OBVIOUS
<1>3. /\ p \in 0 .. n - 1 /\ q \in 0 .. n - 1
      /\ q = IF p + 1 = n THEN 0 ELSE p + 1
  BY <1>1, <1>2, NextRemainder
<1>4. \A x \in G : Rank(G, x) \in 0 .. n - 1
  BY <1>1, RankBounds
<1>5. PICK lo \in 0 .. n - 1, b \in Nat : \A x \in G :
         got[x] = IF Round(lo, p, Rank(G, x)) THEN b + 1 ELSE b
  BY <1>1, <1>2 DEF Rounds
<1>6. \A x \in G : /\ new[x] = got[x] + (IF Rank(G, x) = p THEN 1 ELSE 0)
  BY <1>1, <1>2 DEF pick_next
<1>7. \A x \in G :
         /\ ~Round(lo, p, p)
         /\ q # lo => (Round(lo, q, Rank(G, x)) <=>
                          Round(lo, p, Rank(G, x)) \/ Rank(G, x) = p)
         /\ q = lo => Round(lo, p, Rank(G, x)) \/ Rank(G, x) = p
         /\ ~Round(q, q, Rank(G, x))
  <2> SUFFICES ASSUME NEW x \in G
               PROVE  /\ ~Round(lo, p, p)
                      /\ q # lo => (Round(lo, q, Rank(G, x)) <=>
                                       Round(lo, p, Rank(G, x)) \/ Rank(G, x) = p)
                      /\ q = lo => Round(lo, p, Rank(G, x)) \/ Rank(G, x) = p
                      /\ ~Round(q, q, Rank(G, x))
    OBVIOUS
  <2>1. PICK r \in 0 .. n - 1 : r = Rank(G, x)
    BY <1>4
  <2>2. /\ ~Round(lo, p, p)
        /\ q # lo => (Round(lo, q, r) <=> Round(lo, p, r) \/ r = p)
        /\ q = lo => Round(lo, p, r) \/ r = p
        /\ ~Round(q, q, r)
    BY <1>1, <1>3, <1>5, <2>1 DEF Round
  <2> QED
    BY <2>1, <2>2
<1>8. CASE q # lo
  <2>1. \A x \in G : new[x] = IF Round(lo, q, Rank(G, x)) THEN b + 1 ELSE b
    BY <1>5, <1>6, <1>7, <1>8
  <2> QED
    BY <1>1, <1>2, <1>5, <2>1 DEF Rounds
<1>9. CASE q = lo
  <2>1. \A x \in G : new[x] = IF Round(lo, q, Rank(G, x)) THEN (b + 1) + 1
                              ELSE b + 1
    BY <1>5, <1>6, <1>7, <1>9
  <2>2. b + 1 \in Nat
    OBVIOUS
  <2> QED
    BY <1>1, <1>2, <1>5, <2>1, <2>2 DEF Rounds
<1> QED
  BY <1>8, <1>9

(* Counting starts. *)
LEMMA RoundsStart ==
    ASSUME NEW G, IsFiniteSet(G), \A x \in G : x.pos \in Nat, G # {},
           NEW c \in Nat, NEW got, \A x \in G : got[x] = 0
    PROVE  Rounds(G, got, c)
<1>1. PICK n : n = Cardinality(G) /\ n \in Nat \ {0}
  BY FS_CardinalityType, FS_EmptySet
<1>2. PICK p : p = c % n /\ p \in 0 .. n - 1
  BY <1>1, NextRemainder
<1>3. \A x \in G : Rank(G, x) \in 0 .. n - 1
  BY <1>1, RankBounds
<1>4. \A x \in G : ~Round(p, p, Rank(G, x))
  BY <1>2, <1>3 DEF Round
<1>5. \A x \in G : got[x] = IF Round(p, p, Rank(G, x)) THEN 0 + 1 ELSE 0
  BY <1>4
<1> QED
  BY <1>1, <1>2, <1>5 DEF Rounds

LEMMA RoundsBalanced ==
    ASSUME NEW G, NEW got, NEW c, Rounds(G, got, c), NEW x \in G, NEW y \in G
    PROVE  got[x] <= got[y] + 1
<1>1. PICK b \in Nat : /\ got[x] = b \/ got[x] = b + 1
                       /\ got[y] = b \/ got[y] = b + 1
  BY DEF Rounds
<1> QED
  BY <1>1

LEMMA SendTally ==
    ASSUME TypeInv, OrderInv, TallyInv, NEW m, Send(m),
           \A s, t \in WorkerTopics : s = t, MaxFrames < UintSize,
           ticket <= MaxFrames
    PROVE  TallyInv'
<1>1. /\ Dequeue(m) /\ IsFrame(m, "SEND") /\ ~IsRejected(m) /\ ~m.purge
      /\ Distribute(m)
  BY DEF Send, IsFrame
<1>2. /\ m.frame \in Frames /\ m.frame \in FrameType
      /\ ticket' = ticket /\ ticket \in Nat /\ next_counter \in Nat
  BY <1>1, DequeueType DEF TypeInv, TypeOK, Dequeue
<1>3. /\ \A k : Handled(k) => Handled(k)' /\ k < m.ticket
      /\ m.ticket \in Nat /\ Handled(m.ticket)'
  BY <1>1, DequeueOrder DEF TypeInv, OrderInv
<1>4. next_counter < m.ticket /\ m.ticket <= MaxFrames
  BY <1>2, <1>3 DEF TallyInv, Handled
<1> DEFINE topic == m.frame.topic
           G == Matching(m)
           worker == G # {} /\ IsWorkerTopic(topic)
           new == [s \in G |->
                    (IF DOMAIN tally[topic] = G THEN tally[topic][s] ELSE 0)
                    + (IF s \in pick_next(G, next_counter) THEN 1 ELSE 0)]
<1>5. CASE ~worker
  <2>1. UNCHANGED <<next_counter, tally>>
    BY <1>1, <1>5 DEF Distribute, Matching
  <2>2. Handled(next_counter)'
    BY <1>3, <2>1 DEF TallyInv
  <2> QED
    BY <2>1, <2>2 DEF TallyInv
<1>6. CASE worker
  <2>1. next_counter' = next_counter + 1
    <3>1. next_counter' = (next_counter + 1) % UintSize
      BY <1>1, <1>6 DEF Distribute, Matching
    <3>2. next_counter + 1 \in 0 .. UintSize - 1
      BY <1>2, <1>3, <1>4
    <3> QED
      BY <3>1, <3>2
  <2>2. tally' = [tally EXCEPT ![topic] = new]
    BY <1>1, <1>6 DEF Distribute, Matching, Tallied
  <2>3. topic \in WorkerTopics
    BY <1>1, <1>2, <1>6 DEF WorkerTopics, IsFrame, IsRejected
  <2>4. DOMAIN tally' = WorkerTopics /\ \A t \in WorkerTopics : tally'[t] = new
    BY <2>2, <2>3 DEF TallyInv
  <2>5. /\ IsFiniteSet(G) /\ UniquePlaces(G) /\ \A x \in G : x.pos \in Nat
    <3>1. G \in SUBSET topics.items
      BY DEF Matching, pubsub_find_matching
    <3> HIDE DEF G
    <3> QED
      BY <3>1, FS_Subset
         DEF TypeInv, TypeOK, Lists, WellFormed, List, Item, UniquePlaces
  <2>6. Handled(next_counter)'
    <3>1. next_counter + 1 <= m.ticket
      BY <1>2, <1>3, <1>4
    <3>2. /\ m.ticket <= ticket'
          /\ \A i \in 1 .. Len(input_queue') :
                ~input_queue'[i].purge => m.ticket < input_queue'[i].ticket
      BY <1>3 DEF Handled
    <3>3. ASSUME NEW i \in 1 .. Len(input_queue'), ~input_queue'[i].purge
          PROVE  next_counter + 1 < input_queue'[i].ticket
      <4>1. m.ticket < input_queue'[i].ticket /\ input_queue'[i].ticket \in Nat
        BY <1>1, <1>2, <3>2, <3>3, DequeueOrder DEF TypeInv, OrderInv, Numbered
      <4> QED
        BY <1>2, <1>3, <3>1, <4>1
    <3> QED
      BY <1>2, <1>3, <2>1, <3>1, <3>2, <3>3 DEF Handled
  <2>7. Rounds(G, new, next_counter + 1)
    <3>1. PICK old : old = [s \in G |-> IF DOMAIN tally[topic] = G
                                        THEN tally[topic][s] ELSE 0]
      OBVIOUS
    <3>2. Rounds(G, old, next_counter)
      <4>1. CASE DOMAIN tally[topic] = G
        <5>1. Rounds(G, tally[topic], next_counter)
          BY <1>6, <2>3, <4>1 DEF TallyInv
        <5>2. \A x \in G : old[x] = tally[topic][x]
          BY <3>1, <4>1
        <5> HIDE DEF G, topic
        <5> QED
          BY <5>1, <5>2 DEF Rounds
      <4>2. CASE DOMAIN tally[topic] # G
        <5>1. \A x \in G : old[x] = 0
          BY <3>1, <4>2
        <5> HIDE DEF G
        <5> QED
          BY <1>2, <1>6, <2>5, <5>1, RoundsStart
      <4> QED
        BY <4>1, <4>2
    <3>3. \A x \in G : new[x] = old[x] + (IF x \in pick_next(G, next_counter)
                                          THEN 1 ELSE 0)
      BY <3>1
    <3> HIDE DEF G, new
    <3> QED
      BY <1>2, <1>6, <2>5, <3>2, <3>3, RoundsStep
  <2>8. DOMAIN new = G
    OBVIOUS
  <2> HIDE DEF G, new
  <2>9. \A t \in WorkerTopics :
          LET D == DOMAIN tally'[t]
          IN  /\ IsFiniteSet(D) /\ UniquePlaces(D)
              /\ \A x \in D : x.pos \in Nat
              /\ D # {} => Rounds(D, tally'[t], next_counter')
    BY <2>1, <2>4, <2>5, <2>7, <2>8
  <2> QED
    BY <2>4, <2>6, <2>9 DEF TallyInv
<1> QED
  BY <1>5, <1>6

LEMMA NextTally ==
    ASSUME TypeInv, OrderInv, ExchangeInv, TallyInv, [Next]_vars,
           \A s, t \in WorkerTopics : s = t, MaxFrames < UintSize
    PROVE  TallyInv'
<1>1. Numbered /\ TypeOK /\ Handled(next_counter) /\ ticket <= MaxFrames
  BY DEF TypeInv, OrderInv, ExchangeInv, TallyInv
<1>2. ASSUME UNCHANGED <<next_counter, tally>>, Handled(next_counter)'
      PROVE  TallyInv'
  BY <1>2 DEF TallyInv
<1>3. CASE Reader
  <2>1. PICK m : Handshake(m) \/ stomp_process(m)
    BY <1>3 DEF Reader
  <2>2. CASE Send(m)
    BY <1>1, <2>2, SendTally
  <2>3. CASE ~Send(m)
    <3>1. Dequeue(m) /\ UNCHANGED <<next_counter, tally>>
      BY <2>1, <2>3 DEF stomp_process, Purge, Handshake, Reject, Connect,
         Disconnect, Subscribe, Unsubscribe, SendExpired, Diagnostic, readerState
    <3>2. Handled(next_counter)'
      BY <1>1, <3>1, DequeueOrder DEF Handled
    <3> QED
      BY <1>2, <3>1, <3>2
  <2> QED
    BY <2>2, <2>3
<1>4. CASE Main \/ \E w \in Writers : Writer(w)
  <2>1. UNCHANGED readerState
    BY <1>4 DEF Main, ReadFrame, ReadIncomplete, CloseConnection, Writer,
       WriterTake, WriterSent, WriterFail, WriterClean
  <2>2. \A n : Handled(n) => Handled(n)'
    BY <1>1, <1>4, MainNumbered, WriterNumbered
  <2>3. UNCHANGED <<next_counter, tally>>
    BY <2>1 DEF readerState
  <2>4. Handled(next_counter)'
    BY <1>1, <2>2, <2>3 DEF Handled
  <2> QED
    BY <1>2, <2>3, <2>4
<1>5. CASE UNCHANGED vars
  <2>1. UNCHANGED <<next_counter, tally>> /\ Handled(next_counter)'
    BY <1>1, <1>5 DEF vars, readerState, Handled
  <2> QED
    BY <1>2, <2>1
<1> QED
  BY <1>3, <1>4, <1>5 DEF Next

LEMMA InitTally == Init => TallyInv
<1> SUFFICES ASSUME Init PROVE TallyInv
  OBVIOUS
<1>1. Handled(next_counter)
  BY EmptySeq DEF Init, Handled
<1>2. \A t \in WorkerTopics : DOMAIN tally[t] = {}
  BY EmptySeq DEF Init
<1> QED
  BY <1>1, <1>2, FS_EmptySet DEF Init, TallyInv, UniquePlaces

(* While one worker topic is in use and the unsigned counter of pick_next  *)
(* does not wrap, the consumers of a group that stays the same get numbers *)
(* of messages that differ by at most one, wherever in its round the       *)
(* counter is when the group forms, and whatever is subscribed, ended and  *)
(* sent elsewhere in between.                                              *)
THEOREM BalancedHolds ==
    ASSUME \A s, t \in WorkerTopics : s = t, MaxFrames < UintSize
    PROVE  Spec => []Balanced
<1>1. TypeInv /\ OrderInv /\ ExchangeInv /\ [Next]_vars => ExchangeInv'
  BY NextRefines
<1>2. TypeInv /\ OrderInv /\ ExchangeInv /\ TallyInv /\ [Next]_vars => TallyInv'
  BY NextTally
<1>3. Init => ExchangeInv /\ TallyInv
  BY InitRefines, InitTally
<1>4. TallyInv => Balanced
  BY RoundsBalanced DEF TallyInv, Balanced
<1> QED
  BY <1>1, <1>2, <1>3, <1>4, TypeInvHolds, OrderInvHolds, PTL DEF Spec

=============================================================================
