------------------------------- MODULE Stomp -------------------------------
(***************************************************************************)
(* The STOMP exchange: the reader thread (server/threads/reader_thread.c)  *)
(* and everything it runs (stomp/, websocket/filter/handshake.c), between  *)
(* the main thread that feeds input_queue (server/accept_epoll.c) and the  *)
(* writer threads that empty output_queue (server/threads/writer_thread.c).*)
(*                                                                         *)
(* One reader step handles one input message.  What it works on (topics,   *)
(* stale_queue, session_connected, next_counter) is private to the reader; *)
(* it meets the other threads only at the dequeue that opens the step and  *)
(* at the enqueue that closes it.  How the writers share output_queue is   *)
(* the subject of WriterPool; here a writer is only what it does to        *)
(* sessions.                                                               *)
(***************************************************************************)
EXTENDS Integers, PubSub

CONSTANTS
    Fds,            \* socket descriptors, reused by one client after another
    Encodable,      \* the descriptors whose clients may send WebSocket frames
    Frames,         \* the frames a client may send, see FrameType
    Ids,            \* subscription ids
    Destinations,   \* what a destination header may hold
    None,           \* a header the frame does not have
    Writers,        \* the writer threads
    MaxBatch,       \* messages a writer may take at once
    MaxInputQueue,  \* max_input_queue_size
    MaxStaleQueue,  \* max_stale_queue_size
    Ttl,            \* the configured time to live, 0 for none
    UintSize,       \* an unsigned int counts modulo this
    MaxFrames       \* bound: frames accepted in one behaviour

Commands == {"CONNECT", "DISCONNECT", "SUBSCRIBE", "UNSUBSCRIBE", "SEND",
             "DIAG", "GET", "OTHER"}

(* A parsed frame.  body: the frame has what its command needs besides the *)
(* headers (a known query for DIAG, a key for a WebSocket GET).            *)
FrameType == [command : Commands, topic : Destinations \cup {None},
              id : Ids \cup {None}, receipt : BOOLEAN, body : BOOLEAN]

ASSUME StompAssumption ==
    /\ Encodable \subseteq Fds
    /\ Frames \subseteq FrameType
    /\ None \notin Destinations \cup Ids
    /\ MaxBatch \in Nat \ {0}
    /\ MaxInputQueue \in Nat
    /\ MaxStaleQueue \in Nat
    /\ Ttl \in Nat
    /\ UintSize \in Nat \ {0}
    /\ MaxFrames \in Nat

(* A destination: the characters in front of the first '*', and whether    *)
(* there is one.                                                           *)
ASSUME DestinationsAssumption ==
    Destinations \subseteq
        [prefix : Seq(STRING), wild : BOOLEAN, tail : Seq(STRING)]

VARIABLES
    clients,            \* session storage: what clients[fd] holds
    input_queue,        \* main thread and writers -> reader
    session_connected,  \* the bit of each descriptor
    topics,             \* the subscription list
    stale_queue,        \* messages waiting for a subscriber
    next_counter,       \* the counter of pick_next
    output_queue,       \* reader -> writers
    writer,             \* what each writer does
    ticket,             \* history: number of the last frame accepted
    leaked,             \* history: see NoLeakedSession
    tally               \* history: see Balanced

readerState == <<session_connected, topics, stale_queue, next_counter, tally>>
vars == <<clients, input_queue, readerState, output_queue, writer, ticket,
          leaked>>

-----------------------------------------------------------------------------
Session == [fd : Fds, enc : BOOLEAN]

(* message_with_timestamp.  A purge command is a message with a flag in    *)
(* its descriptor; its content ("CMD") is never looked at.                 *)
Message(fd, enc, frame, n) ==
    [session |-> [fd |-> fd, enc |-> enc], purge |-> FALSE,
     frame |-> frame, ticket |-> n]

PurgeMessage(fd, enc) ==
    [session |-> [fd |-> fd, enc |-> enc], purge |-> TRUE,
     frame |-> None, ticket |-> 0]

FrameMessage == [session : Session, purge : {FALSE}, frame : Frames,
                 ticket : Nat]

PurgeCommand == [session : Session, purge : {TRUE}, frame : {None},
                 ticket : {0}]

SubscriptionType == [session : Session, topic : Destinations, id : Ids,
                     born : Nat]

(* message_with_frame_len: what goes to which session.  History: a receipt *)
(* has the frame it is for, a message the subscription it is for, both the *)
(* ticket of the frame that caused them.                                   *)
Output(kind, session, frame, n, sub) ==
    [kind |-> kind, session |-> session, frame |-> frame, ticket |-> n,
     sub |-> sub]

Kinds == {"CONNECTED", "ERROR", "RECEIPT", "MESSAGE", "DIAG", "HANDSHAKE"}

OutputType == [kind : Kinds, session : Session,
               frame : Frames \cup {None}, ticket : Nat,
               sub : SubscriptionType \cup {None}]

IdleWriter == [stage |-> "idle", fd |-> None]

BusyWriter == [stage : {"sending", "purged"}, fd : Fds]

WorkerTopics ==
    {f.topic : f \in {g \in Frames : /\ g.command = "SEND"
                                     /\ g.topic # None
                                     /\ IsWorkerTopic(g.topic)}}

(* stomp_start, session_storage_init, ts_queue_init, queue_init. *)
Init ==
    /\ clients = [fd \in Fds |-> "empty"]
    /\ input_queue = <<>>
    /\ session_connected = [fd \in Fds |-> FALSE]
    /\ topics = EmptyList
    /\ stale_queue = EmptyList
    /\ next_counter = 0
    /\ output_queue = EmptyList
    /\ writer = [w \in Writers |-> IdleWriter]
    /\ ticket = 0
    /\ leaked = {}
    /\ tally = [t \in WorkerTopics |-> <<>>]

-----------------------------------------------------------------------------
(* The main thread.                                                        *)

InputFull == Len(input_queue) >= MaxInputQueue

(* What ws_channel_is_encoded may answer: an encoded channel stays so, a   *)
(* plain one becomes encoded when a chunk has the mask bit.                *)
ChannelForms(fd) ==
    IF clients[fd] = "encoded" THEN {TRUE}
    ELSE {FALSE} \cup {e \in {TRUE} : fd \in Encodable}

ChannelState(enc) == IF enc THEN "encoded" ELSE "plain"

(* do_use_fd on a chunk that holds a whole frame: the session is created   *)
(* if need be, the frame goes to the reader or, at the limit, is dropped.  *)
ReadFrame(fd, enc, frame) ==
    /\ ticket < MaxFrames
    /\ enc \in ChannelForms(fd)
    /\ clients' = [clients EXCEPT ![fd] = ChannelState(enc)]
    /\ \/ /\ ~InputFull
          /\ input_queue' =
                Append(input_queue, Message(fd, enc, frame, ticket + 1))
          /\ ticket' = ticket + 1
       \/ /\ InputFull
          /\ UNCHANGED <<input_queue, ticket>>
    /\ UNCHANGED <<readerState, output_queue, writer, leaked>>

(* do_use_fd on a part of a WebSocket frame: it is only buffered. *)
ReadIncomplete(fd) ==
    /\ fd \in Encodable
    /\ ticket < MaxFrames
    /\ clients' = [clients EXCEPT ![fd] = "encoded"]
    /\ UNCHANGED <<input_queue, readerState, output_queue, writer, ticket,
                   leaked>>

(* Mistake: the purge command goes in front of the client's frames. *)
CloseConnection_PurgeFirst(fd) ==
    /\ clients[fd] # "empty"
    /\ ~InputFull
    /\ clients' = [clients EXCEPT ![fd] = "empty"]
    /\ input_queue' =
          <<PurgeMessage(fd, clients[fd] = "encoded")>> \o input_queue
    /\ leaked' = leaked \ {fd}
    /\ UNCHANGED <<readerState, output_queue, writer, ticket>>

(* close_connection: a purge command behind the frames of the client, if   *)
(* the queue has room for it, and clean_by_fd.                             *)
CloseConnection(fd) ==
    /\ clients[fd] # "empty"
    /\ clients' = [clients EXCEPT ![fd] = "empty"]
    /\ \/ /\ ~InputFull
          /\ input_queue' =
                Append(input_queue, PurgeMessage(fd, clients[fd] = "encoded"))
          /\ leaked' = leaked \ {fd}
       \/ /\ InputFull
          /\ leaked' = leaked \cup {fd}
          /\ UNCHANGED input_queue
    /\ UNCHANGED <<readerState, output_queue, writer, ticket>>

-----------------------------------------------------------------------------
(* The writer threads.                                                     *)

(* ts_dequeue_multiple_messages_for_same_fd: the first message and up to   *)
(* n - 1 more of the same session.                                         *)
Batch(first, n) ==
    LET same == {i \in output_queue.items :
                    i.data.session = first.data.session}
    IN  {i \in same : i = first \/ Rank(same, i) < n}

(* The batch is dropped when its client has no session any more, otherwise *)
(* the writer goes on to write it.                                         *)
WriterTake(w, n) ==
    /\ writer[w].stage = "idle"
    /\ \E first \in output_queue.items :
        LET fd == first.data.session.fd
        IN  /\ IsFirst(first, output_queue.items)
            /\ output_queue' = Unchain(output_queue,
                                  output_queue.items \ Batch(first, n))
            /\ writer' = IF clients[fd] = "empty" THEN writer
                         ELSE [writer EXCEPT ![w] = [stage |-> "sending",
                                                     fd |-> fd]]
    /\ UNCHANGED <<clients, input_queue, readerState, ticket, leaked>>

WriterSent(w) ==
    /\ writer[w].stage = "sending"
    /\ writer' = [writer EXCEPT ![w] = IdleWriter]
    /\ UNCHANGED <<clients, input_queue, readerState, output_queue, ticket,
                   leaked>>

(* The retries are used up: w_close_connection puts a purge command at the *)
(* head of the input queue, whatever its size, without the encoded flag.   *)
WriterFail(w) ==
    /\ writer[w].stage = "sending"
    /\ writer' = [writer EXCEPT ![w].stage = "purged"]
    /\ input_queue' = <<PurgeMessage(writer[w].fd, FALSE)>> \o input_queue
    /\ UNCHANGED <<clients, readerState, output_queue, ticket, leaked>>

(* The second half of w_close_connection, clean_by_fd under the lock. *)
WriterClean(w) ==
    /\ writer[w].stage = "purged"
    /\ writer' = [writer EXCEPT ![w] = IdleWriter]
    /\ LET fd == writer[w].fd
       IN  /\ clients' = [clients EXCEPT ![fd] = "empty"]
           /\ leaked' = IF clients[fd] = "empty" THEN leaked
                        ELSE leaked \cup {fd}
    /\ UNCHANGED <<input_queue, readerState, output_queue, ticket>>

-----------------------------------------------------------------------------
(* The reader thread.                                                      *)

(* ts_dequeue takes message m of client m.session. *)
Dequeue(m) ==
    /\ input_queue # <<>>
    /\ m = Head(input_queue)
    /\ input_queue' = Tail(input_queue)
    /\ UNCHANGED <<clients, writer, ticket, leaked>>

IsFrame(m, command) == ~m.purge /\ m.frame.command = command

IsConnected(m) == session_connected[m.session.fd]

Respond(m, kind) ==
    output_queue' = Enqueue(output_queue, Output(kind, m.session, None, 0, None))

(* A frame that got no response is answered by a receipt if it asks for    *)
(* one; queue is what the frame already made of the output queue.          *)
Receipt(m, queue) ==
    output_queue' = IF m.frame.receipt
                    THEN Enqueue(queue, Output("RECEIPT", m.session, m.frame,
                                               m.ticket, None))
                    ELSE queue

(* Mistake: the session is not marked as disconnected. *)
Purge_StaysConnected(m) ==
    /\ Dequeue(m)
    /\ m.purge
    /\ topics' = pubsub_remove_client(topics, m.session)
    /\ UNCHANGED <<session_connected, stale_queue, next_counter, tally,
                   output_queue>>

(* The early return of stomp_process for a purge command. *)
Purge(m) ==
    /\ Dequeue(m)
    /\ m.purge
    /\ topics' = pubsub_remove_client(topics, m.session)
    /\ session_connected' = [session_connected EXCEPT ![m.session.fd] = FALSE]
    /\ UNCHANGED <<stale_queue, next_counter, tally, output_queue>>

(* ws_input_filter_handshake: an HTTP request never reaches stomp_process. *)
Handshake(m) ==
    /\ Dequeue(m)
    /\ IsFrame(m, "GET")
    /\ IF m.frame.body THEN Respond(m, "HANDSHAKE") ELSE UNCHANGED output_queue
    /\ UNCHANGED readerState

(* Mistake: SUBSCRIBE and UNSUBSCRIBE do not need an id. *)
IsRejected_NoIdCheck(m) ==
    \/ IsFrame(m, "CONNECT") /\ IsConnected(m)
    \/ IsFrame(m, "DISCONNECT") /\ ~IsConnected(m)
    \/ /\ IsFrame(m, "SUBSCRIBE") \/ IsFrame(m, "UNSUBSCRIBE")
       /\ m.frame.topic = None \/ ~IsConnected(m)
    \/ /\ IsFrame(m, "SEND")
       /\ m.frame.topic = None \/ ~IsConnected(m) \/ m.frame.topic.wild
    \/ IsFrame(m, "DIAG") /\ ~m.frame.body
    \/ IsFrame(m, "OTHER")

(* The cases in which stomp_process answers message_error. *)
IsRejected(m) ==
    \/ IsFrame(m, "CONNECT") /\ IsConnected(m)
    \/ IsFrame(m, "DISCONNECT") /\ ~IsConnected(m)
    \/ /\ IsFrame(m, "SUBSCRIBE") \/ IsFrame(m, "UNSUBSCRIBE")
       /\ m.frame.id = None \/ m.frame.topic = None \/ ~IsConnected(m)
    \/ /\ IsFrame(m, "SEND")
       /\ m.frame.topic = None \/ ~IsConnected(m) \/ m.frame.topic.wild
    \/ IsFrame(m, "DIAG") /\ ~m.frame.body
    \/ IsFrame(m, "OTHER")

Reject(m) ==
    /\ Dequeue(m)
    /\ IsRejected(m)
    /\ Respond(m, "ERROR")
    /\ UNCHANGED readerState

Connect(m) ==
    /\ Dequeue(m)
    /\ IsFrame(m, "CONNECT") /\ ~IsRejected(m)
    /\ session_connected' = [session_connected EXCEPT ![m.session.fd] = TRUE]
    /\ Respond(m, "CONNECTED")
    /\ UNCHANGED <<topics, stale_queue, next_counter, tally>>

(* Mistake: the subscriptions stay. *)
Disconnect_KeepsTopics(m) ==
    /\ Dequeue(m)
    /\ IsFrame(m, "DISCONNECT") /\ ~IsRejected(m)
    /\ session_connected' = [session_connected EXCEPT ![m.session.fd] = FALSE]
    /\ Receipt(m, output_queue)
    /\ UNCHANGED <<topics, stale_queue, next_counter, tally>>

Disconnect(m) ==
    /\ Dequeue(m)
    /\ IsFrame(m, "DISCONNECT") /\ ~IsRejected(m)
    /\ topics' = pubsub_remove_client(topics, m.session)
    /\ session_connected' = [session_connected EXCEPT ![m.session.fd] = FALSE]
    /\ Receipt(m, output_queue)
    /\ UNCHANGED <<stale_queue, next_counter, tally>>

(* distribute_messages_from_stale_q: the expired messages leave the stale  *)
(* queue, the others that match the new subscription go to its client.     *)
FromStale(sub, expired) ==
    {s \in stale_queue.items \ expired :
        StaleMatches(sub.topic, s.data.frame.topic)}

Subscribe(m) ==
    /\ Dequeue(m)
    /\ IsFrame(m, "SUBSCRIBE") /\ ~IsRejected(m)
    /\ \E expired \in IF Ttl = 0 THEN {{}} ELSE SUBSET stale_queue.items :
        LET sub == Subscription(m.session, m.frame.topic, m.frame.id, m.ticket)
            copies == {[pos |-> s.pos,
                        data |-> Output("MESSAGE", m.session, None,
                                       s.data.ticket, sub)] :
                          s \in FromStale(sub, expired)}
        IN  /\ topics' = pubsub_subscribe(topics, sub)
            /\ stale_queue' = Unchain(stale_queue, stale_queue.items
                                 \ (expired \cup FromStale(sub, expired)))
            /\ Receipt(m, EnqueueMultiple(output_queue, copies))
    /\ UNCHANGED <<session_connected, next_counter, tally>>

Unsubscribe(m) ==
    /\ Dequeue(m)
    /\ IsFrame(m, "UNSUBSCRIBE") /\ ~IsRejected(m)
    /\ topics' = pubsub_unsubscribe(topics, m.session, m.frame.topic,
                                    m.frame.id)
    /\ Receipt(m, output_queue)
    /\ UNCHANGED <<session_connected, stale_queue, next_counter, tally>>

(* One more message of this topic for the chosen subscriptions; counting   *)
(* starts over when the group of consumers is not the one of last time.    *)
Tallied(topic, matching, chosen) ==
    [tally EXCEPT ![topic] =
        [s \in matching |->
            (IF DOMAIN tally[topic] = matching THEN tally[topic][s] ELSE 0)
            + (IF s \in chosen THEN 1 ELSE 0)]]

(* distribute_messages, for a message that has not expired.  The stale     *)
(* queue is filled in the branch taken when there are matching             *)
(* subscriptions, as in the code.                                          *)
Distribute(m) ==
    LET topic == m.frame.topic
        matching == pubsub_find_matching(topics, topic)
        worker == matching # {} /\ IsWorkerTopic(topic)
        chosen == IF worker THEN pick_next(matching, next_counter)
                  ELSE matching
        copies == {[pos |-> s.pos,
                    data |-> Output("MESSAGE", s.data.session, None,
                                   m.ticket, s.data)] :
                      s \in chosen}
    IN  /\ next_counter' = IF worker THEN (next_counter + 1) % UintSize
                           ELSE next_counter
        /\ tally' = IF worker THEN Tallied(topic, matching, chosen) ELSE tally
        /\ stale_queue' = IF matching # {} /\ copies = {} /\ Ttl > 0
                          THEN EnqueueLimited(stale_queue, m, MaxStaleQueue)
                          ELSE stale_queue
        /\ Receipt(m, EnqueueMultiple(output_queue, copies))

Send(m) ==
    /\ Dequeue(m)
    /\ IsFrame(m, "SEND") /\ ~IsRejected(m)
    /\ Distribute(m)
    /\ UNCHANGED <<session_connected, topics>>

(* The message waited in the input queue for longer than the time to live. *)
SendExpired(m) ==
    /\ Dequeue(m)
    /\ IsFrame(m, "SEND") /\ ~IsRejected(m)
    /\ Ttl # 0
    /\ Receipt(m, output_queue)
    /\ UNCHANGED readerState

Diagnostic(m) ==
    /\ Dequeue(m)
    /\ IsFrame(m, "DIAG") /\ ~IsRejected(m)
    /\ Respond(m, "DIAG")
    /\ UNCHANGED readerState

stomp_process(m) ==
    \/ Purge(m) \/ Reject(m)
    \/ Connect(m) \/ Disconnect(m)
    \/ Subscribe(m) \/ Unsubscribe(m)
    \/ Send(m) \/ SendExpired(m)
    \/ Diagnostic(m)

Reader == input_queue # <<>> /\ LET m == Head(input_queue)
                                IN  Handshake(m) \/ stomp_process(m)

Main == \E fd \in Fds :
    \/ \E enc \in BOOLEAN, frame \in Frames : ReadFrame(fd, enc, frame)
    \/ ReadIncomplete(fd)
    \/ CloseConnection(fd)

Writer(w) ==
    \/ \E n \in 1 .. MaxBatch : WriterTake(w, n)
    \/ WriterSent(w) \/ WriterFail(w) \/ WriterClean(w)

Next == Main \/ Reader \/ \E w \in Writers : Writer(w)

(* Only the reader is needed to progress: it never waits for anything but  *)
(* its queue.                                                              *)
Fairness == WF_vars(Reader)

Spec == Init /\ [][Next]_vars
FairSpec == Spec /\ Fairness

-----------------------------------------------------------------------------
(* Every variable keeps its type. *)
TypeOK ==
    /\ clients \in [Fds -> {"empty", "plain", "encoded"}]
    /\ input_queue \in Seq(FrameMessage \cup PurgeCommand)
    /\ session_connected \in [Fds -> BOOLEAN]
    /\ topics \in List(SubscriptionType)
    /\ stale_queue \in List(FrameMessage)
    /\ next_counter \in 0 .. UintSize - 1
    /\ output_queue \in List(OutputType)
    /\ writer \in [Writers -> BusyWriter \cup {IdleWriter}]
    /\ ticket \in Nat
    /\ leaked \subseteq Fds

(* Two messages of one subscription leave in the order in which the reader *)
(* got their SEND frames, and none is put twice (pubsub_find_matching,     *)
(* distribute_messages, ts_enqueue_multiple).                              *)
SendOrder ==
    \A x, y \in output_queue.items :
        /\ x.data.kind = "MESSAGE" /\ y.data.kind = "MESSAGE"
        /\ x.data.sub = y.data.sub
        /\ x.pos < y.pos
        => x.data.ticket < y.data.ticket

(* The subscriptions an UNSUBSCRIBE or DISCONNECT frame ends. *)
Ends(out, sub) ==
    /\ out.session = sub.session
    /\ \/ out.frame.command = "DISCONNECT"
       \/ /\ out.frame.command = "UNSUBSCRIBE"
          /\ out.frame.topic = sub.topic
          /\ out.frame.id = sub.id

(* The receipt of an UNSUBSCRIBE or DISCONNECT closes the subscription:    *)
(* behind it in the output queue there is no message of the subscriptions  *)
(* it ended, only of ones made later (stomp_process, the receipt at 140).  *)
ReceiptCloses ==
    \A r, x \in output_queue.items :
        /\ r.data.kind = "RECEIPT" /\ x.data.kind = "MESSAGE"
        /\ r.pos < x.pos
        /\ Ends(r.data, x.data.sub)
        => x.data.sub.born > r.data.ticket

(* A purge command for fd waits in the input queue. *)
PurgeQueued(fd) ==
    \E i \in 1 .. Len(input_queue) :
        input_queue[i].purge /\ input_queue[i].session.fd = fd

(* A descriptor without a client keeps its STOMP session only until the    *)
(* purge command for it is handled.  There are two exceptions, collected   *)
(* in leaked: the purge command of close_connection was dropped by a full  *)
(* input queue, or a writer removed the client, whose purge command        *)
(* overtook frames of the client still in the queue.                       *)
NoLeakedSession ==
    \A fd \in Fds \ leaked :
        session_connected[fd] /\ clients[fd] = "empty" => PurgeQueued(fd)

(* Every subscription of a client that never switches to WebSocket frames  *)
(* belongs to a connected session: what ends the session ends them too     *)
(* (stomp_process on a purge or a DISCONNECT).                             *)
PlainSubscriptionsOwned ==
    \A s \in topics.items :
        s.data.session.fd \notin Encodable
            => session_connected[s.data.session.fd]

(* A purge command removes the subscriptions of its descriptor, as its     *)
(* flag is documented (server/data/session_storage.h).                     *)
PurgeRemovesSubscriptions ==
    [][ \A m \in {input_queue[i] : i \in 1 .. Len(input_queue)} :
          Purge(m) => \A s \in topics'.items :
                         s.data.session.fd # m.session.fd ]_vars

(* While the consumers of a worker topic stay the same, the numbers of     *)
(* messages they got differ by at most one (pick_next), as long as one     *)
(* worker topic is in use and the counter does not wrap.                   *)
Balanced ==
    \A t \in WorkerTopics : \A x, y \in DOMAIN tally[t] :
        tally[t][x] <= tally[t][y] + 1

(* A client that is gone does not stay connected: its session ends, unless *)
(* the descriptor has a new client first or the session leaked (the purge  *)
(* command of close_connection, behind whatever is queued and overtaken by *)
(* the purge commands of the writers, is handled in the end).              *)
ClosedSessionEnds ==
    \A fd \in Fds :
        session_connected[fd] /\ clients[fd] = "empty" /\ fd \notin leaked
        ~> ~session_connected[fd] \/ clients[fd] # "empty" \/ fd \in leaked

(* The messages of subscription sub that wait in the output queue. *)
Waiting(sub) ==
    {x \in output_queue.items : x.data.kind = "MESSAGE" /\ x.data.sub = sub}

(* The mail of the abstract exchange: the numbers of their SEND frames in  *)
(* the order of the queue.                                                 *)
Mail ==
    LET mailed == {x \in output_queue.items : x.data.kind = "MESSAGE"}
    IN  [sub \in {x.data.sub : x \in mailed} |->
            [i \in 1 .. Cardinality(Waiting(sub)) |->
                (CHOOSE x \in Waiting(sub) : Rank(Waiting(sub), x) = i - 1)
                    .data.ticket]]

PublishSubscribe ==
    INSTANCE Exchange WITH
        Sessions <- Session, Numbers <- 1 .. MaxFrames,
        IsShared <- IsWorkerTopic,
        subscribed <- {s.data : s \in topics.items}, mail <- Mail

(* The broker is an exchange: a message reaches every subscription that    *)
(* covers its topic once, or one of them for a worker topic, and nobody    *)
(* else; a subscription begins and ends only by its own client's frames or *)
(* its end; a writer takes a client's messages oldest first (stomp_process *)
(* with the subscription table, distribute_messages and the two queues).   *)
ImplementsExchange == PublishSubscribe!Spec

=============================================================================
