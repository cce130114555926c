----------------------------- MODULE WriterPool -----------------------------
(***************************************************************************)
(* The writer threads (server/threads/writer_thread.c) and the queue they  *)
(* share (lib/thread_safe_queue.c).                                        *)
(*                                                                         *)
(* Everything done between pthread_mutex_lock and pthread_mutex_unlock of  *)
(* the queue is one step.  pthread_cond_wait puts a writer to sleep,       *)
(* pthread_cond_signal wakes one sleeping writer if there is one, and a    *)
(* writer may also wake up without a signal.                               *)
(***************************************************************************)
EXTENDS Integers, GeneralList, Sequences

CONSTANTS
    Writers,      \* the writer threads
    Fds,          \* the descriptors messages are for, with their flags
    None,         \* the descriptor of a poison pill
    Encoded,      \* those with the flag of a WebSocket client
    Contents,     \* what a message may say
    Len7,         \* texts below Len7 get a frame header of Header7 bytes,
    Len16,        \* those below Len16 one of Header16, longer ones one of
    Header7,      \* Header64; 126, 65536, 2, 4 and 10 in the code
    Header16,
    Header64,
    BatchSize,    \* MESSAGES_BATCH_SIZE
    BufferSize,   \* output_buffer_size
    Retries,      \* what retry_count starts from, 200 in the code
    MaxMessages   \* bound: messages put on the queue in one behaviour

ASSUME WriterPoolAssumption ==
    /\ IsFiniteSet(Writers) /\ Writers # {}
    /\ IsFiniteSet(Fds)
    /\ None \notin Fds
    /\ Encoded \subseteq Fds
    /\ Contents \subseteq [length : Nat \ {0}, http : BOOLEAN]
    /\ Len7 \in Nat /\ Len16 \in Nat
    /\ Header7 \in Nat /\ Header16 \in Nat /\ Header64 \in Nat
    /\ BatchSize \in Nat \ {0}
    /\ BufferSize \in Nat \ {0}
    /\ Retries \in Nat \ {0}
    /\ MaxMessages \in Nat

VARIABLES
    output_queue,  \* the messages and poison pills to take
    pc,            \* where each writer is
    batch,         \* what it took and has not looked at yet
    fd,            \* the descriptor of its batch, None at first
    buffer,        \* what it still has to write
    retry_count,   \* how often it still tries to
    open,          \* the descriptors with a session
    wire,          \* what the client of each descriptor was sent
    sent,          \* history: number of the last message
    killed,        \* poison pills put on the queue
    mixed          \* history: see StreamIntact

vars == <<output_queue, pc, batch, fd, buffer, retry_count, open, wire, sent,
          killed, mixed>>

(* The header of a WebSocket frame with n bytes behind it. *)
HeaderLen(n) ==
    IF n < Len7 THEN Header7 ELSE IF n < Len16 THEN Header16 ELSE Header64

(* message_create_with_frame_len: the text, its closing byte and, for a    *)
(* WebSocket client, the header the text would have without that byte.     *)
(* SessionFlags has the same with the lengths of the code.                 *)
ExpectedLen(f, c) ==
    c.length + 1 + (IF f \in Encoded THEN HeaderLen(c.length) ELSE 0)

(* ws_output_filter: what is written, as encode_websocket_frame makes it   *)
(* for a WebSocket client.  The answer to a handshake has no closing byte. *)
WrittenLen(m) ==
    IF m.fd \in Encoded
    THEN m.content.length + 1 + HeaderLen(m.content.length + 1)
    ELSE IF m.content.http THEN m.content.length ELSE m.content.length + 1

NewMessage(n, f, c) ==
    [id |-> n, fd |-> f, content |-> c, frame_len |-> ExpectedLen(f, c)]

Message == [id : Nat, fd : Fds, content : Contents, frame_len : Nat]
(* message_poison_pill_with_frame_len; its frame_len is never used. *)
Pill == [id |-> 0, fd |-> None, content |-> [length |-> 4, http |-> FALSE],
         frame_len |-> 0]
(* One byte of what is written: part k of the len bytes of message id,     *)
(* which was expected to take frame_len of them.                           *)
Unit == [id : Nat, part : Nat, len : Nat, frame_len : Nat]
States == {"ready", "waiting", "filtering", "writing", "exited"}

Init ==
    /\ output_queue = EmptyList
    /\ pc = [w \in Writers |-> "ready"]
    /\ batch = [w \in Writers |-> {}]
    /\ fd = [w \in Writers |-> None]
    /\ buffer = [w \in Writers |-> <<>>]
    /\ retry_count = [w \in Writers |-> Retries]
    /\ open = Fds
    /\ wire = [f \in Fds |-> <<>>]
    /\ sent = 0
    /\ killed = 0
    /\ mixed = {}

-----------------------------------------------------------------------------
(* The producers.                                                          *)

(* pthread_cond_signal *)
Signal ==
    \/ \E w \in Writers : /\ pc[w] = "waiting"
                          /\ pc' = [pc EXCEPT ![w] = "ready"]
    \/ /\ \A w \in Writers : pc[w] # "waiting"
       /\ UNCHANGED pc

(* Mistake: the queue is tested before the items are put on it, so that    *)
(* nobody is woken for the first ones.                                     *)
ts_enqueue_multiple_IfEmpty(fds, c) ==
    /\ Len(fds) > 0
    /\ sent + Len(fds) <= MaxMessages
    /\ sent' = sent + Len(fds)
    /\ output_queue' = EnqueueMultiple(output_queue,
         {[pos |-> i, data |-> NewMessage(sent + i, fds[i], c)] :
             i \in 1 .. Len(fds)})
    /\ IF output_queue.items = {} THEN UNCHANGED pc ELSE Signal
    /\ UNCHANGED <<batch, fd, buffer, retry_count, open, wire,
                   killed, mixed>>

(* ts_enqueue: one message for f. *)
ts_enqueue(f, c) ==
    /\ sent < MaxMessages
    /\ sent' = sent + 1
    /\ output_queue' = Enqueue(output_queue, NewMessage(sent + 1, f, c))
    /\ Signal
    /\ UNCHANGED <<batch, fd, buffer, retry_count, open, wire,
                   killed, mixed>>

(* ts_enqueue_multiple: a message for every descriptor of the list, and    *)
(* one signal for all of them.                                             *)
ts_enqueue_multiple(fds, c) ==
    /\ Len(fds) > 0
    /\ sent + Len(fds) <= MaxMessages
    /\ sent' = sent + Len(fds)
    /\ output_queue' = EnqueueMultiple(output_queue,
         {[pos |-> i, data |-> NewMessage(sent + i, fds[i], c)] :
             i \in 1 .. Len(fds)})
    /\ Signal
    /\ UNCHANGED <<batch, fd, buffer, retry_count, open, wire,
                   killed, mixed>>

(* Mistake: the pill is queued without a signal. *)
Kill_NoSignal ==
    /\ killed < Cardinality(Writers)
    /\ killed' = killed + 1
    /\ output_queue' = Enqueue(output_queue, Pill)
    /\ UNCHANGED <<pc, batch, fd, buffer, retry_count, open, wire, sent,
                   mixed>>

(* Mistake: the loop counts down. *)
Kill_CountsDown ==
    /\ killed < Cardinality(Writers)
    /\ killed' = killed - 1
    /\ output_queue' = Enqueue(output_queue, Pill)
    /\ Signal
    /\ UNCHANGED <<batch, fd, buffer, retry_count, open, wire, sent, mixed>>

(* process_kill_threads: one pill for each writer. *)
Kill ==
    /\ killed < Cardinality(Writers)
    /\ killed' = killed + 1
    /\ output_queue' = Enqueue(output_queue, Pill)
    /\ Signal
    /\ UNCHANGED <<batch, fd, buffer, retry_count, open, wire, sent, mixed>>

-----------------------------------------------------------------------------
(* Sessions come and go.                                                   *)

(* A writer still has something for descriptor f. *)
Serves(w, f) == fd[w] = f /\ (batch[w] # {} \/ buffer[w] # <<>>)

CloseSession(f) ==
    /\ f \in open
    /\ open' = open \ {f}
    /\ UNCHANGED <<output_queue, pc, batch, fd, buffer, retry_count, wire,
                   sent, killed, mixed>>

(* A new client got the descriptor. *)
OpenSession(f) ==
    /\ f \notin open
    /\ open' = open \cup {f}
    /\ wire' = [wire EXCEPT ![f] = <<>>]
    /\ mixed' = IF \E w \in Writers : Serves(w, f) THEN mixed \cup {f}
                ELSE mixed \ {f}
    /\ UNCHANGED <<output_queue, pc, batch, fd, buffer, retry_count, sent,
                   killed>>

-----------------------------------------------------------------------------
(* The writers.                                                            *)

Items == output_queue.items
IsPill(i) == i.data.fd = None
Pills == {i \in Items : IsPill(i)}

(* How long the messages of S are expected to be together. *)
Length(S) == Cardinality(UNION {{i} \X (1 .. i.data.frame_len) : i \in S})

(* The messages of the descriptor of item i in front of it. *)
Before(i) == {j \in Items : j.data.fd = i.data.fd /\ j.pos < i.pos}

(* Mistake: a message that does not fit is skipped. *)
PickedMessages_SkipsLarge(first) ==
    {i \in Items \ Pills :
        /\ i.data.fd = first.data.fd
        /\ \A p \in Pills : i.pos < p.pos
        /\ i = first \/ first.data.frame_len + i.data.frame_len <= BufferSize}

(* Mistake: there must be room before the message, not for it. *)
PickedMessages_FitsLate(first) ==
    {i \in Items \ Pills :
        /\ i.data.fd = first.data.fd
        /\ \A p \in Pills : i.pos < p.pos
        /\ \/ i = first
           \/ /\ Cardinality(Before(i)) < BatchSize
              /\ Length(Before(i)) < BufferSize}

(* The loop of ts_dequeue_multiple_messages_for_same_fd: the first message *)
(* whatever its length, then those for the same descriptor as long as they *)
(* fit, up to the first pill.                                              *)
PickedMessages(first) ==
    {i \in Items \ Pills :
        /\ i.data.fd = first.data.fd
        /\ \A p \in Pills : i.pos < p.pos
        /\ \/ i = first
           \/ /\ Cardinality(Before(i)) < BatchSize
              /\ Length(Before(i)) + i.data.frame_len <= BufferSize}

(* The pill that ends the loop, if the loop gets that far. *)
PickedPill(first) ==
    {p \in Pills :
        /\ IsFirst(p, Pills)
        /\ \/ p = first
           \/ /\ \A i \in Items : i.data.fd = first.data.fd /\ i.pos < p.pos
                                  => i \in PickedMessages(first)
              /\ Cardinality(PickedMessages(first)) < BatchSize
              /\ Length(PickedMessages(first)) < BufferSize}

(* Mistake: waits without looking at the size of the queue. *)
Wait_Unchecked(w) ==
    /\ pc[w] = "ready"
    /\ pc' = [pc EXCEPT ![w] = "waiting"]
    /\ UNCHANGED <<output_queue, batch, fd, buffer, retry_count, open, wire,
                   sent, killed, mixed>>

Wait(w) ==
    /\ pc[w] = "ready"
    /\ Items = {}
    /\ pc' = [pc EXCEPT ![w] = "waiting"]
    /\ UNCHANGED <<output_queue, batch, fd, buffer, retry_count, open, wire,
                   sent, killed, mixed>>

SpuriousWakeup(w) ==
    /\ pc[w] = "waiting"
    /\ pc' = [pc EXCEPT ![w] = "ready"]
    /\ UNCHANGED <<output_queue, batch, fd, buffer, retry_count, open, wire,
                   sent, killed, mixed>>

Take(w) ==
    /\ pc[w] = "ready"
    /\ \E first \in Items :
        LET picked == PickedMessages(first) \cup PickedPill(first)
            f == first.data.fd
        IN  /\ IsFirst(first, Items)
            /\ output_queue' = Unchain(output_queue, Items \ picked)
            /\ batch' = [batch EXCEPT ![w] = picked]
            /\ fd' = [fd EXCEPT ![w] = f]
            /\ mixed' = IF \E v \in Writers \ {w} : Serves(v, f)
                        THEN mixed \cup ({f} \ {None}) ELSE mixed
    /\ pc' = [pc EXCEPT ![w] = "filtering"]
    /\ UNCHANGED <<buffer, retry_count, open, wire, sent, killed>>

(* What is copied into the write buffer for message m. *)
Units(m) ==
    [k \in 1 .. WrittenLen(m) |->
        [id |-> m.id, part |-> k, len |-> WrittenLen(m),
         frame_len |-> m.frame_len]]

(* The loop over the batch reaches a pill: the thread ends, and what it    *)
(* has in its buffer is not written.                                       *)
FilterPill(w) ==
    /\ pc[w] = "filtering"
    /\ \E item \in batch[w] : IsFirst(item, batch[w]) /\ IsPill(item)
    /\ pc' = [pc EXCEPT ![w] = "exited"]
    /\ batch' = [batch EXCEPT ![w] = {}]
    /\ buffer' = [buffer EXCEPT ![w] = <<>>]
    /\ UNCHANGED <<output_queue, fd, retry_count, open, wire, sent, killed,
                   mixed>>

(* The loop over the batch reaches a message: it is dropped if its client  *)
(* has no session.  After the last one the buffer is written.              *)
FilterMessage(w) ==
    /\ pc[w] = "filtering"
    /\ \E item \in batch[w] :
        LET rest == batch[w] \ {item}
            filled == IF item.data.fd \in open
                      THEN buffer[w] \o Units(item.data) ELSE buffer[w]
        IN  /\ IsFirst(item, batch[w]) /\ ~IsPill(item)
            /\ batch' = [batch EXCEPT ![w] = rest]
            /\ buffer' = [buffer EXCEPT ![w] = filled]
            /\ pc' = [pc EXCEPT ![w] = IF rest # {} THEN "filtering"
                                       ELSE IF filled = <<>> THEN "ready"
                                       ELSE "writing"]
    /\ UNCHANGED <<output_queue, fd, retry_count, open, wire, sent, killed,
                   mixed>>

(* Mistake: the offset is one too large. *)
Write_SkipsOne(w, n) ==
    /\ pc[w] = "writing"
    /\ fd[w] \in open
    /\ n \in 1 .. Len(buffer[w])
    /\ wire' = [wire EXCEPT ![fd[w]] = @ \o SubSeq(buffer[w], 1, n)]
    /\ buffer' = [buffer EXCEPT ![w] = SubSeq(@, n + 2, Len(@))]
    /\ retry_count' = [retry_count EXCEPT ![w] = Retries]
    /\ pc' = [pc EXCEPT ![w] = IF n + 1 >= Len(buffer[w]) THEN "ready"
                               ELSE "writing"]
    /\ UNCHANGED <<output_queue, batch, fd, open, sent, killed, mixed>>

(* write() accepts the first n units; the retries begin anew. *)
Write(w, n) ==
    /\ pc[w] = "writing"
    /\ fd[w] \in open
    /\ n \in 1 .. Len(buffer[w])
    /\ wire' = [wire EXCEPT ![fd[w]] = @ \o SubSeq(buffer[w], 1, n)]
    /\ buffer' = [buffer EXCEPT ![w] = SubSeq(@, n + 1, Len(@))]
    /\ retry_count' = [retry_count EXCEPT ![w] = Retries]
    /\ pc' = [pc EXCEPT ![w] = IF n = Len(buffer[w]) THEN "ready"
                               ELSE "writing"]
    /\ UNCHANGED <<output_queue, batch, fd, open, sent, killed, mixed>>

(* Mistake: the retries begin anew when they are used up. *)
WriteFails_Forever(w) ==
    /\ pc[w] = "writing"
    /\ retry_count' = [retry_count EXCEPT ![w] =
                          IF @ > 1 THEN @ - 1 ELSE Retries]
    /\ UNCHANGED <<output_queue, pc, batch, fd, buffer, open, wire, sent,
                   killed, mixed>>

(* write() accepts nothing, for whatever reason, and is tried again. *)
WriteFails(w) ==
    /\ pc[w] = "writing"
    /\ retry_count[w] > 1
    /\ retry_count' = [retry_count EXCEPT ![w] = @ - 1]
    /\ UNCHANGED <<output_queue, pc, batch, fd, buffer, open, wire, sent,
                   killed, mixed>>

(* The last retry fails: w_close_connection ends the session, and what is  *)
(* in the buffer is dropped.  It waits for the lock of the sessions, which *)
(* is always free in the end here; Connections has that lock.              *)
GiveUp(w) ==
    /\ pc[w] = "writing"
    /\ retry_count[w] = 1
    /\ retry_count' = [retry_count EXCEPT ![w] = Retries]
    /\ open' = open \ {fd[w]}
    /\ buffer' = [buffer EXCEPT ![w] = <<>>]
    /\ pc' = [pc EXCEPT ![w] = "ready"]
    /\ UNCHANGED <<output_queue, batch, fd, wire, sent, killed, mixed>>

WriterStep(w) ==
    \/ Wait(w) \/ Take(w)
    \/ FilterPill(w) \/ FilterMessage(w)
    \/ (\E n \in 1 .. Len(buffer[w]) : Write(w, n))
    \/ WriteFails(w) \/ GiveUp(w)

(* The answer to a handshake is for one client, which has no flag yet. *)
Produce ==
    \/ \E f \in Fds, c \in Contents :
          (c.http => f \notin Encoded) /\ ts_enqueue(f, c)
    \/ \E f \in Fds, g \in Fds, c \in Contents :
          ~c.http /\ ts_enqueue_multiple(<<f, g>>, c)
    \/ Kill

Sessions == \E f \in Fds : CloseSession(f) \/ OpenSession(f)

Next ==
    \/ Produce \/ Sessions
    \/ \E w \in Writers : WriterStep(w) \/ SpuriousWakeup(w)

(* A thread that can run is scheduled.  Nothing is assumed of the clients: *)
(* one that accepts nothing more is dropped when the retries are used up.  *)
Fairness == \A w \in Writers : WF_vars(WriterStep(w))

Spec == Init /\ [][Next]_vars
FairSpec == Spec /\ Fairness

-----------------------------------------------------------------------------
Live == {w \in Writers : pc[w] # "exited"}

(* Every variable keeps its type. *)
TypeOK ==
    /\ output_queue \in List(Message \cup {Pill})
    /\ pc \in [Writers -> States]
    /\ batch \in [Writers -> SUBSET Item(Message \cup {Pill})]
    /\ fd \in [Writers -> Fds \cup {None}]
    /\ buffer \in [Writers -> Seq(Unit)]
    /\ retry_count \in [Writers -> 1 .. Retries]
    /\ open \subseteq Fds
    /\ wire \in [Fds -> Seq(Unit)]
    /\ sent \in Nat
    /\ killed \in Nat
    /\ mixed \subseteq Fds

(* A writer with a pill in its batch will exit; the others go on. *)
Doomed(w) == pc[w] = "exited" \/ \E i \in batch[w] : IsPill(i)
Going == {w \in Writers : ~Doomed(w)}
Awake == {w \in Going : pc[w] # "waiting"}

(* Enough of the writers that go on are awake: one for each pill in the    *)
(* queue and one more if there is a message, or else all of them.          *)
EnoughAwake ==
    \/ Awake = Going
    \/ /\ Cardinality(Awake) >= Cardinality(Pills)
       /\ Items # Pills => Cardinality(Awake) > Cardinality(Pills)

(* While there is something to take, not every writer that still runs is   *)
(* asleep: one signal for many messages (ts_enqueue_multiple), and pills   *)
(* that let the awake writers exit, never leave the queue to sleepers.     *)
NoLostWakeup ==
    Items # {} /\ Live # {} => \E w \in Live : pc[w] # "waiting"

(* A writer's messages are older than those still queued for the same      *)
(* descriptor: skipping other descriptors, and stopping at one that does   *)
(* not fit, never overtakes (ts_dequeue_multiple_messages_for_same_fd).    *)
TakenInOrder ==
    \A w \in Writers, y \in Items :
        y.data.fd = fd[w] /\ y.data.fd # None =>
            /\ \A x \in batch[w] : ~IsPill(x) => x.data.id < y.data.id
            /\ \A k \in 1 .. Len(buffer[w]) : buffer[w][k].id < y.data.id

(* A byte of a message that takes no more than it was expected to, and     *)
(* that was expected to fit the write buffer.                              *)
AsExpected(u) == u.len <= u.frame_len /\ u.frame_len <= BufferSize

(* The messages in the write buffer of a thread fit it, because            *)
(* ts_dequeue_multiple_messages_for_same_fd takes only as many as it has   *)
(* room for.  Two kinds of messages are excepted: one that is too large    *)
(* for the buffer, since the first one is taken whatever its length, and   *)
(* one that ws_output_filter makes longer than frame_len.                  *)
BatchFits ==
    \A w \in Writers :
        (\A k \in 1 .. Len(buffer[w]) : AsExpected(buffer[w][k]))
            => Len(buffer[w]) <= BufferSize

(* The write buffer, which is on the stack of a writer, is never overrun:  *)
(* a batch is limited by frame_len, and message_create_with_frame_len      *)
(* "Precalculates the frame length to support output stream buffering".    *)
BufferNotOverrun == \A w \in Writers : Len(buffer[w]) <= BufferSize

(* v may follow u on the wire: the next part of a message, or the start of *)
(* a later one.                                                            *)
Follows(u, v) ==
    \/ v.id = u.id /\ v.part = u.part + 1
    \/ v.id > u.id /\ v.part = 1 /\ u.part = u.len

(* A client receives whole messages in the order in which they were        *)
(* queued, unless two writers served its descriptor at the same time, or   *)
(* the descriptor was reused while a writer still served it (mixed).       *)
StreamIntact ==
    \A f \in Fds \ mixed :
        /\ wire[f] # <<>> => wire[f][1].part = 1
        /\ \A k \in 1 .. Len(wire[f]) - 1 : Follows(wire[f][k], wire[f][k + 1])

(* A queued message is taken, unless the pills end every writer first. *)
Queued(n) == \E i \in Items : i.data.id = n

MessagesTaken ==
    \A n \in 1 .. MaxMessages : Queued(n) ~> ~Queued(n) \/ Live = {}

(* After the last pill every writer exits, and pthread_join returns. *)
WritersExit == killed = Cardinality(Writers) ~> Live = {}

=============================================================================
