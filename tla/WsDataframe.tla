---------------------------- MODULE WsDataframe ----------------------------
(***************************************************************************)
(* WebSocket data frames on their way in (websocket/filter/dataframe.c),   *)
(* the continuation buffer that all clients share (websocket/buffer.c) and *)
(* the part of the main thread that drives them (do_use_fd).               *)
(*                                                                         *)
(* A client sends frames one behind the other; TCP hands them to the       *)
(* broker in chunks cut anywhere.  A frame is its opcode, the form of its  *)
(* length field and the length of its payload, and it knows the offset     *)
(* `at' of its first byte in what its client sent.  A buffer holds the     *)
(* bytes from offset `start' on: what the broker reads as a header is a    *)
(* header only if a frame begins there.                                    *)
(*                                                                         *)
(* The filter runs under the session storage lock, and so does a writer    *)
(* that gives a client up; the main thread cleans up without it.  recv and *)
(* taking the lock are one step here; what other threads may do in between *)
(* is the subject of module Connections.                                   *)
(***************************************************************************)
EXTENDS Integers, Sequences, FiniteSets

CONSTANTS
    Fds,          \* descriptors of clients
    Frames,       \* what each client may send
    MinFrame,     \* MIN_DATA_FRAME_SIZE, 16
    Len7, Len16,  \* 126 and 65536: where the longer length forms begin
    Header7, Header16, Header64,  \* header lengths with mask: 6, 8 and 14
    MaxPayload,   \* WS_DATA_FRAME_MAX_LENGTH
    Slots,        \* WS_CONTINUATION_BUFFER
    MaxBuffer,    \* WS_MAX_BUFFER_SIZE
    ReadSize,     \* input_buffer_size
    MaxFrames     \* bound: frames each client sends

ASSUME WsDataframeAssumption ==
    /\ IsFiniteSet(Fds)
    /\ Frames \in [Fds -> SUBSET [op : {"text", "close", "other"},
                                  form : {"7", "16", "64"}, payload : Nat]]
    /\ \A fd \in Fds : \A f \in Frames[fd] :   \* the length fits its form
          (f.form = "7" => f.payload < Len7) /\ (f.form = "16" => f.payload < Len16)
    /\ {MinFrame, Len7, Len16, Header7, Header16, Header64} \subseteq Nat
    /\ {MaxPayload, Slots, MaxBuffer} \subseteq Nat
    /\ MaxFrames \in [Fds -> Nat]
    /\ ReadSize \in Nat \ {0}
    /\ 0 < Header7 /\ Header7 <= Header16 /\ Header16 <= Header64
    /\ Header64 <= MinFrame   \* a header is never read past the buffer

VARIABLES
    stream,          \* the frames each client has sent
    taken,           \* how many of its bytes recv has returned
    session,         \* the client table: "none", "plain" or "encoded"
    ws_buffer,       \* the continuation buffer: an item or NoItem
    allocated_size,  \* ws_buffer_stat.allocated_size
    main,            \* the main thread
    delivered,       \* its frames given to put_stomp_messages_on_queue
    torn,            \* history: clients of whose frames bytes went elsewhere
    clean,           \* clean_by_fd in the main thread and in a writer
    raced            \* history: both were in the accounting at a time

vars == <<stream, taken, session, ws_buffer, allocated_size, main, delivered,
          torn, clean, raced>>

client_vars == <<stream, taken, session, delivered, torn>>
clean_vars == <<clean, raced>>

(* One writer stands for all of them: they clean up under the lock. *)
Cleaners == {"main", "writer"}
NotCleaning == [at |-> "none"]
Cleaned(fd) == \E c \in Cleaners : clean[c] # NotCleaning /\ clean[c].fd = fd

NoItem == [start |-> 0, received_len |-> 0]
Idle == [at |-> "idle", out |-> <<>>]
Statuses == {"COMPLETE_DATAFRAME", "INCOMPLETE_DATAFRAME",
             "TOO_LARGE_DATAFRAME", "BUFFER_EXCEEDED_MAX",
             "BUFFER_OUT_OF_SLOTS", "CLIENT_DISCONNECT", "UNHANDLED"}

(* The header length that ws_dataframe_read_headers takes from the form. *)
HeaderLen(form) ==
    CASE form = "7" -> Header7 [] form = "16" -> Header16 [] OTHER -> Header64

(* Mistake: the two byte length form begins one byte late. *)
Skip_Late(payload) ==
    IF payload <= Len7 THEN Header7
    ELSE IF payload < Len16 THEN Header16 ELSE Header64

(* The skip that ws_dataframe_decode recomputes from the payload length. *)
Skip(payload) ==
    IF payload < Len7 THEN Header7
    ELSE IF payload < Len16 THEN Header16 ELSE Header64

(* The length has the shortest form it fits in, as the protocol demands. *)
Shortest(f) ==
    HeaderLen(f.form) = CASE f.payload < Len7 -> Header7
                          [] f.payload \in Len7 .. Len16 - 1 -> Header16
                          [] OTHER -> Header64

FrameLen(f) == f.payload + HeaderLen(f.form)
End(f) == f.at + FrameLen(f)
Sent(fd) == IF stream[fd] = <<>> THEN 0 ELSE End(stream[fd][Len(stream[fd])])
FrameAt(fd, offset) ==
    {k \in DOMAIN stream[fd] : stream[fd][k].at = offset}

Init ==
    /\ stream = [fd \in Fds |-> <<>>]
    /\ taken = [fd \in Fds |-> 0]
    /\ session = [fd \in Fds |-> "none"]
    /\ ws_buffer = [fd \in Fds |-> NoItem]
    /\ allocated_size = 0
    /\ main = Idle
    /\ delivered = [fd \in Fds |-> <<>>]
    /\ torn = {}
    /\ clean = [c \in Cleaners |-> NotCleaning]
    /\ raced = FALSE

-----------------------------------------------------------------------------
(* The clients.                                                            *)

(* The main thread is back at epoll. *)
AtEpoll == main = Idle /\ clean["main"] = NotCleaning

LockFree == clean["writer"] = NotCleaning /\ main.at \notin {"filter", "lost"}

(* A client connects and its handshake, a plain message, makes a session. *)
Open(fd) ==
    /\ AtEpoll /\ LockFree
    /\ session[fd] = "none"
    /\ session' = [session EXCEPT ![fd] = "plain"]
    /\ UNCHANGED <<stream, taken, ws_buffer, allocated_size, main, delivered,
                   torn, clean_vars>>

Send(fd, frame) ==
    /\ session[fd] # "none"
    /\ Len(stream[fd]) < MaxFrames[fd]
    /\ stream' = [stream EXCEPT ![fd] = Append(@,
         [op |-> frame.op, form |-> frame.form, payload |-> frame.payload,
          at |-> Sent(fd)])]
    /\ UNCHANGED <<taken, session, ws_buffer, allocated_size, main, delivered,
                   torn, clean_vars>>

-----------------------------------------------------------------------------
(* The continuation buffer.                                                *)

HasItem(fd) == ws_buffer[fd] # NoItem
SlotsInUse == Cardinality({fd \in Fds : HasItem(fd)})

ws_buffer_free(fd) ==
    /\ ws_buffer' = [ws_buffer EXCEPT ![fd] = NoItem]
    /\ allocated_size' = allocated_size - ws_buffer[fd].received_len

(* ws_buffer_resize and what is copied with it: the buffer now holds the   *)
(* bytes from offset start on.                                             *)
ws_buffer_resize(fd, start, new_len) ==
    /\ ws_buffer' =
         [ws_buffer EXCEPT ![fd] = [start |-> start, received_len |-> new_len]]
    /\ allocated_size' =
         allocated_size + new_len - ws_buffer[fd].received_len

ws_buffer_add(fd, read_len) == ws_buffer_resize(fd, taken[fd], read_len)

-----------------------------------------------------------------------------
(* The main thread.                                                        *)

(* The mask bit is in the second byte of the chunk.  A chunk of one byte   *)
(* leaves there what the chunk before it, of whatever client, had; a chunk *)
(* that does not begin with a frame has any byte there.                    *)
ws_channel_is_encoded(fd, read_len) ==
    IF session[fd] = "encoded" \/ (read_len > 1 /\ FrameAt(fd, taken[fd]) # {})
    THEN {TRUE} ELSE BOOLEAN

Chunk(fd, read_len) ==
    /\ AtEpoll /\ LockFree
    /\ session[fd] # "none"
    /\ read_len <= Sent(fd) - taken[fd]
    /\ taken' = [taken EXCEPT ![fd] = @ + read_len]

(* The bytes are taken for STOMP: WS_NOT_A_DATAFRAME. *)
ReadPlain(fd, read_len) ==
    /\ Chunk(fd, read_len)
    /\ FALSE \in ws_channel_is_encoded(fd, read_len)
    /\ torn' = torn \cup {fd}
    /\ UNCHANGED <<stream, session, ws_buffer, allocated_size, main, delivered,
                   clean_vars>>

Filter(fd, out) == [at |-> "filter", out |-> out, fd |-> fd]
Return(fd, status, out) ==
    [at |-> "return", out |-> out, fd |-> fd, status |-> status]

(* ws_input_filter_dataframe up to its loop. *)
ReadEncoded(fd, read_len) ==
    /\ Chunk(fd, read_len)
    /\ TRUE \in ws_channel_is_encoded(fd, read_len)
    /\ session' = [session EXCEPT ![fd] = "encoded"]
    /\ \/ /\ MaxBuffer - (allocated_size + read_len) < 0
          /\ ws_buffer_free(fd)
          /\ main' = Return(fd, "BUFFER_EXCEEDED_MAX", <<>>)
       \/ /\ MaxBuffer - (allocated_size + read_len) >= 0
          /\ HasItem(fd)
          /\ ws_buffer_resize(fd, ws_buffer[fd].start,
                              ws_buffer[fd].received_len + read_len)
          /\ main' = Filter(fd, <<>>)
       \/ /\ MaxBuffer - (allocated_size + read_len) >= 0
          /\ ~HasItem(fd)
          /\ SlotsInUse < Slots
          /\ ws_buffer_add(fd, read_len)
          /\ main' = Filter(fd, <<>>)
       \/ /\ MaxBuffer - (allocated_size + read_len) >= 0
          /\ ~HasItem(fd)
          /\ SlotsInUse >= Slots
          /\ main' = Return(fd, "BUFFER_OUT_OF_SLOTS", <<>>)
          /\ UNCHANGED <<ws_buffer, allocated_size>>
    /\ UNCHANGED <<stream, delivered, torn, clean_vars>>

(* What ws_dataframe_read_headers finds at the front of the buffer: the    *)
(* number of the frame that begins there, or else any header (number 0).   *)
Headers(fd) ==
    LET front == FrameAt(fd, ws_buffer[fd].start)
    IN  IF front = {}
        THEN {[k |-> 0, op |-> f.op, form |-> f.form, payload |-> f.payload] :
                f \in Frames[fd]}
        ELSE {[k |-> k, op |-> stream[fd][k].op, form |-> stream[fd][k].form,
               payload |-> stream[fd][k].payload] : k \in front}

(* Mistake: a frame of the largest length is refused. *)
Refusal_AtLimit(h) ==
    CASE h.op = "close" -> "CLIENT_DISCONNECT"
      [] h.op = "other" -> "UNHANDLED"
      [] h.op = "text" /\ h.payload >= MaxPayload -> "TOO_LARGE_DATAFRAME"
      [] OTHER -> "none"

(* ws_dataframe_read_headers: the frames it refuses. *)
Refusal(h) ==
    CASE h.op = "close" -> "CLIENT_DISCONNECT"
      [] h.op = "other" -> "UNHANDLED"
      [] h.op = "text" /\ h.payload > MaxPayload -> "TOO_LARGE_DATAFRAME"
      [] OTHER -> "none"

(* Mistake: one frame for each chunk. *)
Looping_Once(fd) ==
    /\ main.at = "filter" /\ main.fd = fd
    /\ ws_buffer[fd].received_len > MinFrame
    /\ main.out = <<>>

(* The loop has enough bytes to look at a header. *)
Looping(fd) ==
    /\ main.at = "filter" /\ main.fd = fd
    /\ ws_buffer[fd].received_len > MinFrame

(* The loop breaks at a frame that is refused: its bytes stay. *)
Refuse(fd) ==
    /\ Looping(fd)
    /\ \E h \in Headers(fd) :
          /\ Refusal(h) # "none"
          /\ main' = Return(fd, Refusal(h), main.out)
    /\ UNCHANGED <<client_vars, ws_buffer, allocated_size, clean_vars>>

(* The status without a refusal. *)
Status(out) ==
    IF out = <<>> THEN "INCOMPLETE_DATAFRAME" ELSE "COMPLETE_DATAFRAME"

(* Mistake: the header is not counted. *)
Complete_NoHeader(fd, h) == ws_buffer[fd].received_len >= h.payload

(* All of the frame has come. *)
Complete(fd, h) == ws_buffer[fd].received_len >= h.payload + HeaderLen(h.form)

(* The loop breaks at a frame whose end is still to come. *)
Break(fd) ==
    /\ Looping(fd)
    /\ \E h \in Headers(fd) : Refusal(h) = "none" /\ ~Complete(fd, h)
    /\ main' = Return(fd, Status(main.out), main.out)
    /\ UNCHANGED <<client_vars, ws_buffer, allocated_size, clean_vars>>

(* ws_dataframe_decode: the frame moves from the buffer to the output.     *)
(* Behind a header longer than the skip the payload is read askew (0).     *)
Decode(fd) ==
    /\ Looping(fd)
    /\ \E h \in Headers(fd) :
          LET removed == h.payload + Skip(h.payload)
          IN  /\ Refusal(h) = "none"
              /\ h.payload > 0
              /\ Complete(fd, h)
              /\ ws_buffer_resize(fd, ws_buffer[fd].start + removed,
                                  ws_buffer[fd].received_len - removed)
              /\ main' = Filter(fd, Append(main.out,
                                  IF HeaderLen(h.form) = Skip(h.payload)
                                  THEN h.k ELSE 0))
    /\ UNCHANGED <<client_vars, clean_vars>>

(* A frame without payload is not removed, so that the loop meets it again *)
(* for ever, or ends the process when realloc to size 0 returns NULL.      *)
DecodeEmpty(fd) ==
    /\ Looping(fd)
    /\ \E h \in Headers(fd) : Refusal(h) = "none" /\ h.payload = 0
    /\ main' = [main EXCEPT !.at = "lost"]
    /\ UNCHANGED <<client_vars, ws_buffer, allocated_size, clean_vars>>

(* Mistake: the filter waits for the rest of a short frame. *)
LeaveLoop_OnlyEmpty(fd) ==
    /\ main.at = "filter" /\ main.fd = fd
    /\ ws_buffer[fd].received_len = 0
    /\ ws_buffer_free(fd)
    /\ main' = Return(fd, Status(main.out), main.out)
    /\ UNCHANGED <<client_vars, clean_vars>>

(* The end of the loop; an empty buffer gives up its slot. *)
LeaveLoop(fd) ==
    /\ main.at = "filter" /\ main.fd = fd
    /\ ~Looping(fd)
    /\ IF ws_buffer[fd].received_len = 0 THEN ws_buffer_free(fd)
       ELSE UNCHANGED <<ws_buffer, allocated_size>>
    /\ main' = Return(fd, Status(main.out), main.out)
    /\ UNCHANGED <<client_vars, clean_vars>>

(* clean_by_fd of a descriptor that has a session. *)
Cleans(c, fd) == clean' = [clean EXCEPT ![c] = [at |-> "remove", fd |-> fd]]

(* close and session_storage_remove: the descriptor is ready for another   *)
(* client.                                                                 *)
Remove(c) ==
    /\ clean[c].at = "remove"
    /\ LET fd == clean[c].fd
       IN  /\ session' = [session EXCEPT ![fd] = "none"]
           /\ stream' = [stream EXCEPT ![fd] = <<>>]
           /\ taken' = [taken EXCEPT ![fd] = 0]
           /\ delivered' = [delivered EXCEPT ![fd] = <<>>]
           /\ torn' = torn \ {fd}
           /\ clean' = [clean EXCEPT ![c] = [at |-> "free", fd |-> fd]]
    /\ UNCHANGED <<ws_buffer, allocated_size, main, raced>>

(* ws_buffer_find, and ws_buffer_free as far as it reads allocated_size. *)
Free(c) ==
    /\ clean[c].at = "free"
    /\ LET fd == clean[c].fd
       IN  \/ /\ HasItem(fd)
              /\ clean' = [clean EXCEPT ![c] =
                   [at |-> "store", fd |-> fd, size |-> allocated_size,
                    len |-> ws_buffer[fd].received_len]]
              /\ raced' = (raced \/ \E d \in Cleaners : clean[d].at = "store")
           \/ /\ ~HasItem(fd)
              /\ clean' = [clean EXCEPT ![c] = NotCleaning]
              /\ UNCHANGED raced
    /\ UNCHANGED <<client_vars, ws_buffer, allocated_size, main>>

(* Mistake: the accounting is left as it was. *)
Store_Unaccounted(c) ==
    /\ clean[c].at = "store"
    /\ ws_buffer' = [ws_buffer EXCEPT ![clean[c].fd] = NoItem]
    /\ clean' = [clean EXCEPT ![c] = NotCleaning]
    /\ UNCHANGED <<client_vars, allocated_size, main, raced>>

(* The rest of ws_buffer_free. *)
Store(c) ==
    /\ clean[c].at = "store"
    /\ allocated_size' = clean[c].size - clean[c].len
    /\ ws_buffer' = [ws_buffer EXCEPT ![clean[c].fd] = NoItem]
    /\ clean' = [clean EXCEPT ![c] = NotCleaning]
    /\ UNCHANGED <<client_vars, main, raced>>

clean_by_fd(c) == Remove(c) \/ Free(c) \/ Store(c)

Disconnects == {"CLIENT_DISCONNECT", "BUFFER_OUT_OF_SLOTS",
                "BUFFER_EXCEEDED_MAX", "TOO_LARGE_DATAFRAME"}

(* do_use_fd behind the lock: what was decoded goes to the queue, and some *)
(* statuses close the connection; an unhandled opcode does not.            *)
Apply(fd) ==
    /\ main.at = "return" /\ main.fd = fd
    /\ main' = Idle
    /\ \/ /\ session[fd] # "none"
          /\ delivered' = [delivered EXCEPT ![fd] = @ \o main.out]
          /\ IF main.status \in Disconnects THEN Cleans("main", fd)
             ELSE UNCHANGED clean
       \/ session[fd] = "none" /\ UNCHANGED <<delivered, clean>>
    /\ UNCHANGED <<stream, taken, session, ws_buffer, allocated_size, torn, raced>>

(* recv returns nothing more: the client has gone. *)
HangUp(fd) ==
    /\ AtEpoll
    /\ session[fd] # "none"
    /\ Cleans("main", fd)
    /\ UNCHANGED <<client_vars, ws_buffer, allocated_size, main, raced>>

(* A writer thread takes the lock to give the client up. *)
WriterClean(fd) ==
    /\ LockFree
    /\ session[fd] # "none"
    /\ Cleans("writer", fd)
    /\ UNCHANGED <<client_vars, ws_buffer, allocated_size, main, raced>>

MainStep ==
    \/ \E fd \in Fds : \/ Refuse(fd) \/ Break(fd) \/ Decode(fd) \/ DecodeEmpty(fd)
                       \/ LeaveLoop(fd) \/ Apply(fd)
    \/ clean_by_fd("main")

Next ==
    \/ \E fd \in Fds : \E f \in Frames[fd] : Send(fd, f)
    \/ \E fd \in Fds, n \in 1 .. ReadSize : ReadPlain(fd, n) \/ ReadEncoded(fd, n)
    \/ \E fd \in Fds : Open(fd) \/ HangUp(fd) \/ WriterClean(fd)
    \/ clean_by_fd("writer")
    \/ MainStep

(* The main thread is scheduled. *)
Spec == Init /\ [][Next]_vars /\ WF_vars(MainStep)

-----------------------------------------------------------------------------
(* Every variable keeps its type. *)
TypeOK ==
    /\ \A fd \in Fds : \A k \in DOMAIN stream[fd] :
          stream[fd][k] \in [op : {"text", "close", "other"},
                             form : {"7", "16", "64"}, payload : Nat, at : Nat]
    /\ taken \in [Fds -> Nat]
    /\ session \in [Fds -> {"none", "plain", "encoded"}]
    /\ ws_buffer \in [Fds -> [start : Nat, received_len : Nat]]
    /\ allocated_size \in Nat
    /\ main.at \in {"idle", "filter", "return", "lost"}
    /\ main.at = "return" => main.status \in Statuses
    /\ torn \subseteq Fds
    /\ \A c \in Cleaners : clean[c].at \in {"none", "remove", "free", "store"}

(* The clients that give every length in its shortest form, all of whose   *)
(* bytes went through the filter, while nobody cleans them up.             *)
Whole ==
    {fd \in Fds \ torn : /\ session[fd] # "none" /\ ~Cleaned(fd)
                         /\ \A k \in DOMAIN stream[fd] : Shortest(stream[fd][k])}

(* What was decoded for fd, on the queue or still with the main thread. *)
Decoded(fd) ==
    IF main # Idle /\ main.fd = fd THEN delivered[fd] \o main.out
    ELSE delivered[fd]

(* However recv cuts the bytes up, a client's frames are decoded once each *)
(* and in order, and the buffer holds exactly the bytes behind them: a     *)
(* length form, a shrunk buffer or a continued one never makes the broker  *)
(* read a header where there is none.  Excepted are clients of whose       *)
(* frames a chunk was taken for STOMP (torn) and clients that use a longer *)
(* form than they need, whose payload the code does read askew.            *)
DecodedInOrder ==
    \A fd \in Whole :
        LET k == Len(Decoded(fd))
            start == IF k = 0 THEN 0 ELSE End(stream[fd][k])
        IN  /\ Decoded(fd) = [j \in 1 .. k |-> j]
            /\ \A j \in 1 .. k : stream[fd][j].op = "text"
            /\ HasItem(fd) => /\ ws_buffer[fd].start = start
                              /\ taken[fd] = start + ws_buffer[fd].received_len

(* The bytes in the continuation buffer, counted for each client. *)
Bytes == UNION {{fd} \X (1 .. ws_buffer[fd].received_len) : fd \in Fds}

(* allocated_size is what the buffers hold, whichever clients were         *)
(* refused, closed or given up meanwhile, unless clean_by_fd of the main   *)
(* thread and of a writer were in the accounting at a time.  The update    *)
(* lost then leaves too much accounted for, never too little: the buffers  *)
(* stay within the limit.  A slot whose client has gone is held only as    *)
(* long as somebody is about to free it.                                   *)
Accounted ==
    /\ allocated_size >= Cardinality(Bytes)
    /\ ~raced => allocated_size = Cardinality(Bytes)
    /\ allocated_size <= MaxBuffer
    /\ SlotsInUse <= Slots
    /\ \A fd \in Fds : HasItem(fd) => session[fd] = "encoded" \/ Cleaned(fd)

(* Once the main thread is done with a chunk no text frame that is         *)
(* complete is left waiting, unless it is in the last MinFrame bytes or    *)
(* behind a frame with an opcode the broker does not handle.               *)
NothingCompleteWaits ==
    \A fd \in Whole :
        main = Idle /\ session[fd] = "encoded" =>
            \A k \in DOMAIN stream[fd] :
                /\ stream[fd][k].op = "text"
                /\ k > Len(delivered[fd])
                /\ End(stream[fd][k]) <= taken[fd]
                => \/ taken[fd] - stream[fd][Len(delivered[fd]) + 1].at <= MinFrame
                   \/ \E j \in Len(delivered[fd]) + 1 .. k - 1 :
                         stream[fd][j].op = "other"

(* The largest frame allowed is not refused: a client that keeps to text   *)
(* frames within the limit is disconnected only for the shared buffer.     *)
LimitIsAllowed ==
    \A fd \in Whole :
        main.at = "return" /\ main.fd = fd
        /\ (\A k \in DOMAIN stream[fd] :
              stream[fd][k].op = "text" /\ stream[fd][k].payload <= MaxPayload)
        => main.status \notin {"CLIENT_DISCONNECT", "UNHANDLED",
                               "TOO_LARGE_DATAFRAME"}

(* The loop over the buffer ends and the main thread returns to epoll,     *)
(* unless the client sent a frame without payload or, with a length in too *)
(* long a form, made it look for a header in the middle of a frame.        *)
FilterReturns ==
    \A fd \in Fds :
        /\ main.at = "filter" /\ main.fd = fd
        /\ fd \in Whole
        /\ \A k \in DOMAIN stream[fd] : stream[fd][k].payload # 0
        ~> AtEpoll

=============================================================================
