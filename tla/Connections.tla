---------------------------- MODULE Connections ----------------------------
(***************************************************************************)
(* Connections and the client table: the event loop of the main thread     *)
(* (accept_epoll.c), the session storage (session_storage_simple.c) and    *)
(* clean_by_fd (cleanup.c), which the main thread calls without the lock   *)
(* of the storage and the writers with it.                                 *)
(*                                                                         *)
(* What clients send is left out: a chunk is what one recv can return.     *)
(* clean_by_fd is one step for each access to shared memory; the count of  *)
(* clients is read in one step and written in the next.  The part of       *)
(* do_use_fd between lock and unlock is one step.                          *)
(***************************************************************************)
EXTENDS Integers, FiniteSets

CONSTANTS
    Fds,          \* descriptors the kernel hands out
    Writers,      \* writer threads
    Main,         \* the main thread
    None,         \* no descriptor, nobody
    MaxSessions,  \* MAX_NUMBER_OF_CONNECTIONS
    MaxUnread,    \* bound: chunks waiting in a socket
    MaxClients    \* bound: clients accepted in one behaviour

ASSUME ConnectionsAssumption ==
    /\ IsFiniteSet(Fds) /\ Fds \subseteq Nat \ {0}
    /\ Main \notin Writers
    /\ None \notin Fds \cup Writers \cup {Main}
    /\ MaxSessions \in Nat \ {0}
    /\ MaxUnread \in Nat \ {0}
    /\ MaxClients \in Nat

VARIABLES
    sock,               \* open descriptors
    unread,             \* chunks waiting in each socket
    fin,                \* descriptors whose client has left
    ready,              \* edges epoll has not reported yet
    watched,            \* descriptors epoll watches
    clients,            \* descriptors with a session
    number_of_clients,
    ws_buffer,          \* continuation buffer: "none", "used" or "freed"
    lock,               \* holder of the session storage lock
    events,             \* events of this round still to be handled
    pc, cur, count,     \* of each thread: place, descriptor, count it read
    accepted,           \* history: clients accepted so far
    silent,             \* history: clients that have not been read from
    left,               \* history: a recv left something, with no event due
    reused,             \* history: descriptors reused while in flight
    resurrected,        \* history: sessions made for a closed descriptor
    overlap,            \* history: two threads were in clean_by_fd at once
    double_free         \* history: a buffer was freed twice

socket_vars == <<sock, unread, fin, ready, watched, accepted, silent, left,
                 reused>>
storage_vars == <<clients, number_of_clients, ws_buffer, resurrected,
                  double_free>>
vars == <<socket_vars, storage_vars, lock, events, pc, cur, count, overlap>>

Threads == {Main} \cup Writers

Init ==
    /\ sock = {}
    /\ unread = [fd \in Fds |-> 0]
    /\ fin = {} /\ ready = {} /\ watched = {}
    /\ clients = {}
    /\ number_of_clients = 0
    /\ ws_buffer = [fd \in Fds |-> "none"]
    /\ lock = None
    /\ events = {}
    /\ pc = [t \in Threads |-> "idle"]
    /\ cur = [t \in Threads |-> None]
    /\ count = [t \in Threads |-> 0]
    /\ accepted = 0
    /\ silent = {} /\ left = {} /\ reused = {} /\ resurrected = {}
    /\ overlap = FALSE /\ double_free = FALSE

Goto(t, place, fd) ==
    /\ pc' = [pc EXCEPT ![t] = place]
    /\ cur' = [cur EXCEPT ![t] = fd]

-----------------------------------------------------------------------------
(* The clients.                                                            *)

(* Edge triggered: several edges before the next epoll_wait are one event. *)
Edge(fd) == ready' = ready \cup ({fd} \cap watched)

Arrive(fd) ==
    /\ fd \in sock \ fin
    /\ unread[fd] < MaxUnread
    /\ unread' = [unread EXCEPT ![fd] = @ + 1]
    /\ Edge(fd)
    /\ UNCHANGED <<sock, fin, watched, accepted, silent, left, reused,
                   storage_vars, lock, events, pc, cur, count, overlap>>

Leave(fd) ==
    /\ fd \in sock \ fin
    /\ fin' = fin \cup {fd}
    /\ Edge(fd)
    /\ UNCHANGED <<sock, unread, watched, accepted, silent, left, reused,
                   storage_vars, lock, events, pc, cur, count, overlap>>

-----------------------------------------------------------------------------
(* close(fd): epoll forgets the descriptor. *)
CloseSocket(fd) ==
    /\ sock' = sock \ {fd}
    /\ fin' = fin \ {fd}
    /\ ready' = ready \ {fd}
    /\ watched' = watched \ {fd}
    /\ unread' = [unread EXCEPT ![fd] = 0]
    /\ silent' = silent \ {fd}
    /\ left' = left \ {fd}
    /\ UNCHANGED <<accepted, reused>>

(* Where a thread is in clean_by_fd. *)
Cleaning == {"test", "close", "count", "remove", "find", "free", "wipe"}

(* The thread enters clean_by_fd. *)
Enter(t) ==
    overlap' = (overlap \/ \E u \in Threads \ {t} : pc[u] \in Cleaning)

(* The thread is done with it, and a writer unlocks. *)
Leaves(t) ==
    /\ Goto(t, "idle", None)
    /\ lock' = IF t = Main THEN lock ELSE None

(* if(session_storage_get(fd)).  The main thread then takes the descriptor *)
(* out of epoll (epoll_ctl in do_use_fd).                                  *)
Test(t) ==
    /\ pc[t] = "test"
    /\ \/ /\ cur[t] \in clients
          /\ Goto(t, "close", cur[t])
          /\ UNCHANGED <<watched, ready, lock>>
       \/ /\ cur[t] \notin clients
          /\ Leaves(t)
          /\ watched' = IF t = Main THEN watched \ {cur[t]} ELSE watched
          /\ ready' = IF t = Main THEN ready \ {cur[t]} ELSE ready
    /\ UNCHANGED <<sock, unread, fin, accepted, silent, left, reused,
                   storage_vars, events, count, overlap>>

Close(t) ==
    /\ pc[t] = "close"
    /\ CloseSocket(cur[t])
    /\ Goto(t, "count", cur[t])
    /\ UNCHANGED <<storage_vars, lock, events, count, overlap>>

(* session_storage_remove, in two steps. *)
ReadCount(t) ==
    /\ pc[t] = "count"
    /\ count' = [count EXCEPT ![t] = number_of_clients]
    /\ Goto(t, "remove", cur[t])
    /\ UNCHANGED <<socket_vars, storage_vars, lock, events, overlap>>

(* Mistake: the session is counted down and stays in the table. *)
Remove_KeepsSession(t) ==
    /\ pc[t] = "remove"
    /\ number_of_clients' = count[t] - 1
    /\ count' = [count EXCEPT ![t] = 0]
    /\ Goto(t, "find", cur[t])
    /\ UNCHANGED <<socket_vars, clients, resurrected, ws_buffer, double_free,
                   lock, events, overlap>>

Remove(t) ==
    /\ pc[t] = "remove"
    /\ number_of_clients' = count[t] - 1
    /\ clients' = clients \ {cur[t]}
    /\ resurrected' = resurrected \ {cur[t]}
    /\ count' = [count EXCEPT ![t] = 0]
    /\ Goto(t, "find", cur[t])
    /\ UNCHANGED <<socket_vars, ws_buffer, double_free, lock, events, overlap>>

(* ws_buffer_find, then ws_buffer_free in two steps. *)
Find(t) ==
    /\ pc[t] = "find"
    /\ \/ /\ ws_buffer[cur[t]] # "none"
          /\ Goto(t, "free", cur[t])
          /\ UNCHANGED lock
       \/ /\ ws_buffer[cur[t]] = "none"
          /\ Leaves(t)
    /\ UNCHANGED <<socket_vars, storage_vars, events, count, overlap>>

Free(t) ==
    /\ pc[t] = "free"
    /\ double_free' = (double_free \/ ws_buffer[cur[t]] = "freed")
    /\ ws_buffer' = [ws_buffer EXCEPT ![cur[t]] =
                       IF @ = "used" THEN "freed" ELSE @]
    /\ Goto(t, "wipe", cur[t])
    /\ UNCHANGED <<socket_vars, clients, number_of_clients, resurrected, lock,
                   events, count, overlap>>

Wipe(t) ==
    /\ pc[t] = "wipe"
    /\ ws_buffer' = [ws_buffer EXCEPT ![cur[t]] = "none"]
    /\ Leaves(t)
    /\ UNCHANGED <<socket_vars, clients, number_of_clients, resurrected,
                   double_free, events, count, overlap>>

clean_by_fd(t) ==
    \/ Test(t) \/ Close(t) \/ ReadCount(t) \/ Remove(t) \/ Find(t) \/ Free(t)
    \/ Wipe(t)

-----------------------------------------------------------------------------
(* The main thread.                                                        *)

(* What epoll_wait reports is looked at once more: a descriptor with       *)
(* nothing to read any more is left out.                                   *)
Readable == {fd \in Fds : unread[fd] > 0 \/ fd \in fin}

(* Mistake: one event of a round is handled. *)
EpollWait_One ==
    /\ pc[Main] = "idle"
    /\ events = {}
    /\ ready # {}
    /\ \E fd \in ready : events' = {fd} \cap Readable
    /\ ready' = {}
    /\ UNCHANGED <<sock, unread, fin, watched, accepted, silent, left,
                   reused, storage_vars, lock, pc, cur, count, overlap>>

EpollWait ==
    /\ pc[Main] = "idle"
    /\ events = {}
    /\ ready # {}
    /\ events' = ready \cap Readable
    /\ ready' = {}
    /\ UNCHANGED <<sock, unread, fin, watched, accepted, silent, left,
                   reused, storage_vars, lock, pc, cur, count, overlap>>

(* Something still refers to the descriptor. *)
InFlight(fd) ==
    fd \in events \cup clients \/ \E t \in Threads : cur[t] = fd

(* Mistake: the descriptor is not given to epoll. *)
Accept_Unwatched(fd) ==
    /\ pc[Main] = "idle"
    /\ fd \notin sock
    /\ accepted < MaxClients
    /\ accepted' = accepted + 1
    /\ sock' = sock \cup {fd}
    /\ silent' = silent \cup {fd}
    /\ reused' = IF InFlight(fd) THEN reused \cup {fd} ELSE reused \ {fd}
    /\ UNCHANGED <<unread, fin, ready, watched, left, storage_vars, lock,
                   events, pc, cur, count, overlap>>

(* accept returns a descriptor that is not open. *)
Accept(fd) ==
    /\ pc[Main] = "idle"
    /\ fd \notin sock
    /\ accepted < MaxClients
    /\ accepted' = accepted + 1
    /\ sock' = sock \cup {fd}
    /\ watched' = watched \cup {fd}
    /\ silent' = silent \cup {fd}
    /\ reused' = IF InFlight(fd) THEN reused \cup {fd} ELSE reused \ {fd}
    /\ UNCHANGED <<unread, fin, ready, left, storage_vars, lock, events, pc,
                   cur, count, overlap>>

(* Mistake: the end of the stream is taken for a chunk. *)
Recv_TakesEnd(fd) ==
    /\ pc[Main] = "idle"
    /\ fd \in events
    /\ events' = events \ {fd}
    /\ unread' = [unread EXCEPT ![fd] = @ - 1]
    /\ silent' = silent \ {fd}
    /\ Goto(Main, "lock", fd)
    /\ UNCHANGED <<sock, fin, ready, watched, accepted, left, reused,
                   storage_vars, lock, count, overlap>>

(* do_use_fd: recv returns what has come, as much as the buffer takes; or  *)
(* it returns nothing, because the client has left, because the descriptor *)
(* was closed meanwhile or because the event was about an earlier client.  *)
(* Then the connection is closed.                                          *)
Recv(fd) ==
    /\ pc[Main] = "idle"
    /\ fd \in events
    /\ events' = events \ {fd}
    /\ \/ /\ unread[fd] > 0
          /\ \E n \in 1 .. unread[fd] : unread' = [unread EXCEPT ![fd] = @ - n]
          /\ left' = IF fd \notin ready /\ (unread'[fd] > 0 \/ fd \in fin)
                     THEN left \cup {fd} ELSE left \ {fd}
          /\ silent' = silent \ {fd}
          /\ Goto(Main, "lock", fd)
          /\ UNCHANGED overlap
       \/ /\ unread[fd] = 0
          /\ Goto(Main, "test", fd)
          /\ Enter(Main)
          /\ UNCHANGED <<unread, left, silent>>
    /\ UNCHANGED <<sock, fin, ready, watched, accepted, reused, storage_vars,
                   lock, count>>

AtLimit(fd) == number_of_clients >= MaxSessions \/ fd > MaxSessions

(* Too many sessions, known or not: the socket is closed, the function     *)
(* returns and keeps the lock.                                             *)
Refuse ==
    /\ pc[Main] = "lock"
    /\ lock = None
    /\ AtLimit(cur[Main])
    /\ lock' = Main
    /\ CloseSocket(cur[Main])
    /\ Goto(Main, "idle", None)
    /\ UNCHANGED <<storage_vars, events, count, overlap>>

(* Mistake: known sessions are counted again. *)
UseFd_CountsTwice(buffer, closes) ==
    /\ pc[Main] = "lock"
    /\ lock = None
    /\ ~AtLimit(cur[Main])
    /\ clients' = clients \cup {cur[Main]}
    /\ resurrected' = resurrected \cup ({cur[Main]} \ (sock \cup clients))
    /\ number_of_clients' = number_of_clients + 1
    /\ ws_buffer' = [ws_buffer EXCEPT ![cur[Main]] = buffer]
    /\ \/ closes /\ Goto(Main, "test", cur[Main]) /\ Enter(Main)
       \/ ~closes /\ Goto(Main, "idle", None) /\ UNCHANGED overlap
    /\ UNCHANGED <<socket_vars, double_free, lock, events, count>>

(* session_storage_add_new and the filter, which leaves bytes in the       *)
(* buffer or not; what it finds may make the main thread close the         *)
(* connection.                                                             *)
UseFd(buffer, closes) ==
    /\ pc[Main] = "lock"
    /\ lock = None
    /\ ~AtLimit(cur[Main])
    /\ clients' = clients \cup {cur[Main]}
    /\ resurrected' = resurrected \cup ({cur[Main]} \ (sock \cup clients))
    /\ number_of_clients' = IF cur[Main] \in clients THEN number_of_clients
                            ELSE number_of_clients + 1
    /\ ws_buffer' = [ws_buffer EXCEPT ![cur[Main]] = buffer]
    /\ \/ closes /\ Goto(Main, "test", cur[Main]) /\ Enter(Main)
       \/ ~closes /\ Goto(Main, "idle", None) /\ UNCHANGED overlap
    /\ UNCHANGED <<socket_vars, double_free, lock, events, count>>

MainStep ==
    \/ EpollWait \/ (\E fd \in Fds : Recv(fd))
    \/ Refuse \/ (\E b \in {"none", "used"}, c \in BOOLEAN : UseFd(b, c))
    \/ clean_by_fd(Main)

-----------------------------------------------------------------------------
(* The writers.                                                            *)

(* A batch for a client that has a session. *)
Serve(w, fd) ==
    /\ pc[w] = "idle"
    /\ fd \in clients
    /\ Goto(w, "writing", fd)
    /\ UNCHANGED <<socket_vars, storage_vars, lock, events, count, overlap>>

Written(w) ==
    /\ pc[w] = "writing"
    /\ Goto(w, "idle", None)
    /\ UNCHANGED <<socket_vars, storage_vars, lock, events, count, overlap>>

(* The retries are used up, w_close_connection. *)
GiveUp(w) ==
    /\ pc[w] = "writing"
    /\ Goto(w, "lock", cur[w])
    /\ UNCHANGED <<socket_vars, storage_vars, lock, events, count, overlap>>

Lock(w) ==
    /\ pc[w] = "lock"
    /\ lock = None
    /\ lock' = w
    /\ Goto(w, "test", cur[w])
    /\ Enter(w)
    /\ UNCHANGED <<socket_vars, storage_vars, events, count>>

WriterStep(w) == Written(w) \/ GiveUp(w) \/ Lock(w) \/ clean_by_fd(w)

Next ==
    \/ \E fd \in Fds : Arrive(fd) \/ Leave(fd) \/ Accept(fd)
    \/ MainStep
    \/ \E w \in Writers : WriterStep(w) \/ \E fd \in Fds : Serve(w, fd)

(* Threads that can run are scheduled; the main thread handles each event  *)
(* of a round, in the order epoll returned them.                           *)
Fairness ==
    /\ WF_vars(EpollWait)
    /\ \A fd \in Fds : WF_vars(Recv(fd))
    /\ WF_vars(Refuse \/ \E b \in {"none", "used"}, c \in BOOLEAN : UseFd(b, c))
    /\ WF_vars(clean_by_fd(Main))
    /\ \A w \in Writers : WF_vars(WriterStep(w))

Spec == Init /\ [][Next]_vars /\ Fairness

-----------------------------------------------------------------------------
(* Every variable keeps its type. *)
TypeOK ==
    /\ watched \subseteq sock /\ sock \subseteq Fds
    /\ fin \subseteq sock /\ silent \subseteq sock
    /\ left \subseteq Fds /\ reused \subseteq Fds /\ resurrected \subseteq clients
    /\ ready \subseteq watched
    /\ unread \in [Fds -> 0 .. MaxUnread]
    /\ clients \subseteq Fds
    /\ number_of_clients \in Int
    /\ ws_buffer \in [Fds -> {"none", "used", "freed"}]
    /\ lock \in Threads \cup {None}
    /\ events \subseteq Fds
    /\ pc \in [Threads -> {"idle", "lock", "writing"} \cup Cleaning]
    /\ cur \in [Threads -> Fds \cup {None}]

(* As long as no two threads clean up at the same time the count is the    *)
(* number of sessions and no buffer is freed twice, although the main      *)
(* thread cleans up without the lock.                                      *)
CountExact ==
    ~overlap => /\ number_of_clients = Cardinality(clients)
                /\ ~double_free

(* A session has an open descriptor and a buffer has a session, except for *)
(* the client that is being cleaned up.  There are two ways out: the lock  *)
(* that is kept at the limit, and a chunk that was received just before a  *)
(* writer closed its descriptor and that makes a session once more.        *)
SessionsOpen ==
    ~overlap /\ lock # Main =>
        \A fd \in Fds :
            (\E t \in Threads : cur[t] = fd /\ pc[t] \in Cleaning)
            \/ /\ fd \in clients => fd \in sock \cup resurrected
               /\ ws_buffer[fd] # "none" => fd \in clients

(* A new client is listened to until it is first heard, whatever becomes   *)
(* of the descriptor's former owner, unless an event, a writer or a        *)
(* session of that one was still in flight when the descriptor was reused. *)
UndisturbedUntilHeard ==
    [][\A fd \in silent \ (fin \cup reused) : fd \in watched']_vars

(* The main thread returned from do_use_fd with the lock. *)
LockLost == lock = Main

(* A client that was heard and has left is closed, unless a recv took its  *)
(* last data after it left and no event was due any more; a client that    *)
(* was never heard keeps its descriptor for ever (clean_by_fd tests the    *)
(* session).                                                               *)
LeaverClosed ==
    \A fd \in Fds :
        fd \in fin \ (silent \cup reused)
            ~> fd \notin sock \/ fd \in left \/ LockLost

(* Whenever there is something to read a recv takes it, unless an earlier  *)
(* recv left it there (it was more than the buffer takes) or the           *)
(* descriptor is closed.                                                   *)
ChunksRead ==
    \A fd \in Fds :
        unread[fd] > 0 /\ fd \notin reused
            ~> \/ pc[Main] = "lock" /\ cur[Main] = fd
               \/ fd \in left \/ fd \notin sock \/ LockLost

=============================================================================
