------------------------- MODULE ConnectionsProofs -------------------------
(***************************************************************************)
(* CountExact, SessionsOpen and UndisturbedUntilHeard for every number of  *)
(* descriptors, writers and clients.                                       *)
(*                                                                         *)
(* None of them is inductive.  CountExact needs that a thread alone in     *)
(* clean_by_fd finds at each place what it left at the one before (Alone), *)
(* SessionsOpen needs that the exception it makes for the client being     *)
(* cleaned up ends with the clean-up (Settled), UndisturbedUntilHeard that *)
(* nothing refers to a client not heard yet (Fresh).                       *)
(***************************************************************************)
EXTENDS Connections, FiniteSetTheorems, TLAPS

Places == {"idle", "lock", "writing"} \cup Cleaning

(* The parts of the state the type invariant leaves out, and that a thread *)
(* has a descriptor wherever it is not idle.                               *)
TypeInv ==
    /\ TypeOK
    /\ count \in [Threads -> Int]
    /\ overlap \in BOOLEAN /\ double_free \in BOOLEAN
    /\ \A t \in Threads : pc[t] # "idle" => cur[t] \in Fds

(* A writer cleans up with the lock. *)
Locked == \A w \in Writers : pc[w] \in Cleaning => lock = w

(* Two threads clean up at the same time only after overlap was noted. *)
OneCleans ==
    overlap \/ \A t, u \in Threads :
                   pc[t] \in Cleaning /\ pc[u] \in Cleaning => t = u

(* What a thread in clean_by_fd relies on. *)
Alone ==
    overlap \/
        /\ number_of_clients = Cardinality(clients)
        /\ ~double_free
        /\ \A t \in Threads :
              /\ pc[t] \in {"close", "count", "remove"} => cur[t] \in clients
              /\ pc[t] = "remove" => count[t] = number_of_clients
              /\ pc[t] \in {"find", "free", "wipe"} => cur[t] \notin clients
        /\ \A fd \in Fds : ws_buffer[fd] = "freed" =>
              \E t \in Threads : cur[t] = fd /\ pc[t] = "wipe"

(* A thread has changed something of the client it cleans up. *)
Dirty == {"count", "remove", "find", "free", "wipe"}

Settled ==
    overlap \/ lock = Main \/
        \A fd \in Fds :
            \/ \E t \in Threads : cur[t] = fd /\ pc[t] \in Dirty
            \/ /\ fd \in clients => fd \in sock \cup resurrected
               /\ ws_buffer[fd] # "none" => fd \in clients

(* Nothing refers to a client that has not been heard, and an event of     *)
(* such a client means that there is something to read.                    *)
Fresh ==
    \A fd \in silent \ (fin \cup reused) :
        /\ fd \in watched
        /\ fd \notin clients
        /\ \A t \in Threads : cur[t] # fd
        /\ fd \in ready \cup events => unread[fd] > 0

Inv == TypeInv /\ Locked /\ OneCleans /\ Alone /\ Settled /\ Fresh

USE ConnectionsAssumption
-----------------------------------------------------------------------------
(* The clients and the kernel. *)

(* What epoll and the kernel know stays consistent when a descriptor is    *)
(* closed.                                                                 *)
LEMMA CloseSocketTyped ==
    ASSUME TypeOK, NEW fd \in Fds, CloseSocket(fd)
    PROVE  /\ watched' \subseteq sock' /\ sock' \subseteq Fds
           /\ fin' \subseteq sock' /\ silent' \subseteq sock'
           /\ ready' \subseteq watched'
           /\ unread' \in [Fds -> 0 .. MaxUnread]
           /\ left' \subseteq Fds /\ reused' \subseteq Fds
<1>1. unread' \in [Fds -> 0 .. MaxUnread]
  <2>1. 0 \in 0 .. MaxUnread
    OBVIOUS
  <2> QED
    BY <2>1 DEF TypeOK, CloseSocket
<1> QED
  BY <1>1 DEF TypeOK, CloseSocket

(* A chunk arrives. *)
LEMMA ArriveStep ==
    ASSUME Inv, NEW fd \in Fds, Arrive(fd)
    PROVE  Inv'
<1> USE DEF Arrive, Edge, socket_vars, storage_vars
<1>1. TypeInv /\ TypeOK
  BY DEF Inv, TypeInv
<1>2. TypeInv'
  BY <1>1 DEF TypeInv, TypeOK, Cleaning, Threads
<1>3. Locked' /\ OneCleans' /\ Alone'
  BY <1>1 DEF Inv, TypeOK, Locked, OneCleans, Alone, Cleaning, Threads
<1>4. Settled'
  BY <1>1 DEF Inv, TypeInv, TypeOK, Locked, OneCleans, Alone, Settled, Dirty,
              Cleaning, Threads
<1>5. Fresh'
  BY <1>1 DEF Inv, TypeInv, TypeOK, Fresh, Threads
<1> QED
  BY <1>2, <1>3, <1>4, <1>5 DEF Inv

(* A client leaves. *)
LEMMA LeaveStep ==
    ASSUME Inv, NEW fd \in Fds, Leave(fd)
    PROVE  Inv'
<1> USE DEF Leave, Edge, socket_vars, storage_vars
<1>1. TypeInv /\ TypeOK
  BY DEF Inv, TypeInv
<1>2. TypeInv'
  BY <1>1 DEF TypeInv, TypeOK, Cleaning, Threads
<1>3. Locked' /\ OneCleans' /\ Alone'
  BY <1>1 DEF Inv, TypeOK, Locked, OneCleans, Alone, Cleaning, Threads
<1>4. Settled'
  BY <1>1 DEF Inv, TypeInv, TypeOK, Locked, OneCleans, Alone, Settled, Dirty,
              Cleaning, Threads
<1>5. Fresh'
  BY <1>1 DEF Inv, TypeInv, TypeOK, Fresh, Threads
<1> QED
  BY <1>2, <1>3, <1>4, <1>5 DEF Inv

(* A descriptor that is in flight when it is reused is noted in reused. *)
LEMMA AcceptStep ==
    ASSUME Inv, NEW fd \in Fds, Accept(fd)
    PROVE  Inv'
<1> USE DEF Accept, InFlight, socket_vars, storage_vars
<1>1. TypeInv /\ TypeOK
  BY DEF Inv, TypeInv
<1>2. TypeInv'
  BY <1>1 DEF TypeInv, TypeOK, Cleaning, Threads
<1>3. Locked' /\ OneCleans' /\ Alone'
  BY <1>1 DEF Inv, TypeOK, Locked, OneCleans, Alone, Cleaning, Threads
<1>4. Settled'
  BY <1>1 DEF Inv, TypeInv, TypeOK, Locked, OneCleans, Alone, Settled, Dirty,
              Cleaning, Threads
<1>5. Fresh'
  BY <1>1 DEF Inv, TypeInv, TypeOK, Fresh, Threads
<1> QED
  BY <1>2, <1>3, <1>4, <1>5 DEF Inv

-----------------------------------------------------------------------------
(* The main thread. *)

(* The events of a round. *)
LEMMA EpollWaitStep ==
    ASSUME Inv, EpollWait
    PROVE  Inv'
<1> USE DEF EpollWait, socket_vars, storage_vars
<1>1. TypeInv /\ TypeOK
  BY DEF Inv, TypeInv
<1>2. TypeInv'
  BY <1>1 DEF TypeInv, TypeOK, Cleaning, Threads
<1>3. Locked' /\ OneCleans' /\ Alone'
  BY <1>1 DEF Inv, TypeOK, Locked, OneCleans, Alone, Cleaning, Threads
<1>4. Settled'
  BY <1>1 DEF Inv, TypeInv, TypeOK, Locked, OneCleans, Alone, Settled, Dirty,
              Cleaning, Threads
<1>5. Fresh'
  BY <1>1 DEF Inv, TypeInv, TypeOK, Fresh, Threads
<1> QED
  BY <1>2, <1>3, <1>4, <1>5 DEF Inv

(* A silent client that is no reused one has something to read. *)
LEMMA RecvStep ==
    ASSUME Inv, NEW fd \in Fds, Recv(fd)
    PROVE  Inv'
<1> USE DEF Recv, Goto, Enter, socket_vars, storage_vars
<1>1. TypeInv /\ TypeOK
  BY DEF Inv, TypeInv
<1>2. TypeInv'
  <2>1. overlap' \in BOOLEAN
    BY <1>1 DEF TypeInv
  <2>2. unread' \in [Fds -> 0 .. MaxUnread]
    BY <1>1 DEF TypeOK
  <2>3. /\ pc' \in [Threads -> Places] /\ cur' \in [Threads -> Fds \cup {None}]
        /\ \A t \in Threads : pc'[t] # "idle" => cur'[t] \in Fds
    BY <1>1 DEF TypeInv, TypeOK, Places, Cleaning, Threads
  <2> QED
    BY <1>1, <2>1, <2>2, <2>3 DEF TypeInv, TypeOK, Places
<1>3. Locked' /\ OneCleans'
  <2>1. CASE unread[fd] > 0
    BY <1>1, <2>1 DEF Inv, TypeInv, TypeOK, Locked, OneCleans, Cleaning, Threads
  <2>2. ASSUME unread[fd] = 0, ~overlap'
        PROVE  \A t \in Threads : pc'[t] \in Cleaning => t = Main
    <3>1. ~(unread[fd] > 0)
      BY <2>2
    <3>2. Enter(Main)
      BY <3>1, Zenon
    <3>3. \A u \in Threads \ {Main} : pc[u] \notin Cleaning
      BY <2>2, <3>2, Zenon
    <3>4. \A u \in Threads \ {Main} : pc'[u] = pc[u]
      BY <1>1 DEF TypeOK
    <3> QED
      BY <3>3, <3>4
  <2>3. CASE unread[fd] = 0
    <3>1. Locked'
      BY <1>1, <2>3 DEF Inv, TypeOK, Locked, Cleaning, Threads
    <3> QED
      BY <2>2, <2>3, <3>1 DEF OneCleans, Cleaning
  <2> QED
    BY <1>1, <2>1, <2>3 DEF TypeOK
<1>4. Alone'
  BY <1>1 DEF Inv, TypeInv, TypeOK, Locked, OneCleans, Alone, Cleaning, Threads
<1>5. Settled'
  BY <1>1 DEF Inv, TypeInv, TypeOK, Locked, OneCleans, Alone, Settled, Dirty,
              Cleaning, Threads
<1>6. Fresh'
  <2> SUFFICES ASSUME NEW g \in silent' \ (fin' \cup reused')
               PROVE  /\ g \in watched' /\ g \notin clients'
                      /\ \A t \in Threads : cur'[t] # g
                      /\ g \in ready' \cup events' => unread'[g] > 0
    BY DEF Fresh
  <2>1. g \in silent \ (fin \cup reused) /\ g \in Fds
    BY <1>1 DEF TypeOK
  <2>2. /\ g \in watched /\ g \notin clients
        /\ \A t \in Threads : cur[t] # g
        /\ g \in ready \cup events => unread[g] > 0
    BY <2>1 DEF Inv, Fresh
  <2>3. g # fd
    BY <2>2
  <2>4. unread'[g] = unread[g] /\ \A t \in Threads : cur'[t] # g
    BY <1>1, <2>1, <2>2, <2>3 DEF TypeOK
  <2> QED
    BY <2>2, <2>4
<1> QED
  BY <1>2, <1>3, <1>4, <1>5, <1>6 DEF Inv

(* At the limit the main thread keeps the lock. *)
LEMMA RefuseStep ==
    ASSUME Inv, Refuse
    PROVE  Inv'
<1> USE DEF Refuse, Goto, socket_vars, storage_vars
<1>1. TypeInv /\ TypeOK
  BY DEF Inv, TypeInv
<1>2. TypeInv'
  <2>1. cur[Main] \in Fds /\ CloseSocket(cur[Main])
    BY <1>1 DEF TypeInv, Threads
  <2>2. /\ watched' \subseteq sock' /\ sock' \subseteq Fds
        /\ fin' \subseteq sock' /\ silent' \subseteq sock'
        /\ ready' \subseteq watched'
        /\ unread' \in [Fds -> 0 .. MaxUnread]
        /\ left' \subseteq Fds /\ reused' \subseteq Fds
    BY <1>1, <2>1, CloseSocketTyped
  <2>3. /\ pc' \in [Threads -> Places] /\ cur' \in [Threads -> Fds \cup {None}]
        /\ \A u \in Threads : pc'[u] # "idle" => cur'[u] \in Fds
    BY <1>1 DEF TypeInv, TypeOK, Places, Cleaning, Threads
  <2> QED
    BY <1>1, <2>2, <2>3 DEF TypeInv, TypeOK, Places, Threads
<1> USE DEF CloseSocket
<1>3. Locked' /\ OneCleans'
  BY <1>1 DEF Inv, TypeOK, Locked, OneCleans, Cleaning, Threads
<1>4. Alone'
  BY <1>1 DEF Inv, TypeInv, TypeOK, Locked, OneCleans, Alone, Cleaning, Threads
<1>5. Settled'
  BY <1>1 DEF Inv, TypeInv, TypeOK, Locked, OneCleans, Alone, Settled, Dirty,
              Cleaning, Threads
<1>6. Fresh'
  BY <1>1 DEF Inv, TypeInv, TypeOK, Fresh, Threads
<1> QED
  BY <1>2, <1>3, <1>4, <1>5, <1>6 DEF Inv

(* Nobody cleans up when the main thread has got the lock. *)
LEMMA UseFdStep ==
    ASSUME Inv, NEW b \in {"none", "used"}, NEW c \in BOOLEAN,
           UseFd(b, c)
    PROVE  Inv'
<1> USE DEF UseFd, Goto, Enter, socket_vars, storage_vars
<1>1. TypeInv /\ TypeOK
  BY DEF Inv, TypeInv
<1>2. TypeInv'
  <2>1. cur[Main] \in Fds
    BY <1>1 DEF TypeInv, Threads
  <2>2. /\ clients' \subseteq Fds /\ resurrected' \subseteq clients'
        /\ number_of_clients' \in Int
        /\ ws_buffer' \in [Fds -> {"none", "used", "freed"}]
    <3>1. clients' \subseteq Fds /\ resurrected' \subseteq clients'
      BY <1>1, <2>1 DEF TypeOK
    <3>2. number_of_clients' \in Int
      BY <1>1 DEF TypeOK
    <3>3. ws_buffer' \in [Fds -> {"none", "used", "freed"}]
      BY <1>1, <2>1 DEF TypeOK
    <3> QED
      BY <3>1, <3>2, <3>3
  <2>3. /\ pc' \in [Threads -> Places] /\ cur' \in [Threads -> Fds \cup {None}]
        /\ \A u \in Threads : pc'[u] # "idle" => cur'[u] \in Fds
    BY <1>1 DEF TypeInv, TypeOK, Places, Cleaning, Threads
  <2>4. overlap' \in BOOLEAN
    BY <1>1 DEF TypeInv
  <2> QED
    BY <1>1, <2>2, <2>3, <2>4 DEF TypeInv, TypeOK, Places
<1>3. Locked' /\ OneCleans'
  BY <1>1 DEF Inv, TypeOK, Locked, OneCleans, Cleaning, Threads
<1>4. Alone'
  <2>1. cur[Main] \in Fds /\ \A t \in Threads : pc[t] \notin Cleaning
    BY <1>1 DEF Inv, TypeInv, Locked, Cleaning, Threads
  <2>2. SUFFICES ASSUME ~overlap
                 PROVE  Alone'
    BY <1>1 DEF TypeInv, Alone
  <2>3. number_of_clients = Cardinality(clients) /\ ~double_free
    BY <2>2 DEF Inv, Alone
  <2>4. IsFiniteSet(clients)
    BY <1>1, FS_Subset DEF TypeOK
  <2>5. number_of_clients' = Cardinality(clients')
    BY <2>3, <2>4, FS_AddElement
  <2>6. /\ \A fd \in Fds : ws_buffer'[fd] # "freed"
        /\ \A t \in Threads :
              pc'[t] \notin {"close", "count", "remove", "find", "free", "wipe"}
    BY <1>1, <2>1, <2>2 DEF Inv, TypeOK, Alone, Cleaning, Threads
  <2> QED
    BY <2>3, <2>5, <2>6 DEF Alone
<1>5. Settled'
  BY <1>1 DEF Inv, TypeInv, TypeOK, Locked, OneCleans, Alone, Settled, Dirty,
              Cleaning, Threads
<1>6. Fresh'
  BY <1>1 DEF Inv, TypeInv, TypeOK, Fresh, Threads
<1> QED
  BY <1>2, <1>3, <1>4, <1>5, <1>6 DEF Inv

-----------------------------------------------------------------------------
(* The writers. *)

(* A client with a session is not silent, or reused. *)
LEMMA ServeStep ==
    ASSUME Inv, NEW w \in Writers, NEW fd \in Fds, Serve(w, fd)
    PROVE  Inv'
<1> USE DEF Serve, Goto, socket_vars, storage_vars
<1>1. TypeInv /\ TypeOK
  BY DEF Inv, TypeInv
<1>2. TypeInv'
  BY <1>1 DEF TypeInv, TypeOK, Cleaning, Threads
<1>3. Locked' /\ OneCleans' /\ Alone'
  BY <1>1 DEF Inv, TypeOK, Locked, OneCleans, Alone, Cleaning, Threads
<1>4. Settled'
  BY <1>1 DEF Inv, TypeInv, TypeOK, Locked, OneCleans, Alone, Settled, Dirty,
              Cleaning, Threads
<1>5. Fresh'
  BY <1>1 DEF Inv, TypeInv, TypeOK, Fresh, Threads
<1> QED
  BY <1>2, <1>3, <1>4, <1>5 DEF Inv

(* The batch is written. *)
LEMMA WrittenStep ==
    ASSUME Inv, NEW w \in Writers, Written(w)
    PROVE  Inv'
<1> USE DEF Written, Goto, socket_vars, storage_vars
<1>1. TypeInv /\ TypeOK
  BY DEF Inv, TypeInv
<1>2. TypeInv'
  BY <1>1 DEF TypeInv, TypeOK, Cleaning, Threads
<1>3. Locked' /\ OneCleans' /\ Alone'
  BY <1>1 DEF Inv, TypeOK, Locked, OneCleans, Alone, Cleaning, Threads
<1>4. Settled'
  BY <1>1 DEF Inv, TypeInv, TypeOK, Locked, OneCleans, Alone, Settled, Dirty,
              Cleaning, Threads
<1>5. Fresh'
  BY <1>1 DEF Inv, TypeInv, TypeOK, Fresh, Threads
<1> QED
  BY <1>2, <1>3, <1>4, <1>5 DEF Inv

(* The writer is going to wait for the lock. *)
LEMMA GiveUpStep ==
    ASSUME Inv, NEW w \in Writers, GiveUp(w)
    PROVE  Inv'
<1> USE DEF GiveUp, Goto, socket_vars, storage_vars
<1>1. TypeInv /\ TypeOK
  BY DEF Inv, TypeInv
<1>2. TypeInv'
  BY <1>1 DEF TypeInv, TypeOK, Cleaning, Threads
<1>3. Locked' /\ OneCleans' /\ Alone'
  BY <1>1 DEF Inv, TypeOK, Locked, OneCleans, Alone, Cleaning, Threads
<1>4. Settled'
  BY <1>1 DEF Inv, TypeInv, TypeOK, Locked, OneCleans, Alone, Settled, Dirty,
              Cleaning, Threads
<1>5. Fresh'
  BY <1>1 DEF Inv, TypeInv, TypeOK, Fresh, Threads
<1> QED
  BY <1>2, <1>3, <1>4, <1>5 DEF Inv

(* With the lock it is the only writer that cleans up. *)
LEMMA LockStep ==
    ASSUME Inv, NEW w \in Writers, Lock(w)
    PROVE  Inv'
<1> USE DEF Lock, Goto, Enter, socket_vars, storage_vars
<1>1. TypeInv /\ TypeOK
  BY DEF Inv, TypeInv
<1>2. TypeInv'
  BY <1>1 DEF TypeInv, TypeOK, Cleaning, Threads
<1>3. Locked' /\ OneCleans'
  BY <1>1 DEF Inv, TypeOK, Locked, OneCleans, Cleaning, Threads
<1>4. Alone'
  BY <1>1 DEF Inv, TypeInv, TypeOK, Locked, OneCleans, Alone, Cleaning, Threads
<1>5. Settled'
  BY <1>1 DEF Inv, TypeInv, TypeOK, Locked, OneCleans, Alone, Settled, Dirty,
              Cleaning, Threads
<1>6. Fresh'
  BY <1>1 DEF Inv, TypeInv, TypeOK, Fresh, Threads
<1> QED
  BY <1>2, <1>3, <1>4, <1>5, <1>6 DEF Inv

-----------------------------------------------------------------------------
(* clean_by_fd. *)

(* Without a session there is nothing to clean up. *)
LEMMA TestStep ==
    ASSUME Inv, NEW t \in Threads, Test(t)
    PROVE  Inv'
<1> USE DEF Test, Goto, Leaves, socket_vars, storage_vars
<1>1. TypeInv /\ TypeOK
  BY DEF Inv, TypeInv
<1>2. TypeInv'
  BY <1>1 DEF TypeInv, TypeOK, Cleaning, Threads
<1>3. Locked' /\ OneCleans' /\ Alone'
  BY <1>1 DEF Inv, TypeOK, Locked, OneCleans, Alone, Cleaning, Threads
<1>4. Settled'
  BY <1>1 DEF Inv, TypeInv, TypeOK, Locked, OneCleans, Alone, Settled, Dirty,
              Cleaning, Threads
<1>5. Fresh'
  BY <1>1 DEF Inv, TypeInv, TypeOK, Fresh, Threads
<1> QED
  BY <1>2, <1>3, <1>4, <1>5 DEF Inv

(* The descriptor is closed, the session is still there. *)
LEMMA CloseStep ==
    ASSUME Inv, NEW t \in Threads, Close(t)
    PROVE  Inv'
<1> USE DEF Close, Goto, socket_vars, storage_vars
<1>1. TypeInv /\ TypeOK
  BY DEF Inv, TypeInv
<1>2. TypeInv'
  <2>1. cur[t] \in Fds /\ CloseSocket(cur[t])
    BY <1>1 DEF TypeInv, Threads
  <2>2. /\ watched' \subseteq sock' /\ sock' \subseteq Fds
        /\ fin' \subseteq sock' /\ silent' \subseteq sock'
        /\ ready' \subseteq watched'
        /\ unread' \in [Fds -> 0 .. MaxUnread]
        /\ left' \subseteq Fds /\ reused' \subseteq Fds
    BY <1>1, <2>1, CloseSocketTyped
  <2>3. /\ pc' \in [Threads -> Places] /\ cur' \in [Threads -> Fds \cup {None}]
        /\ \A u \in Threads : pc'[u] # "idle" => cur'[u] \in Fds
    BY <1>1 DEF TypeInv, TypeOK, Places, Cleaning, Threads
  <2> QED
    BY <1>1, <2>2, <2>3 DEF TypeInv, TypeOK, Places, Threads
<1> USE DEF CloseSocket
<1>3. Locked' /\ OneCleans'
  BY <1>1 DEF Inv, TypeOK, Locked, OneCleans, Cleaning, Threads
<1>4. Alone'
  BY <1>1 DEF Inv, TypeInv, TypeOK, Locked, OneCleans, Alone, Cleaning, Threads
<1>5. Settled'
  BY <1>1 DEF Inv, TypeInv, TypeOK, Locked, OneCleans, Alone, Settled, Dirty,
              Cleaning, Threads
<1>6. Fresh'
  BY <1>1 DEF Inv, TypeInv, TypeOK, Fresh, Threads
<1> QED
  BY <1>2, <1>3, <1>4, <1>5, <1>6 DEF Inv

(* The count is read. *)
LEMMA ReadCountStep ==
    ASSUME Inv, NEW t \in Threads, ReadCount(t)
    PROVE  Inv'
<1> USE DEF ReadCount, Goto, socket_vars, storage_vars
<1>1. TypeInv /\ TypeOK
  BY DEF Inv, TypeInv
<1>2. TypeInv'
  BY <1>1 DEF TypeInv, TypeOK, Cleaning, Threads
<1>3. Locked' /\ OneCleans'
  BY <1>1 DEF Inv, TypeOK, Locked, OneCleans, Cleaning, Threads
<1>4. Alone'
  BY <1>1 DEF Inv, TypeInv, TypeOK, Locked, OneCleans, Alone, Cleaning, Threads
<1>5. Settled'
  BY <1>1 DEF Inv, TypeInv, TypeOK, Locked, OneCleans, Alone, Settled, Dirty,
              Cleaning, Threads
<1>6. Fresh'
  BY <1>1 DEF Inv, TypeInv, TypeOK, Fresh, Threads
<1> QED
  BY <1>2, <1>3, <1>4, <1>5, <1>6 DEF Inv

(* The count that was read is still the count. *)
LEMMA RemoveStep ==
    ASSUME Inv, NEW t \in Threads, Remove(t)
    PROVE  Inv'
<1> USE DEF Remove, Goto, socket_vars, storage_vars
<1>1. TypeInv /\ TypeOK
  BY DEF Inv, TypeInv
<1>2. TypeInv'
  <2>1. /\ clients' \subseteq Fds /\ resurrected' \subseteq clients'
        /\ number_of_clients' \in Int /\ count' \in [Threads -> Int]
    <3>1. count[t] \in Int /\ count' \in [Threads -> Int]
      BY <1>1 DEF TypeInv
    <3>2. number_of_clients' \in Int
      BY <3>1
    <3>3. clients' \subseteq Fds /\ resurrected' \subseteq clients'
      BY <1>1 DEF TypeOK
    <3> QED
      BY <3>1, <3>2, <3>3
  <2>3. /\ pc' \in [Threads -> Places] /\ cur' \in [Threads -> Fds \cup {None}]
        /\ \A u \in Threads : pc'[u] # "idle" => cur'[u] \in Fds
    BY <1>1 DEF TypeInv, TypeOK, Places, Cleaning, Threads
  <2> QED
    BY <1>1, <2>1, <2>3 DEF TypeInv, TypeOK, Places
<1>3. Locked' /\ OneCleans'
  BY <1>1 DEF Inv, TypeOK, Locked, OneCleans, Cleaning, Threads
<1>4. Alone'
  <2>1. SUFFICES ASSUME ~overlap
                 PROVE  Alone'
    BY <1>1 DEF TypeInv, Alone
  <2>2. /\ cur[t] \in clients /\ count[t] = number_of_clients /\ ~double_free
        /\ number_of_clients = Cardinality(clients)
    BY <2>1 DEF Inv, Alone
  <2>3. IsFiniteSet(clients)
    BY <1>1, FS_Subset DEF TypeOK
  <2>4. number_of_clients' = Cardinality(clients')
    <3>1. Cardinality(clients \ {cur[t]}) = Cardinality(clients) - 1
      BY <2>2, <2>3, FS_RemoveElement
    <3> QED
      BY <2>2, <3>1
  <2>5. \A u \in Threads \ {t} : pc[u] \notin Cleaning
    BY <2>1 DEF Inv, OneCleans, Cleaning
  <2>6. \A u \in Threads :
           /\ pc'[u] \notin {"close", "count", "remove"}
           /\ pc'[u] \in {"find", "free", "wipe"} => cur'[u] \notin clients'
    BY <1>1, <2>5 DEF TypeOK, Cleaning
  <2>7. \A fd \in Fds : ws_buffer'[fd] # "freed"
    BY <2>1, <2>5 DEF Inv, Alone, Cleaning
  <2> QED
    BY <2>2, <2>4, <2>6, <2>7 DEF Alone
<1>5. Settled'
  BY <1>1 DEF Inv, TypeInv, TypeOK, Locked, OneCleans, Alone, Settled, Dirty,
              Cleaning, Threads
<1>6. Fresh'
  BY <1>1 DEF Inv, TypeInv, TypeOK, Fresh, Threads
<1> QED
  BY <1>2, <1>3, <1>4, <1>5, <1>6 DEF Inv

(* Without a buffer everything of the client is gone. *)
LEMMA FindStep ==
    ASSUME Inv, NEW t \in Threads, Find(t)
    PROVE  Inv'
<1> USE DEF Find, Goto, Leaves, socket_vars, storage_vars
<1>1. TypeInv /\ TypeOK
  BY DEF Inv, TypeInv
<1>2. TypeInv'
  BY <1>1 DEF TypeInv, TypeOK, Cleaning, Threads
<1>3. Locked' /\ OneCleans' /\ Alone'
  BY <1>1 DEF Inv, TypeOK, Locked, OneCleans, Alone, Cleaning, Threads
<1>4. Settled'
  BY <1>1 DEF Inv, TypeInv, TypeOK, Locked, OneCleans, Alone, Settled, Dirty,
              Cleaning, Threads
<1>5. Fresh'
  BY <1>1 DEF Inv, TypeInv, TypeOK, Fresh, Threads
<1> QED
  BY <1>2, <1>3, <1>4, <1>5 DEF Inv

(* The buffer is in use: nobody else is between free and wipe. *)
LEMMA FreeStep ==
    ASSUME Inv, NEW t \in Threads, Free(t)
    PROVE  Inv'
<1> USE DEF Free, Goto, socket_vars, storage_vars
<1>1. TypeInv /\ TypeOK
  BY DEF Inv, TypeInv
<1>2. TypeInv'
  BY <1>1 DEF TypeInv, TypeOK, Cleaning, Threads
<1>3. Locked' /\ OneCleans'
  BY <1>1 DEF Inv, TypeOK, Locked, OneCleans, Cleaning, Threads
<1>4. Alone'
  BY <1>1 DEF Inv, TypeInv, TypeOK, Locked, OneCleans, Alone, Cleaning, Threads
<1>5. Settled'
  BY <1>1 DEF Inv, TypeInv, TypeOK, Locked, OneCleans, Alone, Settled, Dirty,
              Cleaning, Threads
<1>6. Fresh'
  BY <1>1 DEF Inv, TypeInv, TypeOK, Fresh, Threads
<1> QED
  BY <1>2, <1>3, <1>4, <1>5, <1>6 DEF Inv

(* The last trace of the client is gone. *)
LEMMA WipeStep ==
    ASSUME Inv, NEW t \in Threads, Wipe(t)
    PROVE  Inv'
<1> USE DEF Wipe, Goto, Leaves, socket_vars, storage_vars
<1>1. TypeInv /\ TypeOK
  BY DEF Inv, TypeInv
<1>2. TypeInv'
  BY <1>1 DEF TypeInv, TypeOK, Cleaning, Threads
<1>3. Locked' /\ OneCleans' /\ Alone'
  BY <1>1 DEF Inv, TypeOK, Locked, OneCleans, Alone, Cleaning, Threads
<1>4. Settled'
  BY <1>1 DEF Inv, TypeInv, TypeOK, Locked, OneCleans, Alone, Settled, Dirty,
              Cleaning, Threads
<1>5. Fresh'
  BY <1>1 DEF Inv, TypeInv, TypeOK, Fresh, Threads
<1> QED
  BY <1>2, <1>3, <1>4, <1>5 DEF Inv

-----------------------------------------------------------------------------

LEMMA InitInv == Init => Inv
<1> SUFFICES ASSUME Init PROVE Inv
  OBVIOUS
<1>1. TypeInv
  <2>1. TypeOK
    BY DEF Init, TypeOK, Threads
  <2>2. count \in [Threads -> Int]
    BY DEF Init
  <2>3. overlap \in BOOLEAN /\ double_free \in BOOLEAN
    BY DEF Init
  <2> QED
    BY <2>1, <2>2, <2>3 DEF Init, TypeInv
<1>2. number_of_clients = Cardinality(clients)
  BY FS_EmptySet DEF Init
<1>3. Locked /\ OneCleans /\ Settled /\ Fresh
  BY DEF Init, Locked, OneCleans, Settled, Fresh, Cleaning, Threads
<1>4. Alone
  BY <1>2 DEF Init, Alone
<1> QED
  BY <1>1, <1>3, <1>4 DEF Inv

LEMMA NextInv == Inv /\ [Next]_vars => Inv'
<1> SUFFICES ASSUME Inv, [Next]_vars PROVE Inv'
  OBVIOUS
<1>1. ASSUME NEW t \in Threads, clean_by_fd(t) PROVE Inv'
  BY <1>1, TestStep, CloseStep, ReadCountStep, RemoveStep, FindStep, FreeStep,
     WipeStep DEF clean_by_fd
<1>2. CASE \E fd \in Fds : Arrive(fd) \/ Leave(fd) \/ Accept(fd)
  BY <1>2, ArriveStep, LeaveStep, AcceptStep
<1>3. CASE MainStep
  <2>1. Main \in Threads
    BY DEF Threads
  <2> QED
    BY <1>1, <1>3, <2>1, EpollWaitStep, RecvStep, RefuseStep, UseFdStep
       DEF MainStep
<1>4. ASSUME NEW w \in Writers, WriterStep(w) \/ \E fd \in Fds : Serve(w, fd)
      PROVE  Inv'
  <2>1. w \in Threads
    BY DEF Threads
  <2> QED
    BY <1>1, <1>4, <2>1, WrittenStep, GiveUpStep, LockStep, ServeStep
       DEF WriterStep
<1>5. CASE UNCHANGED vars
  BY <1>5 DEF vars, socket_vars, storage_vars, Inv, TypeInv, TypeOK, Locked,
              OneCleans, Alone, Settled, Fresh
<1> QED
  BY <1>2, <1>3, <1>4, <1>5 DEF Next

(* The inductive invariant. *)
LEMMA InvHolds == Spec => []Inv
BY InitInv, NextInv, PTL DEF Spec

-----------------------------------------------------------------------------
(* Every variable of the main thread, the storage and the writers keeps    *)
(* its type.                                                               *)
THEOREM TypeOKHolds == Spec => []TypeOK
<1>1. Inv => TypeOK
  BY DEF Inv, TypeInv
<1> QED
  BY <1>1, InvHolds, PTL

(* session_storage_remove reads the count of clients and writes it back    *)
(* later, the main thread without the lock: the count is the number of     *)
(* sessions and no continuation buffer is freed twice as long as no two    *)
(* threads were in clean_by_fd at once.                                    *)
THEOREM CountExactHolds == Spec => []CountExact
<1>1. Inv => CountExact
  BY DEF Inv, Alone, CountExact
<1> QED
  BY <1>1, InvHolds, PTL

(* clean_by_fd leaves nothing behind: a session that is not being cleaned  *)
(* up has an open descriptor and a buffer has a session.                   *)
THEOREM SessionsOpenHolds == Spec => []SessionsOpen
<1>1. Inv => SessionsOpen
  BY DEF Inv, Settled, SessionsOpen, Dirty, Cleaning
<1> QED
  BY <1>1, InvHolds, PTL

(* do_use_fd and clean_by_fd never stop listening to a client that has not *)
(* been heard yet because of what the descriptor's former owner left.      *)
THEOREM UndisturbedUntilHeardHolds == Spec => UndisturbedUntilHeard
<1>1. Inv /\ Inv' /\ [Next]_vars
        => [\A fd \in silent \ (fin \cup reused) : fd \in watched']_vars
  <2> SUFFICES ASSUME Inv, [Next]_vars, NEW fd \in silent \ (fin \cup reused)
               PROVE  fd \in watched' \/ UNCHANGED vars
    OBVIOUS
  <2>1. /\ fd \in watched
        /\ \A t \in Threads : cur[t] # fd
    BY DEF Inv, Fresh
  <2>2. Main \in Threads /\ Writers \subseteq Threads
    BY DEF Threads
  <2>3. \/ UNCHANGED vars
        \/ watched \subseteq watched'
        \/ \E t \in Threads : watched' = watched \ {cur[t]}
    BY <2>2 DEF Next, Arrive, Leave, Accept, MainStep, EpollWait, Recv, Refuse,
        UseFd, WriterStep, Serve, Written, GiveUp, Lock, clean_by_fd, Test,
        Close, ReadCount, Remove, Find, Free, Wipe, CloseSocket, socket_vars
  <2> QED
    BY <2>1, <2>3
<1> QED
  BY <1>1, InvHolds, PTL DEF Spec, UndisturbedUntilHeard

=============================================================================
