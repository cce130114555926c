------------------------------ MODULE Shutdown ------------------------------
(***************************************************************************)
(* The end of the broker on SIGINT: sigchldHandler runs inside whichever   *)
(* thread the signal interrupts, wherever that thread is, and from there   *)
(* poisons, joins and frees everything (process_kill_threads).             *)
(*                                                                         *)
(* A thread holds no lock or the one pc names: "in" and "out" for the      *)
(* queues, "session" for the session storage, "heap" for the allocator.    *)
(* It does its work when it gives the lock back.  A worker without a lock  *)
(* is at its queue or busy with what it took from there.  The interrupted  *)
(* thread does nothing more of its own.                                    *)
(*                                                                         *)
(* There is one signal.  (SIGINT is blocked only in the thread that runs   *)
(* the handler: a second one would run it again in another thread, and     *)
(* nothing in the code would keep the two apart.)  The stale queue, which  *)
(* is freed too, is empty: see StaleQueueStaysEmpty of StompProofs.        *)
(***************************************************************************)
EXTENDS Naturals, Sequences, FiniteSets

CONSTANTS
    Writers,     \* writer threads
    Main, Reader,
    None,
    MaxMessages  \* bound: messages put on a queue in one behaviour

ASSUME ShutdownAssumption ==
    /\ IsFiniteSet(Writers) /\ Writers # {}
    /\ {Main, Reader} \cap Writers = {} /\ Main # Reader
    /\ None \notin Writers \cup {Main, Reader}
    /\ MaxMessages \in Nat

VARIABLES
    pc,           \* of each thread: "queue", "busy", a lock, or "exited"
    input_queue,  \* "message" and "pill"
    output_queue, \* how many messages and pills
    handler,      \* the thread the signal interrupted
    step,         \* where the handler is
    pills,        \* poison pills for writers the handler has queued
    made,         \* history: messages so far
    used_after_free   \* history

vars == <<pc, input_queue, output_queue, handler, step, pills, made,
          used_after_free>>

Threads == {Main, Reader} \cup Writers
Workers == {Reader} \cup Writers
Locks == {"in", "out", "session", "heap"}

(* The lock of the queue a worker takes from, and the locks each thread    *)
(* takes in between; everyone allocates memory.                            *)
OwnQueue(t) == IF t = Reader THEN "in" ELSE "out"
Takes(t) == IF t = Reader THEN {"out", "heap"} ELSE {"in", "session", "heap"}

Init ==
    /\ pc = [t \in Threads |-> IF t = Main THEN "busy" ELSE "queue"]
    /\ input_queue = <<>>
    /\ output_queue = [message |-> 0, pill |-> 0]
    /\ handler = None /\ step = "none" /\ pills = 0
    /\ made = 0
    /\ used_after_free = FALSE

Free(l) == \A t \in Threads : pc[t] # l
Running(t) == t # handler /\ pc[t] # "exited" /\ step # "exited"

(* What the lock guards has been freed. *)
Gone(l) ==
    \/ l = "in" /\ step \in {"free output", "dispose", "disposed"}
    \/ l = "out" /\ step \in {"dispose", "disposed"}
    \/ l = "session" /\ step = "disposed"

-----------------------------------------------------------------------------
(* The threads.                                                            *)

(* pthread_mutex_lock.  The queues and the table have been freed when the  *)
(* handler is done with them: who comes now uses what is gone.             *)
Acquire(t, l) ==
    /\ Running(t)
    /\ Free(l)
    /\ pc' = [pc EXCEPT ![t] = l]
    /\ used_after_free' = (used_after_free \/ Gone(l))
    /\ UNCHANGED <<input_queue, output_queue, handler, step, pills, made>>

(* A worker waits until its queue has something. *)
Wait(t) ==
    /\ t # Main
    /\ pc[t] = "queue"
    /\ IF t = Reader THEN input_queue # <<>>
       ELSE output_queue.message + output_queue.pill > 0
    /\ Acquire(t, OwnQueue(t))

Enter(t) ==
    /\ pc[t] = "busy"
    /\ \E l \in Takes(t) : Acquire(t, l)

(* A worker is done with what it took. *)
Done(t) ==
    /\ Running(t)
    /\ t # Main
    /\ pc[t] = "busy"
    /\ pc' = [pc EXCEPT ![t] = "queue"]
    /\ UNCHANGED <<input_queue, output_queue, handler, step, pills, made,
                   used_after_free>>

Release(t) == pc' = [pc EXCEPT ![t] = "busy"]
Exit(t) == pc' = [pc EXCEPT ![t] = "exited"]

(* A section that leaves the queues alone. *)
Pass(t) ==
    /\ Running(t)
    /\ pc[t] \in {"session", "heap"}
    /\ Release(t)
    /\ UNCHANGED <<input_queue, output_queue, handler, step, pills, made,
                   used_after_free>>

(* The main thread enqueues at the tail, a writer that gives a client up   *)
(* at the head.                                                            *)
PutInput(t) ==
    /\ Running(t)
    /\ t # Reader
    /\ pc[t] = "in"
    /\ Release(t)
    /\ IF made < MaxMessages
       THEN /\ made' = made + 1
            /\ input_queue' = IF t = Main THEN Append(input_queue, "message")
                              ELSE <<"message">> \o input_queue
       ELSE UNCHANGED <<made, input_queue>>
    /\ UNCHANGED <<output_queue, handler, step, pills, used_after_free>>

TakeInput ==
    /\ Running(Reader)
    /\ pc[Reader] = "in"
    /\ Head(input_queue) = "message"
    /\ Release(Reader)
    /\ input_queue' = Tail(input_queue)
    /\ UNCHANGED <<output_queue, handler, step, pills, made, used_after_free>>

(* The reader takes the pill, and the thread ends. *)
ReaderStops ==
    /\ Running(Reader)
    /\ pc[Reader] = "in"
    /\ Head(input_queue) = "pill"
    /\ Exit(Reader)
    /\ input_queue' = Tail(input_queue)
    /\ UNCHANGED <<output_queue, handler, step, pills, made, used_after_free>>

(* The reader answers. *)
PutOutput ==
    /\ Running(Reader)
    /\ pc[Reader] = "out"
    /\ Release(Reader)
    /\ IF made < MaxMessages
       THEN /\ made' = made + 1
            /\ output_queue' = [output_queue EXCEPT !.message = @ + 1]
       ELSE UNCHANGED <<made, output_queue>>
    /\ UNCHANGED <<input_queue, handler, step, pills, used_after_free>>

(* A writer takes messages, or a pill, which it may reach before messages  *)
(* in front of it that are for other clients.                              *)
TakeOutput(w) ==
    /\ Running(w)
    /\ pc[w] = "out"
    /\ \/ /\ output_queue.message > 0
          /\ output_queue' = [output_queue EXCEPT !.message = @ - 1]
          /\ Release(w)
       \/ /\ output_queue.pill > 0
          /\ output_queue' = [output_queue EXCEPT !.pill = @ - 1]
          /\ Exit(w)
    /\ UNCHANGED <<input_queue, handler, step, pills, made, used_after_free>>

-----------------------------------------------------------------------------
(* The handler.                                                            *)

(* The pill of message_poison_pill_with_timestamp is small: the thread's   *)
(* own cache may have the memory for it, or the handler goes to the heap.  *)
Signal(t) ==
    /\ handler = None
    /\ pc[t] # "exited"
    /\ handler' = t
    /\ step' \in {"allocate", "reader pill"}
    /\ UNCHANGED <<pc, input_queue, output_queue, pills, made,
                   used_after_free>>

(* It waits for the heap, for good if its own thread was in there. *)
Allocate ==
    /\ step = "allocate"
    /\ Free("heap")
    /\ step' = "reader pill"
    /\ UNCHANGED <<pc, input_queue, output_queue, handler, pills, made,
                   used_after_free>>

(* ts_enqueue of the reader's pill *)
PillReader ==
    /\ step = "reader pill"
    /\ Free("in")
    /\ input_queue' = Append(input_queue, "pill")
    /\ step' = "writer pills"
    /\ UNCHANGED <<pc, output_queue, handler, pills, made, used_after_free>>

(* Mistake: the loop also counts the reader among the writers. *)
PillWriter_OneMore ==
    /\ step = "writer pills"
    /\ Free("out")
    /\ output_queue' = [output_queue EXCEPT !.pill = @ + 1]
    /\ pills' = pills + 1
    /\ step' = IF pills' = Cardinality(Workers) THEN "join" ELSE step
    /\ UNCHANGED <<pc, input_queue, handler, made, used_after_free>>

(* Mistake: one pill too few. *)
PillWriter_OneLess ==
    /\ step = "writer pills"
    /\ Free("out")
    /\ output_queue' = [output_queue EXCEPT !.pill = @ + 1]
    /\ pills' = pills + 1
    /\ step' = IF pills' >= Cardinality(Writers) - 1 THEN "join" ELSE step
    /\ UNCHANGED <<pc, input_queue, handler, made, used_after_free>>

(* ts_enqueue of a writer's pill, one for each writer *)
PillWriter ==
    /\ step = "writer pills"
    /\ Free("out")
    /\ output_queue' = [output_queue EXCEPT !.pill = @ + 1]
    /\ pills' = pills + 1
    /\ step' = IF pills' = Cardinality(Writers) THEN "join" ELSE step
    /\ UNCHANGED <<pc, input_queue, handler, made, used_after_free>>

(* Mistake: the reader is not waited for. *)
Join_WritersOnly ==
    /\ step = "join"
    /\ \A t \in Writers \ {handler} : pc[t] = "exited"
    /\ step' = "free input"
    /\ UNCHANGED <<pc, input_queue, output_queue, handler, pills, made,
                   used_after_free>>

(* pthread_join of every worker; to join itself is an error that returns   *)
(* at once and is ignored.                                                 *)
Join ==
    /\ step = "join"
    /\ \A t \in Workers \ {handler} : pc[t] = "exited"
    /\ step' = "free input"
    /\ UNCHANGED <<pc, input_queue, output_queue, handler, pills, made,
                   used_after_free>>

(* ts_queue_free of the one and the other queue *)
FreeInput ==
    /\ step = "free input"
    /\ Free("in")
    /\ step' = "free output"
    /\ UNCHANGED <<pc, input_queue, output_queue, handler, pills, made,
                   used_after_free>>

FreeOutput ==
    /\ step = "free output"
    /\ Free("out")
    /\ step' = "dispose"
    /\ UNCHANGED <<pc, input_queue, output_queue, handler, pills, made,
                   used_after_free>>

(* queue_free of the stale queue, session_storage_dispose, without a lock, *)
(* and ws_deinit_buffer.                                                   *)
Dispose ==
    /\ step = "dispose"
    /\ step' = "disposed"
    /\ UNCHANGED <<pc, input_queue, output_queue, handler, pills, made,
                   used_after_free>>

(* exit(0) *)
ExitProcess ==
    /\ step = "disposed"
    /\ step' = "exited"
    /\ UNCHANGED <<pc, input_queue, output_queue, handler, pills, made,
                   used_after_free>>

HandlerStep ==
    \/ Allocate \/ PillReader \/ PillWriter \/ Join
    \/ FreeInput \/ FreeOutput \/ Dispose \/ ExitProcess

(* What a thread does with the lock it holds. *)
Section(t) ==
    \/ Pass(t) \/ PutInput(t)
    \/ t = Reader /\ (TakeInput \/ ReaderStops \/ PutOutput)
    \/ t \in Writers /\ TakeOutput(t)

ThreadStep(t) == Wait(t) \/ Enter(t) \/ Done(t) \/ Section(t)

Next ==
    \/ \E t \in Threads : ThreadStep(t)
    \/ \E t \in Threads : Signal(t)
    \/ HandlerStep

(* A thread that holds a lock gives it back, one that waits for a lock     *)
(* gets it in the end, and what a worker took from its queue keeps it busy *)
(* for a finite time.                                                      *)
Fairness ==
    /\ \A t \in Threads : WF_vars(Section(t))
    /\ \A t \in Workers : SF_vars(Wait(t)) /\ SF_vars(Done(t))
    /\ SF_vars(HandlerStep)

Spec == Init /\ [][Next]_vars /\ Fairness

-----------------------------------------------------------------------------
(* Every variable keeps its type. *)
TypeOK ==
    /\ pc \in [Threads -> {"queue", "busy", "exited"} \cup Locks]
    /\ input_queue \in Seq({"message", "pill"})
    /\ output_queue \in [message : Nat, pill : Nat]
    /\ handler \in Threads \cup {None}
    /\ step \in {"none", "allocate", "reader pill", "writer pills", "join",
                 "free input", "free output", "dispose", "disposed", "exited"}
    /\ pills \in 0 .. Cardinality(Writers)
    /\ used_after_free \in BOOLEAN

(* What is shared is freed when every worker has ended, but the one the    *)
(* signal interrupted, and nobody uses it afterwards if that is the main   *)
(* thread, which is not joined.                                            *)
FreedSafely ==
    /\ used_after_free => handler # Main
    /\ Gone("in") => \A t \in Workers \ {handler} : pc[t] = "exited"

(* The process ends, if the signal comes while its thread holds no lock. *)
Ends ==
    \A t \in Threads :
        handler = t /\ pc[t] \in {"queue", "busy"} ~> step = "exited"

=============================================================================
