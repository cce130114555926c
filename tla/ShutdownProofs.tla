--------------------------- MODULE ShutdownProofs ---------------------------
(***************************************************************************)
(* FreedSafely for every number of writers and messages.                   *)
(*                                                                         *)
(* The inductive invariant says what the handler knows at each step: whose *)
(* thread it is in (Entered) and who has ended (Joined).  That a thread    *)
(* which ended stays ended, and that the interrupted thread moves no more, *)
(* carries both through the steps of the others.                           *)
(***************************************************************************)
EXTENDS Shutdown, FiniteSetTheorems, SequenceTheorems, TLAPS

(* The steps of the handler behind the joins. *)
Freeing == {"free input", "free output", "dispose", "disposed", "exited"}

(* The reader is at its queue only with something to take; the handler has *)
(* a pill left for as long as it is in the loop over the writers.          *)
TypeInv ==
    /\ TypeOK
    /\ made \in Nat
    /\ pc[Reader] = "in" => input_queue # <<>>
    /\ step = "writer pills" => pills < Cardinality(Writers)
    /\ step \in {"none", "allocate", "reader pill"} => pills = 0

(* The handler runs in a thread that has not ended. *)
Entered ==
    /\ handler = None <=> step = "none"
    /\ handler # None => pc[handler] # "exited"

(* Past the join every worker but the interrupted one has ended. *)
Joined == step \in Freeing => \A t \in Workers \ {handler} : pc[t] = "exited"

Inv ==
    /\ TypeInv /\ Entered /\ Joined
    /\ used_after_free => handler # Main /\ handler # None

Pc == [Threads -> {"queue", "busy", "exited"} \cup Locks]

USE ShutdownAssumption
-----------------------------------------------------------------------------
(* What every step of a thread has in common: it is not the interrupted    *)
(* one, it has not ended, and only its own place changes.                  *)
LEMMA MoveKeeps ==
    ASSUME Inv, NEW t \in Threads, Running(t), NEW p,
           pc' = [pc EXCEPT ![t] = p], UNCHANGED <<handler, step>>
    PROVE  Entered' /\ Joined'
<1>1. pc \in [Threads -> {"queue", "busy", "exited"} \cup Locks]
  BY DEF Inv, TypeInv, TypeOK
<1>2. t # handler /\ pc[t] # "exited"
  BY DEF Running
<1>3. Entered'
  <2>1. handler # None => handler \in Threads
    BY DEF Inv, TypeInv, TypeOK
  <2>2. handler # None => pc'[handler] = pc[handler]
    BY <1>1, <1>2, <2>1
  <2> QED
    BY <2>2 DEF Inv, Entered
<1>4. Joined'
  BY <1>1, <1>2 DEF Inv, Joined, Workers, Threads
<1> QED
  BY <1>3, <1>4

(* A message more, at the one or the other end of the input queue. *)
LEMMA QueueGrows ==
    ASSUME NEW q \in Seq({"message", "pill"}), NEW d \in {"message", "pill"}
    PROVE  /\ Append(q, d) \in Seq({"message", "pill"}) /\ Append(q, d) # <<>>
           /\ <<d>> \o q \in Seq({"message", "pill"}) /\ <<d>> \o q # <<>>
<1>1. <<d>> \in Seq({"message", "pill"}) /\ Len(<<d>>) = 1
  OBVIOUS
<1>2. Append(q, d) \in Seq({"message", "pill"}) /\ Len(Append(q, d)) = Len(q) + 1
  OBVIOUS
<1>3. <<d>> \o q \in Seq({"message", "pill"}) /\ Len(<<d>> \o q) = 1 + Len(q)
  BY <1>1
<1> QED
  BY <1>2, <1>3

(* The type invariant of a step of a thread, which leaves the handler's    *)
(* variables alone.                                                        *)
LEMMA TypeFrame ==
    ASSUME Inv, UNCHANGED <<handler, step, pills>>,
           pc' \in Pc, output_queue' \in [message : Nat, pill : Nat],
           input_queue' \in Seq({"message", "pill"}), made' \in Nat,
           pc'[Reader] = "in" => input_queue' # <<>>,
           used_after_free' \in BOOLEAN
    PROVE  TypeInv'
BY DEF Inv, TypeInv, TypeOK, Pc

(* Who takes a lock past the join is the main thread. *)
LEMMA AcquireStep ==
    ASSUME Inv, NEW t \in Threads, NEW l \in Locks, Acquire(t, l),
           t = Reader /\ l = "in" => input_queue # <<>>
    PROVE  Inv'
<1>1. Entered' /\ Joined'
  BY MoveKeeps DEF Acquire
<1>2. TypeInv'
  <2>1. pc' \in Pc /\ (pc'[Reader] = "in" => input_queue' # <<>>)
    BY DEF Acquire, Inv, TypeInv, TypeOK, Pc, Threads
  <2>2. used_after_free' \in BOOLEAN
    BY DEF Acquire
  <2>3. UNCHANGED <<handler, step, pills, input_queue, output_queue, made>>
    BY DEF Acquire
  <2> QED
    BY <2>1, <2>2, <2>3, TypeFrame DEF Inv, TypeInv, TypeOK
<1>3. used_after_free' => handler' # Main /\ handler' # None
  <2>1. Gone(l) => step \in Freeing
    BY DEF Gone, Freeing
  <2>2. Gone(l) => t = Main
    BY <2>1 DEF Acquire, Running, Inv, Joined, Threads, Workers
  <2>3. Gone(l) => handler # None
    BY <2>1 DEF Inv, Entered, Freeing
  <2> QED
    BY <2>2, <2>3 DEF Acquire, Running, Inv
<1> QED
  BY <1>1, <1>2, <1>3 DEF Inv

(* Wait, Enter, Done and Pass. *)
LEMMA ComesAndGoes ==
    ASSUME Inv, NEW t \in Threads, Wait(t) \/ Enter(t) \/ Done(t) \/ Pass(t)
    PROVE  Inv'
<1>1. CASE Wait(t)
  <2>1. OwnQueue(t) \in Locks /\ t = Reader => input_queue # <<>>
    BY <1>1 DEF Wait, OwnQueue, Locks
  <2>2. OwnQueue(t) \in Locks /\ Acquire(t, OwnQueue(t))
    BY <1>1 DEF Wait, OwnQueue, Locks
  <2> QED
    BY <2>1, <2>2, AcquireStep
<1>2. CASE Enter(t)
  <2>1. PICK l \in Takes(t) : Acquire(t, l)
    BY <1>2 DEF Enter
  <2>2. l \in Locks /\ (t = Reader => l # "in")
    BY DEF Takes, Locks
  <2> QED
    BY <2>1, <2>2, AcquireStep
<1>3. CASE Done(t) \/ Pass(t)
  <2>1. Entered' /\ Joined'
    BY <1>3, MoveKeeps DEF Done, Pass, Release
  <2>2. TypeInv'
    <3>1. pc' \in Pc /\ (pc'[Reader] = "in" => pc[Reader] = "in")
      BY <1>3 DEF Done, Pass, Release, Inv, TypeInv, TypeOK, Pc, Threads
    <3>2. UNCHANGED <<handler, step, pills, input_queue, output_queue, made,
                      used_after_free>>
      BY <1>3 DEF Done, Pass
    <3> QED
      BY <3>1, <3>2, TypeFrame DEF Inv, TypeInv, TypeOK
  <2> QED
    BY <1>3, <2>1, <2>2 DEF Inv, Done, Pass
<1> QED
  BY <1>1, <1>2, <1>3

(* PutInput, TakeInput and ReaderStops. *)
LEMMA InputStep ==
    ASSUME Inv, NEW t \in Threads,
           PutInput(t) \/ (t = Reader /\ (TakeInput \/ ReaderStops))
    PROVE  Inv'
<1>1. TypeOK
  BY DEF Inv, TypeInv
<1>2. Entered' /\ Joined'
  BY MoveKeeps DEF PutInput, TakeInput, ReaderStops, Release, Exit
<1>3. CASE PutInput(t)
  <2>1. input_queue' \in Seq({"message", "pill"}) /\ made' \in Nat
    <3>1. made' \in Nat
      <4>1. made \in Nat
        BY DEF Inv, TypeInv
      <4> QED
        BY <1>3, <4>1 DEF PutInput
    <3>2. input_queue \in Seq({"message", "pill"})
      BY <1>1 DEF TypeOK
    <3> QED
      BY <1>3, <3>1, <3>2, QueueGrows DEF PutInput
  <2>2. pc' \in Pc
    BY <1>1, <1>3 DEF PutInput, Release, TypeOK, Pc
  <2>3. input_queue # <<>> => input_queue' # <<>>
    BY <1>1, <1>3, QueueGrows DEF PutInput, TypeOK
  <2>4. pc'[Reader] = pc[Reader]
    BY <1>1, <1>3 DEF PutInput, Release, TypeOK, Threads
  <2>5. TypeInv'
    <3>1. UNCHANGED <<handler, step, pills, output_queue, used_after_free>>
      BY <1>3 DEF PutInput
    <3> QED
      BY <2>1, <2>2, <2>3, <2>4, <3>1, TypeFrame DEF Inv, TypeInv, TypeOK
  <2> QED
    BY <1>2, <1>3, <2>5 DEF PutInput, Inv
<1>4. CASE t = Reader /\ (TakeInput \/ ReaderStops)
  <2>1. pc[Reader] = "in" /\ input_queue # <<>> /\ pc[Reader] # "exited"
    BY <1>4 DEF TakeInput, ReaderStops, Inv, TypeInv
  <2>2. input_queue' \in Seq({"message", "pill"})
    <3>1. input_queue' = Tail(input_queue)
      BY <1>4 DEF TakeInput, ReaderStops
    <3>2. input_queue \in Seq({"message", "pill"})
      BY <1>1 DEF TypeOK
    <3> QED
      BY <2>1, <3>1, <3>2
  <2>3. pc' \in Pc /\ pc'[Reader] # "in"
    BY <1>1, <1>4 DEF TakeInput, ReaderStops, Release, Exit, TypeOK, Pc, Threads
  <2>4. UNCHANGED <<handler, step, pills, output_queue, made, used_after_free>>
    BY <1>4 DEF TakeInput, ReaderStops
  <2>5. TypeInv'
    BY <2>2, <2>3, <2>4, TypeFrame DEF Inv, TypeInv, TypeOK
  <2> QED
    BY <1>2, <2>4, <2>5 DEF Inv
<1> QED
  BY <1>3, <1>4

(* PutOutput and TakeOutput. *)
LEMMA OutputStep ==
    ASSUME Inv, NEW t \in Threads,
           \/ t = Reader /\ PutOutput
           \/ t \in Writers /\ TakeOutput(t)
    PROVE  Inv'
<1>1. TypeOK
  BY DEF Inv, TypeInv
<1>2. Entered' /\ Joined'
  BY MoveKeeps DEF PutOutput, TakeOutput, Release, Exit
<1>3. pc' \in Pc
  BY <1>1 DEF PutOutput, TakeOutput, Release, Exit, TypeOK, Pc
<1>4. output_queue' \in [message : Nat, pill : Nat] /\ made' \in Nat
  <2>1. /\ output_queue \in [message : Nat, pill : Nat] /\ made \in Nat
        /\ output_queue.message \in Nat /\ output_queue.pill \in Nat
    BY <1>1 DEF Inv, TypeInv, TypeOK
  <2>2. ASSUME output_queue.message > 0
        PROVE  output_queue.message - 1 \in Nat
    BY <2>1, <2>2
  <2>3. ASSUME output_queue.pill > 0
        PROVE  output_queue.pill - 1 \in Nat
    BY <2>1, <2>3
  <2>4. output_queue.message + 1 \in Nat /\ made + 1 \in Nat
    BY <2>1
  <2> QED
    BY <2>1, <2>2, <2>3, <2>4 DEF PutOutput, TakeOutput
<1>5. pc[Reader] # "in" => pc'[Reader] # "in"
  BY <1>1 DEF PutOutput, TakeOutput, Release, Exit, Running, TypeOK, Threads
<1>6. TypeInv'
  <2>1. UNCHANGED <<handler, step, pills, input_queue, used_after_free>>
    BY DEF PutOutput, TakeOutput
  <2> QED
    BY <1>3, <1>4, <1>5, <2>1, TypeFrame DEF Inv, TypeInv, TypeOK
<1> QED
  BY <1>2, <1>6 DEF PutOutput, TakeOutput, Inv

-----------------------------------------------------------------------------
(* The signal, in a thread that has not ended. *)
LEMMA SignalStep ==
    ASSUME Inv, NEW t \in Threads, Signal(t)
    PROVE  Inv'
<1>1. TypeInv'
  <2>1. step = "none" /\ pills = 0 /\ pills' = 0
    BY DEF Signal, Inv, Entered, TypeInv
  <2> QED
    BY <2>1 DEF Signal, Inv, TypeInv, TypeOK
<1>2. Entered' /\ Joined'
  BY DEF Signal, Inv, Entered, Joined, Threads, Freeing
<1>3. ~used_after_free
  BY DEF Signal, Inv, Entered
<1> QED
  BY <1>1, <1>2, <1>3 DEF Signal, Inv

LEMMA HandlerKeeps ==
    ASSUME Inv, HandlerStep
    PROVE  Inv'
<1> USE DEF Freeing
<1>1. handler \in Threads /\ TypeOK
  BY DEF HandlerStep, Allocate, PillReader, PillWriter, Join, FreeInput,
         FreeOutput, Dispose, ExitProcess, Inv, TypeInv, TypeOK, Entered
<1>2. Cardinality(Writers) \in Nat /\ Cardinality(Writers) > 0
  BY FS_CardinalityType, FS_EmptySet
<1>3. CASE Allocate
  BY <1>1, <1>3 DEF Allocate, Free, Inv, TypeInv, TypeOK, Entered, Joined
<1>4. CASE PillReader
  <2>1. input_queue' \in Seq({"message", "pill"}) /\ input_queue' # <<>>
    BY <1>1, <1>4, QueueGrows DEF PillReader, TypeOK
  <2>2. TypeInv'
    BY <1>1, <1>2, <1>4, <2>1 DEF PillReader, Inv, TypeInv, TypeOK
  <2> QED
    BY <1>1, <1>4, <2>2 DEF PillReader, Free, Inv, Entered, Joined
<1>5. CASE PillWriter
  <2>1. output_queue' \in [message : Nat, pill : Nat]
    <3>1. output_queue \in [message : Nat, pill : Nat]
      BY <1>1 DEF TypeOK
    <3>2. output_queue.pill + 1 \in Nat
      BY <3>1
    <3> QED
      BY <1>5, <3>1, <3>2 DEF PillWriter
  <2>2. /\ pills' \in 0 .. Cardinality(Writers)
        /\ step' \in {"writer pills", "join"}
        /\ step' = "writer pills" => pills' < Cardinality(Writers)
    <3> DEFINE n == Cardinality(Writers)
    <3> HIDE DEF n
    <3>1. n \in Nat
      BY <1>2 DEF n
    <3>2. pills \in 0 .. n /\ pills < n
      BY <1>5 DEF PillWriter, Inv, TypeInv, TypeOK, n
    <3>3. /\ pills' = pills + 1
          /\ step' = IF pills' = n THEN "join" ELSE "writer pills"
      BY <1>5 DEF PillWriter, n
    <3>4. \A k \in 0 .. n : k < n => k + 1 \in 0 .. n /\ (k + 1 # n => k + 1 < n)
      BY <3>1
    <3>5. pills' \in 0 .. n /\ (pills' # n => pills' < n)
      BY <3>2, <3>3, <3>4
    <3> QED
      BY <3>3, <3>5 DEF n
  <2>3. TypeInv'
    BY <1>1, <1>5, <2>1, <2>2 DEF PillWriter, Inv, TypeInv, TypeOK
  <2> QED
    BY <1>1, <1>5, <2>2, <2>3 DEF PillWriter, Free, Inv, Entered, Joined
<1>6. CASE Join
  BY <1>1, <1>6 DEF Join, Inv, TypeInv, TypeOK, Entered, Joined
<1>7. CASE FreeInput \/ FreeOutput \/ ExitProcess
  <2>1. step \in Freeing /\ step' \in Freeing
    BY <1>7 DEF FreeInput, FreeOutput, ExitProcess
  <2>2. UNCHANGED <<pc, input_queue, output_queue, handler, pills, made,
                    used_after_free>>
    BY <1>7 DEF FreeInput, FreeOutput, ExitProcess
  <2>3. TypeInv'
    BY <1>1, <2>1, <2>2 DEF Inv, TypeInv, TypeOK
  <2> QED
    BY <1>1, <2>1, <2>2, <2>3 DEF Inv, Entered, Joined
<1>8. CASE Dispose
  BY <1>1, <1>8 DEF Dispose, Inv, TypeInv, TypeOK, Entered, Joined
<1> QED
  BY <1>3, <1>4, <1>5, <1>6, <1>7, <1>8 DEF HandlerStep

LEMMA InitInv == Init => Inv
<1> SUFFICES ASSUME Init PROVE Inv
  OBVIOUS
<1>1. Cardinality(Writers) \in Nat
  BY FS_CardinalityType
<1>2. TypeInv
  <2>1. pc \in Pc /\ pc[Reader] = "queue"
    BY DEF Init, Pc, Threads
  <2>2. input_queue \in Seq({"message", "pill"}) /\ pills \in 0 .. Cardinality(Writers)
    BY <1>1 DEF Init
  <2>3. output_queue \in [message : Nat, pill : Nat] /\ made \in Nat
    BY DEF Init
  <2> QED
    BY <2>1, <2>2, <2>3 DEF Init, TypeInv, TypeOK, Pc
<1> QED
  BY <1>2 DEF Init, Inv, Entered, Joined, Freeing

LEMMA NextInv == Inv /\ [Next]_vars => Inv'
<1> SUFFICES ASSUME Inv, [Next]_vars PROVE Inv'
  OBVIOUS
<1>1. ASSUME NEW t \in Threads, ThreadStep(t) PROVE Inv'
  BY <1>1, ComesAndGoes, InputStep, OutputStep, SMTT(30) DEF ThreadStep, Section
<1>2. CASE UNCHANGED vars
  BY <1>2, ZenonT(40) DEF vars, Inv, TypeInv, TypeOK, Entered, Joined
<1> QED
  BY <1>1, <1>2, SignalStep, HandlerKeeps DEF Next

(* The inductive invariant. *)
LEMMA InvHolds == Spec => []Inv
BY InitInv, NextInv, PTL DEF Spec

-----------------------------------------------------------------------------
(* Every variable of the threads and of the handler keeps its type: the    *)
(* reader never takes from an empty queue, the handler queues no more      *)
(* pills than there are writers.                                           *)
THEOREM TypeOKHolds == Spec => []TypeOK
<1>1. Inv => TypeOK
  BY DEF Inv, TypeInv
<1> QED
  BY <1>1, InvHolds, PTL

(* process_kill_threads joins the workers before it frees what they share: *)
(* only the main thread, which is not joined, can use it afterwards.       *)
THEOREM FreedSafelyHolds == Spec => []FreedSafely
<1>1. Inv => FreedSafely
  BY DEF Inv, FreedSafely, Gone, Joined, Freeing
<1> QED
  BY <1>1, InvHolds, PTL

=============================================================================
