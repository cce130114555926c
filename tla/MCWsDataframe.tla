--------------------------- MODULE MCWsDataframe ---------------------------
(* A small instance of WsDataframe: a frame has one to three header bytes. *)
EXTENDS WsDataframe, TLC

CONSTANTS a, b

(* The first client sends one frame for each length form, at the limits of *)
(* the forms and of the payload, one for each opcode, and one whose length *)
(* has a longer form than it needs.  The second one competes with it for   *)
(* the buffer.                                                             *)
SmallFrames ==
    a :> {[op |-> "text", form |-> "7", payload |-> n] : n \in {0, 1}} \cup
         {[op |-> "text", form |-> "16", payload |-> n] : n \in {1, 2}} \cup
         {[op |-> "text", form |-> "64", payload |-> n] : n \in {4, 5}} \cup
         {[op |-> "close", form |-> "7", payload |-> 1],
          [op |-> "other", form |-> "7", payload |-> 1]}
    @@ b :> {[op |-> "text", form |-> "7", payload |-> 0]}

SmallMaxFrames == a :> 2 @@ b :> 1

(* Two clients with a slot each, one of which may be refused. *)
PairFrames ==
    a :> {[op |-> "text", form |-> "16", payload |-> 2],
          [op |-> "close", form |-> "16", payload |-> 2]}
    @@ b :> {[op |-> "text", form |-> "16", payload |-> 3]}

PairMaxFrames == a :> 2 @@ b :> 1

=============================================================================
