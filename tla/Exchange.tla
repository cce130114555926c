------------------------------ MODULE Exchange ------------------------------
(***************************************************************************)
(* What the broker promises to those who publish and subscribe, whatever   *)
(* queues and threads are behind it: who is subscribed, and for each       *)
(* subscription the messages that wait to be sent, in order.  A message is *)
(* known by the number of the SEND frame it comes from.                    *)
(***************************************************************************)
EXTENDS Naturals, Sequences

CONSTANTS
    Sessions,      \* who subscribes
    Destinations,  \* [prefix, wild, tail]: a text, or all that begin with it
    Ids,           \* names of subscriptions
    Numbers,       \* of frames
    IsShared(_)    \* each message of this topic is for one subscriber only

VARIABLES
    subscribed,  \* the subscriptions
    mail         \* the waiting messages of those that have some

vars == <<subscribed, mail>>

Init == subscribed = {} /\ mail = <<>>

Begins(text, prefix) ==
    /\ Len(prefix) <= Len(text)
    /\ SubSeq(text, 1, Len(prefix)) = prefix

Covers(pattern, topic) ==
    IF pattern.wild THEN Begins(topic.prefix, pattern.prefix)
    ELSE pattern.prefix = topic.prefix

Subscribe(s, topic, id, n) ==
    /\ subscribed' = subscribed \cup
         {[session |-> s, topic |-> topic, id |-> id, born |-> n]}
    /\ UNCHANGED mail

(* Nobody else's subscription ends, and no other one of this client. *)
Unsubscribe(s, topic, id) ==
    /\ subscribed' = {x \in subscribed :
                         ~(x.session = s /\ x.topic = topic /\ x.id = id)}
    /\ UNCHANGED mail

EndSession(s) ==
    /\ subscribed' = {x \in subscribed : x.session # s}
    /\ UNCHANGED mail

(* Each receiver's mail gets the message, once and behind the others. *)
Deliver(receivers, n) ==
    mail' = [x \in DOMAIN mail \cup receivers |->
                LET waiting == IF x \in DOMAIN mail THEN mail[x] ELSE <<>>
                IN  IF x \in receivers THEN Append(waiting, n) ELSE waiting]

(* A message goes to every subscription that covers its topic, or to one   *)
(* of them.                                                                *)
Publish(topic, n) ==
    LET covering == {x \in subscribed : Covers(x.topic, topic)}
    IN  /\ UNCHANGED subscribed
        /\ covering # {}
        /\ IF IsShared(topic) THEN \E x \in covering : Deliver({x}, n)
           ELSE Deliver(covering, n)

(* Some of a client's mail is taken out to be sent, the oldest first. *)
Take(s) ==
    /\ UNCHANGED subscribed
    /\ DOMAIN mail' \subseteq DOMAIN mail
    /\ \A x \in DOMAIN mail :
          IF x \in DOMAIN mail'
          THEN \E k \in 0 .. Len(mail[x]) :
                  /\ mail'[x] = SubSeq(mail[x], k + 1, Len(mail[x]))
                  /\ k > 0 => x.session = s
          ELSE x.session = s

Next ==
    \/ \E s \in Sessions :
          \/ EndSession(s) \/ Take(s)
          \/ \E topic \in Destinations, id \in Ids :
                \/ Unsubscribe(s, topic, id)
                \/ \E n \in Numbers : Subscribe(s, topic, id, n)
    \/ \E topic \in Destinations, n \in Numbers : ~topic.wild /\ Publish(topic, n)

Spec == Init /\ [][Next]_vars

=============================================================================
