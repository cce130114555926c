--------------------------- MODULE MessageHeaders ---------------------------
(***************************************************************************)
(* The headers of a SEND frame on their way to the subscribers: parsed     *)
(* into a tree (parse_headers), copied into a second one to which the      *)
(* broker adds its own (distribute_messages), written out once for each    *)
(* subscriber (message_send_with_headers).  Copying an item at a time into *)
(* another tree, in the order of the first one's shape, must lose nothing, *)
(* and the second tree is used again for the next subscriber.              *)
(***************************************************************************)
EXTENDS AssociativeArray

CONSTANTS
    NULL,
    Keys,           \* header names
    content_type, content_length,
    message_id,     \* message-id
    destination,    \* destination
    subscription,   \* subscription
    Destinations,   \* names that begin with "destination"
    Queries,        \* the headers put for each query in the body of a message
    Values,         \* values clients give to headers
    Diag,           \* those of them that begin with "DIAG"
    MaxSubscribers  \* bound: subscribers of one message

(* The headers the broker sets. *)
Own == <<content_type, content_length, message_id, destination, subscription>>

ASSUME MessageHeadersAssumption ==
    /\ Keys \subseteq Int
    /\ Own \in Seq(Keys)
    /\ \A i, j \in 1 .. 5 : Own[i] = Own[j] => i = j
    /\ destination \in Destinations /\ Destinations \subseteq Keys
    /\ Queries \subseteq Seq(Keys \ {Own[i] : i \in 1 .. 5})
    /\ Values \subseteq Int /\ Diag \subseteq Values
    /\ NULL \notin Text
    /\ MaxSubscribers \in Nat

VARIABLES
    headers,          \* pm->headers
    topic,            \* pm->topic
    message_headers,  \* the broker's copy, NoItem while there is none
    frame,            \* the lines of the last frame sent
    sent,             \* subscribers this message was sent to
    given,            \* history: the last value given for each header
    asked             \* history: the headers of the query

vars == <<headers, topic, message_headers, frame, sent, given, asked>>

Init ==
    /\ headers = NoItem
    /\ topic = NULL
    /\ message_headers = NoItem
    /\ frame = <<>>
    /\ sent = 0
    /\ given = [k \in Keys |-> NULL]
    /\ asked = {}

(* One line of the frame.  The topic is the value of any header whose name *)
(* begins with "destination".                                              *)
ParseHeader(key, value) ==
    /\ message_headers = NoItem
    /\ headers' = aa_put(headers, key, <<"client", value>>)
    /\ topic' = IF key \in Destinations THEN <<"client", value>> ELSE topic
    /\ given' = [given EXCEPT ![key] = <<"client", value>>]
    /\ UNCHANGED <<message_headers, frame, sent, asked>>

PutContent(aa) ==
    aa_put(aa_put(aa, content_type, <<"content", 0>>),
           content_length, <<"content", 0>>)

(* create_diagnostic_headers *)
PutAnswer(aa, query) ==
    PutAll(aa, [i \in 1 .. Len(query) |->
                  [key |-> query[i], value |-> <<"figure", 0>>]])

(* distribute_messages: a SEND without a topic was answered with an error. *)
(* One to the topic DIAG is answered in the headers.                       *)
Distribute(query) ==
    /\ topic # NULL /\ message_headers = NoItem
    /\ LET copy == PutContent(aa_merge(NoItem, headers))
       IN  IF topic[2] \in Diag
           THEN /\ message_headers' = PutAnswer(copy, query)
                /\ asked' = {query[i] : i \in 1 .. Len(query)}
           ELSE /\ message_headers' = copy
                /\ UNCHANGED asked
    /\ UNCHANGED <<headers, topic, frame, sent, given>>

(* Mistake: the frame is written before the subscription is set. *)
SendNext_Early ==
    /\ message_headers # NoItem
    /\ sent < MaxSubscribers
    /\ sent' = sent + 1
    /\ LET id == aa_put(message_headers, message_id, <<"id", sent>>)
           routed == aa_put(id, destination, topic)
       IN  /\ message_headers' = aa_put(routed, subscription, <<"sub", sent>>)
           /\ frame' = aa_create_str_representation(routed)
    /\ UNCHANGED <<headers, topic, given, asked>>

(* One round of the loop over the subscribers. *)
SendNext ==
    /\ message_headers # NoItem
    /\ sent < MaxSubscribers
    /\ sent' = sent + 1
    /\ LET id == aa_put(message_headers, message_id, <<"id", sent>>)
           routed == aa_put(id, destination, topic)
       IN  /\ message_headers' = aa_put(routed, subscription, <<"sub", sent>>)
           /\ frame' = aa_create_str_representation(message_headers')
    /\ UNCHANGED <<headers, topic, given, asked>>

(* aa_free of both trees. *)
Done ==
    /\ message_headers # NoItem
    /\ headers' = NoItem
    /\ topic' = NULL
    /\ message_headers' = NoItem
    /\ frame' = <<>>
    /\ sent' = 0
    /\ given' = [k \in Keys |-> NULL]
    /\ asked' = {}

Next ==
    \/ \E k \in Keys, v \in Values : ParseHeader(k, v)
    \/ \E query \in Queries : Distribute(query)
    \/ SendNext \/ Done

Spec == Init /\ [][Next]_vars

-----------------------------------------------------------------------------
(* Both trees stay search trees, and balanced ones: a lookup in either of  *)
(* them looks at a logarithmic number of items, whatever the order of the  *)
(* headers and of the copy.                                                *)
TreesBalanced ==
    \A t \in {headers, message_headers} : IsSearchTree(t) /\ IsBalanced(t)

(* The tree has the last value given for each header and nothing else:     *)
(* aa_get finds the items rotations have moved, and aa_has agrees with it. *)
LastValueWins ==
    \A k \in Keys :
        LET item == aa_get(headers, k)
            looked_at == aa_has(headers, k)
        IN  /\ (item = NoItem) = (given[k] = NULL)
            /\ (item = NoItem) = (looked_at = 0)
            /\ item # NoItem => /\ item.key = k
                                /\ item.value = given[k]
                                /\ looked_at <= headers.height

(* What a subscriber must get for header k of the n-th frame. *)
Expected(k, n) ==
    CASE k \in {content_type, content_length} -> <<"content", 0>>
      [] k = message_id -> <<"id", n - 1>>
      [] k = subscription -> <<"sub", n - 1>>
      [] k = destination -> topic
      [] k \in asked -> <<"figure", 0>>
      [] OTHER -> given[k]

(* Every subscriber gets each header once: the broker's own ones, even if  *)
(* the client sent one of that name, with this subscriber's subscription,  *)
(* the destination the message was routed by, whichever header gave it,    *)
(* the figures asked for, and the client's other headers unchanged.        *)
FrameComplete ==
    sent > 0 =>
        /\ \A i, j \in DOMAIN frame : frame[i].key = frame[j].key => i = j
        /\ {frame[i].key : i \in DOMAIN frame} =
             {k \in Keys : Expected(k, sent) # NULL}
        /\ \A i \in DOMAIN frame : frame[i].value = Expected(frame[i].key, sent)

=============================================================================
