------------------------------- MODULE PubSub -------------------------------
(***************************************************************************)
(* The subscription table of stomp/data_wrappers/pub_sub.c and the choice  *)
(* of the receivers of a message (stomp/messages/distribute_messages.c).   *)
(*                                                                         *)
(* A destination is [prefix, wild, tail]: the characters in front of the   *)
(* first '*', whether there is one, and the characters behind it.  Only    *)
(* UNSUBSCRIBE looks at those behind it.  A session is [fd, enc]: the      *)
(* descriptor and the encoded (WebSocket) flag that travels in the same    *)
(* int, so that one client can be known under two different session ids.   *)
(***************************************************************************)
EXTENDS GeneralList, Sequences

(* The subscription struct; born is the ticket of its SUBSCRIBE frame. *)
Subscription(session, topic, id, born) ==
    [session |-> session, topic |-> topic, id |-> id, born |-> born]

pubsub_subscribe(topics, sub) == Enqueue(topics, sub)

(* Mistake: only the first such entry goes. *)
pubsub_unsubscribe_OnlyFirst(topics, session, topic, id) ==
    LET found == {s \in topics.items : /\ s.data.session = session
                                       /\ s.data.topic = topic
                                       /\ s.data.id = id}
    IN  Unchain(topics, {s \in topics.items : ~IsFirst(s, found)})

(* Every entry with this session, pattern and id goes, wherever it is. *)
pubsub_unsubscribe(topics, session, topic, id) ==
    Unchain(topics, {s \in topics.items : ~ /\ s.data.session = session
                                            /\ s.data.topic = topic
                                            /\ s.data.id = id})

pubsub_remove_client(topics, session) ==
    Unchain(topics, {s \in topics.items : s.data.session # session})

(* strncmp(a, b, n) = 0, n being at most the length of both. *)
SamePrefix(a, b, n) == \A i \in 1 .. n : a[i] = b[i]

(* The test of pubsub_find_matching; the topic of a SEND has no wildcard. *)
Matches(pattern, topic) ==
    LET len2 == Len(pattern.prefix)
        topic_mask_len == Len(topic.prefix)
    IN  /\ pattern.wild => topic_mask_len >= len2
        /\ ~pattern.wild => topic_mask_len = len2
        /\ SamePrefix(topic.prefix, pattern.prefix, len2)

(* Mistake: the loop ends in front of the last item. *)
pubsub_find_matching_NotLast(topics, topic) ==
    {s \in topics.items : /\ Matches(s.data.topic, topic)
                          /\ \E x \in topics.items : x.pos > s.pos}

pubsub_find_matching(topics, topic) ==
    {s \in topics.items : Matches(s.data.topic, topic)}

(* The test of distribute_messages_from_stale_q.  It differs from Matches: *)
(* a wildcard must stand for at least one character here.                  *)
StaleMatches(pattern, topic) ==
    LET topic_mask_len == Len(pattern.prefix)
        message_topic_len == Len(topic.prefix)
    IN  /\ pattern.wild => topic_mask_len < message_topic_len
        /\ ~pattern.wild => message_topic_len = topic_mask_len
        /\ SamePrefix(topic.prefix, pattern.prefix, topic_mask_len)

(* A destination of the worker-queue exchange starts with '#'. *)
IsWorkerTopic(topic) == Len(topic.prefix) > 0 /\ topic.prefix[1] = "#"

(* Mistake: the quotient in place of the remainder. *)
pick_next_Quotient(matching, next_counter) ==
    {s \in matching :
        Rank(matching, s) = next_counter \div Cardinality(matching)}

(* pick_next: the matching subscription whose index is the counter modulo  *)
(* the number of matches.                                                  *)
pick_next(matching, next_counter) ==
    {s \in matching :
        Rank(matching, s) = next_counter % Cardinality(matching)}

=============================================================================
