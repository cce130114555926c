------------------------------ MODULE MCStomp ------------------------------
(***************************************************************************)
(* Small instances of Stomp.  Each run gives Frames one of the menus below.*)
(***************************************************************************)
EXTENDS Stomp

CONSTANTS a, b, i1, i2, w1

Topic(prefix) == [prefix |-> prefix, wild |-> FALSE, tail |-> <<>>]
Pattern(prefix, tail) == [prefix |-> prefix, wild |-> TRUE, tail |-> tail]

Orders == Topic(<<"o", "r">>)
Order == Topic(<<"o">>)
AllO == Pattern(<<"o">>, <<>>)
AllOx == Pattern(<<"o">>, <<"x">>)
Jobs == Topic(<<"#", "j">>)

MCDestinations == {Orders, Order, AllO, AllOx, Jobs}

Frame(command, topic, id, receipt) ==
    [command |-> command, topic |-> topic, id |-> id, receipt |-> receipt,
     body |-> TRUE]

(* What opens and closes sessions and subscriptions. *)
SessionFrames ==
    {Frame("CONNECT", None, None, FALSE),
     Frame("DISCONNECT", None, None, FALSE),
     Frame("SUBSCRIBE", Orders, i1, FALSE)}

(* Every command, with and without the headers it needs: a wildcard        *)
(* pattern, an exact topic, and one worker topic with a changing group.    *)
ExchangeFrames ==
    {Frame("CONNECT", None, None, FALSE),
     Frame("DISCONNECT", None, None, TRUE),
     Frame("SUBSCRIBE", AllO, i1, FALSE),
     Frame("SUBSCRIBE", Jobs, i1, FALSE),
     Frame("SUBSCRIBE", Jobs, i2, FALSE),
     Frame("SUBSCRIBE", Orders, None, TRUE),
     Frame("UNSUBSCRIBE", AllO, i1, TRUE),
     Frame("UNSUBSCRIBE", AllOx, i1, FALSE),
     Frame("SEND", Orders, None, FALSE),
     Frame("SEND", Jobs, None, FALSE),
     Frame("SEND", AllO, None, TRUE),
     Frame("DIAG", None, None, FALSE),
     Frame("GET", None, None, FALSE)}

=============================================================================
