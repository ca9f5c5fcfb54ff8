---------------------------- MODULE MCTransport -----------------------------
(* Clients and a task for datagrams; each client's reply is of one of the    *)
(* classes that run_udp and handle_tcp_connection tell apart.                *)
EXTENDS Transport, TLC

Answer(size, parses, recoded, marked) ==
    [size |-> size, parses |-> parses, recoded |-> recoded, marked |-> marked]

Local(r) == [forwarded |-> FALSE, reply |-> r]
Relayed(r) == [forwarded |-> TRUE, reply |-> r]

Fits == Local(Answer(512, TRUE, 512, FALSE))
Marked == Relayed(Answer(100, TRUE, 100, TRUE))            \* truncated upstream

AllKinds == {Fits, Marked,
             Local(Nothing),                               \* unreadable query
             Local(Answer(FrameLimit, TRUE, FrameLimit, FALSE)),
             Relayed(Answer(600, TRUE, 500, FALSE)),       \* less compressed
             Relayed(Answer(600, FALSE, Fails, FALSE))}    \* unreadable

CONSTANTS c1, c2, c3

MCPeers == {c1, c2, c3}

\* The first client has every class of reply and repeats its query.  With the
\* second it competes for the descriptors; the third has TCP only.
MCKinds == c1 :> AllKinds @@ c2 :> {Marked} @@ c3 :> {Fits}
MCMaxSends == c1 :> 2 @@ c2 :> 1 @@ c3 :> 0
=============================================================================
