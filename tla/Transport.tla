----------------------------- MODULE Transport ------------------------------
(***************************************************************************)
(* The sockets around handle_query (run_udp, run_tcp and                   *)
(* handle_tcp_connection, src/src/dns.rs): one loop receives datagrams,    *)
(* another accepts connections, and each request is a task of its own that *)
(* may open a socket to ask upstream.  The clients, which may send a query *)
(* again, and the network, which loses and delays datagrams, are external. *)
(***************************************************************************)
EXTENDS Integers, FiniteSets

CONSTANTS Peers,       \* the clients, each with one question
          Tasks,       \* bound: the tasks for datagrams at one time
          Kinds,       \* bound: what handle_query makes of each client's question
          MaxFds,      \* the descriptors there are besides the two listeners
          MaxSends,    \* bound: the datagrams each client sends
          UdpLimit,    \* the most a datagram carries: 512
          FrameLimit,  \* the most two bytes of length count: 65535
          RefusalSize, \* the size of NXDOMAIN for the question
          Nothing,     \* no reply
          Fails        \* a message that cannot be encoded again

\* A reply: its size (the encoder stops at FrameLimit, and an upstream reply
\* has at most 4096 bytes), whether Message::from_vec reads it, the size to_vec then
\* gives it, and whether it came with the TC flag.
Replies == [size : 0..FrameLimit, parses : BOOLEAN, recoded : Nat \cup {Fails},
            marked : BOOLEAN]

\* NXDOMAIN, when upstream cannot be reached.
Refusal == [size |-> RefusalSize, parses |-> TRUE, recoded |-> RefusalSize,
            marked |-> FALSE]

ASSUME TransportAssumption ==
    /\ \A c \in Peers : \A k \in Kinds[c] : /\ k.forwarded \in BOOLEAN
                                            /\ k.reply \in Replies \cup {Nothing}
    /\ Nothing \notin Replies \cup Peers /\ Fails \notin Nat
    /\ Peers \cap Tasks = {} /\ IsFiniteSet(Peers) /\ IsFiniteSet(Tasks)
    /\ MaxFds \in Nat /\ MaxSends \in [Peers -> Nat]
    /\ UdpLimit \in Nat /\ FrameLimit \in Nat /\ RefusalSize \in Nat
    /\ RefusalSize <= UdpLimit /\ UdpLimit <= FrameLimit

Asked == {k \in [Peers -> UNION {Kinds[c] : c \in Peers}] :
             \A c \in Peers : k[c] \in Kinds[c]}

Workers == Tasks \cup Peers        \* a connection is named by its client

VARIABLES kind,        \* each client's question
          client, got, \* where each client is, the packet it settled on
          sends,       \* how often it sent its query by datagram
          wrote,       \* whether it wrote its query on its connection
          queries,     \* datagrams on the way to the server: their senders
          replies,     \* and back: pairs of client and packet
          stage,       \* where each task is
          peer,        \* whose datagram a task works on
          reply,       \* what handle_query returned to it
          fds          \* the number of open descriptors

clientVars == <<kind, client, got, sends, wrote>>
vars == <<kind, client, got, sends, wrote, queries, replies, stage, peer,
          reply, fds>>

Init == /\ kind \in Asked
        /\ client = [c \in Peers |-> "new"]
        /\ got = [c \in Peers |-> Nothing]
        /\ sends = [c \in Peers |-> 0]
        /\ wrote = [c \in Peers |-> FALSE]
        /\ queries = {} /\ replies = {}
        /\ stage = [w \in Workers |-> IF w \in Tasks THEN "idle" ELSE "none"]
        /\ peer = [t \in Tasks |-> Nothing]
        /\ reply = [w \in Workers |-> Nothing]
        /\ fds = 0

Question(w) == kind[IF w \in Tasks THEN peer[w] ELSE w]

-----------------------------------------------------------------------------
(* What is sent for a reply.                                               *)

Packet(prefix, size, marked, cut) ==
    [prefix |-> prefix, size |-> size, marked |-> marked, cut |-> cut]

\* Mutant: the message with the TC flag is sent whatever its size.
Datagrams_unchecked(r) ==
    IF r = Nothing THEN {}
    ELSE IF r.size <= UdpLimit THEN {Packet(r.size, r.size, r.marked, FALSE)}
    ELSE IF ~r.parses \/ r.recoded = Fails THEN {}
    ELSE {Packet(r.recoded, r.recoded, TRUE, FALSE)}

\* Mutant: the cut message follows the one with the TC flag.
Datagrams_both(r) ==
    IF r = Nothing THEN {}
    ELSE IF r.size <= UdpLimit THEN {Packet(r.size, r.size, r.marked, FALSE)}
    ELSE IF ~r.parses \/ r.recoded = Fails THEN {}
    ELSE {p \in {Packet(r.recoded, r.recoded, TRUE, FALSE),
                 Packet(UdpLimit, UdpLimit, r.marked, TRUE)} : p.size <= UdpLimit}

\* The datagram for a reply, if there is one.  A reply over the limit is read
\* and encoded again with the TC flag; if that is still too large it is the
\* reply as it was that is cut.
Datagrams(r) ==
    IF r = Nothing THEN {}
    ELSE IF r.size <= UdpLimit THEN {Packet(r.size, r.size, r.marked, FALSE)}
    ELSE IF ~r.parses \/ r.recoded = Fails THEN {}
    ELSE IF r.recoded <= UdpLimit THEN {Packet(r.recoded, r.recoded, TRUE, FALSE)}
    ELSE {Packet(UdpLimit, UdpLimit, r.marked, TRUE)}

\* Mutant: the length counts its own two bytes.
Frame_counted(r) == Packet((r.size + 2) % (FrameLimit + 1), r.size, r.marked, FALSE)

\* Mutant: the length is not held to 16 bits.
Frame_wide(r) == Packet(r.size + 2, r.size, r.marked, FALSE)

\* The length is cast to 16 bits.
Frame(r) == Packet(r.size % (FrameLimit + 1), r.size, r.marked, FALSE)

-----------------------------------------------------------------------------
(* The clients.                                                            *)

SendQuery(c) ==
    /\ client[c] \in {"new", "asked"} /\ sends[c] < MaxSends[c]
    /\ client' = [client EXCEPT ![c] = "asked"]
    /\ sends' = [sends EXCEPT ![c] = @ + 1]
    /\ queries' = queries \cup {c}
    /\ UNCHANGED <<kind, got, wrote, replies, stage, peer, reply, fds>>

\* The kernel completes the handshake; the connection waits to be accepted.
Connect(c) ==
    /\ client[c] = "new"
    /\ client' = [client EXCEPT ![c] = "tcp"]
    /\ stage' = [stage EXCEPT ![c] = "queued"]
    /\ UNCHANGED <<kind, got, sends, wrote, queries, replies, peer, reply, fds>>

\* The TC flag sends the client to TCP; a message that ends too early is
\* unreadable and the client waits on.
TakeDatagram(c) ==
    \E p \in {r[2] : r \in {r \in replies : r[1] = c}} :
        /\ replies' = replies \ {<<c, p>>}
        /\ CASE client[c] = "asked" /\ p.marked ->
                  /\ client' = [client EXCEPT ![c] = "tcp"]
                  /\ stage' = [stage EXCEPT ![c] = "queued"]
                  /\ UNCHANGED got
             [] client[c] = "asked" /\ ~p.marked /\ ~p.cut ->
                  /\ client' = [client EXCEPT ![c] = "done"]
                  /\ got' = [got EXCEPT ![c] = p]
                  /\ UNCHANGED stage
             [] OTHER -> UNCHANGED <<client, got, stage>>
        /\ UNCHANGED <<kind, sends, wrote, queries, peer, reply, fds>>

\* Length and query; a client may as well stop in the middle for ever.
WriteQuery(c) ==
    /\ client[c] = "tcp" /\ ~wrote[c]
    /\ wrote' = [wrote EXCEPT ![c] = TRUE]
    /\ UNCHANGED <<kind, client, got, sends, queries, replies, stage, peer,
                   reply, fds>>

Break(c) ==
    /\ client[c] = "tcp"
    /\ client' = [client EXCEPT ![c] = "failed"]
    /\ UNCHANGED <<kind, got, sends, wrote, queries, replies, stage, peer,
                   reply, fds>>

Lose == /\ \/ \E c \in queries : queries' = queries \ {c} /\ UNCHANGED replies
           \/ \E r \in replies : replies' = replies \ {r} /\ UNCHANGED queries
        /\ UNCHANGED <<clientVars, stage, peer, reply, fds>>

-----------------------------------------------------------------------------
(* The two loops and their tasks.                                          *)

\* recv_from, then a task: the loop never waits for one.
Receive(t) ==
    /\ stage[t] = "idle"
    /\ \E c \in queries : /\ queries' = queries \ {c}
                          /\ peer' = [peer EXCEPT ![t] = c]
    /\ stage' = [stage EXCEPT ![t] = "query"]
    /\ UNCHANGED <<clientVars, replies, reply, fds>>

\* Mutant: the connection is served in the loop, without a task.
Accept_inline(c) ==
    /\ stage[c] = "queued" /\ fds < MaxFds
    /\ \A d \in Peers : stage[d] \in {"none", "queued", "closed"}
    /\ stage' = [stage EXCEPT ![c] = "reading"]
    /\ fds' = fds + 1
    /\ UNCHANGED <<clientVars, queries, replies, peer, reply>>

\* Without a descriptor accept fails and the loop tries again.
Accept(c) ==
    /\ stage[c] = "queued" /\ fds < MaxFds
    /\ stage' = [stage EXCEPT ![c] = "reading"]
    /\ fds' = fds + 1
    /\ UNCHANGED <<clientVars, queries, replies, peer, reply>>

\* read_exact waits for the whole query, with no timeout.
ReadQuery(c) ==
    /\ stage[c] = "reading" /\ wrote[c]
    /\ stage' = [stage EXCEPT ![c] = "query"]
    /\ UNCHANGED <<clientVars, queries, replies, peer, reply, fds>>

\* Mutant: the connection is not closed.
ReadFails_kept(c) ==
    /\ stage[c] = "reading" /\ ~wrote[c] /\ client[c] = "failed"
    /\ stage' = [stage EXCEPT ![c] = "closed"]
    /\ UNCHANGED <<clientVars, queries, replies, peer, reply, fds>>

\* The client is gone: the task returns the error and drops the stream.
ReadFails(c) ==
    /\ stage[c] = "reading" /\ ~wrote[c] /\ client[c] = "failed"
    /\ stage' = [stage EXCEPT ![c] = "closed"]
    /\ fds' = fds - 1
    /\ UNCHANGED <<clientVars, queries, replies, peer, reply>>

Returns(w, r) == /\ stage' = [stage EXCEPT ![w] = "answer"]
                 /\ reply' = [reply EXCEPT ![w] = r]

\* A local answer or a cached one is there at once.  Forwarding takes a socket;
\* that it cannot be opened looks like an upstream that does not answer.
handle_query(w) ==
    /\ stage[w] = "query"
    /\ IF ~Question(w).forwarded THEN Returns(w, Question(w).reply) /\ UNCHANGED fds
       ELSE IF fds = MaxFds THEN Returns(w, Refusal) /\ UNCHANGED fds
       ELSE /\ stage' = [stage EXCEPT ![w] = "forward"]
            /\ fds' = fds + 1
            /\ UNCHANGED reply
    /\ UNCHANGED <<clientVars, queries, replies, peer>>

\* An upstream server answers, or all of them time out.
Forwarded(w) ==
    /\ stage[w] = "forward"
    /\ \E r \in {Question(w).reply, Refusal} : Returns(w, r)
    /\ fds' = fds - 1
    /\ UNCHANGED <<clientVars, queries, replies, peer>>

\* send_to may fail; the task ends either way.
SendReply(t) ==
    /\ stage[t] = "answer"
    /\ \/ replies' = replies \cup {<<peer[t], p>> : p \in Datagrams(reply[t])}
       \/ UNCHANGED replies
    /\ stage' = [stage EXCEPT ![t] = "idle"]
    /\ peer' = [peer EXCEPT ![t] = Nothing]
    /\ reply' = [reply EXCEPT ![t] = Nothing]
    /\ UNCHANGED <<clientVars, queries, fds>>

\* One query for each connection: it is closed after the frame, and without one
\* when there is no reply.
WriteReply(c) ==
    /\ stage[c] = "answer"
    /\ IF client[c] = "tcp" /\ reply[c] # Nothing
       THEN /\ client' = [client EXCEPT ![c] = "done"]
            /\ got' = [got EXCEPT ![c] = Frame(reply[c])]
       ELSE client' = [client EXCEPT ![c] = "failed"] /\ UNCHANGED got
    /\ stage' = [stage EXCEPT ![c] = "closed"]
    /\ reply' = [reply EXCEPT ![c] = Nothing]
    /\ fds' = fds - 1
    /\ UNCHANGED <<kind, sends, wrote, queries, replies, peer>>

Server == \/ \E t \in Tasks : Receive(t) \/ SendReply(t)
          \/ \E c \in Peers : \/ Accept(c) \/ ReadQuery(c) \/ ReadFails(c)
                              \/ WriteReply(c)
          \/ \E w \in Workers : handle_query(w) \/ Forwarded(w)

Next == \/ \E c \in Peers : \/ SendQuery(c) \/ Connect(c) \/ TakeDatagram(c)
                            \/ WriteQuery(c) \/ Break(c)
        \/ Lose
        \/ Server

Spec == Init /\ [][Next]_vars

\* The runtime polls every loop and every task that can move.  Nothing is
\* assumed of the clients and the network, and they may stop anywhere.
Fairness ==
    /\ \A t \in Tasks : WF_vars(Receive(t) \/ SendReply(t))
    /\ \A c \in Peers : WF_vars(Accept(c) \/ ReadQuery(c) \/ ReadFails(c) \/ WriteReply(c))
    /\ \A w \in Workers : WF_vars(handle_query(w) \/ Forwarded(w))

FairSpec == Spec /\ Fairness
-----------------------------------------------------------------------------
Packets == [prefix : 0..FrameLimit, size : 0..FrameLimit, marked : BOOLEAN, cut : BOOLEAN]

Open == {c \in Peers : stage[c] \notin {"none", "queued", "closed"}}
Asking == {w \in Workers : stage[w] = "forward"}

\* Where tasks and clients can be: a task at work has a client, and only
\* a client that turned to TCP has a connection.
TypeOK ==
    /\ kind \in Asked
    /\ client \in [Peers -> {"new", "asked", "tcp", "done", "failed"}]
    /\ got \in [Peers -> Packets \cup {Nothing}]
    /\ sends \in [Peers -> Nat] /\ \A c \in Peers : sends[c] <= MaxSends[c]
    /\ wrote \in [Peers -> BOOLEAN]
    /\ queries \subseteq Peers
    /\ replies \subseteq Peers \X Packets
    /\ stage \in [Workers -> {"idle", "none", "queued", "reading", "query",
                              "forward", "answer", "closed"}]
    /\ peer \in [Tasks -> Peers \cup {Nothing}]
    /\ reply \in [Workers -> Replies \cup {Nothing}]
    /\ fds \in Int
    /\ \A t \in Tasks : /\ stage[t] \in {"idle", "query", "forward", "answer"}
                        /\ stage[t] # "idle" => peer[t] \in Peers
    /\ \A c \in Peers : client[c] \in {"new", "asked"} => stage[c] = "none"

\* Every way a request can end gives back what it opened: the descriptors in
\* use are those of the connections being served and of the tasks that wait
\* for upstream, and never more than there are (dns.rs, the early returns of
\* forward_to and handle_tcp_connection, where streams and sockets drop).
NoLeak == /\ fds = Cardinality(Open) + Cardinality(Asking)
          /\ fds <= MaxFds

\* No datagram is over the limit, whichever branch of the truncation made it
\* (dns.rs, run_udp).
RepliesFit == \A r \in replies : r[2].size <= UdpLimit

Working(c) == {t \in Tasks : peer[t] = c}
OnTheWay(c) == {m \in replies : m[1] = c}

\* The server sends at most one datagram for each that it receives, whatever
\* the truncation does: what is on the way to it from a client, what it works
\* on and what is on the way back are together never more than the client
\* sent (dns.rs, run_udp).
OneReplyEach ==
    \A c \in Peers :
        Cardinality(Working(c)) + Cardinality(OnTheWay(c))
            + (IF c \in queries THEN 1 ELSE 0) <= sends[c]

\* What a client settles on is whole: the length before a frame is the length
\* of the frame, TCP replies are not cut, and one that still has the TC flag
\* had it when it came from handle_query (dns.rs, run_udp and
\* handle_tcp_connection).
AnsweredInFull ==
    \A c \in Peers : client[c] = "done" =>
        /\ got[c].prefix = got[c].size
        /\ ~got[c].cut
        /\ got[c].size = RefusalSize \/ got[c].size = kind[c].reply.size
        /\ got[c].marked => kind[c].reply.marked

\* The connections of clients that stopped before they wrote their query.
Stalled == {c \in Peers : stage[c] = "reading" /\ ~wrote[c]}

\* A client that wrote its query on a connection gets its answer or sees the
\* connection closed, whatever the other clients, the network and upstream do,
\* unless clients that stopped in the middle of their query hold every
\* descriptor for ever: fewer of them hold up nobody (dns.rs, run_tcp: a task
\* for each connection; handle_tcp_connection: read_exact without a timeout).
ExchangeEnds ==
    \A c \in Peers :
        [](client[c] = "tcp" /\ wrote[c] =>
             <>(client[c] \in {"done", "failed"} \/ [](Cardinality(Stalled) = MaxFds)))

\* The comment in run_udp: a reply over 512 bytes is truncated with the TC
\* flag "so the client knows to retry over TCP".
CutIsMarked == \A r \in replies : r[2].cut => r[2].marked

=============================================================================
