-------------------------- MODULE TransportProofs ---------------------------
(***************************************************************************)
(* Proofs about Transport, for any clients, tasks, replies and descriptors.*)
(***************************************************************************)
EXTENDS Transport, FiniteSetTheorems, TLAPS

-----------------------------------------------------------------------------
(* What is sent for a reply.                                               *)

\* A datagram is one of these two.
LEMMA PacketTypes ==
    ASSUME NEW n \in 0..FrameLimit, NEW m \in BOOLEAN, NEW k \in BOOLEAN
    PROVE  /\ Packet(n, n, m, k) \in Packets
           /\ Packet(n, n, m, k).prefix = n /\ Packet(n, n, m, k).size = n
           /\ Packet(n, n, m, k).marked = m /\ Packet(n, n, m, k).cut = k
<1>1. Packet(n, n, m, k) \in Packets
  BY Zenon DEF Packet, Packets
<1> QED
  BY <1>1 DEF Packet

LEMMA DatagramFacts ==
    ASSUME NEW r \in Replies \cup {Nothing}, NEW p \in Datagrams(r)
    PROVE  /\ p \in Packets /\ p.size <= UdpLimit /\ p.prefix = p.size
           /\ ~p.marked /\ ~p.cut => p.size = r.size
<1>1. r \in Replies /\ r # Nothing
  BY DEF Datagrams
<1>2. /\ r.size \in 0..FrameLimit /\ r.marked \in BOOLEAN /\ r.parses \in BOOLEAN
      /\ r.recoded \in Nat \cup {Fails}
  BY <1>1 DEF Replies
<1>3. CASE r.size <= UdpLimit
  <2>1. p = Packet(r.size, r.size, r.marked, FALSE)
    BY <1>1, <1>3 DEF Datagrams
  <2>2. p \in Packets /\ p.size = r.size /\ p.prefix = r.size
    BY <1>2, <2>1, PacketTypes, Zenon
  <2> QED
    BY <1>3, <2>2
<1>4. CASE ~(r.size <= UdpLimit)
  <2>1. /\ r.recoded # Fails
        /\ p \in IF r.recoded <= UdpLimit THEN {Packet(r.recoded, r.recoded, TRUE, FALSE)}
                 ELSE {Packet(UdpLimit, UdpLimit, r.marked, TRUE)}
    BY <1>1, <1>4, Zenon DEF Datagrams
  <2>2. CASE r.recoded <= UdpLimit
    <3>1. p = Packet(r.recoded, r.recoded, TRUE, FALSE)
      BY <2>1, <2>2, Zenon
    <3>2. r.recoded \in Nat
      BY <1>2, <2>1
    <3>3. r.recoded \in 0..FrameLimit
      BY <2>2, <3>2, TransportAssumption
    <3>4. p \in Packets /\ p.size = r.recoded /\ p.prefix = r.recoded /\ p.marked
      BY <3>1, <3>3, PacketTypes, Zenon
    <3> QED
      BY <2>2, <3>4
  <2>3. CASE ~(r.recoded <= UdpLimit)
    <3>1. p = Packet(UdpLimit, UdpLimit, r.marked, TRUE)
      BY <2>1, <2>3, Zenon
    <3>2. UdpLimit \in 0..FrameLimit /\ UdpLimit <= UdpLimit
      BY TransportAssumption
    <3>3. p \in Packets /\ p.size = UdpLimit /\ p.prefix = UdpLimit /\ p.cut
      BY <1>2, <3>1, <3>2, PacketTypes, Zenon
    <3> QED
      BY <3>2, <3>3
  <2> QED
    BY <2>2, <2>3
<1> QED
  BY <1>3, <1>4

LEMMA FrameFacts ==
    ASSUME NEW r \in Replies
    PROVE  /\ Frame(r) \in Packets /\ Frame(r).prefix = Frame(r).size
           /\ Frame(r).size = r.size /\ ~Frame(r).cut
           /\ Frame(r).marked = r.marked
<1>1. r.size \in 0..FrameLimit /\ r.marked \in BOOLEAN
  BY DEF Replies
<1>2. r.size % (FrameLimit + 1) = r.size
  BY <1>1, TransportAssumption
<1> DEFINE p == Frame(r)
<1>3. p = Packet(r.size, r.size, r.marked, FALSE)
  BY <1>2 DEF Frame
<1> HIDE DEF p
<1>4. /\ p \in Packets /\ p.prefix = r.size /\ p.size = r.size
      /\ p.marked = r.marked /\ p.cut = FALSE
  BY <1>1, <1>3, PacketTypes, Zenon
<1> QED
  BY <1>4 DEF p

LEMMA RefusalIsReply == Refusal \in Replies /\ ~Refusal.marked
  BY TransportAssumption DEF Refusal, Replies

\* A task at work has a question.
LEMMA Questions ==
    ASSUME TypeOK, NEW w \in Workers,
           stage[w] \in {"query", "forward", "answer"} \/ w \in Peers
    PROVE  /\ Question(w).forwarded \in BOOLEAN
           /\ Question(w).reply \in Replies \cup {Nothing}
<1>1. PICK c \in Peers : Question(w) = kind[c]
  BY TransportAssumption DEF TypeOK, Workers, Question
<1>2. kind[c] \in Kinds[c]
  BY DEF TypeOK, Asked
<1> QED
  BY <1>1, <1>2, TransportAssumption

-----------------------------------------------------------------------------
(* The invariant: besides the properties themselves, that what a task has  *)
(* to say is the reply to its own client's question or the refusal, and so *)
(* is what is on the way to that client.                                   *)

Spoken(c) == {kind[c].reply, Refusal}

OwnReplies ==
    /\ \A w \in Workers : stage[w] = "answer" => reply[w] \in {Question(w).reply, Refusal}
    /\ \A m \in replies : \E r \in Spoken(m[1]) : m[2] \in Datagrams(r)

\* A client is owed at most a reply for each datagram it sent.
Count(c) == Cardinality(Working(c)) + Cardinality(OnTheWay(c))
                + (IF c \in queries THEN 1 ELSE 0)

Owed == /\ IsFiniteSet(replies)
        /\ \A t \in Tasks : stage[t] = "idle" => peer[t] = Nothing
        /\ \A c \in Peers : Count(c) <= sends[c]

IInv == TypeOK /\ NoLeak /\ OwnReplies /\ Owed /\ AnsweredInFull

LEMMA InitHolds == Init => IInv
<1> SUFFICES ASSUME Init PROVE IInv
  OBVIOUS
<1> USE TransportAssumption DEF Init, Workers
<1>1. TypeOK
  BY DEF TypeOK
<1>2. Open = {} /\ Asking = {}
  BY DEF Open, Asking
<1>3. NoLeak
  BY <1>2, FS_EmptySet DEF NoLeak
<1>4. OwnReplies /\ AnsweredInFull
  BY DEF OwnReplies, AnsweredInFull
<1>5. Owed
  <2>1. \A c \in Peers : Working(c) = {} /\ OnTheWay(c) = {} /\ c \notin queries
    BY DEF Working, OnTheWay
  <2>2. ASSUME NEW c \in Peers PROVE Count(c) = 0 /\ sends[c] = 0
    <3>1. Working(c) = {} /\ OnTheWay(c) = {} /\ c \notin queries
      BY <2>1
    <3>2. Cardinality(Working(c)) = 0 /\ Cardinality(OnTheWay(c)) = 0
      BY <3>1, FS_EmptySet, Zenon
    <3> QED
      BY <3>1, <3>2 DEF Count
  <2>3. IsFiniteSet(replies) /\ \A t \in Tasks : peer[t] = Nothing
    BY FS_EmptySet
  <2> QED
    BY <2>2, <2>3 DEF Owed
<1> QED
  BY <1>1, <1>3, <1>4, <1>5 DEF IInv

\* Types are kept, action by action.
LEMMA TypeStep == TypeOK /\ [Next]_vars => TypeOK'
<1> SUFFICES ASSUME TypeOK, [Next]_vars PROVE TypeOK'
  OBVIOUS
<1>a. Peers \cap Tasks = {} /\ MaxSends \in [Peers -> Nat]
  BY TransportAssumption
<1>1. ASSUME NEW c \in Peers, SendQuery(c) PROVE TypeOK'
  BY <1>a, <1>1 DEF TypeOK, SendQuery, Workers
<1>2. ASSUME NEW c \in Peers, Connect(c) PROVE TypeOK'
  BY <1>a, <1>2 DEF TypeOK, Connect, Workers
<1>3. ASSUME NEW c \in Peers, TakeDatagram(c) PROVE TypeOK'
  BY <1>a, <1>3 DEF TypeOK, TakeDatagram, Workers
<1>4. ASSUME NEW c \in Peers, WriteQuery(c) PROVE TypeOK'
  BY <1>a, <1>4 DEF TypeOK, WriteQuery, Workers
<1>5. ASSUME NEW c \in Peers, Break(c) PROVE TypeOK'
  BY <1>a, <1>5 DEF TypeOK, Break, Workers
<1>6. CASE Lose
  BY <1>6 DEF TypeOK, Lose, clientVars
<1>7. ASSUME NEW t \in Tasks, Receive(t) PROVE TypeOK'
  BY <1>a, <1>7 DEF TypeOK, Receive, clientVars, Workers
<1>8. ASSUME NEW t \in Tasks, SendReply(t) PROVE TypeOK'
  <2>1. peer[t] \in Peers /\ reply[t] \in Replies \cup {Nothing}
    BY <1>8 DEF TypeOK, SendReply, Workers
  <2>2. \A p \in Datagrams(reply[t]) : p \in Packets
    BY <2>1, DatagramFacts, Zenon
  <2>3. replies' \subseteq Peers \X Packets
    BY <1>8, <2>1, <2>2 DEF TypeOK, SendReply
  <2> QED
    BY <1>a, <1>8, <2>3 DEF TypeOK, SendReply, clientVars, Workers
<1>9. ASSUME NEW c \in Peers, Accept(c) PROVE TypeOK'
  BY <1>a, <1>9 DEF TypeOK, Accept, clientVars, Workers
<1>10. ASSUME NEW c \in Peers, ReadQuery(c) PROVE TypeOK'
  BY <1>a, <1>10 DEF TypeOK, ReadQuery, clientVars, Workers
<1>11. ASSUME NEW c \in Peers, ReadFails(c) PROVE TypeOK'
  BY <1>a, <1>11 DEF TypeOK, ReadFails, clientVars, Workers
<1>12. ASSUME NEW c \in Peers, WriteReply(c) PROVE TypeOK'
  <2>1. reply[c] # Nothing => Frame(reply[c]) \in Packets
    BY FrameFacts DEF TypeOK, Workers
  <2>2. got' \in [Peers -> Packets \cup {Nothing}]
    BY <1>12, <2>1 DEF TypeOK, WriteReply
  <2> QED
    BY <1>a, <1>12, <2>2 DEF TypeOK, WriteReply, Workers
<1>13. ASSUME NEW w \in Workers, handle_query(w) PROVE TypeOK'
  <2>1. Question(w).reply \in Replies \cup {Nothing} /\ Refusal \in Replies
    BY <1>13, Questions, RefusalIsReply DEF handle_query
  <2>2. reply' \in [Workers -> Replies \cup {Nothing}]
    BY <1>13, <2>1 DEF TypeOK, handle_query, Returns
  <2>3. \E x \in {"forward", "answer"} : stage' = [stage EXCEPT ![w] = x]
    BY <1>13 DEF handle_query, Returns
  <2>4. fds' \in Int
    BY <1>13 DEF TypeOK, handle_query
  <2> QED
    BY <1>a, <1>13, <2>2, <2>3, <2>4 DEF TypeOK, handle_query, clientVars, Workers
<1>14. ASSUME NEW w \in Workers, Forwarded(w) PROVE TypeOK'
  <2>1. Question(w).reply \in Replies \cup {Nothing} /\ Refusal \in Replies
    BY <1>14, Questions, RefusalIsReply DEF Forwarded
  <2>2. reply' \in [Workers -> Replies \cup {Nothing}]
    BY <1>14, <2>1 DEF TypeOK, Forwarded, Returns
  <2> QED
    BY <1>a, <1>14, <2>2 DEF TypeOK, Forwarded, Returns, clientVars, Workers
<1>15. CASE UNCHANGED vars
  BY <1>15 DEF TypeOK, vars
<1> QED
  BY <1>1, <1>2, <1>3, <1>4, <1>5, <1>6, <1>7, <1>8, <1>9, <1>10, <1>11, <1>12,
     <1>13, <1>14, <1>15 DEF Next, Server

-----------------------------------------------------------------------------
(* OwnReplies and AnsweredInFull.                                          *)

\* A step in which no task comes to have a reply and no datagram is sent
\* leaves OwnReplies alone.
LEMMA SameSayings ==
    ASSUME TypeOK, OwnReplies, UNCHANGED <<kind, peer, reply>>,
           replies' \subseteq replies,
           \A w \in Workers : stage'[w] = "answer" => stage[w] = "answer"
    PROVE  OwnReplies'
<1>1. \A w \in Workers : Question(w)' = Question(w)
  BY DEF Question
<1>2. \A c : Spoken(c)' = Spoken(c)
  BY DEF Spoken
<1> QED
  BY <1>1, <1>2 DEF OwnReplies

LEMMA OwnStep == TypeOK /\ OwnReplies /\ [Next]_vars => OwnReplies'
<1> SUFFICES ASSUME TypeOK, OwnReplies, [Next]_vars PROVE OwnReplies'
  OBVIOUS
<1>a. Peers \cap Tasks = {}
  BY TransportAssumption
<1> DEFINE Quiet ==
      /\ UNCHANGED <<kind, peer, reply>> /\ replies' \subseteq replies
      /\ \A w \in Workers : stage'[w] = "answer" => stage[w] = "answer"
<1>q. Quiet => OwnReplies'
  BY SameSayings DEF Quiet
<1>1. ASSUME NEW c \in Peers, SendQuery(c) PROVE Quiet
  BY <1>1 DEF SendQuery
<1>2. ASSUME NEW c \in Peers, Connect(c) PROVE Quiet
  BY <1>2 DEF Connect, TypeOK
<1>3. ASSUME NEW c \in Peers, TakeDatagram(c) PROVE Quiet
  BY <1>3 DEF TakeDatagram, TypeOK
<1>4. ASSUME NEW c \in Peers, WriteQuery(c) PROVE Quiet
  BY <1>4 DEF WriteQuery
<1>5. ASSUME NEW c \in Peers, Break(c) PROVE Quiet
  BY <1>5 DEF Break
<1>6. CASE Lose
  BY <1>6, SameSayings DEF Lose, clientVars
<1>7. ASSUME NEW t \in Tasks, Receive(t) PROVE OwnReplies'
  <2>1. \A w \in Workers : stage'[w] = "answer" =>
          stage[w] = "answer" /\ Question(w)' = Question(w)
    BY <1>a, <1>7 DEF TypeOK, Receive, clientVars, Workers, Question
  <2>2. UNCHANGED <<kind, reply, replies>>
    BY <1>7 DEF Receive, clientVars
  <2>3. \A c : Spoken(c)' = Spoken(c)
    BY <2>2 DEF Spoken
  <2> QED
    BY <2>1, <2>2, <2>3 DEF OwnReplies
<1>8. ASSUME NEW t \in Tasks, SendReply(t) PROVE OwnReplies'
  <2>1. \A w \in Workers : stage'[w] = "answer" =>
          /\ stage[w] = "answer" /\ Question(w)' = Question(w)
          /\ reply'[w] = reply[w]
    BY <1>a, <1>8 DEF TypeOK, SendReply, clientVars, Workers, Question
  <2>2. \A c : Spoken(c)' = Spoken(c)
    BY <1>8 DEF SendReply, clientVars, Spoken
  <2>3. reply[t] \in Spoken(peer[t])
    BY <1>8 DEF OwnReplies, SendReply, Workers, Question, Spoken
  <2>4. \A m \in replies' : \/ m \in replies
                            \/ m[1] = peer[t] /\ m[2] \in Datagrams(reply[t])
    BY <1>8 DEF SendReply
  <2> QED
    BY <2>1, <2>2, <2>3, <2>4 DEF OwnReplies
<1>9. ASSUME NEW c \in Peers, Accept(c) PROVE Quiet
  BY <1>9 DEF Accept, clientVars, TypeOK
<1>10. ASSUME NEW c \in Peers, ReadQuery(c) PROVE Quiet
  BY <1>10 DEF ReadQuery, clientVars, TypeOK
<1>11. ASSUME NEW c \in Peers, ReadFails(c) PROVE Quiet
  BY <1>11 DEF ReadFails, clientVars, TypeOK
<1>12. ASSUME NEW c \in Peers, WriteReply(c) PROVE OwnReplies'
  <2>1. \A w \in Workers : stage'[w] = "answer" =>
          /\ stage[w] = "answer" /\ Question(w)' = Question(w)
          /\ reply'[w] = reply[w]
    BY <1>12 DEF TypeOK, WriteReply, Workers, Question
  <2>2. \A c1 : Spoken(c1)' = Spoken(c1)
    BY <1>12 DEF WriteReply, Spoken
  <2> QED
    BY <1>12, <2>1, <2>2 DEF OwnReplies, WriteReply
<1>13. ASSUME NEW w \in Workers,
              UNCHANGED <<kind, peer, replies>>,
              \/ /\ \E r \in {Question(w).reply, Refusal} : Returns(w, r)
              \/ stage' = [stage EXCEPT ![w] = "forward"] /\ UNCHANGED reply
       PROVE  OwnReplies'
  <2>1. \A v \in Workers : Question(v)' = Question(v)
    BY <1>13 DEF Question
  <2>2. \A c : Spoken(c)' = Spoken(c)
    BY <1>13 DEF Spoken
  <2>3. \A v \in Workers : stage'[v] = "answer" =>
          \/ reply'[v] \in {Question(v).reply, Refusal}
          \/ stage[v] = "answer" /\ reply'[v] = reply[v]
    BY <1>13 DEF TypeOK, Returns
  <2> QED
    BY <1>13, <2>1, <2>2, <2>3 DEF OwnReplies
<1>14. ASSUME NEW w \in Workers, handle_query(w) PROVE OwnReplies'
  BY <1>13, <1>14 DEF handle_query, clientVars
<1>15. ASSUME NEW w \in Workers, Forwarded(w) PROVE OwnReplies'
  BY <1>13, <1>15 DEF Forwarded, clientVars
<1>16. CASE UNCHANGED vars
  BY <1>16, SameSayings DEF vars
<1> QED
  BY <1>q, <1>1, <1>2, <1>3, <1>4, <1>5, <1>6, <1>7, <1>8, <1>9, <1>10, <1>11,
     <1>12, <1>14, <1>15, <1>16 DEF Next, Server

LEMMA AnsweredStep ==
    TypeOK /\ OwnReplies /\ AnsweredInFull /\ [Next]_vars => AnsweredInFull'
<1> SUFFICES ASSUME TypeOK, OwnReplies, AnsweredInFull, [Next]_vars
             PROVE  AnsweredInFull'
  OBVIOUS
<1>a. Peers \cap Tasks = {}
  BY TransportAssumption
<1> DEFINE Settled(c) == /\ got'[c].prefix = got'[c].size /\ ~got'[c].cut
                         /\ \/ got'[c].size = RefusalSize
                            \/ got'[c].size = kind[c].reply.size
                         /\ got'[c].marked => kind[c].reply.marked
<1>k. UNCHANGED kind
  BY DEF Next, Server, SendQuery, Connect, TakeDatagram, WriteQuery, Break, Lose,
     Receive, SendReply, Accept, ReadQuery, ReadFails, WriteReply, handle_query,
     Forwarded, clientVars, vars
<1>s. ASSUME NEW c \in Peers,
             \A d \in Peers : client'[d] = "done" =>
                 \/ client[d] = "done" /\ got'[d] = got[d]
                 \/ d = c /\ Settled(c)
      PROVE  AnsweredInFull'
  BY <1>k, <1>s DEF AnsweredInFull
<1>1. ASSUME NEW c \in Peers, SendQuery(c) PROVE AnsweredInFull'
  BY <1>1, <1>s DEF SendQuery, TypeOK
<1>2. ASSUME NEW c \in Peers, Connect(c) PROVE AnsweredInFull'
  BY <1>2, <1>s DEF Connect, TypeOK
<1>3. ASSUME NEW c \in Peers, TakeDatagram(c) PROVE AnsweredInFull'
  <2>1. PICK p \in {r[2] : r \in {r \in replies : r[1] = c}} :
          CASE client[c] = "asked" /\ p.marked ->
                 client' = [client EXCEPT ![c] = "tcp"] /\ UNCHANGED got
            [] client[c] = "asked" /\ ~p.marked /\ ~p.cut ->
                 /\ client' = [client EXCEPT ![c] = "done"]
                 /\ got' = [got EXCEPT ![c] = p]
            [] OTHER -> UNCHANGED <<client, got>>
    BY <1>3 DEF TakeDatagram
  <2>2. PICK m \in replies : m[1] = c /\ m[2] = p
    OBVIOUS
  <2>3. PICK r \in Spoken(c) : p \in Datagrams(r)
    BY <2>2 DEF OwnReplies
  <2>4. r \in Replies \cup {Nothing} /\ (r = kind[c].reply \/ r = Refusal)
    BY <2>3, RefusalIsReply, TransportAssumption DEF Spoken, TypeOK, Asked
  <2>5. p.prefix = p.size /\ (~p.marked /\ ~p.cut => p.size = r.size)
    BY <2>3, <2>4, DatagramFacts
  <2>6. CASE client[c] = "asked" /\ ~p.marked /\ ~p.cut
    <3>1. client' = [client EXCEPT ![c] = "done"] /\ got' = [got EXCEPT ![c] = p]
      BY <2>1, <2>6
    <3>2. got'[c] = p
      BY <3>1 DEF TypeOK
    <3>3. Settled(c)
      BY <2>4, <2>5, <2>6, <3>2 DEF Refusal
    <3>4. \A d \in Peers : client'[d] = "done" =>
              d = c \/ (client[d] = "done" /\ got'[d] = got[d])
      BY <3>1 DEF TypeOK
    <3> QED
      BY <1>s, <3>3, <3>4
  <2>7. CASE ~(client[c] = "asked" /\ ~p.marked /\ ~p.cut)
    <3>1. /\ UNCHANGED got
          /\ client' = [client EXCEPT ![c] = "tcp"] \/ UNCHANGED client
      BY <2>1, <2>7
    <3> QED
      BY <1>s, <3>1 DEF TypeOK
  <2> QED
    BY <2>6, <2>7
<1>4. ASSUME NEW c \in Peers, WriteQuery(c) PROVE AnsweredInFull'
  BY <1>4, <1>s DEF WriteQuery
<1>5. ASSUME NEW c \in Peers, Break(c) PROVE AnsweredInFull'
  BY <1>5, <1>s DEF Break, TypeOK
<1>6. ASSUME NEW c \in Peers, WriteReply(c) PROVE AnsweredInFull'
  <2>1. CASE client[c] = "tcp" /\ reply[c] # Nothing
    <3>1. client' = [client EXCEPT ![c] = "done"]
          /\ got' = [got EXCEPT ![c] = Frame(reply[c])]
      BY <1>6, <2>1 DEF WriteReply
    <3>2. reply[c] \in Replies
      BY <2>1 DEF TypeOK, Workers
    <3>3. reply[c] = kind[c].reply \/ reply[c] = Refusal
      BY <1>a, <1>6 DEF OwnReplies, WriteReply, Workers, Question
    <3>4. got'[c] = Frame(reply[c])
      BY <3>1 DEF TypeOK
    <3>5. Settled(c)
      BY <3>2, <3>3, <3>4, FrameFacts, RefusalIsReply DEF Refusal
    <3>6. \A d \in Peers : client'[d] = "done" =>
              d = c \/ (client[d] = "done" /\ got'[d] = got[d])
      BY <3>1 DEF TypeOK
    <3> QED
      BY <1>s, <3>5, <3>6
  <2>2. CASE ~(client[c] = "tcp" /\ reply[c] # Nothing)
    BY <1>6, <1>s, <2>2 DEF WriteReply, TypeOK
  <2> QED
    BY <2>1, <2>2
<1>7. CASE UNCHANGED <<client, got>>
  BY <1>k, <1>7 DEF AnsweredInFull
<1>8. \/ \E c \in Peers : \/ SendQuery(c) \/ Connect(c) \/ TakeDatagram(c)
                          \/ WriteQuery(c) \/ Break(c) \/ WriteReply(c)
      \/ UNCHANGED <<client, got>>
  BY DEF Next, Server, Lose, Receive, SendReply, Accept, ReadQuery, ReadFails,
     handle_query, Forwarded, clientVars, vars
<1> QED
  BY <1>1, <1>2, <1>3, <1>4, <1>5, <1>6, <1>7, <1>8

-----------------------------------------------------------------------------
(* NoLeak.                                                                 *)

LEMMA OpenIsFinite == IsFiniteSet(Open) /\ IsFiniteSet(Asking)
<1>1. Open \in SUBSET Peers /\ Asking \in SUBSET Workers
  BY DEF Open, Asking
<1>2. IsFiniteSet(Workers)
  BY TransportAssumption, FS_Union DEF Workers
<1> QED
  BY <1>1, <1>2, TransportAssumption, FS_Subset

LEMMA LeakStep == TypeOK /\ NoLeak /\ [Next]_vars => NoLeak'
<1> SUFFICES ASSUME TypeOK, NoLeak, [Next]_vars PROVE NoLeak'
  OBVIOUS
<1>a. /\ Peers \cap Tasks = {} /\ Peers \subseteq Workers /\ Tasks \subseteq Workers
      /\ MaxFds \in Nat
  BY TransportAssumption DEF Workers
<1>b. /\ Cardinality(Open) \in Nat /\ Cardinality(Asking) \in Nat
      /\ IsFiniteSet(Open) /\ IsFiniteSet(Asking)
  BY OpenIsFinite, FS_CardinalityType
<1>c. fds = Cardinality(Open) + Cardinality(Asking) /\ fds <= MaxFds
  BY DEF NoLeak
<1>s. ASSUME UNCHANGED fds, Open' = Open, Asking' = Asking PROVE NoLeak'
  BY <1>s DEF NoLeak
<1>1. CASE UNCHANGED <<stage, fds>>
  BY <1>1, <1>s DEF Open, Asking
<1>2. ASSUME NEW c \in Peers, Connect(c) PROVE NoLeak'
  <2>1. stage' = [stage EXCEPT ![c] = "queued"] /\ UNCHANGED fds
    BY <1>2 DEF Connect
  <2>2. stage[c] = "none"
    BY <1>2 DEF TypeOK, Connect
  <2>3. c \notin Open /\ c \notin Asking
    BY <2>2 DEF Open, Asking
  <2>4. Open' = Open \ {c}
    BY <1>a, <2>1 DEF Open, TypeOK
  <2>4a. Asking' = Asking \ {c}
    BY <1>a, <2>1 DEF Asking, TypeOK
  <2> QED
    BY <1>s, <2>1, <2>3, <2>4, <2>4a
<1>3. ASSUME NEW c \in Peers, TakeDatagram(c) PROVE NoLeak'
  <2>1. \/ UNCHANGED <<stage, fds>>
        \/ /\ client[c] = "asked" /\ UNCHANGED fds
           /\ stage' = [stage EXCEPT ![c] = "queued"]
    BY <1>3, Zenon DEF TakeDatagram
  <2>2. CASE client[c] = "asked" /\ UNCHANGED fds
             /\ stage' = [stage EXCEPT ![c] = "queued"]
    <3>1. c \notin Open /\ c \notin Asking
      BY <2>2 DEF Open, Asking, TypeOK
    <3>2. Open' = Open \ {c}
      BY <1>a, <2>2 DEF Open, TypeOK
    <3>2a. Asking' = Asking \ {c}
      BY <1>a, <2>2 DEF Asking, TypeOK
    <3> QED
      BY <1>s, <2>2, <3>1, <3>2, <3>2a
  <2> QED
    BY <1>1, <2>1, <2>2
<1>4. ASSUME NEW t \in Tasks, Receive(t) \/ SendReply(t) PROVE NoLeak'
  <2>1. PICK x \in {"query", "idle"} : stage' = [stage EXCEPT ![t] = x] /\ UNCHANGED fds
    BY <1>4 DEF Receive, SendReply
  <2>2. t \notin Open /\ t \notin Asking
    BY <1>a, <1>4 DEF Open, Asking, Receive, SendReply
  <2>3. t \in Workers /\ t \notin Peers
    BY <1>a
  <2>4. Open' = Open \ {t}
    BY <1>a, <2>1, <2>3 DEF Open, TypeOK
  <2>4a. Asking' = Asking \ {t}
    BY <1>a, <2>1, <2>3 DEF Asking, TypeOK
  <2> QED
    BY <1>s, <2>1, <2>2, <2>4, <2>4a
<1>5. ASSUME NEW c \in Peers, Accept(c) PROVE NoLeak'
  <2>1. /\ stage[c] = "queued" /\ fds < MaxFds /\ fds' = fds + 1
        /\ stage' = [stage EXCEPT ![c] = "reading"]
    BY <1>5 DEF Accept
  <2>2. c \notin Open /\ c \notin Asking
    BY <2>1 DEF Open, Asking
  <2>a. Open' = Open \cup {c}
    BY <1>a, <2>1 DEF Open, TypeOK
  <2>b. Asking' = Asking \ {c}
    BY <1>a, <2>1 DEF Asking, TypeOK
  <2>3. Open' = Open \cup {c} /\ Asking' = Asking
    BY <2>2, <2>a, <2>b
  <2>4. Cardinality(Open') = Cardinality(Open) + 1
    BY <1>b, <2>2, <2>3, FS_AddElement
  <2>5. fds' = Cardinality(Open') + Cardinality(Asking') /\ fds' <= MaxFds
    BY <1>a, <1>b, <1>c, <2>1, <2>3, <2>4
  <2> QED
    BY <2>5 DEF NoLeak
<1>6. ASSUME NEW c \in Peers, ReadQuery(c) PROVE NoLeak'
  <2>1. /\ stage[c] = "reading" /\ UNCHANGED fds
        /\ stage' = [stage EXCEPT ![c] = "query"]
    BY <1>6 DEF ReadQuery
  <2>2. c \in Open /\ c \notin Asking
    BY <2>1 DEF Open, Asking
  <2>3. Open' = Open \cup {c}
    BY <1>a, <2>1 DEF Open, TypeOK
  <2>3a. Asking' = Asking \ {c}
    BY <1>a, <2>1 DEF Asking, TypeOK
  <2> QED
    BY <1>s, <2>1, <2>2, <2>3, <2>3a
<1>7. ASSUME NEW c \in Peers, ReadFails(c) \/ WriteReply(c) PROVE NoLeak'
  <2>1. /\ stage[c] \in {"reading", "answer"} /\ fds' = fds - 1
        /\ stage' = [stage EXCEPT ![c] = "closed"]
    BY <1>7 DEF ReadFails, WriteReply
  <2>2. c \in Open /\ c \notin Asking
    BY <2>1 DEF Open, Asking
  <2>a. Open' = Open \ {c}
    BY <1>a, <2>1 DEF Open, TypeOK
  <2>b. Asking' = Asking \ {c}
    BY <1>a, <2>1 DEF Asking, TypeOK
  <2>3. Open' = Open \ {c} /\ Asking' = Asking
    BY <2>2, <2>a, <2>b
  <2>4. Cardinality(Open') = Cardinality(Open) - 1
    BY <1>b, <2>2, <2>3, FS_RemoveElement
  <2>5. fds' = Cardinality(Open') + Cardinality(Asking') /\ fds' <= MaxFds
    BY <1>a, <1>b, <1>c, <2>1, <2>3, <2>4
  <2> QED
    BY <2>5 DEF NoLeak
<1>8. ASSUME NEW w \in Workers, handle_query(w) PROVE NoLeak'
  <2>1. w \notin Asking /\ (w \in Peers => w \in Open) /\ (w \notin Peers => w \notin Open)
    BY <1>8 DEF handle_query, Asking, Open
  <2>2. CASE stage' = [stage EXCEPT ![w] = "answer"] /\ UNCHANGED fds
    <3>1. /\ w \in Peers => Open' = Open \cup {w}
          /\ w \notin Peers => Open' = Open \ {w}
      BY <1>a, <2>2 DEF Open, TypeOK
    <3>1a. Asking' = Asking \ {w}
      BY <1>a, <2>2 DEF Asking, TypeOK
    <3> QED
      BY <1>s, <2>1, <2>2, <3>1, <3>1a
  <2>3. CASE stage' = [stage EXCEPT ![w] = "forward"] /\ fds' = fds + 1 /\ fds # MaxFds
    <3>a. /\ w \in Peers => Open' = Open \cup {w}
          /\ w \notin Peers => Open' = Open \ {w}
      BY <1>a, <2>3 DEF Open, TypeOK
    <3>b. Asking' = Asking \cup {w}
      BY <1>a, <2>3 DEF Asking, TypeOK
    <3>1. Open' = Open /\ Asking' = Asking \cup {w}
      BY <2>1, <3>a, <3>b
    <3>2. Cardinality(Asking') = Cardinality(Asking) + 1
      BY <1>b, <2>1, <3>1, FS_AddElement
    <3>3. fds' = Cardinality(Open') + Cardinality(Asking') /\ fds' <= MaxFds
      BY <1>a, <1>b, <1>c, <2>3, <3>1, <3>2
    <3> QED
      BY <3>3 DEF NoLeak
  <2> QED
    BY <1>8, <2>2, <2>3 DEF handle_query, Returns
<1>9. ASSUME NEW w \in Workers, Forwarded(w) PROVE NoLeak'
  <2>1. /\ stage[w] = "forward" /\ fds' = fds - 1
        /\ stage' = [stage EXCEPT ![w] = "answer"]
    BY <1>9 DEF Forwarded, Returns
  <2>2. w \in Asking /\ (w \in Peers => w \in Open) /\ (w \notin Peers => w \notin Open)
    BY <2>1 DEF Asking, Open
  <2>a. /\ w \in Peers => Open' = Open \cup {w}
        /\ w \notin Peers => Open' = Open \ {w}
    BY <1>a, <2>1 DEF Open, TypeOK
  <2>b. Asking' = Asking \ {w}
    BY <1>a, <2>1 DEF Asking, TypeOK
  <2>3. Open' = Open /\ Asking' = Asking \ {w}
    BY <2>2, <2>a, <2>b
  <2>4. Cardinality(Asking') = Cardinality(Asking) - 1
    BY <1>b, <2>2, <2>3, FS_RemoveElement
  <2>5. fds' = Cardinality(Open') + Cardinality(Asking') /\ fds' <= MaxFds
    BY <1>a, <1>b, <1>c, <2>1, <2>3, <2>4
  <2> QED
    BY <2>5 DEF NoLeak
<1>10. \/ \E c \in Peers : \/ Connect(c) \/ TakeDatagram(c) \/ Accept(c)
                           \/ ReadQuery(c) \/ ReadFails(c) \/ WriteReply(c)
       \/ \E t \in Tasks : Receive(t) \/ SendReply(t)
       \/ \E w \in Workers : handle_query(w) \/ Forwarded(w)
       \/ UNCHANGED <<stage, fds>>
  BY DEF Next, Server, SendQuery, WriteQuery, Break, Lose, vars
<1> QED
  BY <1>1, <1>2, <1>3, <1>4, <1>5, <1>6, <1>7, <1>8, <1>9, <1>10

-----------------------------------------------------------------------------
(* OneReplyEach.                                                           *)

LEMMA OneDatagram ==
    ASSUME NEW r
    PROVE  \E p : Datagrams(r) \subseteq {p}
<1>1. \/ Datagrams(r) = {}
      \/ \E p : Datagrams(r) = {p}
  BY Zenon DEF Datagrams
<1> QED
  BY <1>1

LEMMA CountsAreNat ==
    ASSUME NEW c, IsFiniteSet(replies)
    PROVE  /\ IsFiniteSet(Working(c)) /\ IsFiniteSet(OnTheWay(c))
           /\ Cardinality(Working(c)) \in Nat /\ Cardinality(OnTheWay(c)) \in Nat
<1>1. Working(c) \in SUBSET Tasks /\ OnTheWay(c) \in SUBSET replies
  BY DEF Working, OnTheWay
<1>2. IsFiniteSet(Working(c)) /\ IsFiniteSet(OnTheWay(c))
  BY <1>1, TransportAssumption, FS_Subset
<1> QED
  BY <1>2, FS_CardinalityType

\* Taking a reply out, or a query, counts less for everyone.
LEMMA FewerAreOwed ==
    ASSUME TypeOK, Owed, UNCHANGED <<peer, sends>>,
           replies' \subseteq replies, queries' \subseteq queries,
           \A t \in Tasks : stage'[t] = "idle" => stage[t] = "idle"
    PROVE  Owed'
<1>1. IsFiniteSet(replies) /\ IsFiniteSet(replies')
  BY FS_Subset DEF Owed
<1>2. ASSUME NEW c \in Peers PROVE (Count(c) <= sends[c])'
  <2>1. Working(c)' = Working(c) /\ OnTheWay(c)' \in SUBSET OnTheWay(c)
    BY DEF Working, OnTheWay
  <2>2. /\ IsFiniteSet(OnTheWay(c)) /\ Cardinality(OnTheWay(c)) \in Nat
        /\ Cardinality(Working(c)) \in Nat
    BY <1>1, CountsAreNat
  <2>3. Cardinality(OnTheWay(c)') <= Cardinality(OnTheWay(c))
    BY <2>1, <2>2, FS_Subset
  <2>4. Cardinality(OnTheWay(c)') \in Nat
    BY <2>1, <2>2, FS_Subset, FS_CardinalityType
  <2>5. Count(c) <= sends[c] /\ sends[c] \in Nat
    BY TransportAssumption DEF Owed, TypeOK
  <2> QED
    BY <2>1, <2>2, <2>3, <2>4, <2>5 DEF Count
<1> QED
  BY <1>1, <1>2 DEF Owed

LEMMA OwedStep == TypeOK /\ Owed /\ [Next]_vars => Owed'
<1> SUFFICES ASSUME TypeOK, Owed, [Next]_vars PROVE Owed'
  OBVIOUS
<1>a. /\ Peers \cap Tasks = {} /\ Nothing \notin Peers
      /\ IsFiniteSet(replies)
  BY TransportAssumption DEF Owed
<1>b. \A c \in Peers : /\ Cardinality(Working(c)) \in Nat /\ IsFiniteSet(Working(c))
                       /\ Cardinality(OnTheWay(c)) \in Nat /\ IsFiniteSet(OnTheWay(c))
                       /\ Count(c) <= sends[c] /\ sends[c] \in Nat
  BY <1>a, CountsAreNat DEF Owed, TypeOK
<1>1. ASSUME NEW c \in Peers, SendQuery(c) PROVE Owed'
  <2>1. ASSUME NEW d \in Peers PROVE (Count(d) <= sends[d])'
    <3>1. Working(d)' = Working(d) /\ OnTheWay(d)' = OnTheWay(d)
      BY <1>1 DEF SendQuery, Working, OnTheWay
    <3>2. /\ sends'[d] = IF d = c THEN sends[d] + 1 ELSE sends[d]
          /\ d # c => (d \in queries' <=> d \in queries)
      BY <1>1 DEF SendQuery, TypeOK
    <3> QED
      BY <1>b, <3>1, <3>2 DEF Count
  <2> QED
    BY <1>1, <2>1 DEF SendQuery, Owed
<1>2. ASSUME NEW t \in Tasks, Receive(t) PROVE Owed'
  <2>1. PICK c \in queries : /\ queries' = queries \ {c}
                             /\ peer' = [peer EXCEPT ![t] = c]
    BY <1>2 DEF Receive
  <2>2. peer[t] = Nothing /\ UNCHANGED <<sends, replies>>
        /\ stage' = [stage EXCEPT ![t] = "query"]
    BY <1>2 DEF Receive, Owed, clientVars
  <2>3. ASSUME NEW d \in Peers, d # c PROVE (Count(d) <= sends[d])'
    <3>1. Working(d)' = Working(d) /\ OnTheWay(d)' = OnTheWay(d)
      BY <1>a, <2>1, <2>2, <2>3 DEF Working, OnTheWay, TypeOK
    <3> QED
      BY <1>b, <2>1, <2>2, <2>3, <3>1 DEF Count
  <2>4. ASSUME NEW d \in Peers, d = c PROVE (Count(d) <= sends[d])'
    <3>1. Working(d)' = Working(d) \cup {t} /\ OnTheWay(d)' = OnTheWay(d)
      BY <1>a, <2>1, <2>2, <2>4 DEF Working, OnTheWay, TypeOK
    <3>2. t \notin Working(d)
      BY <1>a, <2>2 DEF Working
    <3>3. Cardinality(Working(d)') = Cardinality(Working(d)) + 1
      BY <1>b, <3>1, <3>2, FS_AddElement
    <3> QED
      BY <1>b, <2>1, <2>2, <2>4, <3>1, <3>3 DEF Count
  <2>5. \A u \in Tasks : stage'[u] = "idle" => peer'[u] = Nothing
    BY <1>a, <2>1, <2>2 DEF Owed, TypeOK, Workers
  <2> QED
    BY <1>a, <2>2, <2>3, <2>4, <2>5 DEF Owed
<1>3. ASSUME NEW t \in Tasks, SendReply(t) PROVE Owed'
  <2> DEFINE c == peer[t]
  <2>1. /\ c \in Peers /\ UNCHANGED <<sends, queries>>
        /\ stage' = [stage EXCEPT ![t] = "idle"]
        /\ peer' = [peer EXCEPT ![t] = Nothing]
    BY <1>3 DEF SendReply, clientVars, TypeOK
  <2>2. PICK p : Datagrams(reply[t]) \subseteq {p}
    BY OneDatagram
  <2>3. replies' \subseteq replies \cup {<<c, p>>}
    BY <1>3, <2>2 DEF SendReply
  <2>4. IsFiniteSet(replies')
    BY <1>a, <2>3, FS_AddElement, FS_Subset
  <2>5. \A u \in Tasks : stage'[u] = "idle" => peer'[u] = Nothing
    BY <1>a, <2>1 DEF Owed, TypeOK, Workers
  <2> HIDE DEF c
  <2>6. ASSUME NEW d \in Peers, d # c PROVE (Count(d) <= sends[d])'
    <3>1. Working(d)' \subseteq Working(d) /\ OnTheWay(d)' \subseteq OnTheWay(d)
      BY <1>a, <2>1, <2>3, <2>6 DEF Working, OnTheWay, TypeOK
    <3>2. /\ Cardinality(Working(d)') <= Cardinality(Working(d))
          /\ Cardinality(OnTheWay(d)') <= Cardinality(OnTheWay(d))
          /\ IsFiniteSet(Working(d)') /\ IsFiniteSet(OnTheWay(d)')
      BY <1>b, <3>1, FS_Subset
    <3>3. Cardinality(Working(d)') \in Nat /\ Cardinality(OnTheWay(d)') \in Nat
      BY <3>2, FS_CardinalityType
    <3> QED
      BY <1>b, <2>1, <3>2, <3>3 DEF Count
  <2>7. ASSUME NEW d \in Peers, d = c PROVE (Count(d) <= sends[d])'
    <3>1. Working(d)' = Working(d) \ {t} /\ t \in Working(d)
      BY <1>a, <2>1, <2>7 DEF Working, TypeOK, c
    <3>2. OnTheWay(d)' \subseteq OnTheWay(d) \cup {<<c, p>>}
      BY <2>3 DEF OnTheWay
    <3>3. Cardinality(Working(d)') = Cardinality(Working(d)) - 1
      BY <1>b, <3>1, FS_RemoveElement
    <3> DEFINE more == OnTheWay(d) \cup {<<c, p>>}
    <3>4. /\ IsFiniteSet(more) /\ Cardinality(more) \in Nat
          /\ Cardinality(more) <= Cardinality(OnTheWay(d)) + 1
      <4>1. /\ IsFiniteSet(more)
            /\ \/ Cardinality(more) = Cardinality(OnTheWay(d))
               \/ Cardinality(more) = Cardinality(OnTheWay(d)) + 1
        BY <1>b, FS_AddElement
      <4> QED
        BY <1>b, <4>1
    <3> HIDE DEF more
    <3>5. /\ IsFiniteSet(OnTheWay(d)')
          /\ Cardinality(OnTheWay(d)') <= Cardinality(more)
      BY <3>2, <3>4, FS_Subset DEF more
    <3>6. Cardinality(OnTheWay(d)') \in Nat
      BY <3>5, FS_CardinalityType
    <3> QED
      BY <1>b, <2>1, <3>3, <3>4, <3>5, <3>6 DEF Count
  <2> QED
    BY <2>4, <2>5, <2>6, <2>7 DEF Owed
<1>4. ASSUME UNCHANGED <<peer, sends>>,
             replies' \subseteq replies, queries' \subseteq queries,
             \/ UNCHANGED stage
             \/ \E c \in Peers : \E x : stage' = [stage EXCEPT ![c] = x]
             \/ \E w \in Workers : \E x \in {"forward", "answer"} :
                   stage' = [stage EXCEPT ![w] = x]
      PROVE  Owed'
  <2>1. \A t \in Tasks : stage'[t] = "idle" => stage[t] = "idle"
    BY <1>a, <1>4 DEF TypeOK, Workers
  <2> QED
    BY <1>4, <2>1, FewerAreOwed
<1>5. ASSUME NEW c \in Peers,
             \/ Connect(c) \/ TakeDatagram(c) \/ WriteQuery(c) \/ Break(c)
             \/ Accept(c) \/ ReadQuery(c) \/ ReadFails(c) \/ WriteReply(c)
      PROVE  Owed'
  <2>1. CASE TakeDatagram(c)
    <3>1. /\ UNCHANGED <<peer, sends, queries>> /\ replies' \subseteq replies
          /\ UNCHANGED stage \/ stage' = [stage EXCEPT ![c] = "queued"]
      BY <2>1, Zenon DEF TakeDatagram
    <3> QED
      BY <1>4, <3>1
  <2> QED
    BY <1>4, <1>5, <2>1 DEF Connect, WriteQuery, Break, Accept, ReadQuery,
       ReadFails, WriteReply, clientVars
<1>6. CASE Lose
  BY <1>4, <1>6 DEF Lose, clientVars
<1>7. ASSUME NEW w \in Workers, handle_query(w) \/ Forwarded(w) PROVE Owed'
  BY <1>4, <1>7 DEF handle_query, Forwarded, Returns, clientVars
<1>8. CASE UNCHANGED vars
  BY <1>4, <1>8 DEF vars
<1> QED
  BY <1>1, <1>2, <1>3, <1>5, <1>6, <1>7, <1>8 DEF Next, Server

-----------------------------------------------------------------------------
(* The theorems.                                                           *)

\* What is on the way fits because it was made by the truncation.
LEMMA FitsByMaking == TypeOK /\ OwnReplies => RepliesFit
<1> SUFFICES ASSUME TypeOK, OwnReplies, NEW m \in replies
             PROVE  m[2].size <= UdpLimit
  BY DEF RepliesFit
<1>1. PICK r \in Spoken(m[1]) : m[2] \in Datagrams(r)
  BY DEF OwnReplies
<1>2. m[1] \in Peers
  BY DEF TypeOK
<1>3. r \in Replies \cup {Nothing}
  BY <1>1, <1>2, RefusalIsReply, TransportAssumption DEF Spoken, TypeOK, Asked
<1> QED
  BY <1>1, <1>3, DatagramFacts

LEMMA Invariant == Spec => []IInv
<1>1. IInv /\ [Next]_vars => IInv'
  BY TypeStep, OwnStep, OwedStep, LeakStep, AnsweredStep DEF IInv
<1> QED
  BY InitHolds, <1>1, PTL DEF Spec

\* Types, and where tasks and clients can be, in every execution.
THEOREM TransportTypes == Spec => []TypeOK
<1>1. IInv => TypeOK
  BY DEF IInv
<1> QED
  BY Invariant, <1>1, PTL

\* No way a request can end keeps its descriptors, and there are never more
\* than the limit, for any number of clients and tasks.
THEOREM DescriptorsReturned == Spec => []NoLeak
<1>1. IInv => NoLeak
  BY DEF IInv
<1> QED
  BY Invariant, <1>1, PTL

\* Whatever handle_query returns, no datagram is over the limit.
THEOREM DatagramsFit == Spec => []RepliesFit
<1>1. IInv => RepliesFit
  BY FitsByMaking DEF IInv
<1> QED
  BY Invariant, <1>1, PTL

\* A client that sends a query again gets no more replies than it sent
\* queries, for any number of clients, tasks and replies.
THEOREM RepliesAreOwed == Spec => []OneReplyEach
<1>1. IInv => OneReplyEach
  BY DEF IInv, Owed, Count, OneReplyEach
<1> QED
  BY Invariant, <1>1, PTL

\* Whatever handle_query returns, a client that settles on a packet has the
\* whole of its own answer or of the refusal.
THEOREM AnswersAreWhole == Spec => []AnsweredInFull
<1>1. IInv => AnsweredInFull
  BY DEF IInv
<1> QED
  BY Invariant, <1>1, PTL
=============================================================================
