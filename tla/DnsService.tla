----------------------------- MODULE DnsService -----------------------------
(***************************************************************************)
(* What a client of the server is promised, without the tasks, the cache   *)
(* and the upstream servers: a request is decided against the mock records *)
(* as they are at one instant between its arrival and its answer.  If any  *)
(* match its question they alone make the answer; only if none does may    *)
(* the answer come from elsewhere, and then it is still an answer to this  *)
(* request: its id and its question, spelled as the client spelled it.     *)
(* Silence (NoAnswer) is what a client gets that sends garbage, that asks  *)
(* for a record that cannot be encoded, or, at worst, from elsewhere.      *)
(***************************************************************************)
CONSTANTS Tasks,         \* the requests in progress
          Requests, Idle,
          Garbage,       \* a request that does not parse
          NoQuestion,    \* the question of a message without questions
          SupportedTypes,
          NoAnswer

VARIABLES zone,          \* the mock records: [id, domain, type, data]
          phase, request, answer

vars == <<zone, phase, request, answer>>

Init == /\ zone = {}
        /\ phase = [t \in Tasks |-> "idle"]
        /\ request = [t \in Tasks |-> Idle]
        /\ answer = [t \in Tasks |-> NoAnswer]

Others(t) == \A u \in Tasks \ {t} : /\ phase'[u] = phase[u]
                                    /\ request'[u] = request[u]
                                    /\ answer'[u] = answer[u]

\* t moves from one phase to the next, on behalf of the same request.
Moves(t, from, to) ==
    /\ phase[t] = from /\ phase'[t] = to
    /\ request'[t] = request[t]
    /\ Others(t) /\ UNCHANGED zone

Ask(t) == /\ phase[t] = "idle" /\ phase'[t] = "asked"
          /\ request'[t] \in Requests \cup {Garbage}
          /\ answer'[t] = NoAnswer
          /\ Others(t) /\ UNCHANGED zone

HasQuestion(t) == request[t] # Garbage /\ request[t].question # NoQuestion

Matching(t) == {r \in zone : /\ r.domain = request[t].question[1].domain
                             /\ r.type = request[t].question[2]}

\* The answer is to t's request, with this code and these records' ids.
Answers(t, rcode, ids) ==
    answer'[t] = [id |-> request[t].id, question |-> request[t].question,
                  rcode |-> rcode, records |-> ids]

Malformed(t) == /\ Moves(t, "asked", "answered")
                /\ ~HasQuestion(t)
                /\ IF request[t] = Garbage THEN answer'[t] = NoAnswer
                   ELSE Answers(t, "FormErr", {})

\* Every matching record is in the answer, save those whose data cannot be
\* read; one that can be read but not encoded costs the client its answer.
Local(t) ==
    LET usable == {r \in Matching(t) : r.data # "unbuildable"}
    IN  /\ Moves(t, "asked", "answered")
        /\ HasQuestion(t)
        /\ Matching(t) # {}
        /\ IF \E r \in usable : r.data = "unencodable" THEN answer'[t] = NoAnswer
           ELSE Answers(t, "NoError", {r.id : r \in usable})

Refusal(t) == Answers(t, IF request[t].question[2] \in SupportedTypes
                         THEN "NXDomain" ELSE "NotImp", {})

\* Without upstream servers the refusal comes at once.
NotLocal(t) == /\ phase[t] = "asked" /\ HasQuestion(t)
               /\ Matching(t) = {}
               /\ \/ Moves(t, "asked", "elsewhere") /\ answer'[t] = NoAnswer
                  \/ Moves(t, "asked", "answered") /\ Refusal(t)

FromElsewhere(t) ==
    /\ Moves(t, "elsewhere", "answered")
    /\ \/ answer'[t] = NoAnswer
       \/ Answers(t, "Relayed", {})
       \/ Refusal(t)

Finish(t) == /\ phase[t] = "answered" /\ phase'[t] = "idle"
             /\ request'[t] = Idle /\ answer'[t] = NoAnswer
             /\ Others(t) /\ UNCHANGED zone

\* The management API changes the records at any time.
Manage == UNCHANGED <<phase, request, answer>>

Next == \/ \E t \in Tasks : \/ Ask(t) \/ Malformed(t) \/ Local(t)
                            \/ NotLocal(t) \/ FromElsewhere(t) \/ Finish(t)
        \/ Manage

Spec == Init /\ [][Next]_vars

=============================================================================
