------------------------------ MODULE Resolver ------------------------------
(***************************************************************************)
(* The server at work: a task for each request (handle_query and Fallback, *)
(* src/src/dns.rs), all of them on one record store and one cache, while   *)
(* the management API (src/src/api.rs) changes the records and flushes the *)
(* cache.  A task runs from one lock to the next or to an await without    *)
(* being seen, so its steps are: look up the store, ask the cache, send to *)
(* an upstream server, wait for it, fill the cache, reply.                 *)
(***************************************************************************)
EXTENDS DnsNames, Integers

CONSTANTS Tasks,
          MessageIds,    \* transaction ids
          SupportedTypes, OtherTypes,
          Queries,       \* bound: the questions and ids clients send
          RecordIds,
          NewRecords,    \* bound: the requests that create a record
          ApiNames,      \* bound: the name parameters of deletes and flushes
          Bodies,        \* what upstream answers: [parses, ttls, short]
          NumServers,    \* bound: the longest FALLBACK_DNS
          Timeout,       \* FALLBACK_TIMEOUT
          MaxTtl, NegativeTtl,
          MaxTime,       \* bound: the clock stops here
          NoEntry, NoResponse, NoRecord, None,
          Idle, Garbage, NoQuestion, NoAnswer

QueryTypes == SupportedTypes \cup OtherTypes
Questions == WireNames \X QueryTypes
Requests == [id : MessageIds, question : Questions \cup {NoQuestion}]

\* An upstream's response: a copy of the query's id and question, what the
\* cache can read of it, whether it is too short to hold an id, and (history)
\* when the query it answers was sent.
Responses == {r \in [id : MessageIds, question : Questions, parses : BOOLEAN,
                     ttls : SUBSET Nat, short : BOOLEAN, asked_at : Nat] :
                 ~r.parses => r.ttls = {}}

Times == 0..MaxTime

\* A record's data: it makes an answer; build_record refuses it; or it makes
\* an answer that to_vec refuses, such as a TXT string over 255 bytes.
Data == {"plain", "unbuildable", "unencodable"}

ASSUME ResolverAssumption ==
    /\ SupportedTypes \cap OtherTypes = {}
    /\ Queries \subseteq Requests
    /\ NewRecords \subseteq [name : Spellings, type : SupportedTypes, data : Data]
    /\ ApiNames \subseteq Spellings \cup {None}
    /\ MaxTtl \in Nat /\ NegativeTtl \in Nat
    /\ NumServers \in Nat /\ Timeout \in Nat \ {0} /\ MaxTime \in Nat
    /\ \A b \in Bodies : /\ b.parses \in BOOLEAN /\ b.short \in BOOLEAN
                         /\ b.ttls \in SUBSET Nat
                         /\ ~b.parses => b.ttls = {}
                         /\ b.short => ~b.parses
    /\ Garbage \notin Requests /\ Idle \notin Requests /\ Idle # Garbage
    /\ NoQuestion \notin Questions

VARIABLES records, issued,   \* RecordStore
          entries, now,      \* DnsCache
          servers,           \* how many upstream servers are configured
          pc,                \* where each task is
          request,           \* the message it works on
          server, deadline,  \* the upstream it is at, and when that times out
          socket,            \* what has come to the socket of that attempt
          answer,            \* what handle_query returns
          arrived,           \* history: when the request came
          flushed            \* history: when entries of a name were last flushed

Store == INSTANCE RecordStore WITH Ids <- RecordIds, RecordTypes <- SupportedTypes
Cache == INSTANCE DnsCache WITH Types <- QueryTypes

ASSUME SentinelAssumption ==
    /\ NoResponse \notin Responses
    /\ NoEntry \notin Cache!CacheEntry
    /\ NoRecord \notin Store!Record

taskVars == <<pc, request, server, deadline, socket, answer, arrived>>
storeVars == <<records, issued>>
vars == <<records, issued, entries, now, servers, pc, request, server, deadline,
          socket, answer, arrived, flushed>>

Init == /\ records = [id \in RecordIds |-> NoRecord]
        /\ issued = {}
        /\ entries = Cache!NoEntries
        /\ now = 0
        /\ servers \in 0..NumServers
        /\ pc = [t \in Tasks |-> "idle"]
        /\ request = [t \in Tasks |-> Idle]
        /\ server = [t \in Tasks |-> 0]
        /\ deadline = [t \in Tasks |-> 0]
        /\ socket = [t \in Tasks |-> NoResponse]
        /\ answer = [t \in Tasks |-> NoAnswer]
        /\ arrived = [t \in Tasks |-> 0]
        /\ flushed = [n \in WireNames |-> 0]

-----------------------------------------------------------------------------
(* Answers.  Every message but a relayed one is built for the request.     *)

Message(req, rcode, ids) ==
    [id |-> req.id, question |-> req.question, rcode |-> rcode, records |-> ids]

\* Mutant: a response goes to the client under the id it was cached with.
patch_response_id_kept(response, id) ==
    IF response.short THEN NoAnswer
    ELSE [id |-> response.id, question |-> response.question,
          rcode |-> "Relayed", records |-> {}]

\* The raw upstream response with the first two bytes overwritten.
patch_response_id(response, id) ==
    IF response.short THEN NoAnswer
    ELSE [id |-> id, question |-> response.question, rcode |-> "Relayed",
          records |-> {}]

\* A record that cannot be built is skipped; one that is built but cannot be
\* encoded makes to_vec fail and there is no answer at all.
LocalAnswer(req, rs) ==
    LET built == {r \in rs : r.data # "unbuildable"}
    IN  IF \E r \in built : r.data = "unencodable" THEN NoAnswer
        ELSE Message(req, "NoError", {r.id : r \in built})

Refusal(req) == Message(req, IF req.question[2] \in SupportedTypes
                             THEN "NXDomain" ELSE "NotImp", {})

Replies(t, a) == /\ pc' = [pc EXCEPT ![t] = "reply"]
                 /\ answer' = [answer EXCEPT ![t] = a]

Goes(t, where) == pc' = [pc EXCEPT ![t] = where] /\ UNCHANGED answer

-----------------------------------------------------------------------------
(* The steps of a task.                                                    *)

\* A datagram or a connection gives rise to a task.  (Bound: late enough
\* before the clock stops for every upstream to time out.)
Arrive(t, req) ==
    /\ pc[t] = "idle"
    /\ now + servers * Timeout <= MaxTime
    /\ Goes(t, "lookup")
    /\ request' = [request EXCEPT ![t] = req]
    /\ arrived' = [arrived EXCEPT ![t] = now]
    /\ UNCHANGED <<storeVars, entries, now, servers, server, deadline, socket,
                   flushed>>

HasQuestion(t) == request[t] # Garbage /\ request[t].question # NoQuestion

Reject(t) ==
    /\ pc[t] = "lookup" /\ ~HasQuestion(t)
    /\ Replies(t, IF request[t] = Garbage THEN NoAnswer
                  ELSE Message(request[t], "FormErr", {}))
    /\ UNCHANGED <<storeVars, entries, now, servers, request, server, deadline,
                   socket, arrived, flushed>>

\* The store is asked only about the types it has.
LocalRecords(t) ==
    LET name == request[t].question[1]
        type == request[t].question[2]
    IN  IF type \in SupportedTypes THEN Store!lookup(name, type) ELSE {}

Lookup(t) ==
    /\ pc[t] = "lookup" /\ HasQuestion(t)
    /\ IF LocalRecords(t) # {} THEN Replies(t, LocalAnswer(request[t], LocalRecords(t)))
       ELSE IF servers > 0 THEN Goes(t, "cache")
       ELSE Replies(t, Refusal(request[t]))
    /\ UNCHANGED <<storeVars, entries, now, servers, request, server, deadline,
                   socket, arrived, flushed>>

\* Mutant: the cache is keyed by the canonical name.
Key_canonical(t) == <<normalize_name(request[t].question[1]),
                      request[t].question[2]>>

\* The cache is keyed by the name as the client spelled it.
Key(t) == request[t].question

\* Mutant: the list of servers is read from its second entry on.
AskCache_skipping(t) ==
    /\ pc[t] = "cache"
    /\ Cache!get(Key(t))
    /\ IF Cache!Fresh(Key(t))
       THEN /\ Replies(t, patch_response_id(Cache!Found(Key(t)), request[t].id))
            /\ UNCHANGED server
       ELSE Goes(t, "send") /\ server' = [server EXCEPT ![t] = 2]
    /\ UNCHANGED <<storeVars, now, servers, request, deadline, socket, arrived,
                   flushed>>

AskCache(t) ==
    /\ pc[t] = "cache"
    /\ Cache!get(Key(t))
    /\ IF Cache!Fresh(Key(t))
       THEN /\ Replies(t, patch_response_id(Cache!Found(Key(t)), request[t].id))
            /\ UNCHANGED server
       ELSE Goes(t, "send") /\ server' = [server EXCEPT ![t] = 1]
    /\ UNCHANGED <<storeVars, now, servers, request, deadline, socket, arrived,
                   flushed>>

\* forward_to binds a socket of its own, so nothing waits on it yet.
Send(t) ==
    /\ pc[t] = "send"
    /\ Goes(t, "await")
    /\ deadline' = [deadline EXCEPT ![t] = now + Timeout]
    /\ UNCHANGED <<storeVars, entries, now, servers, request, server, socket,
                   arrived, flushed>>

\* Mutant: one server more than there are.
TryNext_past(t) ==
    /\ IF server[t] <= servers
       THEN Goes(t, "send") /\ server' = [server EXCEPT ![t] = @ + 1]
       ELSE Replies(t, Refusal(request[t])) /\ UNCHANGED server
    /\ socket' = [socket EXCEPT ![t] = NoResponse]
    /\ UNCHANGED <<storeVars, entries, now, servers, request, deadline, arrived,
                   flushed>>

\* Mutant: the same server again instead of the next.
TryNext_same(t) ==
    /\ IF server[t] < servers THEN Goes(t, "send")
       ELSE Replies(t, Refusal(request[t]))
    /\ socket' = [socket EXCEPT ![t] = NoResponse]
    /\ UNCHANGED <<storeVars, entries, now, servers, request, server, deadline,
                   arrived, flushed>>

\* This attempt gave nothing: the next server, or the refusal after the last.
TryNext(t) ==
    /\ IF server[t] < servers
       THEN Goes(t, "send") /\ server' = [server EXCEPT ![t] = @ + 1]
       ELSE Replies(t, Refusal(request[t])) /\ UNCHANGED server
    /\ socket' = [socket EXCEPT ![t] = NoResponse]
    /\ UNCHANGED <<storeVars, entries, now, servers, request, deadline, arrived,
                   flushed>>

\* bind, connect or send fails, or recv reports that the port is closed.
AttemptFails(t) == pc[t] \in {"send", "await"} /\ TryNext(t)

\* Mutant: recv without a timeout.
TimesOut_never(t) == pc[t] = "await" /\ deadline[t] < 0 /\ TryNext(t)

\* The timer can win although the response is already there.
TimesOut(t) == pc[t] = "await" /\ now >= deadline[t] /\ TryNext(t)

Receive(t) ==
    /\ pc[t] = "await" /\ socket[t] # NoResponse
    /\ Goes(t, "put")
    /\ UNCHANGED <<storeVars, entries, now, servers, request, server, deadline,
                   socket, arrived, flushed>>

FillCache(t) ==
    /\ pc[t] = "put"
    /\ Cache!put(Key(t), socket[t])
    /\ Replies(t, patch_response_id(socket[t], request[t].id))
    /\ UNCHANGED <<storeVars, now, servers, request, server, deadline, socket,
                   arrived, flushed>>

\* The reply, if there is one, is sent and the task ends.
Reply(t) ==
    /\ pc[t] = "reply"
    /\ pc' = [pc EXCEPT ![t] = "idle"]
    /\ request' = [request EXCEPT ![t] = Idle]
    /\ server' = [server EXCEPT ![t] = 0]
    /\ deadline' = [deadline EXCEPT ![t] = 0]
    /\ socket' = [socket EXCEPT ![t] = NoResponse]
    /\ answer' = [answer EXCEPT ![t] = NoAnswer]
    /\ arrived' = [arrived EXCEPT ![t] = 0]
    /\ UNCHANGED <<storeVars, entries, now, servers, flushed>>

Step(t) == \/ Reject(t) \/ Lookup(t) \/ AskCache(t) \/ Send(t)
           \/ TimesOut(t) \/ Receive(t) \/ FillCache(t) \/ Reply(t)

-----------------------------------------------------------------------------
(* The environment: upstream servers, the management API, the clock.       *)

\* The server that was asked answers the attempt's own socket; a second
\* answer, or one after the socket is closed, is never read.
UpstreamReplies(t, body) ==
    /\ pc[t] = "await" /\ socket[t] = NoResponse
    /\ socket' = [socket EXCEPT ![t] =
          [id |-> request[t].id, question |-> request[t].question,
           parses |-> body.parses, ttls |-> body.ttls, short |-> body.short,
           asked_at |-> deadline[t] - Timeout]]
    /\ UNCHANGED <<storeVars, entries, now, servers, pc, request, server,
                   deadline, answer, arrived, flushed>>

create_record(req) ==
    /\ \E id \in RecordIds : Store!add(id, req)
    /\ UNCHANGED <<entries, now, servers, taskVars, flushed>>

delete_record(id) ==
    /\ Store!delete(id)
    /\ UNCHANGED <<entries, now, servers, taskVars, flushed>>

delete_records(name, type) ==
    /\ IF name = None /\ type = None THEN Store!delete_all
       ELSE Store!delete_filtered(name, type)
    /\ UNCHANGED <<entries, now, servers, taskVars, flushed>>

flush_cache(name) ==
    /\ IF name = None
       THEN Cache!flush /\ flushed' = [n \in WireNames |-> now]
       ELSE /\ Cache!flush_domain(name)
            /\ flushed' = [flushed EXCEPT ![normalize_name(name)] = now]
    /\ UNCHANGED <<storeVars, now, servers, taskVars>>

\* Computing takes no time on a clock of seconds: the clock moves when every
\* task waits for an upstream server, and for none longer than the timeout.
Tick ==
    /\ now < MaxTime
    /\ \A t \in Tasks : pc[t] = "idle" \/ (pc[t] = "await" /\ now < deadline[t])
    /\ now' = now + 1
    /\ UNCHANGED <<storeVars, entries, servers, taskVars, flushed>>

Manage == \/ \E req \in NewRecords : create_record(req)
          \/ \E id \in RecordIds : delete_record(id)
          \/ \E name \in ApiNames, type \in SupportedTypes \cup {None} :
                delete_records(name, type)
          \/ \E name \in ApiNames : flush_cache(name)

Next == \/ \E t \in Tasks, req \in Queries \cup {Garbage} : Arrive(t, req)
        \/ \E t \in Tasks : Step(t) \/ AttemptFails(t)
        \/ \E t \in Tasks, body \in Bodies : UpstreamReplies(t, body)
        \/ Manage
        \/ Tick

Spec == Init /\ [][Next]_vars

\* The runtime polls every task that can move, and time goes on however many
\* requests come in.  Upstream servers and their errors are not fair.
Fairness == (\A t \in Tasks : WF_vars(Step(t))) /\ SF_vars(Tick)

FairSpec == Spec /\ Fairness
-----------------------------------------------------------------------------
\* The program counters, and what each task holds where it is: an attempt in
\* progress has a server that exists and a deadline at most Timeout away, a
\* response is in the socket when it is about to be cached.
TypeOK ==
    /\ now \in Times
    /\ servers \in 0..NumServers
    /\ records \in [RecordIds -> Store!Record \cup {NoRecord}]
    /\ issued \subseteq RecordIds
    /\ entries \in [Cache!Keys -> Cache!CacheEntry \cup {NoEntry}]
    /\ pc \in [Tasks -> {"idle", "lookup", "cache", "send", "await", "put", "reply"}]
    /\ request \in [Tasks -> Requests \cup {Idle, Garbage}]
    /\ server \in [Tasks -> 0..NumServers]
    /\ deadline \in [Tasks -> Times]
    /\ socket \in [Tasks -> Responses \cup {NoResponse}]
    /\ arrived \in [Tasks -> Times]
    /\ flushed \in [WireNames -> Times]
    /\ \A t \in Tasks :
          /\ pc[t] \in {"cache", "send", "await", "put"} => HasQuestion(t)
          /\ pc[t] \in {"send", "await", "put"} => server[t] \in 1..servers
          /\ pc[t] \in {"await", "put"} => deadline[t] \in now..(now + Timeout)
          /\ pc[t] = "put" => socket[t] # NoResponse

\* A cached response answers the very question of its key, capitals and all,
\* so a client that varies the capitals to recognise its answers (the reply
\* must repeat the question as sent) is served from the cache as well as from
\* upstream (dns.rs, handle_query; cache.rs, get and put).
HoldsOwnAnswers ==
    \A k \in Cache!Keys : entries[k] # NoEntry => entries[k].response.question = k

\* What the cache serves was asked upstream less than its lifetime and one
\* timeout ago: the time a response waited before put is not added twice, and
\* no task puts an answer to a query that has timed out (dns.rs, forward_to).
FreshMeansRecent ==
    \A k \in Cache!Keys : Cache!Fresh(k) =>
        now - entries[k].response.asked_at < entries[k].ttl + Timeout

\* No answer outlives its own TTL in the cache by more than the timeout: an
\* entry lasts no longer than the shortest TTL of its answers, whichever of
\* them that is (cache.rs, extract_ttl; dns.rs, handle_query).
ServedWithinTtls ==
    \A k \in Cache!Keys : Cache!Fresh(k) =>
        \A ttl \in entries[k].response.ttls :
            now - entries[k].response.asked_at < ttl + Timeout

\* A flush cannot stop a query in flight from filling the cache behind it, but
\* nothing older comes back: what is held for a flushed name was asked at most
\* one timeout before the flush (dns.rs, handle_query; cache.rs, flush).
FlushForgets ==
    \A k \in Cache!Keys : entries[k] # NoEntry =>
        flushed[k[1]] <= entries[k].response.asked_at + Timeout

\* A request is in the server for at most one timeout per upstream server.
WaitBounded ==
    \A t \in Tasks : pc[t] # "idle" => now - arrived[t] <= servers * Timeout

\* Where a step leads a task: on at the same server, or to the next one.
Stage == [idle |-> 0, lookup |-> 1, cache |-> 2, send |-> 3, await |-> 4,
          put |-> 5, reply |-> 6]

Forward(t) ==
    \/ pc'[t] = pc[t] /\ server'[t] = server[t]
    \/ Stage[pc'[t]] > Stage[pc[t]] /\ server'[t] = server[t]
    \/ pc'[t] = "send" /\ server'[t] = server[t] + 1

\* A request goes forward only: through the steps of an attempt in their
\* order, then to the next server on the list, none skipped and none asked
\* again, whatever fails or times out (dns.rs, forward and forward_to).
OnlyForward ==
    [][\A t \in Tasks : pc[t] # "idle" /\ pc'[t] # "idle" => Forward(t)]_vars

\* Every request is dealt with and its task ends, whatever upstream does.
QueryEnds == \A t \in Tasks : pc[t] # "idle" ~> pc[t] = "idle"

\* The tasks, interleaved with each other and with the management API, give
\* the service of DnsService: mock records first, from one snapshot, and every
\* answer an answer to its own request.
Phase(t) == CASE pc[t] = "idle" -> "idle"
              [] pc[t] = "lookup" -> "asked"
              [] pc[t] = "reply" -> "answered"
              [] OTHER -> "elsewhere"

DomainRecord(r) == [id |-> r.id, domain |-> r.name.domain, type |-> r.type,
                    data |-> r.data]

Abstract == INSTANCE DnsService WITH
    zone <- {DomainRecord(r) : r \in Store!Present},
    phase <- [t \in Tasks |-> Phase(t)]

Service == Abstract!Spec

\* README.md says that a record whose data is invalid is "stored but skipped
\* when serving": it does not cost the client the other records of its answer.
InvalidOnlySkipped ==
    [][\A t \in Tasks : Lookup(t) /\ (\E r \in LocalRecords(t) : r.data = "plain")
          => answer'[t] # NoAnswer]_vars

=============================================================================
