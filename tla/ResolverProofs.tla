--------------------------- MODULE ResolverProofs ---------------------------
(***************************************************************************)
(* Proofs about Resolver, for any number of tasks and upstream servers,    *)
(* any names, records and responses, any timeout and lifetimes.            *)
(***************************************************************************)
EXTENDS Resolver, Lemmas

-----------------------------------------------------------------------------
(* The inductive invariant, in parts.                                      *)

\* What n attempts can take.  (Kept folded: the provers need only the facts
\* of WaitFacts.)
Wait(n) == n * Timeout

TaskTypes ==
    /\ pc \in [Tasks -> {"idle", "lookup", "cache", "send", "await", "put", "reply"}]
    /\ request \in [Tasks -> Requests \cup {Idle, Garbage}]
    /\ server \in [Tasks -> 0..NumServers]
    /\ deadline \in [Tasks -> Times]
    /\ socket \in [Tasks -> Responses \cup {NoResponse}]
    /\ arrived \in [Tasks -> Times]

\* A task at server i has used up at most i - 1 timeouts, and those it may
\* still need end before the clock stops.
OnTime(t) ==
    /\ pc[t] # "idle" => /\ arrived[t] <= now
                         /\ arrived[t] + Wait(servers) <= MaxTime
    /\ pc[t] \in {"lookup", "cache"} => now = arrived[t]
    /\ pc[t] = "cache" => servers > 0
    /\ pc[t] \in {"idle", "lookup", "cache"} => server[t] = 0
    /\ pc[t] \in {"send", "await", "put"} => server[t] \in 1..servers
    /\ pc[t] = "send" => now <= arrived[t] + Wait(server[t] - 1)
    /\ pc[t] \in {"await", "put"} =>
          /\ now <= deadline[t] /\ deadline[t] <= now + Timeout
          /\ Timeout <= deadline[t]
          /\ deadline[t] <= arrived[t] + Wait(server[t])
    /\ pc[t] = "reply" => now <= arrived[t] + Wait(servers)

\* What has come to a socket answers the task's own question, as it asked it
\* when this attempt began.
OwnSocket(t) ==
    /\ pc[t] # "idle" => request[t] # Idle
    /\ pc[t] \in {"cache", "send", "await", "put"} => HasQuestion(t)
    /\ pc[t] = "put" => socket[t] # NoResponse
    /\ socket[t] # NoResponse => pc[t] \in {"await", "put", "reply"}
    /\ socket[t] # NoResponse /\ pc[t] \in {"await", "put"} =>
          /\ socket[t].question = request[t].question
          /\ socket[t].asked_at = deadline[t] - Timeout

\* Each entry answers its key; it lasts no longer than any of its answers;
\* when it was made its response was at most a timeout old, and no flush of
\* its name came later than that.
EntryOK(k) ==
    entries[k] # NoEntry =>
        /\ entries[k].response.question = k
        /\ \A ttl \in entries[k].response.ttls : entries[k].ttl <= ttl
        /\ entries[k].created_at <= now
        /\ entries[k].created_at <= entries[k].response.asked_at + Timeout
        /\ flushed[k[1]] <= entries[k].response.asked_at + Timeout

ClockInv == now \in Times /\ servers \in 0..NumServers
StoreInv == /\ records \in [RecordIds -> Store!Record \cup {NoRecord}]
            /\ issued \subseteq RecordIds
TaskInv == TaskTypes /\ \A t \in Tasks : OnTime(t) /\ OwnSocket(t)
FlushInv == /\ flushed \in [WireNames -> Times]
            /\ \A n \in WireNames : flushed[n] <= now
CacheInv == /\ entries \in [Cache!Keys -> Cache!CacheEntry \cup {NoEntry}]
            /\ \A k \in Cache!Keys : EntryOK(k)

IInv == ClockInv /\ StoreInv /\ TaskInv /\ FlushInv /\ CacheInv

-----------------------------------------------------------------------------
(* Numbers, and what a step leaves alone.                                  *)

LEMMA WaitFacts ==
    /\ Wait(0) = 0
    /\ \A n \in Nat : Wait(n) \in Nat /\ Wait(n + 1) = Wait(n) + Timeout
    /\ \A m, n \in Nat : m <= n => Wait(m) <= Wait(n)
<1> Timeout \in Nat
  BY ResolverAssumption
<1>1. Wait(0) = 0 /\ \A n \in Nat : Wait(n) \in Nat /\ Wait(n + 1) = Wait(n) + Timeout
  BY DEF Wait
<1>2. ASSUME NEW m \in Nat, NEW n \in Nat, m <= n PROVE Wait(m) <= Wait(n)
  <2>1. PICK d \in Nat : n = m + d
    BY <1>2
  <2>2. n * Timeout = m * Timeout + d * Timeout /\ d * Timeout \in Nat
    BY <2>1
  <2> QED
    BY <2>2 DEF Wait
<1> QED
  BY <1>1, <1>2

\* A step of t concerns t alone.
LEMMA OthersKept ==
    ASSUME TaskInv, NEW t \in Tasks, UNCHANGED <<now, servers>>,
           \A u \in Tasks \ {t} :
              /\ pc'[u] = pc[u] /\ request'[u] = request[u]
              /\ server'[u] = server[u] /\ deadline'[u] = deadline[u]
              /\ socket'[u] = socket[u] /\ arrived'[u] = arrived[u],
           TaskTypes', OnTime(t)', OwnSocket(t)'
    PROVE  TaskInv'
<1>1. ASSUME NEW u \in Tasks, u # t PROVE OnTime(u)' /\ OwnSocket(u)'
  <2>1. OnTime(u)'
    BY <1>1 DEF TaskInv, OnTime
  <2>2. OwnSocket(u)'
    BY <1>1 DEF TaskInv, OwnSocket, HasQuestion
  <2> QED
    BY <2>1, <2>2
<1> QED
  BY <1>1 DEF TaskInv

LEMMA RestKept ==
    ASSUME IInv, UNCHANGED <<storeVars, entries, now, servers, flushed>>
    PROVE  ClockInv' /\ StoreInv' /\ FlushInv' /\ CacheInv'
<1>1. ClockInv' /\ FlushInv'
  BY DEF IInv, ClockInv, FlushInv
<1>2. StoreInv'
  BY DEF IInv, StoreInv, storeVars
<1>3. CacheInv'
  BY DEF IInv, CacheInv, EntryOK
<1> QED
  BY <1>1, <1>2, <1>3

-----------------------------------------------------------------------------
(* The steps of a task.                                                    *)

LEMMA ArriveStep ==
    ASSUME IInv, NEW t \in Tasks, NEW req \in Queries \cup {Garbage},
           Arrive(t, req)
    PROVE  IInv'
<1>1. req \in Requests \cup {Garbage} /\ req # Idle
  BY ResolverAssumption
<1>2. TaskTypes'
  BY <1>1 DEF IInv, TaskInv, TaskTypes, ClockInv, Arrive, Goes
<1>3. OnTime(t)'
  BY DEF IInv, TaskInv, TaskTypes, ClockInv, Times, OnTime, Arrive, Goes, Wait
<1>4. OwnSocket(t)'
  BY <1>1 DEF IInv, TaskInv, TaskTypes, OwnSocket, HasQuestion, Arrive, Goes
<1>5. TaskInv'
  BY <1>2, <1>3, <1>4, OthersKept DEF IInv, TaskInv, TaskTypes, Arrive, Goes
<1> QED
  BY <1>5, RestKept DEF IInv, Arrive

\* No time has passed while a task asks the store and the cache.
LEMMA NoWaitYet ==
    ASSUME IInv, NEW t \in Tasks, pc[t] \in {"lookup", "cache"}
    PROVE  /\ now = arrived[t] /\ now \in Nat /\ servers \in Nat
           /\ now <= now + Wait(servers) /\ now <= now + Wait(1 - 1)
<1>1. OnTime(t)
  BY DEF IInv, TaskInv
<1>2. now = arrived[t]
  BY <1>1 DEF OnTime
<1>3. now \in Nat /\ servers \in Nat
  BY ResolverAssumption DEF IInv, ClockInv, Times
<1>4. Wait(servers) \in Nat /\ Wait(1 - 1) \in Nat
  BY <1>3, WaitFacts
<1> QED
  BY <1>2, <1>3, <1>4

LEMMA RejectStep ==
    ASSUME IInv, NEW t \in Tasks, Reject(t)
    PROVE  IInv'
<1>1. TaskTypes'
  BY DEF IInv, TaskInv, TaskTypes, Reject, Replies
<1>2. OnTime(t)'
  <2>1. now = arrived[t] /\ now <= now + Wait(servers)
    BY NoWaitYet DEF Reject
  <2> QED
    BY <2>1 DEF IInv, TaskInv, TaskTypes, OnTime, Reject, Replies
<1>3. OwnSocket(t)'
  BY DEF IInv, TaskInv, TaskTypes, OwnSocket, HasQuestion, Reject, Replies
<1>4. TaskInv'
  BY <1>1, <1>2, <1>3, OthersKept DEF IInv, TaskInv, TaskTypes, Reject, Replies
<1> QED
  BY <1>4, RestKept DEF IInv, Reject

LEMMA LookupStep ==
    ASSUME IInv, NEW t \in Tasks, Lookup(t)
    PROVE  IInv'
<1>1. \/ pc' = [pc EXCEPT ![t] = "reply"]
      \/ pc' = [pc EXCEPT ![t] = "cache"] /\ servers > 0
  BY DEF Lookup, Replies, Goes
<1>2. pc[t] = "lookup" /\ HasQuestion(t)
      /\ UNCHANGED <<storeVars, entries, now, servers, request, server, deadline,
                     socket, arrived, flushed>>
  BY DEF Lookup
<1>3. TaskTypes'
  BY <1>1, <1>2 DEF IInv, TaskInv, TaskTypes
<1>4. OnTime(t)'
  <2>1. now = arrived[t] /\ servers \in Nat /\ now <= now + Wait(servers)
    BY <1>2, NoWaitYet
  <2> QED
    BY <1>1, <1>2, <2>1 DEF IInv, TaskInv, TaskTypes, OnTime
<1>5. OwnSocket(t)'
  BY <1>1, <1>2 DEF IInv, TaskInv, TaskTypes, OwnSocket, HasQuestion
<1>6. TaskInv'
  BY <1>1, <1>2, <1>3, <1>4, <1>5, OthersKept DEF IInv, TaskInv, TaskTypes
<1> QED
  BY <1>2, <1>6, RestKept DEF IInv

\* get removes an expired entry or nothing.
LEMMA AskCacheStep ==
    ASSUME IInv, NEW t \in Tasks, AskCache(t)
    PROVE  IInv'
<1>1. pc[t] = "cache" /\ HasQuestion(t)
      /\ UNCHANGED <<storeVars, now, servers, request, deadline, socket, arrived,
                     flushed>>
  BY DEF AskCache, IInv, TaskInv, OwnSocket
<1>2. \/ pc' = [pc EXCEPT ![t] = "reply"] /\ UNCHANGED server
      \/ pc' = [pc EXCEPT ![t] = "send"] /\ server' = [server EXCEPT ![t] = 1]
  BY DEF AskCache, Replies, Goes
<1>3. servers \in 0..NumServers /\ NumServers \in Nat /\ 1 \in 1..servers
  BY <1>1, ResolverAssumption DEF IInv, ClockInv, TaskInv, OnTime
<1>4. TaskTypes'
  BY <1>1, <1>2, <1>3, ResolverAssumption DEF IInv, ClockInv, TaskInv, TaskTypes
<1>5. OnTime(t)'
  <2>1. /\ now = arrived[t]
        /\ now <= now + Wait(servers) /\ now <= now + Wait(1 - 1)
    BY <1>1, NoWaitYet
  <2> QED
    BY <1>1, <1>2, <1>3, <2>1 DEF IInv, TaskInv, TaskTypes, OnTime
<1>6. OwnSocket(t)'
  BY <1>1, <1>2 DEF IInv, TaskInv, TaskTypes, OwnSocket, HasQuestion
<1>7. TaskInv'
  BY <1>1, <1>2, <1>4, <1>5, <1>6, OthersKept DEF IInv, TaskInv, TaskTypes
<1>8. ClockInv' /\ StoreInv' /\ FlushInv'
  BY <1>1 DEF IInv, ClockInv, StoreInv, FlushInv, storeVars
<1>9. CacheInv'
  <2>1. \/ entries' = entries
        \/ entries' = [entries EXCEPT ![Key(t)] = NoEntry]
    BY DEF AskCache, Cache!get
  <2> QED
    BY <1>1, <2>1 DEF IInv, CacheInv, EntryOK
<1> QED
  BY <1>7, <1>8, <1>9 DEF IInv

LEMMA SendStep ==
    ASSUME IInv, NEW t \in Tasks, Send(t)
    PROVE  IInv'
<1>1. /\ pc[t] = "send" /\ pc' = [pc EXCEPT ![t] = "await"]
      /\ deadline' = [deadline EXCEPT ![t] = now + Timeout]
      /\ UNCHANGED <<storeVars, entries, now, servers, request, server, socket,
                     arrived, flushed>>
  BY DEF Send, Goes
<1>2. socket[t] = NoResponse
  BY <1>1 DEF IInv, TaskInv, OwnSocket
<1>3. /\ now \in Nat /\ Timeout \in Nat /\ arrived[t] \in Nat /\ MaxTime \in Nat
      /\ servers \in Nat /\ server[t] \in 1..servers
      /\ now <= arrived[t] + Wait(server[t] - 1)
      /\ arrived[t] + Wait(servers) <= MaxTime
  BY <1>1, ResolverAssumption
     DEF IInv, ClockInv, TaskInv, TaskTypes, OnTime, Times
<1>4. /\ now + Timeout <= arrived[t] + Wait(server[t])
      /\ now + Timeout <= MaxTime
  <2>1. server[t] - 1 \in Nat /\ server[t] = (server[t] - 1) + 1
    BY <1>3
  <2>2. Wait(server[t]) = Wait(server[t] - 1) + Timeout /\ Wait(server[t] - 1) \in Nat
    BY <2>1, WaitFacts
  <2>3. Wait(server[t]) <= Wait(servers) /\ Wait(servers) \in Nat
    <3>1. server[t] \in Nat /\ server[t] <= servers
      BY <1>3
    <3> QED
      BY <1>3, <3>1, WaitFacts
  <2> QED
    BY <1>3, <2>2, <2>3
<1>5. TaskTypes'
  BY <1>1, <1>3, <1>4 DEF IInv, TaskInv, TaskTypes, Times
<1>6. OnTime(t)'
  BY <1>1, <1>3, <1>4 DEF IInv, TaskInv, TaskTypes, OnTime
<1>7. OwnSocket(t)'
  BY <1>1, <1>2 DEF IInv, TaskInv, TaskTypes, OwnSocket, HasQuestion
<1>8. TaskInv'
  BY <1>1, <1>5, <1>6, <1>7, OthersKept DEF IInv, TaskInv, TaskTypes
<1> QED
  BY <1>1, <1>8, RestKept DEF IInv

\* An attempt that gave nothing has used up at most its own timeout.
LEMMA TryNextStep ==
    ASSUME IInv, NEW t \in Tasks, pc[t] \in {"send", "await"}, TryNext(t)
    PROVE  IInv'
<1>1. /\ socket' = [socket EXCEPT ![t] = NoResponse]
      /\ UNCHANGED <<storeVars, entries, now, servers, request, deadline, arrived,
                     flushed>>
  BY DEF TryNext
<1>2. \/ /\ server[t] < servers /\ pc' = [pc EXCEPT ![t] = "send"]
         /\ server' = [server EXCEPT ![t] = server[t] + 1]
      \/ pc' = [pc EXCEPT ![t] = "reply"] /\ UNCHANGED server
  BY DEF TryNext, Goes, Replies
<1>3. /\ now \in Nat /\ Timeout \in Nat /\ arrived[t] \in Nat
      /\ servers \in 0..NumServers /\ NumServers \in Nat
      /\ server[t] \in 1..servers
  BY ResolverAssumption DEF IInv, ClockInv, TaskInv, TaskTypes, OnTime, Times
<1>4. now <= arrived[t] + Wait(server[t]) /\ Wait(server[t]) \in Nat
  <2>1. server[t] - 1 \in Nat /\ server[t] = (server[t] - 1) + 1
    BY <1>3
  <2>2. /\ Wait(server[t]) = Wait(server[t] - 1) + Timeout
        /\ Wait(server[t] - 1) \in Nat
    BY <2>1, WaitFacts
  <2>3. CASE pc[t] = "send"
    BY <1>3, <2>2, <2>3 DEF IInv, TaskInv, OnTime
  <2>4. CASE pc[t] = "await"
    BY <1>3, <2>2, <2>4 DEF IInv, TaskInv, TaskTypes, OnTime, Times
  <2> QED
    BY <2>3, <2>4
<1>5. Wait(server[t]) <= Wait(servers) /\ Wait(servers) \in Nat
  <2>1. server[t] \in Nat /\ servers \in Nat /\ server[t] <= servers
    BY <1>3
  <2> QED
    BY <2>1, WaitFacts
<1>6. TaskTypes'
  BY <1>1, <1>2, <1>3 DEF IInv, TaskInv, TaskTypes
<1>7. OnTime(t)'
  <2>1. pc[t] # "idle"
    OBVIOUS
  <2> QED
    BY <1>1, <1>2, <1>3, <1>4, <1>5, <2>1 DEF IInv, TaskInv, TaskTypes, OnTime
<1>8. OwnSocket(t)'
  BY <1>1, <1>2 DEF IInv, TaskInv, TaskTypes, OwnSocket, HasQuestion
<1>9. TaskInv'
  BY <1>1, <1>2, <1>6, <1>7, <1>8, OthersKept DEF IInv, TaskInv, TaskTypes
<1> QED
  BY <1>1, <1>9, RestKept DEF IInv

LEMMA ReceiveStep ==
    ASSUME IInv, NEW t \in Tasks, Receive(t)
    PROVE  IInv'
<1>1. /\ pc[t] = "await" /\ socket[t] # NoResponse
      /\ pc' = [pc EXCEPT ![t] = "put"]
      /\ UNCHANGED <<storeVars, entries, now, servers, request, server, deadline,
                     socket, arrived, flushed>>
  BY DEF Receive, Goes
<1>2. TaskTypes'
  BY <1>1 DEF IInv, TaskInv, TaskTypes
<1>3. OnTime(t)'
  BY <1>1 DEF IInv, TaskInv, TaskTypes, OnTime
<1>4. OwnSocket(t)'
  BY <1>1 DEF IInv, TaskInv, TaskTypes, OwnSocket, HasQuestion
<1>5. TaskInv'
  BY <1>1, <1>2, <1>3, <1>4, OthersKept DEF IInv, TaskInv, TaskTypes
<1> QED
  BY <1>1, <1>5, RestKept DEF IInv

LEMMA ReplyStep ==
    ASSUME IInv, NEW t \in Tasks, Reply(t)
    PROVE  IInv'
<1>1. 0 \in Times /\ 0 \in 0..NumServers
  BY ResolverAssumption DEF Times
<1>2. TaskTypes'
  BY <1>1 DEF IInv, TaskInv, TaskTypes, Reply
<1>3. OnTime(t)'
  BY DEF IInv, TaskInv, TaskTypes, OnTime, Reply
<1>4. OwnSocket(t)'
  BY DEF IInv, TaskInv, TaskTypes, OwnSocket, Reply
<1>5. TaskInv'
  BY <1>2, <1>3, <1>4, OthersKept DEF IInv, TaskInv, TaskTypes, Reply
<1> QED
  BY <1>5, RestKept DEF IInv, Reply

\* The lifetime of an entry is that of the answer that ends first, or less.
LEMMA LifetimeBounds ==
    ASSUME NEW r \in Responses
    PROVE  /\ Cache!extract_ttl(r) \in Nat
           /\ \A ttl \in r.ttls : Cache!extract_ttl(r) <= ttl
<1> USE ResolverAssumption
<1>1. r.ttls \in SUBSET Nat /\ (~r.parses => r.ttls = {})
  BY DEF Responses
<1>2. CASE r.ttls = {}
  BY <1>2 DEF Cache!extract_ttl, Cache!Lesser
<1>3. CASE r.ttls # {} /\ r.parses
  <2> DEFINE m == Cache!Min(r.ttls)
  <2>1. m \in r.ttls /\ \A ttl \in r.ttls : m <= ttl
    BY <1>1, <1>3, LeastOfNats DEF Cache!Min
  <2>2. Cache!extract_ttl(r) = Cache!Lesser(m, MaxTtl)
    BY <1>3 DEF Cache!extract_ttl
  <2> HIDE DEF m
  <2> QED
    BY <1>1, <2>1, <2>2 DEF Cache!Lesser
<1> QED
  BY <1>1, <1>2, <1>3

\* put makes an entry of the task's own response, at most a timeout old.

LEMMA FillCacheStep ==
    ASSUME IInv, NEW t \in Tasks, FillCache(t)
    PROVE  IInv'
<1> DEFINE r == socket[t]
           key == Key(t)
           ttl == Cache!extract_ttl(r)
           e == [response |-> r, created_at |-> now, ttl |-> ttl]
<1>1. /\ pc[t] = "put" /\ pc' = [pc EXCEPT ![t] = "reply"]
      /\ entries' = [entries EXCEPT ![key] = e]
      /\ UNCHANGED <<storeVars, now, servers, request, server, deadline, socket,
                     arrived, flushed>>
  BY DEF FillCache, Replies, Cache!put
<1>2. /\ r \in Responses /\ r.question = key /\ r.asked_at = deadline[t] - Timeout
      /\ now \in Nat /\ Timeout \in Nat /\ deadline[t] \in Nat /\ now <= deadline[t]
  BY <1>1, ResolverAssumption
     DEF IInv, ClockInv, TaskInv, TaskTypes, OnTime, OwnSocket, Times, Key
<1>3. key \in Cache!Keys
  <2>1. key \in Questions
    BY <1>2 DEF Responses
  <2> QED
    BY <2>1 DEF Questions, Cache!Keys, Cache!WireNames, Cache!Spellings,
                WireNames, Spellings
<1>4. e \in Cache!CacheEntry
  BY <1>2, LifetimeBounds DEF Cache!CacheEntry
<1> HIDE DEF ttl
<1>5. CacheInv'
  <2>1. entries' \in [Cache!Keys -> Cache!CacheEntry \cup {NoEntry}]
    BY <1>1, <1>4 DEF IInv, CacheInv
  <2>2. ASSUME NEW k \in Cache!Keys, k # key PROVE EntryOK(k)'
    BY <1>1, <2>2 DEF IInv, CacheInv, EntryOK
  <2>3. ASSUME NEW k \in Cache!Keys, k = key PROVE EntryOK(k)'
    <3>1. entries'[k] = e
      BY <1>1, <2>3 DEF IInv, CacheInv
    <3>2. k[1] \in WireNames
      BY <1>2, <2>3 DEF Responses, Questions
    <3>3. flushed[k[1]] <= now /\ flushed[k[1]] \in Nat
      BY <3>2 DEF IInv, FlushInv, Times
    <3>4. r.question = k
      BY <1>2, <2>3
    <3>5. \A d \in r.ttls : ttl <= d
      BY <1>2, LifetimeBounds DEF ttl
    <3> HIDE DEF r, key
    <3> QED
      BY <1>1, <1>2, <3>1, <3>3, <3>4, <3>5 DEF EntryOK
  <2> QED
    BY <2>1, <2>2, <2>3 DEF CacheInv
<1> HIDE DEF r, key
<1>6. TaskTypes'
  BY <1>1 DEF IInv, TaskInv, TaskTypes
<1>7. OnTime(t)'
  <2>1. server[t] \in Nat /\ servers \in Nat /\ server[t] <= servers
    BY <1>1, ResolverAssumption DEF IInv, ClockInv, TaskInv, OnTime
  <2>2. /\ Wait(server[t]) <= Wait(servers)
        /\ Wait(server[t]) \in Nat /\ Wait(servers) \in Nat
    BY <2>1, WaitFacts
  <2>3. arrived[t] \in Nat
    BY DEF IInv, TaskInv, TaskTypes, Times
  <2> QED
    BY <1>1, <1>2, <2>2, <2>3 DEF IInv, TaskInv, TaskTypes, OnTime
<1>8. OwnSocket(t)'
  BY <1>1 DEF IInv, TaskInv, TaskTypes, OwnSocket
<1>9. TaskInv'
  BY <1>1, <1>6, <1>7, <1>8, OthersKept DEF IInv, TaskInv, TaskTypes
<1>10. ClockInv' /\ StoreInv' /\ FlushInv'
  BY <1>1 DEF IInv, ClockInv, StoreInv, FlushInv, storeVars
<1> QED
  BY <1>5, <1>9, <1>10 DEF IInv

-----------------------------------------------------------------------------
(* The steps of the environment.                                           *)

LEMMA UpstreamStep ==
    ASSUME IInv, NEW t \in Tasks, NEW body \in Bodies, UpstreamReplies(t, body)
    PROVE  IInv'
<1> DEFINE r == [id |-> request[t].id, question |-> request[t].question,
                 parses |-> body.parses, ttls |-> body.ttls,
                 short |-> body.short, asked_at |-> deadline[t] - Timeout]
<1>1. /\ pc[t] = "await" /\ socket' = [socket EXCEPT ![t] = r]
      /\ UNCHANGED <<storeVars, entries, now, servers, pc, request, server,
                     deadline, arrived, flushed>>
  BY DEF UpstreamReplies
<1>2. r \in Responses
  <2>1. request[t] \in Requests /\ HasQuestion(t)
    BY <1>1 DEF IInv, TaskInv, TaskTypes, OwnSocket, HasQuestion
  <2>2. request[t].id \in MessageIds /\ request[t].question \in Questions
    BY <2>1 DEF Requests, HasQuestion
  <2>3. deadline[t] - Timeout \in Nat
    BY <1>1, ResolverAssumption DEF IInv, TaskInv, TaskTypes, OnTime, Times
  <2>4. /\ body.parses \in BOOLEAN /\ body.short \in BOOLEAN
        /\ body.ttls \in SUBSET Nat /\ (~body.parses => body.ttls = {})
    BY ResolverAssumption
  <2>5. r \in [id : MessageIds, question : Questions, parses : BOOLEAN,
               ttls : SUBSET Nat, short : BOOLEAN, asked_at : Nat]
    BY <2>2, <2>3, <2>4, Zenon
  <2>6. r.parses = body.parses /\ r.ttls = body.ttls
    OBVIOUS
  <2> QED
    BY <2>4, <2>5, <2>6 DEF Responses
<1>3. r.question = request[t].question /\ r.asked_at = deadline[t] - Timeout
  OBVIOUS
<1> HIDE DEF r
<1>4. TaskTypes'
  BY <1>1, <1>2 DEF IInv, TaskInv, TaskTypes
<1>5. OnTime(t)'
  BY <1>1 DEF IInv, TaskInv, OnTime
<1>6. OwnSocket(t)'
  BY <1>1, <1>3 DEF IInv, TaskInv, TaskTypes, OwnSocket, HasQuestion
<1>7. TaskInv'
  BY <1>1, <1>4, <1>5, <1>6, OthersKept DEF IInv, TaskInv, TaskTypes
<1> QED
  BY <1>1, <1>7, RestKept DEF IInv

\* A request that changes the records changes nothing else.
LEMMA StoreStep ==
    ASSUME IInv, UNCHANGED <<entries, now, servers, taskVars, flushed>>, StoreInv'
    PROVE  IInv'
<1>1. ClockInv' /\ FlushInv' /\ CacheInv'
  BY DEF IInv, ClockInv, FlushInv, CacheInv, EntryOK
<1>2. TaskInv'
  BY DEF IInv, TaskInv, TaskTypes, OnTime, OwnSocket, HasQuestion, taskVars
<1> QED
  BY <1>1, <1>2 DEF IInv

LEMMA CreateStep ==
    ASSUME IInv, NEW req \in NewRecords, create_record(req)
    PROVE  IInv'
<1>1. PICK id \in RecordIds : Store!add(id, req)
  BY DEF create_record
<1>2. req \in [name : Spellings, type : SupportedTypes, data : Data]
  BY ResolverAssumption
<1>3. Store!normalize_name(req.name) \in Spellings
  <2>1. normalize_name(req.name) \in Spellings
    BY <1>2, CanonicalForm
  <2> QED
    BY <2>1 DEF normalize_name, to_ascii_lowercase,
                Store!normalize_name, Store!to_ascii_lowercase
<1>4. Store!Made(id, req) \in Store!Record
  BY <1>2, <1>3 DEF Store!Made, Store!Record, Store!Spellings, Spellings
<1>5. StoreInv'
  BY <1>1, <1>4 DEF IInv, StoreInv, Store!add
<1> QED
  BY <1>5, StoreStep DEF create_record

LEMMA DeleteStep ==
    ASSUME IInv,
           \/ \E id \in RecordIds : delete_record(id)
           \/ \E name \in ApiNames, type \in SupportedTypes \cup {None} :
                 delete_records(name, type)
    PROVE  IInv'
<1>1. \A id \in RecordIds : records[id] \in Store!Record \cup {NoRecord}
  BY DEF IInv, StoreInv
<1>2. ASSUME NEW id \in RecordIds, delete_record(id) PROVE IInv'
  <2>1. StoreInv'
    BY <1>2 DEF IInv, StoreInv, delete_record, Store!delete
  <2> QED
    BY <1>2, <2>1, StoreStep DEF delete_record
<1>3. ASSUME NEW name \in ApiNames, NEW type \in SupportedTypes \cup {None},
             delete_records(name, type)
      PROVE  IInv'
  <2>1. StoreInv'
    BY <1>1, <1>3
       DEF IInv, StoreInv, delete_records, Store!delete_all, Store!delete_filtered
  <2> QED
    BY <1>3, <2>1, StoreStep DEF delete_records
<1> QED
  BY <1>2, <1>3

\* A flush leaves no entry that was made before it.
LEMMA FlushStep ==
    ASSUME IInv, NEW name \in ApiNames, flush_cache(name)
    PROVE  IInv'
<1>1. UNCHANGED <<storeVars, now, servers, taskVars>>
  BY DEF flush_cache
<1>2. ClockInv' /\ StoreInv'
  BY <1>1 DEF IInv, ClockInv, StoreInv, storeVars
<1>3. TaskInv'
  BY <1>1 DEF IInv, TaskInv, TaskTypes, OnTime, OwnSocket, HasQuestion, taskVars
<1>4. now \in Times /\ now <= now
  BY DEF IInv, ClockInv, Times
<1>5. CASE name = None
  <2>1. /\ flushed' = [n \in WireNames |-> now]
        /\ entries' = [k \in Cache!Keys |-> NoEntry]
    BY <1>5 DEF flush_cache, Cache!flush, Cache!NoEntries
  <2>2. FlushInv'
    BY <1>1, <1>4, <2>1 DEF FlushInv
  <2>3. CacheInv'
    BY <1>1, <2>1 DEF CacheInv, EntryOK
  <2> QED
    BY <1>2, <1>3, <2>2, <2>3 DEF IInv
<1>6. CASE name # None
  <2> DEFINE target == normalize_name(name)
  <2>1. /\ flushed' = [flushed EXCEPT ![target] = now]
        /\ entries' = [k \in Cache!Keys |-> IF k[1] = target THEN NoEntry
                                             ELSE entries[k]]
    BY <1>6 DEF flush_cache, Cache!flush_domain, Cache!FlushedBy,
                Cache!normalize_name, Cache!to_ascii_lowercase,
                normalize_name, to_ascii_lowercase
  <2> HIDE DEF target
  <2>2. FlushInv'
    BY <1>1, <1>4, <2>1 DEF IInv, FlushInv
  <2>3. \A k \in Cache!Keys : k[1] \in WireNames
    BY DEF Cache!Keys, Cache!WireNames, Cache!Spellings, WireNames, Spellings
  <2>4. entries' \in [Cache!Keys -> Cache!CacheEntry \cup {NoEntry}]
    BY <2>1 DEF IInv, CacheInv
  <2>5. ASSUME NEW k \in Cache!Keys PROVE EntryOK(k)'
    BY <1>1, <2>1, <2>3 DEF IInv, CacheInv, FlushInv, EntryOK
  <2> QED
    BY <1>2, <1>3, <2>2, <2>4, <2>5 DEF IInv, CacheInv
<1> QED
  BY <1>5, <1>6

\* The clock moves only when each task is idle or waits for a timer to come.
LEMMA TickStep ==
    ASSUME IInv, Tick
    PROVE  IInv'
<1>1. /\ now' = now + 1 /\ now < MaxTime /\ now \in Nat /\ MaxTime \in Nat
      /\ Timeout \in Nat
      /\ UNCHANGED <<storeVars, entries, servers, taskVars, flushed>>
  BY ResolverAssumption DEF Tick, IInv, ClockInv, Times
<1>2. ClockInv'
  BY <1>1 DEF IInv, ClockInv, Times
<1>3. StoreInv' /\ TaskTypes'
  BY <1>1 DEF IInv, StoreInv, storeVars, TaskInv, TaskTypes, taskVars
<1>4. FlushInv'
  BY <1>1 DEF IInv, FlushInv, Times
<1>5. ASSUME NEW k \in Cache!Keys PROVE EntryOK(k)'
  <2>1. entries[k] # NoEntry => entries[k].created_at \in Nat
    BY DEF IInv, CacheInv, Cache!CacheEntry
  <2> QED
    BY <1>1, <2>1 DEF IInv, CacheInv, EntryOK
<1>6. ASSUME NEW t \in Tasks PROVE OnTime(t)' /\ OwnSocket(t)'
  <2>1. pc[t] = "idle" \/ (pc[t] = "await" /\ now < deadline[t])
    BY DEF Tick
  <2>2. deadline[t] \in Nat /\ arrived[t] \in Nat
    BY DEF IInv, TaskInv, TaskTypes, Times
  <2>3. OnTime(t)'
    BY <1>1, <2>1, <2>2 DEF IInv, TaskInv, OnTime, taskVars
  <2>4. OwnSocket(t)'
    BY <1>1 DEF IInv, TaskInv, OwnSocket, HasQuestion, taskVars
  <2> QED
    BY <2>3, <2>4
<1> QED
  BY <1>1, <1>2, <1>3, <1>4, <1>5, <1>6 DEF IInv, TaskInv, CacheInv

-----------------------------------------------------------------------------
(* The invariant and what follows from it.                                 *)

LEMMA InitInvariant == Init => IInv
<1> SUFFICES ASSUME Init PROVE IInv
  OBVIOUS
<1>1. /\ 0 \in Times /\ 0 \in 0..NumServers /\ 0 <= 0
  BY ResolverAssumption DEF Times
<1>2. ClockInv /\ FlushInv
  BY <1>1 DEF Init, ClockInv, FlushInv
<1>3. StoreInv
  BY DEF Init, StoreInv
<1>4. TaskInv
  BY <1>1 DEF Init, TaskInv, TaskTypes, OnTime, OwnSocket
<1>5. CacheInv
  BY DEF Init, CacheInv, EntryOK, Cache!NoEntries
<1> QED
  BY <1>2, <1>3, <1>4, <1>5 DEF IInv

LEMMA StepKeepsInvariant == IInv /\ [Next]_vars => IInv'
<1> SUFFICES ASSUME IInv, [Next]_vars PROVE IInv'
  OBVIOUS
<1>1. ASSUME NEW t \in Tasks, NEW req \in Queries \cup {Garbage}, Arrive(t, req)
      PROVE  IInv'
  BY <1>1, ArriveStep
<1>2. ASSUME NEW t \in Tasks, Step(t) PROVE IInv'
  <2>1. CASE TimesOut(t)
    BY <2>1, TryNextStep DEF TimesOut
  <2> QED
    BY <1>2, <2>1, RejectStep, LookupStep, AskCacheStep, SendStep, ReceiveStep,
       FillCacheStep, ReplyStep DEF Step
<1>3. ASSUME NEW t \in Tasks, AttemptFails(t) PROVE IInv'
  BY <1>3, TryNextStep DEF AttemptFails
<1>4. ASSUME NEW t \in Tasks, NEW body \in Bodies, UpstreamReplies(t, body)
      PROVE  IInv'
  BY <1>4, UpstreamStep
<1>5. CASE Manage
  BY <1>5, CreateStep, DeleteStep, FlushStep DEF Manage
<1>6. CASE Tick
  BY <1>6, TickStep
<1>7. CASE UNCHANGED vars
  <2>1. UNCHANGED <<entries, now, servers, taskVars, flushed>>
    BY <1>7 DEF vars, taskVars
  <2>2. StoreInv'
    BY <1>7 DEF vars, IInv, StoreInv
  <2> QED
    BY <2>1, <2>2, StoreStep
<1> QED
  BY <1>1, <1>2, <1>3, <1>4, <1>5, <1>6, <1>7 DEF Next

LEMMA ResolverInvariance == Spec => []IInv
  BY InitInvariant, StepKeepsInvariant, PTL DEF Spec

\* The tasks hold what their program counters say (dns.rs, handle_query).
THEOREM ResolverTypeCorrect == Spec => []TypeOK
<1>1. ASSUME IInv PROVE TypeOK
  <2>1. /\ now \in Times /\ servers \in 0..NumServers
        /\ records \in [RecordIds -> Store!Record \cup {NoRecord}]
        /\ issued \subseteq RecordIds
        /\ entries \in [Cache!Keys -> Cache!CacheEntry \cup {NoEntry}]
        /\ flushed \in [WireNames -> Times]
    BY <1>1 DEF IInv, ClockInv, StoreInv, FlushInv, CacheInv
  <2>2. TaskTypes
    BY <1>1 DEF IInv, TaskInv
  <2>3. ASSUME NEW t \in Tasks, pc[t] \in {"await", "put"}
        PROVE  deadline[t] \in now..(now + Timeout)
    BY <1>1, <2>1, <2>2, <2>3, ResolverAssumption
       DEF IInv, TaskInv, TaskTypes, OnTime, Times
  <2>4. ASSUME NEW t \in Tasks
        PROVE  /\ pc[t] \in {"cache", "send", "await", "put"} => HasQuestion(t)
               /\ pc[t] \in {"send", "await", "put"} => server[t] \in 1..servers
               /\ pc[t] = "put" => socket[t] # NoResponse
    BY <1>1 DEF IInv, TaskInv, OnTime, OwnSocket
  <2> QED
    BY <2>1, <2>2, <2>3, <2>4 DEF TypeOK, TaskTypes
<1> QED
  BY <1>1, ResolverInvariance, PTL

\* A cached response answers the question of its key, as it was spelled.
THEOREM CacheHoldsOwnAnswers == Spec => []HoldsOwnAnswers
<1>1. IInv => HoldsOwnAnswers
  BY DEF IInv, CacheInv, EntryOK, HoldsOwnAnswers
<1> QED
  BY <1>1, ResolverInvariance, PTL

\* The cache serves nothing that was asked longer ago than its lifetime and
\* one timeout.
THEOREM CacheIsRecent == Spec => []FreshMeansRecent
<1>1. ASSUME IInv, NEW k \in Cache!Keys, Cache!Fresh(k)
      PROVE  now - entries[k].response.asked_at < entries[k].ttl + Timeout
  <2>1. entries[k] \in Cache!CacheEntry /\ EntryOK(k) /\ entries[k] # NoEntry
    BY <1>1 DEF IInv, CacheInv, Cache!Fresh
  <2>2. /\ entries[k].created_at \in Nat /\ entries[k].ttl \in Nat
        /\ entries[k].response \in Responses
    BY <2>1 DEF Cache!CacheEntry
  <2>3. entries[k].response.asked_at \in Nat
    BY <2>2 DEF Responses
  <2>4. now \in Nat /\ Timeout \in Nat
    BY <1>1, ResolverAssumption DEF IInv, ClockInv, Times
  <2> QED
    BY <1>1, <2>1, <2>2, <2>3, <2>4 DEF EntryOK, Cache!Fresh
<1>2. IInv => FreshMeansRecent
  BY <1>1 DEF FreshMeansRecent
<1> QED
  BY <1>2, ResolverInvariance, PTL

\* No answer is served past its own TTL and one timeout: the lifetime of its
\* entry is no longer than its TTL, however many answers the response has.
THEOREM NoAnswerOutlivesItsTtl == Spec => []ServedWithinTtls
<1>1. ASSUME IInv, NEW k \in Cache!Keys, Cache!Fresh(k),
             NEW ttl \in entries[k].response.ttls
      PROVE  now - entries[k].response.asked_at < ttl + Timeout
  <2>1. entries[k] \in Cache!CacheEntry /\ EntryOK(k) /\ entries[k] # NoEntry
    BY <1>1 DEF IInv, CacheInv, Cache!Fresh
  <2>2. /\ entries[k].created_at \in Nat /\ entries[k].ttl \in Nat
        /\ entries[k].response \in Responses
    BY <2>1 DEF Cache!CacheEntry
  <2>3. entries[k].response.asked_at \in Nat /\ ttl \in Nat
    BY <1>1, <2>2 DEF Responses
  <2>4. now \in Nat /\ Timeout \in Nat
    BY <1>1, ResolverAssumption DEF IInv, ClockInv, Times
  <2>5. /\ entries[k].ttl <= ttl
        /\ entries[k].created_at <= entries[k].response.asked_at + Timeout
        /\ now - entries[k].created_at < entries[k].ttl
    BY <1>1, <2>1 DEF EntryOK, Cache!Fresh
  <2> QED
    BY <2>2, <2>3, <2>4, <2>5
<1>2. IInv => ServedWithinTtls
  BY <1>1 DEF ServedWithinTtls
<1> QED
  BY <1>2, ResolverInvariance, PTL

\* Nothing older than one timeout before a flush survives or outflanks it.
THEOREM FlushIsFinal == Spec => []FlushForgets
<1>1. IInv => FlushForgets
  BY DEF IInv, CacheInv, EntryOK, FlushForgets
<1> QED
  BY <1>1, ResolverInvariance, PTL

\* A request is in the server for at most one timeout per upstream server.
THEOREM WaitIsBounded == Spec => []WaitBounded
<1>1. ASSUME IInv, NEW t \in Tasks, pc[t] # "idle"
      PROVE  now - arrived[t] <= servers * Timeout
  <2>1. /\ now \in Nat /\ arrived[t] \in Nat /\ servers \in Nat
        /\ OnTime(t) /\ deadline[t] \in Nat
    BY <1>1, ResolverAssumption
       DEF IInv, ClockInv, TaskInv, TaskTypes, Times
  <2>2. Wait(servers) \in Nat
    BY <2>1, WaitFacts
  <2>3. now <= arrived[t] + Wait(servers)
    <3>1. CASE pc[t] \in {"lookup", "cache", "reply"}
      BY <2>1, <2>2, <3>1 DEF OnTime
    <3>2. CASE pc[t] = "send"
      <4>1. server[t] - 1 \in Nat /\ server[t] - 1 <= servers
        BY <2>1, <3>2 DEF OnTime
      <4>2. Wait(server[t] - 1) <= Wait(servers) /\ Wait(server[t] - 1) \in Nat
        BY <2>1, <4>1, WaitFacts
      <4> QED
        BY <2>1, <2>2, <3>2, <4>2 DEF OnTime
    <3>3. CASE pc[t] \in {"await", "put"}
      <4>1. server[t] \in Nat /\ server[t] <= servers
        BY <2>1, <3>3 DEF OnTime
      <4>2. Wait(server[t]) <= Wait(servers) /\ Wait(server[t]) \in Nat
        BY <2>1, <4>1, WaitFacts
      <4> QED
        BY <2>1, <2>2, <3>3, <4>2 DEF OnTime
    <3>4. pc[t] \in {"idle", "lookup", "cache", "send", "await", "put", "reply"}
      BY <1>1 DEF IInv, TaskInv, TaskTypes
    <3> QED
      BY <1>1, <3>1, <3>2, <3>3, <3>4
  <2> QED
    BY <2>1, <2>2, <2>3 DEF Wait
<1>2. IInv => WaitBounded
  BY <1>1 DEF WaitBounded
<1> QED
  BY <1>2, ResolverInvariance, PTL

-----------------------------------------------------------------------------
(* The way of a request.                                                   *)

\* A step of a task takes it forward or ends it.
LEMMA StepGoesForward ==
    ASSUME IInv, NEW t \in Tasks, Step(t) \/ AttemptFails(t),
           pc[t] # "idle", pc'[t] # "idle"
    PROVE  Forward(t)
<1>1. /\ pc \in [Tasks -> {"idle", "lookup", "cache", "send", "await", "put", "reply"}]
      /\ server \in [Tasks -> 0..NumServers]
      /\ OnTime(t)
  BY DEF IInv, TaskInv, TaskTypes
<1>2. CASE Reject(t) \/ Lookup(t)
  BY <1>1, <1>2 DEF Reject, Lookup, Replies, Goes, Forward, Stage
<1>3. CASE AskCache(t)
  <2>1. server[t] = 0 /\ pc[t] = "cache"
    BY <1>1, <1>3 DEF AskCache, OnTime
  <2> QED
    BY <1>1, <1>3, <2>1 DEF AskCache, Replies, Goes, Forward, Stage
<1>4. CASE Send(t) \/ Receive(t) \/ FillCache(t)
  BY <1>1, <1>4 DEF Send, Receive, FillCache, Replies, Goes, Forward, Stage
<1>5. CASE TimesOut(t) \/ AttemptFails(t)
  <2>1. pc[t] \in {"send", "await"} /\ TryNext(t)
    BY <1>5 DEF TimesOut, AttemptFails
  <2>2. CASE server[t] < servers
    BY <1>1, <2>1, <2>2 DEF TryNext, Goes, Forward
  <2>3. CASE ~(server[t] < servers)
    BY <1>1, <2>1, <2>3 DEF TryNext, Replies, Forward, Stage
  <2> QED
    BY <2>2, <2>3
<1>6. CASE Reply(t)
  BY <1>1, <1>6 DEF Reply
<1> QED
  BY <1>2, <1>3, <1>4, <1>5, <1>6 DEF Step

\* A request goes forward only, through the steps of an attempt and from each
\* server to the next, so no server is asked twice for it (dns.rs, forward).
THEOREM RequestGoesForward == Spec => OnlyForward
<1>1. ASSUME IInv, [Next]_vars, NEW t \in Tasks, pc[t] # "idle", pc'[t] # "idle"
      PROVE  Forward(t)
  <2>1. CASE \E u \in Tasks : Step(u) \/ AttemptFails(u)
    <3>1. PICK u \in Tasks : Step(u) \/ AttemptFails(u)
      BY <2>1
    <3>2. CASE u = t
      BY <1>1, <3>1, <3>2, StepGoesForward
    <3>3. CASE u # t
      <4>1. pc'[t] = pc[t] /\ server'[t] = server[t]
        BY <1>1, <3>1, <3>3
           DEF IInv, TaskInv, TaskTypes, Step, Reject, Lookup, AskCache, Send,
               TimesOut, AttemptFails, TryNext, Receive, FillCache, Reply,
               Replies, Goes
      <4> QED
        BY <4>1 DEF Forward
    <3> QED
      BY <3>2, <3>3
  <2>2. CASE \E u \in Tasks, req \in Queries \cup {Garbage} : Arrive(u, req)
    BY <1>1, <2>2 DEF IInv, TaskInv, TaskTypes, Arrive, Goes, Forward
  <2>3. CASE \/ \E u \in Tasks, body \in Bodies : UpstreamReplies(u, body)
             \/ Manage \/ Tick \/ UNCHANGED vars
    <3>1. pc' = pc /\ server' = server
      BY <2>3 DEF UpstreamReplies, Manage, create_record, delete_record,
                  delete_records, flush_cache, Tick, vars, taskVars
    <3> QED
      BY <3>1 DEF Forward
  <2> QED
    BY <1>1, <2>1, <2>2, <2>3 DEF Next
<1>2. IInv /\ [Next]_vars =>
          [\A t \in Tasks : pc[t] # "idle" /\ pc'[t] # "idle" => Forward(t)]_vars
  BY <1>1
<1> QED
  BY <1>2, ResolverInvariance, PTL DEF Spec, OnlyForward

=============================================================================
