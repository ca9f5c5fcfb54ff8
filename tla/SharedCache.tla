---------------------------- MODULE SharedCache -----------------------------
(***************************************************************************)
(* SharedCache (src/src/cache.rs): the cache behind its RwLock.  Every     *)
(* call, get included, holds the write lock from beginning to end, so each *)
(* is one step, and callers on any number of threads are a sequence of     *)
(* such steps in any order.  Time passes between them.                     *)
(***************************************************************************)
EXTENDS DnsCache

CONSTANT MaxTime         \* bound: the clock stops here

ASSUME TimeAssumption ==
    /\ MaxTime \in Nat
    /\ NoEntry \notin [response : Responses, expires : Nat]

VARIABLE answer          \* the key of the last call of get and what it returned

vars == <<entries, now, answer>>

Init == /\ entries = NoEntries
        /\ now = 0
        /\ answer = NoResponse

Get(key) == get(key) /\ answer' = <<key, Found(key)>> /\ UNCHANGED now

Put(key, response) == put(key, response) /\ UNCHANGED <<now, answer>>

Flush == flush /\ UNCHANGED <<now, answer>>

FlushDomain(name) == flush_domain(name) /\ UNCHANGED <<now, answer>>

Tick == now < MaxTime /\ now' = now + 1 /\ UNCHANGED <<entries, answer>>

Next == \/ \E key \in Keys : Get(key)
        \/ \E key \in Keys, response \in Responses : Put(key, response)
        \/ Flush
        \/ \E name \in Spellings : FlushDomain(name)
        \/ Tick

Spec == Init /\ [][Next]_vars
-----------------------------------------------------------------------------
\* The entries are well formed and none was made in the future.
TypeOK ==
    /\ now \in 0..MaxTime
    /\ entries \in [Keys -> CacheEntry \cup {NoEntry}]
    /\ \A k \in Keys : entries[k] # NoEntry => entries[k].created_at <= now
    /\ answer \in {NoResponse} \cup (Keys \X (Responses \cup {NoResponse}))

\* A response that get would still serve is younger than the TTL of each of
\* its answers: the lifetime is the shortest of them, through every sequence
\* of overwrites and late removals (cache.rs, extract_ttl and get).
ServedWithinEveryTtl ==
    \A k \in Keys : Fresh(k) =>
        \A t \in entries[k].response.ttls : now - entries[k].created_at < t

\* The lazy map, in which an expired entry stays until a get happens to touch
\* it, cannot be told from a cache that drops each entry the moment it
\* expires: get answers as TtlCache says, and a flush forgets everything or
\* what is held under the canonical spelling of one domain.
Held == [k \in Keys |-> IF Fresh(k)
                        THEN [response |-> entries[k].response,
                              expires  |-> entries[k].created_at + entries[k].ttl]
                        ELSE NoEntry]

Canonical(d) == [domain |-> d, letters |-> Lower, dot |-> TRUE]

Groups == {Keys} \cup {{k \in Keys : k[1] = Canonical(d)} : d \in Domains}

Abstract == INSTANCE TtlCache WITH
                held <- Held, FlushSets <- Groups,
                LongestTtl <- Greater(MaxTtl, NegativeTtl)

Promise == Abstract!Spec

\* cache.rs says that flush_domain "Removes all record types for that name",
\* and names that differ in capitals only are one name in the DNS: after it,
\* nothing is held for the domain.
FlushDomainClears ==
    [][\A name \in Spellings : FlushDomain(name) =>
          \A k \in Keys : k[1].domain = name.domain => entries'[k] = NoEntry]_vars

=============================================================================
