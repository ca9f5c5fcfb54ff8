------------------------------ MODULE DnsCache ------------------------------
(***************************************************************************)
(* DnsCache (src/src/cache.rs): the map from (name, query type) to a raw   *)
(* upstream response, and its operations as operators on the map and the   *)
(* clock.  SharedCache makes them the steps of a specification of their    *)
(* own and Resolver calls them from the tasks that answer queries.  The    *)
(* map is a total function, NoEntry where the HashMap has no such key.     *)
(***************************************************************************)
EXTENDS DnsNames, FiniteSetsExt, Integers

CONSTANTS Types,         \* hickory's RecordType
          Responses,     \* the raw responses an upstream can return
          MaxTtl,        \* max_ttl, from CACHE_TTL
          NegativeTtl,   \* NEGATIVE_CACHE_TTL
          NoEntry, NoResponse

\* A response is what extract_ttl can learn from its bytes: whether they
\* parse, and the TTLs of the answers (none when they do not parse).
CacheEntry == [response : Responses, created_at : Nat, ttl : Nat]

ASSUME CacheAssumption ==
    /\ MaxTtl \in Nat /\ NegativeTtl \in Nat
    /\ \A r \in Responses : /\ r.parses \in BOOLEAN
                            /\ r.ttls \in SUBSET Nat
                            /\ ~r.parses => r.ttls = {}
    /\ NoEntry \notin CacheEntry
    /\ NoResponse \notin Responses

VARIABLES entries,       \* the HashMap
          now            \* what Instant::now() returns

Keys == WireNames \X Types

NoEntries == [k \in Keys |-> NoEntry]

Lesser(a, b) == IF a <= b THEN a ELSE b
Greater(a, b) == IF a <= b THEN b ELSE a

\* Mutant: the longest of the TTLs instead of the shortest.
extract_ttl_longest(response) ==
    IF ~response.parses THEN NegativeTtl
    ELSE IF response.ttls = {} THEN Lesser(NegativeTtl, MaxTtl)
    ELSE Lesser(Max(response.ttls), MaxTtl)

\* Only what parses is held to the cap: the else branch returns
\* NEGATIVE_CACHE_TTL as it is.
extract_ttl(response) ==
    IF ~response.parses THEN NegativeTtl
    ELSE IF response.ttls = {} THEN Lesser(NegativeTtl, MaxTtl)
    ELSE Lesser(Min(response.ttls), MaxTtl)

\* Mutant: an entry is still good at the very moment it expires.
Fresh_inclusive(key) == /\ entries[key] # NoEntry
                        /\ now - entries[key].created_at <= entries[key].ttl

\* created_at.elapsed() < ttl
Fresh(key) == /\ entries[key] # NoEntry
              /\ now - entries[key].created_at < entries[key].ttl

\* Mutant: a hit counts as a new start of the entry's lifetime.
get_renewing(key) ==
    entries' = IF Fresh(key) THEN [entries EXCEPT ![key].created_at = now]
               ELSE [entries EXCEPT ![key] = NoEntry]

\* What get returns, and what it leaves in the map.
Found(key) == IF Fresh(key) THEN entries[key].response ELSE NoResponse
get(key) == entries' = IF Fresh(key) THEN entries
                       ELSE [entries EXCEPT ![key] = NoEntry]

\* Mutant: the entry records when it expires instead of when it was made.
put_expiry(key, response) ==
    entries' = [entries EXCEPT ![key] =
                  [response   |-> response,
                   created_at |-> now + extract_ttl(response),
                   ttl        |-> extract_ttl(response)]]

put(key, response) ==
    entries' = [entries EXCEPT ![key] = [response   |-> response,
                                         created_at |-> now,
                                         ttl        |-> extract_ttl(response)]]

flush == entries' = NoEntries

\* Mutant: the target does not get the final dot that the keys have.
FlushedBy_undotted(name) == {k \in Keys : k[1] = to_ascii_lowercase(name)}

\* The target is lower case; the names in the keys are as they were queried.
FlushedBy(name) == {k \in Keys : k[1] = normalize_name(name)}
flush_domain(name) ==
    entries' = [k \in Keys |-> IF k \in FlushedBy(name) THEN NoEntry
                               ELSE entries[k]]

=============================================================================
