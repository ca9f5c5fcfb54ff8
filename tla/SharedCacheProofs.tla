------------------------- MODULE SharedCacheProofs --------------------------
(***************************************************************************)
(* Proofs about SharedCache, for every set of names, types and responses,  *)
(* every cap and every negative TTL.                                       *)
(***************************************************************************)
EXTENDS SharedCache, Lemmas

-----------------------------------------------------------------------------
(* The shortest of a set of TTLs exists, however large the set (Lemmas).    *)

\* Min, then, is the least member.
LEMMA MinOfNats ==
    ASSUME NEW S \in SUBSET Nat, S # {}
    PROVE  Min(S) \in S /\ \A y \in S : Min(S) <= y
  BY LeastOfNats DEF Min

\* What extract_ttl returns is a natural number, at most every answer's TTL
\* and at most the larger of the two limits it knows.
LEMMA TtlBounds ==
    ASSUME NEW r \in Responses
    PROVE  /\ extract_ttl(r) \in 0..Greater(MaxTtl, NegativeTtl)
           /\ \A t \in r.ttls : extract_ttl(r) <= t
<1> USE CacheAssumption
<1>1. CASE ~r.parses
  BY <1>1 DEF extract_ttl, Greater
<1>2. CASE r.parses /\ r.ttls = {}
  <2>1. extract_ttl(r) = Lesser(NegativeTtl, MaxTtl)
    BY <1>2 DEF extract_ttl
  <2> QED
    BY <1>2, <2>1 DEF Lesser, Greater
<1>3. CASE r.parses /\ r.ttls # {}
  <2>1. Min(r.ttls) \in r.ttls /\ \A t \in r.ttls : Min(r.ttls) <= t
    BY <1>3, MinOfNats
  <2> DEFINE m == Min(r.ttls)
  <2>2. extract_ttl(r) = Lesser(m, MaxTtl)
    BY <1>3 DEF extract_ttl
  <2>3. m \in Nat /\ \A t \in r.ttls : t \in Nat /\ m <= t
    BY <2>1
  <2> HIDE DEF m
  <2>4. extract_ttl(r) \in 0..MaxTtl /\ extract_ttl(r) <= m
    BY <2>2, <2>3 DEF Lesser
  <2>5. extract_ttl(r) \in 0..Greater(MaxTtl, NegativeTtl)
    BY <2>4 DEF Greater
  <2>6. \A t \in r.ttls : extract_ttl(r) <= t
    BY <2>3, <2>4
  <2> QED
    BY <2>5, <2>6
<1> QED
  BY <1>1, <1>2, <1>3

-----------------------------------------------------------------------------
(* The inductive invariant: an entry's lifetime is the one computed from   *)
(* the response stored with it.                                            *)

OwnTtl == \A k \in Keys : entries[k] # NoEntry =>
              entries[k].ttl = extract_ttl(entries[k].response)

IInv == TypeOK /\ OwnTtl

\* A new entry made now from a response is well formed.
LEMMA PutEntry ==
    ASSUME TypeOK, NEW r \in Responses
    PROVE  [response |-> r, created_at |-> now, ttl |-> extract_ttl(r)]
               \in CacheEntry
<1>1. extract_ttl(r) \in Nat
  BY TtlBounds, CacheAssumption DEF Greater
<1> QED
  BY <1>1 DEF CacheEntry, TypeOK

\* No step breaks the invariant.
LEMMA StepKeepsIInv == IInv /\ [Next]_vars => IInv'
<1> SUFFICES ASSUME IInv, [Next]_vars PROVE IInv'
  OBVIOUS
<1> USE CacheAssumption, TimeAssumption DEF IInv, TypeOK, OwnTtl
<1>1. ASSUME NEW key \in Keys, Get(key) PROVE IInv'
  <2>1. CASE Fresh(key)
    BY <1>1, <2>1 DEF Get, get, Found, Fresh, CacheEntry
  <2>2. CASE ~Fresh(key)
    BY <1>1, <2>2 DEF Get, get, Found
  <2> QED BY <2>1, <2>2
<1>2. ASSUME NEW key \in Keys, NEW r \in Responses, Put(key, r) PROVE IInv'
  <2> DEFINE e == [response |-> r, created_at |-> now, ttl |-> extract_ttl(r)]
  <2>1. e \in CacheEntry
    BY PutEntry
  <2>2. entries' = [entries EXCEPT ![key] = e] /\ UNCHANGED <<now, answer>>
    BY <1>2 DEF Put, put
  <2>3. e.created_at = now /\ e.ttl = extract_ttl(e.response)
    OBVIOUS
  <2> HIDE DEF e
  <2> QED
    BY <2>1, <2>2, <2>3
<1>3. CASE Flush
  BY <1>3 DEF Flush, flush, NoEntries
<1>4. ASSUME NEW name \in Spellings, FlushDomain(name) PROVE IInv'
  BY <1>4 DEF FlushDomain, flush_domain
<1>5. CASE Tick
  BY <1>5 DEF Tick, CacheEntry
<1>6. CASE UNCHANGED vars
  BY <1>6 DEF vars
<1> QED
  BY <1>1, <1>2, <1>3, <1>4, <1>5, <1>6 DEF Next

LEMMA InitIInv == Init => IInv
  BY TimeAssumption DEF Init, IInv, TypeOK, OwnTtl, NoEntries

\* The invariant holds throughout every behaviour.
THEOREM Invariance == Spec => []IInv
  BY InitIInv, StepKeepsIInv, PTL DEF Spec

\* The entries stay well formed and no entry is made in the future.
THEOREM TypeCorrect == Spec => []TypeOK
<1>1. IInv => TypeOK
  BY DEF IInv
<1> QED
  BY <1>1, Invariance, PTL

\* What get would serve is younger than the TTL of each of its answers.
THEOREM NeverServedPastATtl == Spec => []ServedWithinEveryTtl
<1>1. IInv => ServedWithinEveryTtl
  <2> SUFFICES ASSUME IInv, NEW k \in Keys, Fresh(k),
                      NEW t \in entries[k].response.ttls
               PROVE  now - entries[k].created_at < t
    BY DEF ServedWithinEveryTtl
  <2> DEFINE e == entries[k]
  <2>1. e \in CacheEntry /\ e.ttl = extract_ttl(e.response)
    BY DEF IInv, TypeOK, OwnTtl, Fresh
  <2>2. e.response \in Responses /\ e.created_at \in Nat /\ e.ttl \in Nat
    BY <2>1 DEF CacheEntry
  <2>3. e.ttl <= t /\ t \in Nat
    BY <2>1, <2>2, TtlBounds, CacheAssumption
  <2> QED
    BY <2>2, <2>3 DEF Fresh, IInv, TypeOK
<1> QED
  BY <1>1, Invariance, PTL

-----------------------------------------------------------------------------
(* Refinement: each call is the step of TtlCache with the same name, or    *)
(* changes nothing that TtlCache can see.                                  *)

\* What TtlCache sees of a key, and that it is never NoEntry by accident.
LEMMA HeldEntry ==
    ASSUME IInv, NEW k \in Keys, Fresh(k)
    PROVE  /\ Held[k] # NoEntry
           /\ Held[k].response = entries[k].response
           /\ Held[k].expires = entries[k].created_at + entries[k].ttl
<1>1. entries[k] \in CacheEntry
  BY DEF IInv, TypeOK, Fresh
<1>2. Held[k] = [response |-> entries[k].response,
                 expires  |-> entries[k].created_at + entries[k].ttl]
  BY DEF Held
<1>3. Held[k] \in [response : Responses, expires : Nat]
  BY <1>1, <1>2 DEF CacheEntry
<1> QED
  BY <1>2, <1>3, TimeAssumption

LEMMA InitRefines == Init => Abstract!Init
  BY DEF Init, Abstract!Init, Held, Fresh, NoEntries

\* get serves exactly what is held; what it removes was held no more.
LEMMA GetRefines ==
    ASSUME IInv, NEW key \in Keys, Get(key)
    PROVE  Abstract!Get(key)
<1>1. Held' = Held
  <2>1. CASE Fresh(key)
    BY <2>1 DEF Get, get, Held, Fresh
  <2>2. CASE ~Fresh(key)
    <3>1. entries' = [entries EXCEPT ![key] = NoEntry] /\ now' = now
      BY <2>2 DEF Get, get
    <3>2. ASSUME NEW k \in Keys PROVE Held'[k] = Held[k]
      BY <3>1, <2>2 DEF Held, Fresh, IInv, TypeOK
    <3> QED
      BY <3>2 DEF Held
  <2> QED
    BY <2>1, <2>2
<1>2. CASE Fresh(key)
  BY <1>1, <1>2, HeldEntry DEF Get, Found, Abstract!Get
<1>3. CASE ~Fresh(key)
  BY <1>1, <1>3 DEF Get, Found, Held, Abstract!Get
<1> QED
  BY <1>2, <1>3

\* put holds the response for the lifetime extract_ttl gives it.
LEMMA PutRefines ==
    ASSUME IInv, NEW key \in Keys, NEW r \in Responses, Put(key, r)
    PROVE  Abstract!Put(key, r)
<1> DEFINE ttl == extract_ttl(r)
           e == [response |-> r, created_at |-> now, ttl |-> ttl]
           h == IF ttl = 0 THEN NoEntry
                ELSE [response |-> r, expires |-> now + ttl]
<1>1. /\ ttl \in 0..Greater(MaxTtl, NegativeTtl)
      /\ \A t \in r.ttls : ttl <= t
  BY TtlBounds
<1>2. entries' = [entries EXCEPT ![key] = e] /\ UNCHANGED <<now, answer>>
  BY DEF Put, put
<1>3. e \in CacheEntry
  BY PutEntry DEF IInv
<1>4. Held'[key] = h
  <2>1. entries'[key] = e /\ e # NoEntry
    BY <1>2, <1>3, CacheAssumption DEF IInv, TypeOK
  <2>2. now \in Nat /\ now' = now /\ ttl \in Nat
    BY <1>1, <1>2, CacheAssumption DEF IInv, TypeOK, Greater
  <2>3. Fresh(key)' <=> ttl # 0
    BY <2>1, <2>2 DEF Fresh
  <2> QED
    BY <2>1, <2>3 DEF Held
<1>5. ASSUME NEW k \in Keys, k # key PROVE Held'[k] = Held[k]
  BY <1>2, <1>5 DEF Held, Fresh, IInv, TypeOK
<1>6. Held' = [Held EXCEPT ![key] = h]
  BY <1>4, <1>5 DEF Held
<1> HIDE DEF ttl, h
<1>7. Abstract!MayLive(r, ttl)
  BY <1>1 DEF Abstract!MayLive
<1> QED
  BY <1>1, <1>2, <1>6, <1>7 DEF Abstract!Put, h

\* A flush, of everything or of a name, forgets a group of keys.
LEMMA FlushRefines ==
    ASSUME IInv, Flush
    PROVE  \E K \in Groups : Abstract!Flush(K)
<1>1. \A k \in Keys : Held'[k] = NoEntry
  BY DEF Flush, flush, NoEntries, Held, Fresh
<1>2. Abstract!Flush(Keys)
  BY <1>1 DEF Abstract!Flush, Held, Flush
<1> QED
  BY <1>2 DEF Groups

LEMMA FlushDomainRefines ==
    ASSUME IInv, NEW name \in Spellings, FlushDomain(name)
    PROVE  \E K \in Groups : Abstract!Flush(K)
<1> DEFINE K == FlushedBy(name)
<1>1. ASSUME NEW k \in Keys
      PROVE  Held'[k] = IF k \in K THEN NoEntry ELSE Held[k]
  BY DEF FlushDomain, flush_domain, Held, Fresh
<1>2. Abstract!Flush(K)
  BY <1>1 DEF Abstract!Flush, Held, FlushDomain
<1>3. name.domain \in Domains /\ normalize_name(name) = Canonical(name.domain)
  BY CanonicalForm DEF Canonical, Spellings
<1>4. K = {k \in Keys : k[1] = Canonical(name.domain)}
  BY <1>3 DEF FlushedBy
<1> QED
  BY <1>2, <1>3, <1>4 DEF Groups

\* A tick expires what its lifetime says, whether or not it is removed.
LEMMA TickRefines ==
    ASSUME IInv, Tick
    PROVE  Abstract!Tick
<1>1. now \in Nat /\ now' = now + 1 /\ entries' = entries
  BY DEF Tick, IInv, TypeOK
<1>2. ASSUME NEW k \in Keys
      PROVE  Held'[k] = IF Abstract!Expired(k) THEN NoEntry ELSE Held[k]
  <2>1. CASE Fresh(k)
    <3>1. entries[k] \in CacheEntry
      BY <2>1 DEF IInv, TypeOK, Fresh
    <3>2. Fresh(k)' <=> ~Abstract!Expired(k)
      BY <1>1, <2>1, <3>1, HeldEntry DEF Fresh, Abstract!Expired, CacheEntry
    <3> QED
      BY <1>1, <2>1, <3>2 DEF Held
  <2>2. CASE ~Fresh(k)
    <3>1. ~Fresh(k)'
      BY <1>1, <2>2 DEF Fresh, IInv, TypeOK, CacheEntry
    <3> QED
      BY <2>2, <3>1 DEF Held, Abstract!Expired
  <2> QED
    BY <2>1, <2>2
<1> QED
  BY <1>2 DEF Abstract!Tick, Tick, Held

LEMMA StepRefines == IInv /\ [Next]_vars => [Abstract!Next]_(Abstract!vars)
<1> SUFFICES ASSUME IInv, [Next]_vars PROVE [Abstract!Next]_(Abstract!vars)
  OBVIOUS
<1>1. ASSUME NEW key \in Keys, Get(key) PROVE Abstract!Next
  BY <1>1, GetRefines DEF Abstract!Next
<1>2. ASSUME NEW key \in Keys, NEW r \in Responses, Put(key, r)
      PROVE  Abstract!Next
  BY <1>2, PutRefines DEF Abstract!Next
<1>3. CASE Flush
  BY <1>3, FlushRefines DEF Abstract!Next
<1>4. ASSUME NEW name \in Spellings, FlushDomain(name) PROVE Abstract!Next
  BY <1>4, FlushDomainRefines DEF Abstract!Next
<1>5. CASE Tick
  BY <1>5, TickRefines DEF Abstract!Next
<1>6. CASE UNCHANGED vars
  BY <1>6 DEF vars, Abstract!vars, Held, Fresh
<1> QED
  BY <1>1, <1>2, <1>3, <1>4, <1>5, <1>6 DEF Next

\* The lazily cleaned map keeps the promise of the cache that drops an entry
\* the moment it expires (cache.rs, get and put).
THEOREM Refinement == Spec => Promise
<1>1. IInv /\ [Next]_vars => [Abstract!Next]_(Abstract!vars)
  BY StepRefines
<1>2. Init => Abstract!Init
  BY InitRefines
<1> QED
  BY <1>1, <1>2, Invariance, PTL DEF Spec, Promise, Abstract!Spec

=============================================================================
