------------------------------ MODULE TtlCache ------------------------------
(***************************************************************************)
(* What a cache of DNS responses promises, whatever its data structure: a  *)
(* response is held under its key until the time to live chosen for it     *)
(* runs out, the next Put or a flush that covers the key; the time to live *)
(* is at most LongestTtl and at most the TTL of every answer in the        *)
(* response; and a Get returns what is held at that very instant.  Nothing *)
(* expired is ever held here, so no question of when to remove it arises.  *)
(***************************************************************************)
EXTENDS Integers

CONSTANTS Keys,          \* what responses are held under
          Responses,     \* records with a field ttls: their answers' TTLs
          FlushSets,     \* the sets of keys that can be flushed together
          LongestTtl,
          MaxTime,       \* bound: the clock stops here
          NoEntry, NoResponse

VARIABLES held,          \* for each key, the response held and its expiry
          now,
          answer         \* the key of the last Get and what it returned

vars == <<held, now, answer>>

Init == /\ held = [k \in Keys |-> NoEntry]
        /\ now = 0
        /\ answer = NoResponse

MayLive(response, ttl) ==
    /\ ttl \in 0..LongestTtl
    /\ \A t \in response.ttls : ttl <= t

\* A time to live of zero is not held at all.
Put(k, response) ==
    /\ \E ttl \in 0..LongestTtl :
          /\ MayLive(response, ttl)
          /\ held' = [held EXCEPT ![k] =
                        IF ttl = 0 THEN NoEntry
                        ELSE [response |-> response, expires |-> now + ttl]]
    /\ UNCHANGED <<now, answer>>

Get(k) ==
    /\ answer' = <<k, IF held[k] = NoEntry THEN NoResponse ELSE held[k].response>>
    /\ UNCHANGED <<held, now>>

Flush(K) ==
    /\ held' = [k \in Keys |-> IF k \in K THEN NoEntry ELSE held[k]]
    /\ UNCHANGED <<now, answer>>

Expired(k) == held[k] # NoEntry /\ held[k].expires <= now + 1

Tick ==
    /\ now < MaxTime
    /\ now' = now + 1
    /\ held' = [k \in Keys |-> IF Expired(k) THEN NoEntry ELSE held[k]]
    /\ UNCHANGED answer

Next == \/ \E k \in Keys, r \in Responses : Put(k, r)
        \/ \E k \in Keys : Get(k)
        \/ \E K \in FlushSets : Flush(K)
        \/ Tick

Spec == Init /\ [][Next]_vars

=============================================================================
