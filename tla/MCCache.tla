------------------------------ MODULE MCCache -------------------------------
(***************************************************************************)
(* Model values and responses for TLC.  One domain in two spellings and    *)
(* two types make four keys.  With MaxTtl = 2 and NegativeTtl = 3 the      *)
(* responses live for the shorter of their TTLs, which can be zero, and    *)
(* for the cap; Unreadable is a response that does not parse.              *)
(***************************************************************************)
EXTENDS SharedCache

CONSTANTS example, lower, mixed, A, AAAA

MCDomains == {example}
MCLetters == {lower, mixed}

Unreadable == [parses |-> FALSE, ttls |-> {}]

MCResponses == {[parses |-> TRUE, ttls |-> {0, 4}],
                [parses |-> TRUE, ttls |-> {}]}

MCWithUnreadable == MCResponses \cup {Unreadable}

=============================================================================
