----------------------------- MODULE MCResolver -----------------------------
(***************************************************************************)
(* Model values and small sets for Resolver.                               *)
(***************************************************************************)
EXTENDS Resolver, TLC

CONSTANTS t1, t2, example, lower, mixed, TXT, PTR

MCTasks == {t1, t2}
MCSymmetry == Permutations(MCTasks)
MCDomains == {example}
MCLetters == {lower, mixed}

Name(letters) == [domain |-> example, letters |-> letters, dot |-> TRUE]
Query(id, letters, type) == [id |-> id, question |-> <<Name(letters), type>>]

\* For the answers: clients that differ in id and spelling, a type the store
\* does not have, and a message without a question.
MCQueries == {Query(1, lower, TXT), Query(2, lower, TXT), Query(2, mixed, TXT),
              Query(1, lower, PTR), [id |-> 1, question |-> NoQuestion]}

\* The API takes a name without its final dot, here capitalised as well.
Typed == [domain |-> example, letters |-> mixed, dot |-> FALSE]
MCNewRecords == [name : {Typed}, type : {TXT}, data : Data]
MCApiNames == {Typed, None}

Answers(ttls) == [parses |-> TRUE, ttls |-> ttls, short |-> FALSE]
Lasting(ttl) == Answers({ttl})
Stub == [parses |-> FALSE, ttls |-> {}, short |-> TRUE]

MCBodies == {Lasting(1), Stub}

\* For the cache: two clients that ask the same thing, one that spells it
\* differently, no record to answer from.
MCSameQueries == {Query(1, lower, TXT), Query(2, lower, TXT), Query(2, mixed, TXT)}
MCLastingBodies == {Lasting(2), Answers({0, 2})}

\* For progress: every client asks the same thing.
MCOneQuery == {Query(1, lower, TXT)}
MCOneSpelling == {lower}
MCAnyName == {None}

=============================================================================
