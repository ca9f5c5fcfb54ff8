--------------------------- MODULE ServiceProofs ----------------------------
(***************************************************************************)
(* The tasks of Resolver give the service of DnsService, for any number of *)
(* tasks and servers, any names, records, requests and responses.          *)
(***************************************************************************)
EXTENDS ResolverProofs

-----------------------------------------------------------------------------
(* Two more invariants.                                                    *)

\* Only a task that is about to reply has an answer.
AnswerInv == /\ answer = [t \in Tasks |-> answer[t]]
             /\ \A t \in Tasks : pc[t] # "reply" => answer[t] = NoAnswer

\* The store holds canonical names only.
CanonicalInv == \A r \in Store!Present : r.name = normalize_name(r.name)

LEMMA GoesKeepsAnswers ==
    ASSUME IInv, AnswerInv, NEW t \in Tasks, NEW p, p # "reply", pc[t] # "reply",
           Goes(t, p)
    PROVE  AnswerInv'
  BY DEF IInv, TaskInv, TaskTypes, AnswerInv, Goes

LEMMA RepliesKeepsAnswers ==
    ASSUME IInv, AnswerInv, NEW t \in Tasks, NEW a, Replies(t, a)
    PROVE  AnswerInv'
  BY DEF IInv, TaskInv, TaskTypes, AnswerInv, Replies

LEMMA AnswerStep == IInv /\ AnswerInv /\ [Next]_vars => AnswerInv'
<1> SUFFICES ASSUME IInv, AnswerInv, [Next]_vars PROVE AnswerInv'
  OBVIOUS
<1>1. ASSUME NEW t \in Tasks, NEW req \in Queries \cup {Garbage}, Arrive(t, req)
      PROVE  AnswerInv'
  BY <1>1, GoesKeepsAnswers DEF Arrive
<1>2. ASSUME NEW t \in Tasks, Reject(t) \/ FillCache(t) PROVE AnswerInv'
  BY <1>2, RepliesKeepsAnswers DEF Reject, FillCache
<1>3. ASSUME NEW t \in Tasks, Lookup(t) PROVE AnswerInv'
  BY <1>3, GoesKeepsAnswers, RepliesKeepsAnswers DEF Lookup
<1>4. ASSUME NEW t \in Tasks, AskCache(t) PROVE AnswerInv'
  BY <1>4, GoesKeepsAnswers, RepliesKeepsAnswers DEF AskCache
<1>5. ASSUME NEW t \in Tasks, Send(t) \/ Receive(t) PROVE AnswerInv'
  BY <1>5, GoesKeepsAnswers DEF Send, Receive
<1>6. ASSUME NEW t \in Tasks, TimesOut(t) \/ AttemptFails(t) PROVE AnswerInv'
  BY <1>6, GoesKeepsAnswers, RepliesKeepsAnswers
     DEF TimesOut, AttemptFails, TryNext
<1>7. ASSUME NEW t \in Tasks, Reply(t) PROVE AnswerInv'
  BY <1>7 DEF IInv, TaskInv, TaskTypes, AnswerInv, Reply
<1>8. ASSUME UNCHANGED <<pc, answer>> PROVE AnswerInv'
  BY <1>8 DEF AnswerInv
<1>9. ASSUME NEW t \in Tasks, NEW body \in Bodies, UpstreamReplies(t, body)
      PROVE  AnswerInv'
  BY <1>8, <1>9 DEF UpstreamReplies
<1>10. CASE Manage \/ Tick \/ UNCHANGED vars
  BY <1>8, <1>10 DEF Manage, create_record, delete_record, delete_records,
                     flush_cache, Tick, taskVars, vars
<1> QED
  BY <1>1, <1>2, <1>3, <1>4, <1>5, <1>6, <1>7, <1>9, <1>10 DEF Next, Step

LEMMA StoreUnchanged ==
    ASSUME UNCHANGED records
    PROVE  Store!Present' = Store!Present
  BY DEF Store!Present

LEMMA SameNormalize ==
    \A n : Store!normalize_name(n) = normalize_name(n)
  BY DEF normalize_name, to_ascii_lowercase,
         Store!normalize_name, Store!to_ascii_lowercase

LEMMA CanonicalStep == IInv /\ CanonicalInv /\ [Next]_vars => CanonicalInv'
<1> SUFFICES ASSUME IInv, CanonicalInv, [Next]_vars PROVE CanonicalInv'
  OBVIOUS
<1>1. CASE UNCHANGED records
  BY <1>1, StoreUnchanged DEF CanonicalInv
<1>2. ASSUME NEW req \in NewRecords, create_record(req) PROVE CanonicalInv'
  <2>1. PICK id \in RecordIds : Store!add(id, req)
    BY <1>2 DEF create_record
  <2> DEFINE m == Store!Made(id, req)
  <2>2. m.name = normalize_name(m.name)
    <3>1. req.name \in Spellings
      BY ResolverAssumption
    <3>2. m.name = normalize_name(req.name)
      BY SameNormalize DEF Store!Made
    <3> HIDE DEF m
    <3> QED
      BY <3>1, <3>2, CanonicalForm
  <2>3. Store!Present' \subseteq Store!Present \cup {m}
    <3>1. records' = [records EXCEPT ![id] = m]
      BY <2>1 DEF Store!add
    <3> HIDE DEF m
    <3> QED
      BY <3>1 DEF IInv, StoreInv, Store!Present
  <2> HIDE DEF m
  <2> QED
    BY <2>2, <2>3 DEF CanonicalInv
<1>3. ASSUME Store!Present' \subseteq Store!Present PROVE CanonicalInv'
  BY <1>3 DEF CanonicalInv
<1>4. ASSUME NEW id \in RecordIds, delete_record(id) PROVE CanonicalInv'
  <2>1. Store!Present' \subseteq Store!Present
    BY <1>4 DEF IInv, StoreInv, delete_record, Store!delete, Store!Present
  <2> QED
    BY <1>3, <2>1
<1>5. ASSUME NEW name \in ApiNames, NEW type \in SupportedTypes \cup {None},
             delete_records(name, type)
      PROVE  CanonicalInv'
  <2>1. Store!Present' \subseteq Store!Present
    <3>1. CASE name = None /\ type = None
      BY <1>5, <3>1 DEF delete_records, Store!delete_all, Store!Present
    <3>2. CASE ~ (name = None /\ type = None)
      <4>1. \A id \in RecordIds : records'[id] \in {NoRecord, records[id]}
        BY <1>5, <3>2 DEF delete_records, Store!delete_filtered
      <4> QED
        BY <4>1 DEF Store!Present
    <3> QED
      BY <3>1, <3>2
  <2> QED
    BY <1>3, <2>1
<1>6. \/ UNCHANGED records
      \/ \E req \in NewRecords : create_record(req)
      \/ \E id \in RecordIds : delete_record(id)
      \/ \E name \in ApiNames, type \in SupportedTypes \cup {None} :
            delete_records(name, type)
  BY DEF Next, Step, Manage, Arrive, Reject, Lookup, AskCache, Send, TimesOut,
         AttemptFails, TryNext, Receive, FillCache, Reply, UpstreamReplies,
         flush_cache, Tick, storeVars, vars
<1> QED
  BY <1>1, <1>2, <1>4, <1>5, <1>6

LEMMA ServiceInvariance == Spec => [](IInv /\ AnswerInv /\ CanonicalInv)
<1>1. Init => AnswerInv
  BY DEF Init, AnswerInv
<1>2. Init => CanonicalInv
  BY DEF Init, CanonicalInv, Store!Present
<1> QED
  BY <1>1, <1>2, AnswerStep, CanonicalStep, ResolverInvariance, PTL DEF Spec

-----------------------------------------------------------------------------
(* What a task and its client see of the store.                            *)

\* The records the store returns are those of the zone that match.
LEMMA LocalIsMatching ==
    ASSUME IInv, CanonicalInv, NEW t \in Tasks, pc[t] # "idle", HasQuestion(t)
    PROVE  Abstract!Matching(t) = {DomainRecord(r) : r \in LocalRecords(t)}
<1> DEFINE name == request[t].question[1]
           type == request[t].question[2]
<1>1. name \in Spellings
  <2>1. request[t] \in Requests
    BY DEF IInv, TaskInv, TaskTypes, OwnSocket, HasQuestion
  <2>2. request[t].question \in Questions
    BY <2>1 DEF Requests, HasQuestion
  <2> QED
    BY <2>2 DEF Questions, WireNames
<1>2. ASSUME NEW r \in Store!Present
      PROVE  /\ r.type \in SupportedTypes
             /\ r.name = normalize_name(name) <=> r.name.domain = name.domain
  <2>1. r \in Store!Record
    BY DEF IInv, StoreInv, Store!Present
  <2>2. r.name \in Spellings /\ r.type \in SupportedTypes
    BY <2>1 DEF Store!Record, Store!Spellings, Spellings
  <2>3. r.name = normalize_name(r.name)
    BY DEF CanonicalInv
  <2> HIDE DEF name
  <2>4. normalize_name(r.name) = normalize_name(name)
           <=> r.name.domain = name.domain
    BY <1>1, <2>2, CanonicalNames
  <2> QED
    BY <2>2, <2>3, <2>4
<1>3. LocalRecords(t) = {r \in Store!Present : r.name = normalize_name(name)
                                               /\ r.type = type}
  <2>1. Store!lookup(name, type) = {r \in Store!Present :
                       r.name = normalize_name(name) /\ r.type = type}
    BY SameNormalize DEF Store!lookup
  <2> QED
    BY <1>2, <2>1 DEF LocalRecords
<1>4. LocalRecords(t) = {r \in Store!Present : r.name.domain = name.domain
                                               /\ r.type = type}
  BY <1>2, <1>3
<1>5. Abstract!Matching(t) =
         {z \in {DomainRecord(r) : r \in Store!Present} :
             z.domain = name.domain /\ z.type = type}
  BY DEF Abstract!Matching
<1>6. \A r : DomainRecord(r).domain = r.name.domain /\ DomainRecord(r).type = r.type
  BY DEF DomainRecord
<1> HIDE DEF name, type
<1> QED
  BY <1>4, <1>5, <1>6

\* The phase of a task moves with its program counter.
LEMMA PhaseOfOthers ==
    ASSUME IInv, AnswerInv, NEW t \in Tasks,
           \A u \in Tasks \ {t} : pc'[u] = pc[u] /\ request'[u] = request[u]
                                  /\ answer'[u] = answer[u],
           UNCHANGED records
    PROVE  /\ Abstract!Others(t)
           /\ {DomainRecord(r) : r \in Store!Present}' =
                  {DomainRecord(r) : r \in Store!Present}
<1>1. \A u \in Tasks \ {t} : Phase(u)' = Phase(u)
  BY DEF Phase
<1> QED
  BY <1>1, StoreUnchanged DEF Abstract!Others

\* A step that keeps the phase of each task, its request and its answer, and
\* the records, is nothing to DnsService.
LEMMA Unseen ==
    ASSUME NEW t \in Tasks, IInv,
           NEW p, pc' = [pc EXCEPT ![t] = p],
           pc[t] \in {"cache", "send", "await", "put"},
           p \in {"cache", "send", "await", "put"},
           UNCHANGED <<records, request, answer>>
    PROVE  UNCHANGED Abstract!vars
<1>1. \A u \in Tasks : Phase(u)' = Phase(u)
  BY DEF IInv, TaskInv, TaskTypes, Phase
<1> QED
  BY <1>1, StoreUnchanged DEF Abstract!vars

\* A step of t that replies.
LEMMA RepliesMove ==
    ASSUME IInv, AnswerInv, NEW t \in Tasks, NEW a, Replies(t, a),
           UNCHANGED <<records, request>>
    PROVE  /\ answer'[t] = a
           /\ pc[t] = "lookup" => Abstract!Moves(t, "asked", "answered")
           /\ pc[t] \in {"cache", "send", "await", "put"} =>
                 Abstract!Moves(t, "elsewhere", "answered")
<1>1. /\ pc' = [pc EXCEPT ![t] = "reply"]
      /\ answer' = [answer EXCEPT ![t] = a]
  BY DEF Replies
<1>2. Phase(t)' = "answered" /\ answer'[t] = a
  BY <1>1 DEF IInv, TaskInv, TaskTypes, AnswerInv, Phase
<1>3. /\ pc[t] = "lookup" => Phase(t) = "asked"
      /\ pc[t] \in {"cache", "send", "await", "put"} => Phase(t) = "elsewhere"
  BY DEF Phase
<1>4. /\ Abstract!Others(t)
      /\ {DomainRecord(r) : r \in Store!Present}' =
             {DomainRecord(r) : r \in Store!Present}
  BY <1>1, PhaseOfOthers DEF IInv, TaskInv, TaskTypes, AnswerInv
<1> QED
  BY <1>2, <1>3, <1>4 DEF Abstract!Moves

-----------------------------------------------------------------------------
(* The steps, one by one.                                                  *)

LEMMA ArriveRefines ==
    ASSUME IInv, AnswerInv, NEW t \in Tasks, NEW req \in Queries \cup {Garbage},
           Arrive(t, req)
    PROVE  Abstract!Ask(t)
<1>1. /\ pc[t] = "idle" /\ pc' = [pc EXCEPT ![t] = "lookup"]
      /\ request' = [request EXCEPT ![t] = req]
      /\ UNCHANGED <<records, answer>>
  BY DEF Arrive, Goes, storeVars
<1>2. Phase(t) = "idle" /\ Phase(t)' = "asked"
  BY <1>1 DEF IInv, TaskInv, TaskTypes, Phase
<1>3. request'[t] \in Requests \cup {Garbage} /\ answer'[t] = NoAnswer
  BY <1>1, ResolverAssumption DEF IInv, TaskInv, TaskTypes, AnswerInv
<1>4. /\ Abstract!Others(t)
      /\ {DomainRecord(r) : r \in Store!Present}' =
             {DomainRecord(r) : r \in Store!Present}
  BY <1>1, PhaseOfOthers DEF IInv, TaskInv, TaskTypes
<1> QED
  BY <1>2, <1>3, <1>4 DEF Abstract!Ask

LEMMA RejectRefines ==
    ASSUME IInv, AnswerInv, NEW t \in Tasks, Reject(t)
    PROVE  Abstract!Malformed(t)
<1> DEFINE a == IF request[t] = Garbage THEN NoAnswer
                ELSE Message(request[t], "FormErr", {})
<1>1. /\ pc[t] = "lookup" /\ ~HasQuestion(t) /\ Replies(t, a)
      /\ UNCHANGED <<records, request>>
  BY DEF Reject, storeVars
<1>2. answer'[t] = a /\ Abstract!Moves(t, "asked", "answered")
  BY <1>1, RepliesMove
<1> QED
  BY <1>1, <1>2
     DEF Abstract!Malformed, Abstract!HasQuestion, Abstract!Answers,
         HasQuestion, Message

LEMMA LookupRefines ==
    ASSUME IInv, AnswerInv, CanonicalInv, NEW t \in Tasks, Lookup(t)
    PROVE  Abstract!Local(t) \/ Abstract!NotLocal(t)
<1> DEFINE R == LocalRecords(t)
           Z == Abstract!Matching(t)
<1>1. /\ pc[t] = "lookup" /\ HasQuestion(t)
      /\ UNCHANGED <<records, request>>
  BY DEF Lookup, storeVars
<1>2. Z = {DomainRecord(r) : r \in R} /\ (Z = {} <=> R = {})
  BY <1>1, LocalIsMatching
<1>3. Abstract!HasQuestion(t)
  BY <1>1 DEF Abstract!HasQuestion, HasQuestion
<1>4. CASE R # {}
  <2>1. Replies(t, LocalAnswer(request[t], R))
    BY <1>4 DEF Lookup
  <2>2. /\ answer'[t] = LocalAnswer(request[t], R)
        /\ Abstract!Moves(t, "asked", "answered")
    BY <1>1, <2>1, RepliesMove
  <2> DEFINE built == {r \in R : r.data # "unbuildable"}
             usable == {z \in Z : z.data # "unbuildable"}
  <2>3. \A r : DomainRecord(r).id = r.id /\ DomainRecord(r).data = r.data
    BY DEF DomainRecord
  <2>4. usable = {DomainRecord(r) : r \in built}
    BY <1>2, <2>3
  <2>5. /\ {z.id : z \in usable} = {r.id : r \in built}
        /\ (\E z \in usable : z.data = "unencodable")
              <=> (\E r \in built : r.data = "unencodable")
    BY <2>3, <2>4
  <2>6. answer'[t] = IF \E r \in built : r.data = "unencodable" THEN NoAnswer
                     ELSE Message(request[t], "NoError", {r.id : r \in built})
    BY <2>2 DEF LocalAnswer
  <2>7. Z # {}
    BY <1>2, <1>4
  <2>8. IF \E z \in usable : z.data = "unencodable" THEN answer'[t] = NoAnswer
        ELSE Abstract!Answers(t, "NoError", {z.id : z \in usable})
    BY <2>5, <2>6 DEF Abstract!Answers, Message
  <2> QED
    BY <1>3, <2>2, <2>7, <2>8 DEF Abstract!Local
<1>5. CASE R = {} /\ servers > 0
  <2>1. pc' = [pc EXCEPT ![t] = "cache"] /\ UNCHANGED answer
    BY <1>5 DEF Lookup, Goes
  <2>2. Phase(t) = "asked" /\ Phase(t)' = "elsewhere" /\ answer'[t] = NoAnswer
    BY <1>1, <2>1 DEF IInv, TaskInv, TaskTypes, AnswerInv, Phase
  <2>3. /\ Abstract!Others(t)
        /\ {DomainRecord(r) : r \in Store!Present}' =
               {DomainRecord(r) : r \in Store!Present}
    BY <1>1, <2>1, PhaseOfOthers DEF IInv, TaskInv, TaskTypes
  <2> QED
    BY <1>1, <1>2, <1>3, <1>5, <2>2, <2>3 DEF Abstract!NotLocal, Abstract!Moves
<1>6. CASE R = {} /\ ~ (servers > 0)
  <2>1. Replies(t, Refusal(request[t]))
    BY <1>6 DEF Lookup
  <2>2. /\ answer'[t] = Refusal(request[t])
        /\ Abstract!Moves(t, "asked", "answered")
    BY <1>1, <2>1, RepliesMove
  <2>3. Abstract!Refusal(t)
    BY <2>2 DEF Abstract!Refusal, Abstract!Answers, Refusal, Message
  <2>4. [u \in Tasks |-> Phase(u)][t] = "asked"
    BY <1>1 DEF Phase
  <2> QED
    BY <1>2, <1>3, <1>6, <2>2, <2>3, <2>4 DEF Abstract!NotLocal
<1> QED
  BY <1>4, <1>5, <1>6

\* A relayed response goes out under the id of the request that it answers.
LEMMA RelayRefines ==
    ASSUME IInv, AnswerInv, NEW t \in Tasks, NEW r,
           r.question = request[t].question,
           pc[t] \in {"cache", "put"},
           Replies(t, patch_response_id(r, request[t].id)),
           UNCHANGED <<records, request>>
    PROVE  Abstract!FromElsewhere(t)
<1>1. /\ answer'[t] = patch_response_id(r, request[t].id)
      /\ Abstract!Moves(t, "elsewhere", "answered")
  BY RepliesMove
<1> QED
  BY <1>1 DEF Abstract!FromElsewhere, Abstract!Answers, patch_response_id

LEMMA AskCacheRefines ==
    ASSUME IInv, AnswerInv, NEW t \in Tasks, AskCache(t)
    PROVE  Abstract!FromElsewhere(t) \/ UNCHANGED Abstract!vars
<1>1. pc[t] = "cache" /\ UNCHANGED <<records, request>>
  BY DEF AskCache, storeVars
<1>2. CASE Cache!Fresh(Key(t))
  <2>1. Replies(t, patch_response_id(Cache!Found(Key(t)), request[t].id))
    BY <1>2 DEF AskCache
  <2>2. Cache!Found(Key(t)).question = request[t].question
    <3>1. request[t] \in Requests /\ request[t].question # NoQuestion
      BY <1>1 DEF IInv, TaskInv, TaskTypes, OwnSocket, HasQuestion
    <3>2. Key(t) \in Questions
      BY <3>1 DEF Requests, Key
    <3>3. Key(t) \in Cache!Keys
      BY <3>2 DEF Questions, Cache!Keys, Cache!WireNames, Cache!Spellings,
                  WireNames, Spellings
    <3>4. EntryOK(Key(t)) /\ entries[Key(t)] # NoEntry
      BY <1>2, <3>3 DEF IInv, CacheInv, Cache!Fresh
    <3> QED
      BY <1>2, <3>4 DEF EntryOK, Cache!Found, Key
  <2> QED
    BY <1>1, <2>1, <2>2, RelayRefines
<1>3. CASE ~Cache!Fresh(Key(t))
  <2>1. pc' = [pc EXCEPT ![t] = "send"] /\ UNCHANGED answer
    BY <1>3 DEF AskCache, Goes
  <2> QED
    BY <1>1, <2>1, Unseen
<1> QED
  BY <1>2, <1>3

LEMMA TryNextRefines ==
    ASSUME IInv, AnswerInv, NEW t \in Tasks, pc[t] \in {"send", "await"}, TryNext(t)
    PROVE  Abstract!FromElsewhere(t) \/ UNCHANGED Abstract!vars
<1>1. UNCHANGED <<records, request>>
  BY DEF TryNext, storeVars
<1>2. CASE server[t] < servers
  <2>1. pc' = [pc EXCEPT ![t] = "send"] /\ UNCHANGED answer
    BY <1>2 DEF TryNext, Goes
  <2> QED
    BY <1>1, <2>1, Unseen
<1>3. CASE ~ (server[t] < servers)
  <2>1. Replies(t, Refusal(request[t]))
    BY <1>3 DEF TryNext
  <2>2. /\ answer'[t] = Refusal(request[t])
        /\ Abstract!Moves(t, "elsewhere", "answered")
    BY <1>1, <2>1, RepliesMove
  <2> QED
    BY <2>2 DEF Abstract!FromElsewhere, Abstract!Refusal, Abstract!Answers,
                Refusal, Message
<1> QED
  BY <1>2, <1>3

LEMMA FillCacheRefines ==
    ASSUME IInv, AnswerInv, NEW t \in Tasks, FillCache(t)
    PROVE  Abstract!FromElsewhere(t)
<1>1. /\ pc[t] = "put" /\ UNCHANGED <<records, request>>
      /\ Replies(t, patch_response_id(socket[t], request[t].id))
  BY DEF FillCache, storeVars
<1>2. socket[t].question = request[t].question
  BY <1>1 DEF IInv, TaskInv, OwnSocket
<1> QED
  BY <1>1, <1>2, RelayRefines

LEMMA ReplyRefines ==
    ASSUME IInv, AnswerInv, NEW t \in Tasks, Reply(t)
    PROVE  Abstract!Finish(t)
<1>1. /\ pc[t] = "reply" /\ pc' = [pc EXCEPT ![t] = "idle"]
      /\ request' = [request EXCEPT ![t] = Idle]
      /\ answer' = [answer EXCEPT ![t] = NoAnswer]
      /\ UNCHANGED records
  BY DEF Reply, storeVars
<1>2. /\ Phase(t) = "answered" /\ Phase(t)' = "idle"
      /\ request'[t] = Idle /\ answer'[t] = NoAnswer
  BY <1>1 DEF IInv, TaskInv, TaskTypes, AnswerInv, Phase
<1>3. /\ Abstract!Others(t)
      /\ {DomainRecord(r) : r \in Store!Present}' =
             {DomainRecord(r) : r \in Store!Present}
  BY <1>1, PhaseOfOthers DEF IInv, TaskInv, TaskTypes, AnswerInv
<1> QED
  BY <1>2, <1>3 DEF Abstract!Finish

\* The environment changes the records at most.
LEMMA EnvironmentRefines ==
    ASSUME UNCHANGED <<pc, request, answer>>
    PROVE  Abstract!Manage
<1>1. \A u \in Tasks : Phase(u)' = Phase(u)
  BY DEF Phase
<1> QED
  BY <1>1 DEF Abstract!Manage

LEMMA ResolverStepRefines ==
    IInv /\ AnswerInv /\ CanonicalInv /\ [Next]_vars
        => [Abstract!Next]_(Abstract!vars)
<1> SUFFICES ASSUME IInv, AnswerInv, CanonicalInv, [Next]_vars
             PROVE  [Abstract!Next]_(Abstract!vars)
  OBVIOUS
<1>1. ASSUME NEW t \in Tasks, NEW req \in Queries \cup {Garbage}, Arrive(t, req)
      PROVE  Abstract!Next
  BY <1>1, ArriveRefines DEF Abstract!Next
<1>2. ASSUME NEW t \in Tasks, Step(t) \/ AttemptFails(t)
      PROVE  [Abstract!Next]_(Abstract!vars)
  <2>1. CASE Reject(t)
    BY <2>1, RejectRefines DEF Abstract!Next
  <2>2. CASE Lookup(t)
    BY <2>2, LookupRefines DEF Abstract!Next
  <2>3. CASE AskCache(t)
    BY <2>3, AskCacheRefines DEF Abstract!Next
  <2>4. CASE Send(t)
    BY <2>4, Unseen DEF Send, Goes, storeVars
  <2>5. CASE TimesOut(t) \/ AttemptFails(t)
    BY <2>5, TryNextRefines DEF TimesOut, AttemptFails, Abstract!Next
  <2>6. CASE Receive(t)
    BY <2>6, Unseen DEF Receive, Goes, storeVars
  <2>7. CASE FillCache(t)
    BY <2>7, FillCacheRefines DEF Abstract!Next
  <2>8. CASE Reply(t)
    BY <2>8, ReplyRefines DEF Abstract!Next
  <2> QED
    BY <1>2, <2>1, <2>2, <2>3, <2>4, <2>5, <2>6, <2>7, <2>8 DEF Step
<1>3. ASSUME UNCHANGED <<pc, request, answer>> PROVE Abstract!Next
  BY <1>3, EnvironmentRefines DEF Abstract!Next
<1>4. ASSUME NEW t \in Tasks, NEW body \in Bodies, UpstreamReplies(t, body)
      PROVE  Abstract!Next
  BY <1>3, <1>4 DEF UpstreamReplies
<1>5. CASE Manage \/ Tick \/ UNCHANGED vars
  BY <1>3, <1>5 DEF Manage, create_record, delete_record, delete_records,
                    flush_cache, Tick, taskVars, vars
<1> QED
  BY <1>1, <1>2, <1>4, <1>5 DEF Next

\* Mock records first, from one snapshot of the store, and every answer an
\* answer to its own request, whatever the tasks and the management API do
\* meanwhile (dns.rs, handle_query and Fallback).
THEOREM ServiceRefinement == Spec => Service
<1>1. Init => Abstract!Init
  <2>1. ASSUME Init PROVE \A t \in Tasks : Phase(t) = "idle"
    BY <2>1 DEF Init, Phase
  <2>2. ASSUME Init PROVE Store!Present = {}
    BY <2>2 DEF Init, Store!Present
  <2> QED
    BY <2>1, <2>2 DEF Init, Abstract!Init
<1> QED
  BY <1>1, ResolverStepRefines, ServiceInvariance, PTL
     DEF Spec, Service, Abstract!Spec

=============================================================================
