-------------------------- MODULE OperationsProofs --------------------------
(***************************************************************************)
(* TypeOK of Operations is inductive.  The refinement of RemoteStore needs *)
(* one fact more, Decided: the status of a response is one that the        *)
(* handler of its command can give, so that the client, which looks for    *)
(* the status it expects, ends as the server decided.  What is said of ids *)
(* needs that every id that is in use or was shown has been issued.  That  *)
(* a list previews a delete needs what the list has seen, of the records   *)
(* that are still there.                                                   *)
(***************************************************************************)
EXTENDS Operations, TLAPS

Stored == [Ids -> Api!Record \cup {NoRecord}]

\* Each client runs one of the commands it is tried with.
LEMMA TaskFacts ==
  ASSUME command \in Tasks, NEW c \in Clients
  PROVE  command[c] \in Asked[c]
BY DEF Tasks

\* The canonical spelling of a name is a spelling.
LEMMA CanonicalName ==
  ASSUME NEW n \in Api!Spellings
  PROVE  Api!normalize_name(n) \in Api!Spellings
BY CommandsAssumption DEF Api!normalize_name, Api!to_ascii_lowercase, Api!Spellings

\* What the server reads of a command's arguments is in its types.
LEMMA Readings ==
  ASSUME NEW c \in Clients, NEW k \in Asked[c]
  PROVE  /\ k.op = "add" /\ Body(k) # Unreadable =>
               Body(k) \in [name : Api!Spellings, type : RecordTypes \cup {BadType}, data : Data]
         /\ k.op = "delete_id" => k.id \in Ids
<1>1. /\ k \in Command
      /\ k.op = "add" => k.name # None /\ k.type # None
      /\ k.op = "delete_id" => k.id \in Ids
  BY CommandsAssumption
<1>2. CASE k.op = "add"
  <2> DEFINE a == [name |-> k.name, type |-> k.type, data |-> k.data]
  <2>1. a \in [name : Api!Spellings, type : TypeTexts, data : Data]
    BY <1>1, <1>2 DEF Command
  <2>2. InBody[a] \in [name : Api!Spellings, type : RecordTypes \cup {BadType},
                       data : Data] \cup {Unreadable}
    BY <2>1, CommandsAssumption
  <2> QED
    BY <1>1, <2>2 DEF Body
<1> QED
  BY <1>1, <1>2

\* What add makes of a body with a real type is a record.
LEMMA MadeType ==
  ASSUME NEW id \in Ids,
         NEW req \in [name : Api!Spellings, type : RecordTypes \cup {BadType}, data : Data],
         req.type # BadType
  PROVE  Api!Made(id, req) \in Api!Record
<1>1. Api!normalize_name(req.name) \in Api!Spellings
  BY CanonicalName
<1> QED
  BY <1>1 DEF Api!Made, Api!Record

\* What is stored are records.
LEMMA PresentType ==
  ASSUME records \in Stored
  PROVE  Api!Present \subseteq Api!Record
BY DEF Api!Present, Stored

\* Every handler leaves a map of records and answers with records.
LEMMA ServedTypes ==
  ASSUME NEW c \in Clients, NEW k \in Asked[c], records \in Stored,
         issued \subseteq Ids, Served(k)
  PROVE  records' \in Stored /\ issued' \subseteq Ids /\ reply' \in Responses
<1>p. Api!Present \subseteq Api!Record
  BY PresentType
<1>1. CASE k.op = "add" /\ Body(k) # Unreadable /\ Body(k).type # BadType
           /\ Api!create_record(Body(k))
  <2>1. PICK id \in Ids : Api!add(id, Body(k)) /\ Api!Respond(201, {Api!Made(id, Body(k))})
    BY <1>1 DEF Api!create_record
  <2>2. Api!Made(id, Body(k)) \in Api!Record
    BY <1>1, Readings, MadeType
  <2> QED
    BY <2>1, <2>2 DEF Api!add, Api!Respond, Responses, Stored
<1>2. CASE \E status \in {400, 422} : Refuse(status)
  BY <1>2 DEF Refuse, Api!Respond, Responses
<1>3. CASE Api!list_records(Query(k).name, Query(k).type)
  <2>1. Api!list_filtered(Query(k).name, Query(k).type) \subseteq Api!Record
    BY <1>p DEF Api!list_filtered
  <2>2. reply' \in Responses
    BY <1>3, <2>1 DEF Api!list_records, Api!Respond, Responses
  <2> QED
    BY <1>3, <2>2 DEF Api!list_records
<1>4. CASE k.op = "delete_id" /\ Api!delete_record(k.id)
  <2>1. reply' \in Responses
    BY <1>4 DEF Api!delete_record, Api!Respond, Responses
  <2> QED
    BY <1>4, <2>1, Readings DEF Api!delete_record, Api!delete, Stored
<1>5. CASE Api!delete_records(Query(k).name, Query(k).type)
  <2>1. reply' \in Responses
    BY <1>5 DEF Api!delete_records, Api!Respond, Responses
  <2>2. \/ UNCHANGED <<records, issued>>
        \/ Api!delete_all
        \/ Api!delete_filtered(Query(k).name, Query(k).type)
    BY <1>5 DEF Api!delete_records
  <2> QED
    BY <2>1, <2>2 DEF Api!delete_all, Api!delete_filtered, Stored
<1>6. CASE Api!Respond(200, {}) /\ UNCHANGED <<records, issued>>
  BY <1>6 DEF Api!Respond, Responses
<1> QED
  BY <1>1, <1>2, <1>3, <1>4, <1>5, <1>6 DEF Served, ServeAdd

-----------------------------------------------------------------------------
\* A new process has an empty store and no connections.
LEMMA LaunchTypes == TypeOK /\ process \in {"off", "restarting"} /\ Launch => TypeOK'
<1> SUFFICES ASSUME TypeOK, process \in {"off", "restarting"}, Launch  PROVE TypeOK'
  OBVIOUS
<1> USE DEF Launch, apiVars, answers, clientVars, TypeOK
<1>1. listener' \in [Listeners -> {"closed", "binding", "open"}] /\ listener'["api"] = "binding"
  BY DEF Listeners
<1>2. \A c \in Clients : exchange'[c] # "queued"
  OBVIOUS
<1> QED
  BY <1>1, <1>2

\* A process that dies leaves no records, listeners or waiting requests.
LEMMA DiesTypes ==
  ASSUME TypeOK, NEW next \in {"off", "restarting"}, Dies(next), crashes' \in 0..MaxCrashes
  PROVE  TypeOK'
<1> USE DEF TypeOK, apiVars, answers, clientVars
<1>1. PICK cut \in SUBSET {c \in Clients : exchange[c] = "answered"} :
          exchange' = [c \in Clients |-> IF c \in cut \/ exchange[c] = "queued"
                                         THEN "reset" ELSE exchange[c]]
  BY DEF Dies
<1>2. exchange' \in [Clients -> {"none", "queued", "answered", "reset"}]
  BY <1>1
<1>3. \A c \in Clients : /\ exchange'[c] # "queued"
                         /\ exchange'[c] = "none" => exchange[c] = "none"
                         /\ exchange'[c] = "answered" => exchange[c] = "answered"
                         /\ exchange[c] = "none" => exchange'[c] = "none"
  BY <1>1
<1>4. listener' \in [Listeners -> {"closed", "binding", "open"}] /\ listener'["api"] = "closed"
  BY DEF Dies, Closed, Listeners
<1> QED
  BY <1>2, <1>3, <1>4 DEF Dies

\* A request that is handled has a response, and a record map remains.
LEMMA HandleTypes == ASSUME TypeOK, NEW c \in Clients, Handle(c) PROVE TypeOK'
<1>1. command[c] \in Asked[c]
  BY TaskFacts DEF TypeOK
<1>2. records' \in Stored /\ issued' \subseteq Ids /\ reply' \in Responses
  BY <1>1, ServedTypes DEF Handle, TypeOK, Stored
<1>3. reply' # Nothing
  BY <1>2, CommandsAssumption
<1>4. /\ process' = process /\ listener' = listener /\ crashes' = crashes
      /\ command' = command /\ client' = client /\ process = "serving"
      /\ exchange[c] = "queued"
      /\ response' = [response EXCEPT ![c] = reply']
      /\ known' = [known EXCEPT ![c] = issued']
      /\ exchange' = [exchange EXCEPT ![c] = "answered"]
  BY DEF Handle, serverVars, clientVars
<1>5. /\ exchange' \in [Clients -> {"none", "queued", "answered", "reset"}]
      /\ response' \in [Clients -> Responses \cup {Nothing}]
      /\ known' \in [Clients -> SUBSET Ids]
  BY <1>2, <1>4 DEF TypeOK
<1>6. ASSUME NEW d \in Clients
      PROVE  /\ exchange'[d] = "queued" => process' = "serving" /\ response'[d] = Nothing
             /\ exchange'[d] = "none" => response'[d] = Nothing
             /\ exchange'[d] = "answered" => response'[d] # Nothing
             /\ client'[d] = "new" => exchange'[d] = "none"
  BY <1>3, <1>4 DEF TypeOK
<1>7. TypeOK
  OBVIOUS
<1> QED
  BY <1>2, <1>4, <1>5, <1>6, <1>7 DEF TypeOK, Stored

\* What the client does keeps its connection and itself in step.
LEMMA ClientTypes ==
  ASSUME TypeOK, NEW c \in Clients, Connect(c) \/ Receive(c) \/ Reset(c) \/ Break(c)
  PROVE  TypeOK'
<1>1. CASE Connect(c)
  BY <1>1 DEF Connect, Ends, TypeOK, apiVars, answers, serverVars, clientVars
<1>2. CASE Receive(c)
  <2>1. Verdict(command[c].op, response[c].status) \in {"done", "missing", "failed"}
    BY DEF Verdict
  <2> QED
    BY <1>2, <2>1 DEF Receive, Ends, TypeOK, apiVars, answers, serverVars
<1>3. CASE Reset(c) \/ Break(c)
  BY <1>3 DEF Reset, Break, Ends, TypeOK, apiVars, answers, serverVars
<1> QED
  BY <1>1, <1>2, <1>3

\* Every step preserves TypeOK.
LEMMA StepTypes == TypeOK /\ [Next]_vars => TypeOK'
<1> SUFFICES ASSUME TypeOK, [Next]_vars PROVE TypeOK'
  OBVIOUS
<1>1. CASE Start \/ Relaunch
  BY <1>1, LaunchTypes DEF Start, Relaunch
<1>2. CASE BindApi
  <2>1. CASE Dies("off") /\ UNCHANGED crashes
    BY <2>1, DiesTypes DEF TypeOK
  <2>2. CASE /\ listener["api"] = "binding"
             /\ listener' = [listener EXCEPT !["api"] = "open"]
             /\ process' = "serving"
             /\ UNCHANGED <<apiVars, clientVars, exchange, answers, crashes>>
    <3>1. "api" \in Listeners
      BY DEF Listeners
    <3> QED
      BY <2>2, <3>1 DEF TypeOK, apiVars, answers, clientVars
  <2> QED
    BY <1>2, <2>1, <2>2 DEF BindApi
<1>3. CASE Terminate
  BY <1>3, DiesTypes DEF Terminate, TypeOK
<1>4. CASE Crash
  BY <1>4, DiesTypes, OperationsAssumption DEF Crash, TypeOK
<1>5. CASE Stop
  BY <1>5 DEF Stop, TypeOK, apiVars, answers, clientVars
<1>6. ASSUME NEW l \in Dns, BindDns(l) PROVE TypeOK'
  <2>1. l # "api" /\ "api" \in Listeners /\ l \in Listeners
    BY DEF Dns, Listeners
  <2>2. listener # Closed
    BY <1>6, <2>1 DEF BindDns, Closed
  <2> QED
    BY <1>6, <2>1, <2>2 DEF BindDns, TypeOK, apiVars, answers, clientVars
<1>7. ASSUME NEW c \in Clients, Handle(c) PROVE TypeOK'
  BY <1>7, HandleTypes
<1>8. ASSUME NEW c \in Clients, Connect(c) \/ Receive(c) \/ Reset(c) \/ Break(c)
      PROVE  TypeOK'
  BY <1>8, ClientTypes
<1>9. CASE UNCHANGED vars
  BY <1>9 DEF vars, TypeOK
<1> QED
  BY <1>1, <1>2, <1>3, <1>4, <1>5, <1>6, <1>7, <1>8, <1>9 DEF Next

\* Only a serving process has the API port open and records, and each client,
\* its connection and the response agree (main.rs, main; cli.rs, http_request).
THEOREM OperationsTypes == Spec => []TypeOK
<1>1. Init => TypeOK
  <2> SUFFICES ASSUME Init PROVE TypeOK
    OBVIOUS
  <2>1. records = [id \in Ids |-> NoRecord] /\ issued = {}
    BY DEF Init, Api!Init
  <2>2. listener["api"] = "closed" /\ listener \in [Listeners -> {"closed", "binding", "open"}]
    BY DEF Init, Closed, Listeners
  <2> QED
    BY <2>1, <2>2, OperationsAssumption DEF Init, TypeOK
<1>2. TypeOK /\ [Next]_vars => TypeOK'
  BY StepTypes
<1> QED
  BY <1>1, <1>2, PTL DEF Spec
-----------------------------------------------------------------------------
\* The handlers of the abstract specification are those of the detailed one.
LEMMA SameServed == ASSUME NEW k PROVE Served(k) => Remote!Served(k)
<1> SUFFICES ASSUME Served(k) PROVE Remote!Served(k)
  OBVIOUS
<1> QED
  BY DEF Served, Remote!Served, ServeAdd, Remote!ServeAdd, Refuse, Remote!Refuse,
     Body, Remote!Body, Query, Remote!Query, Api!create_record, Remote!Api!create_record,
     Api!Asks, Remote!Api!Asks, Api!Respond, Remote!Api!Respond,
     Api!list_records, Remote!Api!list_records, Api!delete_record, Remote!Api!delete_record,
     Api!delete_records, Remote!Api!delete_records, Api!add, Remote!Api!add,
     Api!Made, Remote!Api!Made, Api!normalize_name, Remote!Api!normalize_name,
     Api!to_ascii_lowercase, Remote!Api!to_ascii_lowercase,
     Api!list_filtered, Remote!Api!list_filtered, Api!Present, Remote!Api!Present,
     Api!delete, Remote!Api!delete, Api!delete_all, Remote!Api!delete_all,
     Api!delete_filtered, Remote!Api!delete_filtered
-----------------------------------------------------------------------------
\* The statuses that the handler of each command can give.
Fits(op, status) == \/ op = "add" /\ status \in {201, 400, 422}
                    \/ op \in {"list", "delete"} /\ status = 400
                    \/ op \in {"list", "health"} /\ status = 200
                    \/ op = "delete_id" /\ status \in {204, 404}
                    \/ op = "delete" /\ status = 204

Decided == \A c \in Clients :
              response[c] # Nothing => Fits(command[c].op, response[c].status)

\* Each handler answers with a status of its command.
LEMMA ServedFits == ASSUME NEW k, Served(k) PROVE Fits(k.op, reply'.status)
BY DEF Served, ServeAdd, Refuse, Fits, Api!create_record, Api!list_records, Api!delete_record,
       Api!delete_records, Api!Respond

\* Every step preserves Decided.
LEMMA StepDecided == TypeOK /\ Decided /\ [Next]_vars => Decided'
<1> SUFFICES ASSUME TypeOK, Decided, [Next]_vars PROVE Decided'
  OBVIOUS
<1>1. ASSUME NEW c \in Clients, Handle(c) PROVE Decided'
  <2>1. Fits(command[c].op, reply'.status)
    BY <1>1, ServedFits DEF Handle
  <2>2. response' = [response EXCEPT ![c] = reply'] /\ command' = command
    BY <1>1 DEF Handle, clientVars
  <2>3. response \in [Clients -> Responses \cup {Nothing}]
    BY DEF TypeOK
  <2> QED
    BY <2>1, <2>2, <2>3 DEF Decided
<1>2. CASE UNCHANGED <<command, response>>
  BY <1>2 DEF Decided
<1>3. \/ UNCHANGED <<command, response>>
      \/ \E c \in Clients : Handle(c)
  BY DEF Next, vars, Start, Relaunch, Launch, BindApi, Terminate, Crash, Dies, Stop,
         BindDns, Connect, Receive, Reset, Break, clientVars, answers
<1> QED
  BY <1>1, <1>2, <1>3

Told == [c \in Clients |-> IF client[c] \in {"new", "waiting"} THEN "pending" ELSE client[c]]

\* Looking for the status it expects, the client finds what the status means.
LEMMA SameVerdict ==
  ASSUME NEW op, NEW status, Fits(op, status)
  PROVE  Verdict(op, status) = Remote!Means(status)
BY DEF Fits, Verdict, Remote!Means

\* Death of the process is a restart of the abstract server.
LEMMA DiesRestarts == ASSUME NEW next, Dies(next) PROVE Remote!Restart
BY DEF Dies, Remote!Restart, clientVars, answers

\* A handled request decides a command that was not decided.
LEMMA HandleDecides ==
  ASSUME TypeOK, NEW c \in Clients, Handle(c)
  PROVE  Remote!Decide(c)
<1>1. response[c] = Nothing
  BY DEF Handle, TypeOK
<1>2. Remote!Served(command[c])
  BY SameServed DEF Handle
<1> QED
  BY <1>1, <1>2 DEF Handle, Remote!Decide, clientVars

\* A client that fails without a response gives up.
LEMMA FailureGivesUp ==
  ASSUME TypeOK, NEW c \in Clients, client[c] \in {"new", "waiting"}, Ends(c, "failed"),
         UNCHANGED <<apiVars, command, response, printed>>
  PROVE  Remote!GiveUp(c)
<1>1. Told[c] = "pending" /\ Told' = [Told EXCEPT ![c] = "failed"]
  BY DEF Told, Ends, TypeOK
<1> QED
  BY <1>1 DEF Remote!GiveUp, Remote!apiVars, Told, apiVars

\* A response received is the decision told.
LEMMA ReceiveTells ==
  ASSUME TypeOK, Decided, NEW c \in Clients, Receive(c)
  PROVE  Remote!Tell(c)
<1> DEFINE end == Verdict(command[c].op, response[c].status)
<1>1. response[c] # Nothing /\ client[c] = "waiting"
  BY DEF Receive, TypeOK
<1>2. end = Remote!Means(response[c].status)
  BY <1>1, SameVerdict DEF Decided
<1>3. end \in {"done", "missing", "failed"}
  BY DEF Verdict
<1>4. client' = [client EXCEPT ![c] = end]
  BY DEF Receive, Ends
<1>5. UNCHANGED <<apiVars, command, response>>
      /\ (printed' = [printed EXCEPT ![c] = response[c].records] \/ UNCHANGED printed)
  BY DEF Receive, answers
<1> HIDE DEF end
<1>6. Told[c] = "pending" /\ Told' = [Told EXCEPT ![c] = end]
  BY <1>1, <1>3, <1>4 DEF Told, TypeOK
<1> QED
  BY <1>1, <1>2, <1>5, <1>6 DEF Remote!Tell, Remote!apiVars, Told, apiVars

\* A connection that is made is not seen; one that is refused gives up.
LEMMA ConnectRefines ==
  ASSUME TypeOK, NEW c \in Clients, Connect(c)
  PROVE  [Remote!Next]_(Remote!vars)
<1>1. CASE Ends(c, "waiting")
  <2>1. Told' = Told
    BY <1>1 DEF Connect, Ends, Told, TypeOK
  <2> QED
    BY <2>1 DEF Connect, Remote!vars, Told, apiVars, answers
<1>2. CASE Ends(c, "failed")
  BY <1>2, FailureGivesUp DEF Connect, Remote!Next, answers
<1> QED
  BY <1>1, <1>2 DEF Connect

\* Every step is one of RemoteStore or is not seen there.
LEMMA StepRefines == TypeOK /\ Decided /\ [Next]_vars => [Remote!Next]_(Remote!vars)
<1> SUFFICES ASSUME TypeOK, Decided, [Next]_vars PROVE [Remote!Next]_(Remote!vars)
  OBVIOUS
<1>1. CASE UNCHANGED <<apiVars, clientVars, response>>
  BY <1>1 DEF Remote!vars, apiVars, answers, clientVars
<1>2. CASE Dies("off") \/ Dies("restarting")
  BY <1>2, DiesRestarts DEF Remote!Next
<1>3. ASSUME NEW c \in Clients, Handle(c) PROVE Remote!Next
  BY <1>3, HandleDecides DEF Remote!Next
<1>4. ASSUME NEW c \in Clients, Receive(c) PROVE Remote!Next
  BY <1>4, ReceiveTells DEF Remote!Next
<1>5. ASSUME NEW c \in Clients, Reset(c) \/ Break(c) PROVE Remote!Next
  BY <1>5, FailureGivesUp DEF Remote!Next, Reset, Break, answers
<1>6. ASSUME NEW c \in Clients, Connect(c) PROVE [Remote!Next]_(Remote!vars)
  BY <1>6, ConnectRefines
<1>7. \/ UNCHANGED <<apiVars, clientVars, response>>
      \/ Dies("off") \/ Dies("restarting")
      \/ \E c \in Clients : Handle(c) \/ Receive(c) \/ Reset(c) \/ Break(c) \/ Connect(c)
  BY DEF Next, vars, Start, Relaunch, Launch, BindApi, Terminate, Crash, Stop,
         BindDns, apiVars, answers, clientVars
<1> QED
  BY <1>1, <1>2, <1>3, <1>4, <1>5, <1>6, <1>7

\* The commands and the server that dies under them implement RemoteStore: none
\* takes effect twice, and what the client reports is what the server decided
\* (cli.rs, run; main.rs, main).
THEOREM OperationsRefinement == Spec => Promise
<1>1. Init => Remote!Init /\ Decided
  <2> SUFFICES ASSUME Init PROVE Remote!Init /\ Decided
    OBVIOUS
  <2>1. Remote!Api!Init
    BY Zenon DEF Init, Api!Init, Remote!Api!Init
  <2>2. Told = [c \in Clients |-> "pending"]
    BY DEF Init, Told
  <2>3. command \in Remote!Tasks
    BY DEF Init, Tasks, Remote!Tasks
  <2> QED
    BY <2>1, <2>2, <2>3 DEF Init, Remote!Init, Told, Decided
<1>2. TypeOK /\ Decided /\ [Next]_vars => Decided'
  BY StepDecided
<1>3. TypeOK /\ Decided /\ [Next]_vars => [Remote!Next]_(Remote!vars)
  BY StepRefines
<1>4. Spec => []TypeOK
  BY OperationsTypes
<1> QED
  BY <1>1, <1>2, <1>3, <1>4, PTL DEF Spec, Promise, Remote!Spec
-----------------------------------------------------------------------------
(* What records and responses have to do with each other.                  *)

\* Records are kept under their ids, and every id in use or shown was issued.
Numbered ==
    /\ \A id \in Ids : records[id] # NoRecord => id \in issued /\ records[id].id = id
    /\ \A c \in Clients : response[c] # Nothing =>
          \A r \in response[c].records : r.id \in Ids /\ r.id \in issued

Accounted == Numbered /\ EveryRecordAsked /\ IdsKeepMeaning

Adds(id, m) == /\ id \notin issued /\ m.id = id
               /\ issued' = issued \cup {id}
               /\ records' = [records EXCEPT ![id] = m]
               /\ reply'.records = {m}

Keeps(op) == /\ issued' = issued
             /\ \A id \in Ids : records'[id] \in {records[id], NoRecord}
             /\ \/ reply'.records = {}
                \/ op # "add" /\ reply'.records \subseteq Api!Present

\* A handler adds one record under a new id and shows it, or it adds none and
\* shows what there is.
LEMMA ServedEffect ==
  ASSUME NEW k, k.op = "delete_id" => k.id \in Ids, records \in Stored, Served(k)
  PROVE  (k.op = "add" /\ \E id \in Ids : \E m : Adds(id, m)) \/ Keeps(k.op)
<1>1. CASE k.op = "add" /\ Api!create_record(Body(k))
  <2>1. PICK id \in Ids : Api!add(id, Body(k)) /\ Api!Respond(201, {Api!Made(id, Body(k))})
    BY <1>1 DEF Api!create_record
  <2>2. Api!Made(id, Body(k)).id = id
    BY DEF Api!Made
  <2>3. Adds(id, Api!Made(id, Body(k)))
    BY <2>1, <2>2 DEF Api!add, Api!Respond, Adds
  <2> QED
    BY <1>1, <2>3
<1>2. CASE k.op = "list" /\ Api!list_records(Query(k).name, Query(k).type)
  <2>1. Api!list_filtered(Query(k).name, Query(k).type) \subseteq Api!Present
    BY DEF Api!list_filtered
  <2> QED
    BY <1>2, <2>1 DEF Api!list_records, Api!Respond, Keeps
<1>3. CASE k.op = "delete_id" /\ Api!delete_record(k.id)
  BY <1>3 DEF Api!delete_record, Api!delete, Api!Respond, Keeps, Stored
<1>4. CASE k.op = "delete" /\ Api!delete_records(Query(k).name, Query(k).type)
  BY <1>4 DEF Api!delete_records, Api!delete_all, Api!delete_filtered, Api!Respond,
              Keeps, Stored
<1>5. CASE \E status \in {400, 422} : Refuse(status)
  BY <1>5 DEF Refuse, Api!Respond, Keeps
<1>6. CASE Api!Respond(200, {}) /\ UNCHANGED <<records, issued>>
  BY <1>6 DEF Api!Respond, Keeps
<1> QED
  BY <1>1, <1>2, <1>3, <1>4, <1>5, <1>6 DEF Served, ServeAdd

\* A response to an add that added accounts for its record.
LEMMA AddAccounted ==
  ASSUME TypeOK, Accounted, NEW c \in Clients, Handle(c), command[c].op = "add",
         NEW id \in Ids, NEW m, Adds(id, m)
  PROVE  Accounted'
<1>1. /\ response[c] = Nothing /\ command' = command
      /\ response' = [response EXCEPT ![c] = reply'] /\ reply'.records = {m}
      /\ records' = [records EXCEPT ![id] = m] /\ issued' = issued \cup {id}
      /\ id \notin issued /\ m.id = id
  BY DEF Handle, TypeOK, clientVars, Adds
<1>2. /\ records \in [Ids -> Api!Record \cup {NoRecord}]
      /\ response \in [Clients -> Responses \cup {Nothing}]
  BY DEF TypeOK
<1>3. reply' # Nothing
  <2>1. command[c] \in Asked[c]
    BY TaskFacts DEF TypeOK
  <2> QED
    BY <2>1, ServedTypes, CommandsAssumption DEF Handle, TypeOK, Stored
<1>4. /\ response'[c] # Nothing /\ response'[c].records = {m}
      /\ \A d \in Clients : d # c => response'[d] = response[d]
      /\ records'[id] = m
      /\ \A i \in Ids : i # id => records'[i] = records[i]
  BY <1>1, <1>2, <1>3
<1>5. Numbered'
  BY <1>1, <1>4 DEF Accounted, Numbered
<1>6. \A d \in Clients : response[d] # Nothing =>
          \A r \in response[d].records : r.id # id /\ r.id \in Ids
  BY <1>1 DEF Accounted, Numbered
<1>7. AddedBy(id)' = {c} /\ \A i \in Ids : i # id => AddedBy(i)' = AddedBy(i)
  BY <1>1, <1>4, <1>6 DEF AddedBy
<1>8. EveryRecordAsked'
  <2>1. ASSUME NEW i \in Ids, i # id
        PROVE  /\ \A a, b \in AddedBy(i)' : a = b
               /\ records'[i] # NoRecord =>
                     \E a \in AddedBy(i)' : response'[a].records = {records'[i]}
    <3>1. AddedBy(i)' = AddedBy(i) /\ c \notin AddedBy(i) /\ records'[i] = records[i]
      BY <1>1, <1>4, <1>7, <2>1 DEF AddedBy
    <3>2. \A a \in AddedBy(i) : a \in Clients /\ response'[a] = response[a]
      BY <1>4, <3>1 DEF AddedBy
    <3> QED
      BY <3>1, <3>2 DEF Accounted, EveryRecordAsked
  <2>2. /\ \A a, b \in AddedBy(id)' : a = b
        /\ \E a \in AddedBy(id)' : response'[a].records = {records'[id]}
    BY <1>4, <1>7
  <2> QED
    BY <2>1, <2>2 DEF EveryRecordAsked
<1>9. IdsKeepMeaning'
  BY <1>1, <1>4, <1>6 DEF Accounted, IdsKeepMeaning
<1> QED
  BY <1>5, <1>8, <1>9 DEF Accounted

\* One that added nothing leaves what the others were answered true.
LEMMA KeepAccounted ==
  ASSUME TypeOK, Accounted, NEW c \in Clients, Handle(c), Keeps(command[c].op)
  PROVE  Accounted'
<1>1. /\ response[c] = Nothing /\ command' = command
      /\ response' = [response EXCEPT ![c] = reply'] /\ issued' = issued
      /\ \A id \in Ids : records'[id] \in {records[id], NoRecord}
      /\ \/ reply'.records = {}
         \/ command[c].op # "add" /\ reply'.records \subseteq Api!Present
  BY DEF Handle, TypeOK, clientVars, Keeps
<1>2. response \in [Clients -> Responses \cup {Nothing}]
  BY DEF TypeOK
<1>3. response'[c] = reply' /\ \A d \in Clients : d # c => response'[d] = response[d]
  BY <1>1, <1>2
<1>4. \A r \in reply'.records : r.id \in Ids /\ records[r.id] = r /\ r.id \in issued
  BY <1>1 DEF Api!Present, Accounted, Numbered
<1>5. Numbered'
  BY <1>1, <1>3, <1>4 DEF Accounted, Numbered
<1>6. \A id : AddedBy(id)' = AddedBy(id) /\ c \notin AddedBy(id)
  BY <1>1, <1>3 DEF AddedBy
<1>7. EveryRecordAsked'
  <2>1. \A id : \A a \in AddedBy(id) : a \in Clients /\ response'[a] = response[a]
    BY <1>3, <1>6 DEF AddedBy
  <2> QED
    BY <1>1, <1>6, <2>1 DEF Accounted, EveryRecordAsked
<1>8. IdsKeepMeaning'
  <2>1. ASSUME NEW d \in Clients, response'[d] # Nothing, NEW r \in response'[d].records
        PROVE  r.id \in Ids /\ records[r.id] \in {r, NoRecord}
    BY <1>3, <1>4, <2>1 DEF Accounted, Numbered, IdsKeepMeaning
  <2> QED
    BY <1>1, <2>1 DEF IdsKeepMeaning
<1> QED
  BY <1>5, <1>7, <1>8 DEF Accounted

LEMMA StepAccounted == TypeOK /\ Accounted /\ [Next]_vars => Accounted'
<1> SUFFICES ASSUME TypeOK, Accounted, [Next]_vars PROVE Accounted'
  OBVIOUS
<1>1. ASSUME NEW c \in Clients, Handle(c) PROVE Accounted'
  <2>1. command[c] \in Asked[c]
    BY TaskFacts DEF TypeOK
  <2>2. \/ command[c].op = "add" /\ \E id \in Ids : \E m : Adds(id, m)
        \/ Keeps(command[c].op)
    BY <1>1, <2>1, Readings, ServedEffect DEF Handle, TypeOK, Stored
  <2> QED
    BY <1>1, <2>2, AddAccounted, KeepAccounted
<1>2. ASSUME NEW next, Dies(next) PROVE Accounted'
  <2>1. /\ UNCHANGED <<issued, command, response>>
        /\ \A id \in Ids : records'[id] = NoRecord
    BY <1>2 DEF Dies, clientVars, answers
  <2>2. \A id : AddedBy(id)' = AddedBy(id)
    BY <2>1 DEF AddedBy
  <2> QED
    BY <2>1, <2>2 DEF Accounted, Numbered, EveryRecordAsked, IdsKeepMeaning
<1>3. CASE UNCHANGED <<records, issued, command, response>>
  <2>1. \A id : AddedBy(id)' = AddedBy(id)
    BY <1>3 DEF AddedBy
  <2> QED
    BY <1>3, <2>1 DEF Accounted, Numbered, EveryRecordAsked, IdsKeepMeaning
<1>4. \/ UNCHANGED <<records, issued, command, response>>
      \/ Dies("off") \/ Dies("restarting")
      \/ \E c \in Clients : Handle(c)
  BY DEF Next, vars, Start, Relaunch, Launch, BindApi, Terminate, Crash, Stop,
         BindDns, Connect, Receive, Reset, Break, apiVars, answers, clientVars
<1> QED
  BY <1>1, <1>2, <1>3, <1>4

LEMMA AlwaysAccounted == Spec => []Accounted
<1>1. Init => Accounted
  BY DEF Init, Api!Init, Accounted, Numbered, EveryRecordAsked, IdsKeepMeaning, AddedBy
<1> QED
  BY <1>1, StepAccounted, OperationsTypes, PTL DEF Spec

\* Whatever breaks and however often the process dies, each stored record is
\* what exactly one add was answered with (cli.rs, http_request).
THEOREM RecordsWereAsked == Spec => []EveryRecordAsked
<1>1. Accounted => EveryRecordAsked
  BY DEF Accounted
<1> QED
  BY <1>1, AlwaysAccounted, PTL

\* An id that a response showed means the record shown with it, or none, for
\* ever, also in later processes (store.rs, add; main.rs, main).
THEOREM ShownIdsKeepMeaning == Spec => []IdsKeepMeaning
<1>1. Accounted => IdsKeepMeaning
  BY DEF Accounted
<1> QED
  BY <1>1, AlwaysAccounted, PTL
-----------------------------------------------------------------------------
(* What a list has to do with a delete that has the same arguments.         *)

\* How the server reads a filter: it refuses it, or it selects records by it.
Refused(k) == Query(k) = Unreadable \/ Query(k).type = BadType

Selects(k, r) == /\ Query(k).name # None => r.name = Api!normalize_name(Query(k).name)
                 /\ Query(k).type # None => r.type = Query(k).type

\* A list that was answered knew only ids that were issued, and of the records
\* known to it those that are left were shown if and only if it selects them.
Seen ==
    \A c \in Clients : response[c] # Nothing =>
        /\ known[c] \subseteq issued
        /\ command[c].op = "list" =>
              /\ response[c].status = 400 <=> Refused(command[c])
              /\ \A id \in known[c] : records[id] # NoRecord =>
                    (records[id] \in response[c].records
                       <=> ~Refused(command[c]) /\ Selects(command[c], records[id]))

\* A list shows what its filter selects.
LEMMA ListShows ==
  ASSUME NEW k, k.op = "list", Served(k)
  PROVE  /\ UNCHANGED <<records, issued>>
         /\ reply'.status = 400 <=> Refused(k)
         /\ \A id \in Ids : records[id] # NoRecord =>
               (records[id] \in reply'.records <=> ~Refused(k) /\ Selects(k, records[id]))
<1>1. CASE Query(k) = Unreadable /\ Refuse(400)
  BY <1>1 DEF Refuse, Api!Respond, Refused
<1>2. CASE Query(k) # Unreadable /\ Api!list_records(Query(k).name, Query(k).type)
  BY <1>2 DEF Api!list_records, Api!list_filtered, Api!Present, Api!Respond, Refused, Selects
<1> QED
  BY <1>1, <1>2 DEF Served

\* A delete removes what its filter selects.
LEMMA DeleteRemoves ==
  ASSUME NEW k, k.op = "delete", Served(k), records \in Stored, Numbered,
         NEW id \in Ids, records[id] # NoRecord
  PROVE  /\ reply'.status = 400 <=> Refused(k)
         /\ records'[id] = NoRecord <=> ~Refused(k) /\ Selects(k, records[id])
<1>1. CASE Query(k) = Unreadable /\ Refuse(400)
  BY <1>1 DEF Refuse, Api!Respond, Refused
<1>2. CASE Query(k) # Unreadable /\ Api!delete_records(Query(k).name, Query(k).type)
  <2> DEFINE name == Query(k).name
             type == Query(k).type
             to_remove == {r.id : r \in Api!list_filtered(name, type)}
  <2>1. CASE type = BadType
    BY <1>2, <2>1 DEF Api!delete_records, Api!Respond, Refused
  <2>2. CASE type # BadType /\ name = None /\ type = None
    BY <1>2, <2>2 DEF Api!delete_records, Api!delete_all, Api!Respond, Refused, Selects
  <2>3. CASE type # BadType /\ ~(name = None /\ type = None)
    <3>1. id \in to_remove <=> Selects(k, records[id])
      <4>1. \A r \in Api!Present : r.id = id <=> r = records[id]
        BY DEF Api!Present, Numbered
      <4>2. records[id] \in Api!Present
        BY DEF Api!Present
      <4> QED
        BY <4>1, <4>2 DEF Api!list_filtered, Selects
    <3>2. /\ reply'.status = 204
          /\ records' = [i \in Ids |-> IF i \in to_remove THEN NoRecord ELSE records[i]]
      BY <1>2, <2>3 DEF Api!delete_records, Api!delete_filtered, Api!Respond
    <3> HIDE DEF to_remove
    <3> QED
      BY <1>2, <2>3, <3>1, <3>2 DEF Refused
  <2> QED
    BY <2>1, <2>2, <2>3
<1> QED
  BY <1>1, <1>2 DEF Served

\* Whatever a handler does, a known record stays as it is or is gone for ever.
LEMMA StepSeen == TypeOK /\ Accounted /\ Seen /\ [Next]_vars => Seen'
<1> SUFFICES ASSUME TypeOK, Accounted, Seen, [Next]_vars PROVE Seen'
  OBVIOUS
<1>t. known \in [Clients -> SUBSET Ids] /\ response \in [Clients -> Responses \cup {Nothing}]
  BY DEF TypeOK
<1>1. ASSUME NEW c \in Clients, Handle(c) PROVE Seen'
  <2>1. command[c] \in Asked[c] /\ Served(command[c])
    BY <1>1, TaskFacts DEF Handle, TypeOK
  <2>2. \/ command[c].op = "add" /\ \E id \in Ids : \E m : Adds(id, m)
        \/ Keeps(command[c].op)
    BY <2>1, Readings, ServedEffect DEF TypeOK, Stored
  <2>3. /\ issued \subseteq issued' /\ issued' \subseteq Ids
        /\ \A id \in issued : id \in Ids /\ records'[id] \in {records[id], NoRecord}
    BY <2>2 DEF Adds, Keeps, TypeOK
  <2>4. /\ command' = command
        /\ response'[c] = reply' /\ known'[c] = issued'
        /\ \A w \in Clients : w # c => response'[w] = response[w] /\ known'[w] = known[w]
    BY <1>1, <1>t DEF Handle, clientVars
  <2>5. ASSUME command[c].op = "list"
        PROVE  /\ reply'.status = 400 <=> Refused(command[c])
               /\ \A id \in issued' : records'[id] # NoRecord =>
                     (records'[id] \in reply'.records
                        <=> ~Refused(command[c]) /\ Selects(command[c], records'[id]))
    BY <2>1, <2>3, <2>5, ListShows
  <2>6. \A k : Refused(k)' = Refused(k) /\ \A r : Selects(k, r)' = Selects(k, r)
    BY DEF Refused, Selects, Query, Api!normalize_name, Api!to_ascii_lowercase
  <2>7. ASSUME NEW w \in Clients, w # c, response'[w] # Nothing
        PROVE  /\ known'[w] \subseteq issued'
               /\ command'[w].op = "list" =>
                     /\ response'[w].status = 400 <=> Refused(command[w])
                     /\ \A id \in known'[w] : records'[id] # NoRecord =>
                           (records'[id] \in response'[w].records
                              <=> ~Refused(command[w]) /\ Selects(command[w], records'[id]))
    BY <2>3, <2>4, <2>7 DEF Seen
  <2> QED
    BY <2>3, <2>4, <2>5, <2>6, <2>7 DEF Seen
<1>2. ASSUME NEW next, Dies(next) PROVE Seen'
  <2>1. /\ UNCHANGED <<issued, command, response, known>>
        /\ \A id \in Ids : records'[id] = NoRecord
    BY <1>2 DEF Dies, clientVars, answers
  <2>2. \A k : Refused(k)' = Refused(k)
    BY DEF Refused, Query
  <2> QED
    BY <1>t, <2>1, <2>2 DEF Seen
<1>3. CASE UNCHANGED <<records, issued, command, response, known>>
  <2>1. \A k : Refused(k)' = Refused(k) /\ \A r : Selects(k, r)' = Selects(k, r)
    BY DEF Refused, Selects, Query, Api!normalize_name, Api!to_ascii_lowercase
  <2> QED
    BY <1>3, <2>1 DEF Seen
<1>4. \/ UNCHANGED <<records, issued, command, response, known>>
      \/ Dies("off") \/ Dies("restarting")
      \/ \E c \in Clients : Handle(c)
  BY DEF Next, vars, Start, Relaunch, Launch, BindApi, Terminate, Crash, Stop,
         BindDns, Connect, Receive, Reset, Break, apiVars, clientVars, answers
<1> QED
  BY <1>1, <1>2, <1>3, <1>4

\* A delete with the arguments of an answered list goes by the same filter.
LEMMA StepPreviews ==
  TypeOK /\ Accounted /\ Seen /\ [Next]_vars
    => [\A c \in Clients : response[c] # Nothing => Previews(c)]_vars
<1> SUFFICES ASSUME TypeOK, Accounted, Seen, [Next]_vars,
                    NEW c \in Clients, response[c] # Nothing,
                    NEW w \in Clients, SameArguments(command[c], command[w]),
                    response[w] = Nothing, response'[w] # Nothing
             PROVE  /\ response[c].status = 400 <=> response'[w].status = 400
                    /\ \A id \in known[c] : records[id] # NoRecord =>
                          (records'[id] = NoRecord <=> records[id] \in response[c].records)
  BY DEF Previews
<1>t. response \in [Clients -> Responses \cup {Nothing}] /\ known[c] \subseteq Ids
  BY DEF TypeOK
<1>1. Handle(w) /\ response'[w] = reply'
  <2>1. UNCHANGED response \/ \E v \in Clients : Handle(v)
    BY DEF Next, vars, Start, Relaunch, Launch, BindApi, Terminate, Crash, Dies, Stop,
           BindDns, Connect, Receive, Reset, Break, answers
  <2>2. PICK v \in Clients : Handle(v)
    BY <2>1
  <2>3. response' = [response EXCEPT ![v] = reply']
    BY <2>2 DEF Handle
  <2> QED
    BY <1>t, <2>2, <2>3
<1>2. Served(command[w]) /\ command[w].op = "delete" /\ command[c].op = "list"
  BY <1>1 DEF Handle, SameArguments
<1>3. /\ Refused(command[w]) <=> Refused(command[c])
      /\ \A r : Selects(command[w], r) <=> Selects(command[c], r)
  BY DEF SameArguments, Refused, Selects, Query
<1>4. reply'.status = 400 <=> Refused(command[w])
  BY <1>2 DEF Served, Refuse, Refused, Api!delete_records, Api!Respond
<1>5. \A id \in Ids : records[id] # NoRecord =>
          (records'[id] = NoRecord
             <=> ~Refused(command[w]) /\ Selects(command[w], records[id]))
  BY <1>2, DeleteRemoves DEF TypeOK, Stored, Accounted
<1> QED
  BY <1>t, <1>1, <1>2, <1>3, <1>4, <1>5 DEF Seen

\* Whatever filter the server reads in a command's arguments, and whatever is
\* added or removed in between, a list shows what a delete with these arguments
\* removes of the records there were (cli.rs, run; api.rs; store.rs).
THEOREM ListPreviewsDelete == Spec => PreviewIsHonest
<1>1. Init => Seen
  BY DEF Init, Seen
<1>2. TypeOK /\ Accounted /\ Seen /\ [Next]_vars => Seen'
  BY StepSeen
<1>3. TypeOK /\ Accounted /\ Seen /\ [Next]_vars
         => [\A c \in Clients : response[c] # Nothing => Previews(c)]_vars
  BY StepPreviews
<1>4. Spec => []TypeOK /\ []Accounted
  BY OperationsTypes, AlwaysAccounted
<1> QED
  BY <1>1, <1>2, <1>3, <1>4, PTL DEF Spec, PreviewIsHonest

=============================================================================
