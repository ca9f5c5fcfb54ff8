----------------------------- MODULE Operations -----------------------------
(***************************************************************************)
(* The life of the server process and of the commands that are run against *)
(* it: main and its listeners (src/src/main.rs), the systemd unit that     *)
(* starts it again (src/install.sh), and http_request and run of the       *)
(* client (src/src/cli.rs).  Each command is one process, one connection   *)
(* and one request, on the machine of the server, without a retry and      *)
(* without a timeout.                                                      *)
(***************************************************************************)
EXTENDS Commands

CONSTANT MaxCrashes      \* bound: how often the process is killed

ASSUME OperationsAssumption == MaxCrashes \in Nat

VARIABLES process,       \* off, starting, serving, or restarting: to be started
          listener,      \* the three listeners of the process
          crashes,
          command,       \* what each client is asked to do
          client,        \* where it is
          exchange,      \* the server's side of its connection
          response,      \* the response on it
          known,         \* history: the ids there had been when it was made
          printed        \* the records it showed

serverVars == <<process, listener, crashes>>
clientVars == <<command, client, printed>>
answers == <<response, known>>
vars == <<records, issued, asked, reply, process, listener, crashes, command,
          client, exchange, response, known, printed>>

Dns == {"udp", "tcp"}
Listeners == Dns \cup {"api"}
Closed == [l \in Listeners |-> "closed"]

Init == /\ Api!Init
        /\ process = "off" /\ listener = Closed /\ crashes = 0
        /\ command \in Tasks
        /\ client = [c \in Clients |-> "new"]
        /\ exchange = [c \in Clients |-> "none"]
        /\ response = [c \in Clients |-> Nothing]
        /\ known = [c \in Clients |-> {}]
        /\ printed = [c \in Clients |-> Nothing]

-----------------------------------------------------------------------------
(* The server process.                                                     *)

\* main with an empty store; the three binds follow in any order.
Launch ==
    /\ process' = "starting"
    /\ listener' = [l \in Listeners |-> "binding"]
    /\ UNCHANGED <<apiVars, crashes, clientVars, exchange, answers>>

Start == process = "off" /\ Launch

\* Mutant: the unit restarts after a clean exit instead of a failure.
Relaunch_on_success == process = "off" /\ crashes > 0 /\ Launch

\* Restart=on-failure, after RestartSec.
Relaunch == process = "restarting" /\ Launch

\* A port that is taken is only logged, and the process goes on without it.
BindDns(l) ==
    /\ listener[l] = "binding"
    /\ \E x \in {"open", "closed"} : listener' = [listener EXCEPT ![l] = x]
    /\ UNCHANGED <<apiVars, process, crashes, clientVars, exchange, answers>>

\* Mutant: the records survive.
Dies_saving(next) ==
    /\ process \in {"starting", "serving"}
    /\ process' = next
    /\ listener' = Closed
    /\ \E cut \in SUBSET {c \in Clients : exchange[c] = "answered"} :
          exchange' = [c \in Clients |-> IF c \in cut \/ exchange[c] = "queued"
                                         THEN "reset" ELSE exchange[c]]
    /\ UNCHANGED <<apiVars, clientVars, answers>>

\* Mutant: requests that were not answered stay where they are.
Dies_hanging(next) ==
    /\ process \in {"starting", "serving"}
    /\ process' = next
    /\ listener' = Closed
    /\ records' = [id \in Ids |-> NoRecord]
    /\ UNCHANGED <<issued, asked, reply, clientVars, exchange, answers>>

\* Mutant: each process counts its ids from the beginning.
Dies_renumbering(next) ==
    /\ process \in {"starting", "serving"}
    /\ process' = next
    /\ listener' = Closed
    /\ records' = [id \in Ids |-> NoRecord]
    /\ issued' = {}
    /\ \E cut \in SUBSET {c \in Clients : exchange[c] = "answered"} :
          exchange' = [c \in Clients |-> IF c \in cut \/ exchange[c] = "queued"
                                         THEN "reset" ELSE exchange[c]]
    /\ UNCHANGED <<asked, reply, clientVars, answers>>

\* The store was in memory.  The kernel resets the connections, and a response
\* may or may not have left before.
Dies(next) ==
    /\ process \in {"starting", "serving"}
    /\ process' = next
    /\ listener' = Closed
    /\ records' = [id \in Ids |-> NoRecord]
    /\ \E cut \in SUBSET {c \in Clients : exchange[c] = "answered"} :
          exchange' = [c \in Clients |-> IF c \in cut \/ exchange[c] = "queued"
                                         THEN "reset" ELSE exchange[c]]
    /\ UNCHANGED <<issued, asked, reply, clientVars, answers>>

\* Without the API port main returns: a success to the unit.
BindApi ==
    /\ listener["api"] = "binding"
    /\ \/ /\ listener' = [listener EXCEPT !["api"] = "open"]
          /\ process' = "serving"
          /\ UNCHANGED <<apiVars, clientVars, exchange, answers>>
       \/ Dies("off")
    /\ UNCHANGED crashes

\* SIGINT or SIGTERM: main returns, which drops every task.
Terminate == Dies("off") /\ UNCHANGED crashes

Crash == /\ crashes < MaxCrashes
         /\ crashes' = crashes + 1
         /\ Dies("restarting")

\* The administrator stops a unit that waits to be restarted.
Stop == /\ process = "restarting"
        /\ process' = "off"
        /\ UNCHANGED <<apiVars, listener, crashes, clientVars, exchange, answers>>

\* A task of the API server reads the request and answers it, whether or not
\* the client is still there.
Handle(c) ==
    /\ process = "serving" /\ exchange[c] = "queued"
    /\ Served(command[c])
    /\ response' = [response EXCEPT ![c] = reply']
    /\ known' = [known EXCEPT ![c] = issued']
    /\ exchange' = [exchange EXCEPT ![c] = "answered"]
    /\ UNCHANGED <<serverVars, clientVars>>

-----------------------------------------------------------------------------
(* The client.                                                             *)

Ends(c, end) == client' = [client EXCEPT ![c] = end]

\* Connect and write the request.
Connect(c) ==
    /\ client[c] = "new"
    /\ IF listener["api"] = "open"
       THEN Ends(c, "waiting") /\ exchange' = [exchange EXCEPT ![c] = "queued"]
       ELSE Ends(c, "failed") /\ UNCHANGED exchange
    /\ UNCHANGED <<apiVars, serverVars, command, answers, printed>>

\* Mutant: any response that is no server error counts as success.
Verdict_lenient(op, status) == IF status < 500 THEN "done" ELSE "failed"

\* How run ends: the status it expects of each command, "Not found" for an id,
\* and otherwise exit status 1.
Verdict(op, status) ==
    IF \/ op = "add" /\ status = 201
       \/ op \in {"list", "health"} /\ status = 200
       \/ op \in {"delete_id", "delete"} /\ status = 204
    THEN "done"
    ELSE IF op = "delete_id" /\ status = 404 THEN "missing" ELSE "failed"

\* The response up to the end of the connection.  With its body cut short, the
\* status still decides, and the exit status is the same.
Receive(c) ==
    /\ client[c] = "waiting" /\ exchange[c] = "answered"
    /\ Ends(c, Verdict(command[c].op, response[c].status))
    /\ \/ printed' = [printed EXCEPT ![c] = response[c].records]
       \/ UNCHANGED printed
    /\ UNCHANGED <<apiVars, serverVars, command, exchange, answers>>

\* The connection ends without a response.
Reset(c) ==
    /\ client[c] = "waiting" /\ exchange[c] = "reset"
    /\ Ends(c, "failed")
    /\ UNCHANGED <<apiVars, serverVars, command, exchange, answers, printed>>

\* Mutant: the request is sent again when the response was lost.
Break_retried(c) ==
    /\ client[c] = "waiting" /\ exchange[c] = "answered" /\ process = "serving"
    /\ exchange' = [exchange EXCEPT ![c] = "queued"]
    /\ response' = [response EXCEPT ![c] = Nothing]
    /\ UNCHANGED <<apiVars, serverVars, clientVars, known>>

\* It breaks, or the user interrupts the command; the request is where it was.
Break(c) ==
    /\ client[c] = "waiting"
    /\ Ends(c, "failed")
    /\ UNCHANGED <<apiVars, serverVars, command, exchange, answers, printed>>

Next == \/ Start \/ Relaunch \/ BindApi \/ Terminate \/ Crash \/ Stop
        \/ \E l \in Dns : BindDns(l)
        \/ \E c \in Clients : \/ Handle(c) \/ Connect(c) \/ Receive(c)
                              \/ Reset(c) \/ Break(c)

Spec == Init /\ [][Next]_vars

\* systemd starts a failed unit again, main binds what it can, the runtime
\* polls every task and the kernel closes the connections of a dead process.
\* Nobody has to start the server or to run a command.
Fairness ==
    /\ WF_vars(Relaunch) /\ WF_vars(BindApi)
    /\ \A l \in Dns : WF_vars(BindDns(l))
    /\ \A c \in Clients : WF_vars(Handle(c)) /\ WF_vars(Receive(c) \/ Reset(c))

FairSpec == Spec /\ Fairness
-----------------------------------------------------------------------------
\* Records and listeners are those of a process that lives, and what a client
\* and its connection can be at each point of the exchange.
TypeOK ==
    /\ records \in [Ids -> Api!Record \cup {NoRecord}] /\ issued \subseteq Ids
    /\ process \in {"off", "starting", "serving", "restarting"}
    /\ listener \in [Listeners -> {"closed", "binding", "open"}]
    /\ crashes \in 0..MaxCrashes
    /\ command \in Tasks
    /\ client \in [Clients -> {"new", "waiting", "done", "missing", "failed"}]
    /\ exchange \in [Clients -> {"none", "queued", "answered", "reset"}]
    /\ response \in [Clients -> Responses \cup {Nothing}]
    /\ known \in [Clients -> SUBSET Ids]
    /\ listener["api"] = "open" <=> process = "serving"
    /\ process \in {"off", "restarting"} => listener = Closed
    /\ process # "serving" => records = [id \in Ids |-> NoRecord]
    /\ \A c \in Clients :
          /\ exchange[c] = "queued" => process = "serving" /\ response[c] = Nothing
          /\ exchange[c] = "none" => response[c] = Nothing
          /\ exchange[c] = "answered" => response[c] # Nothing
          /\ client[c] = "new" => exchange[c] = "none"

\* The commands and the process that dies under them keep the promise of
\* RemoteStore: none takes effect twice, none is reported done that was not,
\* none is reported missing that was there, and records vanish only by a delete
\* that asks for them or with the process (cli.rs, run; main.rs, main).
Remote == INSTANCE RemoteStore WITH
              decided <- response,
              told <- [c \in Clients |-> IF client[c] \in {"new", "waiting"}
                                         THEN "pending" ELSE client[c]]

Promise == Remote!Spec

\* The commands whose response shows a record under this id as added.
AddedBy(id) == {c \in Clients : /\ command[c].op = "add" /\ response[c] # Nothing
                                /\ \E r \in response[c].records : r.id = id}

\* Whatever connections break and whichever process handles them, no two adds
\* get one id, and what is stored is what one add was answered with: none is
\* stored that nobody asked for, or that was asked for once and stored twice
\* (cli.rs, http_request, sends a request once; store.rs, add).
EveryRecordAsked ==
    \A id \in Ids :
        /\ \A c, d \in AddedBy(id) : c = d
        /\ records[id] # NoRecord =>
              \E c \in AddedBy(id) : response[c].records = {records[id]}

\* What a response showed of a record stays true: its id means that very record
\* or none, in this process and in those that follow, so that a delete by an id
\* that was printed cannot meet another record (store.rs, add; main.rs, main).
IdsKeepMeaning ==
    \A c \in Clients : response[c] # Nothing =>
        \A r \in response[c].records : records[r.id] \in {r, NoRecord}

\* A list shows what a delete with the same arguments will remove, however the
\* server reads them, whoever runs it and whatever happens in between: of the
\* records that there were at the list's moment, a delete removes exactly those
\* that it showed and that are still there, and it is refused when the list was
\* (cli.rs, the two arms that build the query; api.rs, delete_records, with a
\* case for no filter; store.rs, delete_filtered).
SameArguments(k, l) == k.op = "list" /\ l.op = "delete"
                       /\ k.name = l.name /\ k.type = l.type

Previews(c) ==
    \A w \in Clients :
        SameArguments(command[c], command[w]) /\ response[w] = Nothing
          /\ response'[w] # Nothing =>
            /\ response[c].status = 400 <=> response'[w].status = 400
            /\ \A id \in known[c] : records[id] # NoRecord =>
                  (records'[id] = NoRecord <=> records[id] \in response[c].records)

PreviewIsHonest ==
    [][\A c \in Clients : response[c] # Nothing => Previews(c)]_vars

\* Every command that was sent ends, although http_request has no timeout: the
\* server answers or its end is noticed (cli.rs, http_request).
CommandEnds ==
    \A c \in Clients : client[c] = "waiting" ~> client[c] \in {"done", "missing", "failed"}

\* A crash is followed by a server that has tried all its ports, or by one that
\* was stopped or found its API port taken (install.sh, the unit; main.rs).
Recovers ==
    process = "restarting" ~> \/ process = "off"
                              \/ process = "serving" /\ \A l \in Dns : listener[l] # "binding"

=============================================================================
