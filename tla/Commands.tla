------------------------------ MODULE Commands ------------------------------
(***************************************************************************)
(* The commands of the client (src/src/cli.rs), the requests it makes of   *)
(* them, and the handler of the management API that each one leads to.     *)
(*                                                                         *)
(* The client puts its arguments into a request as they are, into JSON     *)
(* without escapes and into a URL without percent-encoding, so that the    *)
(* server may read other arguments there, or none.  What it reads is given *)
(* by two functions.  An id, as the server printed it, has no character    *)
(* that means anything in a URL.                                           *)
(***************************************************************************)
EXTENDS Integers

CONSTANTS Domains, Letters, Lower, Ids, RecordTypes, Data, NoRecord, None,
          BadType,
          TypeTexts,     \* type arguments, the names of the types among them
          InBody,        \* what a body made of a name, a type and data reads as
          InQuery,       \* what a query made of a name and a type reads as
          Unreadable,    \* a request that is refused before a handler sees it
          Clients,       \* the invocations of the client
          Asked,         \* bound: the commands that each is tried with
          Nothing        \* no response, or nothing printed

VARIABLES records, issued, asked, reply

Api == INSTANCE RecordApi

apiVars == <<records, issued, asked, reply>>

\* The arguments; add has a name, a type and data, delete an id or else a filter.
Ops == {"add", "list", "delete_id", "delete", "health"}
Command == [op : Ops, name : Api!Spellings \cup {None}, type : TypeTexts \cup {None},
            id : Ids \cup {None}, data : Data]

Responses == [status : Nat, records : SUBSET Api!Record]

ASSUME CommandsAssumption ==
    /\ Lower \in Letters
    /\ \A c \in Clients : \A k \in Asked[c] :
          /\ k \in Command
          /\ k.op = "add" => k.name # None /\ k.type # None
          /\ k.op = "delete_id" => k.id \in Ids
    /\ RecordTypes \subseteq TypeTexts
    /\ \A a \in [name : Api!Spellings, type : TypeTexts, data : Data] :
          InBody[a] \in [name : Api!Spellings, type : RecordTypes \cup {BadType},
                         data : Data] \cup {Unreadable}
    /\ \A a \in [name : Api!NameFilter, type : TypeTexts \cup {None}] :
          InQuery[a] \in [name : Api!NameFilter, type : Api!TypeFilter] \cup {Unreadable}
    /\ Nothing \notin Responses
    /\ NoRecord \notin Api!Record
    /\ None \notin Domains \cup TypeTexts \cup Api!Spellings
    /\ BadType \notin RecordTypes \cup {None}

\* What the server reads of the arguments.
Body(k) == InBody[[name |-> k.name, type |-> k.type, data |-> k.data]]
Query(k) == InQuery[[name |-> k.name, type |-> k.type]]

\* The response of axum's extractors; no handler runs.
Refuse(status) == /\ Api!Asks("refused", None, None, None)
                  /\ Api!Respond(status, {})
                  /\ UNCHANGED <<records, issued>>

\* A body that is no JSON is a bad request; one with a field that is missing,
\* repeated or of no type is unprocessable.
ServeAdd(body) ==
    \/ body = Unreadable /\ \E status \in {400, 422} : Refuse(status)
    \/ body # Unreadable /\ body.type = BadType /\ Refuse(422)
    \/ body # Unreadable /\ body.type # BadType /\ Api!create_record(body)

\* The handler's step: its effect on the records, its response in reply.
Served(k) ==
    \/ k.op = "add" /\ ServeAdd(Body(k))
    \/ k.op \in {"list", "delete"} /\ Query(k) = Unreadable /\ Refuse(400)
    \/ k.op = "list" /\ Query(k) # Unreadable
         /\ Api!list_records(Query(k).name, Query(k).type)
    \/ k.op = "delete_id" /\ Api!delete_record(k.id)
    \/ k.op = "delete" /\ Query(k) # Unreadable
         /\ Api!delete_records(Query(k).name, Query(k).type)
    \/ /\ k.op = "health"
       /\ Api!Asks("health", None, None, None) /\ Api!Respond(200, {})
       /\ UNCHANGED <<records, issued>>

\* The commands that the clients may be asked together.
Tasks == {f \in [Clients -> UNION {Asked[c] : c \in Clients}] :
             \A c \in Clients : f[c] \in Asked[c]}

=============================================================================
