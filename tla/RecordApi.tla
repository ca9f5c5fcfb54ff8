----------------------------- MODULE RecordApi ------------------------------
(***************************************************************************)
(* The records endpoints of the management API (src/src/api.rs).  Each     *)
(* handler takes the store's lock once, so each request is one step.       *)
(***************************************************************************)
EXTENDS RecordStore, Integers

CONSTANT BadType         \* a type parameter that RecordType::from_str refuses

ASSUME ApiAssumption == /\ BadType \notin RecordTypes /\ BadType # None
                        /\ None \notin Domains

VARIABLES asked,         \* the last HTTP request: its handler and parameters
          reply          \* and the response: its status and records

vars == <<records, issued, asked, reply>>

Init == /\ records = [id \in Ids |-> NoRecord]
        /\ issued = {}
        /\ asked = [op |-> "none", name |-> None, type |-> None, id |-> None]
        /\ reply = [status |-> 0, records |-> {}]

Asks(op, name, type, id) ==
    asked' = [op |-> op, name |-> name, type |-> type, id |-> id]

Respond(status, body) == reply' = [status |-> status, records |-> body]

create_record(req) ==
    /\ Asks("create", req.name, req.type, None)
    /\ \E id \in Ids : add(id, req) /\ Respond(201, {Made(id, req)})

list_records(name, type) ==
    /\ Asks("list", name, type, None)
    /\ IF type = BadType THEN Respond(400, {})
       ELSE Respond(200, list_filtered(name, type))
    /\ UNCHANGED <<records, issued>>

get_record(id) ==
    /\ Asks("get", None, None, id)
    /\ Respond(IF get(id) = {} THEN 404 ELSE 200, get(id))
    /\ UNCHANGED <<records, issued>>

delete_record(id) ==
    /\ Asks("delete_one", None, None, id)
    /\ delete(id)
    /\ Respond(IF records[id] = NoRecord THEN 404 ELSE 204, {})

\* Without a filter everything goes; a bad type is refused before anything.
delete_records(name, type) ==
    /\ Asks("delete", name, type, None)
    /\ IF type = BadType THEN Respond(400, {}) /\ UNCHANGED <<records, issued>>
       ELSE /\ Respond(204, {})
            /\ IF name = None /\ type = None THEN delete_all
               ELSE delete_filtered(name, type)

NameFilter == Spellings \cup {None}
TypeFilter == RecordTypes \cup {None, BadType}

Next == \/ \E req \in CreateRecord : create_record(req)
        \/ \E id \in Ids : get_record(id) \/ delete_record(id)
        \/ \E name \in NameFilter, type \in TypeFilter :
              list_records(name, type) \/ delete_records(name, type)

Spec == Init /\ [][Next]_vars
-----------------------------------------------------------------------------
\* Each record is kept under its own id, which was issued, and under the
\* canonical spelling of its name.
TypeOK ==
    /\ issued \subseteq Ids
    /\ records \in [Ids -> Record \cup {NoRecord}]
    /\ \A id \in Ids : records[id] # NoRecord =>
          /\ id \in issued
          /\ records[id].id = id
          /\ records[id].name = normalize_name(records[id].name)
    /\ reply.records \subseteq Record

\* Seen through the domains its names denote, the store is the zone: whatever
\* spelling a record was created under, every spelling of the same domain
\* shows it and deletes it, and a delete removes exactly what a list with the
\* same filter shows (store.rs normalises in add, list, lookup and delete).
DomainRecord(r) == [id |-> r.id, domain |-> r.name.domain, type |-> r.type,
                    data |-> r.data]
AsZone(rs) == {DomainRecord(r) : r \in rs}

DomainOf(name) == IF name = None THEN None ELSE name.domain

Abstract == INSTANCE Zone WITH
                zone <- AsZone(Present),
                asked <- [op |-> asked.op, domain |-> DomainOf(asked.name),
                          type |-> asked.type, id |-> asked.id],
                reply <- [status |-> reply.status, records |-> AsZone(reply.records)]

ZonePromise == Abstract!Spec

=============================================================================
