---------------------------- MODULE RecordStore -----------------------------
(***************************************************************************)
(* RecordStore and SharedStore (src/src/store.rs): the map from ids to     *)
(* mock records, and its operations as operators.  Each method of          *)
(* SharedStore holds the RwLock for the whole operation, so each is one    *)
(* step of its caller: a handler of the API (RecordApi) or a task that     *)
(* answers a query (Resolver).                                             *)
(***************************************************************************)
EXTENDS DnsNames

CONSTANTS Ids,           \* what Uuid::new_v4 can return
          RecordTypes,   \* models.rs, RecordType
          Data,          \* a record's ttl and data, which the store only keeps
          NoRecord,
          None           \* a filter parameter that is not given

Record == [id : Ids, name : Spellings, type : RecordTypes, data : Data]
CreateRecord == [name : Spellings, type : RecordTypes, data : Data]

ASSUME StoreAssumption ==
    /\ NoRecord \notin Record
    /\ None \notin Spellings
    /\ None \notin RecordTypes

VARIABLES records,       \* the HashMap, NoRecord where it has no such id
          issued         \* the ids given out so far: a v4 UUID does not recur

Present == {records[id] : id \in {i \in Ids : records[i] # NoRecord}}

\* Mutant: the name is kept as it was typed.
Made_verbatim(id, req) == [id |-> id, name |-> req.name,
                           type |-> req.type, data |-> req.data]

\* The record that add makes of a request, under a new id.
Made(id, req) == [id |-> id, name |-> normalize_name(req.name),
                  type |-> req.type, data |-> req.data]

add(id, req) == /\ id \notin issued
                /\ issued' = issued \cup {id}
                /\ records' = [records EXCEPT ![id] = Made(id, req)]

get(id) == {records[id]} \ {NoRecord}

\* Mutant: the filter's name is compared as it was typed.
list_filtered_verbatim(name, rtype) ==
    {r \in Present : /\ name # None => r.name = name
                     /\ rtype # None => r.type = rtype}

list_filtered(name, rtype) ==
    {r \in Present : /\ name # None => r.name = normalize_name(name)
                     /\ rtype # None => r.type = rtype}

lookup(name, rtype) ==
    {r \in Present : r.name = normalize_name(name) /\ r.type = rtype}

delete(id) == records' = [records EXCEPT ![id] = NoRecord] /\ UNCHANGED issued

delete_all == records' = [id \in Ids |-> NoRecord] /\ UNCHANGED issued

\* Mutant: delete compares the filter's name as it was typed.
delete_filtered_verbatim(name, rtype) ==
    LET to_remove == {r.id : r \in list_filtered_verbatim(name, rtype)}
    IN  /\ records' = [id \in Ids |-> IF id \in to_remove THEN NoRecord
                                      ELSE records[id]]
        /\ UNCHANGED issued

\* The ids of the matching records are collected, then removed one by one
\* under the same write lock.
delete_filtered(name, rtype) ==
    LET to_remove == {r.id : r \in list_filtered(name, rtype)}
    IN  /\ records' = [id \in Ids |-> IF id \in to_remove THEN NoRecord
                                      ELSE records[id]]
        /\ UNCHANGED issued

=============================================================================
