-------------------------------- MODULE Zone --------------------------------
(***************************************************************************)
(* What the records API promises, whatever the store does with the text of *)
(* a name: a set of records, each of one domain, to which a request adds   *)
(* one record under an id never used before, and from which a request      *)
(* shows or removes exactly the records that its filter describes.  Here a *)
(* filter is a domain, not the spelling of one.                            *)
(***************************************************************************)
CONSTANTS Ids, Domains, RecordTypes, Data,
          None,          \* the part of the filter that is not given
          BadType        \* a type parameter that names no record type

VARIABLES zone, issued,  \* the records; the ids ever given to one
          asked, reply   \* the last request and its answer: a status, records

vars == <<zone, issued, asked, reply>>

Init == /\ zone = {} /\ issued = {}
        /\ asked = [op |-> "none", domain |-> None, type |-> None, id |-> None]
        /\ reply = [status |-> 0, records |-> {}]

Asks(op, domain, type, id) ==
    asked' = [op |-> op, domain |-> domain, type |-> type, id |-> id]

Answer(status, records) == reply' = [status |-> status, records |-> records]

Described(domain, type) ==
    {r \in zone : domain \in {None, r.domain} /\ type \in {None, r.type}}

Create(id, domain, type, data) ==
    /\ Asks("create", domain, type, None)
    /\ id \notin issued
    /\ issued' = issued \cup {id}
    /\ LET r == [id |-> id, domain |-> domain, type |-> type, data |-> data]
       IN  zone' = zone \cup {r} /\ Answer(201, {r})

Show(domain, type) ==
    /\ Asks("list", domain, type, None)
    /\ IF type = BadType THEN Answer(400, {})
       ELSE Answer(200, Described(domain, type))
    /\ UNCHANGED <<zone, issued>>

ShowOne(id) ==
    LET found == {r \in zone : r.id = id}
    IN  /\ Asks("get", None, None, id)
        /\ Answer(IF found = {} THEN 404 ELSE 200, found)
        /\ UNCHANGED <<zone, issued>>

Remove(domain, type) ==
    /\ Asks("delete", domain, type, None)
    /\ IF type = BadType THEN Answer(400, {}) /\ UNCHANGED zone
       ELSE Answer(204, {}) /\ zone' = zone \ Described(domain, type)
    /\ UNCHANGED issued

RemoveOne(id) ==
    LET found == {r \in zone : r.id = id}
    IN  /\ Asks("delete_one", None, None, id)
        /\ Answer(IF found = {} THEN 404 ELSE 204, {})
        /\ zone' = zone \ found
        /\ UNCHANGED issued

Next == \/ \E id \in Ids, d \in Domains, t \in RecordTypes, x \in Data :
              Create(id, d, t, x)
        \/ \E id \in Ids : ShowOne(id) \/ RemoveOne(id)
        \/ \E d \in Domains \cup {None}, t \in RecordTypes \cup {None, BadType} :
              Show(d, t) \/ Remove(d, t)

Spec == Init /\ [][Next]_vars

=============================================================================
