-------------------------- MODULE RecordApiProofs ---------------------------
(***************************************************************************)
(* Proofs about RecordApi, for every set of names, ids, types and data.    *)
(***************************************************************************)
EXTENDS RecordApi, Lemmas

-----------------------------------------------------------------------------
(* The type invariant is inductive.                                        *)

LEMMA MadeRecord ==
    ASSUME NEW id \in Ids, NEW req \in CreateRecord
    PROVE  /\ Made(id, req) \in Record
           /\ Made(id, req).id = id
           /\ Made(id, req).name = normalize_name(Made(id, req).name)
           /\ Made(id, req).name.domain = req.name.domain
  BY CanonicalNames DEF Made, Record, CreateRecord

\* Everything the store shows is a record of it.
LEMMA PresentRecords ==
    ASSUME TypeOK
    PROVE  /\ Present \subseteq Record
           /\ \A r \in Present : r.id \in Ids /\ records[r.id] = r
           /\ \A id \in Ids : records[id] # NoRecord => records[id] \in Present
  BY DEF TypeOK, Present

LEMMA StepKeepsTypeOK == TypeOK /\ [Next]_vars => TypeOK'
<1> SUFFICES ASSUME TypeOK, [Next]_vars PROVE TypeOK'
  OBVIOUS
<1> USE StoreAssumption
<1>1. ASSUME NEW req \in CreateRecord, create_record(req) PROVE TypeOK'
  <2>1. PICK id \in Ids : add(id, req) /\ Respond(201, {Made(id, req)})
    BY <1>1 DEF create_record
  <2> QED
    BY <2>1, MadeRecord DEF TypeOK, add, Respond
<1>2. ASSUME NEW id \in Ids, get_record(id) PROVE TypeOK'
  BY <1>2 DEF TypeOK, get_record, get, Respond
<1>3. ASSUME NEW id \in Ids, delete_record(id) PROVE TypeOK'
  BY <1>3 DEF TypeOK, delete_record, delete, Respond
<1>4. ASSUME NEW name \in NameFilter, NEW type \in TypeFilter,
             list_records(name, type)
      PROVE  TypeOK'
  <2>1. list_filtered(name, type) \subseteq Record
    BY PresentRecords DEF list_filtered
  <2> QED
    BY <1>4, <2>1 DEF TypeOK, list_records, Respond
<1>5. ASSUME NEW name \in NameFilter, NEW type \in TypeFilter,
             delete_records(name, type)
      PROVE  TypeOK'
  BY <1>5 DEF TypeOK, delete_records, delete_all, delete_filtered, Respond
<1>6. CASE UNCHANGED vars
  BY <1>6 DEF TypeOK, vars
<1> QED
  BY <1>1, <1>2, <1>3, <1>4, <1>5, <1>6 DEF Next

\* Records stay under their own issued ids and canonical names.
THEOREM StoreTypeCorrect == Spec => []TypeOK
<1>1. Init => TypeOK
  BY StoreAssumption DEF Init, TypeOK
<1> QED
  BY <1>1, StepKeepsTypeOK, PTL DEF Spec

-----------------------------------------------------------------------------
(* Refinement: each handler is the step of Zone of the same meaning.       *)

\* Records with one id are one record, and so are their views.
LEMMA ViewById ==
    ASSUME TypeOK, NEW r \in Present, NEW s \in Present,
           DomainRecord(r) = DomainRecord(s)
    PROVE  r = s
<1>1. r.id = s.id
  BY DEF DomainRecord
<1> QED
  BY <1>1, PresentRecords

\* A filter by spelling selects what the filter by its domain describes.
LEMMA FilterByDomain ==
    ASSUME TypeOK,
           NEW name \in NameFilter, NEW type \in RecordTypes \cup {None}
    PROVE  AsZone(list_filtered(name, type))
               = Abstract!Described(DomainOf(name), type)
<1> DEFINE Chosen(r) == /\ name # None => r.name = normalize_name(name)
                        /\ type # None => r.type = type
           Meant(r) == /\ DomainOf(name) \in {None, DomainRecord(r).domain}
                       /\ type \in {None, DomainRecord(r).type}
<1>1. ASSUME NEW r \in Present PROVE Chosen(r) <=> Meant(r)
  <2>1. r \in Record /\ r.name \in Spellings
    BY PresentRecords DEF Record
  <2>2. r.name = normalize_name(r.name)
    BY PresentRecords, StoreAssumption DEF TypeOK
  <2>3. r.name.domain # None
    BY <2>1, ApiAssumption DEF Spellings
  <2>4. CASE name = None
    BY <2>4 DEF DomainOf, DomainRecord
  <2>5. CASE name \in Spellings
    <3>1. r.name = normalize_name(name) <=> r.name.domain = name.domain
      BY <2>1, <2>2, <2>5, CanonicalNames
    <3>2. name # None /\ name.domain # None
      BY <2>5, StoreAssumption, ApiAssumption DEF Spellings
    <3> QED
      BY <3>1, <3>2, <2>3 DEF DomainOf, DomainRecord
  <2> QED
    BY <2>4, <2>5 DEF NameFilter
<1>2. list_filtered(name, type) = {r \in Present : Chosen(r)}
  BY DEF list_filtered
<1>3. Abstract!Described(DomainOf(name), type)
        = {z \in AsZone(Present) : /\ DomainOf(name) \in {None, z.domain}
                                   /\ type \in {None, z.type}}
  BY DEF Abstract!Described
<1> HIDE DEF Chosen
<1> QED
  BY <1>1, <1>2, <1>3 DEF AsZone

\* Removing records removes their views and no other's.
LEMMA RemovedViews ==
    ASSUME TypeOK, NEW S \in SUBSET Present
    PROVE  AsZone(Present \ S) = AsZone(Present) \ AsZone(S)
  BY ViewById DEF AsZone

\* The records with an id: at most one.
LEMMA FoundById ==
    ASSUME TypeOK, NEW id \in Ids
    PROVE  /\ get(id) \subseteq Present
           /\ AsZone(get(id)) = {z \in AsZone(Present) : z.id = id}
           /\ get(id) = {} <=> records[id] = NoRecord
<1>1. get(id) = {r \in Present : r.id = id}
  BY PresentRecords, StoreAssumption DEF get, TypeOK, Present
<1> QED
  BY <1>1 DEF AsZone, DomainRecord, get

\* A handler that keeps the store and answers status and body is a step of
\* Zone that keeps the zone and answers the body's view.
LEMMA AnswerView ==
    ASSUME NEW status, NEW body, Respond(status, body)
    PROVE  Abstract!Answer(status, AsZone(body))
  BY DEF Respond, Abstract!Answer

\* A request for a spelling is, to Zone, the request for its domain.
LEMMA RequestView ==
    ASSUME NEW op, NEW name, NEW type, NEW id, Asks(op, name, type, id)
    PROVE  Abstract!Asks(op, DomainOf(name), type, id)
  BY DEF Asks, Abstract!Asks

LEMMA CreateRefines ==
    ASSUME TypeOK, NEW req \in CreateRecord, create_record(req)
    PROVE  Abstract!Next
<1>1. PICK id \in Ids : add(id, req) /\ Respond(201, {Made(id, req)})
  BY DEF create_record
<1> DEFINE m == Made(id, req)
<1>2. m \in Record /\ m.id = id /\ m # NoRecord
  BY MadeRecord, StoreAssumption
<1>3. records[id] = NoRecord /\ id \notin issued
  BY <1>1 DEF add, TypeOK
<1>4. records' = [records EXCEPT ![id] = m] /\ issued' = issued \cup {id}
  BY <1>1 DEF add
<1>5. DomainRecord(m) = [id |-> id, domain |-> req.name.domain,
                         type |-> req.type, data |-> req.data]
  BY MadeRecord DEF DomainRecord, Made
<1> HIDE DEF m
<1>6. Present' = Present \cup {m}
  BY <1>2, <1>3, <1>4 DEF Present, TypeOK
<1>7. AsZone(Present') = AsZone(Present) \cup {DomainRecord(m)}
  BY <1>6 DEF AsZone
<1>8. Abstract!Answer(201, {DomainRecord(m)})
  BY <1>1, AnswerView DEF m, AsZone
<1>9. Abstract!Asks("create", req.name.domain, req.type, None)
  <2>1. DomainOf(req.name) = req.name.domain
    BY StoreAssumption DEF DomainOf, CreateRecord
  <2> QED
    BY <2>1, RequestView DEF create_record
<1>10. Abstract!Create(id, req.name.domain, req.type, req.data)
  BY <1>3, <1>4, <1>5, <1>7, <1>8, <1>9 DEF Abstract!Create
<1> QED
  BY <1>10 DEF Abstract!Next, CreateRecord, Spellings

LEMMA ShowOneRefines ==
    ASSUME TypeOK, NEW id \in Ids, get_record(id)
    PROVE  Abstract!Next
<1>1. Respond(IF get(id) = {} THEN 404 ELSE 200, get(id))
  BY DEF get_record
<1>2. Abstract!Answer(IF get(id) = {} THEN 404 ELSE 200, AsZone(get(id)))
  BY <1>1, AnswerView
<1> DEFINE found == {z \in AsZone(Present) : z.id = id}
<1>3. AsZone(get(id)) = found /\ (get(id) = {} <=> found = {})
  <2>1. get(id) = {} <=> AsZone(get(id)) = {}
    BY DEF AsZone
  <2> QED
    BY <2>1, FoundById
<1>4. AsZone(Present)' = AsZone(Present) /\ issued' = issued
  BY DEF get_record, AsZone, Present
<1>5. Abstract!Asks("get", None, None, id)
  BY RequestView DEF get_record, DomainOf
<1>6. Abstract!Answer(IF found = {} THEN 404 ELSE 200, found)
  BY <1>2, <1>3
<1>7. Abstract!ShowOne(id)
  BY <1>4, <1>5, <1>6 DEF Abstract!ShowOne
<1> QED
  BY <1>7 DEF Abstract!Next

LEMMA RemoveOneRefines ==
    ASSUME TypeOK, NEW id \in Ids, delete_record(id)
    PROVE  Abstract!Next
<1>1. Present' = Present \ get(id)
  <2>1. records' = [records EXCEPT ![id] = NoRecord]
    BY DEF delete_record, delete
  <2>2. \A i \in Ids : i # id /\ records[i] # NoRecord => records[i] # records[id]
    BY DEF TypeOK
  <2> QED
    BY <2>1, <2>2 DEF get, Present, TypeOK
<1>2. AsZone(Present') = AsZone(Present) \ AsZone(get(id))
  BY <1>1, RemovedViews, FoundById
<1> DEFINE found == {z \in AsZone(Present) : z.id = id}
<1>3. AsZone(get(id)) = found /\ (get(id) = {} <=> found = {})
  <2>1. get(id) = {} <=> AsZone(get(id)) = {}
    BY DEF AsZone
  <2> QED
    BY <2>1, FoundById
<1>4. Abstract!Asks("delete_one", None, None, id)
  BY RequestView DEF delete_record, DomainOf
<1>5. Abstract!Answer(IF found = {} THEN 404 ELSE 204, {})
  <2>1. Respond(IF get(id) = {} THEN 404 ELSE 204, {})
    BY FoundById DEF delete_record
  <2>2. AsZone({}) = {}
    BY DEF AsZone
  <2> QED
    BY <1>3, <2>1, <2>2, AnswerView
<1>6. AsZone(Present)' = AsZone(Present) \ found /\ issued' = issued
  BY <1>2, <1>3 DEF delete_record, delete, AsZone
<1>7. Abstract!RemoveOne(id)
  BY <1>4, <1>5, <1>6 DEF Abstract!RemoveOne
<1> QED
  BY <1>7 DEF Abstract!Next

LEMMA ShowRefines ==
    ASSUME TypeOK, NEW name \in NameFilter, NEW type \in TypeFilter,
           list_records(name, type)
    PROVE  Abstract!Show(DomainOf(name), type)
<1>0. Abstract!Asks("list", DomainOf(name), type, None)
  BY RequestView DEF list_records
<1>1. AsZone(Present)' = AsZone(Present) /\ issued' = issued
  BY DEF list_records, AsZone, Present
<1>2. CASE type = BadType
  <2>1. Abstract!Answer(400, AsZone({}))
    BY <1>2, AnswerView DEF list_records
  <2> QED
    BY <1>0, <1>1, <1>2, <2>1 DEF Abstract!Show, AsZone
<1>3. CASE type \in RecordTypes \cup {None}
  <2>1. Abstract!Answer(200, AsZone(list_filtered(name, type)))
    BY <1>3, ApiAssumption, AnswerView DEF list_records
  <2> QED
    BY <1>0, <1>1, <1>3, <2>1, FilterByDomain, ApiAssumption DEF Abstract!Show
<1> QED
  BY <1>2, <1>3 DEF TypeFilter

LEMMA RemoveRefines ==
    ASSUME TypeOK, NEW name \in NameFilter, NEW type \in TypeFilter,
           delete_records(name, type)
    PROVE  Abstract!Remove(DomainOf(name), type)
<1>0. Abstract!Asks("delete", DomainOf(name), type, None)
  BY RequestView DEF delete_records
<1>1. CASE type = BadType
  <2>1. Abstract!Answer(400, AsZone({}))
    BY <1>1, AnswerView DEF delete_records
  <2>2. AsZone(Present)' = AsZone(Present) /\ issued' = issued
    BY <1>1 DEF delete_records, AsZone, Present
  <2> QED
    BY <1>0, <1>1, <2>1, <2>2 DEF Abstract!Remove, AsZone
<1>2. CASE type \in RecordTypes \cup {None}
  <2> DEFINE gone == list_filtered(name, type)
  <2>1. Abstract!Answer(204, AsZone({})) /\ issued' = issued
    BY <1>2, ApiAssumption, AnswerView
       DEF delete_records, delete_all, delete_filtered
  <2>2. gone \subseteq Present
    BY DEF list_filtered
  <2>3. Present' = Present \ gone
    <3>1. CASE name = None /\ type = None
      <4>1. gone = Present
        BY <3>1 DEF list_filtered
      <4> QED
        BY <1>2, <3>1, <4>1, ApiAssumption, StoreAssumption
           DEF delete_records, delete_all, Present
    <3>2. CASE ~ (name = None /\ type = None)
      <4>1. records' = [id \in Ids |-> IF id \in {r.id : r \in gone}
                                       THEN NoRecord ELSE records[id]]
        BY <1>2, <3>2, ApiAssumption DEF delete_records, delete_filtered
      <4>2. ASSUME NEW id \in Ids, records[id] # NoRecord
            PROVE  id \in {r.id : r \in gone} <=> records[id] \in gone
        BY <2>2, <4>2, PresentRecords DEF TypeOK
      <4> HIDE DEF gone
      <4> QED
        BY <4>1, <4>2 DEF Present
    <3> QED
      BY <3>1, <3>2
  <2>4. AsZone(Present') = AsZone(Present) \ AsZone(gone)
    BY <2>2, <2>3, RemovedViews
  <2>5. AsZone(gone) = Abstract!Described(DomainOf(name), type)
    BY <1>2, FilterByDomain
  <2> HIDE DEF gone
  <2> QED
    BY <1>0, <1>2, <2>1, <2>4, <2>5, ApiAssumption DEF Abstract!Remove, AsZone
<1> QED
  BY <1>1, <1>2 DEF TypeFilter

LEMMA ApiStepRefines == TypeOK /\ [Next]_vars => [Abstract!Next]_(Abstract!vars)
<1> SUFFICES ASSUME TypeOK, [Next]_vars PROVE [Abstract!Next]_(Abstract!vars)
  OBVIOUS
<1>1. ASSUME NEW req \in CreateRecord, create_record(req) PROVE Abstract!Next
  BY <1>1, CreateRefines
<1>2. ASSUME NEW id \in Ids, get_record(id) PROVE Abstract!Next
  BY <1>2, ShowOneRefines
<1>3. ASSUME NEW id \in Ids, delete_record(id) PROVE Abstract!Next
  BY <1>3, RemoveOneRefines
<1>4. ASSUME NEW name \in NameFilter, NEW type \in TypeFilter,
             list_records(name, type) \/ delete_records(name, type)
      PROVE  Abstract!Next
  <2>1. DomainOf(name) \in Domains \cup {None}
    BY DEF DomainOf, NameFilter, Spellings
  <2>2. type \in RecordTypes \cup {None, BadType}
    BY DEF TypeFilter
  <2>3. \/ Abstract!Show(DomainOf(name), type)
        \/ Abstract!Remove(DomainOf(name), type)
    BY <1>4, ShowRefines, RemoveRefines
  <2> QED
    BY <2>1, <2>2, <2>3 DEF Abstract!Next
<1>5. CASE UNCHANGED vars
  BY <1>5 DEF vars, Abstract!vars, AsZone, Present
<1> QED
  BY <1>1, <1>2, <1>3, <1>4, <1>5 DEF Next

\* Whatever spellings its clients use, the API behaves as a set of records of
\* domains (store.rs, api.rs).
THEOREM ZoneRefinement == Spec => ZonePromise
<1>1. Init => Abstract!Init
  BY DEF Init, Abstract!Init, AsZone, Present, DomainOf
<1>2. TypeOK /\ [Next]_vars => [Abstract!Next]_(Abstract!vars)
  BY ApiStepRefines
<1> QED
  BY <1>1, <1>2, StoreTypeCorrect, PTL DEF Spec, ZonePromise, Abstract!Spec

=============================================================================
