---------------------------- MODULE MCOperations ----------------------------
(* One record type.  In operations one client adds a record or lists what    *)
(* there is, while the other runs any command.  In preview one client lists  *)
(* and one deletes, with the same or with other arguments, while a third     *)
(* adds a record.                                                            *)
EXTENDS Operations, TLC

CONSTANTS lower, example, coded, hashed, spaced, TXT, txt, foreign,
          d, e, escaped, quoted, i1, i2, c1, c2, c3

MCDomains == {example, coded, hashed, spaced}
MCLetters == {lower}
MCTypes == {TXT}
MCTypeTexts == {TXT, txt, foreign}
MCData == {d, e, escaped, quoted}
MCIds == {i1, i2}
MCClients == {c1, c2}

Name(domain, dot) == [domain |-> domain, letters |-> lower, dot |-> dot]
MCNames == [domain : MCDomains, letters : MCLetters, dot : BOOLEAN]

\* A quotation mark ends the string of the body, a backslash begins an escape,
\* here one that means e, and serde has the types in capitals only.
MCInBody == [a \in [name : MCNames, type : MCTypeTexts, data : MCData] |->
                IF a.data = quoted THEN Unreadable
                ELSE [name |-> a.name,
                      type |-> IF a.type = TXT THEN TXT ELSE BadType,
                      data |-> IF a.data = escaped THEN e ELSE a.data]]

\* In a query a percent sign begins a code, here one that makes the name
\* example, a hash mark ends the URL and what follows it, and a space ends the
\* target of the request line; from_str has the types in any letters.
MCInQuery == [a \in [name : MCNames \cup {None}, type : MCTypeTexts \cup {None}] |->
                LET domain == IF a.name = None THEN None ELSE a.name.domain
                IN  IF domain = spaced THEN Unreadable
                    ELSE [name |-> IF domain \in {coded, hashed}
                                   THEN [a.name EXCEPT !.domain = example] ELSE a.name,
                          type |-> IF domain = hashed THEN None
                                   ELSE IF a.type \in {TXT, txt} THEN TXT
                                   ELSE IF a.type = None THEN None ELSE BadType]]

K(op, name, type, id) == [op |-> op, name |-> name, type |-> type, id |-> id, data |-> d]
With(k, data) == [k EXCEPT !.data = data]
Add(domain, data) == With(K("add", Name(domain, TRUE), TXT, None), data)

\* The two clients' records differ in their data.
MCAsked ==
    c1 :> {K("add", Name(example, FALSE), TXT, None), K("list", Name(coded, FALSE), None, None)} @@
    c2 :> {K("add", Name(example, TRUE), txt, None), Add(example, escaped), Add(example, quoted),
           K("delete_id", None, None, i1), K("delete", None, txt, None),
           K("delete", None, None, None), K("delete", None, foreign, None),
           K("delete", Name(spaced, TRUE), None, None), K("health", None, None, None)}

MCThreeClients == {c1, c2, c3}

\* The filters of a list and of a delete.  The first is read as one for all
\* records of example.
MCFilters == {<<Name(hashed, FALSE), foreign>>, <<None, None>>}

MCAskedPreview ==
    c1 :> {Add(example, d), Add(coded, d)} @@
    c2 :> {K("list", f[1], f[2], None) : f \in MCFilters} @@
    c3 :> {K("delete", f[1], f[2], None) : f \in MCFilters}
=============================================================================
