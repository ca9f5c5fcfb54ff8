------------------------------ MODULE DnsNames ------------------------------
(***************************************************************************)
(* Domain names as the program spells them (src/src/models.rs).  A name is *)
(* abstracted to the domain it denotes, how its letters are capitalised    *)
(* and whether it ends in a dot: the DNS tells names apart by the domain   *)
(* only, Rust's String equality by all three.                              *)
(***************************************************************************)

CONSTANTS Domains,   \* what a name denotes
          Letters,   \* the ways a name's letters can be capitalised
          Lower      \* the member of Letters with no capital in it

ASSUME LettersAssumption == Lower \in Letters

Spellings == [domain : Domains, letters : Letters, dot : BOOLEAN]

\* hickory's Name::to_string writes a question's name as it came off the
\* wire, capitals included, and always with the final dot.
WireNames == {n \in Spellings : n.dot}

to_ascii_lowercase(name) == [name EXCEPT !.letters = Lower]

normalize_name(name) == [to_ascii_lowercase(name) EXCEPT !.dot = TRUE]

=============================================================================
