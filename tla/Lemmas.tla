------------------------------- MODULE Lemmas -------------------------------
(***************************************************************************)
(* Facts about names and numbers that the proofs of several modules use.   *)
(***************************************************************************)
EXTENDS DnsNames, Integers, WellFoundedInduction, TLAPS

\* The canonical form of a name is its domain in lower case, with the dot.
LEMMA CanonicalForm ==
    ASSUME NEW n \in Spellings
    PROVE  /\ normalize_name(n) =
                 [domain |-> n.domain, letters |-> Lower, dot |-> TRUE]
           /\ normalize_name(n) \in Spellings
<1> DEFINE y == to_ascii_lowercase(n)
<1>1. n = [domain |-> n.domain, letters |-> n.letters, dot |-> n.dot]
  BY DEF Spellings
<1>2. y = [domain |-> n.domain, letters |-> Lower, dot |-> n.dot]
  BY <1>1 DEF to_ascii_lowercase
<1>3. normalize_name(n) = [y EXCEPT !.dot = TRUE]
  BY DEF normalize_name
<1> HIDE DEF y
<1>4. normalize_name(n) = [domain |-> n.domain, letters |-> Lower, dot |-> TRUE]
  BY <1>2, <1>3
<1>5. n.domain \in Domains
  BY DEF Spellings
<1>6. [domain |-> n.domain, letters |-> Lower, dot |-> TRUE] \in Spellings
  BY <1>5, LettersAssumption, Zenon DEF Spellings
<1> QED
  BY <1>4, <1>6

\* The canonical form keeps the domain and is the same for all its spellings.
LEMMA CanonicalNames ==
    ASSUME NEW m \in Spellings, NEW n \in Spellings
    PROVE  /\ normalize_name(m) \in Spellings
           /\ normalize_name(m).domain = m.domain
           /\ normalize_name(normalize_name(m)) = normalize_name(m)
           /\ normalize_name(m) = normalize_name(n) <=> m.domain = n.domain
<1>1. \A x \in Spellings : normalize_name(x) =
          [domain |-> x.domain, letters |-> Lower, dot |-> TRUE]
  BY CanonicalForm
<1>2. normalize_name(m) \in Spellings /\ normalize_name(m).domain = m.domain
  BY <1>1, CanonicalForm
<1>3. normalize_name(n).domain = n.domain
  BY <1>1
<1>4. normalize_name(normalize_name(m)) = normalize_name(m)
  BY <1>1, <1>2
<1> QED
  BY <1>1, <1>2, <1>3, <1>4

Less == {p \in Nat \X Nat : p[1] < p[2]}

\* The library states that < on Nat is well founded through an operator
\* argument; Less is that relation as a set.
LEMMA LessWellFounded == IsWellFoundedOn(Less, Nat)
  BY NatLessThanWellFounded DEF OpToRel, Less

\* Every nonempty set of naturals, finite or not, has a least member.
LEMMA LeastOfNats ==
    ASSUME NEW S \in SUBSET Nat, S # {}
    PROVE  \E x \in S : \A y \in S : x <= y
<1>1. PICK x \in S : \A y \in S : ~ (<<y, x>> \in Less)
  BY WFMin, LessWellFounded
<1>2. ASSUME NEW y \in S, y < x PROVE <<y, x>> \in Less
  BY <1>2 DEF Less
<1>3. \A y \in S : ~ (y < x)
  BY <1>1, <1>2
<1> QED
  BY <1>3

=============================================================================
