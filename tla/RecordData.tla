----------------------------- MODULE RecordData -----------------------------
(***************************************************************************)
(* What a record's data means (build_rdata, parse_svcb and                 *)
(* parse_svc_param, src/src/dns.rs): the data is text that the API stores  *)
(* unread, and each query that selects the record parses it again.         *)
(*                                                                         *)
(* The text is its words and the white space around them: "tight" is one   *)
(* character between two words and none at the ends, "after" is the same   *)
(* with one more at the end, "loose" is any other.  Without a word, tight  *)
(* is the empty text.  What the standard library and hickory read in a     *)
(* word is given by sets of words.                                         *)
(***************************************************************************)
EXTENDS Integers, Sequences

CONSTANTS Records,     \* the records: [record_type, words, space]
          U16, Zeros,  \* the words that are 16-bit numbers, and those that are 0
          V4, V6,      \* ... addresses
          Names, Root, \* ... names, perhaps the empty word, and the name "."
          Base64,      \* ... base64
          KeyOf,       \* the key before the "=" of a word
          BadKey,      \* no key
          ValueOf,     \* the comma-separated words after it, quotes removed
          NoValue,     \* a word without "="
          Blank        \* the empty word

Services == {"HTTPS", "SVCB"}
Types == {"A", "AAAA", "CNAME", "NS", "MX", "TXT", "SRV"} \cup Services

WellFormed(r) == /\ r.record_type \in Types
                 /\ r.words \in Seq(DOMAIN KeyOf \ {Blank})
                 /\ r.space \in {"tight", "after", "loose"}

ASSUME RecordDataAssumption ==
    /\ \A r \in Records : WellFormed(r)
    /\ DOMAIN ValueOf = DOMAIN KeyOf
    /\ \A w \in DOMAIN ValueOf : ValueOf[w] \in Seq(DOMAIN KeyOf) \cup {NoValue}
    /\ Zeros \subseteq U16 /\ Blank \in DOMAIN KeyOf

VARIABLES record,      \* the record at hand
          next,        \* the word parse_svcb is at
          svc_params,  \* the parameters it has
          outcome      \* what is known of the record

vars == <<record, next, svc_params, outcome>>

Init == /\ record \in Records
        /\ next = 1 /\ svc_params = <<>>
        /\ outcome = "stored"

words == record.words
Word(i) == words[i]

-----------------------------------------------------------------------------
(* The types whose data has a fixed number of words.                       *)

\* The text as one word: no address, number or name has white space in it.
Whole(set) == record.space = "tight" /\ Len(words) = 1 /\ Word(1) \in set

\* A name is read from whatever text there is, the empty one included.
WholeName == \/ Whole(Names)
             \/ record.space = "tight" /\ words = <<>> /\ Blank \in Names

\* A, AAAA, CNAME and NS take the text as it is, MX cuts it at its first white
\* space, after which there may be nothing.  SRV takes its words.
PlainBuilds ==
    \/ record.record_type = "A" /\ Whole(V4)
    \/ record.record_type = "AAAA" /\ Whole(V6)
    \/ record.record_type \in {"CNAME", "NS"} /\ WholeName
    \/ /\ record.record_type = "MX" /\ words # <<>> /\ Word(1) \in U16
       /\ \/ record.space = "tight" /\ Len(words) = 2 /\ Word(2) \in Names
          \/ record.space = "after" /\ Len(words) = 1 /\ Blank \in Names
    \/ record.record_type = "TXT"
    \/ record.record_type = "SRV" /\ Len(words) = 4
         /\ {Word(1), Word(2), Word(3)} \subseteq U16 /\ Word(4) \in Names

Ends(built) == outcome' = IF built THEN "built" ELSE "error"

build_rdata == /\ outcome = "stored" /\ record.record_type \notin Services
               /\ Ends(PlainBuilds)
               /\ UNCHANGED <<record, next, svc_params>>

-----------------------------------------------------------------------------
(* HTTPS and SVCB.                                                         *)

\* The value of a parameter, by its key.  Text split at commas has at least one
\* word, so that no list is ever found empty.
parse_svc_param(key, value) ==
    LET All(set) == value # NoValue /\ \A i \in DOMAIN value : value[i] \in set
        One(set) == All(set) /\ Len(value) = 1 IN
    CASE key = "mandatory" -> All({w \in DOMAIN KeyOf : KeyOf[w] # BadKey /\ ValueOf[w] = NoValue})
      [] key = "alpn" -> value # NoValue
      [] key = "no-default-alpn" -> value \in {NoValue, <<Blank>>}
      [] key = "port" -> One(U16)
      [] key = "ipv4hint" -> All(V4)
      [] key = "ipv6hint" -> All(V6)
      [] key = "ech" -> One(Base64)
      [] OTHER -> TRUE

\* Priority and target.
StartSvcb ==
    /\ outcome = "stored" /\ record.record_type \in Services
    /\ IF Len(words) >= 2 /\ Word(1) \in U16 /\ Word(2) \in Names
       THEN outcome' = "params" /\ next' = 3
       ELSE outcome' = "error" /\ UNCHANGED next
    /\ UNCHANGED <<record, svc_params>>

\* Mutant: a key is compared with the one before it only.
Repeated_adjacent(key) ==
    svc_params # <<>> /\ svc_params[Len(svc_params)].key = key

\* Keys are compared as read: two spellings of one key are the same.
Repeated(key) == \E i \in DOMAIN svc_params : svc_params[i].key = key

\* Mutant: a repeated key gives its parameter another value.
TakeParam_overriding ==
    LET key == KeyOf[Word(next)]
        value == ValueOf[Word(next)] IN
    /\ outcome = "params" /\ next <= Len(words)
    /\ IF key = BadKey \/ ~parse_svc_param(key, value)
       THEN outcome' = "error" /\ UNCHANGED <<next, svc_params>>
       ELSE /\ svc_params' =
                 IF Repeated(key)
                 THEN [i \in DOMAIN svc_params |->
                         IF svc_params[i].key = key THEN [key |-> key, value |-> value]
                         ELSE svc_params[i]]
                 ELSE Append(svc_params, [key |-> key, value |-> value])
            /\ next' = next + 1
            /\ UNCHANGED outcome
    /\ UNCHANGED record

\* One turn of the loop over the parameters.
TakeParam ==
    LET key == KeyOf[Word(next)]
        value == ValueOf[Word(next)] IN
    /\ outcome = "params" /\ next <= Len(words)
    /\ IF key = BadKey \/ Repeated(key) \/ ~parse_svc_param(key, value)
       THEN outcome' = "error" /\ UNCHANGED <<next, svc_params>>
       ELSE /\ svc_params' = Append(svc_params, [key |-> key, value |-> value])
            /\ next' = next + 1
            /\ UNCHANGED outcome
    /\ UNCHANGED record

\* Mutant: the loop stops before the last word.
FinishSvcb_early ==
    /\ outcome = "params" /\ next >= Len(words)
    /\ Ends(Word(1) \in Zeros => svc_params = <<>> /\ Word(2) # Root)
    /\ UNCHANGED <<record, next, svc_params>>

\* Mutant: the root is refused as a target outside the alias mode too.
FinishSvcb_noroot ==
    /\ outcome = "params" /\ next > Len(words)
    /\ Ends(Word(2) # Root /\ (Word(1) \in Zeros => svc_params = <<>>))
    /\ UNCHANGED <<record, next, svc_params>>

\* Priority 0, the alias mode, has a real target and no parameters.
FinishSvcb ==
    /\ outcome = "params" /\ next > Len(words)
    /\ Ends(Word(1) \in Zeros => svc_params = <<>> /\ Word(2) # Root)
    /\ UNCHANGED <<record, next, svc_params>>

Next == build_rdata \/ StartSvcb \/ TakeParam \/ FinishSvcb

Spec == Init /\ [][Next]_vars
-----------------------------------------------------------------------------
(* The documented format.                                                  *)

\* README.md, "Record Data Formats": the words of the data, for HTTPS and SVCB
\* those before the parameters.
Format == [A |-> <<V4>>, AAAA |-> <<V6>>, CNAME |-> <<Names>>, NS |-> <<Names>>,
           MX |-> <<U16, Names>>, SRV |-> <<U16, U16, U16, Names>>,
           HTTPS |-> <<U16, Names>>, SVCB |-> <<U16, Names>>]

\* RFC 9460, the comma-separated items of a value, for the keys that need one.
Items == [mandatory |-> {w \in DOMAIN KeyOf : KeyOf[w] # BadKey /\ ValueOf[w] = NoValue},
          alpn |-> DOMAIN KeyOf, port |-> U16, ipv4hint |-> V4, ipv6hint |-> V6,
          ech |-> Base64]
Single == {"port", "ech"}      \* a single item

Params == 3..Len(words)        \* where the parameters are
Key(i) == KeyOf[Word(i)]
Value(i) == ValueOf[Word(i)]

Matches(text, format) ==
    Len(text) = Len(format) /\ \A i \in DOMAIN format : text[i] \in format[i]

ParamFits(i) ==
    /\ Key(i) # BadKey
    /\ Key(i) \in DOMAIN Items =>
          /\ Value(i) # NoValue
          /\ \A j \in DOMAIN Value(i) : Value(i)[j] \in Items[Key(i)]
          /\ Key(i) \in Single => Len(Value(i)) = 1
    /\ Key(i) = "no-default-alpn" => Value(i) \in {NoValue, <<Blank>>}

ServiceFits ==
    /\ Len(words) >= 2
    /\ Matches(SubSeq(words, 1, 2), Format[record.record_type])
    /\ \A i \in Params : ParamFits(i)
    /\ \A i, j \in Params : i < j => Key(i) # Key(j)
    /\ Word(1) \in Zeros => Len(words) = 2 /\ Word(2) # Root

\* The words are those of the format, the host at the end perhaps missing.
Fits == CASE record.record_type = "TXT" -> TRUE
          [] record.record_type \in Services -> ServiceFits
          [] OTHER -> \/ Matches(words, Format[record.record_type])
                      \/ Matches(Append(words, Blank), Format[record.record_type])

\* No host is missing, and no item of a value is empty.
Filled ==
    /\ record.record_type \in DOMAIN Format =>
          Len(words) >= Len(Format[record.record_type])
    /\ record.record_type \in Services =>
          \A i \in Params : Key(i) \in DOMAIN Items =>
              \A j \in DOMAIN Value(i) : Value(i)[j] # Blank

\* RFC 9460, sections 7.1.1 and 8: mandatory names other keys of the record, each
\* once, and no-default-alpn comes with alpn.
Consistent ==
    LET Given == {Key(i) : i \in Params} IN
    /\ "no-default-alpn" \in Given => "alpn" \in Given
    /\ \A i \in Params : Key(i) = "mandatory" =>
          LET v == Value(i) IN
          /\ \A j \in DOMAIN v : KeyOf[v[j]] \in Given \ {"mandatory"}
          /\ \A j, k \in DOMAIN v : j < k => KeyOf[v[j]] # KeyOf[v[k]]

Documented ==
    /\ Fits /\ Filled
    /\ record.record_type \in Services => Consistent
    /\ record.space = "tight" \/ record.record_type \in Services \cup {"TXT"}

\* The parameters are those of the words before the one at hand, in order.
TypeOK ==
    /\ WellFormed(record)
    /\ outcome \in {"stored", "params", "built", "error"}
    /\ next \in 1..(Len(words) + 1)
    /\ svc_params \in Seq([key : {KeyOf[w] : w \in DOMAIN KeyOf} \ {BadKey},
                           value : {ValueOf[w] : w \in DOMAIN KeyOf}])
    /\ next < 3 => svc_params = <<>>
    /\ next >= 3 => Len(svc_params) = next - 3

\* No record is built from text of another format, in whatever order and number
\* its parameters come: no repeated key, bad value or parameter of an alias hides
\* behind others (dns.rs, build_rdata; parse_svcb, whose loop looks back at the
\* keys it has and which looks at the priority after the loop).
BuiltFits == outcome = "built" => Fits

\* No text of the documented format is refused when a query is answered, as the
\* record would then be skipped (dns.rs, build_rdata, parse_svcb and
\* parse_svc_param).
DocumentedBuilds == outcome = "error" => ~Documented

\* A record that is built has every parameter of its text once, with its own
\* value (dns.rs, parse_svcb: what is pushed to svc_params).
BuiltAsWritten ==
    outcome = "built" /\ record.record_type \in Services =>
        /\ Len(svc_params) = Len(words) - 2
        /\ \A i \in Params : svc_params[i - 2] = [key |-> KeyOf[Word(i)],
                                                  value |-> ValueOf[Word(i)]]
        /\ \A i, j \in DOMAIN svc_params :
              svc_params[i].key = svc_params[j].key => i = j

=============================================================================
