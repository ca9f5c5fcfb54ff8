-------------------------- MODULE RecordDataProofs --------------------------
(***************************************************************************)
(* Proofs about RecordData, for texts of any length and any words.         *)
(***************************************************************************)
EXTENDS RecordData, TLAPS

Param(i) == [key |-> KeyOf[Word(i)], value |-> ValueOf[Word(i)]]

\* What the loop knows when it is at word n: head and parameters before n.
Taken(n) ==
    /\ Len(words) >= 2 /\ Word(1) \in U16 /\ Word(2) \in Names
    /\ \A i \in 3..(n - 1) : /\ KeyOf[Word(i)] # BadKey
                             /\ parse_svc_param(KeyOf[Word(i)], ValueOf[Word(i)])
                             /\ svc_params[i - 2] = Param(i)
    /\ \A i, j \in 3..(n - 1) : KeyOf[Word(i)] = KeyOf[Word(j)] => i = j

Read ==
    /\ outcome = "stored" => next = 1
    /\ outcome = "params" => record.record_type \in Services /\ next >= 3 /\ Taken(next)
    /\ outcome = "built" /\ record.record_type \in Services =>
          next = Len(words) + 1 /\ next >= 3 /\ Taken(next)

IInv == TypeOK /\ Read /\ BuiltFits /\ DocumentedBuilds

\* What the code asks of the text of an HTTPS or SVCB record.
Readable ==
    /\ Len(words) >= 2 /\ Word(1) \in U16 /\ Word(2) \in Names
    /\ \A i \in Params : Key(i) # BadKey /\ parse_svc_param(Key(i), Value(i))
    /\ \A i, j \in Params : Key(i) = Key(j) => i = j
    /\ Word(1) \in Zeros => Params = {} /\ Word(2) # Root

LEMMA InitHolds == Init => IInv
<1> SUFFICES ASSUME Init PROVE IInv
  OBVIOUS
<1>1. WellFormed(record)
  BY RecordDataAssumption DEF Init
<1>2. words \in Seq(DOMAIN KeyOf) /\ Len(words) \in Nat
  BY <1>1 DEF WellFormed, words
<1>3. TypeOK
  BY <1>1, <1>2 DEF Init, TypeOK
<1>4. Read /\ BuiltFits /\ DocumentedBuilds
  BY DEF Init, Read, BuiltFits, DocumentedBuilds
<1> QED
  BY <1>3, <1>4 DEF IInv

\* The shape of a text.
LEMMA Texts ==
    ASSUME TypeOK
    PROVE  /\ record.record_type \in Types
           /\ words \in Seq(DOMAIN KeyOf \ {Blank})
           /\ Len(words) \in Nat /\ DOMAIN words = 1..Len(words)
           /\ \A i \in 1..Len(words) : Word(i) \in DOMAIN KeyOf
           /\ next \in Nat /\ next >= 1 /\ next <= Len(words) + 1
  BY DEF TypeOK, WellFormed, words, Word

\* What is said of the text depends on nothing else.
LEMMA TextOnly ==
    ASSUME UNCHANGED record
    PROVE  /\ UNCHANGED <<words, Readable, Fits, Documented, PlainBuilds>>
           /\ \A i : Word(i)' = Word(i) /\ Param(i)' = Param(i)
<1>1. words' = words /\ Params' = Params
  BY DEF words, Params
<1>2. \A i : Word(i)' = Word(i)
  BY <1>1 DEF Word
<1>3. \A i : Key(i)' = Key(i) /\ Value(i)' = Value(i) /\ Param(i)' = Param(i)
  BY <1>2 DEF Key, Value, Param
<1>4. UNCHANGED <<Readable, PlainBuilds>>
  BY <1>1, <1>2, <1>3 DEF Readable, PlainBuilds, Whole, WholeName
<1>5. \A i : ParamFits(i)' <=> ParamFits(i)
  BY <1>3 DEF ParamFits
<1>6. UNCHANGED ServiceFits
  BY <1>1, <1>2, <1>3, <1>5 DEF ServiceFits
<1>7. UNCHANGED Fits
  BY <1>1, <1>6 DEF Fits
<1>8. UNCHANGED <<Filled, Consistent>>
  BY <1>1, <1>3 DEF Filled, Consistent
<1> QED
  BY <1>1, <1>2, <1>3, <1>4, <1>7, <1>8 DEF Documented

\* A parameter that fits its key is one that parse_svc_param takes.
LEMMA ParamFormat ==
    ASSUME TypeOK, NEW i \in Params
    PROVE  ParamFits(i) <=> Key(i) # BadKey /\ parse_svc_param(Key(i), Value(i))
<1>1. Word(i) \in DOMAIN KeyOf
  BY Texts DEF Params
<1>2. Value(i) \in Seq(DOMAIN KeyOf) \cup {NoValue}
  BY <1>1, RecordDataAssumption DEF Value
<1>3. DOMAIN Items = {"mandatory", "alpn", "port", "ipv4hint", "ipv6hint", "ech"}
  BY DEF Items
<1>4. CASE Key(i) = "mandatory"
  <2>1. Items[Key(i)] = {w \in DOMAIN KeyOf : KeyOf[w] # BadKey /\ ValueOf[w] = NoValue}
    BY <1>4 DEF Items
  <2> QED
    BY <1>3, <1>4, <2>1 DEF ParamFits, parse_svc_param, Single
<1>5. CASE Key(i) = "alpn"
  <2>1. Items[Key(i)] = DOMAIN KeyOf
    BY <1>5 DEF Items
  <2>2. Value(i) # NoValue => \A j \in DOMAIN Value(i) : Value(i)[j] \in DOMAIN KeyOf
    BY <1>2
  <2> QED
    BY <1>3, <1>5, <2>1, <2>2 DEF ParamFits, parse_svc_param, Single
<1>6. CASE Key(i) = "port"
  <2>1. Items[Key(i)] = U16
    BY <1>6 DEF Items
  <2> QED
    BY <1>3, <1>6, <2>1 DEF ParamFits, parse_svc_param, Single
<1>7. CASE Key(i) = "ipv4hint"
  <2>1. Items[Key(i)] = V4
    BY <1>7 DEF Items
  <2> QED
    BY <1>3, <1>7, <2>1 DEF ParamFits, parse_svc_param, Single
<1>8. CASE Key(i) = "ipv6hint"
  <2>1. Items[Key(i)] = V6
    BY <1>8 DEF Items
  <2> QED
    BY <1>3, <1>8, <2>1 DEF ParamFits, parse_svc_param, Single
<1>9. CASE Key(i) = "ech"
  <2>1. Items[Key(i)] = Base64
    BY <1>9 DEF Items
  <2> QED
    BY <1>3, <1>9, <2>1 DEF ParamFits, parse_svc_param, Single
<1>10. CASE Key(i) \notin DOMAIN Items
  BY <1>3, <1>10 DEF ParamFits, parse_svc_param
<1> QED
  BY <1>3, <1>4, <1>5, <1>6, <1>7, <1>8, <1>9, <1>10

\* The format of HTTPS and SVCB is what the code asks for.
LEMMA ServiceFormat ==
    ASSUME TypeOK, record.record_type \in Services
    PROVE  Fits <=> Readable
<1>1. Fits <=> ServiceFits
  BY DEF Fits, Services
<1>2. words \in Seq(DOMAIN KeyOf \ {Blank}) /\ Len(words) \in Nat
  BY Texts
<1>3. Format[record.record_type] = <<U16, Names>>
  BY DEF Format, Services
<1>4. ASSUME Len(words) >= 2
      PROVE  Matches(SubSeq(words, 1, 2), <<U16, Names>>)
               <=> Word(1) \in U16 /\ Word(2) \in Names
  <2>1. LET s == SubSeq(words, 1, 2) IN Len(s) = 2 /\ s[1] = Word(1) /\ s[2] = Word(2)
    BY <1>2, <1>4 DEF Word
  <2> QED
    BY <2>1 DEF Matches
<1>5. ASSUME Len(words) >= 2 PROVE Params = {} <=> Len(words) = 2
  <2> DEFINE n == Len(words)
  <2>a. n \in Nat /\ n >= 2
    BY <1>2, <1>5
  <2> HIDE DEF n
  <2>1. ASSUME n # 2 PROVE 3 \in 3..n
    BY <2>a, <2>1
  <2>2. n = 2 => 3..n = {}
    OBVIOUS
  <2> QED
    BY <2>1, <2>2 DEF Params, n
<1>6. (\A i, j \in Params : i < j => Key(i) # Key(j))
        <=> \A i, j \in Params : Key(i) = Key(j) => i = j
  BY <1>2 DEF Params
<1> QED
  BY <1>1, <1>3, <1>4, <1>5, <1>6, ParamFormat DEF ServiceFits, Readable

\* The other types: what is built fits, and what is documented is built.
LEMMA PlainFormat ==
    ASSUME TypeOK, record.record_type \notin Services
    PROVE  (PlainBuilds => Fits) /\ (Documented => PlainBuilds)
<1> DEFINE type == record.record_type
           format == Format[type]
<1>1. words \in Seq(DOMAIN KeyOf \ {Blank}) /\ Len(words) \in Nat
  BY Texts
<1>2. type \in {"A", "AAAA", "CNAME", "NS", "MX", "TXT", "SRV"}
  BY Texts DEF Types
<1>3. CASE type = "TXT"
  BY <1>3 DEF PlainBuilds, Fits
<1>4. ASSUME type # "TXT"
      PROVE  /\ Fits <=> Matches(words, format) \/ Matches(Append(words, Blank), format)
             /\ Documented => /\ record.space = "tight"
                              /\ type \in DOMAIN Format => Len(words) >= Len(format)
                              /\ Fits
  BY <1>4 DEF Fits, Documented, Filled, Services
<1>5. Len(Append(words, Blank)) = Len(words) + 1
  BY <1>1, RecordDataAssumption
<1>6. CASE type \in {"A", "AAAA", "CNAME", "NS"}
  <2> DEFINE set == IF type = "A" THEN V4 ELSE IF type = "AAAA" THEN V6 ELSE Names
  <2>1. format = <<set>> /\ type \in DOMAIN Format /\ type # "TXT"
    BY <1>6 DEF Format
  <2>2. PlainBuilds <=> Whole(set) \/ (type \in {"CNAME", "NS"} /\ WholeName)
    <3>1. CASE type = "A"
      <4>1. set = V4
        BY <3>1
      <4>2. PlainBuilds <=> Whole(V4)
        BY <3>1 DEF PlainBuilds
      <4> HIDE DEF set
      <4> QED
        BY <3>1, <4>1, <4>2 DEF Whole
    <3>2. CASE type = "AAAA"
      <4>1. set = V6
        BY <3>2
      <4>2. PlainBuilds <=> Whole(V6)
        BY <3>2 DEF PlainBuilds
      <4> HIDE DEF set
      <4> QED
        BY <3>2, <4>1, <4>2 DEF Whole
    <3>3. CASE type \in {"CNAME", "NS"}
      <4>1. set = Names
        BY <3>3
      <4>2. PlainBuilds <=> WholeName
        BY <3>3 DEF PlainBuilds
      <4> HIDE DEF set
      <4> QED
        BY <3>3, <4>1, <4>2 DEF WholeName
    <3> QED
      BY <1>6, <3>1, <3>2, <3>3
  <2> HIDE DEF set
  <2>3. Matches(words, <<set>>) <=> Len(words) = 1 /\ Word(1) \in set
    BY DEF Matches, Word
  <2>4. Matches(words, format) <=> Len(words) = 1 /\ Word(1) \in set
    BY <2>1, <2>3
  <2>5. Documented => Whole(set)
    <3> SUFFICES ASSUME Documented PROVE Whole(set)
      OBVIOUS
    <3>1. record.space = "tight" /\ Len(words) >= 1 /\ Fits
      BY <1>4, <2>1
    <3>2. ~Matches(Append(words, Blank), format)
      BY <1>1, <1>5, <2>1, <3>1 DEF Matches
    <3> QED
      BY <1>4, <2>1, <2>4, <3>1, <3>2 DEF Whole
  <2>6. Whole(set) => Fits
    BY <1>4, <2>1, <2>4 DEF Whole
  <2>7. ASSUME type \in {"CNAME", "NS"}, words = <<>>, Blank \in Names PROVE Fits
    <3>1. set = Names /\ Append(words, Blank) = <<Blank>>
      BY <2>7 DEF set
    <3>2. Matches(<<Blank>>, <<Names>>)
      BY <2>7 DEF Matches
    <3> QED
      BY <1>4, <2>1, <3>1, <3>2
  <2>8. set = Names \/ type \notin {"CNAME", "NS"}
    BY DEF set
  <2>9. type \in {"CNAME", "NS"} /\ Whole(Names) => Whole(set)
    BY <2>8 DEF Whole
  <2> HIDE DEF type
  <2> QED
    BY <2>2, <2>5, <2>6, <2>7, <2>9 DEF WholeName
<1>7. CASE type = "MX"
  <2>1. format = <<U16, Names>> /\ type \in DOMAIN Format /\ type # "TXT"
    BY <1>7 DEF Format
  <2>2. PlainBuilds <=> /\ words # <<>> /\ Word(1) \in U16
                        /\ \/ record.space = "tight" /\ Len(words) = 2 /\ Word(2) \in Names
                           \/ record.space = "after" /\ Len(words) = 1 /\ Blank \in Names
    BY <1>7 DEF PlainBuilds
  <2>3. Matches(words, <<U16, Names>>)
          <=> Len(words) = 2 /\ Word(1) \in U16 /\ Word(2) \in Names
    BY DEF Matches, Word
  <2>4. ASSUME Len(words) = 1, Word(1) \in U16, Blank \in Names
        PROVE  Matches(Append(words, Blank), <<U16, Names>>)
    <3>1. LET s == Append(words, Blank) IN Len(s) = 2 /\ s[1] = Word(1) /\ s[2] = Blank
      BY <1>1, <1>5, <2>4, RecordDataAssumption DEF Word
    <3> QED
      BY <2>4, <3>1 DEF Matches
  <2>5. PlainBuilds => Fits
    BY <1>4, <2>1, <2>2, <2>3, <2>4
  <2>6. Documented => PlainBuilds
    <3> SUFFICES ASSUME Documented PROVE PlainBuilds
      OBVIOUS
    <3>1. record.space = "tight" /\ Len(words) >= 2 /\ Fits
      BY <1>4, <2>1
    <3>2. ~Matches(Append(words, Blank), format)
      BY <1>1, <1>5, <2>1, <3>1 DEF Matches
    <3>3. words # <<>>
      BY <3>1
    <3> QED
      BY <1>4, <2>1, <2>2, <2>3, <3>1, <3>2, <3>3
  <2> QED
    BY <2>5, <2>6
<1>8. CASE type = "SRV"
  <2>1. format = <<U16, U16, U16, Names>> /\ type \in DOMAIN Format /\ type # "TXT"
    BY <1>8 DEF Format
  <2>2. PlainBuilds <=> /\ Len(words) = 4 /\ Word(4) \in Names
                        /\ Word(1) \in U16 /\ Word(2) \in U16 /\ Word(3) \in U16
    BY <1>8 DEF PlainBuilds
  <2>3. Matches(words, <<U16, U16, U16, Names>>)
          <=> /\ Len(words) = 4 /\ Word(4) \in Names
              /\ Word(1) \in U16 /\ Word(2) \in U16 /\ Word(3) \in U16
    BY DEF Matches, Word
  <2>4. PlainBuilds => Fits
    BY <1>4, <2>1, <2>2, <2>3
  <2>5. Documented => PlainBuilds
    <3> SUFFICES ASSUME Documented PROVE PlainBuilds
      OBVIOUS
    <3>1. Len(words) >= 4 /\ Fits
      BY <1>4, <2>1
    <3>2. ~Matches(Append(words, Blank), format)
      BY <1>1, <1>5, <2>1, <3>1 DEF Matches
    <3> QED
      BY <1>4, <2>1, <2>2, <2>3, <3>2
  <2> QED
    BY <2>4, <2>5
<1> QED
  BY <1>2, <1>3, <1>6, <1>7, <1>8

LEMMA PlainStep == IInv /\ build_rdata => IInv'
<1> SUFFICES ASSUME IInv, build_rdata PROVE IInv'
  OBVIOUS
<1>1. UNCHANGED <<record, next, svc_params, words, Fits, Documented>>
  BY TextOnly DEF build_rdata
<1>2. outcome' = IF PlainBuilds THEN "built" ELSE "error"
  BY DEF build_rdata, Ends
<1>3. record.record_type \notin Services
  BY DEF build_rdata
<1>4. TypeOK'
  BY <1>1, <1>2 DEF IInv, TypeOK
<1>5. Read'
  BY <1>1, <1>2, <1>3 DEF Read
<1>6. (PlainBuilds => Fits) /\ (Documented => PlainBuilds)
  BY <1>3, PlainFormat DEF IInv
<1>7. BuiltFits' /\ DocumentedBuilds'
  BY <1>1, <1>2, <1>6 DEF BuiltFits, DocumentedBuilds
<1> QED
  BY <1>4, <1>5, <1>7 DEF IInv

LEMMA StartStep == IInv /\ StartSvcb => IInv'
<1> SUFFICES ASSUME IInv, StartSvcb PROVE IInv'
  OBVIOUS
<1>1. UNCHANGED <<record, svc_params, words, Fits, Documented>>
  BY TextOnly DEF StartSvcb
<1>2. TypeOK /\ next = 1 /\ outcome = "stored" /\ record.record_type \in Services
  BY DEF IInv, Read, StartSvcb
<1>3. \A i : Word(i)' = Word(i)
  BY <1>1 DEF Word
<1>4. CASE Len(words) >= 2 /\ Word(1) \in U16 /\ Word(2) \in Names
  <2>1. outcome' = "params" /\ next' = 3
    BY <1>4 DEF StartSvcb
  <2>2. TypeOK'
    BY <1>1, <1>2, <1>4, <2>1, Texts DEF TypeOK
  <2>3. Taken(3)'
    BY <1>1, <1>3, <1>4 DEF Taken
  <2>4. Read'
    BY <1>1, <1>2, <2>1, <2>3 DEF Read
  <2>5. BuiltFits' /\ DocumentedBuilds'
    BY <2>1 DEF BuiltFits, DocumentedBuilds
  <2> QED
    BY <2>2, <2>4, <2>5 DEF IInv
<1>5. CASE ~(Len(words) >= 2 /\ Word(1) \in U16 /\ Word(2) \in Names)
  <2>1. outcome' = "error" /\ UNCHANGED next
    BY <1>5 DEF StartSvcb
  <2>2. TypeOK'
    BY <1>1, <1>2, <2>1 DEF TypeOK
  <2>3. Read'
    BY <2>1 DEF Read
  <2>4. ~Documented
    BY <1>2, <1>5, ServiceFormat DEF Documented, Readable
  <2>5. BuiltFits' /\ DocumentedBuilds'
    BY <1>1, <2>1, <2>4 DEF BuiltFits, DocumentedBuilds
  <2> QED
    BY <2>2, <2>3, <2>5 DEF IInv
<1> QED
  BY <1>4, <1>5

LEMMA TakeStep == IInv /\ TakeParam => IInv'
<1> SUFFICES ASSUME IInv, TakeParam PROVE IInv'
  OBVIOUS
<1> DEFINE key == KeyOf[Word(next)]
           value == ValueOf[Word(next)]
           bad == key = BadKey \/ Repeated(key) \/ ~parse_svc_param(key, value)
<1>1. /\ UNCHANGED <<record, words, Fits, Documented>>
      /\ \A i : Word(i)' = Word(i)
  BY TextOnly DEF TakeParam
<1>2. /\ TypeOK /\ outcome = "params" /\ record.record_type \in Services
      /\ next >= 3 /\ Taken(next) /\ next <= Len(words)
  BY DEF IInv, Read, TakeParam
<1>3. /\ next \in 3..Len(words) /\ Len(svc_params) = next - 3
      /\ Len(words) \in Nat /\ Word(next) \in DOMAIN KeyOf
      /\ svc_params \in Seq([key : {KeyOf[w] : w \in DOMAIN KeyOf} \ {BadKey},
                             value : {ValueOf[w] : w \in DOMAIN KeyOf}])
  BY <1>2, Texts DEF TypeOK
<1>4. Repeated(key) <=> \E i \in 3..(next - 1) : KeyOf[Word(i)] = key
  <2>1. DOMAIN svc_params = 1..(next - 3)
    BY <1>3
  <2>a. \A i : Param(i).key = KeyOf[Word(i)]
    BY DEF Param
  <2>2. \A i \in 3..(next - 1) : svc_params[i - 2].key = KeyOf[Word(i)]
    BY <1>2, <2>a DEF Taken
  <2>3. \A i \in 1..(next - 3) : svc_params[i].key = KeyOf[Word(i + 2)]
    <3> TAKE i \in 1..(next - 3)
    <3>1. i + 2 \in 3..(next - 1) /\ (i + 2) - 2 = i
      BY <1>3
    <3> QED
      BY <2>2, <3>1
  <2>4. ASSUME NEW i \in 3..(next - 1), KeyOf[Word(i)] = key
        PROVE  Repeated(key)
    <3>1. i - 2 \in DOMAIN svc_params
      BY <1>3, <2>1
    <3> QED
      BY <2>2, <2>4, <3>1 DEF Repeated
  <2>5. ASSUME Repeated(key)
        PROVE  \E i \in 3..(next - 1) : KeyOf[Word(i)] = key
    <3>1. PICK i \in 1..(next - 3) : svc_params[i].key = key
      BY <2>1, <2>5 DEF Repeated
    <3>2. i + 2 \in 3..(next - 1)
      BY <1>3
    <3> QED
      BY <2>3, <3>1, <3>2
  <2> QED
    BY <2>4, <2>5
<1>5. CASE bad
  <2>1. outcome' = "error" /\ UNCHANGED <<next, svc_params>>
    BY <1>5 DEF TakeParam
  <2>2. TypeOK'
    BY <1>1, <1>2, <2>1 DEF TypeOK
  <2>3. Read'
    BY <2>1 DEF Read
  <2>4. ~Documented
    <3>1. next \in Params /\ \A i \in 3..(next - 1) : i \in Params /\ i # next
      BY <1>3 DEF Params
    <3>2. key = Key(next) /\ value = Value(next) /\ \A i : Key(i) = KeyOf[Word(i)]
      BY DEF Key, Value
    <3>3. ~Readable
      BY <1>2, <1>4, <1>5, <3>1, <3>2 DEF Readable
    <3> QED
      BY <1>2, <3>3, ServiceFormat DEF Documented
  <2>5. BuiltFits' /\ DocumentedBuilds'
    BY <1>1, <2>1, <2>4 DEF BuiltFits, DocumentedBuilds
  <2> QED
    BY <2>2, <2>3, <2>5 DEF IInv
<1>6. CASE ~bad
  <2>1. /\ svc_params' = Append(svc_params, Param(next)) /\ next' = next + 1
        /\ UNCHANGED outcome
    BY <1>6 DEF TakeParam, Param
  <2>2. /\ Len(svc_params') = next - 2
        /\ svc_params'[next - 2] = Param(next)
        /\ \A i \in 1..(next - 3) : svc_params'[i] = svc_params[i]
    BY <1>3, <2>1
  <2>3. Param(next) \in [key : {KeyOf[w] : w \in DOMAIN KeyOf} \ {BadKey},
                         value : {ValueOf[w] : w \in DOMAIN KeyOf}]
    BY <1>3, <1>6 DEF Param
  <2>4. svc_params' \in Seq([key : {KeyOf[w] : w \in DOMAIN KeyOf} \ {BadKey},
                             value : {ValueOf[w] : w \in DOMAIN KeyOf}])
    BY <1>3, <2>1, <2>3
  <2>5. TypeOK'
    BY <1>1, <1>2, <1>3, <2>1, <2>2, <2>4 DEF TypeOK
  <2>6. Taken(next)'
    <3>1. \A i \in 3..next : /\ KeyOf[Word(i)] # BadKey
                             /\ parse_svc_param(KeyOf[Word(i)], ValueOf[Word(i)])
      BY <1>2, <1>3, <1>6 DEF Taken
    <3>2. \A i \in 3..next : svc_params'[i - 2] = Param(i)
      <4> TAKE i \in 3..next
      <4>1. CASE i = next
        BY <2>2, <4>1
      <4>2. CASE i # next
        <5>1. i \in 3..(next - 1) /\ i - 2 \in 1..(next - 3)
          BY <1>3, <4>2
        <5> QED
          BY <1>2, <2>2, <5>1 DEF Taken
      <4> QED
        BY <4>1, <4>2
    <3>3. \A i, j \in 3..next : KeyOf[Word(i)] = KeyOf[Word(j)] => i = j
      <4>1. \A i \in 3..(next - 1) : KeyOf[Word(i)] # KeyOf[Word(next)]
        BY <1>4, <1>6
      <4>2. \A i, j \in 3..(next - 1) : KeyOf[Word(i)] = KeyOf[Word(j)] => i = j
        BY <1>2 DEF Taken
      <4>3. \A i \in 3..next : i = next \/ i \in 3..(next - 1)
        BY <1>3
      <4> QED
        BY <4>1, <4>2, <4>3
    <3>4. /\ UNCHANGED <<words, record>> /\ next' - 1 = next
          /\ \A i : Word(i)' = Word(i) /\ Param(i)' = Param(i)
      BY <1>1, <1>3, <2>1 DEF Param
    <3> QED
      BY <1>1, <1>2, <3>1, <3>2, <3>3, <3>4 DEF Taken
  <2>7. Read'
    BY <1>1, <1>2, <1>3, <2>1, <2>6 DEF Read
  <2>8. BuiltFits' /\ DocumentedBuilds'
    BY <1>2, <2>1 DEF BuiltFits, DocumentedBuilds
  <2> QED
    BY <2>5, <2>7, <2>8 DEF IInv
<1> QED
  BY <1>5, <1>6

LEMMA FinishStep == IInv /\ FinishSvcb => IInv'
<1> SUFFICES ASSUME IInv, FinishSvcb PROVE IInv'
  OBVIOUS
<1> DEFINE good == Word(1) \in Zeros => svc_params = <<>> /\ Word(2) # Root
<1>1. /\ UNCHANGED <<record, next, svc_params, words, Fits, Documented>>
      /\ \A i : Word(i)' = Word(i) /\ Param(i)' = Param(i)
  BY TextOnly DEF FinishSvcb
<1>2. /\ TypeOK /\ record.record_type \in Services
      /\ next >= 3 /\ Taken(next) /\ next > Len(words)
  BY DEF IInv, Read, FinishSvcb
<1>3. outcome' = IF good THEN "built" ELSE "error"
  BY DEF FinishSvcb, Ends
<1>4. next = Len(words) + 1 /\ Len(words) \in Nat
  BY <1>2, Texts
<1>5. 3..(next - 1) = Params
  BY <1>4 DEF Params
<1>6. svc_params = <<>> <=> Params = {}
  <2>1. Len(svc_params) = next - 3 /\ next \in Nat /\ next >= 3
    BY <1>2, <1>4 DEF TypeOK
  <2>2. svc_params = <<>> <=> Len(svc_params) = 0
    BY <1>2 DEF TypeOK
  <2>3. next = 3 => 3..(next - 1) = {}
    OBVIOUS
  <2>4. ASSUME next # 3 PROVE 3 \in 3..(next - 1)
    BY <2>1, <2>4
  <2> QED
    BY <1>5, <2>1, <2>2, <2>3, <2>4
<1>7. Readable <=> good
  BY <1>2, <1>5, <1>6 DEF Readable, Taken, Key, Value
<1>a. (Fits <=> good) /\ (Documented => good)
  BY <1>2, <1>7, ServiceFormat DEF Documented
<1>8. TypeOK'
  BY <1>1, <1>2, <1>3 DEF TypeOK
<1>9. Taken(next)'
  BY <1>1, <1>2 DEF Taken
<1>10. Read'
  BY <1>1, <1>2, <1>3, <1>4, <1>9 DEF Read
<1>11. BuiltFits' /\ DocumentedBuilds'
  BY <1>1, <1>3, <1>a DEF BuiltFits, DocumentedBuilds
<1> QED
  BY <1>8, <1>10, <1>11 DEF IInv

LEMMA Invariant == Spec => []IInv
<1>1. IInv /\ UNCHANGED vars => IInv'
  <2> SUFFICES ASSUME IInv, UNCHANGED vars PROVE IInv'
    OBVIOUS
  <2>1. /\ UNCHANGED <<record, next, svc_params, outcome, words, Fits, Documented>>
        /\ \A i : Word(i)' = Word(i) /\ Param(i)' = Param(i)
    BY TextOnly DEF vars
  <2>2. TypeOK' /\ Read'
    BY <2>1 DEF IInv, TypeOK, Read, Taken
  <2>3. BuiltFits' /\ DocumentedBuilds'
    BY <2>1 DEF IInv, BuiltFits, DocumentedBuilds
  <2> QED
    BY <2>2, <2>3 DEF IInv
<1>2. IInv /\ [Next]_vars => IInv'
  BY <1>1, PlainStep, StartStep, TakeStep, FinishStep DEF Next
<1> QED
  BY InitHolds, <1>2, PTL DEF Spec

\* Types, and how far the parameters are, in every execution.
THEOREM RecordDataTypes == Spec => []TypeOK
<1>1. IInv => TypeOK
  BY DEF IInv
<1> QED
  BY Invariant, <1>1, PTL

\* Whatever the text, a record is built from it only if its words and parameters
\* are those of the format (dns.rs, build_rdata and parse_svcb).
THEOREM OnlyTheFormat == Spec => []BuiltFits
<1>1. IInv => BuiltFits
  BY DEF IInv
<1> QED
  BY Invariant, <1>1, PTL

\* Whatever the text, if it is as the documentation describes it then it makes a
\* record (dns.rs, build_rdata and parse_svcb).
THEOREM DocumentedFormatWorks == Spec => []DocumentedBuilds
<1>1. IInv => DocumentedBuilds
  BY DEF IInv
<1> QED
  BY Invariant, <1>1, PTL

\* Whatever the text, the record has each of its parameters once.
THEOREM ParametersAsWritten == Spec => []BuiltAsWritten
<1>1. IInv => BuiltAsWritten
  <2> SUFFICES ASSUME IInv, outcome = "built", record.record_type \in Services
               PROVE  /\ Len(svc_params) = Len(words) - 2
                      /\ \A i \in Params : svc_params[i - 2] = Param(i)
                      /\ \A i, j \in DOMAIN svc_params :
                            svc_params[i].key = svc_params[j].key => i = j
    BY DEF BuiltAsWritten, Param
  <2>1. TypeOK /\ next = Len(words) + 1 /\ next >= 3 /\ Taken(next) /\ Len(words) \in Nat
    BY Texts DEF IInv, Read
  <2>2. Len(svc_params) = Len(words) - 2 /\ DOMAIN svc_params = 1..Len(svc_params)
    BY <2>1 DEF TypeOK
  <2>3. 3..(next - 1) = Params
    BY <2>1 DEF Params
  <2>4. \A i \in Params : svc_params[i - 2] = Param(i)
    BY <2>1, <2>3 DEF Taken
  <2>5. ASSUME NEW i \in DOMAIN svc_params, NEW j \in DOMAIN svc_params,
               svc_params[i].key = svc_params[j].key
        PROVE  i = j
    <3>1. /\ i \in Nat /\ j \in Nat
          /\ i + 2 \in Params /\ j + 2 \in Params
          /\ (i + 2) - 2 = i /\ (j + 2) - 2 = j
      BY <2>1, <2>2 DEF Params
    <3>2. svc_params[i] = Param(i + 2) /\ svc_params[j] = Param(j + 2)
      BY <2>4, <3>1
    <3>3. KeyOf[Word(i + 2)] = KeyOf[Word(j + 2)]
      BY <2>5, <3>2 DEF Param
    <3>4. i + 2 = j + 2
      BY <2>1, <2>3, <3>1, <3>3 DEF Taken
    <3> QED
      BY <3>1, <3>4
  <2> QED
    BY <2>2, <2>4, <2>5
<1> QED
  BY Invariant, <1>1, PTL
=============================================================================
