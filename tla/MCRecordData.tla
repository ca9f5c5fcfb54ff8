---------------------------- MODULE MCRecordData ----------------------------
(* Words of every class, in texts of no to four words, or of up to three     *)
(* parameters for HTTPS and SVCB.                                            *)
EXTENDS RecordData, TLC

MCU16 == {"0", "10"}
MCZeros == {"0"}
MCV4 == {"1.2.3.4"}
MCV6 == {"::1"}
MCNames == {"", "0", "10", "1.2.3.4", ".", "host."}
MCBase64 == {"", "AEn+"}

\* The words that are read as parameters: key and value.
Tokens ==
    "alpn" :> <<"alpn", NoValue>> @@ "alpn=" :> <<"alpn", <<"">>>> @@
    "alpn=h2,h3" :> <<"alpn", <<"h2", "h3">>>> @@
    "mandatory=alpn" :> <<"mandatory", <<"alpn">>>> @@
    "mandatory=h2" :> <<"mandatory", <<"h2">>>> @@
    "no-default-alpn" :> <<"no-default-alpn", NoValue>> @@
    "no-default-alpn=" :> <<"no-default-alpn", <<"">>>> @@
    "no-default-alpn=0" :> <<"no-default-alpn", <<"0">>>> @@
    "port=10" :> <<"port", <<"10">>>> @@ "port=10,10" :> <<"port", <<"10", "10">>>> @@
    "ipv4hint=1.2.3.4" :> <<"ipv4hint", <<"1.2.3.4">>>> @@
    "ipv4hint=1.2.3.4,::1" :> <<"ipv4hint", <<"1.2.3.4", "::1">>>> @@
    "ipv6hint=1.2.3.4" :> <<"ipv6hint", <<"1.2.3.4">>>> @@
    "ech=" :> <<"ech", <<"">>>> @@ "ech=::1" :> <<"ech", <<"::1">>>> @@
    "key667=h2" :> <<"key667", <<"h2">>>> @@ "key0667" :> <<"key667", NoValue>>

Plain == MCU16 \cup MCV4 \cup MCV6 \cup MCNames \cup {"h2", "h3", ""}

MCKeyOf == [w \in DOMAIN Tokens \cup Plain |-> IF w \in Plain THEN BadKey ELSE Tokens[w][1]]
MCValueOf == [w \in DOMAIN Tokens \cup Plain |-> IF w \in Plain THEN NoValue ELSE Tokens[w][2]]

Upto(n, set) == UNION {[1..k -> set] : k \in 0..n}

Spaces == {"tight", "after", "loose"}

MCRecords ==
    [record_type : Types \ Services, space : Spaces,
     words : Upto(4, {"10", "1.2.3.4", "::1", "host."})] \cup
    [record_type : {"SVCB"}, space : {"loose"},
     words : {<<p, t>> \o s : p \in {"0", "10", "h2"}, t \in {".", "host.", "::1"},
                              s \in Upto(2, DOMAIN Tokens \cup {"10"})}] \cup
    [record_type : {"HTTPS"}, space : {"tight"},
     words : {<<>>, <<"10">>} \cup
             {<<p, ".">> \o s : p \in {"0", "10"}, s \in Upto(3, DOMAIN Tokens)}]
=============================================================================
