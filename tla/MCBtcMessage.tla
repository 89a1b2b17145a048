---------------------------- MODULE MCBtcMessage ----------------------------
(* Bytes of eight values; floating point numbers of 6, 12 and 24 bits. *)
EXTENDS BtcMessage

MCExpBits == [f |-> 2, d |-> 3, g |-> 4]

MCNames == [btc_version |-> <<1, 2>>, btc_verack |-> <<1, 3, 4>>]

MCSha256(s) ==
    LET At(j) == IF j <= Len(s) THEN s[j] ELSE 3
    IN  <<(At(1) + Len(s)) % 8, (At(2) + 5) % 8, (At(3) + At(1)) % 8, IF s = <<>> THEN 0 ELSE s[Len(s)]>>

MCRipemd160(s) == s

MCLocalIp == <<7, 1>>

MCTimes == {70000, -5}

Version(agent) == [build_version_payload(9) EXCEPT !.uagent = agent]

MCTexts == {<<1>>, <<1, 2, 3>>, <<1, 2, 3, 4>>, <<1, 2, 3, 4, 5, 6>>}

Message(m, name, payload) == [magic |-> m, name |-> name, payload |-> payload]

Long1(n) == [j \in 1 .. n |-> (j * j) % 8]

\* A version that another node sends, with a user agent behind its length n, and a relay.
Theirs(n, agent) == SubSeq(pack_version(Version(<<>>)), 1, 52) \o <<n, 0>> \o agent \o <<3, 2, 0, 1, 1>>

MCReplies ==
    {Message(77, MCNames["btc_version"], pack_version(Version(a))) : a \in {<<>>, <<2, 5>>}}
    \cup {Message(4095, MCNames["btc_verack"], <<>>)}
    \cup {Message(77, <<6, 6, 6, 6>>, Long1(n)) : n \in {1, 63, 64}}
    \cup {Message(77, MCNames["btc_version"], Theirs(n, <<6, 1, 4>>)) : n \in {3, 5, 7}}

MCJunk == {[j \in 1 .. 80 |-> 7], [j \in 1 .. 80 |-> (j * 3 + 1) % 8]}

Half(ch) == Space(ch) \div 2

Frac(ch) == CASE ch = "f" -> {0, 32, 160, 224} [] OTHER -> {0, 1, 130, 255}

Some(ch) ==
    CASE ch \in Floats -> {[neg |-> n, frac |-> x, shift |-> e] : n \in BOOLEAN, x \in Frac(ch), e \in {0, 1}}
                          \cup {Zero}
      [] ch \in Signed -> {-Half(ch), -1, 0, 3, Half(ch) - 1}
      [] OTHER -> {0, 6, Half(ch), Space(ch) - 1}

Number(o, c, x)  == [kind |-> "number", ord |-> o, ch |-> c, v |-> x]
Limited(o, l, x) == [kind |-> "text", ord |-> o, lim |-> l, v |-> x]
Unknown(k, c)    == [kind |-> k, ord |-> <<>>, ch |-> c]

Lt == <<"<">>
Gt == <<">">>

MCTests ==
    UNION {{<<Number(o, ch, x)>> : o \in {<<>>, Lt, Gt}, x \in Some(ch)} : ch \in Fields}
    \cup UNION {{<<Number(o[1], a, x), Number(o[2], b, y)>> :
                     o \in {<<Lt, Lt>>, <<Gt, Lt>>, <<<<>>, <<>>>>, <<Lt, <<>>>>}, x \in Some(a), y \in Some(b)}
                : a \in {"h", "l"}, b \in {"c", "L", "f"}}
    \cup {<<Limited(o, <<>>, s)>> : o \in {<<>>, Lt}, s \in {<<>>, <<7>>, <<1, 2, 3>>}}
    \cup {<<Unknown("packed", "x"), Limited(<<>>, <<"2">>, <<1, 2, 3>>), Number(<<>>, "C", 5)>>,
          <<Limited(<<>>, <<"1", "2">>, <<1, 2, 3>>), Unknown("read", "-"), Number(<<>>, "C", 5)>>}
=============================================================================
