----------------------------- MODULE MCKykScript -----------------------------
(* Instances of KykScript for TLC. *)
EXTENDS KykScript

\* Two public keys, a signature that verifies under one of them, one that is
\* malformed, and the hashes of the keys; every other value hashes to "h0".
MCValues == {"pk1", "pk2", "s1", "s2", "h1", "h2", "h0"}

\* A key has 33 bytes, a signature more, a hash fewer.
MCSize == [v \in MCValues |-> CASE v \in {"pk1", "pk2"} -> 33 [] v \in {"s1", "s2"} -> 71 [] OTHER -> 20]

MCHash160 == [v \in MCValues |-> CASE v = "pk1" -> "h1" [] v = "pk2" -> "h2" [] OTHER -> "h0"]

MCSigVerify ==
    [p \in MCValues \X MCValues |->
        CASE p = <<"s1", "pk1">> -> 1
          [] p[1] = "s2" \/ p[2] \notin {"pk1", "pk2"} -> -1
          [] OTHER -> 0]

\* The depth after i operations of s.
DepthOf(s) ==
    LET d[i \in 0 .. Len(s)] == IF i = 0 THEN 0 ELSE d[i - 1] + Effect(s[i])
    IN  d

WithinDepth(s, n) ==
    LET d == DepthOf(s)
    IN  \A i \in 1 .. Len(s) : Needs(s[i]) <= d[i - 1] /\ d[i] <= n

Push(v) == [op |-> "push", val |-> v]

\* Spending scripts with up to one item pushed before the signature.
SpendingScripts ==
    { CombineSc(pre \o <<Push(sig), Push(pk)>>, BuildP2pkh(h)) :
        pre \in {<<>>, <<Push("pk2")>>}, sig \in {"s1", "s2", "h0"},
        pk \in {"pk1", "pk2", "s1", "h0"}, h \in {"h1", "h2", "h0"} }

\* Every script of at most n operations over a few values that stays within m items.
FewOps == {Push("s1"), Push("pk1"), Push("h1")} \cup
          [op : {"dup", "hash160", "equalverify", "checksig", "other"}]

ShortScripts(n, m) == {s \in UNION {[1 .. k -> FewOps] : k \in 0 .. n} : WithinDepth(s, m)}

MCScripts == SpendingScripts \cup ShortScripts(4, 4)

MCDepth == [s \in MCScripts |-> DepthOf(s)]
==============================================================================
