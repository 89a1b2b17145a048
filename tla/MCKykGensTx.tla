----------------------------- MODULE MCKykGensTx ---------------------------
(* Bytes of eight values, with tags 5, 6 and 7, and opcodes 1 to 3 for pushes. *)
EXTENDS KykGensTx

Null == <<0, 0>>
Id == <<3, 6>>

Scripts == {<<>>, <<4>>, <<2, 7>>, <<2, 7, 1>>, <<1, 2, 1, 5>>, <<4, 2, 0, 6>>, <<3, 1, 1, 5, 4>>,
            <<1, 6, 7, 4, 4>>, <<2, 1, 3, 3, 5, 6, 7>>,
            <<4, 4, 4, 4, 4, 4>>}

In(id, inx, s, n, seq) ==
    [pre_txid |-> id, pre_tx_inx |-> inx, sc_size |-> n, sc |-> s, seq_no |-> seq]

Inputs == {In(Id, 1, s, Len(s), 4091) : s \in Scripts}
          \cup {In(Null, 4095, s, Len(s), 4095) : s \in {<<1, 2>>, <<1, 2, 1, 5, 3>>, <<7, 7, 7, 7, 7, 7>>}}
          \cup {In(Null, 2, <<1, 4, 1, 4>>, 4, 0), In(Id, 4095, <<1, 4, 1, 4>>, 5, 2)}

Out(v, s) == [value |-> v, sc_size |-> Len(s), sc |-> s]

Outputs == {<<>>, <<Out(5000, <<4, 0, 2, 6, 6, 4>>)>>, <<Out(16777215, <<4, 7>>), Out(0, <<1, 0, 4>>)>>}
           \cup {<<Out(64, s)>> : s \in Scripts}

Tx(vin, vout) == [version |-> 1, vin |-> vin, vout |-> vout, lock_time |-> 66]

MCTxSet ==
    {Tx(<<j>>, o) : j \in Inputs, o \in Outputs}
    \cup {Tx(<<>>, o) : o \in Outputs}
    \cup {Tx([n \in 1 .. m |-> In(Id, n, <<1, 2, 1, n>>, 4, n)], <<Out(m, <<4>>)>>) : m \in {2, 5}}

MCPublic(x) == <<4, x % 8, x \div 8>>

MCSha256(s) == <<(s[1] * 3 + s[2] * 5 + s[Len(s)] + 6) % 8, (1 + s[2] + 3 * s[Len(s)]) % 8>>

MCRipemd160(s) == <<s[1] % 3, s[2]>>

MCNote == <<4, 1>>

MCCbPrefix == <<1, 7>>

\* Texts like those of kyk_tx0.c, and some with a character or a size that is wrong.
MCTx0Texts ==
    {[pre_txid |-> <<0, 0, 0, 0>>, in_size |-> Len(b), txin_sc |-> HexText(b),
      out_size |-> n, txout_sc |-> c] :
        b \in {<<1, 7, 1, 5>>, <<7, 7, 7, 7, 7, 7>>}, n \in {2, 3},
        c \in {HexText(<<4, 7>>), HexText(<<2, 6, 3>>), <<1, 3, 1, 0>>, <<3, 1, 1, 0>>}}

Strings(n) == [1 .. n -> 0 .. 6]

MCTyped == UNION {Strings(n) : n \in 0 .. 4} \cup {<<0, 0>> \o s : s \in Strings(3)}
           \cup {kyk_base58(AddressBytes(PubKeyHash(x)))  : x \in 0 .. 63} \cup [1 .. 5 -> {0, 2, 5}]
=============================================================================
