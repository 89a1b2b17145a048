------------------------------- MODULE KykTx -------------------------------
(***************************************************************************)
(* How a transaction is put into bytes: the varints of varint.c, the          *)
(* serialiser of kyk_tx.c, which takes a struct kyk_tx, and that of kyk_ser.c,*)
(* which takes one named column a call.                                       *)
(***************************************************************************)
EXTENDS KykUtils

CONSTANT HashSize  \* bytes of a hash (32)

ASSUME HashSizeAssumption == HashSize \in Nat \ {0}

\* The first bytes of varints of two, four and eight bytes: 0xfd, 0xfe and 0xff.
Tag2 == Base - 3
Tag4 == Base - 2
Tag8 == Base - 1

------------------------------------------------------------------------------
(* varint.c *)

\* Mutated: 0xffff takes the long form.
Bad_PackVarint(v) ==
    IF v <= Tag2 THEN <<v>>
    ELSE IF v < Short THEN <<Tag2>> \o LE(v, 2)
    ELSE IF v < Long THEN <<Tag4>> \o LE(v, 4)
    ELSE <<Tag8>> \o LE(v, 8)

PackVarint(v) ==
    IF v < Tag2 THEN <<v>>
    ELSE IF v < Short THEN <<Tag2>> \o LE(v, 2)
    ELSE IF v < Long THEN <<Tag4>> \o LE(v, 4)
    ELSE <<Tag8>> \o LE(v, 8)

\* Bytes of the varint that begins with byte b.
VarintSize(b) == CASE b = Tag2 -> 3 [] b = Tag4 -> 5 [] b = Tag8 -> 9 [] OTHER -> 1

\* kyk_unpack_varint of a buffer of at least VarintSize(buf[1]) bytes: the number, and
\* how many bytes were read.  Nothing tells the function how long the buffer is.
UnpackVarint(buf) ==
    LET size == VarintSize(buf[1])
    IN  [val |-> IF size = 1 THEN buf[1] ELSE Num(SubSeq(buf, 2, size)), size |-> size]

\* encode_btc_varint: the member va1, and the width of the member that has the number.
EncodeBtcVarint(v) ==
    IF v < Tag2 THEN [va1 |-> v, width |-> 0]
    ELSE IF v < Short THEN [va1 |-> Tag2, width |-> 2]
    ELSE IF v < Long THEN [va1 |-> Tag4, width |-> 4]
    ELSE [va1 |-> Tag8, width |-> 8]

------------------------------------------------------------------------------
(* struct kyk_tx.  sc_size is what the caller of create_txin or create_txout says. *)

Txins == [pre_txid : [1 .. HashSize -> Byte], pre_tx_inx : 0 .. Long - 1,
          sc_size : 0 .. Quad - 1, sc : Seq(Byte), seq_no : 0 .. Long - 1]

Txouts == [value : 0 .. Quad - 1, sc_size : 0 .. Quad - 1, sc : Seq(Byte)]

Txs == [version : 0 .. Long - 1, vin : Seq(Txins), vout : Seq(Txouts),
        lock_time : 0 .. Long - 1]

\* create_txin and create_txout exit when hexstr_to_bytes finds the text of a script
\* longer or shorter than the caller says.
Created(tx) == \A s \in {tx.vin, tx.vout} : \A j \in DOMAIN s : s[j].sc_size = Len(s[j].sc)

------------------------------------------------------------------------------
(* kyk_tx.c *)

\* The buffer after each part, from the k-th on, was put behind the one before.
Joined(parts) ==
    LET from[k \in 1 .. Len(parts) + 1] ==
            IF k > Len(parts) THEN <<>> ELSE parts[k] \o from[k + 1]
    IN  from

SeriTxin(txin) ==
    Reversed(txin.pre_txid) \o LE(txin.pre_tx_inx, 4)
    \o PackVarint(txin.sc_size) \o txin.sc \o LE(txin.seq_no, 4)

SeriTxout(txout) == LE(txout.value, 8) \o PackVarint(txout.sc_size) \o txout.sc

\* Of a list, its elements from the k-th on.
SeriTxinList(vin) == Joined([j \in 1 .. Len(vin) |-> SeriTxin(vin[j])])

SeriTxoutList(vout) == Joined([j \in 1 .. Len(vout) |-> SeriTxout(vout[j])])

SeriTx(tx) ==
    LE(tx.version, 4) \o PackVarint(Len(tx.vin)) \o SeriTxinList(tx.vin)[1]
    \o PackVarint(Len(tx.vout)) \o SeriTxoutList(tx.vout)[1] \o LE(tx.lock_time, 4)

------------------------------------------------------------------------------
(* kyk_ser.c *)

\* kyk_valist_ser: the bytes of one column.
Column(col, arg) ==
    CASE col \in {"version-no", "pre-txout-inx", "lock-time", "magic-no", "block-size"} -> LE(arg, 4)
      [] col = "seq-no" -> BE(arg, 4)
      [] col \in {"in-counter", "txin-sc-len", "out-counter", "txout-sc-len", "tx-count"}
           -> PackVarint(arg)
      [] col \in {"pre-tx-hash", "txin-sc-sig", "raw-buf"} -> arg
      [] col \in {"pre-tx-hash:hex", "txin-sc-sig:hex", "txout-sc-pubkey:hex"}
           -> kyk_alloc_hex(arg)
      [] col = "txout-value" -> LE(arg, 8)
      [] OTHER -> <<>>

\* kyk_tx_inc_ser, called for each column in turn.
IncSer(cols) == Joined([j \in 1 .. Len(cols) |-> Column(cols[j][1], cols[j][2])])[1]

\* The calls kyk_exe_p2pkh_sc_test.c makes for a transaction of one input and one
\* output; the bytes of the sequence number are given the other way round, 0xfeffffff
\* for 0xfffffffe, and both scripts are columns of an output.
TxColumns(tx) ==
    LET txin == tx.vin[1]  txout == tx.vout[1]
    IN  <<<<"version-no", tx.version>>, <<"in-counter", 1>>,
          <<"pre-tx-hash:hex", HexText(Reversed(txin.pre_txid))>>,
          <<"pre-txout-inx", txin.pre_tx_inx>>,
          <<"txout-sc-len", txin.sc_size>>, <<"txout-sc-pubkey:hex", HexText(txin.sc)>>,
          <<"seq-no", Num(BE(txin.seq_no, 4))>>,
          <<"out-counter", 1>>, <<"txout-value", txout.value>>,
          <<"txout-sc-len", txout.sc_size>>, <<"txout-sc-pubkey:hex", HexText(txout.sc)>>,
          <<"lock-time", tx.lock_time>>>>
==============================================================================
