----------------------------- MODULE KykGensTx -----------------------------
(***************************************************************************)
(* The program kyk_gens_tx.c, which makes a transaction that pays the key of  *)
(* a PEM file, and the way of its file: an address is made of the key, a      *)
(* script of the address, the transaction is serialised (KykTx) and written,  *)
(* and a parser reads it (ParseTx).  Likewise kyk_exe_p2pkh_sc_test.c, which  *)
(* starts from an address in its text, kyk_tx0.c, which makes its transaction *)
(* of the texts in its source, and the programs that show one step of the way: *)
(* a key (kyk_make_address_test.c, kyk_ecdsa_test.c), an address              *)
(* (pem_to_address.c, kyk_address_test.c) or a script (kyk_sc_pubkey_test.c). *)
(***************************************************************************)
EXTENDS ParseTx, KykAddress, KykUtils

CONSTANTS PemKeys,    \* the keys a PEM file or kyk_address_test.c may hold, as numbers
          Typed,      \* addresses in a program's text
          CbPrefix,   \* the first seven bytes of the coinbase script
          Note,       \* the text in it
          GensValue,  \* 10000000000
          Tx0Texts,   \* the txid, scripts and sizes a program like kyk_tx0.c may hold
          Tx0Value    \* 5000000000

VARIABLES key,    \* the key, 0 when the PEM file cannot be read
          priv,   \* what get_priv_from_pem leaves in priv
          addr,   \* the address
          sc,     \* the script, and what p2pkh_sc_from_address says of it
          shown,   \* the text of the txid, the key or the script the program shows
          stage   \* what the program does

gensVars == <<key, priv, addr, sc, shown, stage>>

allVars == <<vars, gensVars>>

Privs == [1 .. KeySize -> Byte]

\* make_coinbase: the length of the note is one byte.
make_coinbase == CbPrefix \o <<Len(Note) % Base>> \o Note

\* The transaction, with script s and its size.
GensTx(s) ==
    [version |-> 1, lock_time |-> 0,
     vin |-> <<[pre_txid |-> Zeros(HashSize), pre_tx_inx |-> Long - 1,
                sc_size |-> Len(make_coinbase), sc |-> make_coinbase, seq_no |-> Long - 1]>>,
     vout |-> <<[value |-> GensValue, sc_size |-> Len(s), sc |-> s]>>]

\* No file has been written yet.
NoFile ==
    /\ writer = "kyk_seri_tx" /\ tx = GensTx(<<>>) /\ prog = "parse_txout_script_pbk"
    /\ pc = 1 /\ rest = <<>> /\ out = Blank /\ k = 0 /\ i = 0 /\ fault = "unwritten"

\* The key has no leading zero byte.
FullKey == Len(Digits(key, Base)) >= KeySize

\* The programs that have a key; what priv holds is what the stack did.
GensInit ==
    /\ key \in PemKeys
    /\ priv \in Privs
    /\ addr = <<>>
    /\ sc = [result |-> "none", hash |-> <<>>] /\ shown = <<>>
    /\ stage \in {"start", "pem", "priv"} \cup IF FullKey THEN {"test", "ecdsa"} ELSE {}
    /\ NoFile

\* A parser has a file from elsewhere, or a program an address in its text.
OtherInit ==
    /\ Init
    /\ key = 0 /\ priv = Zeros(KeySize) /\ addr = <<>>
    /\ sc = [result |-> "none", hash |-> <<>>] /\ shown = <<>>
    /\ stage = "other"

TextInit ==
    /\ key = 0 /\ priv = Zeros(KeySize) /\ addr \in Typed
    /\ sc = [result |-> "none", hash |-> <<>>] /\ shown = <<>>
    /\ stage \in {"text", "pubkey"}
    /\ NoFile

\* kyk_tx0.c.
Tx0Init ==
    /\ key = 0 /\ priv = Zeros(KeySize) /\ addr = <<>>
    /\ sc = [result |-> "none", hash |-> <<>>] /\ shown = <<>>
    /\ stage = "tx0"
    /\ NoFile

\* BN_bn2bin: the number's bytes from its first that is not zero are written to the
\* beginning of priv, and the rest of priv is what the stack held.
Filled == LET bytes == Digits(key, Base)
          IN  [j \in 1 .. KeySize |-> IF j <= Len(bytes) THEN bytes[j] ELSE priv[j]]

\* Mutated: the least significant byte comes first.
Bad_GetPriv ==
    /\ stage = "start"
    /\ priv' = Reversed(Filled)
    /\ stage' = "key"
    /\ UNCHANGED <<vars, key, addr, sc, shown>>

\* get_priv_from_pem.
GetPriv ==
    /\ stage = "start"
    /\ priv' = Filled
    /\ stage' = "key"
    /\ UNCHANGED <<vars, key, addr, sc, shown>>

\* The PEM file cannot be read; main goes on.
GetPrivFails ==
    /\ stage = "start"
    /\ key' = 0
    /\ stage' = "key"
    /\ UNCHANGED <<vars, priv, addr, sc, shown>>

MakeAddress ==
    /\ stage = "key"
    /\ addr' = kyk_make_address(priv)
    /\ sc' = pubk_hash_from_address(addr')
    /\ stage' = IF sc'.result = "good" THEN "script" ELSE "crash"
    /\ UNCHANGED <<vars, key, priv, shown>>

\* pem_to_address.c, which ends when the file cannot be read.
PemToAddress ==
    /\ stage = "pem"
    /\ \/ /\ priv' = Filled
          /\ addr' = kyk_make_address(priv')
          /\ stage' = "made"
       \/ stage' = "exit" /\ UNCHANGED <<priv, addr>>
    /\ UNCHANGED <<vars, key, sc, shown>>

\* kyk_address_test.c, whose key has all its bytes, and which makes the address of that
\* key and not of priv.
AddressTest ==
    /\ stage = "test"
    /\ priv' = Filled
    /\ addr' = kyk_base58(AddressBytes(Ripemd160(Sha256(Public(key)))))
    /\ stage' = "made"
    /\ UNCHANGED <<vars, key, sc, shown>>

\* kyk_make_address_test.c shows the key that it reads, or ends when there is none.
ShowPriv ==
    /\ stage = "priv"
    /\ \/ /\ priv' = Filled
          /\ shown' = HexText(priv')
          /\ stage' = "printed"
       \/ stage' = "exit" /\ UNCHANGED <<priv, shown>>
    /\ UNCHANGED <<vars, key, addr, sc>>

\* kyk_ecdsa_test.c shows the key of its text once more, as BN_bn2bin leaves it in priv.
EcdsaTest ==
    /\ stage = "ecdsa"
    /\ priv' = Filled
    /\ shown' = HexText(priv')
    /\ stage' = "printed"
    /\ UNCHANGED <<vars, key, addr, sc>>

\* kyk_exe_p2pkh_sc_test.c.
TakeAddress ==
    /\ stage = "text"
    /\ sc' = pubk_hash_from_address(addr)
    /\ stage' = "typed"
    /\ UNCHANGED <<vars, key, priv, addr, shown>>

\* kyk_sc_pubkey_test.c shows the script that pays the address in its text; of a bad one it
\* shows what follows the buffer.
ShowScript ==
    /\ stage = "pubkey"
    /\ sc' = pubk_hash_from_address(addr)
    /\ shown' = IF sc'.result = "good" THEN HexText(build_p2pkh_sc_pubk(sc'.hash)) ELSE <<>>
    /\ stage' = "typed"
    /\ UNCHANGED <<vars, key, priv, addr>>

\* kyk_seri_tx, fwrite, and the end of main, which writes the stream's buffer; the txid is
\* shown.
Save(new) ==
    /\ tx' = new
    /\ rest' = SeriTx(new)
    /\ fault' = "none"
    /\ shown' = HexText(kyk_inver_hash(rest'))
    /\ stage' = "written"

Write ==
    /\ stage = "script"
    /\ Save(GensTx(build_p2pkh_sc_pubk(sc.hash)))
    /\ UNCHANGED <<writer, prog, pc, out, k, i, key, priv, addr, sc>>

\* create_txin and create_txout on the texts of kyk_tx0.c.
Tx0(t) ==
    [version |-> 1, lock_time |-> 0,
     vin |-> <<[pre_txid |-> hexstr_to_bytes(t.pre_txid, HashSize), pre_tx_inx |-> Long - 1,
                sc_size |-> t.in_size, sc |-> hexstr_to_bytes(t.txin_sc, t.in_size),
                seq_no |-> Long - 1]>>,
     vout |-> <<[value |-> Tx0Value, sc_size |-> t.out_size,
                 sc |-> hexstr_to_bytes(t.txout_sc, t.out_size)]>>]

IsMalformed(new) == Malformed \in {new.vin[1].pre_txid, new.vin[1].sc, new.vout[1].sc}

\* They end the program when a text is not what it should be.
MakeTx0 ==
    /\ stage = "tx0"
    /\ \E t \in Tx0Texts :
          IF IsMalformed(Tx0(t))
          THEN stage' = "exit" /\ UNCHANGED <<tx, rest, fault, shown>>
          ELSE Save(Tx0(t))
    /\ UNCHANGED <<writer, prog, pc, out, k, i, key, priv, addr, sc>>

Parse ==
    /\ stage \in {"written", "other"}
    /\ Step
    /\ UNCHANGED gensVars

AllEnded ==
    /\ stage \in {"crash", "typed", "made", "printed", "exit"} \/ (stage \in {"written", "other"} /\ Stopped)
    /\ UNCHANGED allVars

AllNext ==
    \/ GetPriv \/ GetPrivFails \/ MakeAddress \/ PemToAddress \/ AddressTest \/ TakeAddress
    \/ ShowPriv \/ EcdsaTest \/ ShowScript \/ Write \/ MakeTx0 \/ Parse \/ AllEnded

AllSpec == (GensInit \/ OtherInit \/ TextInit \/ Tx0Init) /\ [][AllNext]_allVars

------------------------------------------------------------------------------
PubKeyHash(x) == kyk_dgst_hash160(Public(x))

Pkhs == [1 .. PkhSize -> Byte]

\* The script of an output is a push and four opcodes, the texts and values fit what holds
\* them, and a key has at most KeySize bytes.
ASSUME GensTxAssumption ==
    /\ PkhSize \in 1 .. PushEnd
    /\ {OpDup, OpHash160, OpEqualVerify, OpCheckSig} \subseteq Opcodes \ 0 .. PushEnd
    /\ StackSize >= 5
    /\ CbPrefix \in Seq(Byte) /\ Note \in Seq(Byte)
    /\ 2 * Len(make_coinbase) < SigBufSize /\ Len(make_coinbase) < Quad
    /\ GensValue \in 0 .. Quad - 1 /\ Tx0Value \in 0 .. Quad - 1
    /\ \A x \in PemKeys : x \in Nat /\ Len(Digits(x, Base)) <= KeySize
    /\ Typed \subseteq Seq(Nat)
    /\ Tx0Texts \subseteq [pre_txid : Seq(Nat), in_size : 0 .. Quad - 1, txin_sc : Seq(Nat),
                          out_size : 0 .. Quad - 1, txout_sc : Seq(Nat)]

\* Of the hashes: each has its number of bytes, whatever is hashed here.
ASSUME HashAssumption ==
    /\ \A p \in Privs : PubKeyHash(Number(p, Base)) \in Pkhs
    /\ \A v \in Byte, h \in Pkhs :
          kyk_dgst_hash256(<<v>> \o h) \in Seq(Byte) /\ Len(kyk_dgst_hash256(<<v>> \o h)) >= CheckSize
    /\ \A h \in Pkhs :
          kyk_dgst_hash256(SeriTx(GensTx(build_p2pkh_sc_pubk(h)))) \in [1 .. HashSize -> Byte]
    /\ \A t \in Tx0Texts :
          IsMalformed(Tx0(t)) \/ kyk_dgst_hash256(SeriTx(Tx0(t))) \in [1 .. HashSize -> Byte]

------------------------------------------------------------------------------
(* Properties *)

\* s without the ones, the zeros of the alphabet, it begins with.
WithoutOnes(s) == SubSeq(s, LeadingZeros(s) + 1, Len(s))

\* An address is taken only when it is, but for the ones it begins with, the address of
\* the hash the script pays, for some version; one that is mistyped is refused, or the
\* program ends in a crash, and never pays another.  The script shown of it, typed into a
\* column of a transaction, is the one that pays.
TakenAddressPays ==
    stage = "typed" /\ sc.result = "good" =>
        /\ shown # <<>> =>
               Column("txout-sc-pubkey:hex", shown) = build_p2pkh_sc_pubk(sc.hash)
        /\ \E v \in Byte :
               LET bytes == <<v>> \o sc.hash
               IN  WithoutOnes(addr) = WithoutOnes(kyk_base58(bytes \o get_checksum(bytes)))

\* A txid that a program shows names its transaction when it is typed into an input: what is
\* serialised there is the hash of the transaction's bytes.
TxidNames ==
    stage = "written" /\ shown # <<>> =>
        LET txin == [pre_txid |-> hexstr_to_bytes(shown, HashSize), pre_tx_inx |-> 0,
                     sc_size |-> 0, sc |-> <<>>, seq_no |-> 0]
        IN  SubSeq(SeriTxin(txin), 1, HashSize) = kyk_dgst_hash256(SeriTx(tx))

\* The address made of what get_priv_from_pem leaves is always read again, as the hash of
\* that key, although its bytes begin with a zero, which the number it is written as does
\* not have, and may begin with more.  And what parse_txout_script_pbk shows of the file
\* kyk_gens_tx wrote pays the PEM file's key, provided that it could be read and fills priv,
\* and the txid shown leads to it.  A key that a program shows is the one it was given, if it
\* fills priv.
PaysOwner ==
    /\ TxidNames
    /\ stage # "crash"
    /\ sc.result = "good" /\ stage \in {"script", "written"} => sc.hash = PubKeyHash(Number(priv, Base))
    /\ stage = "made" =>
           pubk_hash_from_address(addr) = [result |-> "good", hash |-> PubKeyHash(Number(priv, Base))]
    /\ stage = "printed" /\ FullKey => Number(kyk_alloc_hex(shown), Base) = key
    /\ stage = "written" /\ pc > Len(Text[prog]) /\ FullKey =>
           /\ fault \in {"none", "unset"}
           /\ out.txouts[1].value = GensValue
           /\ [j \in 1 .. 5 |-> out.txouts[1].ops[j].op] = <<OpDup, OpHash160, 0, OpEqualVerify, OpCheckSig>>
           /\ out.txouts[1].ops[3].data = PubKeyHash(key)
==============================================================================
