------------------------------ MODULE ParseTx ------------------------------
(***************************************************************************)
(* A transaction is written to a file by one of the two serialisers and read  *)
(* back by one of the parsers of src/, which were written one after another,  *)
(* each reading further than the one before: parse_tx_version, parse_tx,      *)
(* parse_tx_vinc, parse_txin, parse_txin_script_sig, parse_txout and          *)
(* parse_txout_script_pbk.                                                    *)
(*                                                                         *)
(* A parser is the list of its reads; every read is an action, and a loop an  *)
(* action per turn.  The parsers look at no result of fread: what a read past *)
(* the end of the file leaves in memory, and what is done with it, is not     *)
(* followed (fault = "short"), and neither is what happens after a write past *)
(* the end of an array (fault = "overrun").  malloc gives parse_txin a byte   *)
(* more than it asks for, since it asks for an odd number: the terminator it  *)
(* writes one too far hits nobody, but leaves a byte of the text unset.       *)
(***************************************************************************)
EXTENDS KykTx

CONSTANTS TxSet,       \* the transactions written
          PushEnd,     \* OP_PUSHDATA0_END (0x4b)
          Opcodes,     \* the values of btc_sc_opcodes
          SigBufSize,  \* SIG_BUF_SIZE (1000)
          StackSize,   \* PBK_STACK_SIZE (100)
          Unset        \* memory nobody has written

\* The counts of a struct kyk_tx are 64 bits wide.
ASSUME ParseTxAssumption ==
    /\ TxSet \subseteq Txs
    /\ \A t \in TxSet : Len(t.vin) < Quad /\ Len(t.vout) < Quad
    /\ PushEnd \in 1 .. Tag2 - 1
    /\ Opcodes \subseteq Byte
    /\ SigBufSize \in Nat
    /\ StackSize \in Nat \ {0}

VARIABLES writer,  \* the program the file comes from
          tx,      \* the transaction it wrote
          prog,    \* the parser
          pc,      \* its next read, an index of Text[prog]
          rest,    \* the bytes not read yet
          out,     \* the parser's variables
          k,       \* outputs read
          i,       \* bytes of the output script parsed
          fault    \* what went wrong

vars == <<writer, tx, prog, pc, rest, out, k, i, fault>>

Writers == {"kyk_seri_tx", "kyk_tx_inc_ser"}

------------------------------------------------------------------------------
(* The parsers, read by read. *)

parse_tx_version == <<"version">>

parse_tx == <<"version", "vin_byte">>

parse_tx_vinc == <<"version", "vin_sz">>

parse_txin ==
    <<"version", "vin_sz", "pre_txid", "pre_tx_inx", "sc_size", "btc_sig", "seq_no">>

parse_txin_script_sig ==
    <<"version", "vin_sz", "pre_txid", "pre_tx_inx", "sc_size", "two_ops", "seq_no">>

parse_txout ==
    <<"version", "vin_sz", "pre_txid", "pre_tx_inx", "sc_size", "two_ops", "seq_no",
      "vout_sz", "txout">>

parse_txout_script_pbk ==
    <<"version", "vin_sz", "pre_txid", "pre_tx_inx", "sc_size", "sc_sig", "seq_no",
      "vout_sz", "txout", "opcodes", "lock_time">>

Text == [parse_tx_version |-> parse_tx_version, parse_tx |-> parse_tx,
         parse_tx_vinc |-> parse_tx_vinc, parse_txin |-> parse_txin,
         parse_txin_script_sig |-> parse_txin_script_sig, parse_txout |-> parse_txout,
         parse_txout_script_pbk |-> parse_txout_script_pbk]

Parsers == DOMAIN Text

Words == {"version", "pre_tx_inx", "seq_no", "lock_time"}
Varints == {"vin_sz", "sc_size", "vout_sz"}
SigOps == {"two_ops", "sc_sig"}

At(step) == fault = "none" /\ pc <= Len(Text[prog]) /\ Text[prog][pc] = step

------------------------------------------------------------------------------
(* The stream. *)

Take(n) == SubSeq(rest, 1, n)
Drop(n) == SubSeq(rest, n + 1, Len(rest))

IsPush(op) == op >= 1 /\ op <= PushEnd

\* An opcode with the bytes read_op_pushdata0 reads for it.
OpSize(op) == IF IsPush(op) THEN op + 1 ELSE 1

\* Bytes of the varint at place p, and its value; one byte when the file ends before it.
VarintAt(p) == IF p > Len(rest) THEN 1 ELSE VarintSize(rest[p])
ValueAt(p) ==
    IF VarintAt(p) = 1 THEN rest[p] ELSE Num(SubSeq(rest, p + 1, p + VarintAt(p) - 1))

\* Bytes of the first opcode, and of the first two.
OneOp == IF rest = <<>> THEN 1 ELSE OpSize(rest[1])
TwoOps == OneOp + (IF Len(rest) <= OneOp THEN 1 ELSE OpSize(rest[OneOp + 1]))

Coinbase ==
    /\ out.pre_tx_inx = Long - 1
    /\ out.pre_txid = [j \in 1 .. HashSize |-> 0]

\* Mutated: the second opcode is always read.
Bad_SigSize == TwoOps

\* The bytes btc_sc_sig of parse_txout_script_pbk.c reads.
SigSize == IF OneOp < out.sc_size THEN TwoOps ELSE OneOp

\* The bytes a turn of read_tx_out_list reads.
TxoutHead == 8 + VarintAt(9)
TxoutSize == IF Len(rest) < TxoutHead THEN TxoutHead ELSE TxoutHead + ValueAt(9)

\* The bytes the next read asks for.
Needs ==
    LET step == Text[prog][pc]
    IN  CASE step \in Words                 -> 4
          [] step = "vin_byte"              -> 1
          [] step \in Varints               -> VarintAt(1)
          [] step = "pre_txid"              -> HashSize
          [] step = "btc_sig"               -> out.sc_size
          [] step \in SigOps /\ Coinbase    -> out.sc_size
          [] step = "two_ops" /\ ~Coinbase  -> TwoOps
          [] step = "sc_sig" /\ ~Coinbase   -> SigSize
          [] step = "txout"                 -> IF k < out.vout_sz THEN TxoutSize ELSE 0
          [] step = "opcodes"               -> OneOp

------------------------------------------------------------------------------
\* The variables of main, not yet assigned.
Blank == [version |-> Unset, vin_sz |-> Unset, pre_txid |-> Unset, pre_tx_inx |-> Unset,
          sc_size |-> Unset, sig |-> Unset, pubkey |-> Unset, seq_no |-> Unset,
          vout_sz |-> Unset, txouts |-> <<>>, lock_time |-> Unset]

File(w, t) == IF w = "kyk_seri_tx" THEN SeriTx(t) ELSE IncSer(TxColumns(t))

Init ==
    /\ writer \in Writers
    /\ tx \in TxSet
    /\ writer = "kyk_tx_inc_ser" => Len(tx.vin) = 1 /\ Len(tx.vout) = 1
    /\ prog \in Parsers
    /\ pc = 1
    /\ rest = File(writer, tx)
    /\ out = Blank
    /\ k = 0
    /\ i = 0
    /\ fault = IF writer = "kyk_seri_tx" /\ ~Created(tx) THEN "exit" ELSE "none"

\* The next bytes are read, and o is what the variables become.
Reads(o) ==
    /\ Len(rest) >= Needs
    /\ rest' = Drop(Needs)
    /\ out' = o
    /\ pc' = pc + 1
    /\ UNCHANGED <<writer, tx, prog, k, i, fault>>

\* btc_uint4.
ReadWord(f) == At(f) /\ Reads([out EXCEPT ![f] = Num(Take(4))])

\* tx_fread of tx_vin.
ReadVinByte == At("vin_byte") /\ Reads([out EXCEPT !.vin_sz = rest[1]])

\* btc_varint.
ReadVarint(f) == At(f) /\ Reads([out EXCEPT ![f] = ValueAt(1)])

\* btc_hash.
ReadHash == At("pre_txid") /\ Reads([out EXCEPT !.pre_txid = Reversed(Take(HashSize))])

\* btc_sig of parse_txin.c.
ReadSig == At("btc_sig") /\ Reads([out EXCEPT !.sig = Take(out.sc_size)])

\* btc_cb_sig: two characters a byte and a terminator go into sig[SIG_BUF_SIZE].
ReadCoinbase(step) ==
    /\ At(step)
    /\ Coinbase
    /\ 2 * out.sc_size < SigBufSize
    /\ Reads([out EXCEPT !.sig = Take(out.sc_size)])

OverrunCoinbase(step) ==
    /\ At(step)
    /\ Coinbase
    /\ 2 * out.sc_size >= SigBufSize
    /\ Len(rest) >= Needs
    /\ fault' = "overrun"
    /\ UNCHANGED <<writer, tx, prog, pc, rest, out, k, i>>

\* What the text of the opcode at place p becomes: the data it pushes, or what it was.
Pushed(p, old) == IF IsPush(rest[p]) THEN SubSeq(rest, p + 1, p + rest[p]) ELSE old

\* btc_sc_sig.
ReadScriptSig(step) ==
    /\ At(step)
    /\ ~Coinbase
    /\ Reads([out EXCEPT !.sig = Pushed(1, @),
                         !.pubkey = IF Needs > OneOp THEN Pushed(OneOp + 1, @) ELSE @])

\* A turn of read_tx_out_list.  parse_txout_script_pbk goes back to the beginning of the
\* script and parses it.
ReadTxout ==
    /\ At("txout")
    /\ k < out.vout_sz
    /\ Len(rest) >= Needs
    /\ out' = [out EXCEPT !.txouts = Append(@,
                  [value |-> Num(Take(8)), len |-> ValueAt(9),
                   sc |-> SubSeq(rest, TxoutHead + 1, TxoutSize), ops |-> <<>>])]
    /\ i' = 0
    /\ IF prog = "parse_txout_script_pbk"
       THEN pc' = pc + 1 /\ rest' = Drop(TxoutHead) /\ k' = k
       ELSE pc' = pc /\ rest' = Drop(TxoutSize) /\ k' = k + 1
    /\ UNCHANGED <<writer, tx, prog, fault>>

TxoutsRead ==
    /\ At("txout")
    /\ k >= out.vout_sz
    /\ pc' = pc + (IF prog = "parse_txout_script_pbk" THEN 2 ELSE 1)
    /\ UNCHANGED <<writer, tx, prog, rest, out, k, i, fault>>

\* An entry of the stack: the pushed data, or tr_opcode_to_name's name for the opcode.
Entry(s) ==
    [name |-> IF IsPush(s[1]) THEN "data" ELSE IF s[1] \in Opcodes THEN "op" ELSE "none",
     op   |-> IF ~IsPush(s[1]) /\ s[1] \in Opcodes THEN s[1] ELSE 0,
     data |-> Tail(s)]

\* The output whose script is parsed.
Last == Len(out.txouts)

\* A turn of the loop of btc_parsed_sc_pbk.
ParseOpcode ==
    /\ At("opcodes")
    /\ Len(rest) >= Needs
    /\ Len(out.txouts[Last].ops) < StackSize
    /\ out' = [out EXCEPT !.txouts[Last].ops = Append(@, Entry(Take(OneOp)))]
    /\ i' = i + OneOp
    /\ rest' = Drop(OneOp)
    /\ IF i' < out.txouts[Last].len
       THEN pc' = pc /\ k' = k
       ELSE pc' = pc - 1 /\ k' = k + 1
    /\ UNCHANGED <<writer, tx, prog, fault>>

OverrunStack ==
    /\ At("opcodes")
    /\ Len(rest) >= Needs
    /\ Len(out.txouts[Last].ops) >= StackSize
    /\ fault' = "overrun"
    /\ UNCHANGED <<writer, tx, prog, pc, rest, out, k, i>>

\* A read past the end of the file.
EndOfFile ==
    /\ fault = "none"
    /\ pc <= Len(Text[prog])
    /\ Len(rest) < Needs
    /\ fault' = "short"
    /\ UNCHANGED <<writer, tx, prog, pc, rest, out, k, i>>

\* printf shows memory nobody has written: the last character of parse_txin's text, a
\* text of the script no push has set, and what print_parsed_sc_pbk finds behind the
\* last entry of a stack.
ShowsUnset ==
    \/ prog = "parse_txin"
    \/ \E step \in SigOps : /\ \E p \in 1 .. Len(Text[prog]) : Text[prog][p] = step
                            /\ ~Coinbase /\ out.sc_size > 0
                            /\ out.sig = Unset \/ out.pubkey = Unset
    \/ prog = "parse_txout_script_pbk" /\ out.vout_sz > 0

\* What is printed at the end of main.
PrintOut ==
    /\ fault = "none"
    /\ pc = Len(Text[prog]) + 1
    /\ pc' = pc + 1
    /\ fault' \in IF ShowsUnset THEN {"none", "unset"} ELSE {"none"}
    /\ UNCHANGED <<writer, tx, prog, rest, out, k, i>>

Stopped == fault # "none" \/ pc = Len(Text[prog]) + 2

Ended == Stopped /\ UNCHANGED vars

Step ==
    \/ \E f \in Words : ReadWord(f)
    \/ \E f \in Varints : ReadVarint(f)
    \/ \E step \in SigOps : ReadCoinbase(step) \/ OverrunCoinbase(step) \/ ReadScriptSig(step)
    \/ ReadVinByte \/ ReadHash \/ ReadSig \/ ReadTxout \/ TxoutsRead \/ ParseOpcode
    \/ OverrunStack \/ EndOfFile \/ PrintOut

Next == Step \/ Ended

Spec == Init /\ [][Next]_vars

------------------------------------------------------------------------------
(* Which transactions a parser reads. *)

\* The places the first n opcodes of script s end at, with their data.
CutsOf(s, n) ==
    LET c[j \in 0 .. n] ==
            IF j = 0 THEN 0
            ELSE IF c[j - 1] < Len(s) THEN c[j - 1] + OpSize(s[c[j - 1] + 1])
            ELSE Len(s) + 1
    IN  c

\* s is a script of n opcodes.
HasOps(s, n) == CutsOf(s, n)[n] = Len(s)

IsCoinbase(txin) ==
    /\ txin.pre_tx_inx = Long - 1
    /\ txin.pre_txid = [j \in 1 .. HashSize |-> 0]

\* A script of an input the parser takes apart into what it is made of.
ReadableSig(txin) ==
    \/ prog \in {"parse_tx_version", "parse_tx", "parse_tx_vinc", "parse_txin"}
    \/ IsCoinbase(txin) /\ 2 * txin.sc_size < SigBufSize
    \/ ~IsCoinbase(txin) /\ HasOps(txin.sc, 2)
    \/ ~IsCoinbase(txin) /\ HasOps(txin.sc, 1) /\ prog = "parse_txout_script_pbk"

\* A script of an output likewise.
ReadableScript(s) == \E n \in 1 .. StackSize : HasOps(s, n)

\* What the parser can read right.  It reads one input, whatever the number it finds.
Readable ==
    /\ Created(tx)
    /\ prog = "parse_tx" => Len(tx.vin) < Tag2
    /\ prog \notin {"parse_tx_version", "parse_tx", "parse_tx_vinc"} =>
           Len(tx.vin) = 1 /\ ReadableSig(tx.vin[1])
    /\ prog = "parse_txout_script_pbk" =>
           \A j \in DOMAIN tx.vout : ReadableScript(tx.vout[j].sc)

------------------------------------------------------------------------------
(* Properties *)

\* The type invariant.
TypeOK ==
    /\ writer \in Writers
    /\ tx \in Txs
    /\ prog \in Parsers
    /\ pc \in 1 .. Len(Text[prog]) + 2
    /\ rest \in Seq(Byte)
    /\ \A f \in Words \cup Varints : out[f] \in Nat \cup {Unset}
    /\ \A f \in {"sig", "pubkey"} : out[f] \in Seq(Byte) \cup {Unset}
    /\ \A j \in 1 .. Last : out.txouts[j].value \in Nat /\ out.txouts[j].sc \in Seq(Byte)
    /\ k \in Nat
    /\ i \in Nat
    /\ fault \in {"none", "short", "overrun", "unset", "exit", "unwritten"}

\* The stack holds the script's opcodes and their data, in their order.
Parsed(ops, s) ==
    LET c == CutsOf(s, Len(ops))
    IN  /\ HasOps(s, Len(ops))
        /\ \A j \in 1 .. Len(ops) : ops[j] = Entry(SubSeq(s, c[j - 1] + 1, c[j]))

\* What is shown for the opcode of script s that reaches from place a + 1 to b.
ShownOp(s, a, b) == IF IsPush(s[a + 1]) THEN SubSeq(s, a + 2, b) ELSE Unset

\* The script of an input is shown whole, or as the data of its first two opcodes.
SigShown(txin) ==
    IF prog = "parse_txin" \/ IsCoinbase(txin) THEN out.sig = txin.sc
    ELSE \E n \in 1 .. 2 :
             /\ HasOps(txin.sc, n)
             /\ LET c == CutsOf(txin.sc, n)
                IN  /\ out.sig = ShownOp(txin.sc, 0, c[1])
                    /\ out.pubkey = IF n = 2 THEN ShownOp(txin.sc, c[1], c[2]) ELSE Unset

\* What has been read is the transaction's.
AsWritten ==
    /\ out.version \in {Unset, tx.version}
    /\ out.vin_sz \in {Unset, Len(tx.vin)}
    /\ out.vout_sz \in {Unset, Len(tx.vout)}
    /\ out.lock_time \in {Unset, tx.lock_time}
    /\ \A j \in 1 .. k : /\ out.txouts[j].value = tx.vout[j].value
                         /\ out.txouts[j].sc = tx.vout[j].sc
                         /\ prog = "parse_txout_script_pbk" =>
                                Parsed(out.txouts[j].ops, tx.vout[j].sc)
    /\ tx.vin # <<>> =>
           /\ out.pre_txid \in {Unset, tx.vin[1].pre_txid}
           /\ out.pre_tx_inx \in {Unset, tx.vin[1].pre_tx_inx}
           /\ out.sc_size \in {Unset, Len(tx.vin[1].sc)}
           /\ out.seq_no \in {Unset, tx.vin[1].seq_no}
           /\ out.seq_no # Unset => SigShown(tx.vin[1])

\* The count of the transaction that a parser reads as f.
Count(f) == CASE f = "vin_sz" -> Len(tx.vin)
              [] f = "vout_sz" -> Len(tx.vout)
              [] f = "sc_size" -> Len(tx.vin[1].sc)

\* Where a parser is about to read a count, kyk_unpack_varint finds the count that
\* kyk_pack_varint put there, says how many bytes it took, and has not read past the
\* last byte of the file; and encode_btc_varint chooses the same width for it.
VarintsAgree ==
    \A f \in Varints : At(f) /\ Readable =>
        LET u == UnpackVarint(rest \o [j \in 1 .. 8 |-> 0])
        IN  /\ u.val = Count(f)
            /\ u.size <= Len(rest)
            /\ u.size = EncodeBtcVarint(u.val).width + 1

\* kyk_tx_inc_ser has written what kyk_seri_tx writes, although it packs the sequence
\* number the other way round, and every field of a transaction a parser can read is
\* shown as it was written, the scripts of its outputs opcode by opcode; no read passes
\* the end of the file and no write the end of an array on the way, and the last of the
\* parsers leaves nothing of the file unread.
ReadsBack ==
    /\ VarintsAgree
    /\ pc = 1 /\ fault = "none" /\ Created(tx) => rest = SeriTx(tx)
    /\ Readable =>
           /\ AsWritten
           /\ fault \notin {"short", "overrun"}
           /\ prog = "parse_txout_script_pbk" /\ pc > Len(Text[prog]) => rest = <<>>
==============================================================================
