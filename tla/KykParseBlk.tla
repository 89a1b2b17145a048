---------------------------- MODULE KykParseBlk ----------------------------
(***************************************************************************)
(* The block file reader of parse_block.c.  main reads a block file block by  *)
(* block into one struct kyk_block: magic number, size, a header, the number  *)
(* of transactions; the transactions are skipped with fseek.                  *)
(*                                                                         *)
(* kyk_fread reads a four-byte field and unpacks it in place, but beej_unpack *)
(* stores an unsigned long there, eight bytes on the 64-bit systems the       *)
(* makefile builds for: every such read also zeroes the four bytes behind its *)
(* field.  Memory is therefore one cell per field, and a read disturbs the    *)
(* cell behind its own.  A varint is read over what its eight bytes held.     *)
(*                                                                         *)
(* Files hold whole blocks of one transaction or more.  Off the end of one,   *)
(* fread leaves the memory as it was, and the way back leads into the middle  *)
(* of a block: from there on any bytes may be read.                           *)
(***************************************************************************)
EXTENDS Integers, Sequences

CONSTANTS Files,        \* block files: sequences of blocks
          BlockCounts,  \* values of -n
          Unknown,      \* values of a counter that nobody has set
          Words,        \* values of a four-byte field
          Hashes,       \* values of a hash, most significant byte first
          Byte,         \* the values of a byte (256)
          Junk          \* bytes that are no field's

\* The first bytes of varints of two, four and eight bytes: 0xfd, 0xfe and 0xff.
Tag2 == Byte - 3
Tag4 == Byte - 2
Tag8 == Byte - 1

\* The values of two, four and eight bytes.
Short == Byte * Byte
Long == Short * Short
Quad == Long * Long

Counts == 0 .. Quad - 1

HashBytes == [hash : Hashes, reversed : BOOLEAN]

\* A hash as the file has it, and as it is printed.
Stored(h) == [hash |-> h, reversed |-> TRUE]
Shown(h) == [hash |-> h, reversed |-> FALSE]

Blocks == [magic : Words, version : Words, pre : Hashes, mrk : Hashes, tts : Words,
           bts : Words, nonce : Words, count : Counts, txs : Nat \ {0}]

ASSUME FilesAssumption ==
    /\ Byte \in Nat /\ Byte > 3
    /\ Words \subseteq Nat
    /\ Files \subseteq Seq(Blocks)
    /\ BlockCounts \subseteq Nat
    /\ Unknown \subseteq Counts
    /\ Junk \notin Nat \cup HashBytes

VARIABLES file,  \* the file read
          n,     \* block_count
          i,     \* blocks printed
          pos,   \* the place in the file: [blk, off]
          eof,   \* the stream's end-of-file indicator
          mem,   \* blk and the header blk.hd points to
          len,   \* bytes of the block read by kyk_parse_blk, after the size
          pc     \* the next statement

vars == <<file, n, i, pos, eof, mem, len, pc>>

------------------------------------------------------------------------------
(* The file. *)

VarintLen(c) == IF c < Tag2 THEN 1 ELSE IF c < Short THEN 3 ELSE IF c < Long THEN 5 ELSE 9

\* The size a block is stored with: magic number and size are not counted.
BlkSize(b) == 80 + VarintLen(b.count) + b.txs

\* The first byte of a varint.
VarintHead(c) == CASE VarintLen(c) = 1 -> c
                   [] VarintLen(c) = 3 -> Tag2
                   [] VarintLen(c) = 5 -> Tag4
                   [] OTHER -> Tag8

\* Where the fields of a block are, from its first byte.
Offset == [magic |-> 0, size |-> 4, version |-> 8, pre |-> 12, mrk |-> 44,
           tts |-> 76, bts |-> 80, nonce |-> 84, count |-> 88]

AtEnd == pos.blk > Len(file)

\* The place does not come from a whole number of blocks.
Lost == pos.blk = 0

\* The bytes of field f of block b.
FieldBytes(b, f) ==
    IF f = "size" THEN BlkSize(b) ELSE IF f \in {"pre", "mrk"} THEN Stored(b[f]) ELSE b[f]

\* The bytes at the place the stream is at, taken for field f.
Bytes(f) == IF pos.off = Offset[f] THEN FieldBytes(file[pos.blk], f) ELSE Junk

\* The place s bytes on.
Ahead(s) ==
    IF pos.off + s = 8 + BlkSize(file[pos.blk])
    THEN [blk |-> pos.blk + 1, off |-> 0]
    ELSE [pos EXCEPT !.off = @ + s]

------------------------------------------------------------------------------
(* Memory: blk's own fields, then those of the header in the order they lie in. *)

Cells == {"magic", "size", "hd", "version", "pre", "mrk", "tts", "bts", "nonce", "count"}

HeaderCells == {"version", "pre", "mrk", "tts", "bts", "nonce"}

Behind == [magic |-> "size", size |-> "hd", version |-> "pre", tts |-> "bts", bts |-> "nonce"]

\* *L = unpacku32(buf, bytodr): v, and four bytes of zeros behind it.  Behind nonce, the
\* last field of the header, they lie outside the 80 bytes malloc gave; no read of the
\* program's looks there, and what else the heap keeps there is not modelled.
Unpack(f, v) ==
    [c \in Cells |->
        IF c = f THEN v
        ELSE IF f \in DOMAIN Behind /\ c = Behind[f]
             THEN IF c \in {"hd", "pre"} THEN Junk ELSE 0
        ELSE mem[c]]

\* kyk_reverse.
Reversed(v) == IF v = Junk THEN Junk ELSE [v EXCEPT !.reversed = ~@]

\* The statements of kyk_parse_blk and kyk_parse_blk_header, in their order.
After(f) == [magic |-> "size", size |-> "alloc", alloc |-> "version", version |-> "pre",
             pre |-> "mrk", mrk |-> "tts", tts |-> "bts", bts |-> "nonce",
             nonce |-> "count"][f]

------------------------------------------------------------------------------
Init ==
    /\ file \in Files
    /\ n \in BlockCounts
    /\ i = 0
    /\ pos = [blk |-> 1, off |-> 0]
    /\ eof = FALSE
    /\ \E c \in Unknown : mem = [x \in Cells |-> IF x = "count" THEN c ELSE Junk]
    /\ len = 0
    /\ pc = "head"

\* The head of main's loop.
NextBlk ==
    /\ pc = "head"
    /\ ~eof
    /\ i <= n
    /\ pc' = "magic"
    /\ len' = 80
    /\ UNCHANGED <<file, n, i, pos, eof, mem>>

Stop ==
    /\ pc = "head"
    /\ eof \/ i > n
    /\ pc' = "done"
    /\ UNCHANGED <<file, n, i, pos, eof, mem, len>>

\* kyk_fread(..., "<L"): at the end of the file the old bytes are unpacked again.
ReadWord(f) ==
    /\ pc = f
    /\ ~Lost
    /\ mem' = Unpack(f, IF AtEnd THEN mem[f] ELSE Bytes(f))
    /\ pos' = IF AtEnd THEN pos ELSE Ahead(4)
    /\ eof' = (eof \/ AtEnd)
    /\ pc' = After(f)
    /\ UNCHANGED <<file, n, i, len>>

Alloc ==
    /\ pc = "alloc"
    /\ mem' = [c \in Cells |-> IF c = "hd" THEN "header"
                               ELSE IF c \in HeaderCells THEN Junk ELSE mem[c]]
    /\ pc' = After("alloc")
    /\ UNCHANGED <<file, n, i, pos, eof, len>>

\* Mutated: the Merkle root is not reversed.
Bad_ReadHash(f) ==
    /\ pc = f
    /\ mem' = [mem EXCEPT ![f] = LET v == IF AtEnd THEN @ ELSE Bytes(f)
                                 IN  IF f = "pre" THEN Reversed(v) ELSE v]
    /\ pos' = IF AtEnd THEN pos ELSE Ahead(32)
    /\ eof' = (eof \/ AtEnd)
    /\ pc' = After(f)
    /\ UNCHANGED <<file, n, i, len>>

\* fread and kyk_reverse.
ReadHash(f) ==
    /\ pc = f
    /\ mem' = [mem EXCEPT ![f] = Reversed(IF AtEnd THEN @ ELSE Bytes(f))]
    /\ pos' = IF AtEnd THEN pos ELSE Ahead(32)
    /\ eof' = (eof \/ AtEnd)
    /\ pc' = After(f)
    /\ UNCHANGED <<file, n, i, len>>

\* kyk_varint_fread: of the eight bytes of old, one, four or eight are set.
Overwritten(old, head, value) ==
    IF head < Tag2 THEN (old \div Byte) * Byte + head
    ELSE IF head = Tag2 THEN (old \div Long) * Long + (value % Short)
    ELSE IF head = Tag4 THEN value % Long
    ELSE value

ReadCount ==
    /\ pc = "count"
    /\ LET old == mem["count"]
           c   == IF AtEnd THEN old ELSE Bytes("count")
           fd  == IF AtEnd THEN old % Byte ELSE VarintHead(c)
       IN  /\ mem' = [mem EXCEPT !["count"] = Overwritten(old, fd, c)]
           /\ len' = IF AtEnd THEN len ELSE len + VarintLen(c)
           /\ pos' = IF AtEnd THEN pos ELSE Ahead(VarintLen(c))
    /\ eof' = (eof \/ AtEnd)
    /\ pc' = "seek"
    /\ UNCHANGED <<file, n, i>>

\* Mutated: a negative place is taken.
Bad_Seek ==
    /\ pc = "seek"
    /\ LET s == mem["size"] - len
       IN  pos' = IF AtEnd THEN [pos EXCEPT !.off = @ + s] ELSE Ahead(s)
    /\ eof' = FALSE
    /\ pc' = "print"
    /\ UNCHANGED <<file, n, i, mem, len>>

\* Mutated: the skip leaves the end-of-file indicator set, as lseek on the descriptor would.
Bad_SeekKeepsEof ==
    /\ pc = "seek"
    /\ LET s == mem["size"] - len
       IN  pos' = IF ~AtEnd THEN Ahead(s)
                  ELSE IF s >= 0 \/ file = <<>> THEN pos
                  ELSE [blk |-> 0, off |-> 0]
    /\ pc' = "print"
    /\ UNCHANGED <<file, n, i, mem, len, eof>>

\* fseek(fp, blk_size - len): a place before the file's first byte is refused, and any
\* other clears the end-of-file indicator.
Seek ==
    /\ pc = "seek"
    /\ LET s == mem["size"] - len
       IN  IF ~AtEnd THEN pos' = Ahead(s) /\ eof' = FALSE
           ELSE IF s >= 0 THEN pos' = pos /\ eof' = FALSE
           ELSE IF file = <<>> THEN UNCHANGED <<pos, eof>>
           ELSE pos' = [blk |-> 0, off |-> 0] /\ eof' = FALSE
    /\ pc' = "print"
    /\ UNCHANGED <<file, n, i, mem, len>>

\* All of kyk_parse_blk, from a place in the middle of a block.
LostBlk ==
    /\ pc = "magic"
    /\ Lost
    /\ \E c \in Unknown :
           mem' = [x \in Cells |-> IF x = "count" THEN c ELSE IF x = "hd" THEN "header" ELSE Junk]
    /\ eof' \in BOOLEAN
    /\ pc' = "print"
    /\ UNCHANGED <<file, n, i, pos, len>>

\* Mutated: what is read past the end of the file is not counted.
Bad_PrintBlk ==
    /\ pc = "print"
    /\ i' = IF Lost THEN i ELSE i + 1
    /\ pc' = "head"
    /\ UNCHANGED <<file, n, pos, eof, mem, len>>

PrintBlk ==
    /\ pc = "print"
    /\ i' = i + 1
    /\ pc' = "head"
    /\ UNCHANGED <<file, n, pos, eof, mem, len>>

Closed == pc = "done" /\ UNCHANGED vars

Step ==
    \/ NextBlk \/ Stop \/ Alloc \/ ReadCount \/ Seek \/ LostBlk \/ PrintBlk
    \/ \E f \in {"magic", "size", "version", "tts", "bts", "nonce"} : ReadWord(f)
    \/ \E f \in {"pre", "mrk"} : ReadHash(f)

Next == Step \/ Closed

Spec == Init /\ [][Next]_vars

\* The program runs.
FairSpec == Spec /\ WF_vars(Step)

------------------------------------------------------------------------------
(* Properties *)

\* The type invariant.
TypeOK ==
    /\ file \in Files
    /\ n \in BlockCounts
    /\ i \in Nat
    /\ pos \in [blk : Nat, off : Nat]
    /\ eof \in BOOLEAN
    /\ DOMAIN mem = Cells
    /\ \A c \in Cells \ {"hd", "pre", "mrk", "count"} : mem[c] \in Nat \cup {Junk}
    /\ \A c \in {"pre", "mrk"} : mem[c] \in HashBytes \cup {Junk}
    /\ mem["hd"] \in {"header", Junk}
    /\ mem["count"] \in Counts
    /\ len \in Nat
    /\ pc \in (Cells \ {"hd"}) \cup {"head", "alloc", "seek", "print", "done"}

\* Memory shows block b: its fields, and its hashes the way round they are printed.
Shows(b) ==
    /\ mem["size"] = BlkSize(b)
    /\ \A f \in {"magic", "version", "tts", "bts", "nonce"} : mem[f] = b[f]
    /\ \A f \in {"pre", "mrk"} : mem[f] = Shown(b[f])

\* The header is read and printed through the pointer malloc gave, which the read of the
\* block size disturbs.
HeaderPointerKept == pc \in HeaderCells \cup {"count", "seek", "print"} => mem["hd"] = "header"

\* What is printed i-th is the i-th block, although every four-byte read also stores
\* into the next field and each block is found by skipping the one before.
BlocksInOrder ==
    /\ HeaderPointerKept
    /\ pc = "print" /\ i < Len(file) => Shows(file[i + 1])

\* No read that fails ends main's loop.  After the last block it goes round once more:
\* every read fails and sets the end-of-file indicator, the failed reads store zeros behind
\* their fields, the size is such a field, and the skip of 0 - 80 bytes clears the indicator
\* feof would have seen.  What is printed is a block the file does not have: the magic number
\* of the last one and a size, bits and nonce of zero.
BlockBehindTheEnd ==
    file # <<>> =>
        /\ pc = "print" /\ i = Len(file) =>
               /\ ~eof
               /\ mem["magic"] = file[i].magic
               /\ \A f \in {"size", "bts", "nonce"} : mem[f] = 0
        /\ pc = "done" => i > n \/ i > Len(file) + 1

\* main ends, whatever the file, with or without an end of file seen.
Ends == <>(pc = "done")

\* "Transaction counter": the number of transactions printed for a block of the file
\* is that block's.
CounterAsStored == pc = "print" /\ i < Len(file) => mem["count"] = file[i + 1].count
==============================================================================
