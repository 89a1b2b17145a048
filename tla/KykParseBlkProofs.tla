------------------------- MODULE KykParseBlkProofs --------------------------
(***************************************************************************)
(* The block file reader, for every file of whole blocks: the blocks come out *)
(* in order and undamaged, the header is read through a pointer that is good, *)
(* and the loop takes one block more than the file has.                       *)
(***************************************************************************)
EXTENDS KykParseBlk, TLAPS

WordFields == {"magic", "size", "version", "tts", "bts", "nonce"}

HashFields == {"pre", "mrk"}

Statements == (Cells \ {"hd"}) \cup {"head", "alloc", "seek", "print", "done"}

\* Where the stream is in a block before each statement up to the counter.
Place == [head |-> 0, magic |-> 0, size |-> 4, alloc |-> 8, version |-> 8, pre |-> 12,
          mrk |-> 44, tts |-> 76, bts |-> 80, nonce |-> 84, count |-> 88]

\* The fields read before each statement.
Got == [head    |-> {},
        magic   |-> {},
        size    |-> {"magic"},
        alloc   |-> {"magic", "size"},
        version |-> {"magic", "size"},
        pre     |-> {"magic", "size", "version"},
        mrk     |-> {"magic", "size", "version", "pre"},
        tts     |-> {"magic", "size", "version", "pre", "mrk"},
        bts     |-> {"magic", "size", "version", "pre", "mrk", "tts"},
        nonce   |-> {"magic", "size", "version", "pre", "mrk", "tts", "bts"},
        count   |-> WordFields \cup HashFields,
        seek    |-> WordFields \cup HashFields,
        print   |-> WordFields \cup HashFields,
        done    |-> {}]

\* What memory holds of field f once it has been read.
ShownField(b, f) ==
    IF f = "size" THEN BlkSize(b) ELSE IF f \in HashFields THEN Shown(b[f]) ELSE b[f]

------------------------------------------------------------------------------
(* The inductive invariant. *)

Shapes ==
    /\ file \in Seq(Blocks)
    /\ i \in Nat
    /\ mem = [c \in Cells |-> mem[c]]
    /\ pc \in Statements

\* In the file: the place follows the statements, and what has been read is kept.
InFile ==
    i < Len(file) =>
        /\ ~eof
        /\ pc \in DOMAIN Place => pos = [blk |-> i + 1, off |-> Place[pc]]
        /\ pc \in DOMAIN Place \ {"head"} => len = 80
        /\ pc = "seek" => /\ len = 80 + VarintLen(file[i + 1].count)
                          /\ pos = [blk |-> i + 1, off |-> 8 + len]
        /\ pc = "print" => pos = [blk |-> i + 2, off |-> 0]
        /\ pc = "done" => i > n
        /\ \A f \in Got[pc] : mem[f] = ShownField(file[i + 1], f)

\* The fields the failed reads have stored zeros in before each statement.
Zeros == [head |-> {}, magic |-> {}, size |-> {"size"}, alloc |-> {"size"},
          version |-> {"size"}, pre |-> {"size"}, mrk |-> {"size"}, tts |-> {"size"},
          bts |-> {"size", "bts"}, nonce |-> {"size", "bts", "nonce"},
          count |-> {"size", "bts", "nonce"}, seek |-> {"size", "bts", "nonce"},
          print |-> {"size", "bts", "nonce"}, done |-> {}]

\* Right behind the last block: its magic number stays, the size is read as zero.
AtFileEnd ==
    i = Len(file) =>
        /\ pc \notin {"print", "done"} => pos = [blk |-> i + 1, off |-> 0]
        /\ pc \in {"head", "magic"} => ~eof
        /\ pc \notin {"head", "magic"} /\ ~Lost => eof \/ pc = "done"
        /\ pc \notin {"head", "print", "done"} => len = 80
        /\ \A f \in Zeros[pc] : mem[f] = 0
        /\ file # <<>> => mem["magic"] = file[i].magic
        /\ pc = "print" => IF file = <<>> THEN pos = [blk |-> 1, off |-> 0] /\ eof
                           ELSE Lost /\ ~eof
        /\ pc = "done" => i > n

Beyond ==
    i > Len(file) =>
        /\ pc \in {"head", "magic", "print", "done"}
        /\ IF file = <<>> THEN pos = [blk |-> 1, off |-> 0] /\ eof /\ pc \in {"head", "done"}
           ELSE /\ Lost
                /\ pc = "head" /\ i = Len(file) + 1 => ~eof
                /\ pc = "done" => i > n \/ i > Len(file) + 1

Inv == Shapes /\ InFile /\ AtFileEnd /\ Beyond /\ HeaderPointerKept

------------------------------------------------------------------------------
(* A block is longer than its header and counter. *)
LEMMA BlockLength ==
    ASSUME NEW b \in Blocks
    PROVE  /\ VarintLen(b.count) \in {1, 3, 5, 9}
           /\ b.txs \in Nat /\ b.txs > 0
           /\ BlkSize(b) = 80 + VarintLen(b.count) + b.txs
           /\ BlkSize(b) \in Nat
<1>1. VarintLen(b.count) \in {1, 3, 5, 9}
  BY DEF VarintLen
<1>2. b.txs \in Nat /\ b.txs > 0
  BY DEF Blocks
<1>3. BlkSize(b) = 80 + VarintLen(b.count) + b.txs
  BY DEF BlkSize
<1> QED BY <1>1, <1>2, <1>3

(* Within a block the stream moves on by what is read. *)
LEMMA AheadInside ==
    ASSUME file \in Seq(Blocks),
           NEW k \in 1 .. Len(file), NEW o \in Nat, NEW s \in Nat,
           pos = [blk |-> k, off |-> o], o + s < 8 + BlkSize(file[k])
    PROVE  Ahead(s) = [blk |-> k, off |-> o + s]
<1>1. file[k] \in Blocks
  OBVIOUS
<1>2. BlkSize(file[k]) \in Nat
  BY <1>1, BlockLength
<1>3. pos.blk = k /\ pos.off = o
  OBVIOUS
<1>4. ~(pos.off + s = 8 + BlkSize(file[pos.blk]))
  BY <1>2, <1>3
<1>5. Ahead(s) = [pos EXCEPT !.off = @ + s]
  BY <1>4 DEF Ahead
<1> QED BY <1>3, <1>5

(* At the block's end it is at the start of the next. *)
LEMMA AheadOut ==
    ASSUME NEW k, NEW o, NEW s,
           pos = [blk |-> k, off |-> o], o + s = 8 + BlkSize(file[k])
    PROVE  Ahead(s) = [blk |-> k + 1, off |-> 0]
<1>1. pos.blk = k /\ pos.off = o
  OBVIOUS
<1> QED BY <1>1 DEF Ahead

(* The statements that read a four-byte field: each starts where the one before ended,  *)
(* and what it stores behind its field has not been read yet.                           *)
LEMMA WordStatements ==
    ASSUME NEW f \in WordFields
    PROVE  /\ f \in Cells /\ f \in Statements /\ f \in DOMAIN Place /\ f # "hd"
           /\ Offset[f] = Place[f]
           /\ After(f) \in DOMAIN Place \ {"head", "magic"}
           /\ After(f) \in Statements
           /\ Place[f] \in 0 .. 84
           /\ Place[After(f)] = Place[f] + 4
           /\ Got[After(f)] = Got[f] \cup {f}
           /\ Got[f] \subseteq Cells /\ "hd" \notin Got[f]
           /\ Zeros[After(f)] =
                  Zeros[f] \cup ((IF f \in DOMAIN Behind THEN {Behind[f]} ELSE {}) \ {"hd", "pre"})
           /\ Zeros[f] \subseteq Cells
           /\ f \in DOMAIN Behind => Behind[f] \notin {f, "magic"}
           /\ f \in DOMAIN Behind => Behind[f] \notin Got[f] \cup {f}
<1>1. CASE f = "magic"
  BY <1>1 DEF Cells, Statements, Place, Offset, After, Got, Zeros, Behind
<1>2. CASE f = "size"
  BY <1>2 DEF Cells, Statements, Place, Offset, After, Got, Zeros, Behind
<1>3. CASE f = "version"
  BY <1>3 DEF Cells, Statements, Place, Offset, After, Got, Zeros, Behind
<1>4. CASE f = "tts"
  BY <1>4 DEF Cells, Statements, Place, Offset, After, Got, Zeros, Behind
<1>5. CASE f = "bts"
  BY <1>5 DEF Cells, Statements, Place, Offset, After, Got, Zeros, Behind
<1>6. CASE f = "nonce"
  BY <1>6 DEF Cells, Statements, Place, Offset, After, Got, Zeros, Behind, WordFields, HashFields
<1> QED BY <1>1, <1>2, <1>3, <1>4, <1>5, <1>6 DEF WordFields

(* The statements that read a hash. *)
LEMMA HashStatements ==
    ASSUME NEW f \in HashFields
    PROVE  /\ f \in Cells /\ f \in Statements /\ f \in DOMAIN Place
           /\ Offset[f] = Place[f]
           /\ After(f) \in DOMAIN Place \ {"head", "magic", "size", "alloc", "version"}
           /\ After(f) \in Statements
           /\ Place[f] \in 0 .. 44
           /\ Place[After(f)] = Place[f] + 32
           /\ Got[After(f)] = Got[f] \cup {f}
           /\ f \notin Got[f]
           /\ Zeros[After(f)] = Zeros[f] /\ Zeros[f] = {"size"}
<1>1. CASE f = "pre"
  BY <1>1 DEF Cells, Statements, Place, Offset, After, Got, Zeros
<1>2. CASE f = "mrk"
  BY <1>2 DEF Cells, Statements, Place, Offset, After, Got, Zeros
<1> QED BY <1>1, <1>2 DEF HashFields

------------------------------------------------------------------------------
(* The inductive invariant holds at first. *)
LEMMA InitInv == Init => Inv
<1> SUFFICES ASSUME Init PROVE Inv
  OBVIOUS
<1>1. file \in Seq(Blocks)
  BY FilesAssumption DEF Init, FilesAssumption
<1>2. Shapes
  BY <1>1 DEF Init, Shapes, Statements
<1>3. InFile
  BY DEF Init, InFile, Place, Got
<1>4. AtFileEnd /\ Beyond
  BY <1>1 DEF Init, AtFileEnd, Beyond, Lost, Zeros
<1>5. HeaderPointerKept
  BY DEF Init, HeaderPointerKept, HeaderCells
<1> QED BY <1>2, <1>3, <1>4, <1>5 DEF Inv

(* Reading a four-byte field keeps the invariant. *)
LEMMA ReadWordInv ==
    ASSUME Inv, NEW f \in WordFields, ReadWord(f)
    PROVE  Inv'
<1> DEFINE v == IF AtEnd THEN mem[f] ELSE Bytes(f)
<1>0. /\ pc = f /\ ~Lost /\ pc' = After(f)
      /\ UNCHANGED <<file, n, i, len>>
      /\ pos' = IF AtEnd THEN pos ELSE Ahead(4)
      /\ eof' = (eof \/ AtEnd)
  BY DEF ReadWord
<1>1. mem' = Unpack(f, v)
  BY DEF ReadWord
<1> HIDE DEF v
<1>2. /\ mem'[f] = v
      /\ \A c \in Cells : c # f /\ ~(f \in DOMAIN Behind /\ c = Behind[f]) => mem'[c] = mem[c]
      /\ mem' = [c \in Cells |-> mem'[c]]
  BY <1>1, WordStatements DEF Unpack
<1>3. file \in Seq(Blocks) /\ i \in Nat
  BY DEF Inv, Shapes
<1>4. Shapes'
  BY <1>0, <1>2, <1>3, WordStatements DEF Shapes
<1>5. InFile'
  <2> SUFFICES ASSUME i < Len(file) PROVE InFile'
    BY <1>0 DEF InFile
  <2> DEFINE b == file[i + 1]
  <2>1. /\ ~eof
        /\ pos = [blk |-> i + 1, off |-> Place[f]]
        /\ len = 80
        /\ \A g \in Got[f] : mem[g] = ShownField(b, g)
    BY <1>0, WordStatements DEF Inv, InFile, WordFields
  <2>2. i + 1 \in 1 .. Len(file) /\ b \in Blocks
    BY <1>3
  <2>3. ~AtEnd
    BY <1>3, <2>1, <2>2 DEF AtEnd
  <2>4. pos' = [blk |-> i + 1, off |-> Place[f] + 4]
    <3>1. PICK z \in Nat : z = BlkSize(b) /\ z > 80
      BY <2>2, BlockLength
    <3>2. PICK p \in 0 .. 84 : p = Place[f]
      BY WordStatements
    <3>3. p \in Nat /\ p + 4 < 8 + z
      BY <3>1
    <3>4. Place[f] \in Nat /\ Place[f] + 4 < 8 + BlkSize(b)
      BY <3>1, <3>2, <3>3
    <3>5. Ahead(4) = [blk |-> i + 1, off |-> Place[f] + 4]
      BY <1>3, <2>1, <2>2, <3>4, AheadInside
    <3> QED BY <1>0, <2>3, <3>5
  <2>5. v = ShownField(b, f)
    BY <2>1, <2>3, WordStatements DEF v, Bytes, FieldBytes, ShownField, WordFields, HashFields
  <2>6. \A g \in Got[After(f)] : mem'[g] = ShownField(b, g)
    BY <1>2, <2>1, <2>5, WordStatements
  <2>7. /\ After(f) \in DOMAIN Place \ {"head", "magic"}
        /\ Place[After(f)] = Place[f] + 4
    BY WordStatements
  <2>8. After(f) \notin {"seek", "print", "done"}
    BY <2>7 DEF Place
  <2> QED BY <1>0, <2>1, <2>3, <2>4, <2>6, <2>7, <2>8 DEF InFile
<1>6. AtFileEnd'
  <2> SUFFICES ASSUME i = Len(file) PROVE AtFileEnd'
    BY <1>0 DEF AtFileEnd
  <2>1. pos = [blk |-> i + 1, off |-> 0] /\ len = 80
    BY <1>0 DEF Inv, AtFileEnd, WordFields
  <2>2. AtEnd
    BY <1>3, <2>1 DEF AtEnd
  <2>3. After(f) \in DOMAIN Place \ {"head", "magic"}
    BY WordStatements
  <2>4. After(f) \notin {"head", "magic", "print", "done"}
    BY <2>3 DEF Place
  <2>5. \A g \in Zeros[f] : mem[g] = 0
    BY <1>0 DEF Inv, AtFileEnd
  <2>6. \A g \in Zeros[After(f)] : mem'[g] = 0
    <3> SUFFICES ASSUME NEW g \in Zeros[After(f)] PROVE mem'[g] = 0
      OBVIOUS
    <3>1. CASE f \in DOMAIN Behind /\ g = Behind[f]
      <4>1. g \notin {"hd", "pre"} /\ g \in Cells /\ g # f
        BY <3>1, WordStatements DEF Cells, Zeros, Behind, After, WordFields
      <4> QED BY <1>1, <3>1, <4>1 DEF Unpack
    <3>2. CASE ~(f \in DOMAIN Behind /\ g = Behind[f])
      <4>1. g \in Zeros[f] /\ g \in Cells
        BY <3>2, WordStatements
      <4>2. CASE g = f
        BY <1>2, <2>2, <2>5, <4>1, <4>2 DEF v
      <4>3. CASE g # f
        BY <1>2, <2>5, <3>2, <4>1, <4>3
      <4> QED BY <4>2, <4>3
    <3> QED BY <3>1, <3>2
  <2>7. mem'["magic"] = mem["magic"]
    <3>1. CASE f = "magic"
      BY <1>2, <2>2, <3>1 DEF v
    <3>2. CASE f # "magic"
      BY <1>2, <3>2, WordStatements DEF Cells
    <3> QED BY <3>1, <3>2
  <2>8. file # <<>> => mem["magic"] = file[i].magic
    BY DEF Inv, AtFileEnd
  <2> QED BY <1>0, <2>1, <2>2, <2>4, <2>6, <2>7, <2>8 DEF AtFileEnd
<1>7. Beyond'
  <2> SUFFICES ASSUME i > Len(file) PROVE FALSE
    BY <1>0 DEF Beyond
  <2> QED BY <1>0 DEF Inv, Beyond, WordFields
<1>8. HeaderPointerKept'
  <2>1. CASE f \in {"magic", "size"}
    BY <1>0, <2>1 DEF HeaderPointerKept, After, HeaderCells
  <2>2. CASE f \notin {"magic", "size"}
    <3>1. mem["hd"] = "header"
      BY <1>0, <2>2 DEF Inv, HeaderPointerKept, HeaderCells, WordFields
    <3>2. ~(f \in DOMAIN Behind /\ "hd" = Behind[f]) /\ f # "hd"
      BY <2>2 DEF Behind, WordFields
    <3> QED BY <1>2, <3>1, <3>2 DEF HeaderPointerKept, Cells
  <2> QED BY <2>1, <2>2
<1> QED BY <1>4, <1>5, <1>6, <1>7, <1>8 DEF Inv

(* Reading a hash keeps the invariant. *)
LEMMA ReadHashInv ==
    ASSUME Inv, NEW f \in HashFields, ReadHash(f)
    PROVE  Inv'
<1> DEFINE v == Reversed(IF AtEnd THEN mem[f] ELSE Bytes(f))
<1>0. /\ pc = f /\ pc' = After(f)
      /\ UNCHANGED <<file, n, i, len>>
      /\ pos' = IF AtEnd THEN pos ELSE Ahead(32)
      /\ eof' = (eof \/ AtEnd)
  BY DEF ReadHash
<1>1. mem' = [mem EXCEPT ![f] = v]
  BY DEF ReadHash
<1> HIDE DEF v
<1>2. /\ mem'[f] = v
      /\ \A c \in Cells : c # f => mem'[c] = mem[c]
      /\ mem' = [c \in Cells |-> mem'[c]]
  BY <1>1, HashStatements DEF Inv, Shapes
<1>3. file \in Seq(Blocks) /\ i \in Nat
  BY DEF Inv, Shapes
<1>4. Shapes'
  BY <1>0, <1>2, <1>3, HashStatements DEF Shapes
<1>5. InFile'
  <2> SUFFICES ASSUME i < Len(file) PROVE InFile'
    BY <1>0 DEF InFile
  <2> DEFINE b == file[i + 1]
  <2>1. /\ ~eof
        /\ pos = [blk |-> i + 1, off |-> Place[f]]
        /\ len = 80
        /\ \A g \in Got[f] : mem[g] = ShownField(b, g)
    BY <1>0, HashStatements DEF Inv, InFile, HashFields
  <2>2. i + 1 \in 1 .. Len(file) /\ b \in Blocks
    BY <1>3
  <2>3. ~AtEnd
    BY <1>3, <2>1, <2>2 DEF AtEnd
  <2>4. pos' = [blk |-> i + 1, off |-> Place[f] + 32]
    <3>1. PICK z \in Nat : z = BlkSize(b) /\ z > 80
      BY <2>2, BlockLength
    <3>2. PICK p \in 0 .. 44 : p = Place[f]
      BY HashStatements
    <3>3. p \in Nat /\ p + 32 < 8 + z
      BY <3>1
    <3>4. Place[f] \in Nat /\ Place[f] + 32 < 8 + BlkSize(b)
      BY <3>1, <3>2, <3>3
    <3>5. Ahead(32) = [blk |-> i + 1, off |-> Place[f] + 32]
      BY <1>3, <2>1, <2>2, <3>4, AheadInside
    <3> QED BY <1>0, <2>3, <3>5
  <2>5. v = ShownField(b, f)
    <3>1. Bytes(f) = Stored(b[f])
      BY <2>1, HashStatements DEF Bytes, FieldBytes, HashFields
    <3>2. Reversed(Stored(b[f])) = Shown(b[f])
      <4>1. CASE Stored(b[f]) # Junk
        BY <4>1 DEF Reversed, Stored, Shown
      <4>2. CASE Stored(b[f]) = Junk
        <5>1. b[f] \in Hashes
          BY <2>2 DEF Blocks, HashFields
        <5>2. Stored(b[f]) \in HashBytes
          BY <5>1 DEF Stored, HashBytes
        <5> QED BY <4>2, <5>2, FilesAssumption DEF FilesAssumption
      <4> QED BY <4>1, <4>2
    <3> QED BY <2>3, <3>1, <3>2 DEF v, ShownField, HashFields
  <2>6. \A g \in Got[After(f)] : mem'[g] = ShownField(b, g)
    <3>1. Got[f] \subseteq Cells
      BY DEF Got, Cells, HashFields
    <3> QED BY <1>2, <2>1, <2>5, <3>1, HashStatements
  <2>7. /\ After(f) \in DOMAIN Place \ {"head", "magic"}
        /\ Place[After(f)] = Place[f] + 32
    BY HashStatements
  <2>8. After(f) \notin {"seek", "print", "done"}
    BY <2>7 DEF Place
  <2> QED BY <1>0, <2>1, <2>3, <2>4, <2>6, <2>7, <2>8 DEF InFile
<1>6. AtFileEnd'
  <2> SUFFICES ASSUME i = Len(file) PROVE AtFileEnd'
    BY <1>0 DEF AtFileEnd
  <2>1. pos = [blk |-> i + 1, off |-> 0] /\ len = 80 /\ mem["size"] = 0
    BY <1>0, HashStatements DEF Inv, AtFileEnd, HashFields
  <2>2. AtEnd
    BY <1>3, <2>1 DEF AtEnd
  <2>3. After(f) \in DOMAIN Place \ {"head", "magic"}
    BY HashStatements
  <2>4. After(f) \notin {"head", "magic", "print", "done"}
    BY <2>3 DEF Place
  <2>5. \A g \in Zeros[After(f)] : mem'[g] = 0
    BY <1>2, <2>1, HashStatements DEF HashFields, Cells
  <2>6. mem'["magic"] = mem["magic"]
    BY <1>2 DEF HashFields, Cells
  <2>7. file # <<>> => mem["magic"] = file[i].magic
    BY DEF Inv, AtFileEnd
  <2> QED BY <1>0, <2>1, <2>2, <2>4, <2>5, <2>6, <2>7 DEF AtFileEnd
<1>7. Beyond'
  <2> SUFFICES ASSUME i > Len(file) PROVE FALSE
    BY <1>0 DEF Beyond
  <2> QED BY <1>0 DEF Inv, Beyond, HashFields
<1>8. HeaderPointerKept'
  <2>1. mem["hd"] = "header"
    BY <1>0 DEF Inv, HeaderPointerKept, HeaderCells, HashFields
  <2> QED BY <1>2, <2>1 DEF HeaderPointerKept, Cells, HashFields
<1> QED BY <1>4, <1>5, <1>6, <1>7, <1>8 DEF Inv

(* Allocating the header keeps the invariant. *)
LEMMA AllocInv == Inv /\ Alloc => Inv'
<1> SUFFICES ASSUME Inv, Alloc PROVE Inv'
  OBVIOUS
<1>0. /\ pc = "alloc" /\ pc' = "version"
      /\ UNCHANGED <<file, n, i, pos, eof, len>>
  BY DEF Alloc, After
<1>1. /\ mem' = [c \in Cells |-> mem'[c]]
      /\ mem'["hd"] = "header"
      /\ mem'["magic"] = mem["magic"]
      /\ mem'["size"] = mem["size"]
  BY DEF Alloc, Cells, HeaderCells
<1>2. Shapes'
  BY <1>0, <1>1 DEF Inv, Shapes, Statements, Cells
<1>3. InFile'
  BY <1>0, <1>1 DEF Inv, InFile, Place, Got
<1>4. AtFileEnd' /\ Beyond'
  BY <1>0, <1>1 DEF Inv, AtFileEnd, Beyond, Lost, Zeros
<1>5. HeaderPointerKept'
  BY <1>1 DEF HeaderPointerKept
<1> QED BY <1>2, <1>3, <1>4, <1>5 DEF Inv

(* Reading the counter keeps the invariant. *)
LEMMA ReadCountInv == Inv /\ ReadCount => Inv'
<1> SUFFICES ASSUME Inv, ReadCount PROVE Inv'
  OBVIOUS
<1>0. /\ pc = "count" /\ pc' = "seek"
      /\ UNCHANGED <<file, n, i>>
      /\ eof' = (eof \/ AtEnd)
  BY DEF ReadCount
<1>1. /\ mem' = [c \in Cells |-> mem'[c]]
      /\ \A c \in Cells : c # "count" => mem'[c] = mem[c]
  BY DEF ReadCount, Inv, Shapes
<1>2. /\ AtEnd => pos' = pos /\ len' = len
      /\ ~AtEnd => /\ pos' = Ahead(VarintLen(Bytes("count")))
                   /\ len' = len + VarintLen(Bytes("count"))
  BY DEF ReadCount
<1>3. file \in Seq(Blocks) /\ i \in Nat
  BY DEF Inv, Shapes
<1>4. Shapes'
  BY <1>0, <1>1, <1>3 DEF Shapes, Statements, Cells
<1>5. InFile'
  <2> SUFFICES ASSUME i < Len(file) PROVE InFile'
    BY <1>0 DEF InFile
  <2> DEFINE b == file[i + 1]
  <2>1. /\ ~eof
        /\ pos = [blk |-> i + 1, off |-> 88]
        /\ len = 80
        /\ \A g \in Got["count"] : mem[g] = ShownField(b, g)
    BY <1>0 DEF Inv, InFile, Place
  <2>2. i + 1 \in 1 .. Len(file) /\ b \in Blocks
    BY <1>3
  <2>3. ~AtEnd
    BY <1>3, <2>1, <2>2 DEF AtEnd
  <2>4. Bytes("count") = b.count
    BY <2>1 DEF Bytes, FieldBytes, Offset
  <2>5. PICK z : z = VarintLen(b.count)
    OBVIOUS
  <2>6. /\ z \in Nat /\ BlkSize(b) = 80 + z + b.txs
        /\ b.txs \in Nat /\ b.txs > 0
    BY <2>2, <2>5, BlockLength
  <2>7. Ahead(z) = [blk |-> i + 1, off |-> 88 + z]
    <3>1. 88 + z < 8 + BlkSize(b)
      BY <2>6
    <3> QED BY <1>3, <2>1, <2>2, <2>6, <3>1, AheadInside
  <2>8. pos' = [blk |-> i + 1, off |-> 88 + z] /\ len' = 80 + z
    BY <1>2, <2>1, <2>3, <2>4, <2>5, <2>7
  <2>9. 88 + z = 8 + len'
    BY <2>6, <2>8
  <2>10. \A g \in Got["seek"] : mem'[g] = ShownField(b, g)
    BY <1>1, <2>1 DEF Got, WordFields, HashFields, Cells
  <2> QED BY <1>0, <2>1, <2>3, <2>5, <2>8, <2>9, <2>10 DEF InFile, Place
<1>6. AtFileEnd'
  <2> SUFFICES ASSUME i = Len(file) PROVE AtFileEnd'
    BY <1>0 DEF AtFileEnd
  <2>1. pos = [blk |-> i + 1, off |-> 0] /\ len = 80
    BY <1>0 DEF Inv, AtFileEnd
  <2>2. AtEnd
    BY <1>3, <2>1 DEF AtEnd
  <2>3. \A g \in {"size", "bts", "nonce"} : mem[g] = 0 /\ mem'[g] = mem[g]
    BY <1>0, <1>1 DEF Inv, AtFileEnd, Zeros, Cells
  <2>4. mem'["magic"] = mem["magic"] /\ (file # <<>> => mem["magic"] = file[i].magic)
    BY <1>1 DEF Inv, AtFileEnd, Cells
  <2> QED BY <1>0, <1>2, <2>1, <2>2, <2>3, <2>4 DEF AtFileEnd, Zeros
<1>7. Beyond'
  BY <1>0 DEF Inv, Beyond
<1>8. HeaderPointerKept'
  BY <1>0, <1>1 DEF Inv, HeaderPointerKept, HeaderCells, Cells
<1> QED BY <1>4, <1>5, <1>6, <1>7, <1>8 DEF Inv

(* Skipping the transactions keeps the invariant: it ends at the next block, or, when *)
(* nothing was read, eighty bytes back in the last one.                               *)
LEMMA SeekInv == Inv /\ Seek => Inv'
<1> SUFFICES ASSUME Inv, Seek PROVE Inv'
  OBVIOUS
<1>0. /\ pc = "seek" /\ pc' = "print"
      /\ UNCHANGED <<file, n, i, mem, len>>
  BY DEF Seek
<1>1. PICK s : s = mem["size"] - len
  OBVIOUS
<1>2. /\ ~AtEnd => pos' = Ahead(s) /\ eof' = FALSE
      /\ AtEnd /\ s < 0 /\ ~(s >= 0) =>
            IF file = <<>> THEN UNCHANGED <<pos, eof>>
            ELSE pos' = [blk |-> 0, off |-> 0] /\ eof' = FALSE
  BY <1>1 DEF Seek
<1>3. file \in Seq(Blocks) /\ i \in Nat
  BY DEF Inv, Shapes
<1>4. Shapes'
  BY <1>0 DEF Inv, Shapes, Statements
<1>5. InFile'
  <2> SUFFICES ASSUME i < Len(file) PROVE InFile'
    BY <1>0 DEF InFile
  <2> DEFINE b == file[i + 1]
  <2>1. PICK z : z = VarintLen(b.count)
    OBVIOUS
  <2>2. /\ len = 80 + z
        /\ pos = [blk |-> i + 1, off |-> 8 + len]
        /\ \A g \in Got["seek"] : mem[g] = ShownField(b, g)
    BY <1>0, <2>1 DEF Inv, InFile
  <2>3. i + 1 \in 1 .. Len(file) /\ b \in Blocks
    BY <1>3
  <2>4. ~AtEnd
    BY <1>3, <2>2, <2>3 DEF AtEnd
  <2>5. z \in Nat /\ BlkSize(b) \in Nat
    BY <2>1, <2>3, BlockLength
  <2>6. mem["size"] = BlkSize(b)
    BY <2>2 DEF Got, WordFields, ShownField
  <2>7. 8 + len + s = 8 + BlkSize(b)
    BY <1>1, <2>2, <2>5, <2>6
  <2>8. pos' = [blk |-> i + 1 + 1, off |-> 0]
    BY <1>2, <2>2, <2>4, <2>7, AheadOut
  <2>9. i + 1 + 1 = i + 2
    BY <1>3
  <2>10. \A g \in Got["print"] : mem'[g] = ShownField(b, g)
    BY <1>0, <2>2 DEF Got
  <2> QED BY <1>0, <1>2, <2>4, <2>8, <2>9, <2>10 DEF InFile, Place
<1>6. AtFileEnd'
  <2> SUFFICES ASSUME i = Len(file) PROVE AtFileEnd'
    BY <1>0 DEF AtFileEnd
  <2>1. /\ pos = [blk |-> i + 1, off |-> 0] /\ len = 80
        /\ \A g \in {"size", "bts", "nonce"} : mem[g] = 0
        /\ file # <<>> => mem["magic"] = file[i].magic
        /\ ~Lost => eof
    BY <1>0 DEF Inv, AtFileEnd, Zeros
  <2>2. AtEnd /\ ~Lost
    BY <1>3, <2>1 DEF AtEnd, Lost
  <2>3. s < 0 /\ ~(s >= 0)
    BY <1>1, <2>1
  <2>4. CASE file = <<>>
    <3>1. i = 0
      BY <2>4, <1>3
    <3> QED BY <1>0, <1>2, <2>1, <2>2, <2>3, <2>4, <3>1 DEF AtFileEnd, Zeros
  <2>5. CASE file # <<>>
    BY <1>0, <1>2, <2>1, <2>2, <2>3, <2>5 DEF AtFileEnd, Zeros, Lost
  <2> QED BY <2>4, <2>5
<1>7. Beyond'
  BY <1>0 DEF Inv, Beyond
<1>8. HeaderPointerKept'
  BY <1>0 DEF Inv, HeaderPointerKept
<1> QED BY <1>4, <1>5, <1>6, <1>7, <1>8 DEF Inv

(* The loop of main keeps the invariant. *)
LEMMA LoopInv == Inv /\ (NextBlk \/ Stop \/ PrintBlk \/ LostBlk) => Inv'
<1> SUFFICES ASSUME Inv, NextBlk \/ Stop \/ PrintBlk \/ LostBlk PROVE Inv'
  OBVIOUS
<1>0. file \in Seq(Blocks) /\ i \in Nat /\ Len(file) \in Nat
  BY DEF Inv, Shapes
<1>1. CASE NextBlk
  <2>1. Shapes'
    BY <1>1 DEF NextBlk, Inv, Shapes, Statements, Cells
  <2>2. InFile'
    BY <1>1 DEF NextBlk, Inv, InFile, Place, Got
  <2>3. AtFileEnd' /\ Beyond'
    BY <1>1 DEF NextBlk, Inv, AtFileEnd, Beyond, Lost, Zeros
  <2>4. HeaderPointerKept'
    BY <1>1 DEF NextBlk, HeaderPointerKept, HeaderCells
  <2> QED BY <2>1, <2>2, <2>3, <2>4 DEF Inv
<1>2. CASE Stop
  <2>1. Shapes'
    BY <1>2 DEF Stop, Inv, Shapes, Statements
  <2>2. InFile'
    BY <1>2 DEF Stop, Inv, InFile, Place, Got
  <2>3. AtFileEnd' /\ Beyond'
    BY <1>0, <1>2 DEF Stop, Inv, AtFileEnd, Beyond, Lost, Zeros
  <2>4. HeaderPointerKept'
    BY <1>2 DEF Stop, HeaderPointerKept, HeaderCells
  <2> QED BY <2>1, <2>2, <2>3, <2>4 DEF Inv
<1>3. CASE PrintBlk
  <2>0. /\ pc = "print" /\ pc' = "head" /\ i' = i + 1
        /\ UNCHANGED <<file, n, pos, eof, mem, len>>
    BY <1>3 DEF PrintBlk
  <2>1. Shapes'
    BY <2>0, <1>0 DEF Inv, Shapes, Statements
  <2>2. HeaderPointerKept'
    BY <2>0 DEF HeaderPointerKept, HeaderCells
  <2>3. CASE i < Len(file)
    <3>1. ~eof /\ pos = [blk |-> i + 2, off |-> 0]
      BY <2>0, <2>3 DEF Inv, InFile
    <3>2. i + 2 = i' + 1 /\ ~(i' > Len(file))
      BY <1>0, <2>0, <2>3
    <3>3. InFile'
      BY <2>0, <3>1, <3>2 DEF InFile, Place, Got
    <3>4. AtFileEnd'
      <4>1. mem["magic"] = file[i + 1].magic
        BY <2>0, <2>3 DEF Inv, InFile, Got, WordFields, HashFields, ShownField
      <4> QED BY <2>0, <3>1, <3>2, <4>1 DEF AtFileEnd, Lost, Zeros
    <3>5. Beyond'
      BY <2>0, <3>2 DEF Beyond
    <3> QED BY <2>1, <2>2, <3>3, <3>4, <3>5 DEF Inv
  <2>4. CASE ~(i < Len(file))
    <3>1. i' > Len(file) /\ ~(i' < Len(file)) /\ i' # Len(file)
      BY <1>0, <2>0, <2>4
    <3>2. InFile' /\ AtFileEnd'
      BY <2>0, <3>1 DEF InFile, AtFileEnd
    <3>3. Beyond'
      <4>1. CASE i = Len(file)
        <5>1. IF file = <<>> THEN pos = [blk |-> 1, off |-> 0] /\ eof ELSE Lost /\ ~eof
          BY <2>0, <4>1 DEF Inv, AtFileEnd
        <5> QED BY <2>0, <5>1 DEF Beyond, Lost
      <4>2. CASE i > Len(file)
        <5>1. i' # Len(file) + 1
          BY <1>0, <2>0, <4>2
        <5> QED BY <2>0, <4>2, <5>1 DEF Inv, Beyond, Lost
      <4>3. i = Len(file) \/ i > Len(file)
        BY <1>0, <2>4
      <4> QED BY <4>1, <4>2, <4>3
    <3> QED BY <2>1, <2>2, <3>2, <3>3 DEF Inv
  <2> QED BY <2>3, <2>4
<1>4. CASE LostBlk
  <2>0. /\ pc = "magic" /\ pc' = "print" /\ Lost
        /\ UNCHANGED <<file, n, i, pos, len>>
        /\ mem' = [c \in Cells |-> mem'[c]]
        /\ mem'["hd"] = "header"
    BY <1>4 DEF LostBlk, Cells
  <2>1. Shapes'
    BY <2>0 DEF Inv, Shapes, Statements, Cells
  <2>2. i > Len(file)
    <3>1. ~(i < Len(file))
      <4> SUFFICES ASSUME i < Len(file) PROVE FALSE
        OBVIOUS
      <4>1. pos = [blk |-> i + 1, off |-> 0]
        BY <2>0 DEF Inv, InFile, Place
      <4> QED BY <1>0, <2>0, <4>1 DEF Lost
    <3>2. i # Len(file)
      <4> SUFFICES ASSUME i = Len(file) PROVE FALSE
        OBVIOUS
      <4>1. pos = [blk |-> i + 1, off |-> 0]
        BY <2>0 DEF Inv, AtFileEnd
      <4> QED BY <1>0, <2>0, <4>1 DEF Lost
    <3> QED BY <1>0, <3>1, <3>2
  <2>3. InFile' /\ AtFileEnd'
    BY <1>0, <2>0, <2>2 DEF InFile, AtFileEnd
  <2>4. Beyond'
    BY <2>0, <2>2 DEF Inv, Beyond, Lost
  <2>5. HeaderPointerKept'
    BY <2>0 DEF HeaderPointerKept
  <2> QED BY <2>1, <2>3, <2>4, <2>5 DEF Inv
<1> QED BY <1>1, <1>2, <1>3, <1>4

(* The invariant holds in every state. *)
LEMMA InvHolds == Spec => []Inv
<1>1. Inv /\ [Next]_vars => Inv'
  <2> SUFFICES ASSUME Inv, [Next]_vars PROVE Inv'
    OBVIOUS
  <2>1. CASE NextBlk \/ Stop \/ PrintBlk \/ LostBlk
    BY <2>1, LoopInv
  <2>2. CASE Alloc
    BY <2>2, AllocInv
  <2>3. CASE ReadCount
    BY <2>3, ReadCountInv
  <2>4. CASE Seek
    BY <2>4, SeekInv
  <2>5. CASE \E f \in WordFields : ReadWord(f)
    BY <2>5, ReadWordInv
  <2>6. CASE \E f \in HashFields : ReadHash(f)
    BY <2>6, ReadHashInv
  <2>7. CASE UNCHANGED vars
    BY <2>7 DEF vars, Inv, Shapes, InFile, AtFileEnd, Beyond, HeaderPointerKept, Lost
  <2> QED BY <2>1, <2>2, <2>3, <2>4, <2>5, <2>6, <2>7
          DEF Next, Step, Closed, WordFields, HashFields
<1> QED BY <1>1, InitInv, PTL DEF Spec

------------------------------------------------------------------------------
(* For every file of whole blocks kyk_parse_blk reads the i-th block into blk, with no *)
(* field lost to the eight bytes beej_unpack stores, and leaves the file at the next.   *)
THEOREM OrderCorrect == Spec => []BlocksInOrder
<1>1. Inv => BlocksInOrder
  <2> SUFFICES ASSUME Inv, pc = "print", i < Len(file) PROVE Shows(file[i + 1])
    BY DEF BlocksInOrder, Inv
  <2>1. \A f \in Got["print"] : mem[f] = ShownField(file[i + 1], f)
    BY DEF Inv, InFile
  <2>2. mem["size"] = BlkSize(file[i + 1])
    BY <2>1 DEF Got, WordFields, ShownField
  <2>3. \A f \in {"magic", "version", "tts", "bts", "nonce"} : mem[f] = file[i + 1][f]
    BY <2>1 DEF Got, WordFields, HashFields, ShownField
  <2>4. \A f \in {"pre", "mrk"} : mem[f] = Shown(file[i + 1][f])
    BY <2>1 DEF Got, HashFields, ShownField
  <2> QED BY <2>2, <2>3, <2>4 DEF Shows
<1> QED BY <1>1, InvHolds, PTL

(* The read of the size, which zeroes half of blk.hd, comes before malloc sets it. *)
THEOREM PointerCorrect == Spec => []HeaderPointerKept
<1>1. Inv => HeaderPointerKept
  BY DEF Inv
<1> QED BY <1>1, InvHolds, PTL

(* For every file with a block main goes round once more than the file has blocks: the  *)
(* reads that fail leave the last magic number and zeros, and their end-of-file          *)
(* indicator is cleared before main looks at it, so that it is the count of blocks or a  *)
(* later round that ends the loop.                                                       *)
THEOREM EndCorrect == Spec => []BlockBehindTheEnd
<1>1. Inv => BlockBehindTheEnd
  <2> SUFFICES ASSUME Inv, file # <<>>
               PROVE  /\ pc = "print" /\ i = Len(file) =>
                             /\ ~eof
                             /\ mem["magic"] = file[i].magic
                             /\ \A f \in {"size", "bts", "nonce"} : mem[f] = 0
                      /\ pc = "done" => i > n \/ i > Len(file) + 1
    BY DEF BlockBehindTheEnd
  <2>1. i \in Nat /\ Len(file) \in Nat
    BY DEF Inv, Shapes
  <2>2. CASE i < Len(file)
    BY <2>1, <2>2 DEF Inv, InFile
  <2>3. CASE i = Len(file)
    BY <2>3 DEF Inv, AtFileEnd, Zeros
  <2>4. CASE i > Len(file)
    BY <2>1, <2>4 DEF Inv, Beyond
  <2> QED BY <2>1, <2>2, <2>3, <2>4
<1> QED BY <1>1, InvHolds, PTL

------------------------------------------------------------------------------
(* The types. *)

(* The last bytes of a number replaced: it is no longer than before. *)
LEMMA Replaced ==
    ASSUME NEW old \in Nat, NEW a \in Nat, a > 0, NEW x \in Nat, old < a * x,
           NEW r \in Nat, r < a
    PROVE  (old \div a) * a + r \in 0 .. a * x - 1
<1>1. PICK q \in Nat : q = old \div a /\ a * q <= old
  <2>1. old \div a \in Nat /\ a * (old \div a) <= old
    OBVIOUS
  <2> QED BY <2>1
<1>2. q < x
  <2> SUFFICES ASSUME q >= x PROVE FALSE
    OBVIOUS
  <2>1. a * q >= a * x
    OBVIOUS
  <2> QED BY <1>1, <2>1
<1>3. a * (q + 1) <= a * x
  BY <1>2
<1>4. a * (q + 1) = q * a + a /\ q * a \in Nat /\ a * x \in Nat
  OBVIOUS
<1>5. q * a + r \in 0 .. a * x - 1
  BY <1>3, <1>4
<1> QED BY <1>1, <1>5

(* How many values a byte, two, four and eight have. *)
LEMMA Widths ==
    /\ Byte \in Nat /\ Byte > 3 /\ Short \in Nat /\ Long \in Nat /\ Quad \in Nat
    /\ Byte <= Short /\ Short <= Long /\ Long <= Quad
    /\ \E x \in Nat : Quad = Byte * x
<1>1. \A a \in Nat : a > 3 => a * a \in Nat /\ a <= a * a
  OBVIOUS
<1>2. Byte \in Nat /\ Byte > 3
  BY FilesAssumption DEF FilesAssumption
<1>3. Short \in Nat /\ Byte <= Short
  BY <1>1, <1>2 DEF Short
<1>4. Long \in Nat /\ Short <= Long
  BY <1>1, <1>2, <1>3 DEF Long
<1>5. Quad \in Nat /\ Long <= Quad
  BY <1>1, <1>2, <1>3, <1>4 DEF Quad
<1>6. Long = Byte * (Byte * Short)
  BY <1>2, <1>3 DEF Long, Short
<1>7. \E x \in Nat : Quad = Byte * x
  <2>1. PICK y \in Nat : y = Byte * Short /\ Long = Byte * y
    BY <1>2, <1>3, <1>6
  <2>2. (Byte * y) * Long = Byte * (y * Long) /\ y * Long \in Nat
    BY <1>2, <1>4
  <2>3. Quad = Byte * (y * Long)
    BY <2>1, <2>2 DEF Quad
  <2> QED BY <2>2, <2>3
<1> QED BY <1>2, <1>3, <1>4, <1>5, <1>7

(* A counter read over an old one is a number of eight bytes. *)
LEMMA OverwrittenCounts ==
    ASSUME NEW old \in Counts, NEW c \in Counts, NEW fd \in Nat, fd < Byte
    PROVE  Overwritten(old, fd, c) \in Counts
<1>1. old \in Nat /\ c \in Nat /\ old < Quad /\ c < Quad
  BY Widths DEF Counts
<1>2. PICK x \in Nat : Quad = Byte * x
  BY Widths
<1>3. (old \div Byte) * Byte + fd \in Counts
  <2>1. Byte \in Nat /\ Byte > 0 /\ old < Byte * x
    BY <1>1, <1>2, Widths
  <2>2. (old \div Byte) * Byte + fd \in 0 .. Byte * x - 1
    BY <1>1, <2>1, Replaced
  <2> QED BY <1>2, <2>2 DEF Counts
<1>4. c % Short \in Nat /\ c % Short < Long
  BY <1>1, Widths
<1>5. (old \div Long) * Long + (c % Short) \in Counts
  <2>1. Long \in Nat /\ Long > 0 /\ Quad = Long * Long
    BY Widths DEF Quad
  <2>2. PICK l \in Nat : l = Long
    BY <2>1
  <2>3. (old \div l) * l + (c % Short) \in 0 .. l * l - 1
    BY <1>1, <1>4, <2>1, <2>2, Replaced
  <2> QED BY <2>1, <2>2, <2>3 DEF Counts
<1>6. c % Long \in Counts
  BY <1>1, Widths DEF Counts
<1> QED BY <1>3, <1>5, <1>6 DEF Overwritten

(* The bytes of a field have the type of the field. *)
LEMMA FieldTypes ==
    ASSUME NEW b \in Blocks
    PROVE  /\ \A f \in WordFields : FieldBytes(b, f) \in Nat
           /\ \A f \in HashFields : FieldBytes(b, f) \in HashBytes
           /\ FieldBytes(b, "count") \in Counts
<1>1. \A f \in WordFields \ {"size"} : FieldBytes(b, f) \in Nat
  BY FilesAssumption DEF FilesAssumption, WordFields, FieldBytes, Blocks
<1>2. FieldBytes(b, "size") \in Nat
  BY BlockLength DEF FieldBytes
<1>3. \A f \in HashFields : FieldBytes(b, f) \in HashBytes
  BY DEF HashFields, FieldBytes, Blocks, Stored, HashBytes
<1>4. FieldBytes(b, "count") \in Counts
  BY DEF FieldBytes, Blocks
<1> QED BY <1>1, <1>2, <1>3, <1>4

(* A place a few bytes on is a place. *)
LEMMA AheadPlace ==
    ASSUME pos \in [blk : Nat, off : Nat], NEW s \in Nat
    PROVE  Ahead(s) \in [blk : Nat, off : Nat]
<1>1. CASE pos.off + s = 8 + BlkSize(file[pos.blk])
  BY <1>1 DEF Ahead
<1>2. CASE pos.off + s # 8 + BlkSize(file[pos.blk])
  BY <1>2 DEF Ahead
<1> QED BY <1>1, <1>2

(* Each field read has its type, whatever place it is read at. *)
LEMMA BytesTypes ==
    ASSUME TypeOK, ~AtEnd, ~Lost
    PROVE  /\ \A f \in WordFields : Bytes(f) \in Nat \cup {Junk}
           /\ \A f \in HashFields : Bytes(f) \in HashBytes \cup {Junk}
<1>1. file \in Seq(Blocks) /\ pos.blk \in 1 .. Len(file)
  BY FilesAssumption DEF FilesAssumption, TypeOK, AtEnd, Lost
<1>2. file[pos.blk] \in Blocks
  BY <1>1
<1> QED BY <1>2, FieldTypes DEF Bytes

LEMMA ReadWordTypes ==
    ASSUME TypeOK, NEW f \in WordFields, ReadWord(f)
    PROVE  TypeOK'
<1> DEFINE v == IF AtEnd THEN mem[f] ELSE Bytes(f)
<1>0. /\ pc = f /\ ~Lost /\ pc' = After(f)
      /\ UNCHANGED <<file, n, i, len>>
      /\ pos' = IF AtEnd THEN pos ELSE Ahead(4)
      /\ eof' = (eof \/ AtEnd)
      /\ mem' = Unpack(f, v)
  BY DEF ReadWord
<1>1. v \in Nat \cup {Junk}
  BY <1>0, BytesTypes DEF TypeOK, WordFields, Cells
<1> HIDE DEF v
<1>2. pos' \in [blk : Nat, off : Nat]
  BY <1>0, AheadPlace DEF TypeOK
<1>3. /\ DOMAIN mem' = Cells
      /\ \A c \in Cells : mem'[c] = IF c = f THEN v
                                    ELSE IF f \in DOMAIN Behind /\ c = Behind[f]
                                         THEN IF c \in {"hd", "pre"} THEN Junk ELSE 0
                                    ELSE mem[c]
  BY <1>0 DEF Unpack
<1>4. \A c \in Cells \ {"hd", "pre", "mrk", "count"} : mem'[c] \in Nat \cup {Junk}
  BY <1>1, <1>3 DEF TypeOK
<1>5. \A c \in {"pre", "mrk"} : mem'[c] \in HashBytes \cup {Junk}
  BY <1>3 DEF TypeOK, WordFields, Behind, Cells
<1>6. mem'["hd"] \in {"header", Junk} /\ mem'["count"] \in Counts
  BY <1>3 DEF TypeOK, WordFields, Behind, Cells
<1>7. pc' \in (Cells \ {"hd"}) \cup {"head", "alloc", "seek", "print", "done"}
  BY <1>0, WordStatements DEF Statements
<1> QED BY <1>0, <1>2, <1>3, <1>4, <1>5, <1>6, <1>7 DEF TypeOK

LEMMA ReadHashTypes ==
    ASSUME TypeOK, Inv, NEW f \in HashFields, ReadHash(f)
    PROVE  TypeOK'
<1> DEFINE v == IF AtEnd THEN mem[f] ELSE Bytes(f)
<1>0. /\ pc = f /\ pc' = After(f)
      /\ UNCHANGED <<file, n, i, len>>
      /\ pos' = IF AtEnd THEN pos ELSE Ahead(32)
      /\ eof' = (eof \/ AtEnd)
      /\ mem' = [mem EXCEPT ![f] = Reversed(v)]
  BY DEF ReadHash
<1>1. ~Lost
  <2>1. i \in Nat /\ Len(file) \in Nat
    BY DEF Inv, Shapes
  <2>2. CASE i < Len(file)
    <3>1. pos = [blk |-> i + 1, off |-> Place[f]]
      BY <1>0, <2>2, HashStatements DEF Inv, InFile
    <3> QED BY <2>1, <3>1 DEF Lost
  <2>3. CASE i = Len(file)
    <3>1. pos = [blk |-> i + 1, off |-> 0]
      BY <1>0, <2>3 DEF Inv, AtFileEnd, HashFields
    <3> QED BY <2>1, <3>1 DEF Lost
  <2>4. CASE i > Len(file)
    BY <1>0, <2>4 DEF Inv, Beyond, HashFields
  <2> QED BY <2>1, <2>2, <2>3, <2>4
<1>2. v \in HashBytes \cup {Junk}
  BY <1>0, <1>1, BytesTypes DEF TypeOK, HashFields
<1> HIDE DEF v
<1>3. Reversed(v) \in HashBytes \cup {Junk}
  BY <1>2 DEF Reversed, HashBytes
<1>4. pos' \in [blk : Nat, off : Nat]
  BY <1>0, AheadPlace DEF TypeOK
<1>5. pc' \in (Cells \ {"hd"}) \cup {"head", "alloc", "seek", "print", "done"}
  BY <1>0, HashStatements DEF Statements
<1> QED BY <1>0, <1>3, <1>4, <1>5 DEF TypeOK, HashFields

LEMMA ReadCountTypes ==
    ASSUME TypeOK, Inv, ReadCount
    PROVE  TypeOK'
<1> DEFINE old == mem["count"]
           c   == IF AtEnd THEN old ELSE Bytes("count")
           fd  == IF AtEnd THEN old % Byte ELSE VarintHead(c)
<1>0. /\ pc = "count" /\ pc' = "seek"
      /\ UNCHANGED <<file, n, i>>
      /\ mem' = [mem EXCEPT !["count"] = Overwritten(old, fd, c)]
      /\ len' = IF AtEnd THEN len ELSE len + VarintLen(c)
      /\ pos' = IF AtEnd THEN pos ELSE Ahead(VarintLen(c))
      /\ eof' = (eof \/ AtEnd)
  BY DEF ReadCount
<1>1. old \in Counts
  BY DEF TypeOK
<1>2. c \in Counts
  <2>1. i \in Nat /\ Len(file) \in Nat /\ file \in Seq(Blocks)
    BY DEF Inv, Shapes
  <2>2. CASE i < Len(file)
    <3>1. pos = [blk |-> i + 1, off |-> 88]
      BY <1>0, <2>2 DEF Inv, InFile, Place
    <3>2. file[i + 1] \in Blocks
      BY <2>1, <2>2
    <3>3. Bytes("count") \in Counts
      BY <3>1, <3>2, FieldTypes DEF Bytes, Offset
    <3> QED BY <1>1, <3>3
  <2>3. CASE i = Len(file)
    <3>1. pos = [blk |-> i + 1, off |-> 0]
      BY <1>0, <2>3 DEF Inv, AtFileEnd
    <3>2. AtEnd
      BY <2>1, <2>3, <3>1 DEF AtEnd
    <3> QED BY <1>1, <3>2
  <2>4. CASE i > Len(file)
    BY <1>0, <2>4 DEF Inv, Beyond
  <2> QED BY <2>1, <2>2, <2>3, <2>4
<1>3. fd \in Nat /\ fd < Byte
  <2>1. CASE AtEnd
    <3>1. old % Byte \in Nat /\ old % Byte < Byte
      BY <1>1, Widths DEF Counts
    <3> QED BY <2>1, <3>1
  <2>2. CASE ~AtEnd
    <3>1. VarintHead(c) \in Nat /\ VarintHead(c) < Byte
      BY <1>2, Widths DEF VarintHead, VarintLen, Tag2, Tag4, Tag8, Counts
    <3> QED BY <2>2, <3>1
  <2> QED BY <2>1, <2>2
<1>4. VarintLen(c) \in Nat
  BY DEF VarintLen
<1> HIDE DEF old, c, fd
<1>5. Overwritten(old, fd, c) \in Counts
  BY <1>1, <1>2, <1>3, OverwrittenCounts
<1>6. pos' \in [blk : Nat, off : Nat]
  BY <1>0, <1>4, AheadPlace DEF TypeOK
<1>7. len' \in Nat
  BY <1>0, <1>4 DEF TypeOK
<1> QED BY <1>0, <1>5, <1>6, <1>7 DEF TypeOK, Cells

LEMMA SeekTypes ==
    ASSUME TypeOK, Inv, Inv', Seek
    PROVE  TypeOK'
<1>1. /\ pc = "seek" /\ pc' = "print"
      /\ UNCHANGED <<file, n, i, mem, len>>
  BY DEF Seek
<1>2. eof' \in BOOLEAN
  BY DEF Seek, TypeOK
<1>3. pos' \in [blk : Nat, off : Nat]
  <2>1. i \in Nat /\ Len(file) \in Nat
    BY DEF Inv, Shapes
  <2>2. CASE i < Len(file)
    <3>1. pos' = [blk |-> i + 2, off |-> 0]
      BY <1>1, <2>2 DEF Inv, InFile
    <3> QED BY <2>1, <3>1
  <2>3. CASE i = Len(file)
    <3>1. pos = [blk |-> i + 1, off |-> 0]
      BY <1>1, <2>3 DEF Inv, AtFileEnd
    <3>2. AtEnd
      BY <2>1, <2>3, <3>1 DEF AtEnd
    <3>3. pos' \in {pos, [blk |-> 0, off |-> 0]}
      BY <3>2 DEF Seek
    <3> QED BY <3>3 DEF TypeOK
  <2>4. CASE i > Len(file)
    BY <1>1, <2>4 DEF Inv, Beyond
  <2> QED BY <2>1, <2>2, <2>3, <2>4
<1> QED BY <1>1, <1>2, <1>3 DEF TypeOK

(* Memory, the file's place and the loop of main keep their types; a counter stays a   *)
(* number of eight bytes whatever part of it is read, and the place is never negative. *)
THEOREM TypesCorrect == Spec => []TypeOK
<1>1. Init => TypeOK
  <2> SUFFICES ASSUME Init PROVE TypeOK
    OBVIOUS
  <2>1. PICK c \in Unknown : mem = [x \in Cells |-> IF x = "count" THEN c ELSE Junk]
    BY DEF Init
  <2>2. c \in Counts
    BY FilesAssumption DEF FilesAssumption
  <2>3. DOMAIN mem = Cells /\ mem["count"] \in Counts /\ \A x \in Cells \ {"count"} : mem[x] = Junk
    BY <2>1, <2>2 DEF Cells
  <2>4. /\ \A x \in Cells \ {"hd", "pre", "mrk", "count"} : mem[x] \in Nat \cup {Junk}
        /\ \A x \in {"pre", "mrk"} : mem[x] \in HashBytes \cup {Junk}
        /\ mem["hd"] \in {"header", Junk}
    BY <2>3 DEF Cells
  <2> QED BY <2>3, <2>4 DEF Init, TypeOK
<1>2. TypeOK /\ Inv /\ Inv' /\ [Next]_vars => TypeOK'
  <2> SUFFICES ASSUME TypeOK, Inv, Inv', [Next]_vars PROVE TypeOK'
    OBVIOUS
  <2>1. CASE NextBlk
    BY <2>1 DEF NextBlk, TypeOK, Cells
  <2>2. CASE Stop
    BY <2>2 DEF Stop, TypeOK
  <2>3. CASE Alloc
    BY <2>3 DEF Alloc, After, TypeOK, Cells, HeaderCells
  <2>4. CASE LostBlk
    BY <2>4, FilesAssumption DEF FilesAssumption, LostBlk, TypeOK, Cells
  <2>5. CASE PrintBlk
    BY <2>5 DEF PrintBlk, TypeOK
  <2>6. CASE ReadCount
    BY <2>6, ReadCountTypes
  <2>7. CASE Seek
    BY <2>7, SeekTypes
  <2>8. CASE \E f \in WordFields : ReadWord(f)
    BY <2>8, ReadWordTypes
  <2>9. CASE \E f \in HashFields : ReadHash(f)
    BY <2>9, ReadHashTypes
  <2>10. CASE UNCHANGED vars
    BY <2>10 DEF vars, TypeOK
  <2> QED BY <2>1, <2>2, <2>3, <2>4, <2>5, <2>6, <2>7, <2>8, <2>9, <2>10
          DEF Next, Step, Closed, WordFields, HashFields
<1> QED BY <1>1, <1>2, InvHolds, PTL DEF Spec
==============================================================================
