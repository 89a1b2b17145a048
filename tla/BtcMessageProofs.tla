-------------------------- MODULE BtcMessageProofs --------------------------
(***************************************************************************)
(* The message clients, for every memory, every answer and every packet: the  *)
(* request reads as what was put into it, what a client shows of an answer is *)
(* the answer to the byte, and the fields of the version in it, and a packet  *)
(* reads back as what was packed.                                            *)
(*                                                                         *)
(* The lemmas go from the bytes up: the parts of a buffer and the stores into *)
(* it; an integer and a floating point number in their field; the calls of    *)
(* beej_pack and beej_unpack as functions of the place they have come to; a   *)
(* message and a version; and then the inductive invariant of the programs.   *)
(* The packets of debug_beej_pack.c come last: what beej_pack makes of the    *)
(* items of a packet is the joint of what it makes of each, with the order    *)
(* that stands when beej_unpack comes to it.                                  *)
(***************************************************************************)
EXTENDS BtcMessage, BytesProofs

------------------------------------------------------------------------------
(* Parts of a buffer. *)

\* A part that lies inside.
LEMMA PartIs ==
    ASSUME NEW s \in Seq(Byte), NEW f \in Nat, NEW n \in Nat, f + n <= Len(s)
    PROVE  /\ Part(s, f, n) \in Seq(Byte) /\ Len(Part(s, f, n)) = n
           /\ \A j \in 1 .. n : Part(s, f, n)[j] = s[f + j]
<1>. DEFINE m == f + 1
            e == f + n
<1>1. m \in 1 .. Len(s) + 1 /\ e \in m - 1 .. Len(s) /\ e + 1 - m = n
      /\ \A j \in 1 .. n : m + j - 1 = f + j
  OBVIOUS
<1>2. Part(s, f, n) = SubSeq(s, m, e)
  BY DEF Part
<1>. HIDE DEF m, e
<1>3. /\ SubSeq(s, m, e) \in Seq(Byte) /\ Len(SubSeq(s, m, e)) = n
      /\ \A j \in 1 .. n : SubSeq(s, m, e)[j] = s[m + j - 1]
  BY <1>1, Piece
<1>. QED
  BY <1>1, <1>2, <1>3

\* What has the same bytes is the same part.
LEMMA PartEqual ==
    ASSUME NEW s \in Seq(Byte), NEW f \in Nat, NEW n \in Nat, f + n <= Len(s),
           NEW t \in Seq(Byte), Len(t) = n
    PROVE  (\A j \in 1 .. n : s[f + j] = t[j]) => Part(s, f, n) = t
<1>. DEFINE p == Part(s, f, n)
<1>1. p \in Seq(Byte) /\ Len(p) = n /\ \A j \in 1 .. n : p[j] = s[f + j]
  BY PartIs
<1>. HIDE DEF p
<1>2. ASSUME \A j \in 1 .. n : s[f + j] = t[j] PROVE p = t
  <2>1. \A j \in 1 .. Len(p) : p[j] = t[j]
    BY <1>1, <1>2
  <2>. QED
    BY <1>1, <2>1, SeqEqual
<1>. QED
  BY <1>2 DEF p

\* All of a buffer, and none of it.
LEMMA PartAll ==
    ASSUME NEW s \in Seq(Byte)
    PROVE  Part(s, 0, Len(s)) = s
<1>1. Len(s) \in Nat /\ 0 + Len(s) <= Len(s) /\ \A j \in 1 .. Len(s) : s[0 + j] = s[j]
  OBVIOUS
<1>2. (\A j \in 1 .. Len(s) : s[0 + j] = s[j]) => Part(s, 0, Len(s)) = s
  BY <1>1, PartEqual
<1>. QED
  BY <1>1, <1>2

\* A part of a part.
LEMMA PartPart ==
    ASSUME NEW s \in Seq(Byte), NEW f \in Nat, NEW n \in Nat, f + n <= Len(s),
           NEW g \in Nat, NEW m \in Nat, g + m <= n
    PROVE  Part(Part(s, f, n), g, m) = Part(s, f + g, m)
<1>. DEFINE p == Part(s, f, n)
            q == Part(s, f + g, m)
<1>1. p \in Seq(Byte) /\ Len(p) = n /\ \A j \in 1 .. n : p[j] = s[f + j]
  BY PartIs
<1>2. f + g \in Nat /\ (f + g) + m <= Len(s)
  OBVIOUS
<1>3. q \in Seq(Byte) /\ Len(q) = m /\ \A j \in 1 .. m : q[j] = s[(f + g) + j]
  BY <1>2, PartIs
<1>. HIDE DEF p, q
<1>4. ASSUME NEW j \in 1 .. m PROVE p[g + j] = q[j]
  <2>1. g + j \in 1 .. n /\ f + (g + j) = (f + g) + j
    OBVIOUS
  <2>. QED
    BY <1>1, <1>3, <2>1
<1>5. g + m <= Len(p) /\ \A j \in 1 .. m : p[g + j] = q[j]
  BY <1>1, <1>4
<1>6. p \in Seq(Byte) /\ q \in Seq(Byte) /\ Len(q) = m /\ g + m <= Len(p)
  BY <1>1, <1>3
<1>7. (\A j \in 1 .. m : p[g + j] = q[j]) => Part(p, g, m) = q
  BY <1>6, PartEqual
<1>. QED
  BY <1>5, <1>7 DEF p, q

\* A part of two buffers that lies in the first, and one that lies in the second.
LEMMA PartFront ==
    ASSUME NEW a \in Seq(Byte), NEW b \in Seq(Byte), NEW f \in Nat, NEW n \in Nat, f + n <= Len(a)
    PROVE  Part(a \o b, f, n) = Part(a, f, n)
<1>. DEFINE s == a \o b
            p == Part(a, f, n)
<1>1. /\ s \in Seq(Byte) /\ Len(s) = Len(a) + Len(b) /\ Len(a) \in Nat /\ Len(b) \in Nat
      /\ \A j \in 1 .. Len(a) : s[j] = a[j]
  BY ConcatProperties
<1>. HIDE DEF s
<1>2. p \in Seq(Byte) /\ Len(p) = n /\ \A j \in 1 .. n : p[j] = a[f + j]
  BY PartIs
<1>. HIDE DEF p
<1>3. ASSUME NEW j \in 1 .. n PROVE s[f + j] = p[j]
  <2>1. f + j \in 1 .. Len(a)
    BY <1>1
  <2>. QED
    BY <1>1, <1>2, <2>1
<1>4. f + n <= Len(s) /\ \A j \in 1 .. n : s[f + j] = p[j]
  BY <1>1, <1>3
<1>5. s \in Seq(Byte) /\ p \in Seq(Byte) /\ Len(p) = n /\ f \in Nat /\ f + n <= Len(s)
  BY <1>1, <1>2, <1>4
<1>6. (\A j \in 1 .. n : s[f + j] = p[j]) => Part(s, f, n) = p
  BY <1>5, PartEqual
<1>. QED
  BY <1>4, <1>6 DEF s, p

LEMMA PartBehind ==
    ASSUME NEW a \in Seq(Byte), NEW b \in Seq(Byte), NEW f \in Nat, NEW n \in Nat, f + n <= Len(b)
    PROVE  Part(a \o b, Len(a) + f, n) = Part(b, f, n)
<1>. DEFINE s == a \o b
            p == Part(b, f, n)
            g == Len(a) + f
<1>1. /\ s \in Seq(Byte) /\ Len(s) = Len(a) + Len(b) /\ Len(a) \in Nat /\ Len(b) \in Nat
      /\ \A j \in 1 .. Len(b) : s[Len(a) + j] = b[j]
  BY ConcatProperties
<1>. HIDE DEF s
<1>2. p \in Seq(Byte) /\ Len(p) = n /\ \A j \in 1 .. n : p[j] = b[f + j]
  BY PartIs
<1>. HIDE DEF p
<1>3. ASSUME NEW j \in 1 .. n PROVE s[g + j] = p[j]
  <2>1. f + j \in 1 .. Len(b) /\ g + j = Len(a) + (f + j)
    BY <1>1
  <2>. QED
    BY <1>1, <1>2, <2>1
<1>4. g \in Nat /\ g + n <= Len(s) /\ \A j \in 1 .. n : s[g + j] = p[j]
  BY <1>1, <1>3
<1>. HIDE DEF g
<1>5. s \in Seq(Byte) /\ p \in Seq(Byte) /\ Len(p) = n /\ g \in Nat /\ g + n <= Len(s)
  BY <1>1, <1>2, <1>4
<1>6. (\A j \in 1 .. n : s[g + j] = p[j]) => Part(s, g, n) = p
  BY <1>5, PartEqual
<1>. QED
  BY <1>4, <1>6 DEF s, p, g

\* The two buffers themselves.
LEMMA PartOfTwo ==
    ASSUME NEW a \in Seq(Byte), NEW b \in Seq(Byte)
    PROVE  /\ a \o b \in Seq(Byte) /\ Len(a \o b) = Len(a) + Len(b)
           /\ Part(a \o b, 0, Len(a)) = a
           /\ Part(a \o b, Len(a), Len(b)) = b
<1>1. Len(a) \in Nat /\ Len(b) \in Nat /\ 0 + Len(a) <= Len(a) /\ 0 + Len(b) <= Len(b)
      /\ Len(a) + 0 = Len(a)
  OBVIOUS
<1>2. Part(a \o b, 0, Len(a)) = Part(a, 0, Len(a))
  BY <1>1, PartFront
<1>3. Part(a \o b, Len(a) + 0, Len(b)) = Part(b, 0, Len(b))
  BY <1>1, PartBehind
<1>4. Part(a, 0, Len(a)) = a /\ Part(b, 0, Len(b)) = b
  BY PartAll
<1>5. a \o b \in Seq(Byte) /\ Len(a \o b) = Len(a) + Len(b)
  BY ConcatProperties
<1>. QED
  BY <1>1, <1>2, <1>3, <1>4, <1>5

------------------------------------------------------------------------------
(* The greatest and the least of a set. *)

LEMMA MaxIs ==
    ASSUME NEW N \in Nat, NEW S \in SUBSET (1 .. N), S # {}
    PROVE  Max(S) \in S /\ \A y \in S : Max(S) >= y
<1>. DEFINE T == {N - x : x \in S}
<1>1. T \in SUBSET Nat /\ T # {}
  <2>1. PICK x \in S : TRUE
    OBVIOUS
  <2>2. N - x \in T
    OBVIOUS
  <2>3. \A y \in S : N - y \in Nat
    OBVIOUS
  <2>. QED
    BY <2>2, <2>3
<1>2. PICK d \in T : \A e \in T : d <= e
  <2>. HIDE DEF T
  <2>. QED
    BY <1>1, Least
<1>3. PICK x \in S : d = N - x
  BY <1>2
<1>4. ASSUME NEW y \in S PROVE x >= y
  <2>1. N - y \in T
    OBVIOUS
  <2>2. N - x <= N - y
    BY <1>2, <1>3, <2>1
  <2>. QED
    BY <2>2
<1>5. \E z \in S : \A y \in S : z >= y
  BY <1>4
<1>. QED
  BY <1>5 DEF Max

LEMMA MinIs ==
    ASSUME NEW S \in SUBSET Nat, S # {}
    PROVE  Min(S) \in S /\ \A y \in S : Min(S) <= y
<1>1. \E z \in S : \A y \in S : z <= y
  BY Least
<1>. QED
  BY <1>1 DEF Min

------------------------------------------------------------------------------
(* Stores. *)

\* The stores that reach byte j.
Over(stores, j) == {k \in 1 .. Len(stores) : stores[k].at < j /\ j <= stores[k].at + Len(stores[k].bytes)}

\* A byte that a store reaches is the last one's, another is as it was.
LEMMA LaidByte ==
    ASSUME NEW held \in Seq(Byte), NEW stores, Len(stores) \in Nat, NEW j \in 1 .. Len(held)
    PROVE  /\ Over(stores, j) = {} => Laid(held, stores)[j] = held[j]
           /\ \A m \in Over(stores, j) :
                  (\A k \in Over(stores, j) : k <= m)
                      => Laid(held, stores)[j] = stores[m].bytes[j - stores[m].at]
<1>1. Laid(held, stores)[j] = IF Over(stores, j) = {} THEN held[j]
                              ELSE stores[Max(Over(stores, j))].bytes[j - stores[Max(Over(stores, j))].at]
  BY DEF Laid, Over
<1>2. ASSUME NEW m \in Over(stores, j), \A k \in Over(stores, j) : k <= m
      PROVE  m = Max(Over(stores, j))
  <2>1. Over(stores, j) \in SUBSET (1 .. Len(stores)) /\ Over(stores, j) # {}
    BY <1>2 DEF Over
  <2>2. Max(Over(stores, j)) \in Over(stores, j) /\ Max(Over(stores, j)) >= m
    BY <1>2, <2>1, MaxIs
  <2>3. Max(Over(stores, j)) <= m /\ m \in Nat /\ Max(Over(stores, j)) \in Nat
    BY <1>2, <2>1, <2>2
  <2>. QED
    BY <2>2, <2>3
<1>3. ASSUME NEW m \in Over(stores, j), \A k \in Over(stores, j) : k <= m
      PROVE  Laid(held, stores)[j] = stores[m].bytes[j - stores[m].at]
  <2>1. m = Max(Over(stores, j)) /\ Over(stores, j) # {}
    BY <1>2, <1>3
  <2>. QED
    BY <1>1, <2>1
<1>. QED
  BY <1>1, <1>3

\* The stores of bytes leave a buffer of bytes, of the same length.
LEMMA LaidIs ==
    ASSUME NEW held \in Seq(Byte), NEW stores, Len(stores) \in Nat,
           \A k \in 1 .. Len(stores) : stores[k].at \in Nat /\ stores[k].bytes \in Seq(Byte)
    PROVE  Laid(held, stores) \in Seq(Byte) /\ Len(Laid(held, stores)) = Len(held)
<1>1. Laid(held, stores) = [j \in 1 .. Len(held) |-> Laid(held, stores)[j]]
  BY DEF Laid
<1>2. ASSUME NEW j \in 1 .. Len(held) PROVE Laid(held, stores)[j] \in Byte
  <2>1. CASE Over(stores, j) = {}
    <3>1. Laid(held, stores)[j] = held[j]
      BY <2>1, LaidByte
    <3>. QED
      BY <3>1
  <2>2. CASE Over(stores, j) # {}
    <3>1. Over(stores, j) \in SUBSET (1 .. Len(stores))
      BY DEF Over
    <3>2. PICK m \in Over(stores, j) : \A k \in Over(stores, j) : m >= k
      BY <2>2, <3>1, MaxIs
    <3>3. \A k \in Over(stores, j) : k <= m
      BY <3>1, <3>2
    <3>4. Laid(held, stores)[j] = stores[m].bytes[j - stores[m].at]
      BY <3>3, LaidByte
    <3>5. /\ m \in 1 .. Len(stores) /\ stores[m].at \in Nat /\ stores[m].bytes \in Seq(Byte)
          /\ stores[m].at < j /\ j <= stores[m].at + Len(stores[m].bytes)
      BY <3>1 DEF Over
    <3>6. j - stores[m].at \in 1 .. Len(stores[m].bytes)
      BY <3>5
    <3>. QED
      BY <3>4, <3>5, <3>6, ElementOfSeq
  <2>. QED
    BY <2>1, <2>2
<1>3. Len(held) \in Nat
  OBVIOUS
<1>. DEFINE s == Laid(held, stores)
<1>. HIDE DEF s
<1>4. s \in [1 .. Len(held) -> Byte]
  BY <1>1, <1>2 DEF s
<1>. QED
  BY <1>3, <1>4, NSeq DEF s

\* One store.
LEMMA StoredIs ==
    ASSUME NEW held \in Seq(Byte), NEW at \in Nat, NEW bytes \in Seq(Byte)
    PROVE  /\ Stored(held, at, bytes) \in Seq(Byte) /\ Len(Stored(held, at, bytes)) = Len(held)
           /\ \A j \in 1 .. Len(held) :
                  Stored(held, at, bytes)[j] =
                      IF at < j /\ j <= at + Len(bytes) THEN bytes[j - at] ELSE held[j]
<1>. DEFINE st == <<[at |-> at, bytes |-> bytes]>>
<1>1. Len(st) = 1 /\ st[1].at = at /\ st[1].bytes = bytes
  OBVIOUS
<1>2. Stored(held, at, bytes) = Laid(held, st)
  BY DEF Stored
<1>. HIDE DEF st
<1>3. Laid(held, st) \in Seq(Byte) /\ Len(Laid(held, st)) = Len(held)
  BY <1>1, LaidIs
<1>4. ASSUME NEW j \in 1 .. Len(held)
      PROVE  Laid(held, st)[j] = IF at < j /\ j <= at + Len(bytes) THEN bytes[j - at] ELSE held[j]
  <2>1. CASE at < j /\ j <= at + Len(bytes)
    <3>1. 1 \in Over(st, j) /\ \A k \in Over(st, j) : k <= 1
      BY <1>1, <2>1 DEF Over
    <3>2. Laid(held, st)[j] = st[1].bytes[j - st[1].at]
      BY <1>1, <3>1, LaidByte
    <3>. QED
      BY <1>1, <2>1, <3>2
  <2>2. CASE ~(at < j /\ j <= at + Len(bytes))
    <3>1. Over(st, j) = {}
      BY <1>1, <2>2 DEF Over
    <3>. QED
      BY <1>1, <2>2, <3>1, LaidByte
  <2>. QED
    BY <2>1, <2>2
<1>. QED
  BY <1>2, <1>3, <1>4
------------------------------------------------------------------------------
(* unpack_resp_buf. *)

LEMMA Sizes ==
    CmdSize \in Nat /\ Header \in Nat /\ Header = CmdSize + 12
<1>. QED
  BY BtcMessageAssumption DEF BtcMessageAssumption, Header

\* A number of four bytes that is stored as a long has the four bytes it was read from first.
LEMMA Widened ==
    ASSUME NEW b \in Seq(Byte), NEW at \in Nat, at + 4 <= Len(b)
    PROVE  LET w == LE(Value(Part(b, at, 4), "<"), StoreWidth("L"))
           IN  w \in Seq(Byte) /\ Len(w) = 8 /\ \A j \in 1 .. 4 : w[j] = b[at + j]
<1>. DEFINE p == Part(b, at, 4)
            x == Num(p)
<1>1. p \in Seq(Byte) /\ Len(p) = 4 /\ \A j \in 1 .. 4 : p[j] = b[at + j]
  <2>1. 4 \in Nat
    OBVIOUS
  <2>. QED
    BY <2>1, PartIs
<1>2. Value(Part(b, at, 4), "<") = x /\ StoreWidth("L") = 8
  BY DEF Value, StoreWidth, Width
<1>. HIDE DEF p
<1>3. LE(x, 4) = p /\ x \in Nat
  BY <1>1, WordWritten
<1>. HIDE DEF x
<1>4. 4 \in 1 .. 8 /\ 8 \in 1 .. 8
  OBVIOUS
<1>5. LE(x, 8) \in Seq(Byte) /\ Len(LE(x, 8)) = 8 /\ \A j \in 1 .. 8 : LE(x, 8)[j] = Low(x)[j]
  BY <1>3, <1>4, LEBytes
<1>6. \A j \in 1 .. 4 : LE(x, 4)[j] = Low(x)[j]
  BY <1>3, <1>4, LEBytes
<1>7. ASSUME NEW j \in 1 .. 4 PROVE LE(x, 8)[j] = b[at + j]
  <2>1. j \in 1 .. 8
    OBVIOUS
  <2>2. LE(x, 8)[j] = Low(x)[j] /\ LE(x, 4)[j] = Low(x)[j] /\ p[j] = b[at + j]
    BY <1>1, <1>5, <1>6, <2>1
  <2>. QED
    BY <1>3, <2>2
<1>. QED
  BY <1>2, <1>5, <1>7

\* Although every number is stored over the field behind it, the header in the structure is
\* the header in the buffer.
LEMMA UnpackIs ==
    ASSUME NEW b \in Seq(Byte), Header <= Len(b), NEW held \in Seq(Byte), Len(held) = Header
    PROVE  unpack_resp_buf(b, held) = Part(b, 0, Header)
<1>. DEFINE C == CmdSize
            L(at) == LE(Value(Part(b, at, 4), "<"), StoreWidth("L"))
            w1 == L(0)
            w2 == Part(b, 4, C)
            w3 == L(4 + C)
            w4 == Part(b, 8 + C, 4)
            st == Stores(b)
            m == Laid(held, st)
<1>1. C \in Nat /\ Header = C + 12 /\ Len(b) \in Nat
  BY Sizes
<1>. HIDE DEF C
<1>2. w1 \in Seq(Byte) /\ Len(w1) = 8 /\ \A j \in 1 .. 4 : w1[j] = b[0 + j]
  <2>1. 0 \in Nat /\ 0 + 4 <= Len(b)
    BY <1>1
  <2>. QED
    BY <2>1, Widened
<1>3. w2 \in Seq(Byte) /\ Len(w2) = C /\ \A j \in 1 .. C : w2[j] = b[4 + j]
  <2>1. C \in Nat /\ 4 \in Nat /\ 4 + C <= Len(b)
    BY <1>1
  <2>. QED
    BY <2>1, PartIs
<1>4. w3 \in Seq(Byte) /\ Len(w3) = 8 /\ \A j \in 1 .. 4 : w3[j] = b[(4 + C) + j]
  <2>1. 4 + C \in Nat /\ (4 + C) + 4 <= Len(b)
    BY <1>1
  <2>. QED
    BY <2>1, Widened
<1>5. w4 \in Seq(Byte) /\ Len(w4) = 4 /\ \A j \in 1 .. 4 : w4[j] = b[(8 + C) + j]
  <2>1. 8 + C \in Nat /\ 4 \in Nat /\ (8 + C) + 4 <= Len(b)
    BY <1>1
  <2>. QED
    BY <1>1, <2>1, PartIs
<1>6. st = <<[at |-> 0, bytes |-> w1], [at |-> 4, bytes |-> w2],
             [at |-> 4 + C, bytes |-> w3], [at |-> 8 + C, bytes |-> w4]>>
  BY DEF Stores, C
<1>. HIDE DEF w1, w2, w3, w4, st, L
<1>7. /\ Len(st) = 4 /\ st[1].at = 0 /\ st[1].bytes = w1 /\ st[2].at = 4 /\ st[2].bytes = w2
      /\ st[3].at = 4 + C /\ st[3].bytes = w3 /\ st[4].at = 8 + C /\ st[4].bytes = w4
  BY <1>6
<1>8. m \in Seq(Byte) /\ Len(m) = Header
  <2>1. Len(st) \in Nat /\ \A k \in 1 .. Len(st) : st[k].at \in Nat /\ st[k].bytes \in Seq(Byte)
    <3>1. /\ 0 \in Nat /\ 4 \in Nat /\ 4 + C \in Nat /\ 8 + C \in Nat
      BY <1>1
    <3>2. /\ st[1].at \in Nat /\ st[2].at \in Nat /\ st[3].at \in Nat /\ st[4].at \in Nat
      BY <1>7, <3>1
    <3>3. /\ st[1].bytes \in Seq(Byte) /\ st[2].bytes \in Seq(Byte)
          /\ st[3].bytes \in Seq(Byte) /\ st[4].bytes \in Seq(Byte)
      BY <1>2, <1>3, <1>4, <1>5, <1>7
    <3>4. Len(st) = 4
      BY <1>7
    <3>5. \A k \in 1 .. 4 : k = 1 \/ k = 2 \/ k = 3 \/ k = 4
      OBVIOUS
    <3>. QED
      BY <3>2, <3>3, <3>4, <3>5
  <2>. QED
    BY <2>1, LaidIs
<1>9. ASSUME NEW j \in 1 .. Header PROVE m[j] = b[0 + j]
  <2>1. \A k \in 1 .. 4 : k \in Over(st, j) <=> st[k].at < j /\ j <= st[k].at + Len(st[k].bytes)
    BY <1>7 DEF Over
  <2>2. \A k \in Over(st, j) : k \in 1 .. 4
    BY <1>7 DEF Over
  <2>3. j \in 1 .. Len(held) /\ Len(st) \in Nat
    BY <1>7
  <2>4. ASSUME NEW i \in 1 .. 4, st[i].at < j, j <= st[i].at + Len(st[i].bytes),
               \A k \in i + 1 .. 4 : j <= st[k].at
        PROVE  m[j] = st[i].bytes[j - st[i].at]
    <3>1. i \in Over(st, j)
      BY <2>1, <2>4
    <3>2. \A k \in Over(st, j) : k <= i
      <4>. SUFFICES ASSUME NEW k \in Over(st, j), k > i PROVE FALSE
        BY <2>2
      <4>1. k \in 1 .. 4 /\ st[k].at < j
        BY <2>1, <2>2
      <4>2. k \in i + 1 .. 4
        BY <4>1
      <4>3. st[k].at \in Nat
        BY <1>1, <1>7, <4>1
      <4>. QED
        BY <2>4, <4>1, <4>2, <4>3
    <3>. QED
      BY <2>3, <3>1, <3>2, LaidByte, SMTT(60)
  <2>5. CASE j <= 4
    <3>1. m[j] = w1[j - 0]
      <4>1. \A k \in 1 + 1 .. 4 : j <= st[k].at
        <5>1. j <= st[2].at /\ j <= st[3].at /\ j <= st[4].at
          BY <1>1, <1>7, <2>5
        <5>2. \A k \in 1 + 1 .. 4 : k = 2 \/ k = 3 \/ k = 4
          OBVIOUS
        <5>. QED
          BY <5>1, <5>2
      <4>2. 1 \in 1 .. 4 /\ st[1].at < j /\ j <= st[1].at + Len(st[1].bytes)
        <5>1. st[1].at = 0 /\ Len(st[1].bytes) = 8 /\ 1 \in 1 .. 4
          BY <1>2, <1>7
        <5>. QED
          BY <1>1, <5>1, <2>5
      <4>3. m[j] = st[1].bytes[j - st[1].at]
        BY <2>4, <4>1, <4>2
      <4>. QED
        BY <1>7, <4>3
    <3>. QED
      BY <1>2, <2>5, <3>1
  <2>6. CASE 4 < j /\ j <= 4 + C
    <3>1. m[j] = w2[j - 4]
      BY <1>1, <1>3, <1>7, <2>4, <2>6, SMTT(60)
    <3>2. j - 4 \in 1 .. C /\ 4 + (j - 4) = 0 + j
      BY <1>1, <2>6
    <3>. QED
      BY <1>3, <3>1, <3>2
  <2>7. CASE 4 + C < j /\ j <= 8 + C
    <3>1. m[j] = w3[j - (4 + C)]
      <4>1. \A k \in 3 + 1 .. 4 : j <= st[k].at
        <5>1. j <= st[4].at
          BY <1>1, <1>7, <2>7
        <5>2. \A k \in 3 + 1 .. 4 : k = 4
          OBVIOUS
        <5>. QED
          BY <5>1, <5>2
      <4>2. 3 \in 1 .. 4 /\ st[3].at < j /\ j <= st[3].at + Len(st[3].bytes)
        <5>1. st[3].at = 4 + C /\ Len(st[3].bytes) = 8 /\ 3 \in 1 .. 4
          BY <1>4, <1>7
        <5>. QED
          BY <1>1, <5>1, <2>7
      <4>3. m[j] = st[3].bytes[j - st[3].at]
        BY <2>4, <4>1, <4>2
      <4>. QED
        BY <1>7, <4>3
    <3>2. j - (4 + C) \in 1 .. 4 /\ (4 + C) + (j - (4 + C)) = 0 + j
      BY <1>1, <2>7
    <3>. QED
      BY <1>4, <3>1, <3>2
  <2>8. CASE 8 + C < j
    <3>1. m[j] = w4[j - (8 + C)]
      <4>1. \A k \in 4 + 1 .. 4 : j <= st[k].at
        <5>1. TRUE
          BY <1>1, <1>7, <2>8
        <5>2. \A k \in 4 + 1 .. 4 : FALSE
          OBVIOUS
        <5>. QED
          BY <5>1, <5>2
      <4>2. 4 \in 1 .. 4 /\ st[4].at < j /\ j <= st[4].at + Len(st[4].bytes)
        <5>1. st[4].at = 8 + C /\ Len(st[4].bytes) = 4 /\ 4 \in 1 .. 4
          BY <1>5, <1>7
        <5>. QED
          BY <1>1, <5>1, <2>8
      <4>3. m[j] = st[4].bytes[j - st[4].at]
        BY <2>4, <4>1, <4>2
      <4>. QED
        BY <1>7, <4>3
    <3>2. j - (8 + C) \in 1 .. 4 /\ (8 + C) + (j - (8 + C)) = 0 + j
      BY <1>1, <2>8
    <3>. QED
      BY <1>5, <3>1, <3>2
  <2>. QED
    BY <1>1, <2>5, <2>6, <2>7, <2>8
<1>10. unpack_resp_buf(b, held) = m
  BY DEF unpack_resp_buf, st
<1>. HIDE DEF m
<1>11. 0 \in Nat /\ Header \in Nat /\ 0 + Header <= Len(b)
  BY Sizes
<1>12. (\A j \in 1 .. Header : b[0 + j] = m[j]) => Part(b, 0, Header) = m
  BY <1>8, <1>11, PartEqual
<1>. QED
  BY <1>9, <1>10, <1>12
------------------------------------------------------------------------------
(* beej_pack and beej_unpack, character by character. *)

PackState(ord, n, buf)           == [ord |-> ord, n |-> n, buf |-> buf]
UnpackState(ord, at, args, max)  == [ord |-> ord, at |-> at, args |-> args, max |-> max]

PackStart   == PackState("none", 1, <<>>)
UnpackStart == UnpackState("none", 0, <<>>, 0)

\* What has been packed after each character.
LEMMA PackSteps ==
    ASSUME NEW fmt, Len(fmt) \in Nat, NEW args
    PROVE  \E f : /\ f[0] = PackStart
                  /\ \A j \in 1 .. Len(fmt) : f[j] = PackChar(f[j - 1], fmt[j], args)
                  /\ beej_pack(fmt, args) = f[Len(fmt)].buf
<1>. DEFINE N == Len(fmt)
            a == PackStart
            X(x, j) == PackChar(x, fmt[j], args)
            F(f, M) == [j \in 0 .. M |-> IF j = 0 THEN a ELSE X(f[j - 1], j)]
            S == {M \in 0 .. N : \E f : f = F(f, M)}
            v == CHOOSE f : f = F(f, N)
<1>1. N \in Nat
  OBVIOUS
<1>2. beej_pack(fmt, args) = v[N].buf
  BY DEF beej_pack, N, a, X, v, PackStart, PackState
<1>. HIDE DEF N, a, X, v
<1>3. 0 \in S
  <2>. DEFINE g == [j \in 0 .. 0 |-> a]
  <2>1. \A j \in 0 .. 0 : j = 0
    OBVIOUS
  <2>2. g = F(g, 0)
    BY <2>1
  <2>3. 0 \in 0 .. N
    BY <1>1
  <2>. QED
    BY <2>2, <2>3
<1>4. ASSUME NEW M \in 1 .. N, M - 1 \in S PROVE M \in S
  <2>1. PICK f : f = F(f, M - 1)
    BY <1>4
  <2>. DEFINE g == [j \in 0 .. M |-> IF j = M THEN X(f[M - 1], M) ELSE f[j]]
  <2>2. ASSUME NEW j \in 0 .. M PROVE g[j] = IF j = 0 THEN a ELSE X(g[j - 1], j)
    <3>1. j # 0 => j - 1 \in 0 .. M - 1 /\ j - 1 # M
      OBVIOUS
    <3>2. j # 0 => g[j - 1] = f[j - 1]
      BY <3>1
    <3>3. j # M => f[j] = IF j = 0 THEN a ELSE X(f[j - 1], j)
      BY <2>1
    <3>4. g[j] = IF j = M THEN X(f[M - 1], M) ELSE f[j]
      OBVIOUS
    <3>. HIDE DEF g
    <3>. QED
      BY <3>2, <3>3, <3>4
  <2>3. g = [j \in 0 .. M |-> g[j]]
    OBVIOUS
  <2>. HIDE DEF g
  <2>4. g = F(g, M)
    BY <2>2, <2>3
  <2>5. M \in 0 .. N
    BY <1>1
  <2>. QED
    BY <2>4, <2>5
<1>. HIDE DEF S
<1>5. 0 .. N \subseteq S
  BY <1>1, <1>3, <1>4, BoundedInduction
<1>6. \E f : f = F(f, N)
  BY <1>1, <1>5 DEF S
<1>7. v = F(v, N)
  BY <1>6 DEF v
<1>8. v[0] = a /\ \A j \in 1 .. N : v[j] = X(v[j - 1], j)
  BY <1>1, <1>7
<1>. QED
  BY <1>2, <1>8 DEF N, a, X

\* What has been unpacked after each character.
LEMMA UnpackSteps ==
    ASSUME NEW fmt, Len(fmt) \in Nat, NEW buf
    PROVE  \E f : /\ f[0] = UnpackStart
                  /\ \A j \in 1 .. Len(fmt) : f[j] = UnpackChar(f[j - 1], fmt[j], buf)
                  /\ beej_unpack(buf, fmt) = f[Len(fmt)]
<1>. DEFINE N == Len(fmt)
            a == UnpackStart
            X(x, j) == UnpackChar(x, fmt[j], buf)
            F(f, M) == [j \in 0 .. M |-> IF j = 0 THEN a ELSE X(f[j - 1], j)]
            S == {M \in 0 .. N : \E f : f = F(f, M)}
            v == CHOOSE f : f = F(f, N)
<1>1. N \in Nat
  OBVIOUS
<1>2. beej_unpack(buf, fmt) = v[N]
  BY DEF beej_unpack, N, a, X, v, UnpackStart, UnpackState
<1>. HIDE DEF N, a, X, v
<1>3. 0 \in S
  <2>. DEFINE g == [j \in 0 .. 0 |-> a]
  <2>1. \A j \in 0 .. 0 : j = 0
    OBVIOUS
  <2>2. g = F(g, 0)
    BY <2>1
  <2>3. 0 \in 0 .. N
    BY <1>1
  <2>. QED
    BY <2>2, <2>3
<1>4. ASSUME NEW M \in 1 .. N, M - 1 \in S PROVE M \in S
  <2>1. PICK f : f = F(f, M - 1)
    BY <1>4
  <2>. DEFINE g == [j \in 0 .. M |-> IF j = M THEN X(f[M - 1], M) ELSE f[j]]
  <2>2. ASSUME NEW j \in 0 .. M PROVE g[j] = IF j = 0 THEN a ELSE X(g[j - 1], j)
    <3>1. j # 0 => j - 1 \in 0 .. M - 1 /\ j - 1 # M
      OBVIOUS
    <3>2. j # 0 => g[j - 1] = f[j - 1]
      BY <3>1
    <3>3. j # M => f[j] = IF j = 0 THEN a ELSE X(f[j - 1], j)
      BY <2>1
    <3>4. g[j] = IF j = M THEN X(f[M - 1], M) ELSE f[j]
      OBVIOUS
    <3>. HIDE DEF g
    <3>. QED
      BY <3>2, <3>3, <3>4
  <2>3. g = [j \in 0 .. M |-> g[j]]
    OBVIOUS
  <2>. HIDE DEF g
  <2>4. g = F(g, M)
    BY <2>2, <2>3
  <2>5. M \in 0 .. N
    BY <1>1
  <2>. QED
    BY <2>4, <2>5
<1>. HIDE DEF S
<1>5. 0 .. N \subseteq S
  BY <1>1, <1>3, <1>4, BoundedInduction
<1>6. \E f : f = F(f, N)
  BY <1>1, <1>5 DEF S
<1>7. v = F(v, N)
  BY <1>6 DEF v
<1>8. v[0] = a /\ \A j \in 1 .. N : v[j] = X(v[j - 1], j)
  BY <1>1, <1>7
<1>. QED
  BY <1>2, <1>8 DEF N, a, X

\* The parts, one behind the other.
LEMMA JointSteps ==
    ASSUME NEW parts, Len(parts) \in Nat
    PROVE  \E f : /\ f[0] = <<>>
                  /\ \A j \in 1 .. Len(parts) : f[j] = f[j - 1] \o parts[j]
                  /\ Joint(parts) = f[Len(parts)]
<1>. DEFINE N == Len(parts)
            a == <<>>
            X(x, j) == x \o parts[j]
            F(f, M) == [j \in 0 .. M |-> IF j = 0 THEN a ELSE X(f[j - 1], j)]
            S == {M \in 0 .. N : \E f : f = F(f, M)}
            v == CHOOSE f : f = F(f, N)
<1>1. N \in Nat
  OBVIOUS
<1>2. Joint(parts) = v[N]
  BY DEF Joint, N, a, X, v
<1>. HIDE DEF N, a, X, v
<1>3. 0 \in S
  <2>. DEFINE g == [j \in 0 .. 0 |-> a]
  <2>1. \A j \in 0 .. 0 : j = 0
    OBVIOUS
  <2>2. g = F(g, 0)
    BY <2>1
  <2>3. 0 \in 0 .. N
    BY <1>1
  <2>. QED
    BY <2>2, <2>3
<1>4. ASSUME NEW M \in 1 .. N, M - 1 \in S PROVE M \in S
  <2>1. PICK f : f = F(f, M - 1)
    BY <1>4
  <2>. DEFINE g == [j \in 0 .. M |-> IF j = M THEN X(f[M - 1], M) ELSE f[j]]
  <2>2. ASSUME NEW j \in 0 .. M PROVE g[j] = IF j = 0 THEN a ELSE X(g[j - 1], j)
    <3>1. j # 0 => j - 1 \in 0 .. M - 1 /\ j - 1 # M
      OBVIOUS
    <3>2. j # 0 => g[j - 1] = f[j - 1]
      BY <3>1
    <3>3. j # M => f[j] = IF j = 0 THEN a ELSE X(f[j - 1], j)
      BY <2>1
    <3>4. g[j] = IF j = M THEN X(f[M - 1], M) ELSE f[j]
      OBVIOUS
    <3>. HIDE DEF g
    <3>. QED
      BY <3>2, <3>3, <3>4
  <2>3. g = [j \in 0 .. M |-> g[j]]
    OBVIOUS
  <2>. HIDE DEF g
  <2>4. g = F(g, M)
    BY <2>2, <2>3
  <2>5. M \in 0 .. N
    BY <1>1
  <2>. QED
    BY <2>4, <2>5
<1>. HIDE DEF S
<1>5. 0 .. N \subseteq S
  BY <1>1, <1>3, <1>4, BoundedInduction
<1>6. \E f : f = F(f, N)
  BY <1>1, <1>5 DEF S
<1>7. v = F(v, N)
  BY <1>6 DEF v
<1>8. v[0] = a /\ \A j \in 1 .. N : v[j] = X(v[j - 1], j)
  BY <1>1, <1>7
<1>. QED
  BY <1>2, <1>8 DEF N, a, X

\* A limit, digit by digit.
LEMMA LimitSteps ==
    ASSUME NEW digits, Len(digits) \in Nat
    PROVE  \E f : /\ f[0] = 0
                  /\ \A j \in 1 .. Len(digits) : f[j] = Limit(f[j - 1], digits[j])
                  /\ LimitOf(digits) = f[Len(digits)]
<1>. DEFINE N == Len(digits)
            a == 0
            X(x, j) == Limit(x, digits[j])
            F(f, M) == [j \in 0 .. M |-> IF j = 0 THEN a ELSE X(f[j - 1], j)]
            S == {M \in 0 .. N : \E f : f = F(f, M)}
            v == CHOOSE f : f = F(f, N)
<1>1. N \in Nat
  OBVIOUS
<1>2. LimitOf(digits) = v[N]
  BY DEF LimitOf, N, a, X, v
<1>. HIDE DEF N, a, X, v
<1>3. 0 \in S
  <2>. DEFINE g == [j \in 0 .. 0 |-> a]
  <2>1. \A j \in 0 .. 0 : j = 0
    OBVIOUS
  <2>2. g = F(g, 0)
    BY <2>1
  <2>3. 0 \in 0 .. N
    BY <1>1
  <2>. QED
    BY <2>2, <2>3
<1>4. ASSUME NEW M \in 1 .. N, M - 1 \in S PROVE M \in S
  <2>1. PICK f : f = F(f, M - 1)
    BY <1>4
  <2>. DEFINE g == [j \in 0 .. M |-> IF j = M THEN X(f[M - 1], M) ELSE f[j]]
  <2>2. ASSUME NEW j \in 0 .. M PROVE g[j] = IF j = 0 THEN a ELSE X(g[j - 1], j)
    <3>1. j # 0 => j - 1 \in 0 .. M - 1 /\ j - 1 # M
      OBVIOUS
    <3>2. j # 0 => g[j - 1] = f[j - 1]
      BY <3>1
    <3>3. j # M => f[j] = IF j = 0 THEN a ELSE X(f[j - 1], j)
      BY <2>1
    <3>4. g[j] = IF j = M THEN X(f[M - 1], M) ELSE f[j]
      OBVIOUS
    <3>. HIDE DEF g
    <3>. QED
      BY <3>2, <3>3, <3>4
  <2>3. g = [j \in 0 .. M |-> g[j]]
    OBVIOUS
  <2>. HIDE DEF g
  <2>4. g = F(g, M)
    BY <2>2, <2>3
  <2>5. M \in 0 .. N
    BY <1>1
  <2>. QED
    BY <2>4, <2>5
<1>. HIDE DEF S
<1>5. 0 .. N \subseteq S
  BY <1>1, <1>3, <1>4, BoundedInduction
<1>6. \E f : f = F(f, N)
  BY <1>1, <1>5 DEF S
<1>7. v = F(v, N)
  BY <1>6 DEF v
<1>8. v[0] = a /\ \A j \in 1 .. N : v[j] = X(v[j - 1], j)
  BY <1>1, <1>7
<1>. QED
  BY <1>2, <1>8 DEF N, a, X

\* The powers of two.
LEMMA BitSteps ==
    ASSUME NEW n \in Nat
    PROVE  \E f : /\ f[0] = 1
                  /\ \A j \in 1 .. n : f[j] = 2 * f[j - 1]
                  /\ Bit(n) = f[n]
<1>. DEFINE N == n
            a == 1
            X(x, j) == 2 * x
            F(f, M) == [j \in 0 .. M |-> IF j = 0 THEN a ELSE X(f[j - 1], j)]
            S == {M \in 0 .. N : \E f : f = F(f, M)}
            v == CHOOSE f : f = F(f, N)
<1>1. N \in Nat
  OBVIOUS
<1>2. Bit(n) = v[N]
  BY DEF Bit, N, a, X, v
<1>. HIDE DEF N, a, X, v
<1>3. 0 \in S
  <2>. DEFINE g == [j \in 0 .. 0 |-> a]
  <2>1. \A j \in 0 .. 0 : j = 0
    OBVIOUS
  <2>2. g = F(g, 0)
    BY <2>1
  <2>3. 0 \in 0 .. N
    BY <1>1
  <2>. QED
    BY <2>2, <2>3
<1>4. ASSUME NEW M \in 1 .. N, M - 1 \in S PROVE M \in S
  <2>1. PICK f : f = F(f, M - 1)
    BY <1>4
  <2>. DEFINE g == [j \in 0 .. M |-> IF j = M THEN X(f[M - 1], M) ELSE f[j]]
  <2>2. ASSUME NEW j \in 0 .. M PROVE g[j] = IF j = 0 THEN a ELSE X(g[j - 1], j)
    <3>1. j # 0 => j - 1 \in 0 .. M - 1 /\ j - 1 # M
      OBVIOUS
    <3>2. j # 0 => g[j - 1] = f[j - 1]
      BY <3>1
    <3>3. j # M => f[j] = IF j = 0 THEN a ELSE X(f[j - 1], j)
      BY <2>1
    <3>4. g[j] = IF j = M THEN X(f[M - 1], M) ELSE f[j]
      OBVIOUS
    <3>. HIDE DEF g
    <3>. QED
      BY <3>2, <3>3, <3>4
  <2>3. g = [j \in 0 .. M |-> g[j]]
    OBVIOUS
  <2>. HIDE DEF g
  <2>4. g = F(g, M)
    BY <2>2, <2>3
  <2>5. M \in 0 .. N
    BY <1>1
  <2>. QED
    BY <2>4, <2>5
<1>. HIDE DEF S
<1>5. 0 .. N \subseteq S
  BY <1>1, <1>3, <1>4, BoundedInduction
<1>6. \E f : f = F(f, N)
  BY <1>1, <1>5 DEF S
<1>7. v = F(v, N)
  BY <1>6 DEF v
<1>8. v[0] = a /\ \A j \in 1 .. N : v[j] = X(v[j - 1], j)
  BY <1>1, <1>7
<1>. QED
  BY <1>2, <1>8 DEF N, a, X
------------------------------------------------------------------------------
(* Powers of two, and the widths of the fields. *)

LEMMA BitNext ==
    ASSUME NEW n \in Nat
    PROVE  Bit(0) = 1 /\ Bit(n + 1) = 2 * Bit(n)
<1>1. PICK z : z[0] = 1 /\ Bit(0) = z[0]
  <2>1. 0 \in Nat
    OBVIOUS
  <2>. QED
    BY <2>1, BitSteps
<1>2. PICK f : f[0] = 1 /\ (\A j \in 1 .. n : f[j] = 2 * f[j - 1]) /\ Bit(n) = f[n]
  BY BitSteps
<1>3. PICK g : g[0] = 1 /\ (\A j \in 1 .. n + 1 : g[j] = 2 * g[j - 1]) /\ Bit(n + 1) = g[n + 1]
  <2>1. n + 1 \in Nat
    OBVIOUS
  <2>. QED
    BY <2>1, BitSteps
<1>. DEFINE S == {j \in 0 .. n : f[j] = g[j]}
<1>4. 0 \in S
  BY <1>2, <1>3
<1>5. \A j \in 1 .. n : j - 1 \in S => j \in S
  BY <1>2, <1>3
<1>6. 0 .. n \subseteq S
  <2>. HIDE DEF S
  <2>. QED
    BY <1>4, <1>5, BoundedInduction
<1>7. f[n] = g[n]
  BY <1>6
<1>8. n + 1 \in 1 .. n + 1 /\ (n + 1) - 1 = n
  OBVIOUS
<1>9. g[n + 1] = 2 * g[n]
  BY <1>3, <1>8
<1>. QED
  BY <1>1, <1>2, <1>3, <1>7, <1>9

LEMMA BitTyped ==
    ASSUME NEW n \in Nat
    PROVE  Bit(n) \in Nat /\ Bit(n) > 0
<1>. DEFINE S == {m \in Nat : Bit(m) \in Nat /\ Bit(m) > 0}
<1>1. 0 \in S
  BY BitNext
<1>2. ASSUME NEW m \in Nat, m \in S PROVE m + 1 \in S
  <2>1. Bit(m + 1) = 2 * Bit(m)
    BY BitNext
  <2>. QED
    BY <1>2, <2>1
<1>3. Nat \subseteq S
  <2>. HIDE DEF S
  <2>. QED
    BY <1>1, <1>2, Induction
<1>. QED
  BY <1>3

LEMMA BitSum ==
    ASSUME NEW a \in Nat, NEW b \in Nat
    PROVE  Bit(a + b) = Bit(a) * Bit(b)
<1>. DEFINE S == {m \in Nat : Bit(a + m) = Bit(a) * Bit(m)}
<1>1. 0 \in S
  <2>1. Bit(0) = 1 /\ Bit(a) \in Nat /\ a + 0 = a
    BY BitNext, BitTyped
  <2>. QED
    BY <2>1
<1>2. ASSUME NEW m \in Nat, m \in S PROVE m + 1 \in S
  <2>1. Bit(m + 1) = 2 * Bit(m) /\ Bit((a + m) + 1) = 2 * Bit(a + m)
    BY BitNext
  <2>2. Bit(a) \in Nat /\ Bit(m) \in Nat
    BY BitTyped
  <2>3. Bit(a + m) = Bit(a) * Bit(m) /\ a + (m + 1) = (a + m) + 1
    BY <1>2
  <2>. DEFINE x == Bit(a)
              y == Bit(m)
  <2>. HIDE DEF x, y
  <2>4. x * (2 * y) = 2 * (x * y)
    BY <2>2 DEF x, y
  <2>5. Bit(a + (m + 1)) = Bit(a) * Bit(m + 1)
    BY <2>1, <2>3, <2>4 DEF x, y
  <2>. QED
    BY <2>5
<1>3. Nat \subseteq S
  <2>. HIDE DEF S
  <2>. QED
    BY <1>1, <1>2, Induction
<1>. QED
  BY <1>3

\* A field of w bytes has as many values as ByteBits * w bits have.
LEMMA Spaces ==
    ASSUME NEW ch \in Fields
    PROVE  /\ Width(ch) \in {1, 2, 4, 8} /\ Space(ch) \in Nat /\ Space(ch) > 0
           /\ Space(ch) = Bit(ByteBits * Width(ch))
           /\ Width(ch) = 1 => Space(ch) = Base
           /\ Width(ch) = 2 => Space(ch) = Short
           /\ Width(ch) = 4 => Space(ch) = Long
           /\ Width(ch) = 8 => Space(ch) = Quad
<1>. DEFINE B == ByteBits
<1>1. B \in Nat /\ Base = Bit(B)
  BY BitsAssumption DEF BitsAssumption
<1>. HIDE DEF B
<1>2. Short = Bit(2 * B)
  <2>1. Bit(B + B) = Bit(B) * Bit(B)
    BY <1>1, BitSum
  <2>2. B + B = 2 * B
    BY <1>1
  <2>. QED
    BY <1>1, <2>1, <2>2 DEF Short
<1>3. Long = Bit(4 * B)
  <2>1. 2 * B \in Nat /\ 2 * B + 2 * B = 4 * B
    BY <1>1
  <2>2. Bit(2 * B + 2 * B) = Bit(2 * B) * Bit(2 * B)
    BY <2>1, BitSum
  <2>. QED
    BY <1>2, <2>1, <2>2 DEF Long
<1>4. Quad = Bit(8 * B)
  <2>1. 4 * B \in Nat /\ 4 * B + 4 * B = 8 * B
    BY <1>1
  <2>2. Bit(4 * B + 4 * B) = Bit(4 * B) * Bit(4 * B)
    BY <2>1, BitSum
  <2>. QED
    BY <1>3, <2>1, <2>2 DEF Quad
<1>5. Width(ch) \in {1, 2, 4, 8}
  BY DEF Fields, Signed, Floats, Width
<1>6. /\ Width(ch) = 1 => Space(ch) = Base
      /\ Width(ch) = 2 => Space(ch) = Short
      /\ Width(ch) = 4 => Space(ch) = Long
      /\ Width(ch) = 8 => Space(ch) = Quad
  BY DEF Space
<1>7. Base \in Nat /\ Short \in Nat /\ Long \in Nat /\ Quad \in Nat
      /\ Base > 0 /\ Short > 0 /\ Long > 0 /\ Quad > 0
  BY Powers
<1>8. Space(ch) = Bit(ByteBits * Width(ch))
  <2>1. ByteBits * 1 = B /\ ByteBits * 2 = 2 * B /\ ByteBits * 4 = 4 * B /\ ByteBits * 8 = 8 * B
    BY <1>1 DEF B
  <2>. QED
    BY <1>1, <1>2, <1>3, <1>4, <1>5, <1>6, <2>1
<1>. QED
  BY <1>5, <1>6, <1>7, <1>8

------------------------------------------------------------------------------
(* A field of the format. *)

\* A byte is packed as itself.
LEMMA ByteRead ==
    ASSUME NEW v \in Nat, v < Base
    PROVE  Num(LE(v, 1)) = v
<1>1. v \in Byte /\ Base * 0 = 0 /\ v % Base = v
  <2>1. Base \in Nat /\ Base > 0 /\ v \in Figures(Base) /\ 0 \in Int /\ Base * 0 + v = v
    BY Powers DEF Figures
  <2>2. (Base * 0 + v) % Base = v
    BY <2>1, Quotient
  <2>. QED
    BY <2>1, <2>2 DEF Figures, Byte
<1>. DEFINE s == LE(v, 1)
<1>2. Len(s) = 1 /\ s[1] = v
  <2>1. 1 \in 1 .. 8 /\ 1 \in 1 .. 1
    OBVIOUS
  <2>2. Len(s) = 1 /\ \A j \in 1 .. 1 : s[j] = Low(v)[j]
    BY <2>1, LEBytes
  <2>3. Low(v)[1] = v % Base
    BY DEF Low
  <2>. QED
    BY <1>1, <2>1, <2>2, <2>3
<1>. HIDE DEF s
<1>3. Num(s) = v + Base * (0 + Base * (0 + Base * (0 + Base * (0 + Base * (0 + Base * (0 + Base * 0))))))
  BY <1>2 DEF Num
<1>4. 0 + Base * 0 = 0
  BY <1>1
<1>. QED
  BY <1>1, <1>3, <1>4 DEF s

\* The bytes of a field are as many as its width, and its number is read from them in the
\* order they were packed in; a field of one byte, in any order.
LEMMA OrderedIs ==
    ASSUME NEW ch \in Fields, NEW n \in 0 .. Space(ch) - 1, NEW ord
    PROVE  LET s == Ordered(n, Width(ch), ord)
           IN  /\ s \in Seq(Byte) /\ Len(s) = Width(ch)
               /\ \A back : ((ord = "<" <=> back = "<") \/ Width(ch) = 1) => Value(s, back) = n
<1>. DEFINE w == Width(ch)
            le == LE(n, w)
<1>1. n \in Nat /\ w \in {1, 2, 4, 8} /\ w \in 1 .. 8
      /\ (w = 1 => n < Base) /\ (w = 2 => n < Short) /\ (w = 4 => n < Long) /\ (w = 8 => n < Quad)
  BY Spaces
<1>. HIDE DEF w
<1>2. le \in Seq(Byte) /\ Len(le) = w
  BY <1>1, LEBytes
<1>3. Num(le) = n
  <2>1. CASE w = 1
    BY <1>1, <2>1, ByteRead
  <2>2. CASE w # 1
    BY <1>1, <2>2, WordRead DEF Fits
  <2>. QED
    BY <2>1, <2>2
<1>. HIDE DEF le
<1>4. Reversed(le) \in Seq(Byte) /\ Len(Reversed(le)) = w /\ Reversed(Reversed(le)) = le
  BY <1>2, Turned
<1>5. w = 1 => Reversed(le) = le
  <2>. SUFFICES ASSUME w = 1 PROVE Reversed(le) = le
    OBVIOUS
  <2>1. \A j \in 1 .. Len(le) : Reversed(le)[j] = le[j]
    BY <1>2 DEF Reversed
  <2>. QED
    BY <1>2, <1>4, <2>1, SeqEqual
<1>6. Ordered(n, w, ord) = IF ord = "<" THEN le ELSE Reversed(le)
  BY DEF Ordered, BE, le
<1>7. \A s, back : Value(s, back) = IF back = "<" THEN Num(s) ELSE Num(Reversed(s))
  BY DEF Value
<1>. DEFINE s == Ordered(n, w, ord)
<1>8. s \in Seq(Byte) /\ Len(s) = w
  BY <1>2, <1>4, <1>6
<1>9. ASSUME NEW back, (ord = "<" <=> back = "<") \/ w = 1 PROVE Value(s, back) = n
  BY <1>3, <1>4, <1>5, <1>6, <1>7, <1>9
<1>. QED
  BY <1>8, <1>9 DEF w
\* An integer of the field's type is taken out as it was put in.
LEMMA IntegerBack ==
    ASSUME NEW ch \in Fields, ch \notin Floats, NEW v, Typed(v, ch)
    PROVE  Encoded(v, ch) \in 0 .. Space(ch) - 1 /\ Decoded(Encoded(v, ch), ch) = v
<1>. DEFINE S == Space(ch)
            r == v % S
            q == v \div S
<1>1. S \in Nat /\ S > 0
  BY Spaces
<1>2. Encoded(v, ch) = r
  BY DEF Encoded
<1>3. \A n : Decoded(n, ch) = IF ch \in Signed /\ 2 * n >= S THEN n - S ELSE n
  BY DEF Decoded, Resigned
<1>4. v \in Int /\ (ch \in Signed => -S <= 2 * v /\ 2 * v < S) /\ (ch \notin Signed => 0 <= v /\ v < S)
  <2>1. CASE ch \in Signed
    BY <2>1 DEF Typed
  <2>2. CASE ch \notin Signed
    <3>1. v \in 0 .. Space(ch) - 1
      BY <2>2 DEF Typed
    <3>. QED
      BY <1>1, <2>2, <3>1
  <2>. QED
    BY <2>1, <2>2
<1>. HIDE DEF S
<1>5. r \in Nat /\ r < S /\ q \in Int /\ v = r + S * q
  BY <1>1, <1>4, Division
<1>6. v < S /\ -S <= v
  BY <1>1, <1>4
<1>. HIDE DEF q, r
<1>7. q = 0 \/ q = -1
  <2>1. ASSUME q >= 1 PROVE FALSE
    <3>1. S * q = S + S * (q - 1) /\ S * (q - 1) >= 0
      BY <1>1, <1>5, <2>1
    <3>2. S * q \in Int /\ S * (q - 1) \in Int
      BY <1>1, <1>5
    <3>. QED
      BY <1>1, <1>5, <1>6, <3>1, <3>2
  <2>2. ASSUME q <= -2 PROVE FALSE
    <3>1. S * q = S * (q + 2) - 2 * S /\ S * (q + 2) <= 0
      BY <1>1, <1>5, <2>2
    <3>2. S * q \in Int /\ S * (q + 2) \in Int
      BY <1>1, <1>5
    <3>. QED
      BY <1>1, <1>5, <1>6, <3>1, <3>2
  <2>. QED
    BY <1>5, <2>1, <2>2
<1>8. v = r \/ v = r - S
  <2>1. S * 0 = 0 /\ S * (-1) = -S
    BY <1>1
  <2>. QED
    BY <1>1, <1>5, <1>7, <2>1
<1>9. r \in 0 .. Space(ch) - 1
  BY <1>1, <1>5 DEF S
<1>10. (IF ch \in Signed /\ 2 * r >= S THEN r - S ELSE r) = v
  BY <1>1, <1>4, <1>5, <1>8
<1>. QED
  BY <1>2, <1>3, <1>9, <1>10

\* So is a floating point number whose significand the field has room for.
LEMMA FloatBack ==
    ASSUME NEW bits \in Nat, NEW e \in 1 .. bits - 1, NEW v, Holds(bits, e, v)
    PROVE  /\ pack754(v, bits, e) \in 0 .. Bit(bits) - 1
           /\ unpack754(pack754(v, bits, e), bits, e) = v
<1>. DEFINE s == SigBits(bits, e)
            P0 == Bit(Precision)
            P1 == Bit(Precision + 1)
            S == Bit(s)
            T == Bit(s + 1)
            E == Bit(e)
            H == Bit(bits - 1)
            fr == v.frac
            x == v.shift + Bias(e)
            k == (fr * S) \div P0
            g == IF v.neg THEN 1 ELSE 0
            sig == (fr * (T + 1)) \div P1
            n == pack754(v, bits, e)
<1>1. Precision \in Nat /\ s \in Nat /\ e \in Nat /\ e - 1 \in Nat /\ bits - 1 \in Nat /\ bits - 1 = e + s
  BY BitsAssumption DEF BitsAssumption, SigBits
<1>2. /\ P0 \in Nat /\ P0 > 0 /\ P1 = 2 * P0 /\ S \in Nat /\ S > 0 /\ T = 2 * S /\ E \in Nat /\ E > 0
      /\ H \in Nat /\ H > 0 /\ Bit(bits) = 2 * H /\ Bias(e) \in Int
  <2>1. P0 \in Nat /\ P0 > 0 /\ S \in Nat /\ S > 0 /\ E \in Nat /\ E > 0 /\ H \in Nat /\ H > 0
    BY <1>1, BitTyped
  <2>2. P1 = 2 * P0 /\ T = 2 * S
    BY <1>1, BitNext
  <2>3. Bit((bits - 1) + 1) = 2 * H /\ (bits - 1) + 1 = bits
    BY <1>1, BitNext
  <2>4. Bias(e) \in Int
    BY <1>1, BitTyped DEF Bias
  <2>. QED
    BY <2>1, <2>2, <2>3, <2>4
<1>3. H = E * S
  BY <1>1, BitSum
<1>4. /\ v = [neg |-> v.neg, frac |-> v.frac, shift |-> v.shift] /\ v.neg \in BOOLEAN
      /\ fr \in Nat /\ fr < P0 /\ v.shift \in Int /\ x \in Nat /\ x < E
      /\ (fr * S) % P0 = 0 /\ (v.neg \/ fr # 0 \/ x # 0) /\ v # Zero /\ v.shift = x - Bias(e)
  <2>1. v \in [neg : BOOLEAN, frac : 0 .. P0 - 1, shift : -Bias(e) .. E - 1 - Bias(e)]
    BY DEF Holds
  <2>2. v = [neg |-> v.neg, frac |-> v.frac, shift |-> v.shift] /\ v.neg \in BOOLEAN
        /\ fr \in 0 .. P0 - 1 /\ v.shift \in -Bias(e) .. E - 1 - Bias(e)
    BY <2>1
  <2>3. (fr * S) % P0 = 0 /\ (v.neg \/ fr # 0 \/ v.shift # -Bias(e))
    BY DEF Holds
  <2>. HIDE DEF P0, S, E
  <2>4. fr \in Nat /\ fr < P0 /\ v.shift \in Int
    BY <1>2, <2>2
  <2>5. x \in Nat /\ x < E /\ v.shift = x - Bias(e) /\ (v.shift # -Bias(e) => x # 0)
    BY <1>2, <2>2
  <2>6. v # Zero
    <3>1. Zero.frac = -1
      BY DEF Zero
    <3>. QED
      BY <2>4, <3>1
  <2>. QED
    BY <2>2, <2>3, <2>4, <2>5, <2>6
<1>5. n = (IF v.neg THEN H ELSE 0) + x * S + IF sig = S /\ x % 2 = 1 THEN 0 ELSE sig
  BY <1>4 DEF pack754, s
<1>6. \A m : unpack754(m, bits, e) =
               IF m = 0 THEN Zero
               ELSE [neg |-> (m \div H) % 2 = 1, frac |-> ((m % S) * P0) \div S,
                     shift |-> ((m \div S) % E) - Bias(e)]
  BY DEF unpack754
<1>. HIDE DEF s, P0, P1, S, T, E, H, n
<1>. HIDE DEF fr, x
<1>7. k \in Nat /\ fr * S = P0 * k
  <2>. DEFINE a == fr * S
  <2>1. a \in Nat /\ a % P0 = 0
    BY <1>2, <1>4
  <2>. HIDE DEF a
  <2>2. a \div P0 \in Nat /\ a = (a % P0) + P0 * (a \div P0)
    BY <1>2, <2>1, Division
  <2>3. P0 * (a \div P0) \in Nat
    BY <1>2, <2>2
  <2>. QED
    BY <2>1, <2>2, <2>3 DEF a
<1>. HIDE DEF k
<1>8. k < S
  <2>1. ASSUME k >= S PROVE FALSE
    <3>1. P0 * k >= P0 * S
      BY <1>2, <1>7, <2>1
    <3>2. fr * S < P0 * S
      BY <1>2, <1>4
    <3>. QED
      BY <1>2, <1>4, <1>7, <3>1, <3>2
  <2>. QED
    BY <1>2, <1>7, <2>1
<1>9. sig = k
  <2>1. fr * (T + 1) = P1 * k + fr
    <3>1. fr * (2 * S + 1) = 2 * (fr * S) + fr
      BY <1>2, <1>4
    <3>2. 2 * (P0 * k) = (2 * P0) * k
      BY <1>2, <1>7
    <3>. QED
      BY <1>2, <1>7, <3>1, <3>2
  <2>2. P1 \in Nat /\ P1 > 0 /\ fr \in Figures(P1) /\ k \in Int
    BY <1>2, <1>4, <1>7 DEF Figures
  <2>3. (P1 * k + fr) \div P1 = k
    BY <2>2, Quotient
  <2>. QED
    BY <2>1, <2>3
<1>. HIDE DEF sig
<1>10. n = S * (E * g + x) + k /\ g \in 0 .. 1 /\ (v.neg <=> g = 1)
  <2>1. g \in 0 .. 1 /\ (v.neg <=> g = 1) /\ (IF v.neg THEN H ELSE 0) = H * g
    BY <1>2, <1>4
  <2>2. sig # S
    BY <1>2, <1>7, <1>8, <1>9
  <2>3. n = H * g + x * S + k
    BY <1>5, <1>9, <2>1, <2>2
  <2>. HIDE DEF g
  <2>4. H * g = S * (E * g) /\ x * S = S * x /\ S * (E * g) + S * x = S * (E * g + x)
    <3>1. (E * S) * g = S * (E * g)
      BY <1>2, <2>1, SMTT(30)
    <3>2. E * g \in Nat
      BY <1>2, <2>1
    <3>. DEFINE y == E * g
    <3>. HIDE DEF y
    <3>3. y \in Nat => x * S = S * x /\ S * y + S * x = S * (y + x)
      BY <1>2, <1>4, SMTT(30)
    <3>. QED
      BY <1>3, <3>1, <3>2, <3>3 DEF y
  <2>. QED
    BY <2>1, <2>3, <2>4
<1>. HIDE DEF g
<1>. DEFINE m == E * g + x
<1>11. m \in Nat /\ m \div E = g /\ m % E = x
  <2>1. E > 0 /\ g \in Int /\ x \in Figures(E)
    BY <1>2, <1>4, <1>10 DEF Figures
  <2>2. E * g \in Nat
    BY <1>2, <1>10
  <2>3. E \in Nat
    BY <1>2
  <2>4. (E * g + x) \div E = g /\ (E * g + x) % E = x
    BY <2>1, <2>3, Quotient
  <2>. QED
    BY <1>4, <2>2, <2>4
<1>12. m < 2 * E
  <2>1. E * 0 = 0 /\ E * 1 = E /\ (g = 0 \/ g = 1)
    BY <1>2, <1>10
  <2>. QED
    BY <1>2, <1>4, <2>1
<1>. HIDE DEF m
<1>13. n \div S = m /\ n % S = k
  <2>1. S > 0 /\ m \in Int /\ k \in Figures(S)
    BY <1>2, <1>7, <1>8, <1>11 DEF Figures
  <2>2. (S * m + k) \div S = m /\ (S * m + k) % S = k
    BY <1>2, <2>1, Quotient
  <2>. QED
    BY <1>10, <2>2 DEF m
<1>14. n \div H = g
  <2>. DEFINE r == S * x + k
  <2>1. S * (E * g + x) = H * g + S * x
    <3>1. (E * S) * g = S * (E * g)
      BY <1>2, <1>10, SMTT(30)
    <3>2. E * g \in Nat
      BY <1>2, <1>10
    <3>. DEFINE y == E * g
    <3>. HIDE DEF y
    <3>3. y \in Nat => S * y + S * x = S * (y + x)
      BY <1>2, <1>4, SMTT(30)
    <3>. QED
      BY <1>3, <3>1, <3>2, <3>3 DEF y
  <2>2. S * x \in Nat /\ H * g \in Nat
    <3>1. S \in Nat /\ x \in Nat /\ H \in Nat /\ g \in Nat
      BY <1>2, <1>4, <1>10
    <3>. QED
      BY <3>1
  <2>3. n = H * g + r
    BY <1>7, <1>10, <2>1, <2>2
  <2>4. r \in Nat /\ r < H
    <3>1. S * x <= S * (E - 1)
      BY <1>2, <1>4
    <3>2. S * (E - 1) = E * S - S /\ E * S \in Nat
      BY <1>2
    <3>. QED
      BY <1>2, <1>3, <1>7, <1>8, <2>2, <3>1, <3>2
  <2>. HIDE DEF r
  <2>5. H > 0 /\ g \in Int /\ r \in Figures(H)
    BY <1>10, <1>2, <2>4 DEF Figures
  <2>6. (H * g + r) \div H = g
    BY <1>2, <2>5, Quotient
  <2>. QED
    BY <2>3, <2>6
<1>15. n \in 0 .. Bit(bits) - 1
  <2>1. n = S * m + k
    BY <1>10 DEF m
  <2>2. S * m <= S * (2 * E - 1)
    BY <1>2, <1>11, <1>12
  <2>3. S * (2 * E - 1) = 2 * (E * S) - S /\ E * S \in Nat
    BY <1>2
  <2>4. S * m \in Nat
    BY <1>2, <1>11
  <2>. QED
    BY <1>2, <1>3, <1>7, <1>8, <2>1, <2>2, <2>3, <2>4
<1>16. n # 0
  <2>. SUFFICES ASSUME n = 0 PROVE FALSE
    OBVIOUS
  <2>1. n = S * m + k /\ S * m \in Nat
    BY <1>2, <1>10, <1>11 DEF m
  <2>2. S * m = 0 /\ k = 0
    BY <1>7, <2>1
  <2>3. m = 0
    BY <1>2, <1>11, <2>2
  <2>4. E * g \in Nat /\ E * g = 0 /\ x = 0
    BY <1>2, <1>4, <1>10, <2>3 DEF m
  <2>5. g = 0
    BY <1>2, <1>10, <2>4
  <2>6. P0 * 0 = 0 /\ fr * S = 0
    BY <1>2, <1>7, <2>2
  <2>7. fr = 0
    BY <1>2, <1>4, <2>6
  <2>. QED
    BY <1>4, <1>10, <2>4, <2>5, <2>7
<1>17. (k * P0) \div S = fr
  <2>1. k * P0 = S * fr + 0
    BY <1>2, <1>4, <1>7
  <2>2. S > 0 /\ fr \in Int /\ 0 \in Figures(S)
    BY <1>2, <1>4 DEF Figures
  <2>3. (S * fr + 0) \div S = fr
    BY <1>2, <2>2, Quotient
  <2>. QED
    BY <2>1, <2>3
<1>18. g % 2 = g
  BY <1>10
<1>19. unpack754(n, bits, e) = [neg |-> g = 1, frac |-> fr, shift |-> x - Bias(e)]
  BY <1>6, <1>11, <1>13, <1>14, <1>16, <1>17, <1>18
<1>20. (g = 1) = v.neg
  BY <1>4, <1>10
<1>21. unpack754(n, bits, e) = v
  BY <1>4, <1>19, <1>20 DEF fr
<1>. QED
  BY <1>15, <1>21 DEF n
\* What is packed for a value of a field's type fits its field, and is the value unpacked.
LEMMA FieldBack ==
    ASSUME NEW ch \in Fields, NEW v, Typed(v, ch)
    PROVE  Encoded(v, ch) \in 0 .. Space(ch) - 1 /\ Decoded(Encoded(v, ch), ch) = v
<1>1. CASE ch \in Floats
  <2>. DEFINE bits == ByteBits * Width(ch)
              e == ExpBits[ch]
  <2>1. bits \in Nat /\ e \in 1 .. bits - 1
    <3>1. ByteBits \in Nat /\ Width(ch) \in Nat
      BY Spaces, BitsAssumption DEF BitsAssumption
    <3>2. e \in 1 .. bits - 1
      BY <1>1, BitsAssumption DEF BitsAssumption
    <3>. QED
      BY <3>1, <3>2
  <2>2. Encoded(v, ch) = pack754(v, bits, e) /\ \A n : Decoded(n, ch) = unpack754(n, bits, e)
    BY <1>1 DEF Encoded, Decoded
  <2>3. Space(ch) = Bit(bits) /\ Space(ch) \in Nat /\ Space(ch) > 0
    BY Spaces
  <2>4. v = Zero \/ Holds(bits, e, v)
    BY <1>1 DEF Typed
  <2>. HIDE DEF bits, e
  <2>5. CASE v = Zero
    <3>1. pack754(v, bits, e) = 0 /\ unpack754(0, bits, e) = Zero
      BY <2>5 DEF pack754, unpack754
    <3>. QED
      BY <2>2, <2>3, <2>5, <3>1
  <2>6. CASE Holds(bits, e, v)
    BY <2>1, <2>2, <2>3, <2>6, FloatBack
  <2>. QED
    BY <2>4, <2>5, <2>6
<1>2. CASE ch \notin Floats
  BY <1>2, IntegerBack
<1>. QED
  BY <1>1, <1>2

\* The kinds of characters.
LEMMA Kinds ==
    ASSUME NEW ch
    PROVE  /\ ch \in Fields => ch \notin Orders
           /\ ch = "s" => ch \notin Orders /\ ch \notin Fields
           /\ Digit(ch) => ch \notin Orders /\ ch \notin Fields /\ ch # "s"
<1>1. ch \in Fields => ch \notin Orders
  BY DEF Fields, Signed, Floats, Orders
<1>2. ch = "s" => ch \notin Orders /\ ch \notin Fields
  BY DEF Fields, Signed, Floats, Orders
<1>3. Digit(ch) => ch \notin Orders /\ ch \notin Fields /\ ch # "s"
  <2>. SUFFICES ASSUME Digit(ch) PROVE ch \notin Orders /\ ch \notin Fields /\ ch # "s"
    OBVIOUS
  <2>1. PICK d \in 1 .. 10 : ch = Numeral[d]
    BY DEF Digit
  <2>2. d = 1 \/ d = 2 \/ d = 3 \/ d = 4 \/ d = 5 \/ d = 6 \/ d = 7 \/ d = 8 \/ d = 9 \/ d = 10
    OBVIOUS
  <2>3. ch \in {"0", "1", "2", "3", "4", "5", "6", "7", "8", "9"}
    BY <2>1, <2>2 DEF Numeral
  <2>. QED
    BY <2>3 DEF Fields, Signed, Floats, Orders
<1>. QED
  BY <1>1, <1>2, <1>3

\* What each kind does when numbers and strings are packed.
LEMMA PackOrder ==
    ASSUME NEW o, NEW n, NEW b, NEW ch \in Orders, NEW args
    PROVE  PackChar(PackState(o, n, b), ch, args) = PackState(ch, n, b)
<1>1. ch \in Orders
  OBVIOUS
<1>. QED
  BY <1>1, Kinds DEF PackChar, PackState

LEMMA PackField ==
    ASSUME NEW o, NEW n, NEW b, NEW ch \in Fields, NEW args
    PROVE  PackChar(PackState(o, n, b), ch, args)
               = PackState("none", n + 1, b \o Ordered(Encoded(args[n], ch), Width(ch), o))
  BY Kinds DEF PackChar, PackState

LEMMA PackText ==
    ASSUME NEW o, NEW n, NEW b, NEW args
    PROVE  PackChar(PackState(o, n, b), "s", args) = PackState(o, n + 1, b \o args[n])
  BY Kinds DEF PackChar, PackState

LEMMA PackOther ==
    ASSUME NEW o, NEW n, NEW b, NEW ch, ch \notin Orders \cup Fields \cup {"s"}, NEW args
    PROVE  PackChar(PackState(o, n, b), ch, args) = PackState(o, n, b)
  BY DEF PackChar, PackState

\* What each kind does when they are unpacked.
LEMMA UnpackOrder ==
    ASSUME NEW o, NEW at, NEW a, NEW max, NEW ch \in Orders, NEW buf
    PROVE  UnpackChar(UnpackState(o, at, a, max), ch, buf) = UnpackState(ch, at, a, 0)
<1>1. ch \in Orders
  OBVIOUS
<1>. QED
  BY <1>1, Kinds DEF UnpackChar, UnpackState

LEMMA UnpackField ==
    ASSUME NEW o, NEW at, NEW a, NEW max, NEW ch \in Fields, NEW buf
    PROVE  UnpackChar(UnpackState(o, at, a, max), ch, buf)
               = UnpackState(o, at + Width(ch), Append(a, Decoded(Value(Part(buf, at, Width(ch)), o), ch)), 0)
  BY Kinds DEF UnpackChar, UnpackState, Part

LEMMA UnpackText ==
    ASSUME NEW o, NEW at, NEW a, NEW max, NEW buf
    PROVE  UnpackChar(UnpackState(o, at, a, max), "s", buf)
               = UnpackState(o, at + 2 + Value(Part(buf, at, 2), o),
                             Append(a, Part(buf, at + 2, Copied(Value(Part(buf, at, 2), o), max))), 0)
  BY Kinds DEF UnpackChar, UnpackState, Part

LEMMA UnpackDigit ==
    ASSUME NEW o, NEW at, NEW a, NEW max, NEW ch, Digit(ch), NEW buf
    PROVE  UnpackChar(UnpackState(o, at, a, max), ch, buf) = UnpackState(o, at, a, Limit(max, ch))
  BY Kinds DEF UnpackChar, UnpackState

LEMMA UnpackOther ==
    ASSUME NEW o, NEW at, NEW a, NEW max, NEW ch, ch \notin Orders \cup Fields \cup {"s"}, ~Digit(ch), NEW buf
    PROVE  UnpackChar(UnpackState(o, at, a, max), ch, buf) = UnpackState(o, at, a, 0)
  BY DEF UnpackChar, UnpackState

\* One number, packed in an order.
LEMMA PIs ==
    ASSUME NEW ord \in Orders, NEW ch \in Fields, NEW v, Encoded(v, ch) \in 0 .. Space(ch) - 1
    PROVE  /\ P(ord, ch, v) \in Seq(Byte) /\ Len(P(ord, ch, v)) = Width(ch)
           /\ Value(P(ord, ch, v), ord) = Encoded(v, ch)
<1>. DEFINE fmt == <<ord, ch>>
            args == <<v>>
            x == Ordered(Encoded(v, ch), Width(ch), ord)
<1>1. Len(fmt) = 2 /\ fmt[1] = ord /\ fmt[2] = ch /\ args[1] = v /\ 1 \in 1 .. 2 /\ 2 \in 1 .. 2
  OBVIOUS
<1>2. P(ord, ch, v) = beej_pack(fmt, args)
  BY DEF P
<1>. HIDE DEF fmt, args
<1>3. PICK f : /\ f[0] = PackStart
               /\ \A j \in 1 .. Len(fmt) : f[j] = PackChar(f[j - 1], fmt[j], args)
               /\ beej_pack(fmt, args) = f[Len(fmt)].buf
  <2>1. Len(fmt) \in Nat
    BY <1>1
  <2>. QED
    BY <2>1, PackSteps
<1>4. f[1] = PackChar(PackStart, ord, args) /\ f[2] = PackChar(f[1], ch, args)
  <2>1. f[1] = PackChar(f[1 - 1], fmt[1], args) /\ f[2] = PackChar(f[2 - 1], fmt[2], args)
    BY <1>1, <1>3
  <2>. QED
    BY <1>1, <1>3, <2>1
<1>5. f[1] = PackState(ord, 1, <<>>)
  BY <1>4, PackOrder DEF PackStart
<1>6. f[2].buf = <<>> \o Ordered(Encoded(args[1], ch), Width(ch), ord)
  <2>1. PackChar(PackState(ord, 1, <<>>), ch, args)
            = PackState("none", 1 + 1, <<>> \o Ordered(Encoded(args[1], ch), Width(ch), ord))
    BY PackField
  <2>. QED
    BY <1>4, <1>5, <2>1 DEF PackState
<1>7. x \in Seq(Byte) /\ Len(x) = Width(ch) /\ Value(x, ord) = Encoded(v, ch)
  BY OrderedIs
<1>8. P(ord, ch, v) = x
  <2>. HIDE DEF x
  <2>1. <<>> \o x = x
    BY <1>7
  <2>. QED
    BY <1>1, <1>2, <1>3, <1>6, <2>1 DEF x
<1>. QED
  BY <1>7, <1>8

\* And unpacked in it.
LEMMA POne ==
    ASSUME NEW ord \in Orders, NEW ch \in Fields, NEW v, Typed(v, ch)
    PROVE  /\ P(ord, ch, v) \in Seq(Byte) /\ Len(P(ord, ch, v)) = Width(ch)
           /\ Value(P(ord, ch, v), ord) = Encoded(v, ch)
           /\ beej_unpack(P(ord, ch, v), <<ord, ch>>).args = <<v>>
<1>. DEFINE fmt == <<ord, ch>>
            x == P(ord, ch, v)
<1>1. Len(fmt) = 2 /\ fmt[1] = ord /\ fmt[2] = ch /\ 1 \in 1 .. 2 /\ 2 \in 1 .. 2
  OBVIOUS
<1>2. Encoded(v, ch) \in 0 .. Space(ch) - 1 /\ Decoded(Encoded(v, ch), ch) = v
  BY FieldBack
<1>3. x \in Seq(Byte) /\ Len(x) = Width(ch) /\ Value(x, ord) = Encoded(v, ch)
  BY <1>2, PIs
<1>. HIDE DEF fmt, x
<1>4. PICK g : /\ g[0] = UnpackStart
                /\ \A j \in 1 .. Len(fmt) : g[j] = UnpackChar(g[j - 1], fmt[j], x)
                /\ beej_unpack(x, fmt) = g[Len(fmt)]
  <2>1. Len(fmt) \in Nat
    BY <1>1
  <2>. QED
    BY <2>1, UnpackSteps
<1>5. g[1] = UnpackChar(UnpackStart, ord, x) /\ g[2] = UnpackChar(g[1], ch, x)
  <2>1. g[1] = UnpackChar(g[1 - 1], fmt[1], x) /\ g[2] = UnpackChar(g[2 - 1], fmt[2], x)
    BY <1>1, <1>4
  <2>. QED
    BY <1>1, <1>4, <2>1
<1>6. g[1] = UnpackState(ord, 0, <<>>, 0)
  BY <1>5, UnpackOrder DEF UnpackStart
<1>7. g[2].args = Append(<<>>, Decoded(Value(Part(x, 0, Width(ch)), ord), ch))
  <2>1. UnpackChar(UnpackState(ord, 0, <<>>, 0), ch, x)
            = UnpackState(ord, 0 + Width(ch), Append(<<>>, Decoded(Value(Part(x, 0, Width(ch)), ord), ch)), 0)
    BY UnpackField
  <2>. QED
    BY <1>5, <1>6, <2>1 DEF UnpackState
<1>8. Part(x, 0, Width(ch)) = x
  BY <1>3, PartAll
<1>9. beej_unpack(x, fmt).args = <<v>>
  <2>1. Append(<<>>, v) = <<v>>
    OBVIOUS
  <2>2. beej_unpack(x, fmt) = g[2]
    BY <1>1, <1>4
  <2>. QED
    BY <1>2, <1>3, <1>7, <1>8, <2>1, <2>2
<1>. QED
  BY <1>3, <1>9 DEF fmt, x
------------------------------------------------------------------------------
(* Messages. *)

\* What lies between two buffers.
LEMMA PartMiddle ==
    ASSUME NEW a \in Seq(Byte), NEW b \in Seq(Byte), NEW c \in Seq(Byte)
    PROVE  /\ (a \o b) \o c \in Seq(Byte) /\ Len((a \o b) \o c) = Len(a) + Len(b) + Len(c)
           /\ Part((a \o b) \o c, Len(a), Len(b)) = b
<1>1. a \o b \in Seq(Byte) /\ Len(a \o b) = Len(a) + Len(b) /\ Part(a \o b, Len(a), Len(b)) = b
  BY PartOfTwo
<1>2. Len(a) \in Nat /\ Len(b) \in Nat
  OBVIOUS
<1>. DEFINE s == a \o b
<1>. HIDE DEF s
<1>3. s \in Seq(Byte) /\ Len(a) + Len(b) <= Len(s)
  BY <1>1, <1>2 DEF s
<1>4. Part(s \o c, Len(a), Len(b)) = Part(s, Len(a), Len(b))
  BY <1>2, <1>3, PartFront
<1>5. s \o c \in Seq(Byte) /\ Len(s \o c) = Len(s) + Len(c)
  BY <1>3, ConcatProperties
<1>. QED
  BY <1>1, <1>4, <1>5 DEF s

\* The width of what the messages are made of, and that any number fits that is in bounds.
LEMMA Numbers ==
    /\ "<" \in Orders /\ ">" \in Orders
    /\ {"H", "L", "Q", "l", "q"} \subseteq Fields
    /\ Width("H") = 2 /\ Width("L") = 4 /\ Width("l") = 4 /\ Width("Q") = 8 /\ Width("q") = 8
    /\ \A v : /\ v \in 0 .. Short - 1 => Typed(v, "H")
              /\ v \in 0 .. Long - 1 => Typed(v, "L")
              /\ v \in 0 .. Quad - 1 => Typed(v, "Q")
              /\ Int32(v) => Typed(v, "l")
              /\ Int64(v) => Typed(v, "q")
<1>1. "<" \in Orders /\ ">" \in Orders /\ {"H", "L", "Q", "l", "q"} \subseteq Fields
  BY DEF Orders, Fields, Signed
<1>2. Width("H") = 2 /\ Width("L") = 4 /\ Width("l") = 4 /\ Width("Q") = 8 /\ Width("q") = 8
  BY DEF Width
<1>3. Space("H") = Short /\ Space("L") = Long /\ Space("l") = Long /\ Space("Q") = Quad /\ Space("q") = Quad
  BY <1>1, <1>2, Spaces
<1>4. /\ "H" \notin Floats \cup Signed /\ "L" \notin Floats \cup Signed /\ "Q" \notin Floats \cup Signed
      /\ "l" \notin Floats /\ "q" \notin Floats /\ "l" \in Signed /\ "q" \in Signed
  BY DEF Floats, Signed
<1>5. ASSUME NEW v PROVE /\ v \in 0 .. Short - 1 => Typed(v, "H")
                         /\ v \in 0 .. Long - 1 => Typed(v, "L")
                         /\ v \in 0 .. Quad - 1 => Typed(v, "Q")
  BY <1>3, <1>4 DEF Typed
<1>6. ASSUME NEW v PROVE /\ Int32(v) => Typed(v, "l")
                         /\ Int64(v) => Typed(v, "q")
  BY <1>3, <1>4 DEF Typed, Int32, Int64
<1>. QED
  BY <1>1, <1>2, <1>5, <1>6

\* Whatever integer is packed, its low bytes are.
LEMMA LongTyped ==
    ASSUME NEW v \in Int
    PROVE  P("<", "L", v) \in Seq(Byte) /\ Len(P("<", "L", v)) = 4
<1>1. "<" \in Orders /\ "L" \in Fields /\ Width("L") = 4
  BY Numbers
<1>2. "L" \notin Floats
  BY DEF Floats
<1>3. Encoded(v, "L") \in 0 .. Space("L") - 1
  <2>1. Space("L") \in Nat /\ Space("L") > 0
    BY <1>1, Spaces
  <2>2. v % Space("L") \in Nat /\ v % Space("L") < Space("L")
    BY <2>1, Division
  <2>. QED
    BY <1>2, <2>1, <2>2 DEF Encoded
<1>. QED
  BY <1>1, <1>3, PIs

\* A number in a header is its bytes' value.
LEMMA LongIs ==
    ASSUME NEW v \in 0 .. Long - 1
    PROVE  P("<", "L", v) \in Seq(Byte) /\ Len(P("<", "L", v)) = 4 /\ Num(P("<", "L", v)) = v
<1>1. "<" \in Orders /\ "L" \in Fields /\ Typed(v, "L") /\ Width("L") = 4
  BY Numbers
<1>2. P("<", "L", v) \in Seq(Byte) /\ Len(P("<", "L", v)) = 4 /\ Value(P("<", "L", v), "<") = Encoded(v, "L")
  BY <1>1, POne
<1>3. Encoded(v, "L") \in 0 .. Space("L") - 1 /\ Decoded(Encoded(v, "L"), "L") = v
  BY <1>1, FieldBack
<1>4. "L" \notin Floats /\ "L" \notin Signed
  BY DEF Floats, Signed
<1>5. Encoded(v, "L") = v
  BY <1>3, <1>4 DEF Decoded, Resigned
<1>. QED
  BY <1>2, <1>5 DEF Value

\* A command is its name and a zero, whatever lies behind them.
LEMMA CommandIs ==
    ASSUME NEW name, Name(name), NEW held \in Seq(Byte), Len(held) = CmdSize
    PROVE  /\ Command(name, held) \in Seq(Byte) /\ Len(Command(name, held)) = CmdSize
           /\ Part(Command(name, held), 0, Len(name) + 1) = Append(name, 0)
           /\ Command(name, held)[Len(name) + 1] = 0
<1>. DEFINE s == Append(name, 0)
            c == Command(name, held)
            n == Len(name) + 1
<1>1. name \in Seq(Byte) /\ Len(name) < CmdSize /\ 0 \in Byte /\ CmdSize \in Nat /\ Len(name) \in Nat
  BY Sizes, Powers DEF Name, Byte
<1>2. s \in Seq(Byte) /\ Len(s) = n /\ n \in Nat /\ s[n] = 0
  BY <1>1
<1>. HIDE DEF s
<1>3. c = Stored(held, 0, s)
  BY DEF Command, s
<1>. HIDE DEF c
<1>4. /\ c \in Seq(Byte) /\ Len(c) = Len(held)
      /\ \A j \in 1 .. Len(held) : c[j] = IF 0 < j /\ j <= 0 + Len(s) THEN s[j - 0] ELSE held[j]
  BY <1>2, <1>3, StoredIs
<1>5. ASSUME NEW j \in 1 .. n PROVE c[0 + j] = s[j]
  <2>1. j \in 1 .. Len(held) /\ 0 < j /\ j <= 0 + Len(s) /\ j - 0 = j /\ 0 + j = j
    BY <1>1, <1>2
  <2>. QED
    BY <1>4, <2>1
<1>6. 0 + n <= Len(c) /\ 0 \in Nat /\ n \in Nat /\ n \in 1 .. n /\ 0 + n = n
  BY <1>1, <1>4
<1>7. c[n] = 0
  BY <1>2, <1>5, <1>6
<1>. HIDE DEF n
<1>8. (\A j \in 1 .. n : c[0 + j] = s[j]) => Part(c, 0, n) = s
  BY <1>2, <1>4, <1>6, PartEqual
<1>9. Part(c, 0, n) = s
  BY <1>5, <1>8
<1>. QED
  BY <1>4, <1>7, <1>9 DEF c, s, n

\* A message has its fields where unpack_resp_buf and the clients look for them.
LEMMA MessageIs ==
    ASSUME NEW magic \in 0 .. Long - 1, NEW cmd \in Seq(Byte), Len(cmd) = CmdSize,
           NEW sum \in Seq(Byte), Len(sum) = 4, NEW payload \in Seq(Byte), Len(payload) < Long
    PROVE  LET s == pack_btc_message(magic, cmd, sum, payload)
               m == Part(s, 0, Header)
           IN  /\ s \in Seq(Byte) /\ Len(s) = Header + Len(payload)
               /\ Part(s, Header, Len(payload)) = payload
               /\ Part(s, 4, CmdSize) = cmd
               /\ MsgMagic(m) = magic /\ MsgCmd(m) = cmd /\ MsgLen(m) = Len(payload) /\ MsgSum(m) = sum
<1>. DEFINE C == CmdSize
            a == P("<", "L", magic)
            l == P("<", "L", Len(payload))
            s1 == a \o cmd
            s2 == s1 \o l
            h == s2 \o sum
            s == pack_btc_message(magic, cmd, sum, payload)
<1>1. C \in Nat /\ Header = C + 12 /\ Header \in Nat
  BY Sizes
<1>2. a \in Seq(Byte) /\ Len(a) = 4 /\ Num(a) = magic
  BY LongIs
<1>3. l \in Seq(Byte) /\ Len(l) = 4 /\ Num(l) = Len(payload)
  <2>1. Len(payload) \in 0 .. Long - 1
    BY Powers
  <2>. QED
    BY <2>1, LongIs
<1>4. s = h \o payload
  BY DEF pack_btc_message
<1>. HIDE DEF a, l, s, C
<1>5. s1 \in Seq(Byte) /\ Len(s1) = 4 + C /\ Part(s1, 0, 4) = a /\ Part(s1, 4, C) = cmd
  <2>1. a \in Seq(Byte) /\ cmd \in Seq(Byte)
    BY <1>2
  <2>2. /\ a \o cmd \in Seq(Byte) /\ Len(a \o cmd) = Len(a) + Len(cmd)
        /\ Part(a \o cmd, 0, Len(a)) = a /\ Part(a \o cmd, Len(a), Len(cmd)) = cmd
    BY <2>1, PartOfTwo
  <2>. QED
    BY <1>2, <2>2 DEF C
<1>. HIDE DEF s1
<1>6. s2 \in Seq(Byte) /\ Len(s2) = 8 + C /\ Part(s2, 4 + C, 4) = l
  <2>. s1 \in Seq(Byte) /\ l \in Seq(Byte)
    BY <1>3, <1>5
  <2>1. s2 \in Seq(Byte) /\ Len(s2) = Len(s1) + Len(l) /\ Part(s2, Len(s1), Len(l)) = l
    BY PartOfTwo
  <2>. QED
    BY <1>1, <1>3, <1>5, <2>1
<1>7. Part(s2, 0, 4) = a /\ Part(s2, 4, C) = cmd
  <2>1. 0 \in Nat /\ 4 \in Nat /\ 0 + 4 <= Len(s1) /\ 4 + C <= Len(s1)
    BY <1>1, <1>5
  <2>2. Part(s2, 0, 4) = Part(s1, 0, 4) /\ Part(s2, 4, C) = Part(s1, 4, C)
    BY <1>1, <1>3, <1>5, <2>1, PartFront
  <2>. QED
    BY <1>5, <2>2
<1>. HIDE DEF s2
<1>8. h \in Seq(Byte) /\ Len(h) = Header /\ Part(h, 8 + C, 4) = sum
  <2>. s2 \in Seq(Byte)
    BY <1>6
  <2>1. h \in Seq(Byte) /\ Len(h) = Len(s2) + Len(sum) /\ Part(h, Len(s2), Len(sum)) = sum
    BY PartOfTwo
  <2>. QED
    BY <1>1, <1>6, <2>1
<1>9. Part(h, 0, 4) = a /\ Part(h, 4, C) = cmd /\ Part(h, 4 + C, 4) = l
  <2>1. /\ 0 \in Nat /\ 4 \in Nat /\ 4 + C \in Nat
        /\ 0 + 4 <= Len(s2) /\ 4 + C <= Len(s2) /\ (4 + C) + 4 <= Len(s2)
    BY <1>1, <1>6
  <2>2. /\ Part(h, 0, 4) = Part(s2, 0, 4) /\ Part(h, 4, C) = Part(s2, 4, C)
        /\ Part(h, 4 + C, 4) = Part(s2, 4 + C, 4)
    BY <1>1, <1>6, <2>1, PartFront
  <2>. QED
    BY <1>6, <1>7, <2>2
<1>. HIDE DEF h
<1>10. /\ s \in Seq(Byte) /\ Len(s) = Header + Len(payload)
       /\ Part(s, 0, Header) = h /\ Part(s, Header, Len(payload)) = payload
  <2>. h \in Seq(Byte)
    BY <1>8
  <2>1. /\ h \o payload \in Seq(Byte) /\ Len(h \o payload) = Len(h) + Len(payload)
        /\ Part(h \o payload, 0, Len(h)) = h /\ Part(h \o payload, Len(h), Len(payload)) = payload
    BY PartOfTwo
  <2>. QED
    BY <1>4, <1>8, <2>1
<1>11. Part(s, 4, C) = cmd
  <2>1. 4 \in Nat /\ 4 + C <= Len(h)
    BY <1>1, <1>8
  <2>2. Part(s, 4, C) = Part(h, 4, C)
    BY <1>1, <1>4, <1>8, <2>1, PartFront
  <2>. QED
    BY <1>9, <2>2
<1>12. MsgMagic(h) = magic /\ MsgCmd(h) = cmd /\ MsgLen(h) = Len(payload) /\ MsgSum(h) = sum
  BY <1>2, <1>3, <1>8, <1>9 DEF MsgMagic, MsgCmd, MsgLen, MsgSum, C
<1>. QED
  BY <1>10, <1>11, <1>12 DEF s, C
\* A buffer that lies between two others.
LEMMA Between ==
    ASSUME NEW p \in Seq(Byte), NEW x \in Seq(Byte), NEW r \in Seq(Byte)
    PROVE  Part(p \o (x \o r), Len(p), Len(x)) = x
<1>1. p \o (x \o r) = (p \o x) \o r
  BY Rest
<1>2. Part((p \o x) \o r, Len(p), Len(x)) = x
  BY PartMiddle
<1>. QED
  BY <1>1, <1>2

\* A version has its fields where print_version_payload looks for them.
LEMMA VersionIs ==
    ASSUME NEW t, Int64(t)
    PROVE  LET s == pack_version(build_version_payload(t))
               v == print_version_payload(s)
           IN  /\ s \in Seq(Byte)
               /\ beej_unpack(v.vers, <<"<", "l">>).args = <<OwnVers>>
               /\ beej_unpack(v.ttamp, <<"<", "q">>).args = <<t>>
               /\ beej_unpack(Part(v.from, 8 + IpSize, 2), <<">", "H">>).args = <<Port>>
               /\ v.uagent = <<>>
               /\ beej_unpack(v.start_height, <<"<", "l">>).args = <<Height>>
<1>. DEFINE v == build_version_payload(t)
            s == pack_version(v)
            x1 == P("<", "l", OwnVers)
            x2 == P("<", "Q", 1)
            x3 == P("<", "q", t)
            y1 == P("<", "Q", 1)
            y3 == P(">", "H", Port)
            na == pack_ptl_net_addr(build_net_addr)
            x6 == P("<", "Q", 0)
            x7 == P("<", "H", 0)
            x9 == P("<", "l", Height)
            I == IpSize
<1>1. /\ I \in Nat /\ LocalIp \in Seq(Byte) /\ Len(LocalIp) = I
      /\ Int32(OwnVers) /\ Int32(Height) /\ Port \in 0 .. Short - 1
  BY BtcMessageAssumption DEF BtcMessageAssumption
<1>2. 0 \in 0 .. Short - 1 /\ 0 \in 0 .. Quad - 1 /\ 1 \in 0 .. Quad - 1
  BY Powers
<1>3. /\ Typed(OwnVers, "l") /\ Typed(Height, "l") /\ Typed(t, "q") /\ Typed(Port, "H")
      /\ Typed(0, "H") /\ Typed(0, "Q") /\ Typed(1, "Q")
  BY <1>1, <1>2, Numbers
<1>4. /\ "<" \in Orders /\ ">" \in Orders
      /\ "H" \in Fields /\ "Q" \in Fields /\ "l" \in Fields /\ "q" \in Fields
      /\ Width("H") = 2 /\ Width("l") = 4 /\ Width("Q") = 8 /\ Width("q") = 8
  BY Numbers
<1>5. x1 \in Seq(Byte) /\ Len(x1) = 4 /\ beej_unpack(x1, <<"<", "l">>).args = <<OwnVers>>
  BY <1>3, <1>4, POne
<1>6. x2 \in Seq(Byte) /\ Len(x2) = 8
  BY <1>3, <1>4, POne
<1>7. x3 \in Seq(Byte) /\ Len(x3) = 8 /\ beej_unpack(x3, <<"<", "q">>).args = <<t>>
  BY <1>3, <1>4, POne
<1>8. y3 \in Seq(Byte) /\ Len(y3) = 2 /\ beej_unpack(y3, <<">", "H">>).args = <<Port>>
  BY <1>3, <1>4, POne
<1>9. x6 \in Seq(Byte) /\ Len(x6) = 8
  BY <1>3, <1>4, POne
<1>10. x7 \in Seq(Byte) /\ Len(x7) = 2 /\ Value(x7, "<") = Encoded(0, "H")
  BY <1>3, <1>4, POne
<1>11. x9 \in Seq(Byte) /\ Len(x9) = 4 /\ beej_unpack(x9, <<"<", "l">>).args = <<Height>>
  BY <1>3, <1>4, POne
<1>12. na = (y1 \o LocalIp) \o y3
  BY DEF pack_ptl_net_addr, build_net_addr
<1>13. s = (((((((x1 \o x2) \o x3) \o na) \o na) \o x6) \o x7) \o <<>>) \o x9
  BY DEF pack_version, build_version_payload
<1>14. x7[1] = 0
  <2>1. Encoded(0, "H") \in 0 .. Space("H") - 1 /\ Decoded(Encoded(0, "H"), "H") = 0
    BY <1>3, <1>4, FieldBack
  <2>2. "H" \notin Floats /\ "H" \notin Signed
    BY DEF Floats, Signed
  <2>3. Num(x7) = 0
    BY <1>10, <2>1, <2>2 DEF Decoded, Resigned, Value
  <2>4. 1 \in 1 .. Len(x7) /\ 2 \in 1 .. Len(x7) /\ Base * 0 = 0
    BY <1>10, Powers, SMTT(60)
  <2>5. x7[1] \in Byte /\ x7[2] \in Byte
    BY <1>10, <2>4, ElementOfSeq
  <2>6. Num(x7) = x7[1] + Base * (x7[2] + Base * (0 + Base * (0 + Base * (0 + Base * (0 + Base * (0 + Base * 0))))))
    <3>. HIDE DEF x7
    <3>. QED
      BY <1>10 DEF Num
  <2>. DEFINE b1 == x7[1]
              b2 == x7[2]
  <2>. HIDE DEF b1, b2
  <2>7. b1 + Base * (b2 + 0) = 0 /\ b1 \in Byte /\ b2 \in Byte
    BY <2>3, <2>4, <2>5, <2>6 DEF b1, b2
  <2>8. Byte \subseteq Nat /\ Base \in Nat
    BY Powers DEF Byte
  <2>. DEFINE c == Base * (b2 + 0)
  <2>9. c \in Nat /\ b1 \in Nat /\ b1 + c = 0
    <3>1. b2 \in Nat /\ b1 \in Nat
      BY <2>7, <2>8
    <3>. QED
      BY <2>7, <2>8, <3>1
  <2>. HIDE DEF c
  <2>10. b1 = 0
    BY <2>9
  <2>. QED
    BY <2>10 DEF b1
<1>. HIDE DEF x1, x2, x3, y1, y3, na, x6, x7, x9, I, s
<1>15. y1 \in Seq(Byte) /\ Len(y1) = 8
  BY <1>6 DEF x2, y1
<1>16. na \in Seq(Byte) /\ Len(na) = 10 + I /\ Part(na, 8 + I, 2) = y3
  <2>. DEFINE z == y1 \o LocalIp
  <2>1. z \in Seq(Byte) /\ Len(z) = 8 + I
    BY <1>1, <1>15, PartOfTwo
  <2>. HIDE DEF z
  <2>2. z \o y3 \in Seq(Byte) /\ Len(z \o y3) = Len(z) + Len(y3) /\ Part(z \o y3, Len(z), Len(y3)) = y3
    BY <1>8, <2>1, PartOfTwo
  <2>. QED
    BY <1>1, <1>8, <1>12, <2>1, <2>2 DEF z
<1>. DEFINE N == 10 + I
            p2 == x1 \o x2
            p3 == p2 \o x3
            p4 == p3 \o na
            p5 == p4 \o na
            p6 == p5 \o x6
            p7 == p6 \o x7
<1>17. N \in Nat
  BY <1>1
<1>. HIDE DEF N
<1>18. p2 \in Seq(Byte) /\ Len(p2) = 12
  <2>1. p2 \in Seq(Byte) /\ Len(p2) = Len(x1) + Len(x2)
    BY <1>5, <1>6, PartOfTwo
  <2>. QED
    BY <1>5, <1>6, <2>1
<1>. HIDE DEF p2
<1>19. p3 \in Seq(Byte) /\ Len(p3) = 20
  <2>1. p3 \in Seq(Byte) /\ Len(p3) = Len(p2) + Len(x3)
    BY <1>7, <1>18, PartOfTwo
  <2>. QED
    BY <1>7, <1>18, <2>1
<1>. HIDE DEF p3
<1>20. p4 \in Seq(Byte) /\ Len(p4) = 20 + N
  BY <1>16, <1>19, PartOfTwo DEF N
<1>. HIDE DEF p4
<1>21. p5 \in Seq(Byte) /\ Len(p5) = 20 + 2 * N
  <2>1. p5 \in Seq(Byte) /\ Len(p5) = Len(p4) + Len(na)
    BY <1>16, <1>20, PartOfTwo
  <2>. QED
    BY <1>16, <1>17, <1>20, <2>1 DEF N
<1>. HIDE DEF p5
<1>22. p6 \in Seq(Byte) /\ Len(p6) = 28 + 2 * N
  <2>1. p6 \in Seq(Byte) /\ Len(p6) = Len(p5) + Len(x6)
    BY <1>9, <1>21, PartOfTwo
  <2>. QED
    BY <1>9, <1>17, <1>21, <2>1
<1>. HIDE DEF p6
<1>23. p7 \in Seq(Byte) /\ Len(p7) = 30 + 2 * N
  <2>1. p7 \in Seq(Byte) /\ Len(p7) = Len(p6) + Len(x7)
    BY <1>10, <1>22, PartOfTwo
  <2>. QED
    BY <1>10, <1>17, <1>22, <2>1
<1>. HIDE DEF p7
<1>24. s = p7 \o x9
  <2>1. p7 \o <<>> = p7
    BY <1>23
  <2>. QED
    BY <1>13, <2>1 DEF p2, p3, p4, p5, p6, p7
<1>. DEFINE r6 == x7 \o x9
            r5 == x6 \o r6
            r4 == na \o r5
            r3 == na \o r4
            r2 == x3 \o r3
            r1 == x2 \o r2
<1>25. r6 \in Seq(Byte)
  BY <1>10, <1>11
<1>. HIDE DEF r6
<1>26. r5 \in Seq(Byte)
  BY <1>9, <1>25
<1>. HIDE DEF r5
<1>27. r4 \in Seq(Byte)
  BY <1>16, <1>26
<1>. HIDE DEF r4
<1>28. r3 \in Seq(Byte)
  BY <1>16, <1>27
<1>. HIDE DEF r3
<1>29. r2 \in Seq(Byte)
  BY <1>7, <1>28
<1>. HIDE DEF r2
<1>30. r1 \in Seq(Byte)
  BY <1>6, <1>29
<1>. HIDE DEF r1
<1>31. s = p6 \o r6
  BY <1>10, <1>11, <1>22, <1>24, Rest DEF p7, r6
<1>32. s = p5 \o r5
  BY <1>9, <1>21, <1>25, <1>31, Rest DEF p6, r5
<1>33. s = p4 \o r4
  BY <1>16, <1>20, <1>26, <1>32, Rest DEF p5, r4
<1>34. s = p3 \o r3
  BY <1>16, <1>19, <1>27, <1>33, Rest DEF p4, r3
<1>35. s = p2 \o r2
  BY <1>7, <1>18, <1>28, <1>34, Rest DEF p3, r2
<1>36. s = x1 \o r1
  BY <1>5, <1>6, <1>29, <1>35, Rest DEF p2, r1
<1>37. s \in Seq(Byte)
  BY <1>5, <1>30, <1>36
<1>38. Part(s, 0, 4) = x1
  BY <1>5, <1>30, <1>36, PartOfTwo
<1>39. Part(s, 12, 8) = x3
  <2>1. Part(s, Len(p2), Len(x3)) = x3
    <3>1. s = p2 \o (x3 \o r3)
      BY <1>35 DEF r2
    <3>2. p2 \in Seq(Byte) /\ x3 \in Seq(Byte) /\ r3 \in Seq(Byte)
      BY <1>7, <1>18, <1>28
    <3>3. Part(p2 \o (x3 \o r3), Len(p2), Len(x3)) = x3
      BY <3>2, Between
    <3>. QED
      BY <3>1, <3>3
  <2>. QED
    BY <1>7, <1>18, <2>1
<1>40. Part(s, 20 + N, N) = na
  <2>1. Part(s, Len(p4), Len(na)) = na
    <3>1. s = p4 \o (na \o r5)
      BY <1>33 DEF r4
    <3>2. p4 \in Seq(Byte) /\ na \in Seq(Byte) /\ r5 \in Seq(Byte)
      BY <1>16, <1>20, <1>26
    <3>3. Part(p4 \o (na \o r5), Len(p4), Len(na)) = na
      BY <3>2, Between
    <3>. QED
      BY <3>1, <3>3
  <2>. QED
    BY <1>16, <1>20, <2>1 DEF N
<1>41. Part(s, 30 + 2 * N, 4) = x9
  <2>1. Part(s, Len(p7), Len(x9)) = x9
    BY <1>11, <1>23, <1>24, PartOfTwo
  <2>. QED
    BY <1>11, <1>23, <2>1
<1>42. s[(28 + 2 * N) + 1] = 0
  <2>1. Part(s, Len(p6), Len(x7)) = x7 /\ Len(p6) + Len(x7) <= Len(s)
    <3>1. Part(s, Len(p6), Len(x7)) = x7
      <4>1. s = p6 \o (x7 \o x9)
        BY <1>31 DEF r6
      <4>2. p6 \in Seq(Byte) /\ x7 \in Seq(Byte) /\ x9 \in Seq(Byte)
        BY <1>10, <1>11, <1>22
      <4>3. Part(p6 \o (x7 \o x9), Len(p6), Len(x7)) = x7
        BY <4>2, Between
      <4>. QED
        BY <4>1, <4>3
    <3>2. Len(s) = Len(p7) + Len(x9)
      BY <1>11, <1>23, <1>24, PartOfTwo
    <3>. QED
      BY <1>10, <1>11, <1>17, <1>22, <1>23, <3>1, <3>2
  <2>. DEFINE f == 28 + 2 * N
  <2>2. f \in Nat /\ 2 \in Nat /\ f + 2 <= Len(s) /\ Part(s, f, 2) = x7 /\ 1 \in 1 .. 2
    BY <1>10, <1>17, <1>22, <2>1
  <2>. HIDE DEF f
  <2>3. \A j \in 1 .. 2 : Part(s, f, 2)[j] = s[f + j]
    BY <1>37, <2>2, PartIs
  <2>. QED
    BY <1>14, <2>2, <2>3 DEF f
<1>43. read_varint(s, 28 + 2 * N) = 0
  <2>1. 0 < Base - 3
    BY Powers
  <2>2. Base - 3 # 0 /\ Base - 2 # 0 /\ Base - 1 # 0
    BY Powers
  <2>. QED
    BY <1>42, <2>1, <2>2 DEF read_varint
<1>. DEFINE w == print_version_payload(s)
<1>44. 8 + IpSize + 2 = N /\ UserAgent = 28 + 2 * N /\ 28 + 2 * N \in Nat
  BY <1>1, <1>17 DEF N, I, UserAgent
<1>45. /\ w.vers = Part(s, 0, 4) /\ w.ttamp = Part(s, 12, 8) /\ w.from = Part(s, 20 + N, N)
       /\ w.uagent = Part(s, 28 + 2 * N + 2, 0) /\ w.start_height = Part(s, 28 + 2 * N + 2 + 0, 4)
  BY <1>43, <1>44 DEF print_version_payload
<1>46. w.uagent = <<>>
  <2>. DEFINE f == 28 + 2 * N + 2
  <2>1. f \in Nat /\ f + 0 <= Len(s) /\ 0 \in Nat
    <3>1. Len(s) = Len(p7) + Len(x9)
      BY <1>11, <1>23, <1>24, PartOfTwo
    <3>. QED
      BY <1>11, <1>17, <1>23, <3>1
  <2>. HIDE DEF f
  <2>2. Part(s, f, 0) \in Seq(Byte) /\ Len(Part(s, f, 0)) = 0
    BY <1>37, <2>1, PartIs
  <2>3. Part(s, f, 0) = <<>>
    BY <2>2
  <2>. QED
    BY <1>45, <2>3 DEF f
<1>47. w.start_height = x9
  <2>1. 28 + 2 * N + 2 + 0 = 30 + 2 * N
    BY <1>17
  <2>. QED
    BY <1>41, <1>45, <2>1
<1>48. Part(w.from, 8 + IpSize, 2) = y3
  BY <1>16, <1>40, <1>45 DEF I
<1>. HIDE DEF w
<1>49. /\ w.vers = x1 /\ w.ttamp = x3
  BY <1>38, <1>39, <1>45 DEF w
<1>. QED
  BY <1>5, <1>7, <1>8, <1>11, <1>37, <1>46, <1>47, <1>48, <1>49 DEF w, s
------------------------------------------------------------------------------
(* The inductive invariant. *)

\* Where each program may be.
Places(p) ==
    CASE p \in Unpackers -> {"build", "lookup", "connect", "write", "recv", "print", "unpack",
                             "show", "exit", "overrun", "done"}
                            \cup (IF p = "btc_version" THEN {"version"} ELSE {})
      [] p \in Printers -> {"build", "lookup", "connect", "write", "recv", "print",
                            "exit", "overrun", "done"}
      [] p \in {"stream_socket_client", "bgnet_listener"} -> {"lookup", "connect", "recv", "exit", "done"}
      [] p = "bgnet_talker" -> {"lookup", "connect", "sendto", "exit", "done"}
      [] p = "bgnet_broadcaster" -> {"lookup", "exit", "done"}
      [] p = "debug" -> {"pack", "done"}

\* What a program starts with.
Started ==
    /\ prog \in Programs \cup {"stream_socket_client"} \cup Datagrams \cup {"debug"}
    /\ pc \in Places(prog)
    /\ junk \in Junk
    /\ prog \in Programs \ {"btc_verack"} => \E t \in Times \cup {FirstTime} : ver = build_version_payload(t)
    /\ prog = "debug" => test \in Tests

\* What it has asked.
Asked ==
    /\ prog \in Programs /\ pc # "build" =>
           req = pack_btc_message(Magic, Command(CommandName, Part(junk, 0, CmdSize)),
                                  Checksum(Request), Request)
    /\ prog = "debug" /\ pc = "done" => req = beej_pack(Format(test), Args(test))

\* What its peer has answered.
Answered ==
    reply # <<>> =>
        /\ pc \notin {"build", "lookup", "connect", "write", "sendto", "pack"}
        /\ prog \in Programs => reply[1] \in Replies
        /\ prog \notin Programs => /\ prog \in {"stream_socket_client", "bgnet_listener"}
                                   /\ reply[1] \in Texts

\* What is still on its way, before recv, begins with the answer.
Arriving ==
    pc = "recv" /\ reply # <<>> =>
        /\ prog \in Programs => /\ Len(ReplyBytes(reply[1])) <= Len(wire)
                                /\ Part(wire, 0, Len(ReplyBytes(reply[1]))) = ReplyBytes(reply[1])
        /\ prog \notin Programs => wire = reply[1]

\* An answer that has come whole is at the start of the buffer.
Arrived ==
    prog \in Programs /\ pc \in {"print", "unpack", "show", "version", "done", "overrun"} /\ Whole =>
        Part(resp, 0, Len(ReplyBytes(reply[1]))) = ReplyBytes(reply[1])

\* What has been made of the buffer by a client that unpacks: the message, the bytes it is
\* packed into again, and the buffers its payload may stand in.
Unpacked == msg = Part(resp, 0, Header) /\ ~(MsgLen(msg) > BufSize - Header)
Repacked == shown = pack_btc_message(IF prog = "btc_version" THEN Magic ELSE MsgMagic(msg),
                                     MsgCmd(msg), MsgSum(msg), Payload)
Buffers  == {Stored(held, 0, Payload) : held \in Junk}

\* What has been made of the buffer, and for which reasons a client has left its own.
Handled ==
    /\ prog \in Unpackers /\ pc \in {"show", "version", "done"} => Unpacked
    /\ prog \in Unpackers /\ pc \in {"version", "done"} => Repacked
    /\ prog = "btc_version" /\ pc = "done" =>
           \E buf \in Buffers : VersionIn(buf, 5) /\ fields = print_version_payload(buf)
    /\ prog \in Unpackers /\ pc = "overrun" =>
           \/ \A j \in 1 .. Len(resp) : resp[j] # 0
           \/ MsgLen(Part(resp, 0, Header)) > BufSize - Header
           \/ /\ prog = "btc_version" /\ Unpacked /\ Repacked
              /\ \E buf \in Buffers : ~VersionIn(buf, 5)
    /\ prog \in Printers /\ pc = "overrun" => \A j \in 1 .. Len(resp) : resp[j] # 0
    /\ prog \in Printers /\ pc = "done" =>
           /\ \E j \in 1 .. Len(resp) : resp[j] = 0
           /\ shown = Part(resp, 0, EndOfText(resp) - 1) \o Part(resp, 0, nread)

\* What a text program has shown.
Told ==
    prog \notin Programs /\ pc = "done" /\ reply # <<>> =>
        /\ nread < TextSize /\ nread <= Len(reply[1]) /\ shown = Part(reply[1], 0, nread)
        /\ prog = "bgnet_listener" /\ Len(reply[1]) < TextSize => nread = Len(reply[1])

IInv == TypeOK /\ Started /\ Asked /\ Answered /\ Arriving /\ Arrived /\ Handled /\ Told

------------------------------------------------------------------------------
(* What goes over the connection. *)

\* The assumption on the constants, part by part.
LEMMA Constants ==
    /\ BufSize \in Nat /\ Header <= BufSize /\ BufSize < Long /\ MaxAddrs \in Nat /\ MaxAddrs > 0
    /\ TextSize \in Nat /\ TextSize > 0 /\ Magic \in 0 .. Long - 1
    /\ Name(Names["btc_version"]) /\ Name(Names["btc_verack"])
    /\ Texts \subseteq Seq(Byte)
    /\ \A m \in Replies : /\ m = [magic |-> m.magic, name |-> m.name, payload |-> m.payload]
                           /\ m.magic \in 0 .. Long - 1 /\ Name(m.name) /\ m.payload \in Seq(Byte)
    /\ \A s \in Junk : s \in Seq(Byte) /\ Len(s) = BufSize
<1>1. BufSize \in Header .. Long - 1 /\ Header \in Nat /\ Long \in Nat
  BY BtcMessageAssumption, Sizes, Powers DEF BtcMessageAssumption
<1>2. BufSize \in Nat /\ Header <= BufSize /\ BufSize < Long
  BY <1>1
<1>3. MaxAddrs \in Nat /\ MaxAddrs > 0 /\ TextSize \in Nat /\ TextSize > 0
  BY BtcMessageAssumption DEF BtcMessageAssumption
<1>. QED
  BY <1>2, <1>3, BtcMessageAssumption DEF BtcMessageAssumption

\* A checksum has four bytes.
LEMMA SumIs ==
    ASSUME NEW s \in Payloads
    PROVE  Len(s) < Long /\ Checksum(s) \in Seq(Byte) /\ Len(Checksum(s)) = 4
<1>. DEFINE h == kyk_dble_sha256(s)
<1>1. Len(s) < Long /\ h \in Seq(Byte) /\ Len(h) >= 4
  BY BtcMessageAssumption DEF BtcMessageAssumption
<1>2. Checksum(s) = SubSeq(h, 0 + 1, 0 + 4)
  BY DEF Checksum
<1>. HIDE DEF h
<1>3. 0 \in Nat /\ 4 \in Nat /\ 0 + 4 <= Len(h)
  BY <1>1
<1>4. Part(h, 0, 4) \in Seq(Byte) /\ Len(Part(h, 0, 4)) = 4
  BY <1>1, <1>3, PartIs
<1>. QED
  BY <1>1, <1>2, <1>4 DEF Part

\* Whatever is packed into a message, bytes come of it.
LEMMA MessageTyped ==
    ASSUME NEW magic \in Int, NEW cmd \in Seq(Byte), NEW sum \in Seq(Byte), NEW payload \in Seq(Byte)
    PROVE  pack_btc_message(magic, cmd, sum, payload) \in Seq(Byte)
<1>. DEFINE a == P("<", "L", magic)
            l == P("<", "L", Len(payload))
<1>1. a \in Seq(Byte)
  BY LongTyped
<1>2. l \in Seq(Byte)
  BY LongTyped
<1>3. pack_btc_message(magic, cmd, sum, payload) = (((a \o cmd) \o l) \o sum) \o payload
  BY DEF pack_btc_message
<1>. HIDE DEF a, l
<1>4. (a \o cmd) \o l \in Seq(Byte)
  BY <1>1, <1>2
<1>. QED
  BY <1>3, <1>4

\* The answer of a node has its fields where the clients look for them, and a zero
\* behind its command's name.
LEMMA ReplyIs ==
    ASSUME NEW m \in Replies
    PROVE  LET s == ReplyBytes(m)
               h == Part(s, 0, Header)
               c == Command(m.name, [j \in 1 .. CmdSize |-> 0])
           IN  /\ s \in Seq(Byte) /\ Len(s) = Header + Len(m.payload) /\ Len(m.payload) < Long
               /\ Part(s, Header, Len(m.payload)) = m.payload
               /\ MsgMagic(h) = m.magic /\ MsgCmd(h) = c
               /\ MsgLen(h) = Len(m.payload) /\ MsgSum(h) = Checksum(m.payload)
               /\ \E j \in 1 .. CmdSize : s[4 + j] = 0
<1>. DEFINE z == [j \in 1 .. CmdSize |-> 0]
            c == Command(m.name, z)
            sum == Checksum(m.payload)
            s == ReplyBytes(m)
<1>1. m.magic \in 0 .. Long - 1 /\ Name(m.name) /\ m.payload \in Seq(Byte)
  BY Constants
<1>2. m.payload \in Payloads
  BY DEF Payloads
<1>3. Len(m.payload) < Long /\ sum \in Seq(Byte) /\ Len(sum) = 4
  BY <1>2, SumIs
<1>4. z \in Seq(Byte) /\ Len(z) = CmdSize
  <2>1. 0 \in Byte /\ CmdSize \in Nat
    BY Sizes, Powers DEF Byte
  <2>2. z \in [1 .. CmdSize -> Byte]
    BY <2>1
  <2>. HIDE DEF z
  <2>. QED
    BY <2>1, <2>2, NSeq
<1>. HIDE DEF z
<1>5. c \in Seq(Byte) /\ Len(c) = CmdSize /\ c[Len(m.name) + 1] = 0
  BY <1>1, <1>4, CommandIs
<1>6. s = pack_btc_message(m.magic, c, sum, m.payload)
  BY DEF ReplyBytes, z
<1>. HIDE DEF c, sum, s
<1>7. /\ s \in Seq(Byte) /\ Len(s) = Header + Len(m.payload)
      /\ Part(s, Header, Len(m.payload)) = m.payload
      /\ Part(s, 4, CmdSize) = c
      /\ MsgMagic(Part(s, 0, Header)) = m.magic /\ MsgCmd(Part(s, 0, Header)) = c
      /\ MsgLen(Part(s, 0, Header)) = Len(m.payload) /\ MsgSum(Part(s, 0, Header)) = sum
  BY <1>1, <1>3, <1>5, <1>6, MessageIs
<1>8. \E j \in 1 .. CmdSize : s[4 + j] = 0
  <2>1. Len(m.name) + 1 \in 1 .. CmdSize
    BY <1>1, Sizes DEF Name
  <2>2. 4 \in Nat /\ CmdSize \in Nat /\ 4 + CmdSize <= Len(s)
    <3>. DEFINE n == Len(m.payload)
                H == Header
    <3>1. n \in Nat
      BY <1>1
    <3>2. Len(s) = H + n
      BY <1>7
    <3>3. CmdSize \in Nat /\ H \in Nat /\ H = CmdSize + 12
      BY Sizes
    <3>. HIDE DEF n, H
    <3>. QED
      BY <3>1, <3>2, <3>3
  <2>3. \A j \in 1 .. CmdSize : Part(s, 4, CmdSize)[j] = s[4 + j]
    BY <1>7, <2>2, PartIs
  <2>. DEFINE k == Len(m.name) + 1
  <2>4. k \in 1 .. CmdSize /\ c[k] = 0 /\ Part(s, 4, CmdSize) = c
    BY <1>5, <1>7, <2>1
  <2>. HIDE DEF k
  <2>5. s[4 + k] = 0
    BY <2>3, <2>4
  <2>. QED
    BY <2>4, <2>5
<1>. QED
  BY <1>3, <1>7, <1>8 DEF s, c, sum, z

\* So has the verack a node may put behind it; it is bytes.
LEMMA VerackTyped ==
    ASSUME NEW m \in Replies
    PROVE  ReplyBytes([magic |-> m.magic, name |-> Names["btc_verack"], payload |-> <<>>]) \in Seq(Byte)
<1>. DEFINE z == [j \in 1 .. CmdSize |-> 0]
            v == [magic |-> m.magic, name |-> Names["btc_verack"], payload |-> <<>>]
            c == Command(v.name, z)
<1>1. m.magic \in 0 .. Long - 1 /\ Name(v.name) /\ v.magic = m.magic /\ v.payload = <<>>
  BY Constants
<1>2. <<>> \in Payloads
  BY DEF Payloads
<1>3. Checksum(<<>>) \in Seq(Byte)
  BY <1>2, SumIs
<1>4. z \in Seq(Byte) /\ Len(z) = CmdSize
  <2>1. 0 \in Byte /\ CmdSize \in Nat
    BY Sizes, Powers DEF Byte
  <2>2. z \in [1 .. CmdSize -> Byte]
    BY <2>1
  <2>. HIDE DEF z
  <2>. QED
    BY <2>1, <2>2, NSeq
<1>5. ReplyBytes(v) = pack_btc_message(v.magic, c, Checksum(v.payload), v.payload)
  BY DEF ReplyBytes
<1>. HIDE DEF z, v
<1>6. c \in Seq(Byte)
  BY <1>1, <1>4, CommandIs
<1>. HIDE DEF c
<1>7. v.magic \in Int /\ <<>> \in Seq(Byte)
  <2>1. Long \in Nat
    BY Powers
  <2>. QED
    BY <1>1, <2>1
<1>8. pack_btc_message(v.magic, c, Checksum(<<>>), <<>>) \in Seq(Byte)
  BY <1>3, <1>6, <1>7, MessageTyped
<1>. QED
  BY <1>1, <1>5, <1>8 DEF v

\* What a client builds of its request.
LEMMA RequestIs ==
    ASSUME Started, prog \in Programs
    PROVE  /\ Name(CommandName) /\ Request \in Payloads /\ Request \in Seq(Byte)
           /\ Part(junk, 0, CmdSize) \in Seq(Byte) /\ Len(Part(junk, 0, CmdSize)) = CmdSize
           /\ Part(junk, 0, Header) \in Seq(Byte) /\ Len(Part(junk, 0, Header)) = Header
<1>1. Name(CommandName)
  BY Constants DEF CommandName
<1>2. junk \in Seq(Byte) /\ Len(junk) = BufSize
  BY Constants DEF Started
<1>3. 0 \in Nat /\ CmdSize \in Nat /\ Header \in Nat /\ 0 + CmdSize <= Len(junk) /\ 0 + Header <= Len(junk)
  BY <1>2, Sizes, Constants
<1>4. /\ Part(junk, 0, CmdSize) \in Seq(Byte) /\ Len(Part(junk, 0, CmdSize)) = CmdSize
      /\ Part(junk, 0, Header) \in Seq(Byte) /\ Len(Part(junk, 0, Header)) = Header
  BY <1>2, <1>3, PartIs
<1>5. Request \in Payloads /\ Request \in Seq(Byte)
  <2>1. CASE prog = "btc_verack"
    BY <2>1 DEF Request, Payloads
  <2>2. CASE prog # "btc_verack"
    <3>1. PICK t \in Times \cup {FirstTime} : ver = build_version_payload(t)
      BY <2>2 DEF Started
    <3>2. Int64(t)
      BY BtcMessageAssumption DEF BtcMessageAssumption
    <3>3. Request = pack_version(build_version_payload(t))
      BY <2>2, <3>1 DEF Request
    <3>4. pack_version(build_version_payload(t)) \in Seq(Byte)
      BY <3>2, VersionIs
    <3>. QED
      BY <3>3, <3>4 DEF Payloads
  <2>. QED
    BY <2>1, <2>2
<1>. QED
  BY <1>1, <1>4, <1>5

\* The request is read as it was meant.
LEMMA RequestReadsOf ==
    ASSUME Started, Asked
    PROVE  RequestReads
<1>. SUFFICES ASSUME pc = "lookup", prog \in Programs
              PROVE  LET m       == unpack_resp_buf(req, Part(junk, 0, Header))
                         payload == Part(req, Header, Len(req) - Header)
                         v       == print_version_payload(payload)
                     IN  /\ MsgMagic(m) = Magic
                         /\ Part(MsgCmd(m), 0, Len(CommandName) + 1) = Append(CommandName, 0)
                         /\ MsgLen(m) = Len(payload)
                         /\ MsgSum(m) = Checksum(payload)
                         /\ prog # "btc_verack" =>
                                /\ beej_unpack(v.vers, <<"<", "l">>).args = <<ver.vers>>
                                /\ beej_unpack(v.ttamp, <<"<", "q">>).args = <<ver.ttamp>>
                                /\ beej_unpack(Part(v.from, 8 + IpSize, 2), <<">", "H">>).args
                                       = <<ver.addr_from.port>>
                                /\ v.uagent = ver.uagent
                                /\ beej_unpack(v.start_height, <<"<", "l">>).args = <<ver.start_height>>
  BY DEF RequestReads
<1>. DEFINE cmd == Command(CommandName, Part(junk, 0, CmdSize))
            sum == Checksum(Request)
            held == Part(junk, 0, Header)
            h == Part(req, 0, Header)
<1>1. /\ Name(CommandName) /\ Request \in Payloads /\ Request \in Seq(Byte)
      /\ Part(junk, 0, CmdSize) \in Seq(Byte) /\ Len(Part(junk, 0, CmdSize)) = CmdSize
      /\ held \in Seq(Byte) /\ Len(held) = Header
  BY RequestIs
<1>2. req = pack_btc_message(Magic, cmd, sum, Request)
  BY DEF Asked
<1>3. /\ cmd \in Seq(Byte) /\ Len(cmd) = CmdSize
      /\ Part(cmd, 0, Len(CommandName) + 1) = Append(CommandName, 0)
  BY <1>1, CommandIs
<1>4. Len(Request) < Long /\ sum \in Seq(Byte) /\ Len(sum) = 4
  BY <1>1, SumIs
<1>. HIDE DEF cmd, sum
<1>5. /\ req \in Seq(Byte) /\ Len(req) = Header + Len(Request)
      /\ Part(req, Header, Len(Request)) = Request
      /\ MsgMagic(h) = Magic /\ MsgCmd(h) = cmd /\ MsgLen(h) = Len(Request) /\ MsgSum(h) = sum
  BY <1>1, <1>2, <1>3, <1>4, Constants, MessageIs
<1>6. Header <= Len(req) /\ Len(req) - Header = Len(Request)
  BY <1>1, <1>5, Sizes
<1>7. unpack_resp_buf(req, held) = h
  BY <1>1, <1>5, <1>6, UnpackIs
<1>8. Part(req, Header, Len(req) - Header) = Request
  BY <1>5, <1>6
<1>9. ASSUME prog # "btc_verack"
      PROVE  LET v == print_version_payload(Request)
             IN  /\ beej_unpack(v.vers, <<"<", "l">>).args = <<ver.vers>>
                 /\ beej_unpack(v.ttamp, <<"<", "q">>).args = <<ver.ttamp>>
                 /\ beej_unpack(Part(v.from, 8 + IpSize, 2), <<">", "H">>).args = <<ver.addr_from.port>>
                 /\ v.uagent = ver.uagent
                 /\ beej_unpack(v.start_height, <<"<", "l">>).args = <<ver.start_height>>
  <2>1. PICK t \in Times \cup {FirstTime} : ver = build_version_payload(t)
    BY <1>9 DEF Started
  <2>2. Int64(t)
    BY BtcMessageAssumption DEF BtcMessageAssumption
  <2>3. Request = pack_version(build_version_payload(t))
    BY <1>9, <2>1 DEF Request
  <2>4. /\ ver.vers = OwnVers /\ ver.ttamp = t /\ ver.addr_from.port = Port /\ ver.uagent = <<>>
        /\ ver.start_height = Height
    BY <2>1 DEF build_version_payload, build_net_addr
  <2>5. LET v == print_version_payload(pack_version(build_version_payload(t)))
        IN  /\ beej_unpack(v.vers, <<"<", "l">>).args = <<OwnVers>>
            /\ beej_unpack(v.ttamp, <<"<", "q">>).args = <<t>>
            /\ beej_unpack(Part(v.from, 8 + IpSize, 2), <<">", "H">>).args = <<Port>>
            /\ v.uagent = <<>>
            /\ beej_unpack(v.start_height, <<"<", "l">>).args = <<Height>>
    BY <2>2, VersionIs
  <2>. QED
    BY <2>3, <2>4, <2>5
<1>. HIDE DEF h, held
<1>. QED
  BY <1>3, <1>5, <1>7, <1>8, <1>9 DEF sum, held
------------------------------------------------------------------------------
(* ShowsReply. *)

\* An answer that has come whole, as the client has it in its buffer.
LEMMA WholeIs ==
    ASSUME IInv, prog \in Programs, pc \in {"print", "unpack", "show", "version", "done", "overrun"}, Whole
    PROVE  LET m == reply[1]
               s == ReplyBytes(m)
           IN  /\ m \in Replies /\ s \in Seq(Byte) /\ Len(s) = Header + Len(m.payload)
               /\ m.payload \in Seq(Byte) /\ Len(s) <= nread /\ Len(s) <= BufSize
               /\ resp \in Seq(Byte) /\ Len(resp) = BufSize
               /\ \A f, n \in Nat : f + n <= Len(s) => Part(resp, f, n) = Part(s, f, n)
<1>. DEFINE m == reply[1]
            s == ReplyBytes(m)
<1>1. m \in Replies
  BY DEF IInv, Answered, Whole
<1>2. s \in Seq(Byte) /\ Len(s) = Header + Len(m.payload)
  BY <1>1, ReplyIs
<1>3. m.payload \in Seq(Byte)
  BY <1>1, Constants
<1>4. Len(s) <= nread /\ Len(s) <= BufSize
  BY <1>2 DEF Whole
<1>5. resp \in Seq(Byte) /\ Len(resp) = BufSize
  BY DEF IInv, TypeOK
<1>6. Part(resp, 0, Len(s)) = s
  BY DEF IInv, Arrived
<1>. HIDE DEF s
<1>7. ASSUME NEW f \in Nat, NEW n \in Nat, f + n <= Len(s)
      PROVE  Part(resp, f, n) = Part(s, f, n)
  <2>1. Len(s) \in Nat /\ 0 \in Nat /\ 0 + Len(s) <= Len(resp) /\ 0 + f = f
    BY <1>2, <1>4, <1>5
  <2>2. Part(Part(resp, 0, Len(s)), f, n) = Part(resp, 0 + f, n)
    BY <1>5, <1>7, <2>1, PartPart
  <2>. QED
    BY <1>6, <2>1, <2>2
<1>. QED
  BY <1>1, <1>2, <1>3, <1>4, <1>5, <1>7 DEF s

\* It has a zero behind its command's name.
LEMMA WholeEnds ==
    ASSUME IInv, prog \in Programs, pc \in {"print", "unpack", "show", "version", "done", "overrun"}, Whole
    PROVE  \E k \in 1 .. CmdSize : 4 + k \in 1 .. Len(resp) /\ resp[4 + k] = 0
<1>. DEFINE s == ReplyBytes(reply[1])
            L == Len(s)
<1>1. /\ reply[1] \in Replies /\ s \in Seq(Byte) /\ L = Header + Len(reply[1].payload)
      /\ reply[1].payload \in Seq(Byte) /\ L <= BufSize
      /\ resp \in Seq(Byte) /\ Len(resp) = BufSize
      /\ \A f, n \in Nat : f + n <= L => Part(resp, f, n) = Part(s, f, n)
  BY WholeIs
<1>2. PICK k \in 1 .. CmdSize : s[4 + k] = 0
  BY <1>1, ReplyIs
<1>3. 4 + k \in 1 .. L /\ L \in Nat /\ L <= Len(resp) /\ 0 \in Nat /\ 0 + L <= L /\ 0 + L <= Len(resp)
  <2>. DEFINE n == Len(reply[1].payload)
              R == Len(resp)
  <2>1. n \in Nat /\ Header = CmdSize + 12 /\ CmdSize \in Nat /\ BufSize \in Nat
    BY <1>1, Sizes, Constants
  <2>2. L = Header + n /\ L <= BufSize /\ R = BufSize
    BY <1>1
  <2>. HIDE DEF L, n, R
  <2>3. 4 + k \in 1 .. L /\ L \in Nat /\ L <= R /\ 0 \in Nat /\ 0 + L <= L /\ 0 + L <= R
    BY <2>1, <2>2
  <2>. QED
    BY <2>3 DEF R
<1>4. Part(resp, 0, L) = s
  <2>1. Part(s, 0, L) = s
    BY <1>1, PartAll
  <2>2. Part(resp, 0, L) = Part(s, 0, L)
    BY <1>1, <1>3
  <2>. QED
    BY <2>1, <2>2
<1>. HIDE DEF s, L
<1>5. \A j \in 1 .. L : Part(resp, 0, L)[j] = resp[0 + j]
  BY <1>1, <1>3, PartIs
<1>6. 0 + (4 + k) = 4 + k /\ 4 + k \in 1 .. Len(resp)
  BY <1>1, <1>3
<1>7. resp[4 + k] = 0
  BY <1>2, <1>3, <1>4, <1>5, <1>6
<1>. QED
  BY <1>6, <1>7

\* A version that lies in a payload is the one read where the payload has been copied to,
\* whatever lies behind it.
LEMMA VersionKept ==
    ASSUME NEW p \in Seq(Byte), NEW held \in Seq(Byte), Len(p) < Len(held), VersionIn(p, 4)
    PROVE  LET buf == Stored(held, 0, p)
           IN  VersionIn(buf, 5) /\ print_version_payload(buf) = print_version_payload(p)
<1>. DEFINE buf == Stored(held, 0, p)
            U == UserAgent
            n == read_varint(p, U)
            w == VarintWidth(p[U + 1])
            na == 8 + IpSize + 2
<1>1. 0 \in Nat /\ IpSize \in Nat
  BY BtcMessageAssumption DEF BtcMessageAssumption
<1>2. /\ buf \in Seq(Byte) /\ Len(buf) = Len(held)
      /\ \A j \in 1 .. Len(held) : buf[j] = IF 0 < j /\ j <= 0 + Len(p) THEN p[j - 0] ELSE held[j]
  BY <1>1, StoredIs
<1>3. Len(p) \in Nat /\ Len(buf) \in Nat /\ Len(p) + 1 <= Len(buf)
  BY <1>2
<1>. HIDE DEF buf
<1>4. \A j \in 1 .. Len(p) : buf[j] = p[j] /\ j \in 1 .. Len(buf)
  BY <1>2, <1>3
<1>5. ASSUME NEW f \in Nat, NEW m \in Nat, f + m <= Len(p)
      PROVE  Part(buf, f, m) = Part(p, f, m)
  <2>1. f + m <= Len(buf)
    BY <1>3, <1>5
  <2>2. Part(p, f, m) \in Seq(Byte) /\ Len(Part(p, f, m)) = m /\ \A j \in 1 .. m : Part(p, f, m)[j] = p[f + j]
    BY <1>5, PartIs
  <2>3. \A j \in 1 .. m : f + j \in 1 .. Len(p)
    BY <1>3, <1>5
  <2>4. \A j \in 1 .. m : buf[f + j] = Part(p, f, m)[j]
    BY <1>4, <2>2, <2>3
  <2>. QED
    BY <1>2, <2>1, <2>2, <2>4, PartEqual
<1>6. U \in Nat /\ na \in Nat /\ U = 28 + 2 * na
  BY <1>1 DEF UserAgent
<1>. HIDE DEF U, na
<1>7. /\ U < Len(p) /\ U + w <= Len(p) /\ U + 2 + n + 4 <= Len(p)
      /\ \E j \in U + 3 .. Len(p) : p[j] = 0
  BY DEF VersionIn, U
<1>8. U + 1 \in 1 .. Len(p) /\ p[U + 1] \in Byte /\ buf[U + 1] = p[U + 1]
  <2>1. U + 1 \in 1 .. Len(p)
    BY <1>3, <1>6, <1>7
  <2>. QED
    BY <1>4, <2>1
<1>9. w \in Nat
  <2>1. p[U + 1] \in 0 .. Base - 1 /\ Base \in Nat
    BY <1>8, Powers DEF Byte
  <2>2. \/ p[U + 1] < Base - 3 \/ p[U + 1] = Base - 3 \/ p[U + 1] = Base - 2 \/ p[U + 1] = Base - 1
    BY <2>1
  <2>. DEFINE b == p[U + 1]
  <2>. HIDE DEF b
  <2>3. b < Base - 3 \/ b = Base - 3 \/ b = Base - 2 \/ b = Base - 1
    BY <2>2 DEF b
  <2>4. VarintWidth(b) \in Nat
    BY <2>3 DEF VarintWidth
  <2>. QED
    BY <2>4 DEF b
<1>. HIDE DEF w
<1>10. read_varint(buf, U) = n /\ n \in Nat
  <2>1. Part(buf, U, w) = Part(p, U, w) /\ Num(Part(p, U, w)) \in Nat
    <3>1. Part(p, U, w) \in Seq(Byte)
      BY <1>6, <1>7, <1>9, PartIs
    <3>. QED
      BY <1>5, <1>6, <1>7, <1>9, <3>1, NumTyped
  <2>2. p[U + 1] \in Nat
    BY <1>8 DEF Byte
  <2>3. read_varint(buf, U) = IF buf[U + 1] < Base - 3 THEN buf[U + 1]
                              ELSE Num(Part(buf, U, VarintWidth(buf[U + 1])))
    BY DEF read_varint
  <2>4. n = IF p[U + 1] < Base - 3 THEN p[U + 1] ELSE Num(Part(p, U, VarintWidth(p[U + 1])))
    BY DEF read_varint
  <2>5. VarintWidth(p[U + 1]) = w
    BY DEF w
  <2>. QED
    BY <1>8, <2>1, <2>2, <2>3, <2>4, <2>5
<1>. HIDE DEF n
<1>11. VersionIn(buf, 5)
  <2>1. PICK j \in U + 3 .. Len(p) : p[j] = 0
    BY <1>7
  <2>2. j \in 1 .. Len(p) /\ j \in U + 3 .. Len(buf)
    BY <1>3, <1>6, <2>1
  <2>3. Len(buf) > U /\ U + w <= Len(buf) /\ U + 2 + n + 5 <= Len(buf)
    BY <1>3, <1>6, <1>7, <1>9, <1>10
  <2>4. VarintWidth(buf[U + 1]) = w
    BY <1>8 DEF w
  <2>. QED
    BY <1>4, <1>10, <2>1, <2>2, <2>3, <2>4 DEF VersionIn, U
<1>12. /\ Part(buf, 0, 4) = Part(p, 0, 4) /\ Part(buf, 4, 8) = Part(p, 4, 8)
       /\ Part(buf, 12, 8) = Part(p, 12, 8) /\ Part(buf, 20, na) = Part(p, 20, na)
       /\ Part(buf, 20 + na, na) = Part(p, 20 + na, na)
       /\ Part(buf, 20 + 2 * na, 8) = Part(p, 20 + 2 * na, 8)
       /\ Part(buf, U, 2) = Part(p, U, 2) /\ Part(buf, U + 2, n) = Part(p, U + 2, n)
       /\ Part(buf, U + 2 + n, 4) = Part(p, U + 2 + n, 4)
  <2>1. /\ 20 + na \in Nat /\ 20 + 2 * na \in Nat /\ U + 2 \in Nat /\ U + 2 + n \in Nat
        /\ 0 + 4 <= Len(p) /\ 4 + 8 <= Len(p) /\ 12 + 8 <= Len(p) /\ 20 + na <= Len(p)
        /\ (20 + na) + na <= Len(p) /\ (20 + 2 * na) + 8 <= Len(p)
        /\ U + 2 <= Len(p) /\ (U + 2) + n <= Len(p) /\ (U + 2 + n) + 4 <= Len(p)
    BY <1>3, <1>6, <1>7, <1>10
  <2>. QED
    BY <1>5, <1>6, <1>10, <2>1
<1>13. print_version_payload(buf) = print_version_payload(p)
  BY <1>10, <1>12 DEF print_version_payload, n, na, U
<1>. QED
  BY <1>11, <1>13 DEF buf

\* A client that unpacks.
LEMMA UnpackerShows ==
    ASSUME IInv, prog \in Unpackers, pc \in {"done", "overrun"}, Whole
    PROVE  /\ shown = ReplyBytes([reply[1] EXCEPT !.magic = IF prog = "btc_version" THEN Magic ELSE @])
           /\ prog = "btc_verack" => pc = "done"
           /\ prog = "btc_version" /\ VersionIn(reply[1].payload, 4) =>
                  pc = "done" /\ fields = print_version_payload(reply[1].payload)
<1>. DEFINE m == reply[1]
            s == ReplyBytes(m)
            c == Command(m.name, [j \in 1 .. CmdSize |-> 0])
            x == IF prog = "btc_version" THEN Magic ELSE m.magic
<1>1. prog \in Programs
  BY DEF Programs
<1>2. /\ m \in Replies /\ s \in Seq(Byte) /\ Len(s) = Header + Len(m.payload)
      /\ m.payload \in Seq(Byte) /\ Len(s) <= BufSize /\ resp \in Seq(Byte) /\ Len(resp) = BufSize
      /\ \A f, n \in Nat : f + n <= Len(s) => Part(resp, f, n) = Part(s, f, n)
  BY <1>1, WholeIs
<1>3. /\ Part(s, Header, Len(m.payload)) = m.payload
      /\ MsgMagic(Part(s, 0, Header)) = m.magic /\ MsgCmd(Part(s, 0, Header)) = c
      /\ MsgLen(Part(s, 0, Header)) = Len(m.payload) /\ MsgSum(Part(s, 0, Header)) = Checksum(m.payload)
  BY <1>2, ReplyIs
<1>4. ReplyBytes([m EXCEPT !.magic = x]) = pack_btc_message(x, c, Checksum(m.payload), m.payload)
  <2>1. m = [magic |-> m.magic, name |-> m.name, payload |-> m.payload]
    BY <1>2, Constants
  <2>. DEFINE m2 == [m EXCEPT !.magic = x]
  <2>2. m2.magic = x /\ m2.name = m.name /\ m2.payload = m.payload
    BY <2>1
  <2>3. ReplyBytes(m2) = pack_btc_message(m2.magic, Command(m2.name, [j \in 1 .. CmdSize |-> 0]),
                                          Checksum(m2.payload), m2.payload)
    BY DEF ReplyBytes
  <2>. HIDE DEF m2
  <2>4. ReplyBytes(m2) = pack_btc_message(x, c, Checksum(m.payload), m.payload)
    BY <2>2, <2>3
  <2>. QED
    BY <2>4 DEF m2
<1>. HIDE DEF s, c
<1>5. Header \in Nat /\ 0 \in Nat /\ Len(m.payload) \in Nat /\ 0 + Header <= Len(s)
      /\ Header + Len(m.payload) <= Len(s) /\ BufSize \in Nat /\ Header > 0
  BY <1>2, Sizes, Constants
<1>6. Part(resp, 0, Header) = Part(s, 0, Header)
  BY <1>2, <1>5
<1>7. MsgLen(Part(resp, 0, Header)) = Len(m.payload) /\ ~(Len(m.payload) > BufSize - Header)
  <2>. DEFINE n == Len(m.payload)
              H == Header
  <2>1. H + n <= BufSize /\ H \in Nat /\ n \in Nat /\ BufSize \in Nat
    BY <1>2, <1>5
  <2>. HIDE DEF n, H
  <2>2. ~(n > BufSize - H)
    BY <2>1
  <2>. QED
    BY <1>3, <1>6, <2>2 DEF n, H
<1>8. \E j \in 1 .. Len(resp) : resp[j] = 0
  BY <1>1, WholeEnds
<1>9. Unpacked /\ Repacked /\ (pc = "overrun" => prog = "btc_version" /\ \E buf \in Buffers : ~VersionIn(buf, 5))
  <2>1. CASE pc = "done"
    BY <2>1 DEF IInv, Handled
  <2>2. CASE pc = "overrun"
    <3>1. \/ \A j \in 1 .. Len(resp) : resp[j] # 0
          \/ MsgLen(Part(resp, 0, Header)) > BufSize - Header
          \/ /\ prog = "btc_version" /\ Unpacked /\ Repacked
             /\ \E buf \in Buffers : ~VersionIn(buf, 5)
      BY <2>2 DEF IInv, Handled
    <3>. QED
      BY <1>7, <1>8, <3>1
  <2>. QED
    BY <2>1, <2>2
<1>10. msg = Part(s, 0, Header)
  BY <1>6, <1>9 DEF Unpacked
<1>11. Payload = m.payload
  <2>1. MsgLen(msg) = Len(m.payload)
    BY <1>3, <1>10
  <2>2. Part(resp, Header, Len(m.payload)) = Part(s, Header, Len(m.payload))
    BY <1>2, <1>5
  <2>. QED
    BY <1>3, <2>1, <2>2 DEF Payload
<1>12. shown = pack_btc_message(x, c, Checksum(m.payload), m.payload)
  BY <1>3, <1>9, <1>10, <1>11 DEF Repacked
<1>13. ASSUME VersionIn(m.payload, 4), NEW buf \in Buffers
       PROVE  VersionIn(buf, 5) /\ print_version_payload(buf) = print_version_payload(m.payload)
  <2>1. PICK held \in Junk : buf = Stored(held, 0, m.payload)
    BY <1>11 DEF Buffers
  <2>2. held \in Seq(Byte) /\ Len(held) = BufSize
    BY Constants
  <2>3. Len(m.payload) < Len(held)
    <3>. DEFINE n == Len(m.payload)
                H == Header
    <3>1. H + n <= BufSize /\ H \in Nat /\ n \in Nat /\ BufSize \in Nat /\ H > 0
      BY <1>2, <1>5
    <3>. HIDE DEF n, H
    <3>2. n < BufSize
      BY <3>1
    <3>. QED
      BY <2>2, <3>2 DEF n
  <2>. QED
    BY <1>2, <1>13, <2>1, <2>2, <2>3, VersionKept
<1>14. ASSUME prog = "btc_version", VersionIn(m.payload, 4)
       PROVE  pc = "done" /\ fields = print_version_payload(m.payload)
  <2>1. pc # "overrun"
    BY <1>9, <1>13, <1>14
  <2>2. \E buf \in Buffers : VersionIn(buf, 5) /\ fields = print_version_payload(buf)
    BY <1>14, <2>1 DEF IInv, Handled
  <2>. QED
    BY <1>13, <1>14, <2>1, <2>2
<1>15. prog = "btc_verack" => pc = "done"
  BY <1>9
<1>. QED
  BY <1>4, <1>12, <1>14, <1>15

\* One that does not.
LEMMA PrinterShows ==
    ASSUME IInv, prog \in Printers, pc \in {"done", "overrun"}, Whole
    PROVE  LET text == Len(shown) - nread
               sent == ReplyBytes(reply[1])
           IN  /\ pc = "done"
               /\ text \in 0 .. 4 + CmdSize
               /\ Part(shown, 0, text) = Part(sent, 0, text)
               /\ Part(shown, text, Len(sent)) = sent
<1>. DEFINE m == reply[1]
            s == ReplyBytes(m)
            Z == {j \in 1 .. Len(resp) : resp[j] = 0}
            e == EndOfText(resp) - 1
            a == Part(resp, 0, e)
            b == Part(resp, 0, nread)
<1>1. prog \in Programs
  BY DEF Programs
<1>2. /\ m \in Replies /\ s \in Seq(Byte) /\ Len(s) = Header + Len(m.payload)
      /\ m.payload \in Seq(Byte) /\ Len(s) <= nread /\ Len(s) <= BufSize
      /\ resp \in Seq(Byte) /\ Len(resp) = BufSize
      /\ \A f, n \in Nat : f + n <= Len(s) => Part(resp, f, n) = Part(s, f, n)
  BY <1>1, WholeIs
<1>3. PICK k \in 1 .. CmdSize : 4 + k \in 1 .. Len(resp) /\ resp[4 + k] = 0
  BY <1>1, WholeEnds
<1>4. /\ Len(s) \in Nat /\ Header <= Len(s) /\ Header \in Nat /\ Header = CmdSize + 12 /\ CmdSize \in Nat
      /\ nread \in Nat /\ nread < BufSize /\ BufSize \in Nat
  <2>1. Len(m.payload) \in Nat /\ Header \in Nat /\ Header = CmdSize + 12 /\ CmdSize \in Nat
    BY <1>2, Sizes
  <2>2. nread \in 0 .. BufSize - 1 /\ BufSize \in Nat
    BY <1>1, Constants DEF IInv, TypeOK
  <2>3. Len(s) \in Nat /\ Header <= Len(s)
    <3>. DEFINE n == Len(m.payload)
                L == Len(s)
    <3>1. L = Header + n /\ n \in Nat
      BY <1>2, <2>1
    <3>. HIDE DEF n, L
    <3>2. L \in Nat /\ Header <= L
      BY <2>1, <3>1
    <3>. QED
      BY <3>2 DEF L
  <2>. QED
    BY <2>1, <2>2, <2>3
<1>. HIDE DEF s
<1>5. /\ s \in Seq(Byte) /\ resp \in Seq(Byte) /\ Len(s) <= nread /\ Len(s) <= BufSize /\ Len(resp) = BufSize
      /\ Len(s) \in Nat /\ Header <= Len(s) /\ Header \in Nat /\ Header = CmdSize + 12 /\ CmdSize \in Nat
      /\ nread \in Nat /\ nread < BufSize /\ BufSize \in Nat /\ Len(resp) \in Nat
  BY <1>2, <1>4
<1>6. Len(resp) \in Nat /\ Len(s) <= Len(resp) /\ nread <= Len(resp) /\ Len(s) <= nread
  <2>. DEFINE R == Len(resp)
              S == Len(s)
  <2>1. R \in Nat /\ S \in Nat /\ S <= BufSize /\ R = BufSize /\ nread \in Nat /\ nread < BufSize /\ S <= nread
    BY <1>5
  <2>. HIDE DEF R, S
  <2>2. S <= R /\ nread <= R
    BY <2>1
  <2>. QED
    BY <1>5, <2>2 DEF R, S
<1>7. 4 + k \in Z /\ 4 + k <= Header
  BY <1>3, <1>5
<1>8. pc = "done" /\ shown = a \o b
  BY <1>7 DEF IInv, Handled
<1>9. e \in Nat /\ e < 4 + k
  <2>1. Z \in SUBSET Nat /\ Z # {} /\ \A j \in Z : j >= 1
    BY <1>7
  <2>2. EndOfText(resp) = Min(Z)
    BY DEF EndOfText
  <2>. HIDE DEF Z
  <2>3. Min(Z) \in Z /\ Min(Z) <= 4 + k
    BY <1>7, <2>1, MinIs
  <2>4. Min(Z) \in Nat /\ Min(Z) >= 1
    BY <2>1, <2>3
  <2>. QED
    BY <2>2, <2>3, <2>4
<1>. HIDE DEF e, Z
<1>10. 0 \in Nat /\ 0 + e <= Len(resp) /\ 0 + nread <= Len(resp) /\ 0 + e <= Len(s)
  <2>. DEFINE R == Len(resp)
              S == Len(s)
  <2>1. R \in Nat /\ S \in Nat /\ S <= R /\ nread <= R /\ nread \in Nat /\ 4 + k <= Header /\ Header <= S
    BY <1>5, <1>6, <1>7
  <2>2. 4 + k \in Nat /\ Header \in Nat
    BY <1>5
  <2>. HIDE DEF R, S
  <2>3. 0 + e <= R /\ 0 + nread <= R /\ 0 + e <= S
    BY <1>9, <2>1, <2>2
  <2>. QED
    BY <2>3 DEF R, S
<1>11. a \in Seq(Byte) /\ Len(a) = e /\ b \in Seq(Byte) /\ Len(b) = nread
  <2>1. /\ resp \in Seq(Byte) /\ e \in Nat /\ nread \in Nat /\ 0 \in Nat
        /\ 0 + e <= Len(resp) /\ 0 + nread <= Len(resp)
    BY <1>5, <1>9, <1>10
  <2>2. Part(resp, 0, e) \in Seq(Byte) /\ Len(Part(resp, 0, e)) = e
    BY <2>1, PartIs
  <2>3. Part(resp, 0, nread) \in Seq(Byte) /\ Len(Part(resp, 0, nread)) = nread
    BY <2>1, PartIs
  <2>. QED
    BY <2>2, <2>3 DEF a, b
<1>12. a = Part(s, 0, e)
  BY <1>2, <1>9, <1>10
<1>13. Part(b, 0, Len(s)) = s
  <2>1. 0 + Len(s) <= nread /\ 0 + 0 = 0 /\ 0 + Len(s) <= Len(s)
    BY <1>5
  <2>2. Part(Part(resp, 0, nread), 0, Len(s)) = Part(resp, 0 + 0, Len(s))
    <3>1. /\ resp \in Seq(Byte) /\ 0 \in Nat /\ nread \in Nat /\ Len(s) \in Nat
          /\ 0 + nread <= Len(resp) /\ 0 + Len(s) <= nread
      BY <1>5, <1>10, <2>1
    <3>. QED
      BY <3>1, PartPart
  <2>3. Part(resp, 0, Len(s)) = Part(s, 0, Len(s))
    BY <1>2, <1>5, <2>1
  <2>4. Part(s, 0, Len(s)) = s
    BY <1>5, PartAll
  <2>. QED
    BY <2>1, <2>2, <2>3, <2>4
<1>. HIDE DEF a, b
<1>14. Part(a \o b, 0, e) = a /\ Len(a \o b) = e + nread
  BY <1>11, PartOfTwo
<1>15. Part(a \o b, e, Len(s)) = Part(b, 0, Len(s))
  <2>1. a \in Seq(Byte) /\ b \in Seq(Byte) /\ 0 \in Nat /\ Len(s) \in Nat /\ 0 + Len(s) <= Len(b)
    BY <1>5, <1>11
  <2>2. Part(a \o b, Len(a) + 0, Len(s)) = Part(b, 0, Len(s))
    BY <2>1, PartBehind
  <2>3. Len(a) + 0 = e
    BY <1>9, <1>11
  <2>. QED
    BY <2>2, <2>3
<1>16. Len(shown) - nread = e
  <2>1. Len(shown) = e + nread /\ e \in Nat /\ nread \in Nat
    BY <1>5, <1>8, <1>9, <1>14
  <2>. QED
    BY <2>1
<1>17. e \in 0 .. 4 + CmdSize
  BY <1>5, <1>9
<1>. QED
  BY <1>8, <1>12, <1>13, <1>14, <1>15, <1>16, <1>17 DEF s

LEMMA ShowsReplyOf ==
    ASSUME IInv
    PROVE  ShowsReply
<1>1. ASSUME prog \notin Programs, pc = "done", reply # <<>>
      PROVE  /\ nread < TextSize /\ shown = Part(reply[1], 0, nread)
             /\ prog = "bgnet_listener" /\ Len(reply[1]) < TextSize => shown = reply[1]
  <2>1. /\ nread < TextSize /\ shown = Part(reply[1], 0, nread)
        /\ prog = "bgnet_listener" /\ Len(reply[1]) < TextSize => nread = Len(reply[1])
    BY <1>1 DEF IInv, Told
  <2>2. reply[1] \in Seq(Byte)
    BY <1>1, Constants DEF IInv, Answered
  <2>. QED
    BY <2>1, <2>2, PartAll
<1>. QED
  BY <1>1, UnpackerShows, PrinterShows DEF ShowsReply, Unpackers
------------------------------------------------------------------------------
(* The inductive invariant: the start, and the steps of a client before it has an answer. *)

\* Where a program may be, case by case.
LEMMA PlacesAre ==
    /\ \A p \in Unpackers : Places(p) = {"build", "lookup", "connect", "write", "recv", "print", "unpack",
                                         "show", "exit", "overrun", "done"}
                                        \cup (IF p = "btc_version" THEN {"version"} ELSE {})
    /\ \A p \in Printers : Places(p) = {"build", "lookup", "connect", "write", "recv", "print",
                                        "exit", "overrun", "done"}
    /\ \A p \in {"stream_socket_client", "bgnet_listener"} :
           Places(p) = {"lookup", "connect", "recv", "exit", "done"}
    /\ Places("bgnet_talker") = {"lookup", "connect", "sendto", "exit", "done"}
    /\ Places("bgnet_broadcaster") = {"lookup", "exit", "done"}
    /\ Places("debug") = {"pack", "done"}
<1>1. \A p \in Unpackers : Places(p) = {"build", "lookup", "connect", "write", "recv", "print", "unpack",
                                        "show", "exit", "overrun", "done"}
                                       \cup (IF p = "btc_version" THEN {"version"} ELSE {})
  BY DEF Places, Unpackers, Printers
<1>2. \A p \in Printers : Places(p) = {"build", "lookup", "connect", "write", "recv", "print",
                                       "exit", "overrun", "done"}
  BY DEF Places, Unpackers, Printers
<1>3. \A p \in {"stream_socket_client", "bgnet_listener"} :
          Places(p) = {"lookup", "connect", "recv", "exit", "done"}
  BY DEF Places, Unpackers, Printers
<1>4. /\ Places("bgnet_talker") = {"lookup", "connect", "sendto", "exit", "done"}
      /\ Places("bgnet_broadcaster") = {"lookup", "exit", "done"}
      /\ Places("debug") = {"pack", "done"}
  BY DEF Places, Unpackers, Printers
<1>. QED
  BY <1>1, <1>2, <1>3, <1>4

\* A request is bytes.
LEMMA RequestTyped ==
    ASSUME Started, prog \in Programs
    PROVE  pack_btc_message(Magic, Command(CommandName, Part(junk, 0, CmdSize)),
                            Checksum(Request), Request) \in Seq(Byte)
<1>. DEFINE held == Part(junk, 0, CmdSize)
            cmd == Command(CommandName, held)
            sum == Checksum(Request)
<1>1. /\ Name(CommandName) /\ Request \in Payloads /\ Request \in Seq(Byte)
      /\ held \in Seq(Byte) /\ Len(held) = CmdSize
  BY RequestIs
<1>. HIDE DEF held
<1>2. cmd \in Seq(Byte)
  BY <1>1, CommandIs
<1>3. sum \in Seq(Byte)
  BY <1>1, SumIs
<1>4. Magic \in Int
  <2>1. Magic \in 0 .. Long - 1 /\ Long \in Nat
    BY Constants, Powers
  <2>. QED
    BY <2>1
<1>. HIDE DEF cmd, sum
<1>5. pack_btc_message(Magic, cmd, sum, Request) \in Seq(Byte)
  BY <1>1, <1>2, <1>3, <1>4, MessageTyped
<1>. QED
  BY <1>5 DEF cmd, sum, held

LEMMA InitInv ==
    ASSUME Init
    PROVE  IInv
<1>1. junk \in Seq(Byte) /\ Len(junk) = BufSize /\ resp = junk
  BY Constants DEF Init
<1>2. /\ prog \in Programs \cup {"stream_socket_client"} \cup Datagrams \cup {"debug"}
      /\ pc \in Places(prog) /\ pc \in {"build", "lookup", "pack"}
      /\ prog \in Programs => pc = "build"
      /\ prog = "debug" => pc = "pack" /\ test \in Tests
      /\ prog \in Programs \ {"btc_verack"} => \E t \in Times \cup {FirstTime} : ver = build_version_payload(t)
  <2>1. CASE prog \in {"btc_version"} \cup Printers /\ pc = "build"
             /\ ver \in {build_version_payload(t) : t \in Clock(prog)}
    <3>1. \E t \in Times \cup {FirstTime} : ver = build_version_payload(t)
      BY <2>1 DEF Clock
    <3>2. prog \in Programs /\ prog # "debug"
      BY <2>1 DEF Programs, Unpackers, Printers
    <3>3. pc \in Places(prog)
      BY <2>1, PlacesAre DEF Unpackers
    <3>. QED
      BY <2>1, <3>1, <3>2, <3>3
  <2>2. CASE prog = "btc_verack" /\ pc = "build"
    <3>1. prog \in Unpackers /\ prog \in Programs /\ prog # "debug"
      BY <2>2 DEF Programs, Unpackers
    <3>2. pc \in Places(prog)
      BY <2>2, <3>1, PlacesAre
    <3>. QED
      BY <2>2, <3>1, <3>2
  <2>3. CASE prog \in {"stream_socket_client"} \cup Datagrams /\ pc = "lookup"
    <3>1. prog \notin Programs /\ prog # "debug"
      BY <2>3 DEF Programs, Unpackers, Printers, Datagrams
    <3>2. pc \in Places(prog)
      BY <2>3, PlacesAre DEF Datagrams
    <3>. QED
      BY <2>3, <3>1, <3>2
  <2>4. CASE prog = "debug" /\ pc = "pack" /\ test \in Tests
    <3>1. prog \notin Programs
      BY <2>4 DEF Programs, Unpackers, Printers
    <3>2. pc \in Places(prog)
      BY <2>4, PlacesAre
    <3>. QED
      BY <2>4, <3>1, <3>2
  <2>. QED
    BY <2>1, <2>2, <2>3, <2>4 DEF Init
<1>3. TypeOK
  <2>1. /\ req \in Seq(Byte) /\ wire \in Seq(Byte) /\ resp \in Seq(Byte) /\ msg \in Seq(Byte)
        /\ shown \in Seq(Byte) /\ Len(resp) = BufSize /\ addrs = 0 /\ nread = 0
    BY <1>1 DEF Init
  <2>2. addrs \in 0 .. MaxAddrs
    BY <2>1, Constants
  <2>3. nread \in 0 .. (IF prog \in Programs THEN BufSize ELSE TextSize) - 1
    <3>1. BufSize \in Nat /\ TextSize \in Nat /\ TextSize > 0 /\ BufSize > 0
      <4>1. Header \in Nat /\ Header > 0 /\ Header <= BufSize /\ BufSize \in Nat
        BY Sizes, Constants
      <4>. QED
        BY <4>1, Constants
    <3>. QED
      BY <2>1, <3>1
  <2>. QED
    BY <1>2, <2>1, <2>2, <2>3 DEF TypeOK
<1>4. Started /\ Asked
  BY <1>2 DEF Started, Asked, Init
<1>5. Answered /\ Arriving /\ Arrived /\ Told
  BY DEF Answered, Arriving, Arrived, Told, Whole, Init
<1>6. Handled
  BY <1>2 DEF Handled
<1>. QED
  BY <1>3, <1>4, <1>5, <1>6 DEF IInv

\* A step that changes no buffer: the client goes on without an answer, or it exits.
LEMMA QuietInv ==
    ASSUME IInv, UNCHANGED <<clientVars, req, reply, wire, closed, nread, resp, msg, shown>>,
           addrs' \in 0 .. MaxAddrs, pc' \in Places(prog), pc \notin {"build", "pack"},
           pc' \in {"lookup", "connect", "write", "sendto", "recv", "exit"},
           reply = <<>> \/ pc' = "exit"
    PROVE  IInv'
<1>1. UNCHANGED <<prog, junk, ver, test, fields, req, reply, wire, closed, nread, resp, msg, shown>>
  BY DEF clientVars
<1>2. TypeOK'
  BY <1>1 DEF IInv, TypeOK
<1>3. Started'
  BY <1>1 DEF IInv, Started
<1>4. Asked'
  BY <1>1 DEF IInv, Asked, CommandName, Request
<1>5. Answered'
  BY <1>1 DEF IInv, Answered
<1>6. Arriving' /\ Arrived' /\ Told' /\ Handled'
  BY <1>1 DEF Arriving, Arrived, Told, Handled
<1>. QED
  BY <1>2, <1>3, <1>4, <1>5, <1>6 DEF IInv

LEMMA BuildInv ==
    ASSUME IInv, prog \in Programs, Build
    PROVE  IInv'
<1>1. /\ pc = "build" /\ pc' = "lookup"
      /\ UNCHANGED <<prog, junk, ver, test, fields, addrs, reply, wire, closed, nread, resp, msg, shown>>
      /\ req' = pack_btc_message(Magic, Command(CommandName, Part(junk, 0, CmdSize)),
                                 Checksum(Request), Request)
  BY DEF Build, clientVars
<1>2. reply = <<>>
  BY <1>1 DEF IInv, Answered
<1>3. TypeOK'
  <2>1. req' \in Seq(Byte)
    BY <1>1, RequestTyped DEF IInv
  <2>. QED
    BY <1>1, <2>1 DEF IInv, TypeOK
<1>4. Started'
  <2>1. "lookup" \in Places(prog)
    BY PlacesAre DEF Programs
  <2>. QED
    BY <1>1, <2>1 DEF IInv, Started
<1>5. Asked'
  <2>1. prog # "debug"
    BY DEF Programs, Unpackers, Printers
  <2>2. CommandName' = CommandName /\ Request' = Request
    BY <1>1 DEF CommandName, Request
  <2>. QED
    BY <1>1, <2>1, <2>2 DEF Asked
<1>6. Answered' /\ Arriving' /\ Arrived' /\ Told' /\ Handled'
  BY <1>1, <1>2 DEF Answered, Arriving, Arrived, Told, Handled
<1>. QED
  BY <1>3, <1>4, <1>5, <1>6 DEF IInv

\* A client that looks for its peer.
LEMMA ConnectingInv ==
    ASSUME IInv, prog \in Programs \cup {"stream_socket_client", "bgnet_listener", "bgnet_talker"}, Connecting
    PROVE  IInv'
<1>1. pc \in {"lookup", "connect"} /\ reply = <<>>
  BY DEF Connecting, Lookup, TryAddress, CouldNotConnect, IInv, Answered
<1>2. "connect" \in Places(prog) /\ "exit" \in Places(prog)
  BY PlacesAre DEF Programs
<1>3. Opened \in {"write", "sendto", "recv"} /\ Opened \in Places(prog)
  <2>1. CASE prog \in Programs
    BY <2>1, PlacesAre DEF Opened, Programs
  <2>2. CASE prog = "bgnet_talker"
    BY <2>2, PlacesAre DEF Opened, Programs, Unpackers, Printers
  <2>3. CASE prog \in {"stream_socket_client", "bgnet_listener"}
    BY <2>3, PlacesAre DEF Opened, Programs, Unpackers, Printers
  <2>. QED
    BY <2>1, <2>2, <2>3
<1>4. /\ UNCHANGED <<clientVars, req, reply, wire, closed, nread, resp, msg, shown>>
      /\ addrs' \in 0 .. MaxAddrs
      /\ pc' \in {"connect", "exit", Opened}
  <2>1. addrs \in 0 .. MaxAddrs /\ MaxAddrs \in Nat
    BY Constants DEF IInv, TypeOK
  <2>2. CASE Lookup
    BY <2>1, <2>2 DEF Lookup
  <2>3. CASE TryAddress
    BY <2>1, <2>3 DEF TryAddress
  <2>4. CASE CouldNotConnect
    BY <2>1, <2>4 DEF CouldNotConnect
  <2>. QED
    BY <2>2, <2>3, <2>4 DEF Connecting
<1>5. pc' \in Places(prog) /\ pc' \in {"lookup", "connect", "write", "sendto", "recv", "exit"}
  BY <1>2, <1>3, <1>4
<1>. QED
  BY <1>1, <1>4, <1>5, QuietInv

LEMMA WriteInv ==
    ASSUME IInv, prog \in Programs, Write
    PROVE  IInv'
<1>1. /\ pc = "write" /\ pc' \in {"recv", "exit"} /\ addrs' = addrs
      /\ UNCHANGED <<clientVars, req, reply, wire, closed, nread, resp, msg, shown>>
  BY DEF Write
<1>2. reply = <<>>
  BY <1>1 DEF IInv, Answered
<1>3. pc' \in Places(prog)
  BY <1>1, PlacesAre DEF Programs
<1>4. addrs' \in 0 .. MaxAddrs
  BY <1>1 DEF IInv, TypeOK
<1>. QED
  BY <1>1, <1>2, <1>3, <1>4, QuietInv
\* A client that exits keeps what it has.
LEMMA ExitInv ==
    ASSUME IInv, UNCHANGED <<clientVars, req, addrs, reply, wire, closed, nread, resp, msg, shown>>,
           pc \notin {"build", "pack"}, pc' = "exit", "exit" \in Places(prog)
    PROVE  IInv'
<1>1. addrs' \in 0 .. MaxAddrs
  BY DEF IInv, TypeOK
<1>. QED
  BY <1>1, QuietInv

------------------------------------------------------------------------------
(* The steps that bring the answer and show it. *)

\* What recv stores is what has come.
LEMMA Received ==
    ASSUME NEW b \in Seq(Byte), NEW w \in Seq(Byte), NEW n \in Nat, n <= Len(w), n <= Len(b)
    PROVE  LET r == Stored(b, 0, Part(w, 0, n))
           IN  /\ r \in Seq(Byte) /\ Len(r) = Len(b)
               /\ Part(r, 0, n) = Part(w, 0, n)
<1>. DEFINE p == Part(w, 0, n)
            r == Stored(b, 0, p)
<1>1. 0 \in Nat /\ 0 + n <= Len(w)
  OBVIOUS
<1>2. p \in Seq(Byte) /\ Len(p) = n
  BY <1>1, PartIs
<1>. HIDE DEF p
<1>3. /\ r \in Seq(Byte) /\ Len(r) = Len(b)
      /\ \A j \in 1 .. Len(b) : r[j] = IF 0 < j /\ j <= 0 + Len(p) THEN p[j - 0] ELSE b[j]
  BY <1>1, <1>2, StoredIs
<1>. HIDE DEF r
<1>4. ASSUME NEW j \in 1 .. n PROVE r[0 + j] = p[j]
  <2>1. j \in 1 .. Len(b) /\ 0 < j /\ j <= 0 + Len(p) /\ j - 0 = j /\ 0 + j = j
    BY <1>2
  <2>. QED
    BY <1>3, <2>1
<1>5. 0 + n <= Len(r)
  BY <1>3
<1>6. (\A j \in 1 .. n : r[0 + j] = p[j]) => Part(r, 0, n) = p
  BY <1>1, <1>2, <1>3, <1>5, PartEqual
<1>. QED
  BY <1>3, <1>4, <1>6 DEF r, p

\* What begins a part begins the whole.
LEMMA Begins ==
    ASSUME NEW r \in Seq(Byte), NEW w \in Seq(Byte), NEW n \in Nat, n <= Len(w), n <= Len(r),
           Part(r, 0, n) = Part(w, 0, n), NEW k \in Nat, k <= n
    PROVE  Part(r, 0, k) = Part(w, 0, k)
<1>1. 0 \in Nat /\ 0 + n <= Len(w) /\ 0 + n <= Len(r) /\ 0 + k <= n /\ 0 + 0 = 0
  OBVIOUS
<1>2. Part(Part(r, 0, n), 0, k) = Part(r, 0 + 0, k)
  BY <1>1, PartPart
<1>3. Part(Part(w, 0, n), 0, k) = Part(w, 0 + 0, k)
  BY <1>1, PartPart
<1>. QED
  BY <1>1, <1>2, <1>3

\* The rest behind n bytes.
LEMMA RestTyped ==
    ASSUME NEW w \in Seq(Byte), NEW n \in Nat, n <= Len(w)
    PROVE  /\ Part(w, 0, n) \in Seq(Byte) /\ Len(Part(w, 0, n)) = n
           /\ Part(w, n, Len(w) - n) \in Seq(Byte)
<1>1. 0 \in Nat /\ 0 + n <= Len(w)
  OBVIOUS
<1>2. Part(w, 0, n) \in Seq(Byte) /\ Len(Part(w, 0, n)) = n
  BY <1>1, PartIs
<1>3. Len(w) - n \in Nat /\ n + (Len(w) - n) <= Len(w)
  OBVIOUS
<1>4. Part(w, n, Len(w) - n) \in Seq(Byte)
  BY <1>3, PartIs
<1>. QED
  BY <1>2, <1>4

LEMMA RecvInv ==
    ASSUME IInv, prog \in Programs, Recv
    PROVE  IInv'
<1>1. pc = "recv" /\ UNCHANGED <<prog, junk, ver, test, fields, req, addrs, reply, closed, msg, shown>>
  BY DEF Recv, clientVars
<1>2. "exit" \in Places(prog)
  BY PlacesAre DEF Programs
<1>3. CASE pc' = "exit" /\ UNCHANGED <<nread, resp, wire>>
  BY <1>1, <1>2, <1>3, ExitInv DEF clientVars
<1>4. CASE \E n \in 0 .. BufSize - 1 :
              /\ n <= Len(wire) /\ (n = 0 => wire = <<>>)
              /\ nread' = n
              /\ resp' = Stored(resp, 0, Part(wire, 0, n))
              /\ wire' = Part(wire, n, Len(wire) - n)
              /\ pc' = "print"
  <2>1. PICK n \in 0 .. BufSize - 1 :
              /\ n <= Len(wire)
              /\ nread' = n
              /\ resp' = Stored(resp, 0, Part(wire, 0, n))
              /\ wire' = Part(wire, n, Len(wire) - n)
              /\ pc' = "print"
    BY <1>4
  <2>2. /\ resp \in Seq(Byte) /\ wire \in Seq(Byte) /\ Len(resp) = BufSize /\ BufSize \in Nat
        /\ req \in Seq(Byte) /\ msg \in Seq(Byte) /\ shown \in Seq(Byte)
    BY Constants DEF IInv, TypeOK
  <2>3. n \in Nat /\ n <= Len(wire) /\ n <= Len(resp)
    BY <2>1, <2>2
  <2>4. resp' \in Seq(Byte) /\ Len(resp') = Len(resp) /\ Part(resp', 0, n) = Part(wire, 0, n)
    BY <2>1, <2>2, <2>3, Received
  <2>5. wire' \in Seq(Byte)
    BY <2>1, <2>2, <2>3, RestTyped
  <2>6. pc' = "print" /\ pc' \in Places(prog)
    BY <2>1, PlacesAre DEF Programs
  <2>7. TypeOK'
    <3>1. /\ req' \in Seq(Byte) /\ wire' \in Seq(Byte) /\ resp' \in Seq(Byte) /\ msg' \in Seq(Byte)
          /\ shown' \in Seq(Byte) /\ Len(resp') = BufSize
      BY <1>1, <2>2, <2>4, <2>5
    <3>2. addrs' \in 0 .. MaxAddrs
      BY <1>1 DEF IInv, TypeOK
    <3>3. nread' \in 0 .. (IF prog' \in Programs THEN BufSize ELSE TextSize) - 1
      BY <1>1, <2>1
    <3>. QED
      BY <2>6, <3>1, <3>2, <3>3 DEF TypeOK
  <2>8. Started'
    BY <1>1, <2>6 DEF IInv, Started
  <2>9. Asked'
    BY <1>1, <2>6 DEF IInv, Asked, CommandName, Request
  <2>10. Answered'
    BY <1>1, <2>6 DEF IInv, Answered
  <2>11. Arrived'
    <3>1. SUFFICES ASSUME Whole'
                   PROVE  Part(resp', 0, Len(ReplyBytes(reply[1]))) = ReplyBytes(reply[1])
      BY <1>1 DEF Arrived
    <3>. DEFINE m == reply[1]
                s == ReplyBytes(m)
                k == Len(s)
    <3>2. reply # <<>> /\ n >= Header + Len(m.payload)
      BY <1>1, <2>1, <3>1 DEF Whole
    <3>3. m \in Replies /\ k <= Len(wire) /\ Part(wire, 0, k) = s
      BY <1>1, <3>2 DEF IInv, Answered, Arriving
    <3>4. s \in Seq(Byte) /\ k = Header + Len(m.payload)
      BY <3>3, ReplyIs
    <3>5. k \in Nat /\ k <= n
      BY <3>2, <3>4
    <3>. HIDE DEF s, k
    <3>6. n <= Len(resp')
      BY <2>3, <2>4
    <3>7. Part(resp', 0, k) = Part(wire, 0, k)
      BY <2>2, <2>3, <2>4, <3>5, <3>6, Begins
    <3>. QED
      BY <3>3, <3>7 DEF s, k
  <2>12. Arriving' /\ Told' /\ Handled'
    BY <1>1, <2>6 DEF Arriving, Told, Handled
  <2>. QED
    BY <2>7, <2>8, <2>9, <2>10, <2>11, <2>12 DEF IInv
<1>. QED
  BY <1>3, <1>4 DEF Recv

LEMMA UnpackInv ==
    ASSUME IInv, prog \in Programs, Unpack
    PROVE  IInv'
<1>1. /\ pc = "unpack" /\ pc' \in {"show", "overrun"}
      /\ pc' = IF MsgLen(msg') > BufSize - Header THEN "overrun" ELSE "show"
      /\ msg' = unpack_resp_buf(resp, Part(junk, 0, Header))
      /\ UNCHANGED <<prog, junk, ver, test, fields, req, addrs, reply, wire, closed, nread, resp, shown>>
  BY DEF Unpack, unpack_resp_buf, clientVars
<1>2. prog \in Unpackers
  BY <1>1, PlacesAre DEF IInv, Started, Programs
<1>3. resp \in Seq(Byte) /\ Len(resp) = BufSize /\ 0 \in Nat /\ Header \in Nat /\ 0 + Header <= Len(resp)
      /\ Header <= Len(resp)
  BY Constants, Sizes DEF IInv, TypeOK
<1>4. Part(junk, 0, Header) \in Seq(Byte) /\ Len(Part(junk, 0, Header)) = Header
  BY RequestIs DEF IInv
<1>5. msg' = Part(resp, 0, Header)
  BY <1>1, <1>3, <1>4, UnpackIs
<1>6. msg' \in Seq(Byte)
  BY <1>3, <1>5, PartIs
<1>7. TypeOK'
  BY <1>1, <1>6 DEF IInv, TypeOK
<1>8. Started'
  <2>1. pc' \in Places(prog)
    BY <1>1, <1>2, PlacesAre
  <2>. QED
    BY <1>1, <2>1 DEF IInv, Started
<1>9. Asked'
  BY <1>1 DEF IInv, Asked, CommandName, Request
<1>10. Answered'
  BY <1>1 DEF IInv, Answered
<1>11. Arrived'
  BY <1>1 DEF IInv, Arrived, Whole
<1>12. Arriving' /\ Told'
  BY <1>1 DEF Arriving, Told
<1>13. Handled'
  <2>1. prog \notin Printers
    BY <1>2 DEF Unpackers, Printers
  <2>2. CASE pc' = "show"
    <3>1. Unpacked'
      BY <1>1, <1>5, <2>2 DEF Unpacked
    <3>. QED
      BY <2>1, <2>2, <3>1, <1>1 DEF Handled
  <2>3. CASE pc' = "overrun"
    <3>1. MsgLen(Part(resp', 0, Header)) > BufSize - Header
      BY <1>1, <1>5, <2>3
    <3>. QED
      BY <2>1, <2>3, <3>1, <1>1 DEF Handled
  <2>. QED
    BY <1>1, <2>2, <2>3
<1>. QED
  BY <1>7, <1>8, <1>9, <1>10, <1>11, <1>12, <1>13 DEF IInv

LEMMA ShowInv ==
    ASSUME IInv, prog \in Programs, Show
    PROVE  IInv'
<1>. DEFINE x == IF prog = "btc_version" THEN Magic ELSE MsgMagic(msg)
<1>1. /\ pc = "show" /\ pc' = IF prog = "btc_version" THEN "version" ELSE "done"
      /\ shown' = pack_btc_message(x, MsgCmd(msg), MsgSum(msg), Payload)
      /\ UNCHANGED <<prog, junk, ver, test, fields, req, addrs, reply, wire, closed, nread, resp, msg>>
  BY DEF Show, clientVars
<1>2. prog \in Unpackers
  BY <1>1, PlacesAre DEF IInv, Started, Programs
<1>3. msg = Part(resp, 0, Header) /\ ~(MsgLen(msg) > BufSize - Header)
  BY <1>1, <1>2 DEF IInv, Handled, Unpacked
<1>4. resp \in Seq(Byte) /\ Len(resp) = BufSize /\ 0 \in Nat /\ Header \in Nat /\ 0 + Header <= Len(resp)
      /\ CmdSize \in Nat /\ Header = CmdSize + 12 /\ BufSize \in Nat
  BY Constants, Sizes DEF IInv, TypeOK
<1>5. msg \in Seq(Byte) /\ Len(msg) = Header
  BY <1>3, <1>4, PartIs
<1>6. /\ 0 + 4 <= Len(msg) /\ 4 \in Nat /\ 4 + CmdSize \in Nat /\ (4 + CmdSize) + 4 <= Len(msg)
      /\ 8 + CmdSize \in Nat /\ (8 + CmdSize) + 4 <= Len(msg) /\ 4 + CmdSize <= Len(msg)
  BY <1>4, <1>5
<1>7. MsgCmd(msg) \in Seq(Byte)
  BY <1>4, <1>5, <1>6, PartIs DEF MsgCmd
<1>8. MsgSum(msg) \in Seq(Byte)
  BY <1>5, <1>6, PartIs DEF MsgSum
<1>9. MsgLen(msg) \in Nat
  <2>1. Part(msg, 4 + CmdSize, 4) \in Seq(Byte)
    BY <1>5, <1>6, PartIs
  <2>. QED
    BY <2>1, NumTyped DEF MsgLen
<1>10. MsgMagic(msg) \in Nat
  <2>1. Part(msg, 0, 4) \in Seq(Byte)
    BY <1>4, <1>5, <1>6, PartIs
  <2>. QED
    BY <2>1, NumTyped DEF MsgMagic
<1>11. Payload \in Seq(Byte)
  <2>. DEFINE n == MsgLen(msg)
  <2>1. n \in Nat /\ ~(n > BufSize - Header)
    BY <1>3, <1>9
  <2>. HIDE DEF n
  <2>2. Header + n <= Len(resp)
    BY <1>4, <2>1
  <2>3. Part(resp, Header, n) \in Seq(Byte)
    BY <1>4, <2>1, <2>2, PartIs
  <2>. QED
    BY <2>3 DEF Payload, n
<1>12. x \in Int
  <2>1. Magic \in 0 .. Long - 1 /\ Long \in Nat
    BY Constants, Powers
  <2>. QED
    BY <1>10, <2>1
<1>. HIDE DEF x
<1>13. shown' \in Seq(Byte)
  BY <1>1, <1>7, <1>8, <1>11, <1>12, MessageTyped
<1>14. TypeOK'
  BY <1>1, <1>13 DEF IInv, TypeOK
<1>15. Started'
  <2>1. pc' \in Places(prog)
    BY <1>1, <1>2, PlacesAre
  <2>. QED
    BY <1>1, <2>1 DEF IInv, Started
<1>16. prog \notin Printers /\ prog # "debug"
  BY <1>2 DEF Unpackers, Printers
<1>17. Asked'
  BY <1>1, <1>16 DEF IInv, Asked, CommandName, Request
<1>18. Answered'
  BY <1>1 DEF IInv, Answered
<1>19. Arrived'
  BY <1>1 DEF IInv, Arrived, Whole
<1>20. Arriving' /\ Told'
  BY <1>1 DEF Arriving, Told
<1>21. Handled'
  <2>1. Unpacked'
    BY <1>1, <1>3 DEF Unpacked
  <2>2. Repacked'
    BY <1>1 DEF x, Payload, Repacked
  <2>3. pc' # "overrun" /\ ~(prog' = "btc_version" /\ pc' = "done")
    BY <1>1
  <2>. QED
    BY <1>1, <1>16, <2>1, <2>2, <2>3 DEF Handled
<1>. QED
  BY <1>14, <1>15, <1>17, <1>18, <1>19, <1>20, <1>21 DEF IInv

\* A payload read as a version.
LEMMA ShowVersionInv ==
    ASSUME IInv, prog \in Programs, ShowVersion
    PROVE  IInv'
<1>1. /\ pc = "version" /\ pc' \in {"done", "overrun"}
      /\ \E buf \in Buffers : IF VersionIn(buf, 5)
                              THEN fields' = print_version_payload(buf) /\ pc' = "done"
                              ELSE pc' = "overrun"
      /\ UNCHANGED <<prog, junk, ver, test, req, addrs, reply, wire, closed, nread, resp, msg, shown>>
  BY DEF ShowVersion, Buffers
<1>2. prog = "btc_version" /\ prog \in Unpackers /\ prog \notin Printers
  BY <1>1, PlacesAre DEF IInv, Started, Programs, Unpackers, Printers
<1>3. Unpacked /\ Repacked
  BY <1>1, <1>2 DEF IInv, Handled
<1>4. TypeOK'
  BY <1>1 DEF IInv, TypeOK
<1>5. Started'
  <2>1. pc' \in Places(prog)
    BY <1>1, <1>2, PlacesAre
  <2>. QED
    BY <1>1, <2>1 DEF IInv, Started
<1>6. Asked'
  BY <1>1, <1>2 DEF IInv, Asked, CommandName, Request
<1>7. Answered' /\ Arrived'
  BY <1>1 DEF IInv, Answered, Arrived, Whole
<1>8. Arriving' /\ Told'
  BY <1>1 DEF Arriving, Told
<1>9. Handled'
  <2>1. Unpacked' /\ Repacked' /\ Buffers' = Buffers
    BY <1>1, <1>3 DEF Unpacked, Repacked, Buffers, Payload
  <2>2. pc' = "done" => \E buf \in Buffers : VersionIn(buf, 5) /\ fields' = print_version_payload(buf)
    BY <1>1
  <2>3. pc' = "overrun" => \E buf \in Buffers : ~VersionIn(buf, 5)
    BY <1>1
  <2>. QED
    BY <1>1, <1>2, <2>1, <2>2, <2>3 DEF Handled
<1>. QED
  BY <1>4, <1>5, <1>6, <1>7, <1>8, <1>9 DEF IInv

LEMMA PrintInv ==
    ASSUME IInv, prog \in Programs, PrintBody
    PROVE  IInv'
<1>. DEFINE Z == {j \in 1 .. Len(resp) : resp[j] = 0}
            e == EndOfText(resp) - 1
            text == Part(resp, 0, e) \o Part(resp, 0, nread)
<1>1. /\ pc = "print"
      /\ UNCHANGED <<prog, junk, ver, test, fields, req, addrs, reply, wire, closed, nread, resp, msg>>
      /\ IF \E j \in 1 .. Len(resp) : resp[j] = 0
         THEN shown' = text /\ pc' = IF prog \in Unpackers THEN "unpack" ELSE "done"
         ELSE shown' = shown /\ pc' = "overrun"
  BY DEF PrintBody, clientVars
<1>2. prog \in Programs /\ prog # "debug" /\ (prog \in Unpackers <=> prog \notin Printers)
  BY DEF Unpackers, Printers, Programs
<1>3. pc' \in {"unpack", "done", "overrun"} /\ pc' \in Places(prog)
  BY <1>1, PlacesAre DEF Programs
<1>4. pc' = "done" => prog \notin Unpackers /\ prog # "btc_version"
  BY <1>1 DEF Unpackers
<1>5. ASSUME \E j \in 1 .. Len(resp) : resp[j] = 0 PROVE text \in Seq(Byte)
  <2>1. resp \in Seq(Byte) /\ Len(resp) = BufSize /\ BufSize \in Nat /\ 0 \in Nat
    BY Constants DEF IInv, TypeOK
  <2>2. nread \in Nat /\ nread < BufSize
    <3>1. nread \in 0 .. BufSize - 1
      BY <1>2 DEF IInv, TypeOK
    <3>. QED
      BY <2>1, <3>1
  <2>3. e \in Nat /\ e < Len(resp)
    <3>1. Z \in SUBSET Nat /\ Z # {} /\ \A j \in Z : j >= 1 /\ j <= Len(resp)
      BY <1>5
    <3>2. EndOfText(resp) = Min(Z)
      BY DEF EndOfText
    <3>. HIDE DEF Z
    <3>3. Min(Z) \in Z
      BY <3>1, MinIs
    <3>4. Min(Z) \in Nat /\ Min(Z) >= 1 /\ Min(Z) <= Len(resp)
      BY <3>1, <3>3
    <3>. QED
      BY <2>1, <3>2, <3>4
  <2>. HIDE DEF e
  <2>4. 0 + e <= Len(resp) /\ 0 + nread <= Len(resp)
    BY <2>1, <2>2, <2>3
  <2>5. Part(resp, 0, e) \in Seq(Byte)
    BY <2>1, <2>3, <2>4, PartIs
  <2>6. Part(resp, 0, nread) \in Seq(Byte)
    BY <2>1, <2>2, <2>4, PartIs
  <2>. QED
    BY <2>5, <2>6
<1>6. TypeOK'
  <2>1. shown' \in Seq(Byte)
    BY <1>1, <1>5 DEF IInv, TypeOK
  <2>. QED
    BY <1>1, <1>3, <2>1 DEF IInv, TypeOK
<1>7. Started'
  BY <1>1, <1>3 DEF IInv, Started
<1>8. Asked'
  BY <1>1, <1>2, <1>3 DEF IInv, Asked, CommandName, Request
<1>9. Answered'
  BY <1>1, <1>3 DEF IInv, Answered
<1>10. Arrived'
  BY <1>1 DEF IInv, Arrived, Whole
<1>11. Arriving' /\ Told'
  BY <1>1, <1>2, <1>3 DEF Arriving, Told
<1>12. Handled'
  <2>1. pc' = "overrun" => \A j \in 1 .. Len(resp') : resp'[j] # 0
    BY <1>1
  <2>2. pc' = "done" => /\ \E j \in 1 .. Len(resp') : resp'[j] = 0
                        /\ shown' = Part(resp', 0, EndOfText(resp') - 1) \o Part(resp', 0, nread')
    BY <1>1
  <2>. QED
    BY <1>1, <1>2, <1>3, <1>4, <2>1, <2>2 DEF Handled
<1>. QED
  BY <1>6, <1>7, <1>8, <1>9, <1>10, <1>11, <1>12 DEF IInv

\* A text program ends with what it has shown, or with what it has sent.
LEMMA TextEnds ==
    ASSUME IInv, prog \in {"stream_socket_client"} \cup Datagrams, pc' = "done",
           UNCHANGED <<prog, junk, ver, test, fields, addrs, reply, closed, resp, msg>>,
           req' \in Seq(Byte), wire' \in Seq(Byte), shown' \in Seq(Byte), nread' \in 0 .. TextSize - 1,
           reply # <<>> => /\ pc = "recv" /\ nread' <= Len(reply[1]) /\ shown' = Part(reply[1], 0, nread')
                           /\ (prog = "bgnet_listener" /\ Len(reply[1]) < TextSize => nread' = Len(reply[1]))
    PROVE  IInv'
<1>1. prog \notin Programs /\ prog \notin Unpackers /\ prog \notin Printers /\ prog # "debug"
      /\ prog # "btc_version"
  BY DEF Datagrams, Programs, Unpackers, Printers
<1>2. pc' \in Places(prog)
  BY PlacesAre DEF Datagrams
<1>3. TypeOK'
  BY <1>1 DEF IInv, TypeOK
<1>4. Started'
  BY <1>2 DEF IInv, Started
<1>5. Asked' /\ Arriving' /\ Arrived' /\ Handled'
  BY <1>1 DEF Asked, Arriving, Arrived, Handled
<1>6. Answered'
  BY DEF IInv, Answered
<1>7. Told'
  <2>1. TextSize \in Nat
    BY Constants
  <2>2. nread' < TextSize
    BY <2>1
  <2>. QED
    BY <2>2 DEF Told
<1>. QED
  BY <1>3, <1>4, <1>5, <1>6, <1>7 DEF IInv

LEMMA RecvTextInv ==
    ASSUME IInv, prog = "stream_socket_client", RecvText
    PROVE  IInv'
<1>1. pc = "recv" /\ UNCHANGED <<prog, junk, ver, test, fields, req, addrs, reply, closed, resp, msg>>
  BY DEF RecvText, clientVars
<1>2. "exit" \in Places(prog)
  BY PlacesAre
<1>3. CASE pc' = "exit" /\ UNCHANGED <<nread, shown, wire>>
  BY <1>1, <1>2, <1>3, ExitInv DEF clientVars
<1>4. CASE \E n \in 0 .. TextSize - 1 :
              /\ n <= Len(wire) /\ (n = 0 => wire = <<>>)
              /\ nread' = n
              /\ shown' = Part(wire, 0, n)
              /\ wire' = Part(wire, n, Len(wire) - n)
              /\ pc' = "done"
  <2>1. PICK n \in 0 .. TextSize - 1 :
              /\ n <= Len(wire)
              /\ nread' = n
              /\ shown' = Part(wire, 0, n)
              /\ wire' = Part(wire, n, Len(wire) - n)
              /\ pc' = "done"
    BY <1>4
  <2>2. wire \in Seq(Byte) /\ req' \in Seq(Byte)
    BY <1>1 DEF IInv, TypeOK
  <2>3. n \in Nat /\ n <= Len(wire)
    BY <2>1
  <2>4. shown' \in Seq(Byte) /\ wire' \in Seq(Byte)
    BY <2>1, <2>2, <2>3, RestTyped
  <2>5. prog \notin Programs
    BY DEF Programs, Unpackers, Printers
  <2>6. reply # <<>> => wire = reply[1]
    BY <1>1, <2>5 DEF IInv, Arriving
  <2>7. reply # <<>> => nread' <= Len(reply[1]) /\ shown' = Part(reply[1], 0, nread')
    BY <2>1, <2>6
  <2>. QED
    BY <1>1, <2>1, <2>2, <2>4, <2>7, TextEnds
<1>. QED
  BY <1>3, <1>4 DEF RecvText

LEMMA RecvFromInv ==
    ASSUME IInv, prog = "bgnet_listener", RecvFrom
    PROVE  IInv'
<1>1. pc = "recv" /\ UNCHANGED <<prog, junk, ver, test, fields, req, addrs, reply, closed, resp, msg>>
      /\ reply # <<>>
  BY DEF RecvFrom, clientVars
<1>2. "exit" \in Places(prog)
  BY PlacesAre
<1>3. CASE pc' = "exit" /\ UNCHANGED <<nread, shown, wire>>
  BY <1>1, <1>2, <1>3, ExitInv DEF clientVars
<1>4. CASE /\ nread' = Min({Len(wire), TextSize - 1})
           /\ shown' = Part(wire, 0, nread')
           /\ wire' = <<>>
           /\ pc' = "done"
  <2>1. wire \in Seq(Byte) /\ req' \in Seq(Byte)
    BY <1>1 DEF IInv, TypeOK
  <2>2. prog \notin Programs /\ prog \in Datagrams
    BY DEF Programs, Unpackers, Printers, Datagrams
  <2>3. wire = reply[1]
    BY <1>1, <2>2 DEF IInv, Arriving
  <2>. DEFINE L == Len(wire)
              M == {L, TextSize - 1}
  <2>4. L \in Nat /\ TextSize \in Nat /\ TextSize > 0
    BY <2>1, Constants
  <2>. HIDE DEF L
  <2>5. M \in SUBSET Nat /\ M # {}
    BY <2>4
  <2>6. Min(M) \in M /\ Min(M) <= L /\ Min(M) <= TextSize - 1
    BY <2>5, MinIs
  <2>7. nread' = Min(M)
    BY <1>4 DEF L
  <2>. HIDE DEF M
  <2>8. Min(M) = L \/ Min(M) = TextSize - 1
    BY <2>6 DEF M
  <2>9. nread' \in 0 .. TextSize - 1 /\ nread' \in Nat /\ nread' <= L /\ (L < TextSize => nread' = L)
    BY <2>4, <2>6, <2>7, <2>8
  <2>10. nread' <= Len(wire) /\ (Len(wire) < TextSize => nread' = Len(wire))
    BY <2>9 DEF L
  <2>11. shown' \in Seq(Byte)
    <3>1. Part(wire, 0, nread') \in Seq(Byte)
      BY <2>1, <2>9, <2>10, RestTyped
    <3>. QED
      BY <1>4, <3>1
  <2>12. wire' \in Seq(Byte)
    BY <1>4
  <2>13. /\ nread' <= Len(reply[1]) /\ shown' = Part(reply[1], 0, nread')
         /\ (prog = "bgnet_listener" /\ Len(reply[1]) < TextSize => nread' = Len(reply[1]))
    BY <1>4, <2>3, <2>10
  <2>. QED
    BY <1>1, <1>4, <2>1, <2>2, <2>9, <2>11, <2>12, <2>13, TextEnds
<1>. QED
  BY <1>3, <1>4 DEF RecvFrom

\* Sending a text, over a connection or as a broadcast.
LEMMA SendInv ==
    ASSUME IInv, \/ prog = "bgnet_talker" /\ SendTo
                 \/ prog = "bgnet_broadcaster" /\ Broadcast
    PROVE  IInv'
<1>1. /\ pc \in {"sendto", "lookup"}
      /\ (req' \in Texts /\ pc' = "done") \/ (pc' = "exit" /\ req' = req)
      /\ UNCHANGED <<prog, junk, ver, test, fields, addrs, reply, wire, closed, nread, resp, msg, shown>>
  BY DEF SendTo, Broadcast, clientVars
<1>2. prog \in Datagrams /\ prog \notin Programs /\ "exit" \in Places(prog)
  BY PlacesAre DEF Datagrams, Programs, Unpackers, Printers
<1>3. CASE pc' = "exit" /\ req' = req
  BY <1>1, <1>2, <1>3, ExitInv DEF clientVars
<1>4. CASE req' \in Texts /\ pc' = "done"
  <2>1. reply = <<>>
    BY <1>1 DEF IInv, Answered
  <2>2. req' \in Seq(Byte)
    BY <1>4, Constants
  <2>3. wire' \in Seq(Byte) /\ shown' \in Seq(Byte) /\ nread' \in 0 .. TextSize - 1
    BY <1>1, <1>2 DEF IInv, TypeOK
  <2>. QED
    BY <1>1, <1>2, <1>4, <2>1, <2>2, <2>3, TextEnds
<1>. QED
  BY <1>1, <1>3, <1>4

------------------------------------------------------------------------------
(* The steps of the peers. *)

LEMMA AnswerInv ==
    ASSUME IInv, NodeReplies
    PROVE  IInv'
<1>1. /\ pc = "recv" /\ prog \in Programs
      /\ UNCHANGED <<prog, junk, ver, test, fields, pc, req, addrs, closed, nread, resp, msg, shown>>
  BY DEF NodeReplies, clientVars
<1>2. PICK m \in Replies, verack \in BOOLEAN :
           /\ reply' = <<m>>
           /\ wire' = ReplyBytes(m) \o
                  IF verack THEN ReplyBytes([magic |-> m.magic, name |-> Names["btc_verack"], payload |-> <<>>])
                  ELSE <<>>
  BY DEF NodeReplies
<1>. DEFINE s == ReplyBytes(m)
            b == IF verack THEN ReplyBytes([magic |-> m.magic, name |-> Names["btc_verack"], payload |-> <<>>])
                 ELSE <<>>
<1>3. s \in Seq(Byte)
  BY ReplyIs
<1>4. b \in Seq(Byte)
  BY VerackTyped
<1>5. wire' = s \o b
  BY <1>2
<1>. HIDE DEF s, b
<1>6. /\ wire' \in Seq(Byte) /\ Len(wire') = Len(s) + Len(b) /\ Part(wire', 0, Len(s)) = s
  BY <1>3, <1>4, <1>5, PartOfTwo
<1>7. Len(s) <= Len(wire')
  BY <1>3, <1>4, <1>6
<1>8. reply' # <<>> /\ reply'[1] = m
  BY <1>2
<1>9. TypeOK'
  BY <1>1, <1>6 DEF IInv, TypeOK
<1>10. Started'
  BY <1>1 DEF IInv, Started
<1>11. Asked'
  BY <1>1 DEF IInv, Asked, CommandName, Request
<1>12. Answered'
  BY <1>1, <1>8 DEF Answered
<1>13. Arriving'
  <2>1. ReplyBytes(reply'[1]) = s
    BY <1>8 DEF s
  <2>. QED
    BY <1>1, <1>6, <1>7, <2>1 DEF Arriving
<1>14. Arrived' /\ Told' /\ Handled'
  BY <1>1 DEF Arrived, Told, Handled
<1>. QED
  BY <1>9, <1>10, <1>11, <1>12, <1>13, <1>14 DEF IInv

LEMMA TextSentInv ==
    ASSUME IInv, TextSent
    PROVE  IInv'
<1>1. /\ pc = "recv" /\ prog \notin Programs
      /\ UNCHANGED <<prog, junk, ver, test, fields, pc, req, addrs, closed, nread, resp, msg, shown>>
  BY DEF TextSent, clientVars
<1>2. PICK text \in Texts : reply' = <<text>> /\ wire' = text
  BY DEF TextSent
<1>3. prog \in {"stream_socket_client", "bgnet_listener"}
  BY <1>1, PlacesAre DEF IInv, Started, Datagrams
<1>4. reply' # <<>> /\ reply'[1] = text /\ text \in Seq(Byte)
  BY <1>2, Constants
<1>5. TypeOK'
  BY <1>1, <1>2, <1>4 DEF IInv, TypeOK
<1>6. Started'
  BY <1>1 DEF IInv, Started
<1>7. Asked'
  BY <1>1 DEF Asked
<1>8. Answered'
  BY <1>1, <1>3, <1>4 DEF Answered
<1>9. Arriving'
  BY <1>1, <1>2, <1>4 DEF Arriving
<1>10. Arrived' /\ Told' /\ Handled'
  BY <1>1 DEF Arrived, Told, Handled
<1>. QED
  BY <1>5, <1>6, <1>7, <1>8, <1>9, <1>10 DEF IInv

\* Whether the connection is closed matters to nothing of it.
LEMMA SameInv ==
    ASSUME IInv, UNCHANGED <<clientVars, pc, req, addrs, reply, wire, nread, resp, msg, shown>>
    PROVE  IInv'
<1>1. UNCHANGED <<prog, junk, ver, test, fields, pc, req, addrs, reply, wire, nread, resp, msg, shown>>
  BY DEF clientVars
<1>2. TypeOK' /\ Started'
  BY <1>1 DEF IInv, TypeOK, Started
<1>3. Asked' /\ Answered'
  BY <1>1 DEF IInv, Asked, Answered, CommandName, Request
<1>4. Arriving' /\ Told'
  BY <1>1 DEF IInv, Arriving, Told
<1>5. Arrived'
  BY <1>1 DEF IInv, Arrived, Whole
<1>6. Handled'
  BY <1>1 DEF IInv, Handled, Unpacked, Repacked, Buffers, Payload
<1>. QED
  BY <1>2, <1>3, <1>4, <1>5, <1>6 DEF IInv------------------------------------------------------------------------------
(* Packets. *)

\* Everything of n parts, part by part: where each begins, and what is there.
IsJoint(f, n, parts) ==
    /\ f[0] = <<>>
    /\ \A j \in 1 .. n : /\ f[j] = f[j - 1] \o parts[j]
                         /\ Len(f[j - 1]) \in Nat /\ Len(parts[j]) \in Nat /\ Len(f[j]) \in Nat
                         /\ Len(f[j]) = Len(f[j - 1]) + Len(parts[j])
                         /\ Len(f[j]) <= Len(f[n])
                         /\ \A k \in 1 .. Len(parts[j]) : f[n][Len(f[j - 1]) + k] = parts[j][k]

\* Parts one behind the other are found where those before them end.
LEMMA JointOf ==
    ASSUME NEW V, NEW n \in Nat, NEW parts \in [1 .. n -> Seq(V)]
    PROVE  \E f : IsJoint(f, n, parts) /\ Joint(parts) = f[n] /\ \A i \in 0 .. n : f[i] \in Seq(V)
<1>. DEFINE N == n
<1>0. PICK f : /\ f[0] = <<>>
               /\ \A j \in 1 .. n : f[j] = f[j - 1] \o parts[j]
               /\ Joint(parts) = f[n]
  <2>1. Len(parts) = n
    BY NSeq
  <2>. QED
    BY <2>1, JointSteps
<1>. DEFINE T == {i \in 0 .. N : f[i] \in Seq(V)}
            B == {M \in 0 .. N : \A i \in 0 .. M : /\ Len(f[i]) <= Len(f[M])
                                                   /\ \A k \in 1 .. Len(f[i]) : f[M][k] = f[i][k]}
<1>1. N \in Nat /\ \A j \in 1 .. N : parts[j] \in Seq(V) /\ f[j] = f[j - 1] \o parts[j]
  BY <1>0
<1>. HIDE DEF N
<1>2. 0 .. N \subseteq T
  <2>1. 0 \in T
    <3>1. <<>> \in Seq(V)
      OBVIOUS
    <3>2. 0 \in 0 .. N /\ f[0] \in Seq(V)
      BY <1>0, <1>1, <3>1
    <3>. QED
      BY <3>2
  <2>2. ASSUME NEW m \in 1 .. N, m - 1 \in T PROVE m \in T
    <3>1. m \in 0 .. N
      BY <1>1
    <3>2. f[m - 1] \in Seq(V) /\ parts[m] \in Seq(V)
      BY <1>1, <2>2
    <3>3. f[m - 1] \o parts[m] \in Seq(V)
      BY <3>2, ConcatProperties
    <3>4. f[m] \in Seq(V)
      BY <1>1, <3>3
    <3>. QED
      BY <3>1, <3>4
  <2>. HIDE DEF T
  <2>. QED
    BY <1>1, <2>1, <2>2, BoundedInduction
<1>3. \A i \in 0 .. N : f[i] \in Seq(V)
  BY <1>2
<1>. HIDE DEF T
<1>4. ASSUME NEW i \in 1 .. N
      PROVE  /\ Len(f[i]) = Len(f[i - 1]) + Len(parts[i])
             /\ Len(f[i - 1]) \in Nat /\ Len(parts[i]) \in Nat
             /\ \A k \in 1 .. Len(f[i - 1]) : f[i][k] = f[i - 1][k]
             /\ \A k \in 1 .. Len(parts[i]) : f[i][Len(f[i - 1]) + k] = parts[i][k]
  <2>. DEFINE a == f[i - 1]
              b == parts[i]
  <2>1. a \in Seq(V) /\ b \in Seq(V) /\ f[i] = a \o b
    <3>1. i - 1 \in 0 .. N
      BY <1>1
    <3>. QED
      BY <1>1, <1>3, <3>1
  <2>. HIDE DEF a, b
  <2>2. /\ Len(a \o b) = Len(a) + Len(b) /\ Len(a) \in Nat /\ Len(b) \in Nat
        /\ \A k \in 1 .. Len(a) : (a \o b)[k] = a[k]
        /\ \A k \in 1 .. Len(b) : (a \o b)[Len(a) + k] = b[k]
    BY <2>1, ConcatProperties
  <2>. QED
    BY <2>1, <2>2 DEF a, b
<1>5. 0 .. N \subseteq B
  <2>1. 0 \in B
    <3>1. \A i \in 0 .. 0 : i = 0
      OBVIOUS
    <3>2. Len(f[0]) <= Len(f[0])
      BY <1>1, <1>3
    <3>. QED
      BY <1>1, <3>1, <3>2
  <2>2. ASSUME NEW m \in 1 .. N, m - 1 \in B PROVE m \in B
    <3>1. ASSUME NEW i \in 0 .. m
          PROVE  Len(f[i]) <= Len(f[m]) /\ \A k \in 1 .. Len(f[i]) : f[m][k] = f[i][k]
      <4>1. Len(f[m]) \in Nat /\ Len(f[i]) \in Nat /\ Len(f[m - 1]) \in Nat
        <5>1. m \in 0 .. N /\ i \in 0 .. N /\ m - 1 \in 0 .. N
          BY <1>1
        <5>. QED
          BY <1>3, <5>1
      <4>2. CASE i = m
        BY <4>1, <4>2
      <4>3. CASE i # m
        <5>1. i \in 0 .. m - 1
          BY <1>1, <4>3
        <5>2. Len(f[i]) <= Len(f[m - 1]) /\ \A k \in 1 .. Len(f[i]) : f[m - 1][k] = f[i][k]
          BY <2>2, <5>1
        <5>3. Len(f[m - 1]) <= Len(f[m]) /\ \A k \in 1 .. Len(f[m - 1]) : f[m][k] = f[m - 1][k]
          <6>1. /\ Len(f[m]) = Len(f[m - 1]) + Len(parts[m]) /\ Len(f[m - 1]) \in Nat /\ Len(parts[m]) \in Nat
                /\ \A k \in 1 .. Len(f[m - 1]) : f[m][k] = f[m - 1][k]
            BY <1>4
          <6>. DEFINE x == Len(f[m])
                      y == Len(f[m - 1])
                      z == Len(parts[m])
          <6>2. x = y + z /\ y \in Nat /\ z \in Nat
            BY <6>1
          <6>. HIDE DEF x, y, z
          <6>3. y <= x
            BY <6>2
          <6>. QED
            BY <6>1, <6>3 DEF x, y
        <5>4. Len(f[i]) <= Len(f[m])
          BY <4>1, <5>2, <5>3
        <5>5. ASSUME NEW k \in 1 .. Len(f[i]) PROVE f[m][k] = f[i][k]
          <6>1. k \in 1 .. Len(f[m - 1])
            BY <4>1, <5>2
          <6>. QED
            BY <5>2, <5>3, <6>1
        <5>. QED
          BY <5>4, <5>5
      <4>. QED
        BY <4>2, <4>3
    <3>2. m \in 0 .. N
      BY <1>1
    <3>. QED
      BY <3>1, <3>2
  <2>. HIDE DEF B
  <2>. QED
    BY <1>1, <2>1, <2>2, BoundedInduction
<1>6. ASSUME NEW i \in 0 .. N
      PROVE  Len(f[i]) <= Len(f[N]) /\ \A k \in 1 .. Len(f[i]) : f[N][k] = f[i][k]
  <2>1. N \in B
    BY <1>1, <1>5
  <2>. QED
    BY <2>1
<1>. HIDE DEF B
<1>7. ASSUME NEW i \in 1 .. N, NEW k \in 1 .. Len(parts[i])
      PROVE  f[N][Len(f[i - 1]) + k] = parts[i][k]
  <2>1. /\ Len(f[i]) = Len(f[i - 1]) + Len(parts[i]) /\ Len(f[i - 1]) \in Nat /\ Len(parts[i]) \in Nat
        /\ f[i][Len(f[i - 1]) + k] = parts[i][k]
    BY <1>4
  <2>2. Len(f[i - 1]) + k \in 1 .. Len(f[i])
    <3>. DEFINE x == Len(f[i])
                y == Len(f[i - 1])
                z == Len(parts[i])
    <3>1. x = y + z /\ y \in Nat /\ z \in Nat /\ k \in 1 .. z
      BY <2>1
    <3>. HIDE DEF x, y, z
    <3>2. y + k \in 1 .. x
      BY <3>1
    <3>. QED
      BY <3>2 DEF x, y
  <2>3. i \in 0 .. N
    BY <1>1
  <2>. QED
    BY <1>6, <2>1, <2>2, <2>3
<1>8. ASSUME NEW j \in 1 .. N
      PROVE  Len(f[j - 1]) \in Nat /\ Len(parts[j]) \in Nat /\ Len(f[j]) \in Nat /\ Len(f[j]) <= Len(f[N])
  <2>1. j \in 0 .. N /\ j - 1 \in 0 .. N
    BY <1>1
  <2>2. f[j] \in Seq(V) /\ f[j - 1] \in Seq(V) /\ parts[j] \in Seq(V) /\ Len(f[j]) <= Len(f[N])
    BY <1>1, <1>3, <1>6, <2>1
  <2>. QED
    BY <2>2
<1>9. IsJoint(f, N, parts)
  BY <1>0, <1>1, <1>4, <1>7, <1>8 DEF IsJoint
<1>. QED
  BY <1>0, <1>3, <1>9 DEF N

LEMMA ThreeBuffers ==
    ASSUME NEW a \in Seq(Byte), NEW b \in Seq(Byte), NEW c \in Seq(Byte)
    PROVE  (a \o b) \o c = a \o (b \o c)
  BY ConcatAssociative

\* fmt is what is written, and what is read, behind the first p characters of a format.
Writes(f, p, fmt, args) == \A k \in 1 .. Len(fmt) : f[p + k] = PackChar(f[(p + k) - 1], fmt[k], args)
Reads(g, p, fmt, buf)   == \A k \in 1 .. Len(fmt) : g[p + k] = UnpackChar(g[(p + k) - 1], fmt[k], buf)

\* values are the arguments from the n-th on.
Finds(args, n, values) == \A k \in 1 .. Len(values) : args[(n - 1) + k] = values[k]

\* The order a number or a text is packed in.
OrderOf(i) == IF i.ord = <<>> THEN "none" ELSE i.ord[1]

\* What is packed of an item.
PackedOf(i) ==
    CASE i.kind = "number" -> Ordered(Encoded(i.v, i.ch), Width(i.ch), OrderOf(i))
      [] i.kind = "text" -> Ordered(Len(i.v), 2, OrderOf(i)) \o i.v
      [] OTHER -> <<>>

\* The order before an item, if it has one.
LEMMA OrdIs ==
    ASSUME NEW i, Item(i)
    PROVE  \/ i.ord = <<>> /\ Len(i.ord) = 0 /\ OrderOf(i) = "none"
           \/ Len(i.ord) = 1 /\ i.ord[1] \in Orders /\ OrderOf(i) = i.ord[1] /\ i.ord # <<>> /\ i.ord = <<i.ord[1]>>
<1>1. CASE i.ord = <<>>
  BY <1>1 DEF OrderOf
<1>2. CASE i.ord = <<"<">>
  <2>1. Len(i.ord) = 1 /\ i.ord[1] = "<" /\ i.ord # <<>>
    BY <1>2
  <2>. QED
    BY <1>2, <2>1 DEF OrderOf, Orders
<1>3. CASE i.ord = <<">">>
  <2>1. Len(i.ord) = 1 /\ i.ord[1] = ">" /\ i.ord # <<>>
    BY <1>3
  <2>. QED
    BY <1>3, <2>1 DEF OrderOf, Orders
<1>. QED
  BY <1>1, <1>2, <1>3 DEF Item

\* The length of a text is a field of two bytes.
LEMMA LengthIs ==
    ASSUME NEW i, Item(i), i.kind = "text"
    PROVE  /\ i.v \in Seq(Byte) /\ Len(i.v) \in 0 .. Space("H") - 1 /\ Encoded(Len(i.v), "H") = Len(i.v)
           /\ "H" \in Fields /\ Width("H") = 2
<1>1. i.v \in Seq(Byte) /\ Len(i.v) < Short
  BY DEF Item
<1>2. Width("H") = 2 /\ "H" \in Fields /\ "H" \notin Floats \cup Signed
  BY DEF Width, Fields, Floats, Signed
<1>3. Space("H") = Short
  BY <1>2 DEF Space
<1>4. Short \in Nat /\ Short > 0
  BY Powers
<1>. DEFINE n == Len(i.v)
<1>5. n \in Nat /\ n < Short
  BY <1>1
<1>. HIDE DEF n
<1>6. n % Short = n
  BY <1>4, <1>5
<1>7. Encoded(n, "H") = n
  BY <1>2, <1>3, <1>6 DEF Encoded
<1>8. n \in 0 .. Short - 1
  BY <1>4, <1>5
<1>. QED
  BY <1>1, <1>2, <1>3, <1>7, <1>8 DEF n

LEMMA PackedTyped ==
    ASSUME NEW i, Item(i)
    PROVE  PackedOf(i) \in Seq(Byte)
<1>1. CASE i.kind = "number"
  <2>1. i.ch \in Fields /\ Typed(i.v, i.ch)
    BY <1>1 DEF Item
  <2>2. Encoded(i.v, i.ch) \in 0 .. Space(i.ch) - 1
    BY <2>1, FieldBack
  <2>3. Ordered(Encoded(i.v, i.ch), Width(i.ch), OrderOf(i)) \in Seq(Byte)
    BY <2>1, <2>2, OrderedIs
  <2>. QED
    BY <1>1, <2>3 DEF PackedOf
<1>2. CASE i.kind = "text"
  <2>1. i.v \in Seq(Byte) /\ Len(i.v) \in 0 .. Space("H") - 1 /\ "H" \in Fields /\ Width("H") = 2
    BY <1>2, LengthIs
  <2>2. Ordered(Len(i.v), 2, OrderOf(i)) \in Seq(Byte)
    BY <2>1, OrderedIs
  <2>3. Ordered(Len(i.v), 2, OrderOf(i)) \o i.v \in Seq(Byte)
    BY <2>1, <2>2
  <2>. QED
    BY <1>2, <2>3 DEF PackedOf
<1>3. CASE i.kind # "number" /\ i.kind # "text"
  <2>1. PackedOf(i) = <<>>
    BY <1>3 DEF PackedOf
  <2>. QED
    BY <2>1
<1>. QED
  BY <1>1, <1>2, <1>3

\* What beej_pack makes of one item: its bytes behind the others, and the order forgotten.
LEMMA PackItem ==
    ASSUME NEW i, Item(i), NEW f, NEW p \in Nat, NEW n \in Nat \ {0}, NEW b \in Seq(Byte), NEW args,
           f[p] = PackState("none", n, b),
           Writes(f, p, FormatOf(i), args),
           Finds(args, n, ArgsOf(i))
    PROVE  f[p + Len(FormatOf(i))] = PackState("none", n + Len(ArgsOf(i)), b \o PackedOf(i))
<1>. DEFINE o == OrderOf(i)
            q == p + Len(i.ord)
            F == FormatOf(i)
            A == ArgsOf(i)
<1>1. \/ i.ord = <<>> /\ Len(i.ord) = 0 /\ o = "none"
      \/ Len(i.ord) = 1 /\ i.ord[1] \in Orders /\ o = i.ord[1] /\ i.ord = <<i.ord[1]>>
  BY OrdIs
<1>2. ASSUME NEW k \in 1 .. Len(F) PROVE f[p + k] = PackChar(f[(p + k) - 1], F[k], args)
  BY DEF Writes
<1>3. ASSUME NEW k \in 1 .. Len(A) PROVE args[(n - 1) + k] = A[k]
  BY DEF Finds
<1>4. i.kind \in {"number", "text"} => f[q] = PackState(o, n, b)
  <2>. SUFFICES ASSUME i.kind \in {"number", "text"} PROVE f[q] = PackState(o, n, b)
    OBVIOUS
  <2>1. CASE i.ord = <<>> /\ Len(i.ord) = 0 /\ o = "none"
    <3>1. q = p
      BY <2>1
    <3>. QED
      BY <2>1, <3>1
  <2>2. CASE Len(i.ord) = 1 /\ i.ord[1] \in Orders /\ o = i.ord[1] /\ i.ord = <<i.ord[1]>>
    <3>. DEFINE c == i.ord[1]
    <3>1. F[1] = c /\ 1 \in 1 .. Len(F)
      <4>1. CASE i.kind = "number"
        <5>1. F = Append(<<c>>, i.ch)
          BY <2>2, <4>1 DEF FormatOf
        <5>. HIDE DEF F, c
        <5>. QED
          BY <5>1
      <4>2. CASE i.kind = "text"
        <5>1. F = <<c>> \o <<"H", "s">>
          BY <2>2, <4>2 DEF FormatOf
        <5>. HIDE DEF F, c
        <5>. QED
          BY <5>1
      <4>. QED
        BY <4>1, <4>2
    <3>2. f[p + 1] = PackChar(f[(p + 1) - 1], F[1], args) /\ (p + 1) - 1 = p /\ q = p + 1
      BY <1>2, <2>2, <3>1
    <3>3. PackChar(PackState("none", n, b), c, args) = PackState(c, n, b)
      BY <2>2, PackOrder
    <3>. QED
      BY <2>2, <3>1, <3>2, <3>3
  <2>. QED
    BY <1>1, <2>1, <2>2
<1>5. CASE i.kind = "number"
  <2>1. i.ch \in Fields
    BY <1>5 DEF Item
  <2>2. F = Append(i.ord, i.ch) /\ A = <<i.v>>
    BY <1>5 DEF FormatOf, ArgsOf
  <2>3. Len(F) = Len(i.ord) + 1 /\ F[Len(i.ord) + 1] = i.ch /\ Len(i.ord) \in {0, 1}
    <3>. HIDE DEF F, A
    <3>1. CASE i.ord = <<>>
      BY <2>2, <3>1
    <3>2. CASE i.ord = <<i.ord[1]>>
      <4>. DEFINE c == i.ord[1]
      <4>1. F = Append(<<c>>, i.ch) /\ i.ord = <<c>>
        BY <2>2, <3>2
      <4>. HIDE DEF c
      <4>. QED
        BY <4>1
    <3>. QED
      BY <1>1, <3>1, <3>2
  <2>4. Len(A) = 1 /\ A[1] = i.v
    BY <2>2
  <2>5. args[n] = i.v
    <3>1. 1 \in 1 .. Len(A) /\ (n - 1) + 1 = n
      BY <2>4
    <3>. QED
      BY <1>3, <2>4, <3>1
  <2>. DEFINE m == Len(i.ord)
  <2>6. f[p + (m + 1)] = PackChar(f[(p + (m + 1)) - 1], F[m + 1], args) /\ (p + (m + 1)) - 1 = q
    <3>1. m + 1 \in 1 .. Len(F) /\ m \in Nat
      BY <2>3
    <3>2. (p + (m + 1)) - 1 = p + m
      BY <3>1
    <3>. QED
      BY <1>2, <3>1, <3>2
  <2>7. PackChar(PackState(o, n, b), i.ch, args)
            = PackState("none", n + 1, b \o Ordered(Encoded(args[n], i.ch), Width(i.ch), o))
    BY <2>1, PackField
  <2>8. PackedOf(i) = Ordered(Encoded(i.v, i.ch), Width(i.ch), o)
    BY <1>5 DEF PackedOf
  <2>. HIDE DEF F, A, o, q
  <2>9. f[p + Len(F)] = PackState("none", n + Len(A), b \o PackedOf(i))
    BY <1>4, <1>5, <2>3, <2>4, <2>5, <2>6, <2>7, <2>8
  <2>. QED
    BY <2>9 DEF F, A
<1>6. CASE i.kind = "text"
  <2>1. /\ i.v \in Seq(Byte) /\ Len(i.v) \in 0 .. Space("H") - 1 /\ Encoded(Len(i.v), "H") = Len(i.v)
        /\ "H" \in Fields /\ Width("H") = 2
    BY <1>6, LengthIs
  <2>2. F = i.ord \o <<"H", "s">> /\ A = <<Len(i.v), i.v>>
    BY <1>6 DEF FormatOf, ArgsOf
  <2>3. /\ Len(F) = Len(i.ord) + 2 /\ F[Len(i.ord) + 1] = "H" /\ F[Len(i.ord) + 2] = "s"
        /\ Len(i.ord) \in {0, 1}
    <3>. HIDE DEF F, A
    <3>1. CASE i.ord = <<>>
      BY <2>2, <3>1
    <3>2. CASE i.ord = <<i.ord[1]>>
      <4>. DEFINE c == i.ord[1]
      <4>1. F = <<c>> \o <<"H", "s">> /\ i.ord = <<c>>
        BY <2>2, <3>2
      <4>. HIDE DEF c
      <4>. QED
        BY <4>1
    <3>. QED
      BY <1>1, <3>1, <3>2
  <2>4. Len(A) = 2 /\ A[1] = Len(i.v) /\ A[2] = i.v
    BY <2>2
  <2>5. args[n] = Len(i.v) /\ args[n + 1] = i.v
    <3>1. 1 \in 1 .. Len(A) /\ (n - 1) + 1 = n /\ 2 \in 1 .. Len(A) /\ (n - 1) + 2 = n + 1
      BY <2>4
    <3>. QED
      BY <1>3, <2>4, <3>1
  <2>. DEFINE m == Len(i.ord)
              x == Ordered(Encoded(args[n], "H"), Width("H"), o)
  <2>6. m \in Nat /\ m + 1 \in 1 .. Len(F) /\ m + 2 \in 1 .. Len(F)
    BY <2>3
  <2>7. f[p + (m + 1)] = PackChar(f[q], "H", args)
    <3>1. (p + (m + 1)) - 1 = p + m
      BY <2>6
    <3>. QED
      BY <1>2, <2>3, <2>6, <3>1
  <2>8. f[p + (m + 2)] = PackChar(f[p + (m + 1)], "s", args)
    <3>1. (p + (m + 2)) - 1 = p + (m + 1)
      BY <2>6
    <3>. QED
      BY <1>2, <2>3, <2>6, <3>1
  <2>9. f[p + (m + 1)] = PackState("none", n + 1, b \o x)
    BY <1>4, <1>6, <2>1, <2>7, PackField
  <2>10. f[p + (m + 2)] = PackState("none", (n + 1) + 1, (b \o x) \o args[n + 1])
    BY <2>8, <2>9, PackText
  <2>11. PackedOf(i) = x \o i.v
    BY <1>6, <2>1, <2>5 DEF PackedOf
  <2>12. x \in Seq(Byte)
    BY <2>1, <2>5, OrderedIs
  <2>. HIDE DEF x, o, q, F, A, m
  <2>13. (b \o x) \o i.v = b \o (x \o i.v)
    <3>1. b \in Seq(Byte) /\ x \in Seq(Byte) /\ i.v \in Seq(Byte)
      BY <2>1, <2>12
    <3>. QED
      BY <3>1, ThreeBuffers
  <2>14. f[p + Len(F)] = PackState("none", n + Len(A), b \o PackedOf(i))
    <3>1. (n + 1) + 1 = n + 2 /\ p + Len(F) = p + (m + 2)
      BY <2>3 DEF m
    <3>. QED
      BY <2>4, <2>5, <2>10, <2>11, <2>13, <3>1
  <2>. QED
    BY <2>14 DEF F, A
<1>7. CASE i.kind = "packed"
  <2>1. F = <<i.ch>> /\ A = <<>> /\ PackedOf(i) = <<>>
    BY <1>7 DEF FormatOf, ArgsOf, PackedOf
  <2>2. i.ch \notin Orders \cup Fields \cup {"s"}
    BY <1>7 DEF Item
  <2>3. f[p + 1] = PackChar(f[(p + 1) - 1], i.ch, args) /\ (p + 1) - 1 = p
    <3>1. 1 \in 1 .. Len(F) /\ F[1] = i.ch
      BY <2>1
    <3>. QED
      BY <1>2, <3>1
  <2>4. f[p + 1] = PackState("none", n, b)
    BY <2>2, <2>3, PackOther
  <2>5. b \o <<>> = b /\ n + 0 = n /\ Len(F) = 1 /\ Len(A) = 0
    BY <2>1
  <2>. HIDE DEF F, A
  <2>6. f[p + Len(F)] = PackState("none", n + Len(A), b \o PackedOf(i))
    BY <2>1, <2>4, <2>5
  <2>. QED
    BY <2>6 DEF F, A
<1>8. CASE i.kind = "read"
  <2>1. F = <<>> /\ A = <<>> /\ PackedOf(i) = <<>>
    BY <1>8 DEF FormatOf, ArgsOf, PackedOf
  <2>2. b \o <<>> = b /\ n + 0 = n /\ Len(F) = 0 /\ Len(A) = 0 /\ p + 0 = p
    BY <2>1
  <2>. HIDE DEF F, A
  <2>3. f[p + Len(F)] = PackState("none", n + Len(A), b \o PackedOf(i))
    BY <2>1, <2>2
  <2>. QED
    BY <2>3 DEF F, A
<1>. QED
  BY <1>5, <1>6, <1>7, <1>8 DEF Item
\* The order an item is read in, after order o.
ReadOrder(o, i) == IF i.kind \in {"number", "text"} /\ i.ord # <<>> THEN i.ord[1] ELSE o

\* It is the order the item was packed in, or does not matter to a field of one byte.
SameOrder(o, i) ==
    i.kind = "text" \/ (i.kind = "number" /\ Width(i.ch) # 1) => (OrderOf(i) = "<" <=> ReadOrder(o, i) = "<")

Numerals == {Numeral[d] : d \in 1 .. 10}

\* A limit is a number.
LEMMA LimitTyped ==
    ASSUME NEW digits \in Seq(Numerals)
    PROVE  LimitOf(digits) \in Nat /\ \A j \in 1 .. Len(digits) : Digit(digits[j])
<1>. DEFINE N == Len(digits)
<1>1. N \in Nat /\ \A j \in 1 .. N : Digit(digits[j])
  <2>1. N \in Nat /\ \A j \in 1 .. N : digits[j] \in Numerals
    OBVIOUS
  <2>. QED
    BY <2>1 DEF Digit, Numerals
<1>2. PICK f : /\ f[0] = 0
               /\ \A j \in 1 .. N : f[j] = Limit(f[j - 1], digits[j])
               /\ LimitOf(digits) = f[N]
  BY <1>1, LimitSteps
<1>. HIDE DEF N
<1>. DEFINE T == {j \in 0 .. N : f[j] \in Nat}
<1>3. 0 \in T
  BY <1>1, <1>2
<1>4. ASSUME NEW j \in 1 .. N, j - 1 \in T PROVE j \in T
  <2>1. Digit(digits[j])
    BY <1>1
  <2>. DEFINE x == CHOOSE d \in 1 .. 10 : digits[j] = Numeral[d]
  <2>2. x \in 1 .. 10
    BY <2>1 DEF Digit
  <2>3. f[j] = (10 * f[j - 1] + x - 1) % Long
    BY <1>2 DEF Limit
  <2>. HIDE DEF x
  <2>4. f[j - 1] \in Nat /\ j \in 0 .. N
    BY <1>1, <1>4
  <2>5. f[j] \in Nat
    <3>1. 10 * f[j - 1] + x - 1 \in Int /\ Long \in Nat /\ Long > 0
      BY <2>2, <2>4, Powers
    <3>. QED
      BY <2>3, <3>1, Division
  <2>. QED
    BY <2>4, <2>5
<1>. HIDE DEF T
<1>5. 0 .. N \subseteq T
  BY <1>1, <1>3, <1>4, BoundedInduction
<1>6. N \in T
  BY <1>1, <1>5
<1>7. f[N] \in Nat
  BY <1>6 DEF T
<1>. QED
  BY <1>1, <1>2, <1>7 DEF N

\* No more is copied than there is.
LEMMA CopiedIs ==
    ASSUME NEW len \in Nat, NEW max \in Nat
    PROVE  Copied(len, max) \in 0 .. len
  BY DEF Copied

\* The digits before a text, read one after the other.
LEMMA UnpackDigits ==
    ASSUME NEW digits \in Seq(Numerals), NEW g, NEW q \in Nat, NEW o, NEW at, NEW a, NEW buf,
           g[q] = UnpackState(o, at, a, 0), Reads(g, q, digits, buf)
    PROVE  g[q + Len(digits)] = UnpackState(o, at, a, LimitOf(digits))
<1>. DEFINE N == Len(digits)
<1>1. N \in Nat /\ \A j \in 1 .. N : Digit(digits[j])
  BY LimitTyped
<1>2. PICK f : /\ f[0] = 0
               /\ \A j \in 1 .. N : f[j] = Limit(f[j - 1], digits[j])
               /\ LimitOf(digits) = f[N]
  BY <1>1, LimitSteps
<1>3. \A k \in 1 .. N : g[q + k] = UnpackChar(g[(q + k) - 1], digits[k], buf)
  BY DEF Reads
<1>. HIDE DEF N
<1>. DEFINE T == {j \in 0 .. N : g[q + j] = UnpackState(o, at, a, f[j])}
<1>4. 0 \in T
  <2>1. q + 0 = q /\ 0 \in 0 .. N
    BY <1>1
  <2>. QED
    BY <1>2, <2>1
<1>5. ASSUME NEW j \in 1 .. N, j - 1 \in T PROVE j \in T
  <2>1. g[q + (j - 1)] = UnpackState(o, at, a, f[j - 1])
    BY <1>5
  <2>2. (q + j) - 1 = q + (j - 1) /\ j \in 0 .. N
    BY <1>1
  <2>3. g[q + j] = UnpackChar(UnpackState(o, at, a, f[j - 1]), digits[j], buf)
    BY <1>3, <2>1, <2>2
  <2>4. g[q + j] = UnpackState(o, at, a, Limit(f[j - 1], digits[j]))
    BY <1>1, <2>3, UnpackDigit
  <2>5. g[q + j] = UnpackState(o, at, a, f[j])
    BY <1>2, <2>4
  <2>. QED
    BY <2>2, <2>5
<1>. HIDE DEF T
<1>6. 0 .. N \subseteq T
  BY <1>1, <1>4, <1>5, BoundedInduction
<1>7. N \in T
  BY <1>1, <1>6
<1>8. g[q + N] = UnpackState(o, at, a, f[N])
  BY <1>7 DEF T
<1>. QED
  BY <1>2, <1>8 DEF N

\* What beej_unpack makes of one item: its value behind the others.
LEMMA UnpackItem ==
    ASSUME NEW i, Item(i), NEW g, NEW p \in Nat, NEW o, NEW at \in Nat,
           NEW W, NEW a \in Seq(W), NEW buf \in Seq(Byte),
           g[p] = UnpackState(o, at, a, 0), SameOrder(o, i),
           Reads(g, p, BackOf(i), buf),
           at + Len(PackedOf(i)) <= Len(buf), Part(buf, at, Len(PackedOf(i))) = PackedOf(i),
           ValuesOf(i) \in Seq(W)
    PROVE  g[p + Len(BackOf(i))] = UnpackState(ReadOrder(o, i), at + Len(PackedOf(i)), a \o ValuesOf(i), 0)
<1>. DEFINE r == ReadOrder(o, i)
            q == p + Len(i.ord)
            m == Len(i.ord)
            F == BackOf(i)
            y == PackedOf(i)
            G == UnpackState(r, at + Len(y), a \o ValuesOf(i), 0)
<1>1. \/ i.ord = <<>> /\ Len(i.ord) = 0
      \/ Len(i.ord) = 1 /\ i.ord[1] \in Orders /\ i.ord = <<i.ord[1]>> /\ i.ord # <<>>
  BY OrdIs
<1>2. ASSUME NEW k \in 1 .. Len(F) PROVE g[p + k] = UnpackChar(g[(p + k) - 1], F[k], buf)
  BY DEF Reads
<1>3. /\ i.kind = "number" => F = Append(i.ord, i.ch)
      /\ i.kind = "text" => F = i.ord \o i.lim \o <<"s">> /\ i.lim \in Seq(Numerals)
  BY DEF BackOf, Item, Numerals
<1>4. i.kind \in {"number", "text"} => g[q] = UnpackState(r, at, a, 0)
  <2>. SUFFICES ASSUME i.kind \in {"number", "text"} PROVE g[q] = UnpackState(r, at, a, 0)
    OBVIOUS
  <2>1. CASE i.ord = <<>> /\ Len(i.ord) = 0
    <3>1. q = p /\ r = o
      BY <2>1 DEF ReadOrder
    <3>. QED
      BY <3>1
  <2>2. CASE Len(i.ord) = 1 /\ i.ord[1] \in Orders /\ i.ord = <<i.ord[1]>> /\ i.ord # <<>>
    <3>. DEFINE c == i.ord[1]
    <3>1. F[1] = c /\ 1 \in 1 .. Len(F)
      <4>1. CASE i.kind = "number"
        <5>1. F = Append(<<c>>, i.ch)
          BY <1>3, <2>2, <4>1
        <5>. HIDE DEF F, c
        <5>. QED
          BY <5>1
      <4>2. CASE i.kind = "text"
        <5>. DEFINE l == i.lim
        <5>1. F = <<c>> \o l \o <<"s">> /\ l \in Seq(Numerals)
          BY <1>3, <2>2, <4>2
        <5>. HIDE DEF F, c, l
        <5>2. Len(l) \in Nat /\ Len(F) = 1 + Len(l) + 1 /\ F[1] = c
          BY <5>1
        <5>. QED
          BY <5>2
      <4>. QED
        BY <4>1, <4>2
    <3>2. g[p + 1] = UnpackChar(g[(p + 1) - 1], F[1], buf) /\ (p + 1) - 1 = p /\ q = p + 1
      BY <1>2, <2>2, <3>1
    <3>3. UnpackChar(UnpackState(o, at, a, 0), c, buf) = UnpackState(c, at, a, 0)
      BY <2>2, UnpackOrder
    <3>4. r = c
      BY <2>2 DEF ReadOrder
    <3>. QED
      BY <3>1, <3>2, <3>3, <3>4
  <2>. QED
    BY <1>1, <2>1, <2>2
<1>5. Len(i.ord) \in {0, 1} /\ m \in Nat
  BY <1>1
<1>6. CASE i.kind = "number"
  <2>1. i.ch \in Fields /\ Typed(i.v, i.ch)
    BY <1>6 DEF Item
  <2>. DEFINE e == Encoded(i.v, i.ch)
              w == Width(i.ch)
  <2>2. e \in 0 .. Space(i.ch) - 1 /\ Decoded(e, i.ch) = i.v
    BY <2>1, FieldBack
  <2>3. y = Ordered(e, w, OrderOf(i))
    BY <1>6 DEF PackedOf
  <2>4. (OrderOf(i) = "<" <=> r = "<") \/ w = 1
    BY <1>6 DEF SameOrder
  <2>5. Len(y) = w /\ Value(y, r) = e
    BY <2>1, <2>2, <2>3, <2>4, OrderedIs
  <2>6. Len(F) = m + 1 /\ F[m + 1] = i.ch
    <3>. HIDE DEF F
    <3>1. CASE i.ord = <<>>
      BY <1>3, <1>6, <3>1
    <3>2. CASE i.ord = <<i.ord[1]>>
      <4>. DEFINE c == i.ord[1]
      <4>1. F = Append(<<c>>, i.ch) /\ i.ord = <<c>>
        BY <1>3, <1>6, <3>2
      <4>. HIDE DEF c
      <4>. QED
        BY <4>1
    <3>. QED
      BY <1>1, <3>1, <3>2
  <2>7. g[p + (m + 1)] = UnpackChar(g[q], i.ch, buf)
    <3>1. m + 1 \in 1 .. Len(F) /\ (p + (m + 1)) - 1 = p + m
      BY <1>5, <2>6
    <3>. QED
      BY <1>2, <2>6, <3>1
  <2>8. g[p + (m + 1)] = UnpackState(r, at + w, Append(a, Decoded(Value(Part(buf, at, w), r), i.ch)), 0)
    BY <1>4, <1>6, <2>1, <2>7, UnpackField
  <2>9. Decoded(Value(Part(buf, at, w), r), i.ch) = i.v
    BY <2>2, <2>5
  <2>10. a \o ValuesOf(i) = Append(a, i.v)
    <3>1. ValuesOf(i) = <<i.v>> /\ <<i.v>> \in Seq(W)
      BY <1>6 DEF ValuesOf
    <3>2. i.v \in W
      <4>. DEFINE v == i.v
      <4>1. <<v>> \in Seq(W)
        BY <3>1
      <4>. HIDE DEF v
      <4>2. v \in W
        BY <4>1
      <4>. QED
        BY <4>2 DEF v
    <3>. QED
      BY <3>1, <3>2, AppendIsConcat
  <2>. HIDE DEF F, r, q, y, e, w, m
  <2>11. g[p + Len(F)] = UnpackState(r, at + Len(y), a \o ValuesOf(i), 0)
    BY <2>5, <2>6, <2>8, <2>9, <2>10
  <2>. QED
    BY <2>11 DEF F, r, y
<1>7. CASE i.kind = "text"
  <2>1. /\ i.v \in Seq(Byte) /\ Len(i.v) \in 0 .. Space("H") - 1 /\ Len(i.v) \in Nat
        /\ "H" \in Fields /\ Width("H") = 2
    BY <1>7, LengthIs
  <2>. DEFINE x == Ordered(Len(i.v), 2, OrderOf(i))
              l == i.lim
              max == LimitOf(l)
              c == Copied(Len(i.v), max)
  <2>2. y = x \o i.v
    BY <1>7 DEF PackedOf
  <2>3. OrderOf(i) = "<" <=> r = "<"
    BY <1>7 DEF SameOrder
  <2>4. x \in Seq(Byte) /\ Len(x) = 2 /\ Value(x, r) = Len(i.v)
    <3>. DEFINE n == Len(i.v)
                od == OrderOf(i)
    <3>1. n \in 0 .. Space("H") - 1 /\ "H" \in Fields
      BY <2>1
    <3>. HIDE DEF n, od, r
    <3>2. LET s == Ordered(n, Width("H"), od)
          IN  /\ s \in Seq(Byte) /\ Len(s) = Width("H")
              /\ \A back : ((od = "<" <=> back = "<") \/ Width("H") = 1) => Value(s, back) = n
      BY <3>1, OrderedIs
    <3>. QED
      BY <2>1, <2>3, <3>2 DEF n, od
  <2>5. l \in Seq(Numerals)
    BY <1>3, <1>7
  <2>6. max \in Nat /\ c \in 0 .. Len(i.v)
    BY <2>1, <2>5, LimitTyped, CopiedIs
  <2>. HIDE DEF l, x, max, c
  <2>7. /\ Len(l) \in Nat /\ Len(F) = m + Len(l) + 1 /\ F[m + Len(l) + 1] = "s"
        /\ \A k \in 1 .. Len(l) : F[m + k] = l[k]
    <3>1. F = i.ord \o l \o <<"s">>
      BY <1>3, <1>7 DEF l
    <3>. HIDE DEF F
    <3>2. CASE i.ord = <<>>
      <4>1. F = <<>> \o l \o <<"s">> /\ m = 0
        BY <3>1, <3>2
      <4>. HIDE DEF m
      <4>. QED
        BY <2>5, <4>1
    <3>3. CASE i.ord = <<i.ord[1]>>
      <4>. DEFINE d == i.ord[1]
      <4>1. F = <<d>> \o l \o <<"s">> /\ m = 1
        BY <3>1, <3>3
      <4>. HIDE DEF d, m
      <4>. QED
        BY <2>5, <4>1
    <3>. QED
      BY <1>1, <3>2, <3>3
  <2>8. g[q + Len(l)] = UnpackState(r, at, a, max)
    <3>1. ASSUME NEW k \in 1 .. Len(l) PROVE g[q + k] = UnpackChar(g[(q + k) - 1], l[k], buf)
      <4>1. m + k \in 1 .. Len(F) /\ F[m + k] = l[k]
        BY <1>5, <2>7, SMTT(60)
      <4>2. g[p + (m + k)] = UnpackChar(g[(p + (m + k)) - 1], F[m + k], buf)
        BY <1>2, <4>1
      <4>3. p + (m + k) = q + k
        BY <1>5, <2>7
      <4>. QED
        BY <4>1, <4>2, <4>3
    <3>2. g[q] = UnpackState(r, at, a, 0) /\ q \in Nat
      BY <1>4, <1>5, <1>7
    <3>. HIDE DEF q, r
    <3>. QED
      <4>2. \A k \in 1 .. Len(l) : g[q + k] = UnpackChar(g[(q + k) - 1], l[k], buf)
        BY <3>1
      <4>3. g[q + Len(l)] = UnpackState(r, at, a, LimitOf(l))
        <5>1. Reads(g, q, l, buf)
          BY <4>2 DEF Reads
        <5>. QED
          BY <2>5, <3>2, <5>1, UnpackDigits
      <4>. QED
        BY <4>3 DEF max
  <2>. DEFINE z == m + Len(l) + 1
  <2>9. g[p + z] = UnpackChar(g[q + Len(l)], "s", buf) /\ p + Len(F) = p + z
    <3>1. z \in 1 .. Len(F) /\ (p + z) - 1 = q + Len(l) /\ F[z] = "s"
      BY <1>5, <2>7
    <3>. QED
      BY <1>2, <2>7, <3>1
  <2>10. g[p + z] = UnpackState(r, at + 2 + Value(Part(buf, at, 2), r),
                                Append(a, Part(buf, at + 2, Copied(Value(Part(buf, at, 2), r), max))), 0)
    BY <2>8, <2>9, UnpackText
  <2>11. Len(y) = 2 + Len(i.v) /\ y \in Seq(Byte)
    <3>. HIDE DEF y
    <3>1. x \o i.v \in Seq(Byte) /\ Len(x \o i.v) = Len(x) + Len(i.v)
      BY <2>1, <2>4, PartOfTwo
    <3>. QED
      BY <2>2, <2>4, <3>1
  <2>12. Part(buf, at, 2) = x
    <3>1. /\ 0 \in Nat /\ 2 \in Nat /\ 0 + 2 <= Len(y) /\ at + 0 = at /\ Len(y) \in Nat
      BY <2>1, <2>11
    <3>2. Part(Part(buf, at, Len(y)), 0, 2) = Part(buf, at + 0, 2)
      BY <3>1, PartPart
    <3>3. Part(x \o i.v, 0, Len(x)) = x
      BY <2>1, <2>4, PartOfTwo
    <3>. QED
      BY <2>2, <2>4, <3>1, <3>2, <3>3
  <2>13. Part(buf, at + 2, c) = SubSeq(i.v, 1, c)
    <3>1. c \in Nat /\ c <= Len(i.v) /\ 0 + c <= Len(i.v) /\ 2 + c <= Len(y) /\ 2 \in Nat /\ 0 \in Nat
          /\ Len(y) \in Nat /\ 2 + 0 = 2
      <4>. DEFINE n == Len(i.v)
                  Y == Len(y)
      <4>1. n \in Nat /\ Y = 2 + n /\ c \in 0 .. n
        BY <2>1, <2>6, <2>11
      <4>. HIDE DEF n, Y
      <4>2. c \in Nat /\ c <= n /\ 0 + c <= n /\ 2 + c <= Y /\ Y \in Nat
        BY <4>1
      <4>. QED
        BY <4>2 DEF n, Y
    <3>2. Part(Part(buf, at, Len(y)), 2, c) = Part(buf, at + 2, c)
      BY <3>1, PartPart
    <3>3. Part(x \o i.v, Len(x) + 0, c) = Part(i.v, 0, c)
      <4>1. x \in Seq(Byte) /\ i.v \in Seq(Byte) /\ 0 \in Nat /\ c \in Nat /\ 0 + c <= Len(i.v)
        BY <2>1, <2>4, <3>1
      <4>. QED
        BY <4>1, PartBehind
    <3>4. Part(i.v, 0, c) = SubSeq(i.v, 1, c)
      <4>1. 0 + 1 = 1 /\ 0 + c = c
        BY <3>1
      <4>. QED
        BY <4>1 DEF Part
    <3>. QED
      BY <2>2, <2>4, <3>1, <3>2, <3>3, <3>4
  <2>14. a \o ValuesOf(i) = Append(a, SubSeq(i.v, 1, c))
    <3>. DEFINE v == SubSeq(i.v, 1, c)
    <3>1. ValuesOf(i) = <<v>> /\ <<v>> \in Seq(W)
      BY <1>7 DEF ValuesOf, c, max, l
    <3>. HIDE DEF v
    <3>2. v \in W
      BY <3>1
    <3>3. Append(a, v) = a \o <<v>>
      BY <3>2, AppendIsConcat
    <3>. QED
      BY <3>1, <3>3 DEF v
  <2>15. Copied(Len(i.v), max) = c
    BY DEF c
  <2>16. at + 2 + Len(i.v) = at + Len(y)
    <3>. DEFINE n == Len(i.v)
                Y == Len(y)
    <3>1. n \in Nat /\ Y = 2 + n
      BY <2>1, <2>11
    <3>. HIDE DEF n, Y
    <3>2. at + 2 + n = at + Y
      BY <3>1
    <3>. QED
      BY <3>2 DEF n, Y
  <2>. HIDE DEF F, r, q, y, z, m
  <2>17. g[p + Len(F)] = UnpackState(r, at + Len(y), a \o ValuesOf(i), 0)
    BY <2>4, <2>9, <2>10, <2>12, <2>13, <2>14, <2>15, <2>16
  <2>. QED
    BY <2>17 DEF F, r, y
<1>8. CASE i.kind = "packed"
  <2>1. F = <<>> /\ y = <<>> /\ ValuesOf(i) = <<>> /\ r = o
    BY <1>8 DEF BackOf, PackedOf, ValuesOf, ReadOrder
  <2>2. Len(F) = 0 /\ Len(y) = 0 /\ p + 0 = p /\ at + 0 = at /\ a \o <<>> = a
    BY <2>1
  <2>. HIDE DEF F, r, y
  <2>3. g[p + Len(F)] = UnpackState(r, at + Len(y), a \o ValuesOf(i), 0)
    BY <2>1, <2>2
  <2>. QED
    BY <2>3 DEF F, r, y
<1>9. CASE i.kind = "read"
  <2>1. F = <<i.ch>> /\ y = <<>> /\ ValuesOf(i) = <<>> /\ r = o
    BY <1>9 DEF BackOf, PackedOf, ValuesOf, ReadOrder
  <2>2. i.ch \notin Orders \cup Fields \cup {"s"} /\ ~Digit(i.ch)
    BY <1>9 DEF Item
  <2>3. g[p + 1] = UnpackChar(g[(p + 1) - 1], i.ch, buf) /\ (p + 1) - 1 = p
    <3>1. 1 \in 1 .. Len(F) /\ F[1] = i.ch
      BY <2>1
    <3>. QED
      BY <1>2, <3>1
  <2>4. g[p + 1] = UnpackState(o, at, a, 0)
    BY <2>2, <2>3, UnpackOther
  <2>5. Len(F) = 1 /\ Len(y) = 0 /\ at + 0 = at /\ a \o <<>> = a
    BY <2>1
  <2>. HIDE DEF F, r, y
  <2>6. g[p + Len(F)] = UnpackState(r, at + Len(y), a \o ValuesOf(i), 0)
    BY <2>1, <2>4, <2>5
  <2>. QED
    BY <2>6 DEF F, r, y
<1>. QED
  BY <1>6, <1>7, <1>8, <1>9 DEF Item
\* The parts of a test are sequences.
LEMMA ItemParts ==
    ASSUME NEW i, Item(i), NEW V, Orders \subseteq V, "H" \in V, "s" \in V, Numerals \subseteq V, i.ch \in V,
           NEW W, Nat \subseteq W, Seq(Byte) \subseteq W, i.v \in W
    PROVE  /\ FormatOf(i) \in Seq(V) /\ BackOf(i) \in Seq(V)
           /\ ArgsOf(i) \in Seq(W) /\ ValuesOf(i) \in Seq(W)
<1>1. i.ord \in Seq(V)
  <2>1. CASE i.ord = <<>>
    BY <2>1
  <2>2. CASE i.ord = <<i.ord[1]>> /\ i.ord[1] \in Orders
    <3>. DEFINE c == i.ord[1]
    <3>1. c \in V /\ i.ord = <<c>>
      BY <2>2
    <3>. HIDE DEF c
    <3>2. <<c>> \in Seq(V)
      BY <3>1
    <3>. QED
      BY <3>1, <3>2
  <2>. QED
    BY <2>1, <2>2, OrdIs
<1>2. CASE i.kind = "number"
  <2>1. /\ FormatOf(i) = Append(i.ord, i.ch) /\ BackOf(i) = Append(i.ord, i.ch)
        /\ ArgsOf(i) = <<i.v>> /\ ValuesOf(i) = <<i.v>>
    BY <1>2 DEF FormatOf, BackOf, ArgsOf, ValuesOf
  <2>2. Append(i.ord, i.ch) \in Seq(V)
    BY <1>1
  <2>3. <<i.v>> \in Seq(W)
    <3>. DEFINE v == i.v
    <3>1. v \in W
      OBVIOUS
    <3>. HIDE DEF v
    <3>2. <<v>> \in Seq(W)
      BY <3>1
    <3>. QED
      BY <3>2 DEF v
  <2>. QED
    BY <2>1, <2>2, <2>3
<1>3. CASE i.kind = "text"
  <2>. DEFINE l == i.lim
              o == i.ord
              v == i.v
              c == Copied(Len(i.v), LimitOf(i.lim))
              w == SubSeq(v, 1, c)
  <2>1. /\ FormatOf(i) = o \o <<"H", "s">> /\ BackOf(i) = o \o l \o <<"s">>
        /\ ArgsOf(i) = <<Len(v), v>> /\ ValuesOf(i) = <<w>>
    BY <1>3 DEF FormatOf, BackOf, ArgsOf, ValuesOf
  <2>2. l \in Seq(Numerals) /\ v \in Seq(Byte)
    BY <1>3 DEF Item, Numerals
  <2>3. l \in Seq(V)
    <3>1. Len(l) \in Nat /\ l \in [1 .. Len(l) -> Numerals]
      BY <2>2, SeqN
    <3>. HIDE DEF l
    <3>2. l \in [1 .. Len(l) -> V]
      BY <3>1
    <3>. QED
      BY <3>1, <3>2, NSeq
  <2>4. w \in Seq(Byte)
    <3>1. LimitOf(l) \in Nat /\ Len(v) \in Nat
      BY <2>2, LimitTyped
    <3>2. c \in 0 .. Len(v)
      BY <3>1, CopiedIs
    <3>. HIDE DEF c, v
    <3>3. 0 \in Nat /\ c \in Nat /\ 0 + c <= Len(v) /\ 0 + 1 = 1 /\ 0 + c = c
      BY <2>2, <3>2
    <3>4. Part(v, 0, c) \in Seq(Byte)
      BY <2>2, <3>3, PartIs
    <3>. QED
      BY <3>3, <3>4 DEF Part
  <2>. HIDE DEF l, o, v, w
  <2>5. o \o <<"H", "s">> \in Seq(V)
    <3>1. <<"H", "s">> \in Seq(V) /\ o \in Seq(V)
      BY <1>1 DEF o
    <3>. QED
      BY <3>1
  <2>6. o \o l \o <<"s">> \in Seq(V)
    <3>1. <<"s">> \in Seq(V) /\ o \in Seq(V)
      BY <1>1 DEF o
    <3>2. o \o l \in Seq(V)
      BY <2>3, <3>1
    <3>. QED
      BY <3>1, <3>2
  <2>7. <<Len(v), v>> \in Seq(W)
    <3>1. Len(v) \in W /\ v \in W
      <4>1. Len(v) \in Nat
        BY <2>2
      <4>. QED
        BY <2>2, <4>1
    <3>. QED
      BY <3>1
  <2>8. <<w>> \in Seq(W)
    <3>1. w \in W
      BY <2>4
    <3>. QED
      BY <3>1
  <2>. QED
    BY <2>1, <2>5, <2>6, <2>7, <2>8
<1>4. CASE i.kind = "packed"
  <2>1. /\ FormatOf(i) = <<i.ch>> /\ BackOf(i) = <<>> /\ ArgsOf(i) = <<>> /\ ValuesOf(i) = <<>>
    BY <1>4 DEF FormatOf, BackOf, ArgsOf, ValuesOf
  <2>. DEFINE c == i.ch
  <2>2. c \in V /\ FormatOf(i) = <<c>>
    BY <2>1
  <2>. HIDE DEF c
  <2>3. <<c>> \in Seq(V)
    BY <2>2
  <2>4. <<>> \in Seq(V) /\ <<>> \in Seq(W)
    OBVIOUS
  <2>. QED
    BY <2>1, <2>2, <2>3, <2>4
<1>5. CASE i.kind = "read"
  <2>1. /\ FormatOf(i) = <<>> /\ BackOf(i) = <<i.ch>> /\ ArgsOf(i) = <<>> /\ ValuesOf(i) = <<>>
    BY <1>5 DEF FormatOf, BackOf, ArgsOf, ValuesOf
  <2>. DEFINE c == i.ch
  <2>2. c \in V /\ BackOf(i) = <<c>>
    BY <2>1
  <2>. HIDE DEF c
  <2>3. <<c>> \in Seq(V)
    BY <2>2
  <2>4. <<>> \in Seq(V) /\ <<>> \in Seq(W)
    OBVIOUS
  <2>. QED
    BY <2>1, <2>2, <2>3, <2>4
<1>. QED
  BY <1>2, <1>3, <1>4, <1>5 DEF Item
\* The characters and the values of a test.
Chars(t) == Orders \cup {"H", "s"} \cup Numerals \cup {t[j].ch : j \in 1 .. Len(t)}
Vals(t)  == Nat \cup Seq(Byte) \cup {t[j].v : j \in 1 .. Len(t)}

\* A test, item by item.
LEMMA TestParts ==
    ASSUME NEW t \in Tests
    PROVE  /\ Len(t) \in Nat /\ \A j \in 1 .. Len(t) : Item(t[j])
           /\ [j \in 1 .. Len(t) |-> FormatOf(t[j])] \in [1 .. Len(t) -> Seq(Chars(t))]
           /\ [j \in 1 .. Len(t) |-> BackOf(t[j])] \in [1 .. Len(t) -> Seq(Chars(t))]
           /\ [j \in 1 .. Len(t) |-> ArgsOf(t[j])] \in [1 .. Len(t) -> Seq(Vals(t))]
           /\ [j \in 1 .. Len(t) |-> ValuesOf(t[j])] \in [1 .. Len(t) -> Seq(Vals(t))]
           /\ [j \in 1 .. Len(t) |-> PackedOf(t[j])] \in [1 .. Len(t) -> Seq(Byte)]
<1>1. Len(t) \in Nat /\ \A j \in 1 .. Len(t) : Item(t[j])
  BY BtcMessageAssumption DEF BtcMessageAssumption
<1>. DEFINE V == Chars(t)
            W == Vals(t)
<1>2. Orders \subseteq V /\ "H" \in V /\ "s" \in V /\ Numerals \subseteq V /\ \A j \in 1 .. Len(t) : t[j].ch \in V
  BY DEF Chars
<1>3. Nat \subseteq W /\ Seq(Byte) \subseteq W /\ \A j \in 1 .. Len(t) : t[j].v \in W
  BY DEF Vals
<1>. HIDE DEF V, W
<1>4. ASSUME NEW j \in 1 .. Len(t)
      PROVE  /\ FormatOf(t[j]) \in Seq(V) /\ BackOf(t[j]) \in Seq(V)
             /\ ArgsOf(t[j]) \in Seq(W) /\ ValuesOf(t[j]) \in Seq(W) /\ PackedOf(t[j]) \in Seq(Byte)
  <2>. DEFINE i == t[j]
  <2>1. Item(i) /\ i.ch \in V /\ i.v \in W
    BY <1>1, <1>2, <1>3
  <2>. HIDE DEF i
  <2>2. /\ FormatOf(i) \in Seq(V) /\ BackOf(i) \in Seq(V) /\ ArgsOf(i) \in Seq(W) /\ ValuesOf(i) \in Seq(W)
    BY <1>2, <1>3, <2>1, ItemParts
  <2>3. PackedOf(i) \in Seq(Byte)
    BY <2>1, PackedTyped
  <2>. QED
    BY <2>2, <2>3 DEF i
<1>5. [j \in 1 .. Len(t) |-> FormatOf(t[j])] \in [1 .. Len(t) -> Seq(V)]
  BY <1>4
<1>6. [j \in 1 .. Len(t) |-> BackOf(t[j])] \in [1 .. Len(t) -> Seq(V)]
  BY <1>4
<1>7. [j \in 1 .. Len(t) |-> ArgsOf(t[j])] \in [1 .. Len(t) -> Seq(W)]
  BY <1>4
<1>8. [j \in 1 .. Len(t) |-> ValuesOf(t[j])] \in [1 .. Len(t) -> Seq(W)]
  BY <1>4
<1>9. [j \in 1 .. Len(t) |-> PackedOf(t[j])] \in [1 .. Len(t) -> Seq(Byte)]
  BY <1>4
<1>. QED
  BY <1>1, <1>5, <1>6, <1>7, <1>8, <1>9 DEF V, W

\* A packet is what is packed of its items, one behind the other.
LEMMA PacketIs ==
    ASSUME NEW t \in Tests
    PROVE  \E d : /\ IsJoint(d, Len(t), [j \in 1 .. Len(t) |-> PackedOf(t[j])])
                  /\ \A i \in 0 .. Len(t) : d[i] \in Seq(Byte)
                  /\ beej_pack(Format(t), Args(t)) = d[Len(t)]
<1>. DEFINE N == Len(t)
            X == [j \in 1 .. N |-> FormatOf(t[j])]
            Y == [j \in 1 .. N |-> ArgsOf(t[j])]
            Z == [j \in 1 .. N |-> PackedOf(t[j])]
            V == Chars(t)
            W == Vals(t)
            fmt == Format(t)
            args == Args(t)
<1>1. /\ N \in Nat /\ \A j \in 1 .. N : Item(t[j])
      /\ X \in [1 .. N -> Seq(V)] /\ Y \in [1 .. N -> Seq(W)] /\ Z \in [1 .. N -> Seq(Byte)]
  BY TestParts
<1>2. fmt = Joint(X) /\ args = Joint(Y)
  BY DEF Format, Args
<1>3. \A j \in 1 .. N : X[j] = FormatOf(t[j]) /\ Y[j] = ArgsOf(t[j]) /\ Z[j] = PackedOf(t[j])
  OBVIOUS
<1>. HIDE DEF N, X, Y, Z, V, W, fmt, args
<1>4. PICK x : IsJoint(x, N, X) /\ Joint(X) = x[N] /\ \A i \in 0 .. N : x[i] \in Seq(V)
  BY <1>1, JointOf
<1>5. PICK y : IsJoint(y, N, Y) /\ Joint(Y) = y[N] /\ \A i \in 0 .. N : y[i] \in Seq(W)
  BY <1>1, JointOf
<1>6. PICK d : IsJoint(d, N, Z) /\ Joint(Z) = d[N] /\ \A i \in 0 .. N : d[i] \in Seq(Byte)
  BY <1>1, JointOf
<1>7. fmt = x[N] /\ args = y[N] /\ Len(fmt) \in Nat
  <2>1. N \in 0 .. N
    BY <1>1
  <2>2. x[N] \in Seq(V)
    BY <1>4, <2>1
  <2>. QED
    BY <1>2, <1>4, <1>5, <2>2
<1>8. PICK f : /\ f[0] = PackStart
               /\ \A j \in 1 .. Len(fmt) : f[j] = PackChar(f[j - 1], fmt[j], args)
               /\ beej_pack(fmt, args) = f[Len(fmt)].buf
  <2>1. Len(fmt) \in Nat
    BY <1>7
  <2>. QED
    BY <2>1, PackSteps
<1>. DEFINE T == {i \in 0 .. N : f[Len(x[i])] = PackState("none", 1 + Len(y[i]), d[i])}
<1>9. 0 \in T
  <2>1. x[0] = <<>> /\ y[0] = <<>> /\ d[0] = <<>> /\ Len(<<>>) = 0 /\ 1 + 0 = 1 /\ 0 \in 0 .. N
    BY <1>1, <1>4, <1>5, <1>6 DEF IsJoint
  <2>2. f[Len(x[0])] = PackState("none", 1 + Len(y[0]), d[0])
    BY <1>8, <2>1 DEF PackStart
  <2>. QED
    BY <2>1, <2>2
<1>10. ASSUME NEW j \in 1 .. N, j - 1 \in T PROVE j \in T
  <2>. DEFINE i == t[j]
              p == Len(x[j - 1])
              n == 1 + Len(y[j - 1])
              b == d[j - 1]
  <2>1. f[p] = PackState("none", n, b) /\ Item(i) /\ j \in 0 .. N /\ j - 1 \in 0 .. N
    BY <1>1, <1>10
  <2>2. /\ Len(x[j]) = p + Len(X[j]) /\ p \in Nat /\ Len(X[j]) \in Nat /\ Len(x[j]) <= Len(x[N]) /\ Len(x[j]) \in Nat
        /\ \A k \in 1 .. Len(X[j]) : x[N][p + k] = X[j][k]
    BY <1>4 DEF IsJoint
  <2>3. /\ Len(y[j]) = Len(y[j - 1]) + Len(Y[j]) /\ Len(y[j - 1]) \in Nat /\ Len(Y[j]) \in Nat
        /\ \A k \in 1 .. Len(Y[j]) : y[N][Len(y[j - 1]) + k] = Y[j][k]
    BY <1>5 DEF IsJoint
  <2>4. d[j] = b \o Z[j]
    BY <1>6 DEF IsJoint
  <2>5. b \in Seq(Byte)
    BY <1>6, <2>1
  <2>6. X[j] = FormatOf(i) /\ Y[j] = ArgsOf(i) /\ Z[j] = PackedOf(i)
    BY <1>3
  <2>7. n \in Nat \ {0} /\ n - 1 = Len(y[j - 1])
    BY <2>3
  <2>. HIDE DEF p, n, b, i
  <2>8. Writes(f, p, FormatOf(i), args)
    <3>1. ASSUME NEW k \in 1 .. Len(FormatOf(i))
          PROVE  f[p + k] = PackChar(f[(p + k) - 1], FormatOf(i)[k], args)
      <4>1. k \in 1 .. Len(X[j]) /\ fmt[p + k] = FormatOf(i)[k]
        BY <1>7, <2>2, <2>6
      <4>. DEFINE L == Len(X[j])
                  M == Len(fmt)
      <4>2. k \in 1 .. L /\ p + L <= M /\ M \in Nat /\ L \in Nat
        BY <1>7, <2>2, <4>1
      <4>. HIDE DEF L, M
      <4>3. p + k \in 1 .. M
        BY <2>2, <4>2
      <4>. QED
        BY <1>8, <4>1, <4>3 DEF M
    <3>. QED
      BY <3>1 DEF Writes
  <2>9. Finds(args, n, ArgsOf(i))
    BY <1>7, <2>3, <2>6, <2>7 DEF Finds
  <2>10. f[p + Len(FormatOf(i))] = PackState("none", n + Len(ArgsOf(i)), b \o PackedOf(i))
    BY <2>1, <2>2, <2>5, <2>7, <2>8, <2>9, PackItem
  <2>11. n + Len(ArgsOf(i)) = 1 + Len(y[j])
    <3>. DEFINE A == Len(y[j - 1])
                B == Len(Y[j])
                C == Len(y[j])
    <3>1. C = A + B /\ A \in Nat /\ B \in Nat /\ n = 1 + A
      BY <2>3 DEF n
    <3>. HIDE DEF A, B, C
    <3>2. n + B = 1 + C
      BY <3>1
    <3>. QED
      BY <2>6, <3>2 DEF B, C
  <2>12. f[Len(x[j])] = PackState("none", 1 + Len(y[j]), d[j])
    BY <2>2, <2>4, <2>6, <2>10, <2>11
  <2>. QED
    BY <2>1, <2>12
<1>. HIDE DEF T
<1>11. 0 .. N \subseteq T
  BY <1>1, <1>9, <1>10, BoundedInduction
<1>12. N \in T
  BY <1>1, <1>11
<1>13. f[Len(x[N])] = PackState("none", 1 + Len(y[N]), d[N])
  BY <1>12 DEF T
<1>14. beej_pack(fmt, args) = d[N]
  BY <1>7, <1>8, <1>13 DEF PackState
<1>. QED
  BY <1>6, <1>14 DEF N, Z, fmt, args

\* In its own orders, a packet reads back.
LEMMA PacketBack ==
    ASSUME NEW t \in Tests, OwnOrders(t)
    PROVE  LET buf == beej_pack(Format(t), Args(t))
               u   == beej_unpack(buf, Back(t))
           IN  u.args = Values(t) /\ u.at = Len(buf)
<1>. DEFINE N == Len(t)
            X == [j \in 1 .. N |-> BackOf(t[j])]
            Y == [j \in 1 .. N |-> ValuesOf(t[j])]
            Z == [j \in 1 .. N |-> PackedOf(t[j])]
            V == Chars(t)
            W == Vals(t)
            fmt == Back(t)
            buf == beej_pack(Format(t), Args(t))
            plain == \A j \in 1 .. N : t[j].kind \in {"number", "text"} => t[j].ord = <<>>
<1>1. /\ N \in Nat /\ \A j \in 1 .. N : Item(t[j])
      /\ X \in [1 .. N -> Seq(V)] /\ Y \in [1 .. N -> Seq(W)] /\ Z \in [1 .. N -> Seq(Byte)]
  BY TestParts
<1>2. fmt = Joint(X) /\ Values(t) = Joint(Y)
  BY DEF Back, Values
<1>3. \A j \in 1 .. N : X[j] = BackOf(t[j]) /\ Y[j] = ValuesOf(t[j]) /\ Z[j] = PackedOf(t[j])
  OBVIOUS
<1>4. PICK d : IsJoint(d, N, Z) /\ (\A i \in 0 .. N : d[i] \in Seq(Byte)) /\ buf = d[N]
  BY PacketIs
<1>5. \/ plain
      \/ \A j \in 1 .. N : t[j].kind = "text" \/ (t[j].kind = "number" /\ Width(t[j].ch) > 1) => t[j].ord # <<>>
  BY DEF OwnOrders
<1>. HIDE DEF N, X, Y, Z, V, W, fmt, buf
<1>6. PICK x : IsJoint(x, N, X) /\ Joint(X) = x[N] /\ \A i \in 0 .. N : x[i] \in Seq(V)
  BY <1>1, JointOf
<1>7. PICK y : IsJoint(y, N, Y) /\ Joint(Y) = y[N] /\ \A i \in 0 .. N : y[i] \in Seq(W)
  BY <1>1, JointOf
<1>8. fmt = x[N] /\ Values(t) = y[N] /\ Len(fmt) \in Nat /\ buf \in Seq(Byte)
  <2>1. N \in 0 .. N
    BY <1>1
  <2>2. x[N] \in Seq(V) /\ d[N] \in Seq(Byte)
    BY <1>4, <1>6, <2>1
  <2>. QED
    BY <1>2, <1>4, <1>6, <1>7, <2>2
<1>9. PICK g : /\ g[0] = UnpackStart
               /\ \A j \in 1 .. Len(fmt) : g[j] = UnpackChar(g[j - 1], fmt[j], buf)
               /\ beej_unpack(buf, fmt) = g[Len(fmt)]
  <2>1. Len(fmt) \in Nat
    BY <1>8
  <2>. QED
    BY <2>1, UnpackSteps
<1>. DEFINE T == {i \in 0 .. N : \E o : (plain => o = "none") /\ g[Len(x[i])] = UnpackState(o, Len(d[i]), y[i], 0)}
<1>. HIDE DEF plain
<1>10. 0 \in T
  <2>1. x[0] = <<>> /\ y[0] = <<>> /\ d[0] = <<>> /\ Len(<<>>) = 0 /\ 0 \in 0 .. N
    BY <1>1, <1>4, <1>6, <1>7 DEF IsJoint
  <2>2. g[Len(x[0])] = UnpackState("none", Len(d[0]), y[0], 0)
    BY <1>9, <2>1 DEF UnpackStart
  <2>. QED
    BY <2>1, <2>2
<1>11. ASSUME NEW j \in 1 .. N, j - 1 \in T PROVE j \in T
  <2>. DEFINE i == t[j]
              p == Len(x[j - 1])
              at == Len(d[j - 1])
              a == y[j - 1]
  <2>1. PICK o : (plain => o = "none") /\ g[p] = UnpackState(o, at, a, 0)
    BY <1>11
  <2>2. Item(i) /\ j \in 0 .. N /\ j - 1 \in 0 .. N
    BY <1>1
  <2>3. /\ Len(x[j]) = p + Len(X[j]) /\ p \in Nat /\ Len(X[j]) \in Nat /\ Len(x[j]) <= Len(x[N]) /\ Len(x[j]) \in Nat
        /\ \A k \in 1 .. Len(X[j]) : x[N][p + k] = X[j][k]
    BY <1>6 DEF IsJoint
  <2>4. /\ Len(d[j]) = at + Len(Z[j]) /\ at \in Nat /\ Len(Z[j]) \in Nat /\ Len(d[j]) <= Len(d[N])
        /\ \A k \in 1 .. Len(Z[j]) : d[N][at + k] = Z[j][k]
    BY <1>4 DEF IsJoint
  <2>5. y[j] = a \o Y[j] /\ a \in Seq(W)
    BY <1>7, <2>2 DEF IsJoint
  <2>6. X[j] = BackOf(i) /\ Y[j] = ValuesOf(i) /\ Z[j] = PackedOf(i)
    BY <1>3
  <2>7. ValuesOf(i) \in Seq(W) /\ PackedOf(i) \in Seq(Byte)
    BY <1>1, <2>6
  <2>8. SameOrder(o, i) /\ (plain => ReadOrder(o, i) = "none")
    <3>1. CASE plain
      <4>1. o = "none" /\ (i.kind \in {"number", "text"} => i.ord = <<>>)
        BY <2>1, <3>1 DEF plain
      <4>2. ReadOrder(o, i) = "none"
        BY <4>1 DEF ReadOrder
      <4>3. i.kind \in {"number", "text"} => OrderOf(i) = "none"
        BY <4>1 DEF OrderOf
      <4>. QED
        BY <4>2, <4>3 DEF SameOrder
    <3>2. CASE ~plain
      <4>1. i.kind = "text" \/ (i.kind = "number" /\ Width(i.ch) > 1) => i.ord # <<>>
        BY <1>5, <3>2
      <4>2. i.kind = "number" /\ Width(i.ch) # 1 => Width(i.ch) > 1
        <5>1. i.kind = "number" => Width(i.ch) \in {1, 2, 4, 8}
          BY <2>2, Spaces DEF Item
        <5>. QED
          BY <5>1
      <4>. QED
        BY <3>2, <4>1, <4>2 DEF SameOrder, OrderOf, ReadOrder
    <3>. QED
      BY <3>1, <3>2
  <2>. HIDE DEF p, at, a, i
  <2>9. Reads(g, p, BackOf(i), buf)
    <3>1. ASSUME NEW k \in 1 .. Len(BackOf(i))
          PROVE  g[p + k] = UnpackChar(g[(p + k) - 1], BackOf(i)[k], buf)
      <4>1. k \in 1 .. Len(X[j]) /\ fmt[p + k] = BackOf(i)[k]
        BY <1>8, <2>3, <2>6
      <4>. DEFINE L == Len(X[j])
                  M == Len(fmt)
      <4>2. k \in 1 .. L /\ p + L <= M /\ M \in Nat /\ L \in Nat
        BY <1>8, <2>3, <4>1
      <4>. HIDE DEF L, M
      <4>3. p + k \in 1 .. M
        BY <2>3, <4>2
      <4>. QED
        BY <1>9, <4>1, <4>3 DEF M
    <3>. QED
      BY <3>1 DEF Reads
  <2>10. at + Len(PackedOf(i)) <= Len(buf) /\ Part(buf, at, Len(PackedOf(i))) = PackedOf(i)
    <3>. DEFINE z == PackedOf(i)
                n == Len(z)
    <3>1. z \in Seq(Byte) /\ n \in Nat /\ at + n <= Len(buf) /\ \A k \in 1 .. n : buf[at + k] = z[k]
      BY <1>4, <2>4, <2>6, <2>7
    <3>. HIDE DEF z
    <3>2. (\A k \in 1 .. n : buf[at + k] = z[k]) => Part(buf, at, n) = z
      BY <1>8, <2>4, <3>1, PartEqual
    <3>. QED
      BY <3>1, <3>2 DEF z
  <2>11. g[p + Len(BackOf(i))] = UnpackState(ReadOrder(o, i), at + Len(PackedOf(i)), a \o ValuesOf(i), 0)
    BY <1>8, <2>1, <2>2, <2>3, <2>4, <2>5, <2>7, <2>8, <2>9, <2>10, UnpackItem, SMTT(60)
  <2>12. g[Len(x[j])] = UnpackState(ReadOrder(o, i), Len(d[j]), y[j], 0)
    BY <2>3, <2>4, <2>5, <2>6, <2>11
  <2>. QED
    BY <2>2, <2>8, <2>12
<1>. HIDE DEF T
<1>12. 0 .. N \subseteq T
  BY <1>1, <1>10, <1>11, BoundedInduction
<1>13. N \in T
  BY <1>1, <1>12
<1>14. PICK o : g[Len(x[N])] = UnpackState(o, Len(d[N]), y[N], 0)
  BY <1>13 DEF T
<1>15. beej_unpack(buf, fmt).args = Values(t) /\ beej_unpack(buf, fmt).at = Len(buf)
  BY <1>4, <1>8, <1>9, <1>14 DEF UnpackState
<1>. QED
  BY <1>15 DEF buf, fmt------------------------------------------------------------------------------
(* The theorems. *)

\* debug_beej_pack.c packs its test.
LEMMA DebugInv ==
    ASSUME IInv, DebugPack
    PROVE  IInv'
<1>1. /\ pc = "pack" /\ pc' = "done" /\ req' = beej_pack(Format(test), Args(test))
      /\ UNCHANGED <<prog, junk, ver, test, fields, addrs, reply, wire, closed, nread, resp, msg, shown>>
  BY DEF DebugPack, clientVars
<1>2. prog = "debug"
  BY <1>1, PlacesAre DEF IInv, Started, Programs, Datagrams
<1>3. test \in Tests /\ reply = <<>>
  BY <1>1, <1>2 DEF IInv, Started, Answered
<1>4. prog \notin Programs /\ prog \notin Unpackers /\ prog \notin Printers /\ prog # "btc_version"
  BY <1>2 DEF Programs, Unpackers, Printers
<1>5. req' \in Seq(Byte)
  <2>1. PICK d : /\ \A i \in 0 .. Len(test) : d[i] \in Seq(Byte)
                 /\ beej_pack(Format(test), Args(test)) = d[Len(test)]
    BY <1>3, PacketIs
  <2>2. Len(test) \in 0 .. Len(test)
    BY <1>3, TestParts
  <2>. QED
    BY <1>1, <2>1, <2>2
<1>6. TypeOK'
  BY <1>1, <1>5 DEF IInv, TypeOK
<1>7. Started'
  <2>1. "done" \in Places(prog)
    BY <1>2, PlacesAre
  <2>. QED
    BY <1>1, <2>1 DEF IInv, Started
<1>8. Asked'
  BY <1>1, <1>4 DEF Asked
<1>9. Answered' /\ Arriving' /\ Arrived' /\ Told' /\ Handled'
  BY <1>1, <1>3, <1>4 DEF Answered, Arriving, Arrived, Told, Handled
<1>. QED
  BY <1>6, <1>7, <1>8, <1>9 DEF IInv

\* Every step of a program or of its peer keeps the invariant.
LEMMA StepInv ==
    ASSUME IInv, [Next]_vars
    PROVE  IInv'
<1>1. CASE MessageClient
  <2>1. prog \in Programs /\ (Build \/ Connecting \/ Write \/ Recv \/ PrintBody \/ Unpack \/ Show \/ ShowVersion)
    BY <1>1 DEF MessageClient
  <2>2. CASE Build
    BY <2>1, <2>2, BuildInv
  <2>3. CASE Connecting
    BY <2>1, <2>3, ConnectingInv
  <2>4. CASE Write
    BY <2>1, <2>4, WriteInv
  <2>5. CASE Recv
    BY <2>1, <2>5, RecvInv
  <2>6. CASE Unpack
    BY <2>1, <2>6, UnpackInv
  <2>7. CASE Show
    BY <2>1, <2>7, ShowInv
  <2>8. CASE PrintBody
    BY <2>1, <2>8, PrintInv
  <2>9. CASE ShowVersion
    BY <2>1, <2>9, ShowVersionInv
  <2>. QED
    BY <2>1, <2>2, <2>3, <2>4, <2>5, <2>6, <2>7, <2>8, <2>9
<1>2. CASE StreamClient
  BY <1>2, ConnectingInv, RecvTextInv DEF StreamClient
<1>3. CASE Listener
  BY <1>3, ConnectingInv, RecvFromInv DEF Listener
<1>4. CASE Talker
  BY <1>4, ConnectingInv, SendInv DEF Talker
<1>5. CASE Broadcaster
  BY <1>5, SendInv DEF Broadcaster
<1>6. CASE DebugPack
  BY <1>6, DebugInv
<1>7. CASE NodeReplies
  BY <1>7, AnswerInv
<1>8. CASE TextSent
  BY <1>8, TextSentInv
<1>9. CASE NodeCloses
  <2>1. UNCHANGED <<clientVars, pc, req, addrs, reply, wire, nread, resp, msg, shown>>
    BY <1>9 DEF NodeCloses
  <2>. QED
    BY <2>1, SameInv
<1>10. CASE Ended \/ UNCHANGED vars
  <2>1. UNCHANGED <<clientVars, pc, req, addrs, reply, wire, nread, resp, msg, shown>>
    BY <1>10 DEF Ended, vars, clientVars
  <2>. QED
    BY <2>1, SameInv
<1>. QED
  BY <1>1, <1>2, <1>3, <1>4, <1>5, <1>6, <1>7, <1>8, <1>9, <1>10 DEF Next, Client

\* The invariant holds: for every request, memory, answer and test.
LEMMA InvHolds == Spec => []IInv
<1>1. Init => IInv
  BY InitInv
<1>2. IInv /\ [Next]_vars => IInv'
  BY StepInv
<1>. QED
  BY <1>1, <1>2, PTL DEF Spec

\* The buffers hold bytes, resp_buf keeps its length, and no more is counted as received
\* than fits it: btc_version.c, btc_verack.c and the small programs beside them.
THEOREM TypeCorrect == Spec => []TypeOK
<1>1. IInv => TypeOK
  BY DEF IInv
<1>. QED
  BY <1>1, InvHolds, PTL

\* Whatever the memory behind the command's name held, unpack_resp_buf finds in the request
\* of build_btc_message and pack_btc_message the command, the length and the checksum, and
\* print_version_payload the version, that were put in.
THEOREM RequestIsRead == Spec => []RequestReads
<1>1. IInv => RequestReads
  BY RequestReadsOf DEF IInv
<1>. QED
  BY <1>1, InvHolds, PTL

\* However recv cuts the answer, once a client has it whole it shows it to the byte: what
\* unpack_resp_buf has unpacked and pack_btc_message packed again, or the print of the
\* clients that do not unpack; btc_verack and those that print stay within their buffers,
\* and btc_version, which reads every payload as a version, does and shows the version's
\* fields when the payload holds one to its end; and the text programs show what came.
THEOREM ReplyIsShown == Spec => []ShowsReply
<1>1. IInv => ShowsReply
  BY ShowsReplyOf
<1>. QED
  BY <1>1, InvHolds, PTL

\* Every packet, of any number of fields and texts, that debug_beej_pack.c packs with the
\* order before each field, or with no order at all, reads back as what was packed.
THEOREM PacketIsRead == Spec => []PacketReadsBack
<1>1. IInv => PacketReadsBack
  <2>. SUFFICES ASSUME IInv, prog = "debug", pc = "done", OwnOrders(test)
                PROVE  LET u == beej_unpack(req, Back(test))
                       IN  u.args = Values(test) /\ u.at = Len(req)
    BY DEF PacketReadsBack
  <2>1. test \in Tests /\ req = beej_pack(Format(test), Args(test))
    BY DEF IInv, Started, Asked
  <2>. QED
    BY <2>1, PacketBack
<1>. QED
  BY <1>1, InvHolds, PTL
==============================================================================
