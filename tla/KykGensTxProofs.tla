-------------------------- MODULE KykGensTxProofs --------------------------
(***************************************************************************)
(* The theorems about transactions.  What is packed is unpacked again:        *)
(* integers, varints, hexadecimal text, the digits of a number and an         *)
(* address, for a byte of any number of values.  From these, parser by parser *)
(* and read by read, that what has been written is shown as it was written;   *)
(* and from that, program by program, that the transaction kyk_gens_tx makes  *)
(* pays its key.                                                              *)
(***************************************************************************)
EXTENDS KykGensTx, BytesProofs

------------------------------------------------------------------------------
(* varint.c *)

\* A byte and others, in front of more: each is where it was put.
LEMMA Tagged ==
    ASSUME NEW t \in Byte, NEW b \in Seq(Byte), NEW more \in Seq(Byte)
    PROVE  /\ Len(<<t>> \o b) = Len(b) + 1
           /\ <<t>> \o b \in Seq(Byte)
           /\ ((<<t>> \o b) \o more)[1] = t
           /\ SubSeq((<<t>> \o b) \o more, 2, Len(b) + 1) = b
  <1>. DEFINE s == <<t>> \o b
              u == s \o more
  <1>1. Len(s) = Len(b) + 1 /\ s \in Seq(Byte) /\ s[1] = t
        /\ \A j \in 1 .. Len(b) : s[j + 1] = b[j]
    OBVIOUS
  <1>. HIDE DEF s
  <1>2. u \in Seq(Byte) /\ \A j \in 1 .. Len(s) : u[j] = s[j]
    BY <1>1
  <1>. HIDE DEF u
  <1>3. \A j \in 2 .. Len(b) + 1 : u[j] = b[j - 1] /\ u[j] \in Byte
    BY <1>1, <1>2, SMTT(60)
  <1>4. /\ SubSeq(u, 2, Len(b) + 1) \in Seq(Byte)
        /\ Len(SubSeq(u, 2, Len(b) + 1))
               = IF 2 <= Len(b) + 1 THEN (Len(b) + 1) - 2 + 1 ELSE 0
        /\ \A j \in 1 .. (Len(b) + 1) - 2 + 1 :
               SubSeq(u, 2, Len(b) + 1)[j] = u[2 + j - 1]
    BY <1>3, SubSeqProperties
  <1>5. /\ Len(SubSeq(u, 2, Len(b) + 1)) = Len(b)
        /\ \A j \in 1 .. Len(b) : SubSeq(u, 2, Len(b) + 1)[j] = b[j]
    BY <1>3, <1>4
  <1>6. SubSeq(u, 2, Len(b) + 1) = b
    BY <1>4, <1>5, SeqEqual
  <1>. QED
    BY <1>1, <1>2, <1>6 DEF s, u

\* A varint of more than a byte is read.
LEMMA WideRead ==
    ASSUME NEW v \in Nat, NEW more \in Seq(Byte), NEW t \in Byte, NEW n \in {2, 4, 8},
           Fits(v, n),
           PackVarint(v) = <<t>> \o LE(v, n),
           VarintSize(t) = n + 1
    PROVE  UnpackVarint(PackVarint(v) \o more) = [val |-> v, size |-> Len(PackVarint(v))]
  <1>. DEFINE buf == PackVarint(v) \o more
  <1>1. Len(LE(v, n)) = n /\ LE(v, n) \in Seq(Byte)
    <2>. n \in 1 .. 8
      OBVIOUS
    <2>. QED
      BY LEBytes
  <1>2. Num(LE(v, n)) = v
    BY WordRead
  <1>. HIDE DEF buf
  <1>3. buf[1] = t /\ SubSeq(buf, 2, n + 1) = LE(v, n) /\ Len(PackVarint(v)) = n + 1
    BY <1>1, Tagged DEF buf
  <1>4. VarintSize(buf[1]) = n + 1 /\ n + 1 # 1
    BY <1>3
  <1>5. UnpackVarint(buf) = [val |-> Num(SubSeq(buf, 2, n + 1)), size |-> n + 1]
    BY <1>4, Zenon DEF UnpackVarint
  <1>6. UnpackVarint(buf) = [val |-> v, size |-> Len(PackVarint(v))]
    BY <1>2, <1>3, <1>5, Zenon
  <1>. QED
    BY <1>6 DEF buf

\* kyk_unpack_varint finds the number that kyk_pack_varint put in front of anything else,
\* and says how many bytes that took: for every number of eight bytes, those on either
\* side of a change of width with the others.
THEOREM VarintRead ==
    ASSUME NEW v \in 0 .. Quad - 1, NEW more \in Seq(Byte)
    PROVE  UnpackVarint(PackVarint(v) \o more) = [val |-> v, size |-> Len(PackVarint(v))]
  <1>1. /\ Tag2 \in Nat /\ Tag4 \in Nat /\ Tag8 \in Nat
        /\ Tag2 < Tag4 /\ Tag4 < Tag8 /\ Tag8 < Base
    BY Powers DEF Tag2, Tag4, Tag8
  <1>2. v \in Nat /\ v < Quad /\ Tag2 \in Byte /\ Tag4 \in Byte /\ Tag8 \in Byte
    BY <1>1, Powers DEF Byte
  <1>3. VarintSize(Tag2) = 2 + 1 /\ VarintSize(Tag4) = 4 + 1 /\ VarintSize(Tag8) = 8 + 1
    <2>1. Tag2 # Tag4 /\ Tag2 # Tag8 /\ Tag4 # Tag8
      BY <1>1
    <2>. QED
      BY <2>1 DEF VarintSize
  <1>4. CASE v < Tag2
    <2>1. PackVarint(v) = <<v>>
      BY <1>4 DEF PackVarint
    <2>2. Len(<<v>>) = 1 /\ (<<v>> \o more)[1] = v
      OBVIOUS
    <2>3. VarintSize(v) = 1
      <3>1. v # Tag2 /\ v # Tag4 /\ v # Tag8
        BY <1>1, <1>2, <1>4
      <3>. QED
        BY <3>1 DEF VarintSize
    <2>. QED
      BY <2>1, <2>2, <2>3 DEF UnpackVarint
  <1>5. CASE ~(v < Tag2) /\ v < Short
    <2>1. PackVarint(v) = <<Tag2>> \o LE(v, 2)
      BY <1>5 DEF PackVarint
    <2>2. Fits(v, 2) /\ 2 \in {2, 4, 8}
      BY <1>5 DEF Fits
    <2>. QED
      BY <1>2, <1>3, <2>1, <2>2, WideRead, Zenon
  <1>6. CASE ~(v < Short) /\ v < Long
    <2>1. ~(v < Tag2)
      BY <1>1, <1>2, <1>6, Powers
    <2>2. PackVarint(v) = <<Tag4>> \o LE(v, 4)
      BY <1>6, <2>1 DEF PackVarint
    <2>3. Fits(v, 4) /\ 4 \in {2, 4, 8}
      BY <1>6 DEF Fits
    <2>. QED
      BY <1>2, <1>3, <2>2, <2>3, WideRead, Zenon
  <1>7. CASE ~(v < Long)
    <2>1. ~(v < Tag2) /\ ~(v < Short)
      BY <1>1, <1>2, <1>7, Powers
    <2>2. PackVarint(v) = <<Tag8>> \o LE(v, 8)
      BY <1>7, <2>1 DEF PackVarint
    <2>3. Fits(v, 8) /\ 8 \in {2, 4, 8}
      BY <1>2 DEF Fits
    <2>. QED
      BY <1>2, <1>3, <2>2, <2>3, WideRead, Zenon
  <1>. QED
    BY <1>4, <1>5, <1>6, <1>7

\* encode_btc_varint, written a second time, chooses the same width.
THEOREM VarintWidth ==
    ASSUME NEW v \in 0 .. Quad - 1
    PROVE  Len(PackVarint(v)) = EncodeBtcVarint(v).width + 1
  <1>1. \A n \in {2, 4, 8}, t \in {Tag2, Tag4, Tag8} : Len(<<t>> \o LE(v, n)) = n + 1
    <2>. SUFFICES ASSUME NEW n \in {2, 4, 8}, NEW t \in {Tag2, Tag4, Tag8}
                  PROVE  Len(<<t>> \o LE(v, n)) = n + 1
      OBVIOUS
    <2>1. v \in Nat /\ n \in 1 .. 8 /\ t \in Byte
      BY Powers DEF Tag2, Tag4, Tag8, Byte
    <2>2. LE(v, n) \in Seq(Byte) /\ Len(LE(v, n)) = n
      BY <2>1, LEBytes
    <2>. QED
      BY <2>1, <2>2, Tagged
  <1>2. Len(<<v>>) = 1
    OBVIOUS
  <1>3. CASE v < Tag2
    BY <1>2, <1>3 DEF PackVarint, EncodeBtcVarint
  <1>4. CASE ~(v < Tag2) /\ v < Short
    BY <1>1, <1>4 DEF PackVarint, EncodeBtcVarint
  <1>5. CASE ~(v < Tag2) /\ ~(v < Short) /\ v < Long
    BY <1>1, <1>5 DEF PackVarint, EncodeBtcVarint
  <1>6. CASE ~(v < Tag2) /\ ~(v < Short) /\ ~(v < Long)
    BY <1>1, <1>6 DEF PackVarint, EncodeBtcVarint
  <1>. QED
    BY <1>3, <1>4, <1>5, <1>6

------------------------------------------------------------------------------
(* kyk_utils.c *)

\* A byte is written in two digits.
LEMMA TwoDigits ==
    ASSUME NEW b \in Byte
    PROVE  /\ b \div Hex \in Nat /\ b \div Hex < Hex
           /\ b % Hex \in Nat /\ b % Hex < Hex
           /\ ((b \div Hex) * Hex + (b % Hex)) % Base = b
  <1>1. Hex \in Nat /\ Hex > 0 /\ Hex * Hex >= Base /\ b \in Nat /\ b < Base /\ Base \in Nat
    BY HexAssumption, Powers DEF HexAssumption, Byte
  <1>2. b \div Hex \in Nat
    BY <1>1, Division
  <1>3. b % Hex \in Nat /\ b % Hex < Hex
    BY <1>1, Division
  <1>4. b = (b % Hex) + Hex * (b \div Hex)
    BY <1>1, Division
  <1>5. ASSUME b \div Hex >= Hex PROVE FALSE
    <2>1. Hex * (b \div Hex) >= Hex * Hex
      BY <1>1, <1>2, <1>5
    <2>. QED
      BY <1>1, <1>2, <1>3, <1>4, <2>1
  <1>6. b \div Hex < Hex
    BY <1>1, <1>2, <1>5
  <1>7. (b \div Hex) * Hex + (b % Hex) = b
    <2>. DEFINE x == b \div Hex
                y == b % Hex
    <2>1. x \in Nat /\ y \in Nat /\ b = y + Hex * x
      BY <1>2, <1>3, <1>4
    <2>. HIDE DEF x, y
    <2>2. x * Hex + y = b
      BY <1>1, <2>1
    <2>. QED
      BY <2>2, Zenon DEF x, y
  <1>8. b % Base = b
    BY <1>1
  <1>. QED
    BY <1>2, <1>3, <1>6, <1>7, <1>8

\* Either reader of hexadecimal text finds the bytes that were written: the size that
\* create_txin and create_txout are told is the number of them.
THEOREM HexRead ==
    ASSUME NEW buf \in Seq(Byte)
    PROVE  /\ kyk_alloc_hex(HexText(buf)) = buf
           /\ hexstr_to_bytes(HexText(buf), Len(buf)) = buf
           /\ \A n \in Nat : n # Len(buf) => hexstr_to_bytes(HexText(buf), n) = Malformed
  <1>. DEFINE text == HexText(buf)
  <1>1. Len(text) = 2 * Len(buf) /\ Len(buf) \in Nat
    BY DEF HexText
  <1>2. \A j \in 1 .. Len(buf) : text[2 * j - 1] = buf[j] \div Hex /\ text[2 * j] = buf[j] % Hex
    <2>. SUFFICES ASSUME NEW j \in 1 .. Len(buf)
                  PROVE  text[2 * j - 1] = buf[j] \div Hex /\ text[2 * j] = buf[j] % Hex
      OBVIOUS
    <2>1. /\ 2 * j - 1 \in 1 .. 2 * Len(buf) /\ 2 * j \in 1 .. 2 * Len(buf)
          /\ ((2 * j - 1) + 1) \div 2 = j /\ (2 * j - 1) % 2 = 1
          /\ (2 * j + 1) \div 2 = j /\ (2 * j) % 2 = 0
      OBVIOUS
    <2>. QED
      BY <2>1 DEF HexText
  <1>. HIDE DEF text
  <1>3. \A j \in 1 .. Len(buf) : /\ text[2 * j - 1] < Hex /\ text[2 * j] < Hex
                                 /\ (text[2 * j - 1] * Hex + text[2 * j]) % Base = buf[j]
    <2>. SUFFICES ASSUME NEW j \in 1 .. Len(buf)
                  PROVE  /\ text[2 * j - 1] < Hex /\ text[2 * j] < Hex
                         /\ (text[2 * j - 1] * Hex + text[2 * j]) % Base = buf[j]
      OBVIOUS
    <2>1. buf[j] \in Byte
      OBVIOUS
    <2>. DEFINE hi == buf[j] \div Hex
                lo == buf[j] % Hex
    <2>2. hi < Hex /\ lo < Hex /\ (hi * Hex + lo) % Base = buf[j]
      BY <2>1, TwoDigits, Zenon
    <2>3. text[2 * j - 1] = hi /\ text[2 * j] = lo
      BY <1>2
    <2>. HIDE DEF hi, lo
    <2>. QED
      BY <2>2, <2>3, Zenon
  <1>4. kyk_alloc_hex(text) = buf
    <2>1. Len(text) \div 2 = Len(buf)
      BY <1>1
    <2>2. kyk_alloc_hex(text) = [j \in 1 .. Len(buf) |-> buf[j]]
      BY <1>3, <2>1 DEF kyk_alloc_hex, kyk_hex2byte
    <2>. QED
      BY <2>2
  <1>5. hexstr_to_bytes(text, Len(buf)) = buf
    <2>1. \A j \in 1 .. Len(buf) : ~(text[2 * j - 1] >= Hex)
      <3>. SUFFICES ASSUME NEW j \in 1 .. Len(buf) PROVE ~(text[2 * j - 1] >= Hex)
        OBVIOUS
      <3>1. buf[j] \in Byte /\ text[2 * j - 1] = buf[j] \div Hex
        BY <1>2
      <3>2. buf[j] \div Hex \in Nat /\ buf[j] \div Hex < Hex
        BY <3>1, TwoDigits
      <3>. QED
        BY <3>1, <3>2, HexAssumption DEF HexAssumption
    <2>2. hexstr_to_bytes(text, Len(buf)) = [j \in 1 .. Len(buf) |-> buf[j]]
      BY <1>1, <1>3, <2>1 DEF hexstr_to_bytes
    <2>. QED
      BY <2>2
  <1>6. \A n \in Nat : n # Len(buf) => hexstr_to_bytes(text, n) = Malformed
    BY <1>1 DEF hexstr_to_bytes
  <1>. QED
    BY <1>4, <1>5, <1>6 DEF text

------------------------------------------------------------------------------
(* Numbers of any size, and their digits. *)

\* The recursion of Number.
LEMMA NumberDef ==
    ASSUME NEW b \in Nat, NEW s \in Seq(Nat)
    PROVE  \E v \in [0 .. Len(s) -> Nat] :
               /\ v[0] = 0
               /\ \A j \in 1 .. Len(s) : v[j] = b * v[j - 1] + s[j]
               /\ Number(s, b) = v[Len(s)]
<1>. DEFINE n == Len(s)
            F(p) == [j \in 0 .. n |-> IF j = 0 THEN 0 ELSE b * p[j - 1] + s[j]]
            v == CHOOSE q : q = F(q)
            G == [x \in (1 .. n) \X Nat |-> b * x[2] + s[x[1]]]
<1>1. n \in Nat /\ \A j \in 1 .. n : s[j] \in Nat
  OBVIOUS
<1>2. \A j \in 1 .. n, x \in Nat : b * x + s[j] \in Nat
  BY <1>1
<1>3. G \in [(1 .. n) \X Nat -> Nat] /\ \A j \in 1 .. n, x \in Nat : G[<<j, x>>] = b * x + s[j]
  <2>. HIDE DEF n
  <2>. QED
    BY <1>2
<1>4. PICK f \in [0 .. n -> Nat] : StepSolves(f, n, 0, G)
  <2>. HIDE DEF G, n
  <2>. QED
    BY <1>1, <1>3, StepSolution
<1>5. f = F(f)
  <2>. HIDE DEF G, n
  <2>1. \A j \in 1 .. n : j \in 1 .. n /\ f[j - 1] \in Nat
    BY <1>1
  <2>2. \A j \in 1 .. n : f[j] = b * f[j - 1] + s[j]
    BY <1>3, <1>4, <2>1 DEF StepSolves
  <2>. QED
    BY <1>1, <1>4, <2>2 DEF StepSolves
<1>6. v = F(v)
  BY <1>5
<1>. HIDE DEF v, n
<1>7. v[0] = 0 /\ \A j \in 1 .. n : v[j] = b * v[j - 1] + s[j]
  BY <1>1, <1>6
<1>8. v \in [0 .. n -> {v[j] : j \in 0 .. n}]
  <2>1. v = [j \in 0 .. n |-> v[j]]
    BY <1>6
  <2>. QED
    BY <2>1, FunctionIn
<1>9. v \in [0 .. n -> Nat]
  <2>. DEFINE W == {v[j] : j \in 0 .. n}
  <2>1. v \in [0 .. n -> W]
    BY <1>8
  <2>2. ASSUME NEW j \in 1 .. n, v[j - 1] \in Nat PROVE v[j] \in Nat
    <3>1. b * v[j - 1] + s[j] \in Nat
      BY <1>2, <2>2
    <3>. QED
      BY <1>7, <3>1
  <2>3. v[0] \in Nat
    BY <1>7
  <2>. HIDE DEF W
  <2>. QED
    BY <1>1, <2>1, <2>2, <2>3, StepType
<1>10. Number(s, b) = v[n]
  BY DEF Number, v, n
<1>. QED
  BY <1>7, <1>9, <1>10 DEF n

\* Any function that obeys it gives the number.
LEMMA NumberOf ==
    ASSUME NEW b \in Nat, NEW s \in Seq(Nat), NEW u, u[0] = 0,
           \A j \in 1 .. Len(s) : u[j] = b * u[j - 1] + s[j]
    PROVE  Number(s, b) = u[Len(s)] /\ u[Len(s)] \in Nat
<1>1. PICK v \in [0 .. Len(s) -> Nat] :
               /\ v[0] = 0
               /\ \A j \in 1 .. Len(s) : v[j] = b * v[j - 1] + s[j]
               /\ Number(s, b) = v[Len(s)]
  BY NumberDef
<1>. DEFINE S == {j \in 0 .. Len(s) : u[j] = v[j]}
<1>2. Len(s) \in Nat /\ 0 \in S
  BY <1>1
<1>3. ASSUME NEW j \in 1 .. Len(s), j - 1 \in S PROVE j \in S
  BY <1>1, <1>2, <1>3
<1>. HIDE DEF S
<1>4. 0 .. Len(s) \subseteq S
  BY <1>2, <1>3, BoundedInduction
<1>5. Len(s) \in S
  BY <1>2, <1>4
<1>. QED
  BY <1>1, <1>2, <1>5 DEF S

\* A number of digits is a natural.
LEMMA NumberNat ==
    ASSUME NEW b \in Nat, NEW s \in Seq(Nat)
    PROVE  Number(s, b) \in Nat
<1>1. PICK v \in [0 .. Len(s) -> Nat] : Number(s, b) = v[Len(s)]
  BY NumberDef
<1>. QED
  BY <1>1

\* The number of no digits.
LEMMA NumberEmpty ==
    ASSUME NEW b \in Nat
    PROVE  Number(<<>>, b) = 0
<1>1. <<>> \in Seq(Nat) /\ Len(<<>>) = 0
  OBVIOUS
<1>2. PICK v \in [0 .. Len(<<>>) -> Nat] : v[0] = 0 /\ Number(<<>>, b) = v[Len(<<>>)]
  BY <1>1, NumberDef
<1>. QED
  BY <1>1, <1>2

\* One digit more.
LEMMA NumberAppend ==
    ASSUME NEW b \in Nat, NEW s \in Seq(Nat), NEW d \in Nat
    PROVE  Number(Append(s, d), b) = b * Number(s, b) + d
<1>. DEFINE t == Append(s, d)
<1>1. /\ t \in Seq(Nat) /\ Len(t) = Len(s) + 1 /\ t[Len(s) + 1] = d
      /\ \A j \in 1 .. Len(s) : t[j] = s[j]
      /\ Len(s) \in Nat
  BY AppendProperties
<1>. HIDE DEF t
<1>2. PICK v \in [0 .. Len(t) -> Nat] :
               /\ v[0] = 0
               /\ \A j \in 1 .. Len(t) : v[j] = b * v[j - 1] + t[j]
               /\ Number(t, b) = v[Len(t)]
  BY <1>1, NumberDef
<1>3. \A j \in 1 .. Len(s) : v[j] = b * v[j - 1] + s[j]
  BY <1>1, <1>2
<1>4. Number(s, b) = v[Len(s)]
  BY <1>2, <1>3, NumberOf
<1>5. v[Len(s) + 1] = b * v[Len(s)] + d
  <2>1. Len(t) \in 1 .. Len(t) /\ Len(t) - 1 = Len(s)
    BY <1>1
  <2>2. v[Len(t)] = b * v[Len(t) - 1] + t[Len(t)]
    BY <1>2, <2>1
  <2>. QED
    BY <1>1, <2>1, <2>2
<1>. QED
  BY <1>1, <1>2, <1>4, <1>5 DEF t

\* Zeros in front of a number.
LEMMA NumberZeros ==
    ASSUME NEW b \in Nat, NEW s \in Seq(Nat), NEW n \in Nat
    PROVE  Number(Zeros(n) \o s, b) = Number(s, b)
<1>. DEFINE z == Zeros(n)
            t == z \o s
<1>1. z \in Seq(Nat) /\ Len(z) = n /\ \A j \in 1 .. n : z[j] = 0
  BY DEF Zeros
<1>. HIDE DEF z
<1>2. /\ t \in Seq(Nat) /\ Len(t) = n + Len(s)
      /\ \A j \in 1 .. n + Len(s) : t[j] = IF j <= n THEN z[j] ELSE s[j - n]
  BY <1>1, ConcatProperties
<1>. HIDE DEF t
<1>3. PICK v \in [0 .. Len(s) -> Nat] :
               /\ v[0] = 0
               /\ \A j \in 1 .. Len(s) : v[j] = b * v[j - 1] + s[j]
               /\ Number(s, b) = v[Len(s)]
  BY NumberDef
<1>. DEFINE u == [j \in 0 .. n + Len(s) |-> IF j <= n THEN 0 ELSE v[j - n]]
<1>4. Len(s) \in Nat /\ b * 0 = 0
  OBVIOUS
<1>5. u[0] = 0
  BY <1>4
<1>6. ASSUME NEW j \in 1 .. Len(t) PROVE u[j] = b * u[j - 1] + t[j]
  <2>1. CASE j <= n
    <3>1. u[j] = 0 /\ u[j - 1] = 0 /\ t[j] = 0
      BY <1>1, <1>2, <1>4, <2>1
    <3>. QED
      BY <1>4, <3>1
  <2>2. CASE ~(j <= n)
    <3>. DEFINE m == j - n
    <3>1. m \in 1 .. Len(s) /\ t[j] = s[m]
      BY <1>2, <1>4, <2>2
    <3>2. u[j] = v[m]
      BY <1>2, <1>4, <2>2
    <3>3. u[j - 1] = v[m - 1]
      <4>1. CASE m = 1
        BY <1>2, <1>3, <1>4, <2>2, <4>1
      <4>2. CASE m # 1
        BY <1>2, <1>4, <2>2, <3>1, <4>2
      <4>. QED
        BY <4>1, <4>2
    <3>. HIDE DEF m, u
    <3>. QED
      BY <1>3, <3>1, <3>2, <3>3
  <2>. QED
    BY <2>1, <2>2
<1>7. u[Len(t)] = v[Len(s)]
  BY <1>2, <1>3, <1>4
<1>. HIDE DEF u
<1>8. Number(t, b) = u[Len(t)]
  BY <1>2, <1>5, <1>6, NumberOf
<1>. QED
  BY <1>3, <1>7, <1>8 DEF t, z

\* Division by the base makes a number less.
LEMMA Less ==
    ASSUME NEW b \in Nat, b > 1, NEW y \in Nat, y # 0
    PROVE  /\ y \div b \in Nat /\ y \div b < y /\ y % b \in Figures(b)
           /\ y = (y % b) + b * (y \div b)
<1>. DEFINE q == y \div b
            r == y % b
<1>1. q \in Nat /\ r \in Nat /\ r < b /\ y = r + b * q
  BY Division
<1>. HIDE DEF q, r
<1>2. ASSUME q >= y PROVE FALSE
  <2>1. b * q >= 2 * q
    BY <1>1
  <2>. QED
    BY <1>1, <1>2, <2>1
<1>3. q < y /\ r \in Figures(b)
  BY <1>1, <1>2 DEF Figures
<1>. QED
  BY <1>1, <1>3 DEF q, r

\* The recursion of Digits.
LEMMA DigitsDef ==
    ASSUME NEW b \in Nat, b > 1, NEW x \in Nat
    PROVE  \E d \in [0 .. x -> Seq(Figures(b))] :
               /\ d[0] = <<>>
               /\ \A y \in 1 .. x : d[y] = Append(d[y \div b], y % b)
               /\ Digits(x, b) = d[x]
<1>. DEFINE V == Seq(Figures(b))
            F(p) == [y \in 0 .. x |-> IF y = 0 THEN <<>> ELSE Append(p[y \div b], y % b)]
            d == CHOOSE q : q = F(q)
            Pre == [y \in 1 .. x |-> y \div b]
            G == [z \in (1 .. x) \X V |-> Append(z[2], z[1] % b)]
<1>1. ASSUME NEW y \in 1 .. x
      PROVE  y \div b \in Nat /\ y \div b < y /\ y % b \in Figures(b)
  <2>1. y \in Nat /\ y # 0
    OBVIOUS
  <2>. QED
    BY <2>1, Less
<1>2. \A y \in 1 .. x, s \in V : Append(s, y % b) \in V
  BY <1>1, AppendProperties
<1>3. Pre \in [1 .. x -> Nat] /\ \A y \in 1 .. x : Pre[y] = y \div b /\ Pre[y] < y
  BY <1>1
<1>4. G \in [(1 .. x) \X V -> V] /\ \A y \in 1 .. x, s \in V : G[<<y, s>>] = Append(s, y % b)
  <2>. HIDE DEF V
  <2>. QED
    BY <1>2
<1>5. <<>> \in V
  OBVIOUS
<1>6. PICK f \in [0 .. x -> V] : Solves(f, x, <<>>, Pre, G)
  <2>. HIDE DEF G, V, Pre
  <2>. QED
    BY <1>3, <1>4, <1>5, Solution
<1>7. f = F(f)
  <2>. HIDE DEF G, V, Pre
  <2>1. \A y \in 1 .. x : y \div b \in 0 .. x /\ f[y \div b] \in V
    BY <1>1
  <2>2. f[0] = <<>> /\ \A y \in 1 .. x : f[y] = G[<<y, f[y \div b]>>]
    BY <1>3, <1>6 DEF Solves
  <2>3. \A y \in 1 .. x : f[y] = Append(f[y \div b], y % b)
    BY <1>4, <2>1, <2>2
  <2>4. \A y \in 0 .. x : y # 0 => y \in 1 .. x
    OBVIOUS
  <2>5. \A y \in 0 .. x : f[y] = IF y = 0 THEN <<>> ELSE Append(f[y \div b], y % b)
    BY <2>2, <2>3, <2>4, Zenon
  <2>. QED
    BY <1>6, <2>5, Zenon
<1>8. d = F(d)
  BY <1>7
<1>. HIDE DEF d
<1>9. d[0] = <<>> /\ \A y \in 1 .. x : d[y] = Append(d[y \div b], y % b)
  <2>1. \A y \in 0 .. x : d[y] = IF y = 0 THEN <<>> ELSE Append(d[y \div b], y % b)
    BY <1>8
  <2>2. 0 \in 0 .. x /\ \A y \in 1 .. x : y \in 0 .. x /\ y # 0
    OBVIOUS
  <2>. QED
    BY <2>1, <2>2, Zenon
<1>10. d \in [0 .. x -> V]
  <2>. DEFINE W == {d[y] : y \in 0 .. x}
  <2>1. d = [y \in 0 .. x |-> d[y]]
    BY <1>8
  <2>2. d \in [0 .. x -> W]
    BY <2>1, FunctionIn
  <2>3. ASSUME NEW y \in 1 .. x, d[Pre[y]] \in V PROVE d[y] \in V
    <3>. HIDE DEF V, Pre
    <3>1. Pre[y] = y \div b /\ d[y] = Append(d[y \div b], y % b)
      BY <1>3, <1>9
    <3>2. d[y \div b] \in V
      BY <2>3, <3>1
    <3>. QED
      BY <1>2, <3>1, <3>2
  <2>. HIDE DEF W, V, Pre
  <2>. QED
    BY <1>3, <1>5, <1>9, <2>2, <2>3, SolutionType
<1>11. Digits(x, b) = d[x]
  BY DEF Digits, d
<1>. QED
  BY <1>9, <1>10, <1>11

\* Any function that obeys it gives the digits.
LEMMA DigitsOf ==
    ASSUME NEW b \in Nat, b > 1, NEW x \in Nat, NEW u, u[0] = <<>>,
           \A y \in 1 .. x : u[y] = Append(u[y \div b], y % b)
    PROVE  Digits(x, b) = u[x]
<1>1. PICK d \in [0 .. x -> Seq(Figures(b))] :
               /\ d[0] = <<>>
               /\ \A y \in 1 .. x : d[y] = Append(d[y \div b], y % b)
               /\ Digits(x, b) = d[x]
  BY DigitsDef
<1>. DEFINE S == {y \in 0 .. x : u[y] = d[y]}
<1>2. ASSUME NEW y \in 0 .. x, \A z \in 0 .. y - 1 : z \in S PROVE y \in S
  <2>1. CASE y = 0
    BY <1>1, <2>1
  <2>2. CASE y # 0
    <3>. y \in Nat
      OBVIOUS
    <3>1. y \in 1 .. x /\ y \div b \in 0 .. y - 1
      <4>1. y \div b \in Nat /\ y \div b < y
        BY <2>2, Less
      <4>. QED
        BY <2>2, <4>1
    <3>2. u[y \div b] = d[y \div b]
      BY <1>2, <3>1
    <3>3. u[y] = d[y]
      BY <1>1, <3>1, <3>2
    <3>. QED
      BY <3>3
  <2>. QED
    BY <2>1, <2>2
<1>. HIDE DEF S
<1>3. 0 .. x \subseteq S
  BY <1>2, StrongInduction
<1>4. x \in S
  BY <1>3
<1>. QED
  BY <1>1, <1>4 DEF S

\* The digits of a number are digits of its base.
LEMMA DigitsSeq ==
    ASSUME NEW b \in Nat, b > 1, NEW x \in Nat
    PROVE  Digits(x, b) \in Seq(Figures(b))
<1>1. PICK d \in [0 .. x -> Seq(Figures(b))] : Digits(x, b) = d[x]
  BY DigitsDef
<1>. QED
  BY <1>1

\* Zero has no digits.
LEMMA DigitsZero == ASSUME NEW b \in Nat, b > 1 PROVE Digits(0, b) = <<>>
<1>1. PICK d \in [0 .. 0 -> Seq(Figures(b))] : d[0] = <<>> /\ Digits(0, b) = d[0]
  BY DigitsDef
<1>. QED
  BY <1>1

\* The last digit, and the others.
LEMMA DigitsStep ==
    ASSUME NEW b \in Nat, b > 1, NEW x \in Nat, x # 0
    PROVE  Digits(x, b) = Append(Digits(x \div b, b), x % b)
<1>1. PICK d \in [0 .. x -> Seq(Figures(b))] :
               /\ d[0] = <<>>
               /\ \A y \in 1 .. x : d[y] = Append(d[y \div b], y % b)
               /\ Digits(x, b) = d[x]
  BY DigitsDef
<1>2. x \div b \in Nat /\ x \div b < x /\ x \in 1 .. x
  BY Less
<1>3. \A y \in 1 .. x \div b : y \in 1 .. x
  BY <1>2
<1>4. Digits(x \div b, b) = d[x \div b]
  BY <1>1, <1>2, <1>3, DigitsOf
<1>. QED
  BY <1>1, <1>2, <1>4

\* BN_bn2bin and back.
LEMMA NumberOfDigits ==
    ASSUME NEW b \in Nat, b > 1, NEW x \in Nat
    PROVE  Number(Digits(x, b), b) = x
<1>. DEFINE S == {y \in 0 .. x : Number(Digits(y, b), b) = y}
<1>1. ASSUME NEW y \in 0 .. x, \A z \in 0 .. y - 1 : z \in S PROVE y \in S
  <2>1. CASE y = 0
    BY <2>1, DigitsZero, NumberEmpty
  <2>2. CASE y # 0
    <3>. DEFINE q == y \div b
                r == y % b
    <3>. y \in Nat
      OBVIOUS
    <3>0. q \in Nat /\ q < y /\ r \in Figures(b) /\ y = r + b * q
      BY <2>2, Less
    <3>2. Digits(y, b) = Append(Digits(q, b), r)
      BY <2>2, DigitsStep
    <3>. HIDE DEF q, r
    <3>1. q \in 0 .. y - 1 /\ r \in Nat
      BY <3>0 DEF Figures
    <3>3. Number(Digits(q, b), b) = q
      BY <1>1, <3>1
    <3>4. Digits(q, b) \in Seq(Nat)
      <4>1. Digits(q, b) \in Seq(Figures(b)) /\ Figures(b) \subseteq Nat
        BY <3>0, DigitsSeq DEF Figures
      <4>. QED
        BY <4>1, SeqMonotonic
    <3>5. Number(Digits(y, b), b) = b * q + r
      BY <3>1, <3>2, <3>3, <3>4, NumberAppend
    <3>. QED
      BY <3>0, <3>5 DEF Figures
  <2>. QED
    BY <2>1, <2>2
<1>. HIDE DEF S
<1>2. 0 .. x \subseteq S
  BY <1>1, StrongInduction
<1>3. x \in S
  BY <1>2
<1>. QED
  BY <1>3 DEF S

\* The number of zeros a sequence begins with.
LEMMA Leading ==
    ASSUME NEW s \in Seq(Nat)
    PROVE  /\ LeadingZeros(s) \in 0 .. Len(s)
           /\ \A j \in 1 .. LeadingZeros(s) : s[j] = 0
           /\ LeadingZeros(s) < Len(s) => s[LeadingZeros(s) + 1] # 0
<1>. DEFINE P(n) == (\A j \in 1 .. n : s[j] = 0) /\ (n < Len(s) => s[n + 1] # 0)
            T == {n \in Nat : n < Len(s) => s[n + 1] # 0}
<1>1. Len(s) \in Nat /\ Len(s) \in T
  OBVIOUS
<1>2. PICK x \in T : \A y \in T : x <= y
  <2>1. T \in SUBSET Nat /\ T # {}
    BY <1>1
  <2>. HIDE DEF T
  <2>. QED
    BY <2>1, Least
<1>3. x \in 0 .. Len(s) /\ (x < Len(s) => s[x + 1] # 0)
  BY <1>1, <1>2
<1>4. ASSUME NEW j \in 1 .. x PROVE s[j] = 0
  <2>1. j - 1 \in Nat /\ j - 1 < x /\ (j - 1) + 1 = j
    BY <1>3
  <2>2. j - 1 \notin T
    BY <1>2, <1>3, <2>1
  <2>. QED
    BY <2>1, <2>2
<1>5. \E n \in 0 .. Len(s) : P(n)
  BY <1>3, <1>4
<1>6. LeadingZeros(s) = CHOOSE n \in 0 .. Len(s) : P(n)
  BY DEF LeadingZeros
<1>. HIDE DEF P
<1>7. LeadingZeros(s) \in 0 .. Len(s) /\ P(LeadingZeros(s))
  BY <1>5, <1>6
<1>. QED
  BY <1>7 DEF P

\* The count is the only one of its kind.
LEMMA LeadingIs ==
    ASSUME NEW s \in Seq(Nat), NEW n \in 0 .. Len(s), \A j \in 1 .. n : s[j] = 0,
           n < Len(s) => s[n + 1] # 0
    PROVE  LeadingZeros(s) = n
<1>. DEFINE z == LeadingZeros(s)
<1>1. /\ z \in 0 .. Len(s) /\ Len(s) \in Nat
      /\ \A j \in 1 .. z : s[j] = 0
      /\ z < Len(s) => s[z + 1] # 0
  BY Leading
<1>. HIDE DEF z
<1>2. z = n
  <2>1. ASSUME z < n PROVE FALSE
    <3>1. z + 1 \in 1 .. n /\ z < Len(s)
      BY <1>1, <2>1
    <3>. QED
      BY <1>1, <3>1
  <2>2. ASSUME n < z PROVE FALSE
    <3>1. n + 1 \in 1 .. z /\ n < Len(s)
      BY <1>1, <2>2
    <3>. QED
      BY <1>1, <3>1
  <2>. QED
    BY <1>1, <2>1, <2>2
<1>. QED
  BY <1>2 DEF z

\* The digits of a number, of those it is written with, are those from the first that is
\* not zero.
LEMMA DigitsOfNumber ==
    ASSUME NEW b \in Nat, b > 1, NEW s \in Seq(Figures(b))
    PROVE  Digits(Number(s, b), b) = SubSeq(s, LeadingZeros(s) + 1, Len(s))
<1>. DEFINE z == LeadingZeros(s)
<1>1. s \in Seq(Nat) /\ Len(s) \in Nat /\ \A j \in 1 .. Len(s) : s[j] \in Figures(b) /\ s[j] \in Nat
  <2>1. Figures(b) \subseteq Nat
    BY DEF Figures
  <2>. QED
    BY <2>1
<1>2. /\ z \in 0 .. Len(s)
      /\ \A j \in 1 .. z : s[j] = 0
      /\ z < Len(s) => s[z + 1] # 0
  BY <1>1, Leading
<1>. HIDE DEF z
<1>3. PICK v \in [0 .. Len(s) -> Nat] :
               /\ v[0] = 0
               /\ \A j \in 1 .. Len(s) : v[j] = b * v[j - 1] + s[j]
               /\ Number(s, b) = v[Len(s)]
  BY <1>1, NumberDef
<1>. DEFINE S == {j \in 0 .. Len(s) : /\ j <= z => v[j] = 0
                                      /\ j > z => v[j] > 0
                                      /\ Digits(v[j], b) = SubSeq(s, z + 1, j)}
<1>4. b * 0 = 0
  OBVIOUS
<1>5. \A j \in 0 .. z : SubSeq(s, z + 1, j) = <<>>
  <2>. SUFFICES ASSUME NEW j \in 0 .. z PROVE SubSeq(s, z + 1, j) = <<>>
    OBVIOUS
  <2>1. j \in Int /\ z + 1 \in Int /\ j < z + 1
    BY <1>2
  <2>. QED
    BY <2>1
<1>10. Digits(0, b) = <<>>
  BY DigitsZero
<1>6. 0 \in S
  <2>1. 0 \in 0 .. z /\ 0 \in 0 .. Len(s) /\ 0 <= z /\ ~(0 > z)
    BY <1>1, <1>2
  <2>2. Digits(v[0], b) = SubSeq(s, z + 1, 0)
    BY <1>3, <1>5, <1>10, <2>1
  <2>. QED
    BY <1>3, <2>1, <2>2
<1>7. ASSUME NEW j \in 1 .. Len(s), j - 1 \in S PROVE j \in S
  <2>. DEFINE q == v[j - 1]
              r == s[j]
  <2>1. /\ j - 1 \in 0 .. Len(s) /\ q \in Nat /\ r \in Figures(b) /\ r \in Nat /\ v[j] = b * q + r
        /\ j - 1 <= z => q = 0
        /\ j - 1 > z => q > 0
        /\ Digits(q, b) = SubSeq(s, z + 1, j - 1)
    BY <1>1, <1>3, <1>7
  <2>2. CASE j <= z
    <3>1. r = 0 /\ q = 0
      BY <1>2, <2>1, <2>2
    <3>2. v[j] = 0
      BY <1>4, <2>1, <3>1
    <3>3. Digits(v[j], b) = SubSeq(s, z + 1, j)
      <4>1. j \in 0 .. z
        BY <1>2, <2>2
      <4>2. SubSeq(s, z + 1, j) = <<>>
        BY <1>5, <4>1
      <4>. QED
        BY <1>10, <3>2, <4>2
    <3>. QED
      BY <1>2, <2>2, <3>2, <3>3
  <2>3. CASE j > z
    <3>1. v[j] \in Nat /\ v[j] # 0
      <4>1. CASE j = z + 1
        <5>1. r # 0
          BY <1>2, <4>1
        <5>2. b * q \in Nat
          BY <2>1
        <5>. HIDE DEF q, r
        <5>. QED
          BY <2>1, <5>1, <5>2
      <4>2. CASE j # z + 1
        <5>1. q > 0
          BY <1>2, <2>1, <2>3, <4>2
        <5>. HIDE DEF q, r
        <5>2. b * q \in Nat /\ b * q # 0
          BY <2>1, <5>1
        <5>. QED
          BY <2>1, <5>2, SMTT(60)
      <4>. QED
        BY <4>1, <4>2
    <3>2. v[j] \div b = q /\ v[j] % b = r
      <4>. HIDE DEF q, r
      <4>1. (b * q + r) \div b = q /\ (b * q + r) % b = r
        BY <2>1, Quotient
      <4>. QED
        BY <2>1, <4>1
    <3>3. Digits(v[j], b) = Append(SubSeq(s, z + 1, j - 1), s[j])
      <4>1. Digits(v[j], b) = Append(Digits(q, b), r)
        BY <3>1, <3>2, DigitsStep
      <4>. QED
        BY <2>1, <4>1
    <3>4. Digits(v[j], b) = SubSeq(s, z + 1, j)
      <4>1. z + 1 \in 1 .. Len(s) + 1 /\ j \in z + 1 .. Len(s)
        BY <1>2, <2>3
      <4>2. SubSeq(s, z + 1, j) = Append(SubSeq(s, z + 1, j - 1), s[j])
        BY <1>1, <4>1, SubSeqAppend
      <4>. QED
        BY <3>3, <4>2
    <3>. QED
      BY <1>2, <2>3, <3>1, <3>4
  <2>. QED
    BY <1>2, <2>2, <2>3
<1>. HIDE DEF S
<1>8. 0 .. Len(s) \subseteq S
  BY <1>1, <1>6, <1>7, BoundedInduction
<1>9. Len(s) \in S
  BY <1>1, <1>8
<1>. QED
  BY <1>3, <1>9 DEF S, z

\* The first of them is not zero.
LEMMA DigitsFirst ==
    ASSUME NEW b \in Nat, b > 1, NEW x \in Nat, x # 0
    PROVE  Digits(x, b) # <<>> /\ Digits(x, b)[1] # 0
<1>. DEFINE d == Digits(x, b)
<1>1. d \in Seq(Figures(b)) /\ d \in Seq(Nat) /\ Len(d) \in Nat
  <2>1. d \in Seq(Figures(b))
    BY DigitsSeq
  <2>2. Figures(b) \subseteq Nat
    BY DEF Figures
  <2>. HIDE DEF d
  <2>. QED
    BY <2>1, <2>2
<1>2. Number(d, b) = x
  BY NumberOfDigits
<1>3. Digits(Number(d, b), b) = SubSeq(d, LeadingZeros(d) + 1, Len(d))
  <2>. HIDE DEF d
  <2>. QED
    BY <1>1, DigitsOfNumber
<1>4. d = SubSeq(d, LeadingZeros(d) + 1, Len(d))
  BY <1>2, <1>3
<1>5. d # <<>>
  <2>1. ASSUME d = <<>> PROVE FALSE
    <3>1. Number(d, b) = 0
      BY <2>1, NumberEmpty
    <3>. QED
      BY <1>2, <3>1
  <2>. QED
    BY <2>1
<1>. DEFINE z == LeadingZeros(d)
<1>. HIDE DEF d
<1>6. z \in 0 .. Len(d) /\ (z < Len(d) => d[z + 1] # 0)
  BY <1>1, Leading
<1>. HIDE DEF z
<1>7. z = 0
  <2>1. /\ \A j \in z + 1 .. Len(d) : d[j] \in Nat
    BY <1>1, <1>6
  <2>2. Len(SubSeq(d, z + 1, Len(d))) = IF z + 1 <= Len(d) THEN Len(d) - (z + 1) + 1 ELSE 0
    BY <1>1, <1>6, <2>1, SubSeqProperties
  <2>3. Len(d) = IF z + 1 <= Len(d) THEN Len(d) - (z + 1) + 1 ELSE 0
    BY <1>4, <2>2 DEF z
  <2>4. Len(d) # 0
    BY <1>1, <1>5
  <2>. QED
    BY <1>1, <1>6, <2>3, <2>4
<1>8. d[1] # 0
  <2>1. Len(d) # 0
    BY <1>1, <1>5
  <2>. QED
    BY <1>1, <1>6, <1>7, <2>1
<1>. QED
  BY <1>5, <1>8 DEF d

\* A number, written down with as many digits as before, is written as before.
LEMMA Padded ==
    ASSUME NEW b \in Nat, b > 1, NEW s \in Seq(Figures(b))
    PROVE  LET d == Digits(Number(s, b), b)
           IN  /\ Len(d) = Len(s) - LeadingZeros(s)
               /\ Zeros(LeadingZeros(s)) \o d = s
<1>. DEFINE z == LeadingZeros(s)
            d == Digits(Number(s, b), b)
<1>1. s \in Seq(Nat) /\ Len(s) \in Nat
  <2>1. Figures(b) \subseteq Nat
    BY DEF Figures
  <2>. QED
    BY <2>1
<1>2. z \in 0 .. Len(s) /\ \A j \in 1 .. z : s[j] = 0
  BY <1>1, Leading
<1>3. d = SubSeq(s, z + 1, Len(s))
  BY DigitsOfNumber
<1>. HIDE DEF d, z
<1>4. s = SubSeq(s, 1, z) \o d
  BY <1>2, <1>3, Halves
<1>5. SubSeq(s, 1, z) = Zeros(z)
  <2>. DEFINE a == SubSeq(s, 1, z)
              o == Zeros(z)
  <2>1. 1 \in 1 .. Len(s) + 1 /\ z \in 1 - 1 .. Len(s) /\ z + 1 - 1 = z
    BY <1>1, <1>2
  <2>2. a \in Seq(Nat) /\ Len(a) = z + 1 - 1 /\ \A j \in 1 .. z + 1 - 1 : a[j] = s[1 + j - 1]
    BY <1>1, <2>1, Piece
  <2>3. o \in Seq(Nat) /\ Len(o) = z /\ \A j \in 1 .. z : o[j] = 0
    BY <1>2 DEF Zeros
  <2>. HIDE DEF a, o
  <2>4. \A j \in 1 .. z : a[j] = o[j]
    BY <1>2, <2>1, <2>2, <2>3
  <2>5. a = o
    BY <2>1, <2>2, <2>3, <2>4, SeqEqual
  <2>. QED
    BY <2>5 DEF a, o
<1>6. Len(d) = Len(s) - z
  <2>1. z + 1 \in 1 .. Len(s) + 1 /\ Len(s) \in (z + 1) - 1 .. Len(s)
        /\ Len(s) + 1 - (z + 1) = Len(s) - z
    BY <1>1, <1>2
  <2>. QED
    BY <1>1, <1>3, <2>1, Piece
<1>. QED
  BY <1>4, <1>5, <1>6 DEF d, z

\* Digits with zeros in front of them.
LEMMA ZerosFirst ==
    ASSUME NEW b \in Nat, b > 1, NEW x \in Nat, NEW n \in Nat
    PROVE  /\ Zeros(n) \o Digits(x, b) \in Seq(Figures(b))
           /\ WithoutOnes(Zeros(n) \o Digits(x, b)) = Digits(x, b)
<1>. DEFINE d == Digits(x, b)
            o == Zeros(n)
            s == o \o d
<1>1. d \in Seq(Figures(b)) /\ Figures(b) \subseteq Nat /\ 0 \in Figures(b)
  BY DigitsSeq DEF Figures
<1>2. d # <<>> => d[1] # 0
  <2>1. CASE x = 0
    BY <2>1, DigitsZero
  <2>2. CASE x # 0
    BY <2>2, DigitsFirst
  <2>. QED
    BY <2>1, <2>2
<1>. HIDE DEF d
<1>3. o \in Seq(Figures(b)) /\ Len(o) = n /\ \A j \in 1 .. n : o[j] = 0
  BY <1>1 DEF Zeros
<1>. HIDE DEF o
<1>4. /\ s \in Seq(Figures(b)) /\ Len(s) = n + Len(d) /\ Len(d) \in Nat
      /\ SubSeq(s, n + 1, Len(s)) = d
  <2>1. /\ o \o d \in Seq(Figures(b)) /\ Len(o \o d) = Len(o) + Len(d)
        /\ SubSeq(o \o d, Len(o) + 1, Len(o \o d)) = d
    <3>1. o \in Seq(Figures(b)) /\ d \in Seq(Figures(b))
      BY <1>1, <1>3
    <3>. HIDE DEF s
    <3>. QED
      BY <3>1, Parts
  <2>. QED
    BY <1>1, <1>3, <2>1
<1>5. \A j \in 1 .. n : s[j] = 0
  BY <1>1, <1>3, ConcatProperties
<1>6. n < Len(s) => s[n + 1] # 0
  <2>. SUFFICES ASSUME n < Len(s) PROVE s[n + 1] # 0
    OBVIOUS
  <2>1. d # <<>> /\ 1 \in 1 .. Len(d)
    BY <1>4
  <2>2. s[n + 1] = d[1]
    BY <1>1, <1>3, <2>1, ConcatProperties
  <2>. QED
    BY <1>2, <2>1, <2>2
<1>. HIDE DEF s
<1>7. LeadingZeros(s) = n
  <2>1. s \in Seq(Nat) /\ n \in 0 .. Len(s)
    BY <1>1, <1>4
  <2>. QED
    BY <1>5, <1>6, <2>1, LeadingIs
<1>8. WithoutOnes(s) = d
  BY <1>4, <1>7 DEF WithoutOnes
<1>. QED
  BY <1>4, <1>8 DEF s, o, d

------------------------------------------------------------------------------
(* kyk_base58.c *)

\* The two bases numbers are written in.
LEMMA Bases == /\ Base \in Nat /\ Base > 1 /\ Figures(Base) = Byte
               /\ Alphabet \in Nat /\ Alphabet > 1
  BY ByteFigures, AddressAssumption DEF AddressAssumption

\* What kyk_base58 writes, raw_decode_base58 reads.
LEMMA Base58Read ==
    ASSUME NEW bytes \in Seq(Byte)
    PROVE  /\ kyk_base58(bytes) \in Seq(Nat)
           /\ raw_decode_base58(kyk_base58(bytes)) = [ok |-> TRUE, bn |-> Number(bytes, Base)]
           /\ WithoutOnes(kyk_base58(bytes)) = Digits(Number(bytes, Base), Alphabet)
<1>. DEFINE z == LeadingZeros(bytes)
            x == Number(bytes, Base)
            a == Zeros(z) \o Digits(x, Alphabet)
<1>1. bytes \in Seq(Nat)
  BY Bases DEF Byte
<1>2. z \in Nat /\ x \in Nat
  BY <1>1, Bases, Leading, NumberNat
<1>. HIDE DEF z, x
<1>3. a \in Seq(Figures(Alphabet)) /\ WithoutOnes(a) = Digits(x, Alphabet)
  BY <1>2, Bases, ZerosFirst
<1>4. Number(a, Alphabet) = x
  <2>1. Digits(x, Alphabet) \in Seq(Nat)
    <3>1. Digits(x, Alphabet) \in Seq(Figures(Alphabet)) /\ Figures(Alphabet) \subseteq Nat
      BY <1>2, Bases, DigitsSeq DEF Figures
    <3>. QED
      BY <3>1
  <2>2. Number(a, Alphabet) = Number(Digits(x, Alphabet), Alphabet)
    BY <1>2, <2>1, Bases, NumberZeros
  <2>. QED
    BY <1>2, <2>2, Bases, NumberOfDigits
<1>. HIDE DEF a
<1>5. {j \in DOMAIN a : a[j] >= Alphabet} = {}
  <2>1. \A j \in DOMAIN a : a[j] \in Figures(Alphabet)
    BY <1>3
  <2>2. \A y \in Figures(Alphabet) : ~(y >= Alphabet)
    BY Bases DEF Figures
  <2>. QED
    BY <2>1, <2>2
<1>6. raw_decode_base58(a) = [ok |-> TRUE, bn |-> x]
  BY <1>4, <1>5 DEF raw_decode_base58
<1>7. kyk_base58(bytes) = a
  BY DEF kyk_base58, a, z, x
<1>8. a \in Seq(Nat)
  <2>1. Figures(Alphabet) \subseteq Nat
    BY Bases DEF Figures
  <2>. QED
    BY <1>3, <2>1
<1>. QED
  BY <1>3, <1>6, <1>7, <1>8 DEF x

\* The sizes of the parts of an address.
LEMMA Sizes == PkhSize \in Nat /\ CheckSize \in Nat /\ AddressSize \in Nat
               /\ AddressSize = 1 + PkhSize + CheckSize
  BY Powers, AddressAssumption DEF AddressAssumption, Byte, AddressSize

\* The three parts of an address's bytes.
LEMMA AddressParts ==
    ASSUME NEW s \in Seq(Byte), Len(s) = AddressSize
    PROVE  LET h == SubSeq(s, 2, 1 + PkhSize)
           IN  /\ s[1] \in Byte /\ h \in Pkhs
               /\ SubSeq(s, 1, 1 + PkhSize) = <<s[1]>> \o h
               /\ s = SubSeq(s, 1, 1 + PkhSize) \o SubSeq(s, 2 + PkhSize, AddressSize)
<1>. DEFINE d == SubSeq(s, 1, 1 + PkhSize)
            h == SubSeq(s, 2, 1 + PkhSize)
<1>1. s = d \o SubSeq(s, 2 + PkhSize, AddressSize)
  <2>1. 1 + PkhSize \in 0 .. Len(s) /\ (1 + PkhSize) + 1 = 2 + PkhSize
    BY Sizes
  <2>. QED
    BY <2>1, Halves
<1>2. d \in Seq(Byte) /\ Len(d) = 1 + PkhSize /\ \A j \in 1 .. 1 + PkhSize : d[j] = s[j]
  <2>1. 1 \in 1 .. Len(s) + 1 /\ 1 + PkhSize \in 1 - 1 .. Len(s) /\ (1 + PkhSize) + 1 - 1 = 1 + PkhSize
    BY Sizes
  <2>2. /\ d \in Seq(Byte) /\ Len(d) = (1 + PkhSize) + 1 - 1
        /\ \A j \in 1 .. (1 + PkhSize) + 1 - 1 : d[j] = s[1 + j - 1]
    BY <2>1, Piece
  <2>. QED
    BY <2>1, <2>2
<1>3. h \in Seq(Byte) /\ Len(h) = PkhSize /\ \A j \in 1 .. PkhSize : h[j] = s[j + 1]
  <2>1. 2 \in 1 .. Len(s) + 1 /\ 1 + PkhSize \in 2 - 1 .. Len(s) /\ (1 + PkhSize) + 1 - 2 = PkhSize
    BY Sizes
  <2>2. /\ h \in Seq(Byte) /\ Len(h) = (1 + PkhSize) + 1 - 2
        /\ \A j \in 1 .. (1 + PkhSize) + 1 - 2 : h[j] = s[2 + j - 1]
    BY <2>1, Piece
  <2>. QED
    BY <2>1, <2>2
<1>. HIDE DEF d, h
<1>4. s[1] \in Byte
  BY Sizes
<1>5. h \in Pkhs
  BY <1>3, SeqN DEF Pkhs
<1>6. d = <<s[1]>> \o h
  <2>. DEFINE e == <<s[1]>> \o h
  <2>1. /\ e \in Seq(Byte) /\ Len(e) = 1 + PkhSize
        /\ e[1] = s[1] /\ \A j \in 2 .. 1 + PkhSize : e[j] = h[j - 1]
    BY <1>3, <1>4, Sizes
  <2>. HIDE DEF e
  <2>2. \A j \in 1 .. 1 + PkhSize : d[j] = e[j]
    <3>. SUFFICES ASSUME NEW j \in 1 .. 1 + PkhSize PROVE d[j] = e[j]
      OBVIOUS
    <3>1. CASE j = 1
      BY <1>2, <2>1, <3>1
    <3>2. CASE j # 1
      <4>1. j \in 2 .. 1 + PkhSize /\ j - 1 \in 1 .. PkhSize /\ (j - 1) + 1 = j
        BY <3>2, Sizes
      <4>2. h[j - 1] = s[j]
        BY <1>3, <4>1
      <4>. QED
        BY <1>2, <2>1, <4>1, <4>2
    <3>. QED
      BY <3>1, <3>2
  <2>3. d = e
    BY <1>2, <2>1, <2>2, SeqEqual
  <2>. QED
    BY <2>3 DEF e
<1>. QED
  BY <1>1, <1>4, <1>5, <1>6 DEF d, h

\* Zeros and what is behind them, up to a length.
LEMMA Filling ==
    ASSUME NEW x \in Nat, Len(Digits(x, Base)) <= AddressSize
    PROVE  LET buf == Zeros(AddressSize - Len(Digits(x, Base))) \o Digits(x, Base)
           IN  buf \in Seq(Byte) /\ Len(buf) = AddressSize /\ Number(buf, Base) = x
<1>. DEFINE d == Digits(x, Base)
            n == AddressSize - Len(d)
            o == Zeros(n)
<1>1. d \in Seq(Byte) /\ Len(d) \in Nat /\ Byte \subseteq Nat /\ d \in Seq(Nat) /\ 0 \in Byte
  <2>1. d \in Seq(Byte)
    BY Bases, DigitsSeq
  <2>2. Byte \subseteq Nat /\ 0 \in Byte
    BY Bases DEF Byte
  <2>. HIDE DEF d
  <2>3. Len(d) \in Nat
    BY <2>1
  <2>4. d \in Seq(Nat)
    BY <2>1, <2>2, SeqMonotonic
  <2>. QED
    BY <2>1, <2>2, <2>3, <2>4
<1>2. n \in Nat
  <2>1. Len(d) <= AddressSize
    OBVIOUS
  <2>. HIDE DEF d
  <2>. QED
    BY <1>1, <2>1, Sizes
<1>3. Number(o \o d, Base) = x
  <2>1. Number(d, Base) = x
    BY Bases, NumberOfDigits
  <2>. HIDE DEF d, n
  <2>. QED
    BY <1>1, <1>2, <2>1, Bases, NumberZeros
<1>4. o \in Seq(Byte) /\ Len(o) = n
  <2>. HIDE DEF n
  <2>. QED
    BY <1>1, <1>2 DEF Zeros
<1>. HIDE DEF o
<1>5. o \o d \in Seq(Byte) /\ Len(o \o d) = n + Len(d)
  <2>. HIDE DEF d, n
  <2>1. o \in Seq(Byte) /\ d \in Seq(Byte)
    BY <1>1, <1>4
  <2>2. o \o d \in Seq(Byte) /\ Len(o \o d) = Len(o) + Len(d)
    BY <2>1, Parts
  <2>. QED
    BY <1>4, <2>2
<1>6. n + Len(d) = AddressSize
  <2>. HIDE DEF d
  <2>. QED
    BY <1>1, Sizes
<1>. QED
  BY <1>3, <1>5, <1>6 DEF o

\* pubk_hash_from_address takes only what kyk_base58 writes of some bytes with their
\* checksum, but for the ones in front.
LEMMA AddressTaken ==
    ASSUME NEW a \in Seq(Nat), pubk_hash_from_address(a).result = "good"
    PROVE  LET h == pubk_hash_from_address(a).hash
           IN  /\ h \in Pkhs
               /\ \E v \in Byte :
                      LET bytes == <<v>> \o h
                      IN  WithoutOnes(a) = WithoutOnes(kyk_base58(bytes \o get_checksum(bytes)))
<1>. DEFINE raw == raw_decode_base58(a)
            x == raw.bn
            d == Digits(x, Base)
            buf == Zeros(AddressSize - Len(d)) \o d
            h == SubSeq(buf, 2, 1 + PkhSize)
            bad == {j \in DOMAIN a : a[j] >= Alphabet}
<1>1. /\ ~(~raw.ok \/ Len(d) > AddressSize)
      /\ validate_base58_checksum(buf)
      /\ pubk_hash_from_address(a).hash = h
  BY DEF pubk_hash_from_address
<1>2. x = IF bad = {} THEN Number(a, Alphabet) ELSE 0
  BY DEF raw_decode_base58
<1>. HIDE DEF raw, bad, x
<1>3. x \in Nat
  BY <1>2, Bases, NumberNat
<1>4. buf \in Seq(Byte) /\ Len(buf) = AddressSize /\ Number(buf, Base) = x
  <2>1. Len(d) <= AddressSize
    <3>1. Len(d) \in Nat
      <4>1. d \in Seq(Byte)
        BY <1>3, Bases, DigitsSeq
      <4>. HIDE DEF d
      <4>. QED
        BY <4>1
    <3>. HIDE DEF d
    <3>. QED
      BY <1>1, <3>1, Sizes
  <2>. QED
    BY <1>3, <2>1, Filling
<1>5. d = IF x = 0 THEN <<>> ELSE d
  BY Bases, DigitsZero
<1>6. get_checksum(SubSeq(buf, 1, 1 + PkhSize)) = SubSeq(buf, 2 + PkhSize, AddressSize)
  BY <1>1 DEF validate_base58_checksum
<1>7. bad = {}
  <2>. SUFFICES ASSUME bad # {} PROVE FALSE
    OBVIOUS
  <2>1. d = <<>>
    BY <1>2, <1>5
  <2>2. buf = Zeros(AddressSize)
    <3>1. AddressSize - Len(<<>>) = AddressSize
      BY Sizes
    <3>2. Zeros(AddressSize) \in Seq(Nat)
      BY Sizes DEF Zeros
    <3>3. Zeros(AddressSize) \o <<>> = Zeros(AddressSize)
      BY <3>2
    <3>. QED
      BY <2>1, <3>1, <3>3
  <2>. HIDE DEF buf
  <2>. DEFINE u == SubSeq(buf, 1, 1 + PkhSize)
              w == SubSeq(buf, 2 + PkhSize, AddressSize)
              y == Zeros(1 + PkhSize)
              t == Zeros(CheckSize)
  <2>3. \A j \in 1 .. AddressSize : buf[j] = 0
    BY <2>2 DEF Zeros
  <2>4. u \in Seq(Byte) /\ Len(u) = 1 + PkhSize /\ \A j \in 1 .. 1 + PkhSize : u[j] = 0
    <3>1. 1 \in 1 .. Len(buf) + 1 /\ 1 + PkhSize \in 1 - 1 .. Len(buf)
          /\ (1 + PkhSize) + 1 - 1 = 1 + PkhSize
      BY <1>4, Sizes
    <3>2. /\ u \in Seq(Byte) /\ Len(u) = (1 + PkhSize) + 1 - 1
          /\ \A j \in 1 .. (1 + PkhSize) + 1 - 1 : u[j] = buf[1 + j - 1]
      BY <1>4, <3>1, Piece
    <3>3. \A j \in 1 .. 1 + PkhSize : 1 + j - 1 \in 1 .. AddressSize
      BY Sizes
    <3>. QED
      BY <2>3, <3>1, <3>2, <3>3
  <2>5. w \in Seq(Byte) /\ Len(w) = CheckSize /\ \A j \in 1 .. CheckSize : w[j] = 0
    <3>1. 2 + PkhSize \in 1 .. Len(buf) + 1 /\ AddressSize \in (2 + PkhSize) - 1 .. Len(buf)
          /\ AddressSize + 1 - (2 + PkhSize) = CheckSize
      BY <1>4, Sizes
    <3>2. /\ w \in Seq(Byte) /\ Len(w) = AddressSize + 1 - (2 + PkhSize)
          /\ \A j \in 1 .. AddressSize + 1 - (2 + PkhSize) : w[j] = buf[(2 + PkhSize) + j - 1]
      BY <1>4, <3>1, Piece, SMTT(60)
    <3>3. \A j \in 1 .. CheckSize : (2 + PkhSize) + j - 1 \in 1 .. AddressSize
      BY Sizes
    <3>. QED
      BY <2>3, <3>1, <3>2, <3>3
  <2>6. y \in Seq(Nat) /\ Len(y) = 1 + PkhSize /\ \A j \in 1 .. 1 + PkhSize : y[j] = 0
    BY Sizes DEF Zeros
  <2>7. t \in Seq(Nat) /\ Len(t) = CheckSize /\ \A j \in 1 .. CheckSize : t[j] = 0
    BY Sizes DEF Zeros
  <2>. HIDE DEF u, w, y, t
  <2>8. u \in Seq(Nat) /\ w \in Seq(Nat)
    BY <2>4, <2>5, Bases DEF Byte
  <2>9. u = y
    BY <2>4, <2>6, <2>8, SeqEqual
  <2>10. w = t
    BY <2>5, <2>7, <2>8, SeqEqual
  <2>. QED
    BY <1>6, <2>9, <2>10, ZerosAssumption DEF u, w, y, t
<1>8. x = Number(a, Alphabet) /\ a \in Seq(Figures(Alphabet))
  <2>1. \A j \in 1 .. Len(a) : a[j] \in Figures(Alphabet)
    BY <1>7, Bases DEF bad, Figures
  <2>. QED
    BY <1>2, <1>7, <2>1
<1>9. WithoutOnes(a) = Digits(x, Alphabet)
  BY <1>8, Bases, DigitsOfNumber DEF WithoutOnes
<1>10. WithoutOnes(kyk_base58(buf)) = Digits(x, Alphabet)
  <2>. HIDE DEF buf
  <2>. QED
    BY <1>4, Base58Read
<1>. HIDE DEF buf
<1>11. /\ buf[1] \in Byte /\ h \in Pkhs
       /\ buf = (<<buf[1]>> \o h) \o get_checksum(<<buf[1]>> \o h)
  BY <1>4, <1>6, AddressParts
<1>. HIDE DEF h
<1>12. WithoutOnes(a)
           = WithoutOnes(kyk_base58((<<buf[1]>> \o h) \o get_checksum(<<buf[1]>> \o h)))
  BY <1>9, <1>10, <1>11
<1>. QED
  BY <1>1, <1>11, <1>12

\* It takes what is made of a hash, as that hash.
LEMMA AddressMade ==
    ASSUME NEW h \in Pkhs
    PROVE  /\ kyk_base58(AddressBytes(h)) \in Seq(Nat)
           /\ pubk_hash_from_address(kyk_base58(AddressBytes(h))) = [result |-> "good", hash |-> h]
<1>. DEFINE d == <<Version>> \o h
            c == get_checksum(d)
            s == d \o c
            a == kyk_base58(s)
<1>1. AddressBytes(h) = s
  BY DEF AddressBytes, set_version_byte, get_addr_checksum, get_checksum, kyk_dgst_hash256
<1>2. h \in Seq(Byte) /\ Len(h) = PkhSize
  BY Sizes, NSeq DEF Pkhs
<1>3. Version \in Byte
  BY Bases DEF Version, Byte
<1>4. <<Version>> \in Seq(Byte) /\ Len(<<Version>>) = 1
  BY <1>3
<1>5. d \in Seq(Byte) /\ Len(d) = 1 + PkhSize /\ SubSeq(d, 2, 1 + PkhSize) = h
  <2>1. /\ <<Version>> \o h \in Seq(Byte) /\ Len(<<Version>> \o h) = Len(<<Version>>) + Len(h)
        /\ SubSeq(<<Version>> \o h, Len(<<Version>>) + 1, Len(<<Version>> \o h)) = h
    BY <1>2, <1>4, Parts
  <2>. QED
    BY <1>2, <1>4, <2>1
<1>6. c \in Seq(Byte) /\ Len(c) = CheckSize
  <2>. DEFINE g == kyk_dgst_hash256(d)
  <2>1. g \in Seq(Byte) /\ Len(g) >= CheckSize
    BY <1>3, HashAssumption DEF HashAssumption
  <2>2. c = SubSeq(g, 1, CheckSize)
    BY DEF get_checksum
  <2>. HIDE DEF c, g
  <2>3. 1 \in 1 .. Len(g) + 1 /\ CheckSize \in 1 - 1 .. Len(g) /\ CheckSize + 1 - 1 = CheckSize
    BY <2>1, Sizes
  <2>. QED
    BY <2>1, <2>2, <2>3, Piece
<1>. HIDE DEF c, d
<1>7. /\ s \in Seq(Byte) /\ Len(s) = AddressSize
      /\ SubSeq(s, 1, 1 + PkhSize) = d /\ SubSeq(s, 2 + PkhSize, AddressSize) = c
  <2>1. /\ d \o c \in Seq(Byte) /\ Len(d \o c) = Len(d) + Len(c)
        /\ SubSeq(d \o c, 1, Len(d)) = d
        /\ SubSeq(d \o c, Len(d) + 1, Len(d \o c)) = c
    <3>1. d \in Seq(Byte) /\ c \in Seq(Byte)
      BY <1>5, <1>6
    <3>. HIDE DEF s
    <3>. QED
      BY <3>1, Parts
  <2>2. Len(d) + Len(c) = AddressSize /\ Len(d) + 1 = 2 + PkhSize
    BY <1>5, <1>6, Sizes
  <2>. QED
    BY <1>5, <2>1, <2>2
<1>. HIDE DEF s
<1>8. a \in Seq(Nat) /\ raw_decode_base58(a) = [ok |-> TRUE, bn |-> Number(s, Base)]
  BY <1>7, Base58Read
<1>9. LET e == Digits(Number(s, Base), Base)
      IN  Len(e) <= AddressSize /\ Zeros(AddressSize - Len(e)) \o e = s
  <2>. DEFINE e == Digits(Number(s, Base), Base)
              z == LeadingZeros(s)
  <2>1. Len(e) = Len(s) - z /\ Zeros(z) \o e = s
    BY <1>7, Bases, Padded
  <2>2. z \in 0 .. Len(s)
    <3>1. s \in Seq(Nat)
      BY <1>7, Bases DEF Byte
    <3>. QED
      BY <3>1, Leading
  <2>. HIDE DEF e, z
  <2>3. Len(e) <= AddressSize /\ AddressSize - Len(e) = z
    BY <1>7, <2>1, <2>2, Sizes
  <2>. QED
    BY <2>1, <2>3 DEF e
<1>10. validate_base58_checksum(s)
  BY <1>7 DEF validate_base58_checksum, c
<1>11. SubSeq(s, 2, 1 + PkhSize) = h
  <2>1. SubSeq(s, 1, 1 + PkhSize) = <<s[1]>> \o SubSeq(s, 2, 1 + PkhSize)
        /\ s[1] \in Byte /\ SubSeq(s, 2, 1 + PkhSize) \in Pkhs
    BY <1>7, AddressParts
  <2>. DEFINE g == SubSeq(s, 2, 1 + PkhSize)
  <2>. HIDE DEF g
  <2>2. g \in Seq(Byte) /\ <<s[1]>> \in Seq(Byte) /\ Len(g) = PkhSize /\ Len(<<s[1]>>) = 1
    <3>1. g \in [1 .. PkhSize -> Byte]
      BY <2>1 DEF Pkhs, g
    <3>2. g \in Seq(Byte) /\ Len(g) = PkhSize
      BY <3>1, Sizes, NSeq
    <3>. QED
      BY <2>1, <3>2
  <2>3. SubSeq(<<s[1]>> \o g, Len(<<s[1]>>) + 1, Len(<<s[1]>> \o g)) = g
        /\ Len(<<s[1]>> \o g) = Len(<<s[1]>>) + Len(g)
    BY <2>2, Parts
  <2>4. d = <<s[1]>> \o g
    BY <1>7, <2>1 DEF g
  <2>5. SubSeq(d, 2, 1 + PkhSize) = g
    BY <2>2, <2>3, <2>4
  <2>. QED
    BY <1>5, <2>5 DEF g
<1>12. pubk_hash_from_address(a) = [result |-> "good", hash |-> h]
  <2>. HIDE DEF a
  <2>. DEFINE e == Digits(Number(s, Base), Base)
  <2>1. ~(Len(e) > AddressSize) /\ Zeros(AddressSize - Len(e)) \o e = s
    <3>1. Len(e) <= AddressSize /\ Zeros(AddressSize - Len(e)) \o e = s
      BY <1>9
    <3>2. Len(e) \in Nat
      <4>1. Number(s, Base) \in Nat
        <5>1. s \in Seq(Nat)
          BY <1>7, Bases DEF Byte
        <5>. QED
          BY <5>1, Bases, NumberNat
      <4>2. e \in Seq(Byte)
        BY <4>1, Bases, DigitsSeq
      <4>. HIDE DEF e
      <4>. QED
        BY <4>2
    <3>. HIDE DEF e
    <3>. QED
      BY <3>1, <3>2, Sizes
  <2>. DEFINE raw == raw_decode_base58(a)
              f == Digits(raw.bn, Base)
              buf == Zeros(AddressSize - Len(f)) \o f
  <2>2. raw.ok /\ f = e
    BY <1>8
  <2>. HIDE DEF e
  <2>3. ~(~raw.ok \/ Len(f) > AddressSize) /\ buf = s
    BY <2>1, <2>2
  <2>4. pubk_hash_from_address(a)
            = IF ~raw.ok \/ Len(f) > AddressSize THEN [result |-> "crash", hash |-> <<>>]
              ELSE IF ~validate_base58_checksum(buf) THEN [result |-> "bad", hash |-> <<>>]
              ELSE [result |-> "good", hash |-> SubSeq(buf, 2, 1 + PkhSize)]
    BY DEF pubk_hash_from_address
  <2>. HIDE DEF raw, f, buf
  <2>5. validate_base58_checksum(buf)
    BY <1>10, <2>3, Zenon
  <2>. QED
    BY <1>11, <2>3, <2>4, <2>5
<1>. QED
  BY <1>1, <1>8, <1>12 DEF a

\* The recursion of Joined.
LEMMA JoinedDef ==
    ASSUME NEW parts \in Seq(Seq(Byte))
    PROVE  /\ Joined(parts) \in [1 .. Len(parts) + 1 -> Seq(Byte)]
           /\ Joined(parts)[Len(parts) + 1] = <<>>
           /\ \A m \in 1 .. Len(parts) : Joined(parts)[m] = parts[m] \o Joined(parts)[m + 1]
<1>. DEFINE N == Len(parts)
            V == Seq(Byte)
            F(p) == [m \in 1 .. N + 1 |-> IF m > N THEN <<>> ELSE parts[m] \o p[m + 1]]
            v == CHOOSE q : q = F(q)
            G == [x \in (1 .. N) \X V |-> parts[N + 1 - x[1]] \o x[2]]
<1>1. N \in Nat /\ <<>> \in V /\ \A j \in 1 .. N : parts[j] \in V
  OBVIOUS
<1>2. \A a, b \in V : a \o b \in V
  OBVIOUS
<1>. HIDE DEF N, V
<1>3. ASSUME NEW n \in 1 .. N, NEW s \in V
      PROVE  parts[N + 1 - n] \o s \in V
  <2>1. N + 1 - n \in 1 .. N
    BY <1>1
  <2>. QED
    BY <1>1, <1>2, <2>1
<1>4. /\ G \in [(1 .. N) \X V -> V]
      /\ \A n \in 1 .. N, s \in V : G[<<n, s>>] = parts[N + 1 - n] \o s
  BY <1>3
<1>5. PICK f \in [0 .. N -> V] : StepSolves(f, N, <<>>, G)
  <2>. HIDE DEF G
  <2>. QED
    BY <1>1, <1>4, StepSolution
<1>. DEFINE g == [m \in 1 .. N + 1 |-> f[N + 1 - m]]
<1>6. g = F(g)
  <2>. HIDE DEF G
  <2>1. ASSUME NEW m \in 1 .. N + 1
        PROVE  g[m] = IF m > N THEN <<>> ELSE parts[m] \o g[m + 1]
    <3>1. CASE m > N
      <4>1. N + 1 - m = 0
        BY <1>1, <3>1
      <4>2. g[m] = f[0]
        BY <4>1
      <4>. QED
        BY <1>5, <3>1, <4>2 DEF StepSolves
    <3>2. CASE ~(m > N)
      <4>. DEFINE n == N + 1 - m
      <4>1. n \in 1 .. N /\ n - 1 \in 0 .. N /\ N + 1 - n = m /\ m + 1 \in 1 .. N + 1
            /\ N + 1 - (m + 1) = n - 1
        BY <1>1, <3>2
      <4>2. g[m] = f[n] /\ g[m + 1] = f[n - 1]
        BY <4>1
      <4>. HIDE DEF n, g
      <4>3. f[n] = parts[N + 1 - n] \o f[n - 1]
        BY <1>4, <1>5, <4>1 DEF StepSolves
      <4>. QED
        BY <3>2, <4>1, <4>2, <4>3
    <3>. QED
      BY <3>1, <3>2
  <2>. QED
    BY <2>1
<1>7. v = F(v)
  <2>. HIDE DEF g
  <2>. QED
    BY <1>6
<1>. HIDE DEF v, g, G
<1>8. v[N + 1] = <<>> /\ \A m \in 1 .. N : v[m] = parts[m] \o v[m + 1]
  <2>1. \A m \in 1 .. N + 1 : v[m] = IF m > N THEN <<>> ELSE parts[m] \o v[m + 1]
    BY <1>7
  <2>2. N + 1 \in 1 .. N + 1 /\ N + 1 > N /\ \A m \in 1 .. N : m \in 1 .. N + 1 /\ ~(m > N)
    BY <1>1
  <2>. QED
    BY <2>1, <2>2, Zenon
<1>9. \A m \in 1 .. N + 1 : v[m] \in V
  <2>. DEFINE S == {n \in 0 .. N : v[N + 1 - n] \in V}
  <2>1. 0 \in S
    BY <1>1, <1>8
  <2>2. ASSUME NEW n \in 1 .. N, n - 1 \in S PROVE n \in S
    <3>1. v[N + 1 - (n - 1)] \in V
      BY <2>2
    <3>2. N + 1 - n \in 1 .. N /\ (N + 1 - n) + 1 = N + 1 - (n - 1)
      BY <1>1
    <3>3. v[N + 1 - n] = parts[N + 1 - n] \o v[N + 1 - (n - 1)]
      BY <1>8, <3>2
    <3>4. v[N + 1 - n] \in V
      BY <1>1, <1>2, <3>1, <3>2, <3>3
    <3>. QED
      BY <3>4
  <2>. HIDE DEF S
  <2>3. 0 .. N \subseteq S
    BY <1>1, <2>1, <2>2, BoundedInduction
  <2>. SUFFICES ASSUME NEW m \in 1 .. N + 1 PROVE v[m] \in V
    OBVIOUS
  <2>4. N + 1 - m \in S /\ N + 1 - (N + 1 - m) = m
    BY <1>1, <2>3
  <2>. QED
    BY <2>4 DEF S
<1>10. v \in [1 .. N + 1 -> V]
  <2>1. v = [m \in 1 .. N + 1 |-> v[m]]
    BY <1>7
  <2>. QED
    BY <1>9, <2>1
<1>11. Joined(parts) = v
  BY DEF Joined, v, N
<1>. QED
  BY <1>8, <1>10, <1>11 DEF N, V

\* A varint is one byte or more.
LEMMA PackTyped ==
    ASSUME NEW v \in Nat
    PROVE  PackVarint(v) \in Seq(Byte) /\ Len(PackVarint(v)) >= 1
<1>1. Tag2 \in Byte /\ Tag4 \in Byte /\ Tag8 \in Byte /\ Base \in Nat
  BY Powers DEF Tag2, Tag4, Tag8, Byte
<1>2. ASSUME NEW n \in {2, 4, 8}, NEW t \in Byte
      PROVE  <<t>> \o LE(v, n) \in Seq(Byte) /\ Len(<<t>> \o LE(v, n)) >= 1
  <2>1. n \in 1 .. 8
    OBVIOUS
  <2>0. LE(v, n) \in Seq(Byte) /\ Len(LE(v, n)) = n
    BY <2>1, LEBytes
  <2>2. LE(v, n) \in Seq(Byte) /\ Len(LE(v, n)) \in Nat
    BY <2>0
  <2>. DEFINE b == LE(v, n)
  <2>3. <<t>> \o b \in Seq(Byte) /\ Len(<<t>> \o b) = Len(b) + 1
    <3>. HIDE DEF b
    <3>1. b \in Seq(Byte) /\ <<>> \in Seq(Byte)
      BY <2>2 DEF b
    <3>. QED
      BY <3>1, Tagged
  <2>. HIDE DEF b
  <2>4. <<t>> \o b \in Seq(Byte) /\ Len(<<t>> \o b) >= 1
    BY <2>2, <2>3 DEF b
  <2>. QED
    BY <2>4 DEF b
<1>3. CASE v < Tag2
  <2>1. v \in Byte
    BY <1>1, <1>3 DEF Byte, Tag2
  <2>2. PackVarint(v) = <<v>>
    BY <1>3 DEF PackVarint
  <2>. QED
    BY <2>1, <2>2
<1>4. CASE ~(v < Tag2)
  <2>1. \E n \in {2, 4, 8}, t \in Byte : PackVarint(v) = <<t>> \o LE(v, n)
    BY <1>1, <1>4 DEF PackVarint
  <2>. QED
    BY <1>2, <2>1
<1>. QED
  BY <1>3, <1>4

------------------------------------------------------------------------------
(* kyk_tx.c *)

\* The ranges of the fields.
LEMMA Widths == /\ Long \in Nat /\ Quad \in Nat /\ HashSize \in Nat
                /\ 0 .. Long - 1 \subseteq Nat /\ 0 .. Quad - 1 \subseteq Nat
  BY Powers, HashSizeAssumption DEF HashSizeAssumption

\* An input, from each of its fields on.
Txin5(txin) == LE(txin.seq_no, 4)
Txin4(txin) == txin.sc \o Txin5(txin)
Txin3(txin) == PackVarint(txin.sc_size) \o Txin4(txin)
Txin2(txin) == LE(txin.pre_tx_inx, 4) \o Txin3(txin)
Txin1(txin) == Reversed(txin.pre_txid) \o Txin2(txin)

\* The fields of an input, as they are serialised.
LEMMA TxinFields ==
    ASSUME NEW txin \in Txins
    PROVE  /\ Reversed(txin.pre_txid) \in Seq(Byte) /\ Len(Reversed(txin.pre_txid)) = HashSize
           /\ txin.pre_txid \in Seq(Byte)
           /\ LE(txin.pre_tx_inx, 4) \in Seq(Byte) /\ txin.pre_tx_inx \in 0 .. Long - 1
           /\ PackVarint(txin.sc_size) \in Seq(Byte) /\ txin.sc_size \in 0 .. Quad - 1
           /\ txin.sc \in Seq(Byte)
           /\ LE(txin.seq_no, 4) \in Seq(Byte) /\ txin.seq_no \in 0 .. Long - 1
<1>1. /\ txin.pre_txid \in [1 .. HashSize -> Byte] /\ txin.pre_tx_inx \in 0 .. Long - 1
      /\ txin.sc_size \in 0 .. Quad - 1 /\ txin.sc \in Seq(Byte) /\ txin.seq_no \in 0 .. Long - 1
  BY DEF Txins
<1>2. txin.pre_tx_inx \in Nat /\ txin.sc_size \in Nat /\ txin.seq_no \in Nat
  BY <1>1, Widths
<1>3. txin.pre_txid \in Seq(Byte) /\ Len(txin.pre_txid) = HashSize
  BY <1>1, Widths, NSeq
<1>4. Reversed(txin.pre_txid) \in Seq(Byte) /\ Len(Reversed(txin.pre_txid)) = HashSize
  BY <1>3, Turned
<1>5. LE(txin.pre_tx_inx, 4) \in Seq(Byte) /\ LE(txin.seq_no, 4) \in Seq(Byte)
  BY <1>2, Word
<1>6. PackVarint(txin.sc_size) \in Seq(Byte)
  BY <1>2, PackTyped
<1>. QED
  BY <1>1, <1>3, <1>4, <1>5, <1>6

\* An input is serialised field by field, and what is left of it is bytes.
LEMMA TxinBytes ==
    ASSUME NEW txin \in Txins
    PROVE  /\ SeriTxin(txin) = Txin1(txin)
           /\ Txin1(txin) \in Seq(Byte) /\ Txin2(txin) \in Seq(Byte) /\ Txin3(txin) \in Seq(Byte)
           /\ Txin4(txin) \in Seq(Byte) /\ Txin5(txin) \in Seq(Byte)
<1>. DEFINE a == Reversed(txin.pre_txid)
            b == LE(txin.pre_tx_inx, 4)
            c == PackVarint(txin.sc_size)
            d == txin.sc
            e == LE(txin.seq_no, 4)
<1>1. a \in Seq(Byte) /\ b \in Seq(Byte) /\ c \in Seq(Byte) /\ d \in Seq(Byte) /\ e \in Seq(Byte)
  BY TxinFields
<1>2. SeriTxin(txin) = (((a \o b) \o c) \o d) \o e
  BY DEF SeriTxin
<1>3. /\ Txin5(txin) = e /\ Txin4(txin) = d \o Txin5(txin) /\ Txin3(txin) = c \o Txin4(txin)
      /\ Txin2(txin) = b \o Txin3(txin) /\ Txin1(txin) = a \o Txin2(txin)
  BY DEF Txin1, Txin2, Txin3, Txin4, Txin5
<1>. HIDE DEF a, b, c, d, e
<1>4. Txin5(txin) \in Seq(Byte) /\ Txin4(txin) \in Seq(Byte)
  BY <1>1, <1>3, Rest
<1>5. Txin3(txin) \in Seq(Byte)
  BY <1>1, <1>3, <1>4, Rest
<1>6. Txin2(txin) \in Seq(Byte)
  BY <1>1, <1>3, <1>5, Rest
<1>7. Txin1(txin) \in Seq(Byte)
  BY <1>1, <1>3, <1>6, Rest
<1>. DEFINE ab == a \o b
            abc == ab \o c
<1>8. ab \in Seq(Byte) /\ abc \in Seq(Byte)
  BY <1>1
<1>9. (abc \o d) \o e = abc \o (d \o e)
  <2>. HIDE DEF abc
  <2>. QED
    BY <1>1, <1>8, Rest, SMTT(60)
<1>10. abc \o Txin4(txin) = ab \o (c \o Txin4(txin))
  <2>. DEFINE f == Txin4(txin)
  <2>1. ab \in Seq(Byte) /\ c \in Seq(Byte) /\ f \in Seq(Byte)
    BY <1>1, <1>4, <1>8
  <2>. HIDE DEF ab, f
  <2>2. (ab \o c) \o f = ab \o (c \o f)
    BY <2>1, Rest, SMTT(60)
  <2>. QED
    BY <2>2 DEF f
<1>11. ab \o Txin3(txin) = a \o (b \o Txin3(txin))
  BY <1>1, <1>5, Rest, SMTT(60)
<1>12. SeriTxin(txin) = Txin1(txin)
  BY <1>2, <1>3, <1>9, <1>10, <1>11
<1>. QED
  BY <1>4, <1>5, <1>6, <1>7, <1>12

\* An output likewise.
Txout3(txout) == txout.sc
Txout2(txout) == PackVarint(txout.sc_size) \o Txout3(txout)
Txout1(txout) == LE(txout.value, 8) \o Txout2(txout)

\* The fields of an output, as they are serialised.
LEMMA TxoutFields ==
    ASSUME NEW txout \in Txouts
    PROVE  /\ LE(txout.value, 8) \in Seq(Byte) /\ txout.value \in 0 .. Quad - 1
           /\ PackVarint(txout.sc_size) \in Seq(Byte) /\ txout.sc_size \in 0 .. Quad - 1
           /\ txout.sc \in Seq(Byte)
<1>1. txout.value \in 0 .. Quad - 1 /\ txout.sc_size \in 0 .. Quad - 1 /\ txout.sc \in Seq(Byte)
  BY DEF Txouts
<1>2. txout.value \in Nat /\ txout.sc_size \in Nat
  BY <1>1, Widths
<1>. QED
  BY <1>1, <1>2, Word, PackTyped

\* An output is serialised field by field.
LEMMA TxoutBytes ==
    ASSUME NEW txout \in Txouts
    PROVE  SeriTxout(txout) = Txout1(txout) /\ Txout1(txout) \in Seq(Byte)
           /\ Txout2(txout) \in Seq(Byte)
<1>. DEFINE a == LE(txout.value, 8)
            b == PackVarint(txout.sc_size)
            c == txout.sc
<1>1. a \in Seq(Byte) /\ b \in Seq(Byte) /\ c \in Seq(Byte)
  BY TxoutFields
<1>2. SeriTxout(txout) = (a \o b) \o c /\ Txout2(txout) = b \o c /\ Txout1(txout) = a \o (b \o c)
  BY DEF SeriTxout, Txout1, Txout2, Txout3
<1>. HIDE DEF a, b, c
<1>3. b \o c \in Seq(Byte) /\ (a \o b) \o c = a \o (b \o c)
  BY <1>1, Rest
<1>4. a \o (b \o c) \in Seq(Byte)
  BY <1>1, <1>3, Rest
<1>. QED
  BY <1>2, <1>3, <1>4

------------------------------------------------------------------------------
(* The file, from each of the reads of parse_txout_script_pbk on. *)

\* From the j-th output on.
Outs(t, j) == SeriTxoutList(t.vout)[j] \o LE(t.lock_time, 4)

From9(t) == Outs(t, 1)
From8(t) == PackVarint(Len(t.vout)) \o From9(t)

\* Of a transaction of one input.
From7(t) == LE(t.vin[1].seq_no, 4) \o From8(t)
From6(t) == t.vin[1].sc \o From7(t)
From5(t) == PackVarint(t.vin[1].sc_size) \o From6(t)
From4(t) == LE(t.vin[1].pre_tx_inx, 4) \o From5(t)
From3(t) == Reversed(t.vin[1].pre_txid) \o From4(t)

From2(t) == PackVarint(Len(t.vin))
            \o (IF Len(t.vin) = 1 THEN From3(t) ELSE SeriTxinList(t.vin)[1] \o From8(t))
From1(t) == LE(t.version, 4) \o From2(t)

\* The fields of a transaction, as they are serialised.
LEMMA TxFields ==
    ASSUME NEW t \in Txs
    PROVE  /\ t.version \in 0 .. Long - 1 /\ t.lock_time \in 0 .. Long - 1
           /\ LE(t.version, 4) \in Seq(Byte) /\ LE(t.lock_time, 4) \in Seq(Byte)
           /\ t.vin \in Seq(Txins) /\ Len(t.vin) \in Nat
           /\ t.vout \in Seq(Txouts) /\ Len(t.vout) \in Nat
           /\ PackVarint(Len(t.vin)) \in Seq(Byte) /\ PackVarint(Len(t.vout)) \in Seq(Byte)
<1>1. /\ t.version \in 0 .. Long - 1 /\ t.lock_time \in 0 .. Long - 1
      /\ t.vin \in Seq(Txins) /\ t.vout \in Seq(Txouts)
  BY DEF Txs
<1>2. t.version \in Nat /\ t.lock_time \in Nat
  BY <1>1, Widths
<1>3. Len(t.vin) \in Nat /\ Len(t.vout) \in Nat
  BY <1>1
<1>4. LE(t.version, 4) \in Seq(Byte) /\ LE(t.lock_time, 4) \in Seq(Byte)
  BY <1>2, Word
<1>5. PackVarint(Len(t.vin)) \in Seq(Byte) /\ PackVarint(Len(t.vout)) \in Seq(Byte)
  BY <1>3, PackTyped
<1>. QED
  BY <1>1, <1>3, <1>4, <1>5

\* The bytes of a list of inputs; of one input, its own.
LEMMA TxinList ==
    ASSUME NEW vin \in Seq(Txins)
    PROVE  /\ SeriTxinList(vin)[1] \in Seq(Byte)
           /\ Len(vin) = 1 => SeriTxinList(vin)[1] = Txin1(vin[1])
<1>. DEFINE p == [j \in 1 .. Len(vin) |-> SeriTxin(vin[j])]
<1>1. Len(vin) \in Nat /\ \A j \in 1 .. Len(vin) : vin[j] \in Txins
  OBVIOUS
<1>2. \A j \in 1 .. Len(vin) : SeriTxin(vin[j]) \in Seq(Byte)
  BY <1>1, TxinBytes
<1>3. p \in [1 .. Len(vin) -> Seq(Byte)]
  BY <1>2
<1>4. p \in Seq(Seq(Byte)) /\ Len(p) = Len(vin)
  <2>. HIDE DEF p
  <2>. QED
    BY <1>1, <1>3, NSeq
<1>5. \A j \in 1 .. Len(vin) : p[j] = SeriTxin(vin[j])
  OBVIOUS
<1>6. SeriTxinList(vin) = Joined(p)
  BY DEF SeriTxinList
<1>. HIDE DEF p
<1>7. /\ Joined(p) \in [1 .. Len(p) + 1 -> Seq(Byte)]
      /\ Joined(p)[Len(p) + 1] = <<>>
      /\ \A j \in 1 .. Len(p) : Joined(p)[j] = p[j] \o Joined(p)[j + 1]
  BY <1>4, JoinedDef
<1>8. Joined(p)[1] \in Seq(Byte)
  BY <1>1, <1>4, <1>7
<1>9. ASSUME Len(vin) = 1 PROVE Joined(p)[1] = Txin1(vin[1])
  <2>1. Joined(p)[1] = p[1] \o <<>> /\ p[1] = SeriTxin(vin[1]) /\ vin[1] \in Txins
    <3>1. 1 \in 1 .. Len(p) /\ Len(p) + 1 = 1 + 1 /\ 1 \in 1 .. Len(vin)
      BY <1>4, <1>9
    <3>. QED
      BY <1>1, <1>5, <1>7, <3>1
  <2>2. SeriTxin(vin[1]) = Txin1(vin[1]) /\ Txin1(vin[1]) \in Seq(Byte)
    BY <2>1, TxinBytes
  <2>3. Txin1(vin[1]) \o <<>> = Txin1(vin[1])
    BY <2>2
  <2>. QED
    BY <2>1, <2>2, <2>3
<1>. QED
  BY <1>6, <1>8, <1>9

\* The bytes of a list of outputs, from each of them on.
LEMMA TxoutList ==
    ASSUME NEW vout \in Seq(Txouts)
    PROVE  /\ \A j \in 1 .. Len(vout) + 1 : SeriTxoutList(vout)[j] \in Seq(Byte)
           /\ SeriTxoutList(vout)[Len(vout) + 1] = <<>>
           /\ \A j \in 1 .. Len(vout) :
                  SeriTxoutList(vout)[j] = Txout1(vout[j]) \o SeriTxoutList(vout)[j + 1]
<1>. DEFINE p == [j \in 1 .. Len(vout) |-> SeriTxout(vout[j])]
<1>1. Len(vout) \in Nat /\ \A j \in 1 .. Len(vout) : vout[j] \in Txouts
  OBVIOUS
<1>2. \A j \in 1 .. Len(vout) :
          SeriTxout(vout[j]) \in Seq(Byte) /\ SeriTxout(vout[j]) = Txout1(vout[j])
  BY <1>1, TxoutBytes
<1>3. p \in [1 .. Len(vout) -> Seq(Byte)]
  BY <1>2
<1>4. p \in Seq(Seq(Byte)) /\ Len(p) = Len(vout)
  <2>. HIDE DEF p
  <2>. QED
    BY <1>1, <1>3, NSeq
<1>5. \A j \in 1 .. Len(vout) : p[j] = Txout1(vout[j])
  BY <1>2
<1>6. SeriTxoutList(vout) = Joined(p)
  BY DEF SeriTxoutList
<1>. HIDE DEF p
<1>7. /\ Joined(p) \in [1 .. Len(p) + 1 -> Seq(Byte)]
      /\ Joined(p)[Len(p) + 1] = <<>>
      /\ \A j \in 1 .. Len(p) : Joined(p)[j] = p[j] \o Joined(p)[j + 1]
  BY <1>4, JoinedDef
<1>. QED
  BY <1>4, <1>5, <1>6, <1>7

\* From an output on: its fields, and the outputs behind it.
LEMMA OutsStep ==
    ASSUME NEW t \in Txs
    PROVE  /\ \A j \in 1 .. Len(t.vout) + 1 : Outs(t, j) \in Seq(Byte)
           /\ Outs(t, Len(t.vout) + 1) = LE(t.lock_time, 4)
           /\ \A j \in 1 .. Len(t.vout) :
                  Outs(t, j) = LE(t.vout[j].value, 8)
                               \o (PackVarint(t.vout[j].sc_size)
                                   \o (t.vout[j].sc \o Outs(t, j + 1)))
<1>. DEFINE l == LE(t.lock_time, 4)
            w == SeriTxoutList(t.vout)
<1>1. l \in Seq(Byte) /\ t.vout \in Seq(Txouts) /\ Len(t.vout) \in Nat
  BY TxFields
<1>2. /\ \A j \in 1 .. Len(t.vout) + 1 : w[j] \in Seq(Byte)
      /\ w[Len(t.vout) + 1] = <<>>
      /\ \A j \in 1 .. Len(t.vout) : w[j] = Txout1(t.vout[j]) \o w[j + 1]
  BY <1>1, TxoutList
<1>3. \A j : Outs(t, j) = w[j] \o l
  BY DEF Outs
<1>. HIDE DEF l, w
<1>4. ASSUME NEW j \in 1 .. Len(t.vout) + 1 PROVE Outs(t, j) \in Seq(Byte)
  <2>1. w[j] \in Seq(Byte)
    BY <1>2
  <2>2. w[j] \o l \in Seq(Byte)
    BY <1>1, <2>1
  <2>. QED
    BY <1>3, <2>2
<1>5. Outs(t, Len(t.vout) + 1) = l
  <2>1. <<>> \o l = l
    BY <1>1
  <2>. QED
    BY <1>2, <1>3, <2>1
<1>6. ASSUME NEW j \in 1 .. Len(t.vout)
      PROVE  Outs(t, j) = LE(t.vout[j].value, 8)
                          \o (PackVarint(t.vout[j].sc_size) \o (t.vout[j].sc \o Outs(t, j + 1)))
  <2>. DEFINE o == t.vout[j]
              a == LE(o.value, 8)
              b == PackVarint(o.sc_size)
              c == o.sc
              d == w[j + 1]
              bc == b \o c
  <2>1. o \in Txouts
    BY <1>1
  <2>2. a \in Seq(Byte) /\ b \in Seq(Byte) /\ c \in Seq(Byte)
    BY <2>1, TxoutFields
  <2>3. Txout1(o) = a \o bc
    BY DEF Txout1, Txout2, Txout3
  <2>4. d \in Seq(Byte) /\ w[j] = (a \o bc) \o d /\ Outs(t, j) = w[j] \o l /\ Outs(t, j + 1) = d \o l
    <3>1. j + 1 \in 1 .. Len(t.vout) + 1
      BY <1>1
    <3>. QED
      BY <1>2, <1>3, <2>3, <3>1
  <2>. HIDE DEF a, b, c, d
  <2>5. bc \in Seq(Byte)
    BY <2>2
  <2>6. bc \o (d \o l) = b \o (c \o (d \o l))
    <3>1. d \o l \in Seq(Byte)
      BY <1>1, <2>4
    <3>. QED
      BY <2>2, <3>1, Rest, SMTT(60)
  <2>. HIDE DEF bc
  <2>7. (a \o bc) \o d = a \o (bc \o d)
    <3>1. a \in Seq(Byte) /\ bc \in Seq(Byte) /\ d \in Seq(Byte)
      BY <2>2, <2>4, <2>5
    <3>. QED
      BY <3>1, Rest
  <2>8. (a \o (bc \o d)) \o l = a \o ((bc \o d) \o l)
    <3>. DEFINE m == bc \o d
    <3>1. a \in Seq(Byte) /\ m \in Seq(Byte) /\ l \in Seq(Byte)
      <4>1. bc \in Seq(Byte) /\ d \in Seq(Byte)
        BY <2>4, <2>5
      <4>. QED
        BY <1>1, <2>2, <4>1
    <3>. HIDE DEF m
    <3>2. (a \o m) \o l = a \o (m \o l)
      BY <3>1, Rest, SMTT(60)
    <3>. QED
      BY <3>2 DEF m
  <2>9. (bc \o d) \o l = bc \o (d \o l)
    <3>1. bc \in Seq(Byte) /\ d \in Seq(Byte) /\ l \in Seq(Byte)
      BY <1>1, <2>4, <2>5
    <3>. QED
      BY <3>1, Rest, SMTT(60)
  <2>10. Outs(t, j) = a \o (b \o (c \o (d \o l)))
    BY <2>4, <2>6, <2>7, <2>8, <2>9
  <2>. QED
    BY <2>4, <2>10 DEF a, b, c
<1>. QED
  BY <1>4, <1>5, <1>6 DEF l

\* What is left of a transaction, from any of its fields on, is bytes.
LEMMA FromTyped ==
    ASSUME NEW t \in Txs
    PROVE  /\ From1(t) \in Seq(Byte) /\ From2(t) \in Seq(Byte)
           /\ From8(t) \in Seq(Byte) /\ From9(t) \in Seq(Byte)
           /\ Len(t.vin) = 1 => /\ From3(t) \in Seq(Byte) /\ From4(t) \in Seq(Byte)
                                /\ From5(t) \in Seq(Byte) /\ From6(t) \in Seq(Byte)
                                /\ From7(t) \in Seq(Byte)
<1>1. From9(t) \in Seq(Byte)
  <2>1. 1 \in 1 .. Len(t.vout) + 1
    BY TxFields
  <2>. QED
    BY <2>1, OutsStep DEF From9
<1>2. From8(t) \in Seq(Byte)
  BY <1>1, TxFields, Rest DEF From8
<1>3. ASSUME Len(t.vin) = 1
      PROVE  /\ From3(t) \in Seq(Byte) /\ From4(t) \in Seq(Byte) /\ From5(t) \in Seq(Byte)
             /\ From6(t) \in Seq(Byte) /\ From7(t) \in Seq(Byte)
  <2>1. t.vin[1] \in Txins
    <3>1. t.vin \in Seq(Txins) /\ 1 \in 1 .. Len(t.vin)
      BY <1>3, TxFields
    <3>. QED
      BY <3>1
  <2>2. From7(t) \in Seq(Byte)
    BY <1>2, <2>1, TxinFields, Rest DEF From7
  <2>3. From6(t) \in Seq(Byte)
    BY <2>1, <2>2, TxinFields, Rest DEF From6
  <2>4. From5(t) \in Seq(Byte)
    BY <2>1, <2>3, TxinFields, Rest DEF From5
  <2>5. From4(t) \in Seq(Byte)
    BY <2>1, <2>4, TxinFields, Rest DEF From4
  <2>6. From3(t) \in Seq(Byte)
    BY <2>1, <2>5, TxinFields, Rest DEF From3
  <2>. QED
    BY <2>2, <2>3, <2>4, <2>5, <2>6
<1>4. From2(t) \in Seq(Byte)
  <2>1. SeriTxinList(t.vin)[1] \in Seq(Byte)
    BY TxFields, TxinList
  <2>2. SeriTxinList(t.vin)[1] \o From8(t) \in Seq(Byte)
    BY <1>2, <2>1, Rest
  <2>3. (IF Len(t.vin) = 1 THEN From3(t) ELSE SeriTxinList(t.vin)[1] \o From8(t)) \in Seq(Byte)
    BY <1>3, <2>2
  <2>. QED
    BY <2>3, TxFields, Rest DEF From2
<1>5. From1(t) \in Seq(Byte)
  BY <1>4, TxFields, Rest DEF From1
<1>. QED
  BY <1>1, <1>2, <1>3, <1>4, <1>5

\* A transaction is serialised field by field.
LEMMA Whole ==
    ASSUME NEW t \in Txs
    PROVE  SeriTx(t) = From1(t)
<1>. DEFINE a == LE(t.version, 4)
            b == PackVarint(Len(t.vin))
            c == SeriTxinList(t.vin)[1]
            d == PackVarint(Len(t.vout))
            e == SeriTxoutList(t.vout)[1]
            f == LE(t.lock_time, 4)
<1>1. a \in Seq(Byte) /\ b \in Seq(Byte) /\ d \in Seq(Byte) /\ f \in Seq(Byte)
  BY TxFields
<1>2. c \in Seq(Byte)
  BY TxFields, TxinList
<1>3. e \in Seq(Byte)
  <2>1. 1 \in 1 .. Len(t.vout) + 1
    BY TxFields
  <2>. QED
    BY <2>1, TxFields, TxoutList
<1>4. c \o From8(t) = IF Len(t.vin) = 1 THEN From3(t) ELSE c \o From8(t)
  <2>. SUFFICES ASSUME Len(t.vin) = 1 PROVE c \o From8(t) = From3(t)
    OBVIOUS
  <2>. DEFINE i1 == t.vin[1]
  <2>1. i1 \in Txins
    <3>1. t.vin \in Seq(Txins) /\ 1 \in 1 .. Len(t.vin)
      BY TxFields
    <3>. QED
      BY <3>1
  <2>2. c = Txin1(i1)
    BY TxFields, TxinList
  <2>3. From8(t) \in Seq(Byte)
    BY FromTyped
  <2>4. Txin5(i1) \o From8(t) = From7(t)
    BY DEF From7, Txin5
  <2>5. Txin4(i1) \o From8(t) = From6(t)
    <3>1. i1.sc \in Seq(Byte)
      BY <2>1, TxinFields
    <3>2. Txin5(i1) \in Seq(Byte)
      BY <2>1, TxinBytes
    <3>3. (i1.sc \o Txin5(i1)) \o From8(t) = i1.sc \o (Txin5(i1) \o From8(t))
      BY <2>3, <3>1, <3>2, Rest
    <3>. QED
      BY <2>4, <3>3 DEF Txin4, From6
  <2>6. Txin3(i1) \o From8(t) = From5(t)
    <3>1. PackVarint(i1.sc_size) \in Seq(Byte)
      BY <2>1, TxinFields
    <3>2. Txin4(i1) \in Seq(Byte)
      BY <2>1, TxinBytes
    <3>3. (PackVarint(i1.sc_size) \o Txin4(i1)) \o From8(t) = PackVarint(i1.sc_size) \o (Txin4(i1) \o From8(t))
      BY <2>3, <3>1, <3>2, Rest
    <3>. QED
      BY <2>5, <3>3 DEF Txin3, From5
  <2>7. Txin2(i1) \o From8(t) = From4(t)
    <3>1. LE(i1.pre_tx_inx, 4) \in Seq(Byte)
      BY <2>1, TxinFields
    <3>2. Txin3(i1) \in Seq(Byte)
      BY <2>1, TxinBytes
    <3>3. (LE(i1.pre_tx_inx, 4) \o Txin3(i1)) \o From8(t) = LE(i1.pre_tx_inx, 4) \o (Txin3(i1) \o From8(t))
      BY <2>3, <3>1, <3>2, Rest
    <3>. QED
      BY <2>6, <3>3 DEF Txin2, From4
  <2>8. Txin1(i1) \o From8(t) = From3(t)
    <3>1. Reversed(i1.pre_txid) \in Seq(Byte)
      BY <2>1, TxinFields
    <3>2. Txin2(i1) \in Seq(Byte)
      BY <2>1, TxinBytes
    <3>3. (Reversed(i1.pre_txid) \o Txin2(i1)) \o From8(t) = Reversed(i1.pre_txid) \o (Txin2(i1) \o From8(t))
      BY <2>3, <3>1, <3>2, Rest
    <3>. QED
      BY <2>7, <3>3 DEF Txin1, From3
  <2>. QED
    BY <2>2, <2>8
<1>5. From8(t) = d \o (e \o f)
  BY DEF From8, From9, Outs
<1>6. From1(t) = a \o (b \o (c \o (d \o (e \o f))))
  BY <1>4, <1>5 DEF From1, From2
<1>7. SeriTx(t) = ((((a \o b) \o c) \o d) \o e) \o f
  BY DEF SeriTx
<1>. HIDE DEF a, b, c, d, e, f
<1>. DEFINE ab == a \o b
            abc == ab \o c
            abcd == abc \o d
            ef == e \o f
            def == d \o ef
            cdef == c \o def
<1>8. ab \in Seq(Byte) /\ abc \in Seq(Byte) /\ abcd \in Seq(Byte)
  <2>1. ab \in Seq(Byte)
    BY <1>1
  <2>. HIDE DEF ab
  <2>2. abc \in Seq(Byte)
    BY <1>2, <2>1
  <2>. HIDE DEF abc
  <2>3. abcd \in Seq(Byte)
    BY <1>1, <2>2
  <2>. QED
    BY <2>1, <2>2, <2>3
<1>9. ef \in Seq(Byte) /\ def \in Seq(Byte) /\ cdef \in Seq(Byte)
  <2>1. ef \in Seq(Byte)
    BY <1>1, <1>3
  <2>. HIDE DEF ef
  <2>2. def \in Seq(Byte)
    BY <1>1, <2>1
  <2>. HIDE DEF def
  <2>3. cdef \in Seq(Byte)
    BY <1>2, <2>2
  <2>. QED
    BY <2>1, <2>2, <2>3
<1>. HIDE DEF ef, def, cdef, abcd
<1>10. ab \o cdef = a \o (b \o cdef)
  <2>1. a \in Seq(Byte) /\ b \in Seq(Byte) /\ cdef \in Seq(Byte)
    BY <1>1, <1>9
  <2>. HIDE DEF abc
  <2>2. (a \o b) \o cdef = a \o (b \o cdef)
    BY <2>1, Rest
  <2>. QED
    BY <2>2 DEF ab
<1>11. abc \o def = ab \o (c \o def)
  <2>1. ab \in Seq(Byte) /\ c \in Seq(Byte) /\ def \in Seq(Byte)
    BY <1>2, <1>8, <1>9
  <2>. HIDE DEF ab
  <2>. QED
    BY <2>1, Rest
<1>12. abcd \o ef = abc \o (d \o ef)
  <2>1. abc \in Seq(Byte) /\ d \in Seq(Byte) /\ ef \in Seq(Byte)
    BY <1>1, <1>8, <1>9
  <2>. HIDE DEF ab, abc
  <2>2. (abc \o d) \o ef = abc \o (d \o ef)
    BY <2>1, Rest, SMTT(60)
  <2>. QED
    BY <2>2 DEF abcd
<1>13. (abcd \o e) \o f = abcd \o (e \o f)
  <2>1. abcd \in Seq(Byte) /\ e \in Seq(Byte) /\ f \in Seq(Byte)
    BY <1>1, <1>3, <1>8
  <2>. QED
    BY <2>1, Rest, SMTT(60)
<1>14. SeriTx(t) = (abcd \o e) \o f
  BY <1>7 DEF abcd
<1>15. From1(t) = a \o (b \o cdef)
  BY <1>6 DEF cdef, def, ef
<1>16. e \o f = ef /\ d \o ef = def /\ c \o def = cdef
  BY DEF ef, def, cdef
<1>. HIDE DEF ab, abc
<1>. QED
  BY <1>10, <1>11, <1>12, <1>13, <1>14, <1>15, <1>16

\* The columns of kyk_ser.c that take part.
LEMMA ColumnBytes ==
    ASSUME NEW v
    PROVE  /\ Column("version-no", v) = LE(v, 4)
           /\ Column("in-counter", v) = PackVarint(v)
           /\ Column("pre-tx-hash:hex", v) = kyk_alloc_hex(v)
           /\ Column("pre-txout-inx", v) = LE(v, 4)
           /\ Column("txout-sc-len", v) = PackVarint(v)
           /\ Column("txout-sc-pubkey:hex", v) = kyk_alloc_hex(v)
           /\ Column("seq-no", v) = BE(v, 4)
           /\ Column("out-counter", v) = PackVarint(v)
           /\ Column("txout-value", v) = LE(v, 8)
           /\ Column("lock-time", v) = LE(v, 4)
  BY DEF Column

\* The sequence number is turned twice.
LEMMA TurnedTwice ==
    ASSUME NEW v \in 0 .. Long - 1
    PROVE  BE(Num(BE(v, 4)), 4) = LE(v, 4)
<1>. DEFINE s == LE(v, 4)
            r == Reversed(s)
<1>1. v \in Nat
  BY Widths
<1>2. s \in Seq(Byte) /\ Len(s) = 4
  BY <1>1, Word
<1>. HIDE DEF s
<1>3. r \in Seq(Byte) /\ Len(r) = 4 /\ Reversed(r) = s
  BY <1>2, Turned
<1>. HIDE DEF r
<1>4. LE(Num(r), 4) = r
  BY <1>3, WordWritten
<1>5. BE(v, 4) = r
  BY DEF BE, r, s
<1>. QED
  BY <1>3, <1>4, <1>5 DEF BE, s

\* kyk_tx_inc_ser writes what kyk_seri_tx writes.
LEMMA Columns ==
    ASSUME NEW t \in Txs, Len(t.vin) = 1, Len(t.vout) = 1
    PROVE  IncSer(TxColumns(t)) = SeriTx(t)
<1>. DEFINE i1 == t.vin[1]
            o1 == t.vout[1]
            b1 == LE(t.version, 4)
            b2 == PackVarint(1)
            b3 == Reversed(i1.pre_txid)
            b4 == LE(i1.pre_tx_inx, 4)
            b5 == PackVarint(i1.sc_size)
            b6 == i1.sc
            b7 == LE(i1.seq_no, 4)
            b9 == LE(o1.value, 8)
            b10 == PackVarint(o1.sc_size)
            b11 == o1.sc
            b12 == LE(t.lock_time, 4)
            cols == TxColumns(t)
            p == [j \in 1 .. Len(cols) |-> Column(cols[j][1], cols[j][2])]
<1>1. i1 \in Txins /\ o1 \in Txouts
  <2>1. t.vin \in Seq(Txins) /\ t.vout \in Seq(Txouts) /\ 1 \in 1 .. Len(t.vin) /\ 1 \in 1 .. Len(t.vout)
    BY TxFields
  <2>. QED
    BY <2>1
<1>2. /\ b3 \in Seq(Byte) /\ b4 \in Seq(Byte) /\ b5 \in Seq(Byte) /\ b6 \in Seq(Byte)
      /\ b7 \in Seq(Byte) /\ i1.seq_no \in 0 .. Long - 1
  BY <1>1, TxinFields
<1>3. b9 \in Seq(Byte) /\ b10 \in Seq(Byte) /\ b11 \in Seq(Byte)
  BY <1>1, TxoutFields
<1>4. b1 \in Seq(Byte) /\ b12 \in Seq(Byte)
  BY TxFields
<1>5. b2 \in Seq(Byte)
  BY PackTyped
<1>6. /\ cols = <<<<"version-no", t.version>>, <<"in-counter", 1>>,
                 <<"pre-tx-hash:hex", HexText(b3)>>,
                 <<"pre-txout-inx", i1.pre_tx_inx>>,
                 <<"txout-sc-len", i1.sc_size>>, <<"txout-sc-pubkey:hex", HexText(b6)>>,
                 <<"seq-no", Num(BE(i1.seq_no, 4))>>,
                 <<"out-counter", 1>>, <<"txout-value", o1.value>>,
                 <<"txout-sc-len", o1.sc_size>>, <<"txout-sc-pubkey:hex", HexText(b11)>>,
                 <<"lock-time", t.lock_time>>>>
      /\ Len(cols) = 12
  BY DEF TxColumns
<1>7. IncSer(cols) = Joined(p)[1]
  BY DEF IncSer
<1>8. kyk_alloc_hex(HexText(b3)) = b3 /\ kyk_alloc_hex(HexText(b6)) = b6
      /\ kyk_alloc_hex(HexText(b11)) = b11
  <2>. HIDE DEF b3, b6, b11
  <2>. QED
    BY <1>2, <1>3, HexRead
<1>9. BE(Num(BE(i1.seq_no, 4)), 4) = b7
  BY <1>2, TurnedTwice
<1>. HIDE DEF cols
<1>10. \A j \in 1 .. 12 : p[j] = Column(cols[j][1], cols[j][2])
  BY <1>6
<1>11. Len(p) = 12
  BY <1>6
<1>. HIDE DEF p
<1>12. /\ p[1] = b1 /\ p[2] = b2 /\ p[4] = b4 /\ p[5] = b5 /\ p[8] = b2 /\ p[9] = b9
       /\ p[10] = b10 /\ p[12] = b12
  BY <1>6, <1>10, ColumnBytes
<1>13. p[3] = b3 /\ p[6] = b6 /\ p[11] = b11
  BY <1>6, <1>8, <1>10, ColumnBytes
<1>14. p[7] = b7
  BY <1>6, <1>9, <1>10, ColumnBytes
<1>. HIDE DEF b1, b2, b3, b4, b5, b6, b7, b9, b10, b11, b12
<1>15. p \in Seq(Seq(Byte))
  <2>. DEFINE B == Seq(Byte)
  <2>0. /\ p[1] \in B /\ p[2] \in B /\ p[3] \in B /\ p[4] \in B /\ p[5] \in B /\ p[6] \in B
        /\ p[7] \in B /\ p[8] \in B /\ p[9] \in B /\ p[10] \in B /\ p[11] \in B /\ p[12] \in B
    BY <1>2, <1>3, <1>4, <1>5, <1>12, <1>13, <1>14
  <2>. HIDE DEF B
  <2>1. \A j \in 1 .. 12 : p[j] \in B
    BY <2>0
  <2>. USE DEF B
  <2>2. p = [j \in 1 .. 12 |-> p[j]]
    BY <1>6 DEF p
  <2>3. p \in [1 .. 12 -> Seq(Byte)]
    BY <2>1, <2>2
  <2>. QED
    BY <2>3, NSeq
<1>. DEFINE J == Joined(p)
<1>16. /\ J[12 + 1] = <<>>
       /\ \A j \in 1 .. 12 : J[j] = p[j] \o J[j + 1]
  BY <1>11, <1>15, JoinedDef
<1>. HIDE DEF J
<1>17. /\ J[12] = b12 \o <<>> /\ J[11] = b11 \o J[12] /\ J[10] = b10 \o J[11] /\ J[9] = b9 \o J[10]
       /\ J[8] = b2 \o J[9] /\ J[7] = b7 \o J[8] /\ J[6] = b6 \o J[7] /\ J[5] = b5 \o J[6]
       /\ J[4] = b4 \o J[5] /\ J[3] = b3 \o J[4] /\ J[2] = b2 \o J[3] /\ J[1] = b1 \o J[2]
  <2>1. \A j \in 1 .. 12, m \in 2 .. 13 : m = j + 1 => J[j] = p[j] \o J[m]
    BY <1>16
  <2>2. J[1] = p[1] \o J[2]
    <3>1. 1 \in 1 .. 12 /\ 2 \in 2 .. 13 /\ 2 = 1 + 1
      OBVIOUS
    <3>. QED
      BY <2>1, <3>1, Zenon
  <2>3. J[2] = p[2] \o J[3]
    <3>1. 2 \in 1 .. 12 /\ 3 \in 2 .. 13 /\ 3 = 2 + 1
      OBVIOUS
    <3>. QED
      BY <2>1, <3>1, Zenon
  <2>4. J[3] = p[3] \o J[4]
    <3>1. 3 \in 1 .. 12 /\ 4 \in 2 .. 13 /\ 4 = 3 + 1
      OBVIOUS
    <3>. QED
      BY <2>1, <3>1, Zenon
  <2>5. J[4] = p[4] \o J[5]
    <3>1. 4 \in 1 .. 12 /\ 5 \in 2 .. 13 /\ 5 = 4 + 1
      OBVIOUS
    <3>. QED
      BY <2>1, <3>1, Zenon
  <2>6. J[5] = p[5] \o J[6]
    <3>1. 5 \in 1 .. 12 /\ 6 \in 2 .. 13 /\ 6 = 5 + 1
      OBVIOUS
    <3>. QED
      BY <2>1, <3>1, Zenon
  <2>7. J[6] = p[6] \o J[7]
    <3>1. 6 \in 1 .. 12 /\ 7 \in 2 .. 13 /\ 7 = 6 + 1
      OBVIOUS
    <3>. QED
      BY <2>1, <3>1, Zenon
  <2>8. J[7] = p[7] \o J[8]
    <3>1. 7 \in 1 .. 12 /\ 8 \in 2 .. 13 /\ 8 = 7 + 1
      OBVIOUS
    <3>. QED
      BY <2>1, <3>1, Zenon
  <2>9. J[8] = p[8] \o J[9]
    <3>1. 8 \in 1 .. 12 /\ 9 \in 2 .. 13 /\ 9 = 8 + 1
      OBVIOUS
    <3>. QED
      BY <2>1, <3>1, Zenon
  <2>10. J[9] = p[9] \o J[10]
    <3>1. 9 \in 1 .. 12 /\ 10 \in 2 .. 13 /\ 10 = 9 + 1
      OBVIOUS
    <3>. QED
      BY <2>1, <3>1, Zenon
  <2>11. J[10] = p[10] \o J[11]
    <3>1. 10 \in 1 .. 12 /\ 11 \in 2 .. 13 /\ 11 = 10 + 1
      OBVIOUS
    <3>. QED
      BY <2>1, <3>1, Zenon
  <2>12. J[11] = p[11] \o J[12]
    <3>1. 11 \in 1 .. 12 /\ 12 \in 2 .. 13 /\ 12 = 11 + 1
      OBVIOUS
    <3>. QED
      BY <2>1, <3>1, Zenon
  <2>13. J[12] = p[12] \o J[13]
    <3>1. 12 \in 1 .. 12 /\ 13 \in 2 .. 13 /\ 13 = 12 + 1
      OBVIOUS
    <3>. QED
      BY <2>1, <3>1, Zenon
  <2>14. J[13] = <<>>
    BY <1>16
  <2>. QED
    BY <1>12, <1>13, <1>14, <2>2, <2>3, <2>4, <2>5, <2>6, <2>7, <2>8, <2>9, <2>10, <2>11, <2>12,
       <2>13, <2>14
<1>18. b12 \o <<>> = b12
  BY <1>4
<1>19. J[9] = From9(t)
  <2>1. 1 \in 1 .. Len(t.vout) /\ Len(t.vout) + 1 = 1 + 1
    OBVIOUS
  <2>2. Outs(t, 1) = b9 \o (b10 \o (b11 \o Outs(t, 1 + 1))) /\ Outs(t, 1 + 1) = b12
    BY <2>1, OutsStep DEF b9, b10, b11, b12
  <2>. QED
    BY <1>17, <1>18, <2>2 DEF From9
<1>20. J[8] = From8(t)
  BY <1>17, <1>19 DEF From8, b2
<1>21. J[3] = From3(t)
  BY <1>17, <1>20 DEF From3, From4, From5, From6, From7, b3, b4, b5, b6, b7
<1>22. J[1] = From1(t)
  BY <1>17, <1>21 DEF From1, From2, b1, b2
<1>. QED
  BY <1>7, <1>22, Whole DEF J, cols

------------------------------------------------------------------------------
(* The stream. *)

\* The bytes a are read next, and then b.
Ahead(a, b) == rest = a \o b

\* What is in front is read, and the rest stays.
LEMMA Front ==
    ASSUME NEW a \in Seq(Byte), NEW b \in Seq(Byte), Ahead(a, b)
    PROVE  /\ Len(rest) >= Len(a) /\ Take(Len(a)) = a /\ Drop(Len(a)) = b
           /\ Len(a) \in Nat
<1>1. /\ a \o b \in Seq(Byte) /\ Len(a \o b) = Len(a) + Len(b)
      /\ SubSeq(a \o b, 1, Len(a)) = a
      /\ SubSeq(a \o b, Len(a) + 1, Len(a \o b)) = b
  BY Parts
<1>2. Len(a) \in Nat /\ Len(b) \in Nat
  OBVIOUS
<1>. QED
  BY <1>1, <1>2 DEF Take, Drop, Ahead

\* How many bytes a varint may have.
LEMMA Sized ==
    ASSUME NEW b
    PROVE  VarintSize(b) \in {1, 3, 5, 9}
  BY DEF VarintSize

\* A varint in front is read.
LEMMA VarintFront ==
    ASSUME NEW v \in 0 .. Quad - 1, NEW b \in Seq(Byte), Ahead(PackVarint(v), b)
    PROVE  /\ VarintAt(1) = Len(PackVarint(v)) /\ ValueAt(1) = v
           /\ Len(rest) >= VarintAt(1) /\ Drop(VarintAt(1)) = b
<1>. DEFINE a == PackVarint(v)
<1>1. a \in Seq(Byte) /\ Len(a) >= 1
  BY Widths, PackTyped
<1>2. UnpackVarint(a \o b) = [val |-> v, size |-> Len(a)]
  BY VarintRead
<1>. HIDE DEF a
<1>3. Len(rest) >= Len(a) /\ Drop(Len(a)) = b /\ Len(a) \in Nat
  BY <1>1, Front DEF a
<1>4. UnpackVarint(rest) = [val |-> IF VarintSize(rest[1]) = 1 THEN rest[1]
                                    ELSE Num(SubSeq(rest, 2, VarintSize(rest[1]))),
                            size |-> VarintSize(rest[1])]
  BY DEF UnpackVarint
<1>5. VarintSize(rest[1]) = Len(a)
      /\ v = IF VarintSize(rest[1]) = 1 THEN rest[1] ELSE Num(SubSeq(rest, 2, VarintSize(rest[1])))
  <2>1. rest = a \o b
    BY DEF a, Ahead
  <2>2. UnpackVarint(rest).val = v /\ UnpackVarint(rest).size = Len(a)
    BY <1>2, <2>1
  <2>. QED
    BY <1>4, <2>2
<1>6. rest \in Seq(Byte) /\ Len(rest) \in Nat
  <2>1. a \o b \in Seq(Byte)
    BY <1>1
  <2>2. rest \in Seq(Byte)
    BY <2>1 DEF a, Ahead
  <2>. QED
    BY <2>2
<1>7. VarintAt(1) = VarintSize(rest[1])
  BY <1>1, <1>3, <1>6 DEF VarintAt
<1>8. ValueAt(1) = v
  <2>1. 1 + 1 = 2 /\ 1 + VarintSize(rest[1]) - 1 = VarintSize(rest[1])
    <3>. DEFINE z == VarintSize(rest[1])
    <3>1. z \in {1, 3, 5, 9}
      BY Sized
    <3>. HIDE DEF z
    <3>2. 1 + z - 1 = z
      BY <3>1
    <3>. QED
      BY <3>2 DEF z
  <2>. QED
    BY <1>5, <1>7, <2>1 DEF ValueAt
<1>. QED
  BY <1>3, <1>5, <1>7, <1>8 DEF a

------------------------------------------------------------------------------
(* The parsers. *)

\* How many reads a parser is.
LEMMA Lengths ==
    ASSUME prog \in Parsers
    PROVE  /\ prog \in {"parse_tx_version", "parse_tx", "parse_tx_vinc", "parse_txin",
                        "parse_txin_script_sig", "parse_txout", "parse_txout_script_pbk"}
           /\ prog = "parse_tx_version" => Len(Text[prog]) = 1
           /\ prog \in {"parse_tx", "parse_tx_vinc"} => Len(Text[prog]) = 2
           /\ prog \in {"parse_txin", "parse_txin_script_sig"} => Len(Text[prog]) = 7
           /\ prog = "parse_txout" => Len(Text[prog]) = 9
           /\ prog = "parse_txout_script_pbk" => Len(Text[prog]) = 11
           /\ Len(Text[prog]) \in 1 .. 11
  BY DEF Parsers, Text, parse_tx_version, parse_tx, parse_tx_vinc, parse_txin,
         parse_txin_script_sig, parse_txout, parse_txout_script_pbk

\* Where in a parser each read is.
LEMMA Places ==
    ASSUME prog \in Parsers, pc \in Nat \ {0}, NEW step, At(step)
    PROVE  /\ fault = "none" /\ pc \in 1 .. Len(Text[prog]) /\ Text[prog][pc] = step
           /\ pc = 1 <=> step = "version"
           /\ pc = 2 <=> step \in {"vin_byte", "vin_sz"}
           /\ step = "vin_byte" <=> prog = "parse_tx" /\ pc = 2
           /\ pc = 3 <=> step = "pre_txid"
           /\ pc = 4 <=> step = "pre_tx_inx"
           /\ pc = 5 <=> step = "sc_size"
           /\ pc = 6 <=> step \in {"btc_sig", "two_ops", "sc_sig"}
           /\ step = "btc_sig" <=> prog = "parse_txin" /\ pc = 6
           /\ step = "two_ops" <=> prog \in {"parse_txin_script_sig", "parse_txout"} /\ pc = 6
           /\ step = "sc_sig" <=> prog = "parse_txout_script_pbk" /\ pc = 6
           /\ pc = 7 <=> step = "seq_no"
           /\ pc = 8 <=> step = "vout_sz"
           /\ pc = 9 <=> step = "txout"
           /\ pc = 10 <=> step = "opcodes"
           /\ pc = 11 <=> step = "lock_time"
<1>1. fault = "none" /\ pc <= Len(Text[prog]) /\ Text[prog][pc] = step
  BY DEF At
<1>2. CASE prog = "parse_tx_version"
  <2>1. <<pc, step>> \in {<<1, "version">>}
    BY <1>1, <1>2 DEF Text, parse_tx_version
  <2>. QED
    BY <1>1, <1>2, <2>1, Lengths, SMTT(60)
<1>3. CASE prog = "parse_tx"
  <2>1. <<pc, step>> \in {<<1, "version">>, <<2, "vin_byte">>}
    BY <1>1, <1>3 DEF Text, parse_tx
  <2>. QED
    BY <1>1, <1>3, <2>1, Lengths, SMTT(60)
<1>4. CASE prog = "parse_tx_vinc"
  <2>1. <<pc, step>> \in {<<1, "version">>, <<2, "vin_sz">>}
    BY <1>1, <1>4 DEF Text, parse_tx_vinc
  <2>. QED
    BY <1>1, <1>4, <2>1, Lengths, SMTT(60)
<1>5. CASE prog = "parse_txin"
  <2>1. <<pc, step>> \in {<<1, "version">>, <<2, "vin_sz">>, <<3, "pre_txid">>,
                         <<4, "pre_tx_inx">>, <<5, "sc_size">>, <<6, "btc_sig">>,
                         <<7, "seq_no">>}
    BY <1>1, <1>5 DEF Text, parse_txin
  <2>. QED
    BY <1>1, <1>5, <2>1, Lengths, SMTT(60)
<1>6. CASE prog = "parse_txin_script_sig"
  <2>1. <<pc, step>> \in {<<1, "version">>, <<2, "vin_sz">>, <<3, "pre_txid">>,
                         <<4, "pre_tx_inx">>, <<5, "sc_size">>, <<6, "two_ops">>,
                         <<7, "seq_no">>}
    BY <1>1, <1>6 DEF Text, parse_txin_script_sig
  <2>. QED
    BY <1>1, <1>6, <2>1, Lengths, SMTT(60)
<1>7. CASE prog = "parse_txout"
  <2>1. <<pc, step>> \in {<<1, "version">>, <<2, "vin_sz">>, <<3, "pre_txid">>,
                         <<4, "pre_tx_inx">>, <<5, "sc_size">>, <<6, "two_ops">>,
                         <<7, "seq_no">>, <<8, "vout_sz">>, <<9, "txout">>}
    BY <1>1, <1>7 DEF Text, parse_txout
  <2>. QED
    BY <1>1, <1>7, <2>1, Lengths, SMTT(60)
<1>8. CASE prog = "parse_txout_script_pbk"
  <2>1. <<pc, step>> \in {<<1, "version">>, <<2, "vin_sz">>, <<3, "pre_txid">>,
                         <<4, "pre_tx_inx">>, <<5, "sc_size">>, <<6, "sc_sig">>,
                         <<7, "seq_no">>, <<8, "vout_sz">>, <<9, "txout">>, <<10, "opcodes">>,
                         <<11, "lock_time">>}
    BY <1>1, <1>8 DEF Text, parse_txout_script_pbk
  <2>. QED
    BY <1>1, <1>8, <2>1, Lengths, SMTT(60)
<1>. QED
  BY <1>2, <1>3, <1>4, <1>5, <1>6, <1>7, <1>8, Lengths

\* Which parsers have a read with a number.
LEMMA LongParsers ==
    ASSUME prog \in Parsers, NEW n \in 1 .. Len(Text[prog])
    PROVE  /\ n >= 2 => prog # "parse_tx_version"
           /\ n >= 3 => prog \notin {"parse_tx_version", "parse_tx", "parse_tx_vinc"}
           /\ n >= 8 => prog \in {"parse_txout", "parse_txout_script_pbk"}
           /\ n >= 10 => prog = "parse_txout_script_pbk"
<1>1. n \in Nat
  OBVIOUS
<1>2. CASE prog = "parse_tx_version"
  <2>1. Len(Text[prog]) = 1
    BY <1>2, Lengths
  <2>2. n <= 1
    BY <2>1
  <2>. QED
    BY <1>1, <1>2, <2>2
<1>3. CASE prog \in {"parse_tx", "parse_tx_vinc"}
  <2>1. Len(Text[prog]) = 2
    BY <1>3, Lengths
  <2>2. n <= 2
    BY <2>1
  <2>. QED
    BY <1>1, <1>3, <2>2
<1>4. CASE prog \in {"parse_txin", "parse_txin_script_sig"}
  <2>1. Len(Text[prog]) = 7
    BY <1>4, Lengths
  <2>2. n <= 7
    BY <2>1
  <2>. QED
    BY <1>1, <1>4, <2>2
<1>5. CASE prog = "parse_txout"
  <2>1. Len(Text[prog]) = 9
    BY <1>5, Lengths
  <2>2. n <= 9
    BY <2>1
  <2>. QED
    BY <1>1, <1>5, <2>2
<1>6. CASE prog = "parse_txout_script_pbk"
  BY <1>6
<1>. QED
  BY <1>2, <1>3, <1>4, <1>5, <1>6, Lengths

------------------------------------------------------------------------------
(* The types. *)

\* Read p has been done.
Done(p) == p < pc /\ p <= Len(Text[prog])

Entries == [name : {"data", "op", "none"}, op : Byte, data : Seq(Byte)]

Shown == [value : Nat, len : Nat, sc : Seq(Byte), ops : Seq(Entries)]

Numbers == Nat \cup {Unset}
Buffers == Seq(Byte) \cup {Unset}

\* The variables of main.
Variables ==
    [version : Numbers, vin_sz : Numbers, pre_txid : Buffers, pre_tx_inx : Numbers,
     sc_size : Numbers, sig : Buffers, pubkey : Buffers, seq_no : Numbers,
     vout_sz : Numbers, txouts : Seq(Shown), lock_time : Numbers]

\* The types, and which of the variables of main are assigned when they are used.
Typing ==
    /\ writer \in Writers
    /\ tx \in Txs /\ Len(tx.vin) < Quad /\ Len(tx.vout) < Quad
    /\ prog \in Parsers
    /\ pc \in 1 .. Len(Text[prog]) + 2
    /\ rest \in Seq(Byte)
    /\ out \in Variables
    /\ Done(5) => out.sc_size \in Nat
    /\ Done(8) => out.vout_sz \in Nat
    /\ prog = "parse_txout_script_pbk" /\ pc = 10 => Last >= 1
    /\ k \in Nat
    /\ i \in Nat
    /\ fault \in {"none", "short", "overrun", "unset", "exit"}

------------------------------------------------------------------------------
(* The stream. *)

\* What is taken from the stream, and what is left.
LEMMA StreamTyped ==
    ASSUME rest \in Seq(Byte), NEW n \in Nat
    PROVE  /\ Drop(n) \in Seq(Byte)
           /\ n <= Len(rest) => /\ Take(n) \in Seq(Byte) /\ Len(Take(n)) = n
                                /\ Len(Drop(n)) = Len(rest) - n
<1>1. Len(rest) \in Nat /\ \A j \in 1 .. Len(rest) : rest[j] \in Byte
  BY ElementOfSeq
<1>2. \A j \in n + 1 .. Len(rest) : rest[j] \in Byte
  BY <1>1
<1>3. /\ Drop(n) \in Seq(Byte)
      /\ Len(Drop(n)) = IF n + 1 <= Len(rest) THEN Len(rest) - (n + 1) + 1 ELSE 0
  BY <1>1, <1>2, SubSeqProperties DEF Drop
<1>4. CASE n <= Len(rest)
  <2>1. \A j \in 1 .. n : rest[j] \in Byte
    BY <1>1, <1>4
  <2>2. /\ Take(n) \in Seq(Byte)
        /\ Len(Take(n)) = IF 1 <= n THEN n - 1 + 1 ELSE 0
    BY <2>1, SubSeqProperties DEF Take
  <2>. QED
    BY <1>1, <1>3, <1>4, <2>2
<1>. QED
  BY <1>3, <1>4

\* A part of the stream.
LEMMA PartTyped ==
    ASSUME rest \in Seq(Byte), NEW a \in Nat \ {0}, NEW b \in Nat, b <= Len(rest)
    PROVE  SubSeq(rest, a, b) \in Seq(Byte)
<1>1. Len(rest) \in Nat /\ \A j \in 1 .. Len(rest) : rest[j] \in Byte
  BY ElementOfSeq
<1>2. \A j \in a .. b : rest[j] \in Byte
  BY <1>1
<1>. QED
  BY <1>2, SubSeqProperties

\* A varint at any place of the stream has bytes, and is a natural.
LEMMA ValueTyped ==
    ASSUME rest \in Seq(Byte), NEW p \in Nat \ {0}
    PROVE  /\ VarintAt(p) \in Nat \ {0}
           /\ p + VarintAt(p) - 1 <= Len(rest) => ValueAt(p) \in Nat
<1>1. VarintAt(p) \in {1, 3, 5, 9}
  BY Sized DEF VarintAt
<1>2. VarintAt(p) \in Nat \ {0}
  BY <1>1
<1>3. ASSUME p + VarintAt(p) - 1 <= Len(rest) PROVE ValueAt(p) \in Nat
  <2>1. Len(rest) \in Nat /\ \A j \in 1 .. Len(rest) : rest[j] \in Byte
    BY ElementOfSeq
  <2>2. p <= Len(rest) /\ p + VarintAt(p) - 1 \in Nat
    BY <1>2, <1>3, <2>1
  <2>3. rest[p] \in Nat
    <3>1. Byte \subseteq Nat
      BY DEF Byte
    <3>2. p \in 1 .. Len(rest)
      BY <2>1, <2>2
    <3>. QED
      BY <2>1, <3>1, <3>2
  <2>4. SubSeq(rest, p + 1, p + VarintAt(p) - 1) \in Seq(Byte)
    <3>1. p + 1 \in Nat \ {0}
      OBVIOUS
    <3>. QED
      BY <1>3, <2>2, <3>1, PartTyped
  <2>5. Num(SubSeq(rest, p + 1, p + VarintAt(p) - 1)) \in Nat
    BY <2>4, NumTyped
  <2>. QED
    BY <2>3, <2>5 DEF ValueAt
<1>. QED
  BY <1>2, <1>3

\* An opcode has a byte or more.
LEMMA OpSized ==
    ASSUME NEW op \in Byte
    PROVE  OpSize(op) \in Nat \ {0}
<1>1. op \in Nat
  BY DEF Byte
<1>. QED
  BY <1>1 DEF OpSize

\* So have the first opcode and the first two.
LEMMA OpsTyped ==
    ASSUME rest \in Seq(Byte)
    PROVE  OneOp \in Nat \ {0} /\ TwoOps \in Nat \ {0} /\ OneOp < TwoOps
<1>1. Len(rest) \in Nat /\ \A j \in 1 .. Len(rest) : rest[j] \in Byte
  BY ElementOfSeq
<1>2. rest # <<>> => 1 \in 1 .. Len(rest)
  BY EmptySeq
<1>3. rest # <<>> => OpSize(rest[1]) \in Nat \ {0}
  BY <1>1, <1>2, OpSized
<1>4. OneOp \in Nat \ {0}
  BY <1>3 DEF OneOp
<1>5. Len(rest) > OneOp => OneOp + 1 \in 1 .. Len(rest)
  BY <1>1, <1>4
<1>6. Len(rest) > OneOp => OpSize(rest[OneOp + 1]) \in Nat \ {0}
  BY <1>1, <1>5, OpSized
<1>7. (IF Len(rest) <= OneOp THEN 1 ELSE OpSize(rest[OneOp + 1])) \in Nat \ {0}
  BY <1>1, <1>4, <1>6
<1>8. TwoOps = OneOp + (IF Len(rest) <= OneOp THEN 1 ELSE OpSize(rest[OneOp + 1]))
  BY DEF TwoOps
<1>. DEFINE z == IF Len(rest) <= OneOp THEN 1 ELSE OpSize(rest[OneOp + 1])
<1>. HIDE DEF z
<1>9. z \in Nat \ {0} /\ TwoOps = OneOp + z
  BY <1>7, <1>8 DEF z
<1>. QED
  BY <1>4, <1>9

\* An output has nine bytes or more.
LEMMA TxoutTyped ==
    ASSUME rest \in Seq(Byte)
    PROVE  /\ TxoutHead \in Nat /\ TxoutHead >= 9
           /\ TxoutHead <= Len(rest) => ValueAt(9) \in Nat /\ TxoutSize = TxoutHead + ValueAt(9)
           /\ TxoutSize \in Nat /\ TxoutSize >= TxoutHead
<1>1. VarintAt(9) \in Nat \ {0} /\ (9 + VarintAt(9) - 1 <= Len(rest) => ValueAt(9) \in Nat)
  BY ValueTyped
<1>2. TxoutHead \in Nat /\ TxoutHead >= 9 /\ 9 + VarintAt(9) - 1 = TxoutHead
  BY <1>1 DEF TxoutHead
<1>3. Len(rest) \in Nat
  OBVIOUS
<1>. QED
  BY <1>1, <1>2, <1>3 DEF TxoutSize

\* What a read asks for.
LEMMA NeedsIs ==
    ASSUME NEW step, At(step)
    PROVE  /\ step \in Words => Needs = 4
           /\ step = "vin_byte" => Needs = 1
           /\ step \in Varints => Needs = VarintAt(1)
           /\ step = "pre_txid" => Needs = HashSize
           /\ step = "btc_sig" => Needs = out.sc_size
           /\ step \in SigOps /\ Coinbase => Needs = out.sc_size
           /\ step = "two_ops" /\ ~Coinbase => Needs = TwoOps
           /\ step = "sc_sig" /\ ~Coinbase => Needs = SigSize
           /\ step = "txout" => Needs = IF k < out.vout_sz THEN TxoutSize ELSE 0
           /\ step = "opcodes" => Needs = OneOp
  BY DEF Needs, At, Words, Varints, SigOps

\* What a read asks for is a number of bytes, the variables it looks at being assigned.
LEMMA NeedsTyped ==
    ASSUME Typing, NEW step, At(step)
    PROVE  Needs \in Nat
<1>1. /\ prog \in Parsers /\ pc \in Nat \ {0} /\ rest \in Seq(Byte)
      /\ Done(5) => out.sc_size \in Nat
  BY Lengths DEF Typing
<1>2. /\ fault = "none" /\ pc \in 1 .. Len(Text[prog])
      /\ pc \in Nat /\ Len(Text[prog]) \in 1 .. 11
  BY <1>1, Places, Lengths
<1>3. step \in Words \cup Varints \cup SigOps \cup {"vin_byte", "pre_txid", "btc_sig", "txout", "opcodes"}
  BY <1>1, <1>2, Places DEF Words, Varints, SigOps
<1>4. step \in SigOps \cup {"btc_sig"} => out.sc_size \in Nat
  <2>1. step \in SigOps \cup {"btc_sig"} => pc = 6
    BY <1>1, Places DEF SigOps
  <2>. QED
    BY <1>1, <1>2, <2>1 DEF Done
<1>5. VarintAt(1) \in Nat
  BY <1>1, ValueTyped
<1>6. OneOp \in Nat /\ TwoOps \in Nat /\ SigSize \in Nat
  BY <1>1, OpsTyped DEF SigSize
<1>7. TxoutSize \in Nat
  BY <1>1, TxoutTyped
<1>8. HashSize \in Nat
  BY Widths
<1>. QED
  BY <1>3, <1>4, <1>5, <1>6, <1>7, <1>8, NeedsIs DEF SigOps

\* The types hold of a file that has been written.
LEMMA TypingInit ==
    ASSUME Init
    PROVE  Typing
<1>1. /\ tx \in Txs /\ Len(tx.vin) < Quad /\ Len(tx.vout) < Quad
      /\ writer \in Writers /\ prog \in Parsers /\ pc = 1 /\ out = Blank /\ k = 0 /\ i = 0
      /\ fault \in {"none", "exit"}
  BY ParseTxAssumption DEF Init, ParseTxAssumption
<1>2. rest \in Seq(Byte)
  <2>1. SeriTx(tx) \in Seq(Byte)
    BY <1>1, Whole, FromTyped
  <2>2. CASE writer = "kyk_seri_tx"
    BY <2>1, <2>2 DEF Init, File
  <2>3. CASE writer = "kyk_tx_inc_ser"
    <3>1. Len(tx.vin) = 1 /\ Len(tx.vout) = 1 /\ rest = IncSer(TxColumns(tx))
      BY <2>3 DEF Init, File
    <3>. QED
      BY <1>1, <2>1, <3>1, Columns
  <2>. QED
    BY <1>1, <2>2, <2>3 DEF Writers
<1>3. out \in Variables
  <2>1. <<>> \in Seq(Shown)
    OBVIOUS
  <2>. QED
    BY <1>1, <2>1 DEF Blank, Variables, Numbers, Buffers
<1>4. Len(Text[prog]) \in 1 .. 11 /\ pc \in 1 .. Len(Text[prog]) + 2
  BY <1>1, Lengths
<1>. QED
  BY <1>1, <1>2, <1>3, <1>4 DEF Typing, Done

\* One variable is assigned.
LEMMA FieldSet ==
    ASSUME out \in Variables, NEW f \in Words \cup Varints, NEW v \in Numbers
    PROVE  /\ [out EXCEPT ![f] = v] \in Variables
           /\ [out EXCEPT ![f] = v][f] = v
           /\ \A g \in DOMAIN Blank \ {f} : [out EXCEPT ![f] = v][g] = out[g]
<1>1. f \in {"version", "pre_tx_inx", "seq_no", "lock_time", "vin_sz", "sc_size", "vout_sz"}
  BY DEF Words, Varints
<1>. QED
  BY <1>1 DEF Variables, Blank

\* What Typing says of a step that reads the next bytes.
LEMMA Advanced ==
    ASSUME Typing, NEW step, At(step), NEW o \in Variables, Reads(o),
           Done(5)' => o.sc_size \in Nat, Done(8)' => o.vout_sz \in Nat, pc # 9
    PROVE  Typing'
<1>1. Needs \in Nat /\ Drop(Needs) \in Seq(Byte)
  <2>1. Needs \in Nat /\ rest \in Seq(Byte)
    BY NeedsTyped DEF Typing
  <2>. QED
    BY <2>1, StreamTyped
<1>2. /\ writer' = writer /\ tx' = tx /\ prog' = prog /\ k' = k /\ i' = i /\ fault' = fault
      /\ rest' = Drop(Needs) /\ out' = o /\ pc' = pc + 1
  BY DEF Reads
<1>3. pc \in 1 .. Len(Text[prog]) /\ pc \in Nat \ {0} /\ Len(Text[prog]) \in 1 .. 11
  <2>1. prog \in Parsers /\ pc \in Nat \ {0}
    BY Lengths DEF Typing
  <2>. QED
    BY <2>1, Places, Lengths
<1>4. pc' \in 1 .. Len(Text[prog])' + 2 /\ pc' # 10
  BY <1>2, <1>3
<1>. QED
  BY <1>1, <1>2, <1>4 DEF Typing

\* They do when a number is read,
LEMMA TypingField ==
    ASSUME Typing, NEW f \in Words \cup Varints, At(f), NEW v \in Nat,
           Reads([out EXCEPT ![f] = v])
    PROVE  Typing'
<1>. DEFINE o == [out EXCEPT ![f] = v]
<1>1. out \in Variables /\ prog \in Parsers /\ pc \in Nat \ {0} /\ Len(Text[prog]) \in 1 .. 11
  BY Lengths DEF Typing
<1>2. /\ o \in Variables /\ o[f] = v
      /\ \A g \in DOMAIN Blank \ {f} : o[g] = out[g]
  BY <1>1, FieldSet DEF Numbers
<1>3. pc' = pc + 1 /\ prog' = prog
  BY DEF Reads
<1>. HIDE DEF o
<1>4. ASSUME Done(5)' PROVE o.sc_size \in Nat
  <2>1. CASE f = "sc_size"
    BY <1>2, <2>1
  <2>2. CASE f # "sc_size"
    <3>1. pc # 5 /\ Done(5)
      BY <1>1, <1>3, <1>4, <2>2, Places DEF Done
    <3>2. "sc_size" \in DOMAIN Blank \ {f}
      BY <2>2 DEF Blank
    <3>3. o["sc_size"] = out["sc_size"]
      BY <1>2, <3>2
    <3>. QED
      BY <3>1, <3>3 DEF Typing
  <2>. QED
    BY <2>1, <2>2
<1>5. ASSUME Done(8)' PROVE o.vout_sz \in Nat
  <2>1. CASE f = "vout_sz"
    BY <1>2, <2>1
  <2>2. CASE f # "vout_sz"
    <3>1. pc # 8 /\ Done(8)
      BY <1>1, <1>3, <1>5, <2>2, Places DEF Done
    <3>2. "vout_sz" \in DOMAIN Blank \ {f}
      BY <2>2 DEF Blank
    <3>3. o["vout_sz"] = out["vout_sz"]
      BY <1>2, <3>2
    <3>. QED
      BY <3>1, <3>3 DEF Typing
  <2>. QED
    BY <2>1, <2>2
<1>6. pc # 9
  BY <1>1, Places DEF Words, Varints
<1>7. Reads(o)
  BY DEF o
<1>. QED
  BY <1>2, <1>4, <1>5, <1>6, <1>7, Advanced

\* A buffer is filled.
LEMMA TypingBuffer ==
    ASSUME Typing, NEW step, At(step), NEW o \in Variables, Reads(o),
           o.sc_size = out.sc_size, o.vout_sz = out.vout_sz, pc \in {3, 6}
    PROVE  Typing'
<1>1. prog \in Parsers /\ pc \in Nat \ {0} /\ pc' = pc + 1 /\ prog' = prog
      /\ Len(Text[prog]) \in 1 .. 11
  BY Lengths DEF Typing, Reads
<1>2. Done(5)' => Done(5)
  BY <1>1 DEF Done
<1>3. Done(8)' => Done(8)
  BY <1>1 DEF Done
<1>4. (Done(5) => out.sc_size \in Nat) /\ (Done(8) => out.vout_sz \in Nat)
  BY DEF Typing
<1>5. pc # 9
  OBVIOUS
<1>6. (Done(5)' => o.sc_size \in Nat) /\ (Done(8)' => o.vout_sz \in Nat)
  BY <1>2, <1>3, <1>4
<1>. QED
  BY <1>5, <1>6, Advanced

\* one of four bytes,
LEMMA TypingWord ==
    ASSUME Typing, NEW f \in Words, ReadWord(f)
    PROVE  Typing'
<1>1. At(f) /\ rest \in Seq(Byte) /\ f \in Words \cup Varints
  BY DEF ReadWord, Typing
<1>2. Needs = 4 /\ Len(rest) >= 4
  BY <1>1, NeedsIs DEF ReadWord, Reads
<1>3. Num(Take(4)) \in Nat
  BY <1>1, <1>2, StreamTyped, NumTyped
<1>. DEFINE v == Num(Take(4))
<1>4. Reads([out EXCEPT ![f] = v])
  BY DEF ReadWord
<1>. HIDE DEF v
<1>. QED
  BY <1>1, <1>3, <1>4, TypingField DEF v

\* a varint,
LEMMA TypingVarint ==
    ASSUME Typing, NEW f \in Varints, ReadVarint(f)
    PROVE  Typing'
<1>1. At(f) /\ rest \in Seq(Byte) /\ f \in Words \cup Varints
  BY DEF ReadVarint, Typing
<1>2. Needs = VarintAt(1) /\ Len(rest) >= VarintAt(1)
  BY <1>1, NeedsIs DEF ReadVarint, Reads
<1>3. ValueAt(1) \in Nat
  <2>1. VarintAt(1) \in Nat /\ (1 + VarintAt(1) - 1 <= Len(rest) => ValueAt(1) \in Nat)
    BY <1>1, ValueTyped
  <2>2. Len(rest) \in Nat
    BY <1>1
  <2>. QED
    BY <1>2, <2>1, <2>2
<1>. DEFINE v == ValueAt(1)
<1>4. Reads([out EXCEPT ![f] = v])
  BY DEF ReadVarint
<1>. HIDE DEF v
<1>. QED
  BY <1>1, <1>3, <1>4, TypingField DEF v

\* or a byte,
LEMMA TypingVinByte ==
    ASSUME Typing, ReadVinByte
    PROVE  Typing'
<1>1. /\ At("vin_byte") /\ rest \in Seq(Byte) /\ out \in Variables /\ prog \in Parsers
      /\ pc \in Nat \ {0} /\ Len(Text[prog]) \in 1 .. 11
      /\ (Done(5) => out.sc_size \in Nat) /\ (Done(8) => out.vout_sz \in Nat)
  BY Lengths DEF ReadVinByte, Typing
<1>2. Needs = 1 /\ Len(rest) >= 1 /\ pc = 2 /\ pc' = 3
  BY <1>1, NeedsIs, Places DEF ReadVinByte, Reads
<1>3. rest[1] \in Nat
  <2>1. 1 \in 1 .. Len(rest) /\ Byte \subseteq Nat
    BY <1>1, <1>2 DEF Byte
  <2>. QED
    BY <1>1, <2>1, ElementOfSeq
<1>. DEFINE v == rest[1]
            o == [out EXCEPT !.vin_sz = v]
<1>4. Reads(o)
  BY DEF ReadVinByte
<1>. HIDE DEF v
<1>5. o \in Variables
  BY <1>1, <1>3 DEF v, Variables, Numbers
<1>. HIDE DEF o
<1>6. ~Done(5)' /\ ~Done(8)' /\ pc # 9
  BY <1>2 DEF Done
<1>. QED
  BY <1>1, <1>4, <1>5, <1>6, Advanced

\* when a hash is read,
LEMMA TypingHash ==
    ASSUME Typing, ReadHash
    PROVE  Typing'
<1>1. /\ At("pre_txid") /\ rest \in Seq(Byte) /\ out \in Variables /\ prog \in Parsers
      /\ pc \in Nat \ {0} /\ HashSize \in Nat
  BY Lengths, Widths DEF ReadHash, Typing
<1>2. Needs = HashSize /\ Len(rest) >= HashSize /\ pc = 3
  BY <1>1, NeedsIs, Places DEF ReadHash, Reads
<1>3. Reversed(Take(HashSize)) \in Seq(Byte)
  BY <1>1, <1>2, StreamTyped, Turned
<1>. DEFINE v == Reversed(Take(HashSize))
            o == [out EXCEPT !.pre_txid = v]
<1>4. Reads(o)
  BY DEF ReadHash
<1>. HIDE DEF v
<1>5. o \in Variables /\ o.sc_size = out.sc_size /\ o.vout_sz = out.vout_sz
  BY <1>1, <1>3 DEF v, Variables, Buffers
<1>. HIDE DEF o
<1>. QED
  BY <1>1, <1>2, <1>4, <1>5, TypingBuffer

\* The size of a script has been read before the script is.
LEMMA SizeKnown ==
    ASSUME Typing, NEW step \in SigOps \cup {"btc_sig"}, At(step)
    PROVE  out.sc_size \in Nat /\ pc = 6
<1>1. prog \in Parsers /\ pc \in Nat \ {0} /\ Len(Text[prog]) \in 1 .. 11
  BY Lengths DEF Typing
<1>2. pc = 6 /\ pc \in 1 .. Len(Text[prog])
  BY <1>1, Places DEF SigOps
<1>. QED
  BY <1>1, <1>2 DEF Typing, Done

\* when a script is read whole,
LEMMA TypingSig ==
    ASSUME Typing, NEW step \in SigOps \cup {"btc_sig"}, At(step), Needs = out.sc_size,
           Reads([out EXCEPT !.sig = Take(out.sc_size)])
    PROVE  Typing'
<1>1. /\ rest \in Seq(Byte) /\ out \in Variables /\ out.sc_size \in Nat /\ pc = 6
      /\ Len(rest) >= out.sc_size
  BY SizeKnown DEF Typing, Reads
<1>2. Take(out.sc_size) \in Seq(Byte)
  BY <1>1, StreamTyped
<1>. DEFINE v == Take(out.sc_size)
            o == [out EXCEPT !.sig = v]
<1>. HIDE DEF v
<1>3. o \in Variables /\ o.sc_size = out.sc_size /\ o.vout_sz = out.vout_sz
  BY <1>1, <1>2 DEF v, Variables, Buffers
<1>4. Reads(o)
  BY DEF v
<1>. HIDE DEF o
<1>. QED
  BY <1>1, <1>3, <1>4, TypingBuffer

\* What an opcode leaves in a text is bytes, or what was there.
LEMMA PushedTyped ==
    ASSUME rest \in Seq(Byte), NEW p \in 1 .. Len(rest), p - 1 + OpSize(rest[p]) <= Len(rest),
           NEW old \in Buffers
    PROVE  Pushed(p, old) \in Buffers
<1>1. rest[p] \in Nat /\ Len(rest) \in Nat
  <2>1. Byte \subseteq Nat
    BY DEF Byte
  <2>2. \A j \in 1 .. Len(rest) : rest[j] \in Byte
    BY ElementOfSeq
  <2>3. rest[p] \in Nat
    BY <2>1, <2>2
  <2>4. Len(rest) \in Nat
    BY LenProperties
  <2>. QED
    BY <2>3, <2>4
<1>2. CASE IsPush(rest[p])
  <2>1. OpSize(rest[p]) = rest[p] + 1
    BY <1>2 DEF OpSize
  <2>2. p + rest[p] \in Nat /\ p + rest[p] <= Len(rest) /\ p + 1 \in Nat \ {0}
    <3>. DEFINE y == rest[p]
    <3>1. y \in Nat /\ p - 1 + (y + 1) <= Len(rest)
      BY <1>1, <2>1
    <3>. HIDE DEF y
    <3>2. p + y \in Nat /\ p + y <= Len(rest) /\ p + 1 \in Nat \ {0}
      BY <1>1, <3>1
    <3>. QED
      BY <3>2 DEF y
  <2>3. SubSeq(rest, p + 1, p + rest[p]) \in Seq(Byte)
    BY <2>2, PartTyped
  <2>. QED
    BY <1>2, <2>3 DEF Pushed, Buffers
<1>3. CASE ~IsPush(rest[p])
  BY <1>3 DEF Pushed
<1>. QED
  BY <1>2, <1>3

\* when the first opcodes of a script are read,
LEMMA TypingScriptSig ==
    ASSUME Typing, NEW step \in SigOps, ReadScriptSig(step)
    PROVE  Typing'
<1>1. /\ At(step) /\ ~Coinbase /\ rest \in Seq(Byte) /\ out \in Variables /\ pc = 6
      /\ step \in SigOps \cup {"btc_sig"} /\ out.sc_size \in Nat /\ Len(rest) \in Nat
      /\ Len(rest) >= Needs
  BY SizeKnown DEF Typing, ReadScriptSig, Reads
<1>2. OneOp \in Nat \ {0} /\ TwoOps \in Nat \ {0} /\ OneOp < TwoOps
  BY <1>1, OpsTyped
<1>3. Needs \in {OneOp, TwoOps}
  BY <1>1, NeedsIs DEF SigOps, SigSize
<1>4. 1 \in 1 .. Len(rest) /\ 1 - 1 + OpSize(rest[1]) <= Len(rest)
  <2>1. Len(rest) >= OneOp
    BY <1>1, <1>2, <1>3
  <2>2. rest # <<>> /\ 1 \in 1 .. Len(rest)
    BY <1>1, <1>2, <2>1, EmptySeq
  <2>3. OneOp = OpSize(rest[1])
    BY <2>2 DEF OneOp
  <2>. QED
    BY <1>1, <1>2, <2>1, <2>2, <2>3
<1>5. out.sig \in Buffers /\ out.pubkey \in Buffers
  BY <1>1 DEF Variables
<1>6. Pushed(1, out.sig) \in Buffers
  BY <1>1, <1>4, <1>5, PushedTyped
<1>7. Needs > OneOp => Pushed(OneOp + 1, out.pubkey) \in Buffers
  <2>1. SUFFICES ASSUME Needs > OneOp PROVE Pushed(OneOp + 1, out.pubkey) \in Buffers
    OBVIOUS
  <2>2. Needs = TwoOps /\ Len(rest) >= TwoOps
    BY <1>1, <1>2, <1>3, <2>1
  <2>3. Len(rest) > OneOp /\ OneOp + 1 \in 1 .. Len(rest)
    BY <1>1, <1>2, <2>2
  <2>4. TwoOps = OneOp + OpSize(rest[OneOp + 1])
    BY <1>1, <1>2, <2>3 DEF TwoOps
  <2>. DEFINE p == OneOp + 1
  <2>5. p - 1 = OneOp /\ p \in 1 .. Len(rest)
    BY <1>2, <2>3
  <2>6. p - 1 + OpSize(rest[p]) <= Len(rest)
    BY <2>2, <2>4, <2>5
  <2>. HIDE DEF p
  <2>7. Pushed(p, out.pubkey) \in Buffers
    BY <1>1, <1>5, <2>5, <2>6, PushedTyped
  <2>. QED
    BY <2>7 DEF p
<1>. DEFINE u == Pushed(1, out.sig)
            v == IF Needs > OneOp THEN Pushed(OneOp + 1, out.pubkey) ELSE out.pubkey
            o == [out EXCEPT !.sig = u, !.pubkey = v]
<1>8. u \in Buffers /\ v \in Buffers
  BY <1>5, <1>6, <1>7
<1>9. Reads(o)
  BY DEF ReadScriptSig
<1>. HIDE DEF u, v
<1>10. o \in Variables /\ o.sc_size = out.sc_size /\ o.vout_sz = out.vout_sz
  BY <1>1, <1>8 DEF Variables, Buffers
<1>. HIDE DEF o
<1>. QED
  BY <1>1, <1>9, <1>10, TypingBuffer

\* What is appended to the outputs.
LEMMA Listing ==
    ASSUME out \in Variables, NEW e \in Shown
    PROVE  LET o == [out EXCEPT !.txouts = Append(@, e)]
           IN  /\ o \in Variables /\ o.txouts = Append(out.txouts, e)
               /\ Len(o.txouts) = Len(out.txouts) + 1
               /\ o.sc_size = out.sc_size /\ o.vout_sz = out.vout_sz
<1>. DEFINE a == Append(out.txouts, e)
<1>1. out.txouts \in Seq(Shown)
  BY DEF Variables
<1>2. a \in Seq(Shown) /\ Len(a) = Len(out.txouts) + 1
  BY <1>1
<1>. HIDE DEF a
<1>3. [out EXCEPT !.txouts = a] \in Variables
  BY <1>2 DEF Variables
<1>4. /\ [out EXCEPT !.txouts = a].txouts = a
      /\ [out EXCEPT !.txouts = a].sc_size = out.sc_size
      /\ [out EXCEPT !.txouts = a].vout_sz = out.vout_sz
  BY DEF Variables
<1>. QED
  BY <1>2, <1>3, <1>4 DEF a

\* when an output is read,
LEMMA TypingTxout ==
    ASSUME Typing, ReadTxout
    PROVE  Typing'
<1>1. /\ At("txout") /\ rest \in Seq(Byte) /\ out \in Variables /\ prog \in Parsers
      /\ pc \in Nat \ {0} /\ Len(Text[prog]) \in 1 .. 11 /\ k \in Nat
  BY Lengths DEF Typing, ReadTxout
<1>2. pc = 9 /\ pc \in 1 .. Len(Text[prog]) /\ Needs = TxoutSize /\ Len(rest) >= TxoutSize
  BY <1>1, Places, NeedsIs DEF ReadTxout
<1>3. /\ TxoutHead \in Nat /\ TxoutHead >= 9 /\ TxoutSize \in Nat /\ TxoutHead <= TxoutSize
      /\ ValueAt(9) \in Nat /\ Len(rest) \in Nat
  <2>1. Len(rest) \in Nat
    BY <1>1
  <2>. QED
    BY <1>1, <1>2, <2>1, TxoutTyped
<1>. DEFINE e == [value |-> Num(Take(8)), len |-> ValueAt(9),
                  sc |-> SubSeq(rest, TxoutHead + 1, TxoutSize), ops |-> <<>>]
            o == [out EXCEPT !.txouts = Append(@, e)]
<1>4. e \in Shown
  <2>1. Take(8) \in Seq(Byte)
    BY <1>1, <1>2, <1>3, StreamTyped
  <2>2. Num(Take(8)) \in Nat
    BY <2>1, NumTyped
  <2>3. TxoutHead + 1 \in Nat \ {0}
    BY <1>3
  <2>4. SubSeq(rest, TxoutHead + 1, TxoutSize) \in Seq(Byte)
    BY <1>1, <1>2, <1>3, <2>3, PartTyped
  <2>. QED
    BY <1>3, <2>2, <2>4 DEF Shown
<1>5. out' = o
  BY DEF ReadTxout
<1>6. Drop(TxoutHead) \in Seq(Byte) /\ Drop(TxoutSize) \in Seq(Byte)
  BY <1>1, <1>3, StreamTyped
<1>. HIDE DEF e
<1>7. o \in Variables /\ Len(o.txouts) = Len(out.txouts) + 1 /\ o.sc_size = out.sc_size
      /\ o.vout_sz = out.vout_sz
  BY <1>1, <1>4, Listing
<1>. HIDE DEF o
<1>8. Len(out.txouts) \in Nat
  BY <1>1 DEF Variables
<1>9. rest' \in Seq(Byte) /\ k' \in Nat /\ i' \in Nat
  BY <1>1, <1>6 DEF ReadTxout
<1>10. pc' \in 1 .. Len(Text[prog]) + 2
  BY <1>1, <1>2 DEF ReadTxout
<1>11. Done(5) /\ Done(8)
  BY <1>1, <1>2 DEF Done
<1>12. out.sc_size \in Nat /\ out.vout_sz \in Nat
  BY <1>11 DEF Typing
<1>13. Last' >= 1
  BY <1>5, <1>7, <1>8 DEF Last
<1>14. writer' = writer /\ tx' = tx /\ prog' = prog /\ fault' = fault
  BY DEF ReadTxout
<1>. QED
  BY <1>5, <1>7, <1>9, <1>10, <1>12, <1>13, <1>14 DEF Typing

\* An entry of the stack is one.
LEMMA EntryTyped ==
    ASSUME NEW s \in Seq(Byte), s # <<>>
    PROVE  Entry(s) \in Entries
<1>1. s[1] \in Byte /\ 0 \in Byte
  <2>1. 1 \in 1 .. Len(s)
    BY EmptySeq
  <2>2. 0 \in Byte
    BY BaseAssumption DEF BaseAssumption, Byte
  <2>. QED
    BY <2>1, <2>2, ElementOfSeq
<1>2. Tail(s) \in Seq(Byte)
  OBVIOUS
<1>. QED
  BY <1>1, <1>2 DEF Entry, Entries

\* What a turn of the loop over the opcodes does to the last output.
LEMMA Stacking ==
    ASSUME out \in Variables, NEW e \in Entries, Last >= 1
    PROVE  LET o == [out EXCEPT !.txouts[Last].ops = Append(@, e)]
               w == out.txouts[Last]
           IN  /\ o \in Variables
               /\ o.txouts = [out.txouts EXCEPT ![Last] = [w EXCEPT !.ops = Append(w.ops, e)]]
               /\ Len(o.txouts) = Len(out.txouts)
               /\ o.sc_size = out.sc_size /\ o.vout_sz = out.vout_sz
<1>. DEFINE w == out.txouts[Last]
            a == Append(w.ops, e)
            u == [w EXCEPT !.ops = a]
            q == [out.txouts EXCEPT ![Last] = u]
<1>1. out.txouts \in Seq(Shown) /\ Last \in 1 .. Len(out.txouts)
  <2>1. out.txouts \in Seq(Shown)
    BY DEF Variables
  <2>2. Len(out.txouts) \in Nat
    BY <2>1
  <2>. QED
    BY <2>1, <2>2 DEF Last
<1>2. w \in Shown
  BY <1>1, ElementOfSeq
<1>. HIDE DEF w
<1>3. w.ops \in Seq(Entries)
  BY <1>2 DEF Shown
<1>4. a \in Seq(Entries)
  BY <1>3
<1>. HIDE DEF a
<1>5. u \in Shown
  BY <1>2, <1>4 DEF Shown
<1>. HIDE DEF u
<1>6. q \in Seq(Shown) /\ Len(q) = Len(out.txouts)
  BY <1>1, <1>5, ExceptSeq
<1>7. [out EXCEPT !.txouts = q] \in Variables
  <2>. HIDE DEF q
  <2>. QED
    BY <1>6 DEF Variables
<1>8. /\ [out EXCEPT !.txouts = q].txouts = q
      /\ [out EXCEPT !.txouts = q].sc_size = out.sc_size
      /\ [out EXCEPT !.txouts = q].vout_sz = out.vout_sz
  <2>. HIDE DEF q
  <2>. QED
    BY DEF Variables
<1>9. [out EXCEPT !.txouts[Last].ops = Append(@, e)] = [out EXCEPT !.txouts = q]
  BY DEF q, u, a, w
<1>. QED
  BY <1>6, <1>7, <1>8, <1>9 DEF q, u, a, w

\* when an opcode of its script is,
LEMMA TypingOpcode ==
    ASSUME Typing, ParseOpcode
    PROVE  Typing'
<1>1. /\ At("opcodes") /\ rest \in Seq(Byte) /\ out \in Variables /\ prog \in Parsers
      /\ pc \in Nat \ {0} /\ Len(Text[prog]) \in 1 .. 11 /\ k \in Nat /\ i \in Nat
  BY Lengths DEF Typing, ParseOpcode
<1>2. pc = 10 /\ prog = "parse_txout_script_pbk" /\ pc \in 1 .. Len(Text[prog]) /\ Needs = OneOp
      /\ Len(rest) >= OneOp
  <2>1. pc = 10 /\ prog = "parse_txout_script_pbk" /\ pc \in 1 .. Len(Text[prog])
    <3>1. pc \in 1 .. Len(Text[prog]) /\ pc = 10
      BY <1>1, Places
    <3>3. prog = "parse_txout_script_pbk"
      BY <1>1, <3>1, LongParsers
    <3>. QED
      BY <3>1, <3>3
  <2>2. Needs = OneOp
    BY <1>1, NeedsIs
  <2>3. Len(rest) >= Needs
    BY DEF ParseOpcode
  <2>. QED
    BY <2>1, <2>2, <2>3
<1>3. OneOp \in Nat \ {0} /\ Len(rest) \in Nat
  BY <1>1, OpsTyped
<1>4. Last >= 1
  BY <1>2 DEF Typing
<1>5. Take(OneOp) \in Seq(Byte) /\ Len(Take(OneOp)) = OneOp /\ Drop(OneOp) \in Seq(Byte)
  BY <1>1, <1>2, <1>3, StreamTyped
<1>6. Take(OneOp) # <<>>
  BY <1>3, <1>5, EmptySeq
<1>. DEFINE e == Entry(Take(OneOp))
            o == [out EXCEPT !.txouts[Last].ops = Append(@, e)]
<1>7. e \in Entries
  BY <1>5, <1>6, EntryTyped
<1>8. out' = o
  BY DEF ParseOpcode
<1>. HIDE DEF e
<1>9. o \in Variables /\ Len(o.txouts) = Len(out.txouts) /\ o.sc_size = out.sc_size
      /\ o.vout_sz = out.vout_sz
  BY <1>1, <1>4, <1>7, Stacking
<1>. HIDE DEF o
<1>10. rest' \in Seq(Byte) /\ k' \in Nat /\ i' \in Nat
  BY <1>1, <1>3, <1>5 DEF ParseOpcode
<1>11. pc' \in 1 .. Len(Text[prog]) + 2
  BY <1>1, <1>2 DEF ParseOpcode
<1>12. out.sc_size \in Nat /\ out.vout_sz \in Nat
  <2>1. Done(5) /\ Done(8)
    BY <1>1, <1>2 DEF Done
  <2>. QED
    BY <2>1 DEF Typing
<1>13. Last' >= 1
  BY <1>4, <1>8, <1>9 DEF Last
<1>14. writer' = writer /\ tx' = tx /\ prog' = prog /\ fault' = fault
  BY DEF ParseOpcode
<1>. QED
  BY <1>8, <1>9, <1>10, <1>11, <1>12, <1>13, <1>14 DEF Typing

\* A step that only says what went wrong, or only goes on.
LEMMA TypingFault ==
    ASSUME Typing, UNCHANGED <<writer, tx, prog, pc, rest, out, k, i>>,
           fault' \in {"none", "short", "overrun", "unset", "exit"}
    PROVE  Typing'
  BY DEF Typing, Done, Last

\* and when a parser goes on or prints.
LEMMA TypingGoOn ==
    ASSUME Typing, TxoutsRead \/ PrintOut
    PROVE  Typing'
<1>1. /\ prog \in Parsers /\ pc \in Nat \ {0} /\ Len(Text[prog]) \in 1 .. 11
      /\ (Done(5) => out.sc_size \in Nat) /\ (Done(8) => out.vout_sz \in Nat)
  BY Lengths DEF Typing
<1>2. CASE TxoutsRead
  <2>1. pc = 9 /\ pc \in 1 .. Len(Text[prog])
    BY <1>1, <1>2, Places DEF TxoutsRead
  <2>2. pc' \in {10, 11} /\ (prog = "parse_txout_script_pbk" => pc' = 11)
        /\ (prog # "parse_txout_script_pbk" => pc' = 10)
    BY <1>2, <2>1 DEF TxoutsRead
  <2>3. Len(Text[prog]) >= 9 /\ pc' \in 1 .. Len(Text[prog]) + 2
    BY <1>1, <2>1, <2>2
  <2>4. Done(5) /\ Done(8)
    BY <1>1, <2>1 DEF Done
  <2>. QED
    BY <1>1, <1>2, <2>2, <2>3, <2>4 DEF Typing, TxoutsRead
<1>3. CASE PrintOut
  <2>1. pc = Len(Text[prog]) + 1 /\ pc' = pc + 1 /\ fault' \in {"none", "unset"}
        /\ UNCHANGED <<writer, tx, prog, rest, out, k, i>>
    BY <1>3 DEF PrintOut
  <2>2. (Done(5)' <=> Done(5)) /\ (Done(8)' <=> Done(8)) /\ pc' \in 1 .. Len(Text[prog]) + 2
    BY <1>1, <2>1 DEF Done
  <2>3. ~(prog = "parse_txout_script_pbk" /\ pc' = 10)
    <3>1. SUFFICES ASSUME prog = "parse_txout_script_pbk" PROVE pc' # 10
      OBVIOUS
    <3>2. Len(Text[prog]) = 11
      BY <1>1, <3>1, Lengths
    <3>. DEFINE n == Len(Text[prog])
    <3>3. n = 11 /\ pc' = n + 1 + 1
      BY <2>1, <3>2
    <3>. HIDE DEF n
    <3>. QED
      BY <3>3
  <2>. QED
    BY <2>1, <2>2, <2>3 DEF Typing
<1>. QED
  BY <1>2, <1>3

\* Every step keeps the types.
LEMMA TypingStep ==
    ASSUME Typing, Step
    PROVE  Typing'
<1>1. CASE \E f \in Words : ReadWord(f)
  BY <1>1, TypingWord
<1>2. CASE \E f \in Varints : ReadVarint(f)
  BY <1>2, TypingVarint
<1>3. CASE \E step \in SigOps : ReadCoinbase(step)
  <2>1. PICK step \in SigOps : ReadCoinbase(step)
    BY <1>3
  <2>2. /\ At(step) /\ step \in SigOps \cup {"btc_sig"} /\ Coinbase
        /\ Reads([out EXCEPT !.sig = Take(out.sc_size)])
    BY <2>1 DEF ReadCoinbase
  <2>3. Needs = out.sc_size
    BY <2>2, NeedsIs
  <2>. QED
    BY <2>2, <2>3, TypingSig
<1>4. CASE \E step \in SigOps : OverrunCoinbase(step)
  BY <1>4, TypingFault DEF OverrunCoinbase
<1>5. CASE \E step \in SigOps : ReadScriptSig(step)
  BY <1>5, TypingScriptSig
<1>6. CASE ReadVinByte
  BY <1>6, TypingVinByte
<1>7. CASE ReadHash
  BY <1>7, TypingHash
<1>8. CASE ReadSig
  <2>1. At("btc_sig") /\ Reads([out EXCEPT !.sig = Take(out.sc_size)])
    BY <1>8 DEF ReadSig
  <2>2. Needs = out.sc_size
    BY <2>1, NeedsIs
  <2>. QED
    BY <2>1, <2>2, TypingSig
<1>9. CASE ReadTxout
  BY <1>9, TypingTxout
<1>10. CASE TxoutsRead \/ PrintOut
  BY <1>10, TypingGoOn
<1>11. CASE ParseOpcode
  BY <1>11, TypingOpcode
<1>12. CASE OverrunStack \/ EndOfFile
  BY <1>12, TypingFault DEF OverrunStack, EndOfFile
<1>. QED
  BY <1>1, <1>2, <1>3, <1>4, <1>5, <1>6, <1>7, <1>8, <1>9, <1>10, <1>11, <1>12 DEF Step

------------------------------------------------------------------------------
(* Scripts, opcode by opcode. *)

\* The place behind the opcode that begins behind place x, or one past the end.
NextCut(s, x) == IF x < Len(s) THEN x + OpSize(s[x + 1]) ELSE Len(s) + 1

\* Where an opcode ends is a place.
LEMMA NextCutTyped ==
    ASSUME NEW s \in Seq(Byte), NEW x \in Nat
    PROVE  NextCut(s, x) \in Nat
<1>1. Len(s) \in Nat
  BY LenProperties
<1>2. CASE x < Len(s)
  <2>1. x + 1 \in 1 .. Len(s)
    BY <1>1, <1>2
  <2>2. s[x + 1] \in Byte
    BY <2>1, ElementOfSeq
  <2>3. OpSize(s[x + 1]) \in Nat
    BY <2>2, OpSized
  <2>. QED
    BY <1>2, <2>3 DEF NextCut
<1>3. CASE ~(x < Len(s))
  BY <1>1, <1>3 DEF NextCut
<1>. QED
  BY <1>2, <1>3

\* The places the opcodes of a script end at, one after another.
LEMMA CutsDef ==
    ASSUME NEW s \in Seq(Byte), NEW n \in Nat
    PROVE  /\ CutsOf(s, n) \in [0 .. n -> Nat]
           /\ CutsOf(s, n)[0] = 0
           /\ \A j \in 1 .. n : CutsOf(s, n)[j] = NextCut(s, CutsOf(s, n)[j - 1])
<1>. DEFINE F(p) == [j \in 0 .. n |-> IF j = 0 THEN 0
                                      ELSE IF p[j - 1] < Len(s) THEN p[j - 1] + OpSize(s[p[j - 1] + 1])
                                      ELSE Len(s) + 1]
            H(p) == [j \in 0 .. n |-> IF j = 0 THEN 0 ELSE NextCut(s, p[j - 1])]
            v == CHOOSE q : q = F(q)
            G == [x \in (1 .. n) \X Nat |-> NextCut(s, x[2])]
<1>1. \A x \in Nat : NextCut(s, x) \in Nat
  BY NextCutTyped
<1>2. G \in [(1 .. n) \X Nat -> Nat] /\ \A j \in 1 .. n, x \in Nat : G[<<j, x>>] = NextCut(s, x)
  BY <1>1
<1>3. PICK f \in [0 .. n -> Nat] : StepSolves(f, n, 0, G)
  <2>. HIDE DEF G
  <2>. QED
    BY <1>2, StepSolution
<1>4. f = H(f)
  <2>. HIDE DEF G
  <2>1. \A j \in 1 .. n : j \in 1 .. n /\ f[j - 1] \in Nat
    BY <1>3
  <2>2. \A j \in 1 .. n : f[j] = NextCut(s, f[j - 1])
    BY <1>2, <1>3, <2>1 DEF StepSolves
  <2>. QED
    BY <1>3, <2>2 DEF StepSolves
<1>5. \A p : H(p) = F(p)
  BY DEF NextCut
<1>6. v = F(v)
  <2>1. f = F(f)
    BY <1>4, <1>5
  <2>. QED
    BY <2>1
<1>7. v = H(v)
  BY <1>5, <1>6
<1>. HIDE DEF v
<1>8. v[0] = 0 /\ \A j \in 1 .. n : v[j] = NextCut(s, v[j - 1])
  BY <1>7
<1>9. v \in [0 .. n -> {v[j] : j \in 0 .. n}]
  <2>1. v = [j \in 0 .. n |-> v[j]]
    BY <1>7
  <2>. QED
    BY <2>1, FunctionIn
<1>10. v \in [0 .. n -> Nat]
  <2>. DEFINE W == {v[j] : j \in 0 .. n}
  <2>1. v \in [0 .. n -> W]
    BY <1>9
  <2>2. ASSUME NEW j \in 1 .. n, v[j - 1] \in Nat PROVE v[j] \in Nat
    BY <1>1, <1>8, <2>2
  <2>3. v[0] \in Nat
    BY <1>8
  <2>. HIDE DEF W
  <2>. QED
    BY <2>1, <2>2, <2>3, StepType
<1>11. CutsOf(s, n) = v
  BY DEF CutsOf, v
<1>. QED
  BY <1>8, <1>10, <1>11

\* The cuts of fewer opcodes are the first of the cuts.
LEMMA CutsPrefix ==
    ASSUME NEW s \in Seq(Byte), NEW n \in Nat, NEW m \in 0 .. n, NEW j \in 0 .. m
    PROVE  CutsOf(s, m)[j] = CutsOf(s, n)[j]
<1>. DEFINE a == CutsOf(s, m)
            b == CutsOf(s, n)
            S == {l \in 0 .. m : a[l] = b[l]}
<1>1. /\ a[0] = 0 /\ \A l \in 1 .. m : a[l] = NextCut(s, a[l - 1])
      /\ b[0] = 0 /\ \A l \in 1 .. n : b[l] = NextCut(s, b[l - 1])
      /\ m \in Nat
  <2>1. m \in Nat
    OBVIOUS
  <2>2. a[0] = 0 /\ \A l \in 1 .. m : a[l] = NextCut(s, a[l - 1])
    BY <2>1, CutsDef
  <2>3. b[0] = 0 /\ \A l \in 1 .. n : b[l] = NextCut(s, b[l - 1])
    BY CutsDef
  <2>. QED
    BY <2>1, <2>2, <2>3
<1>. HIDE DEF a, b
<1>2. 0 \in S
  BY <1>1
<1>3. ASSUME NEW l \in 1 .. m, l - 1 \in S PROVE l \in S
  <2>1. l \in 1 .. n /\ l \in 0 .. m
    BY <1>1
  <2>2. a[l - 1] = b[l - 1]
    BY <1>3
  <2>3. a[l] = b[l]
    BY <1>1, <2>1, <2>2
  <2>. QED
    BY <2>1, <2>3
<1>. HIDE DEF S
<1>4. j \in S
  BY <1>1, <1>2, <1>3, BoundedInduction
<1>. QED
  BY <1>4 DEF S, a, b

\* Behind the end there is no opcode.
LEMMA CutsPast ==
    ASSUME NEW s \in Seq(Byte), NEW n \in Nat, NEW j \in 0 .. n, CutsOf(s, n)[j] >= Len(s),
           NEW l \in j + 1 .. n
    PROVE  CutsOf(s, n)[l] = Len(s) + 1
<1>. DEFINE a == CutsOf(s, n)
            S == {x \in 0 .. n : x > j => a[x] = Len(s) + 1}
<1>1. /\ a \in [0 .. n -> Nat] /\ \A x \in 1 .. n : a[x] = NextCut(s, a[x - 1])
      /\ Len(s) \in Nat
  BY CutsDef, LenProperties
<1>2. a[j] >= Len(s)
  OBVIOUS
<1>. HIDE DEF a
<1>3. 0 \in S
  OBVIOUS
<1>4. ASSUME NEW x \in 1 .. n, x - 1 \in S PROVE x \in S
  <2>1. SUFFICES ASSUME x > j PROVE a[x] = Len(s) + 1
    OBVIOUS
  <2>2. a[x - 1] >= Len(s) /\ a[x - 1] \in Nat
    <3>1. CASE x - 1 = j
      BY <1>1, <1>2, <3>1
    <3>2. CASE x - 1 > j
      BY <1>1, <1>4, <3>2
    <3>. QED
      BY <2>1, <3>1, <3>2
  <2>3. NextCut(s, a[x - 1]) = Len(s) + 1
    BY <1>1, <2>2 DEF NextCut
  <2>. QED
    BY <1>1, <2>3
<1>. HIDE DEF S
<1>5. l \in S
  <2>1. l \in 0 .. n
    OBVIOUS
  <2>. QED
    BY <1>3, <1>4, <2>1, BoundedInduction
<1>6. l > j
  OBVIOUS
<1>. QED
  BY <1>5, <1>6 DEF S, a

\* In a script of n opcodes, the opcodes before the last end before its end, and no other
\* number of opcodes does.
LEMMA CutsInside ==
    ASSUME NEW s \in Seq(Byte), NEW n \in Nat, HasOps(s, n), NEW m \in Nat
    PROVE  /\ m < n => CutsOf(s, m)[m] < Len(s) /\ CutsOf(s, n)[m] < Len(s)
           /\ m > n => CutsOf(s, m)[m] > Len(s)
<1>1. Len(s) \in Nat /\ CutsOf(s, n)[n] = Len(s) /\ n \in 0 .. n /\ m \in 0 .. m
  BY LenProperties DEF HasOps
<1>2. CASE m < n
  <2>1. m \in 0 .. n /\ n \in m + 1 .. n
    BY <1>2
  <2>2. CutsOf(s, n)[m] \in Nat
    BY <2>1, CutsDef
  <2>3. CutsOf(s, m)[m] = CutsOf(s, n)[m]
    BY <1>1, <2>1, CutsPrefix
  <2>4. ~(CutsOf(s, n)[m] >= Len(s))
    <3>1. SUFFICES ASSUME CutsOf(s, n)[m] >= Len(s) PROVE FALSE
      OBVIOUS
    <3>2. CutsOf(s, n)[n] = Len(s) + 1
      BY <2>1, <3>1, CutsPast
    <3>. QED
      BY <1>1, <3>2
  <2>. QED
    BY <1>1, <1>2, <2>2, <2>3, <2>4
<1>3. CASE m > n
  <2>1. n \in 0 .. m /\ m \in n + 1 .. m
    BY <1>3
  <2>2. CutsOf(s, n)[n] = CutsOf(s, m)[n]
    BY <1>1, <2>1, CutsPrefix
  <2>3. CutsOf(s, m)[n] >= Len(s)
    BY <1>1, <2>2
  <2>4. CutsOf(s, m)[m] = Len(s) + 1
    BY <2>1, <2>3, CutsPast
  <2>. QED
    BY <1>1, <1>3, <2>4
<1>. QED
  BY <1>2, <1>3

\* A part of what is in front, and what is left behind it.
LEMMA FrontPart ==
    ASSUME NEW a \in Seq(Byte), NEW b \in Seq(Byte), Ahead(a, b)
    PROVE  /\ \A j \in 1 .. Len(a) : rest[j] = a[j]
           /\ \A x \in Nat \ {0}, y \in 0 .. Len(a) : SubSeq(rest, x, y) = SubSeq(a, x, y)
           /\ \A y \in 0 .. Len(a) : Drop(y) = SubSeq(a, y + 1, Len(a)) \o b
           /\ Len(rest) = Len(a) + Len(b) /\ rest \in Seq(Byte)
<1>1. /\ rest \in Seq(Byte) /\ Len(rest) = Len(a) + Len(b) /\ Len(a) \in Nat /\ Len(b) \in Nat
      /\ \A j \in 1 .. Len(a) : rest[j] = a[j]
      /\ \A j \in 1 .. Len(b) : rest[Len(a) + j] = b[j]
  <2>1. /\ a \o b \in Seq(Byte) /\ Len(a \o b) = Len(a) + Len(b)
        /\ Len(a) \in Nat /\ Len(b) \in Nat
        /\ \A j \in 1 .. Len(a) : (a \o b)[j] = a[j]
        /\ \A j \in 1 .. Len(b) : (a \o b)[Len(a) + j] = b[j]
    BY ConcatProperties, LenProperties
  <2>2. rest = a \o b
    BY DEF Ahead
  <2>. QED
    BY <2>1, <2>2
<1>2. ASSUME NEW x \in Nat \ {0}, NEW y \in 0 .. Len(a) PROVE SubSeq(rest, x, y) = SubSeq(a, x, y)
  <2>1. \A j \in x .. y : rest[j] = a[j] /\ rest[j] \in Byte
    <3>1. \A j \in x .. y : j \in 1 .. Len(a) /\ j \in 1 .. Len(rest)
      BY <1>1
    <3>2. \A j \in 1 .. Len(rest) : rest[j] \in Byte
      BY <1>1, ElementOfSeq
    <3>. QED
      BY <1>1, <3>1, <3>2
  <2>2. /\ SubSeq(rest, x, y) \in Seq(Byte)
        /\ Len(SubSeq(rest, x, y)) = IF x <= y THEN y - x + 1 ELSE 0
        /\ \A j \in 1 .. y - x + 1 : SubSeq(rest, x, y)[j] = rest[x + j - 1]
    BY <2>1, SubSeqProperties
  <2>3. /\ SubSeq(a, x, y) \in Seq(Byte)
        /\ Len(SubSeq(a, x, y)) = IF x <= y THEN y - x + 1 ELSE 0
        /\ \A j \in 1 .. y - x + 1 : SubSeq(a, x, y)[j] = a[x + j - 1]
    <3>1. \A j \in x .. y : a[j] \in Byte
      BY <2>1
    <3>. QED
      BY <3>1, SubSeqProperties
  <2>. DEFINE u == SubSeq(rest, x, y)
              w == SubSeq(a, x, y)
              n == IF x <= y THEN y - x + 1 ELSE 0
  <2>4. n \in Nat /\ \A j \in 1 .. n : j \in 1 .. y - x + 1 /\ x + j - 1 \in x .. y
    OBVIOUS
  <2>5. u \in Seq(Byte) /\ w \in Seq(Byte) /\ Len(u) = n /\ Len(w) = n
    BY <2>2, <2>3
  <2>6. \A j \in 1 .. n : u[j] = w[j]
    <3>. HIDE DEF n
    <3>. QED
      BY <2>1, <2>2, <2>3, <2>4
  <2>. HIDE DEF u, w, n
  <2>7. u = w
    BY <2>5, <2>6, SeqEqual
  <2>. QED
    BY <2>7 DEF u, w
<1>3. ASSUME NEW y \in 0 .. Len(a) PROVE Drop(y) = SubSeq(a, y + 1, Len(a)) \o b
  <2>. DEFINE c == SubSeq(a, 1, y)
              d == SubSeq(a, y + 1, Len(a))
  <2>1. a = c \o d
    BY Halves
  <2>2. c \in Seq(Byte) /\ Len(c) = y
    <3>1. 1 \in 1 .. Len(a) + 1 /\ y \in 1 - 1 .. Len(a) /\ y + 1 - 1 = y
      BY <1>1
    <3>2. SubSeq(a, 1, y) \in Seq(Byte) /\ Len(SubSeq(a, 1, y)) = y + 1 - 1
      BY <3>1, Piece
    <3>. QED
      BY <3>1, <3>2
  <2>3. d \in Seq(Byte)
    <3>1. y + 1 \in 1 .. Len(a) + 1 /\ Len(a) \in y + 1 - 1 .. Len(a)
      BY <1>1
    <3>. QED
      BY <3>1, Piece
  <2>. HIDE DEF c, d
  <2>4. (c \o d) \o b = c \o (d \o b) /\ d \o b \in Seq(Byte)
    BY <2>2, <2>3, Rest, SMTT(60)
  <2>5. Ahead(c, d \o b)
    BY <2>1, <2>4 DEF Ahead
  <2>6. Drop(Len(c)) = d \o b
    BY <2>2, <2>4, <2>5, Front
  <2>. QED
    BY <2>2, <2>6 DEF d
<1>. QED
  BY <1>1, <1>2, <1>3

\* Likewise of what is behind.
LEMMA BehindPart ==
    ASSUME NEW a \in Seq(Byte), NEW b \in Seq(Byte), Ahead(a, b)
    PROVE  /\ \A j \in 1 .. Len(b) : rest[Len(a) + j] = b[j]
           /\ \A x \in Nat \ {0}, y \in 0 .. Len(b) :
                  SubSeq(rest, Len(a) + x, Len(a) + y) = SubSeq(b, x, y)
<1>1. /\ Len(rest) = Len(a) + Len(b) /\ Len(a) \in Nat /\ Len(b) \in Nat
      /\ \A j \in 1 .. Len(b) : rest[Len(a) + j] = b[j]
      /\ \A j \in 1 .. Len(b) : b[j] \in Byte
  <2>1. /\ Len(a \o b) = Len(a) + Len(b)
        /\ Len(a) \in Nat /\ Len(b) \in Nat
        /\ \A j \in 1 .. Len(b) : (a \o b)[Len(a) + j] = b[j]
    BY ConcatProperties, LenProperties
  <2>2. rest = a \o b
    BY DEF Ahead
  <2>3. \A j \in 1 .. Len(b) : b[j] \in Byte
    BY ElementOfSeq
  <2>. QED
    BY <2>1, <2>2, <2>3
<1>2. ASSUME NEW x \in Nat \ {0}, NEW y \in 0 .. Len(b)
      PROVE  SubSeq(rest, Len(a) + x, Len(a) + y) = SubSeq(b, x, y)
  <2>. DEFINE p == Len(a) + x
              q == Len(a) + y
              n == IF x <= y THEN y - x + 1 ELSE 0
              u == SubSeq(rest, p, q)
              w == SubSeq(b, x, y)
  <2>1. /\ p \in Nat \ {0} /\ q \in Nat /\ q - p = y - x /\ (p <= q <=> x <= y)
        /\ n \in Nat /\ \A j \in 1 .. n : j \in 1 .. y - x + 1 /\ x + j - 1 \in x .. y
                                          /\ p + j - 1 = Len(a) + (x + j - 1)
    BY <1>1
  <2>2. \A j \in x .. y : j \in 1 .. Len(b)
    BY <1>1
  <2>3. \A j \in p .. q : j - Len(a) \in x .. y /\ j = Len(a) + (j - Len(a))
    BY <1>1
  <2>. HIDE DEF p, q, n
  <2>4. \A j \in p .. q : rest[j] \in Byte
    BY <1>1, <2>2, <2>3
  <2>5. /\ u \in Seq(Byte)
        /\ Len(u) = IF p <= q THEN q - p + 1 ELSE 0
        /\ \A j \in 1 .. q - p + 1 : u[j] = rest[p + j - 1]
    BY <2>1, <2>4, SubSeqProperties
  <2>6. /\ w \in Seq(Byte)
        /\ Len(w) = IF x <= y THEN y - x + 1 ELSE 0
        /\ \A j \in 1 .. y - x + 1 : w[j] = b[x + j - 1]
    <3>1. \A j \in x .. y : b[j] \in Byte
      BY <1>1, <2>2
    <3>. QED
      BY <3>1, SubSeqProperties
  <2>. HIDE DEF u, w
  <2>7. Len(u) = n /\ Len(w) = n
    BY <2>1, <2>5, <2>6 DEF n
  <2>8. \A j \in 1 .. n : u[j] = w[j]
    BY <1>1, <2>1, <2>2, <2>5, <2>6, ZenonT(60)
  <2>9. u = w
    BY <2>5, <2>6, <2>7, <2>8, SeqEqual
  <2>. QED
    BY <2>9 DEF u, w, p, q
<1>. QED
  BY <1>1, <1>2

\* s is as long as the value of an output.
IsLong(s) == Len(s) = 8

\* A varint behind eight bytes is read where it is.
LEMMA VarintBehind ==
    ASSUME NEW a \in Seq(Byte), NEW v \in 0 .. Quad - 1, NEW b \in Seq(Byte),
           Ahead(a, PackVarint(v) \o b), IsLong(a)
    PROVE  VarintAt(9) = Len(PackVarint(v)) /\ ValueAt(9) = v
<1>. DEFINE p == PackVarint(v)
            r == p \o b
            n == Len(p)
<1>1. p \in Seq(Byte) /\ n >= 1 /\ n \in Nat
  <2>1. v \in Nat
    BY Widths
  <2>. QED
    BY <2>1, PackTyped, LenProperties
<1>2. UnpackVarint(r) = [val |-> v, size |-> n]
  BY VarintRead
<1>3. r \in Seq(Byte) /\ Len(r) >= n /\ Len(r) \in Nat
  <2>. HIDE DEF p
  <2>1. p \o b \in Seq(Byte) /\ Len(p \o b) = Len(p) + Len(b) /\ Len(b) \in Nat /\ Len(p \o b) \in Nat
    BY <1>1, Parts, LenProperties
  <2>. QED
    BY <1>1, <2>1
<1>4. Ahead(a, r)
  OBVIOUS
<1>. HIDE DEF p, r, n
<1>5. UnpackVarint(r).val = v /\ UnpackVarint(r).size = n
  BY <1>2
<1>6. n = VarintSize(r[1]) /\ v = IF n = 1 THEN r[1] ELSE Num(SubSeq(r, 2, n))
  BY <1>5 DEF UnpackVarint
<1>7. /\ \A j \in 1 .. Len(r) : rest[Len(a) + j] = r[j]
      /\ \A x \in Nat \ {0}, y \in 0 .. Len(r) : SubSeq(rest, Len(a) + x, Len(a) + y) = SubSeq(r, x, y)
  BY <1>3, <1>4, BehindPart
<1>8. /\ \A j \in 1 .. Len(r) : rest[8 + j] = r[j]
      /\ \A x \in Nat \ {0}, y \in 0 .. Len(r) : SubSeq(rest, 8 + x, 8 + y) = SubSeq(r, x, y)
  BY <1>7 DEF IsLong
<1>9. rest[9] = r[1]
  <2>1. 1 \in 1 .. Len(r) /\ 8 + 1 = 9
    BY <1>1, <1>3
  <2>. QED
    BY <1>8, <2>1, Zenon
<1>10. SubSeq(rest, 10, 8 + n) = SubSeq(r, 2, n)
  <2>1. 2 \in Nat \ {0} /\ n \in 0 .. Len(r) /\ 8 + 2 = 10
    BY <1>1, <1>3
  <2>. QED
    BY <1>8, <2>1, Zenon
<1>11. Len(rest) >= 9
  <2>1. Len(rest) = Len(a) + Len(r)
    BY <1>3, <1>4, FrontPart
  <2>2. Len(a) = 8
    BY DEF IsLong
  <2>3. Len(rest) = 8 + Len(r)
    BY <2>1, <2>2
  <2>. QED
    BY <1>1, <1>3, <2>3
<1>12. VarintAt(9) = n
  <2>1. ~(9 > Len(rest))
    <3>1. Len(rest) \in Nat
      BY <1>3, <1>4, FrontPart, LenProperties
    <3>. QED
      BY <1>11, <3>1
  <2>. QED
    BY <1>6, <1>9, <2>1 DEF VarintAt
<1>13. 9 + 1 = 10 /\ 9 + n - 1 = 8 + n
  BY <1>1
<1>14. ValueAt(9) = v
  BY <1>6, <1>9, <1>10, <1>12, <1>13 DEF ValueAt
<1>. QED
  BY <1>12, <1>14 DEF n, p

------------------------------------------------------------------------------
(* What has been read is what was written. *)

\* Where the variables of main are read.
Pos == [version |-> 1, vin_sz |-> 2, pre_txid |-> 3, pre_tx_inx |-> 4, sc_size |-> 5,
        seq_no |-> 7, vout_sz |-> 8, lock_time |-> 11]

\* What they should be.
Right(f) ==
    CASE f = "version"    -> tx.version
      [] f = "vin_sz"     -> Len(tx.vin)
      [] f = "pre_txid"   -> tx.vin[1].pre_txid
      [] f = "pre_tx_inx" -> tx.vin[1].pre_tx_inx
      [] f = "sc_size"    -> Len(tx.vin[1].sc)
      [] f = "seq_no"     -> tx.vin[1].seq_no
      [] f = "vout_sz"    -> Len(tx.vout)
      [] f = "lock_time"  -> tx.lock_time

Fields ==
    /\ \A f \in DOMAIN Pos : out[f] = IF Done(Pos[f]) THEN Right(f) ELSE Unset
    /\ ~Done(6) => out.sig = Unset /\ out.pubkey = Unset
    /\ Done(6) => SigShown(tx.vin[1])

\* What is left of the file where a read is about to be done.
Place ==
    /\ pc = 1 => rest = From1(tx)
    /\ pc = 2 /\ pc <= Len(Text[prog]) => rest = From2(tx)
    /\ pc = 3 /\ pc <= Len(Text[prog]) => rest = From3(tx)
    /\ pc = 4 /\ pc <= Len(Text[prog]) => rest = From4(tx)
    /\ pc = 5 /\ pc <= Len(Text[prog]) => rest = From5(tx)
    /\ pc = 6 /\ pc <= Len(Text[prog]) => rest = From6(tx)
    /\ pc = 7 /\ pc <= Len(Text[prog]) => rest = From7(tx)
    /\ pc = 8 /\ pc <= Len(Text[prog]) => rest = From8(tx)
    /\ pc = 9 /\ pc <= Len(Text[prog]) => rest = Outs(tx, k + 1)
    /\ pc = 11 /\ pc <= Len(Text[prog]) => rest = LE(tx.lock_time, 4)
    /\ pc > 11 /\ prog = "parse_txout_script_pbk" => rest = <<>>

\* The outputs read.
Listed ==
    /\ k <= Len(tx.vout)
    /\ ~Done(8) => k = 0
    /\ pc <= Len(Text[prog]) => Last = IF pc = 10 THEN k + 1 ELSE k
    /\ k <= Last
    /\ pc >= 11 /\ prog = "parse_txout_script_pbk" => k = Len(tx.vout)
    /\ \A j \in 1 .. k : /\ out.txouts[j].value = tx.vout[j].value
                         /\ out.txouts[j].sc = tx.vout[j].sc
                         /\ prog = "parse_txout_script_pbk" =>
                                Parsed(out.txouts[j].ops, tx.vout[j].sc)

\* The script that is parsed.
Scanned ==
    LET s   == tx.vout[k + 1].sc
        ops == out.txouts[Last].ops
        c   == CutsOf(s, Len(ops))
    IN  prog = "parse_txout_script_pbk" /\ pc = 10 =>
            /\ k < Len(tx.vout)
            /\ out.txouts[Last].value = tx.vout[k + 1].value
            /\ out.txouts[Last].sc = s
            /\ out.txouts[Last].len = Len(s)
            /\ i = c[Len(ops)]
            /\ i < Len(s)
            /\ rest = SubSeq(s, i + 1, Len(s)) \o Outs(tx, k + 2)
            /\ \A j \in 1 .. Len(ops) : ops[j] = Entry(SubSeq(s, c[j - 1] + 1, c[j]))

Following == Readable => fault \in {"none", "unset"} /\ Place /\ Fields /\ Listed /\ Scanned

Reading == Typing /\ Following

\* A file that has just been opened.
LEMMA Fresh ==
    ASSUME Typing, pc = 1, out = Blank, k = 0, i = 0, fault = "none", rest = SeriTx(tx)
    PROVE  Following
<1>1. prog \in Parsers /\ tx \in Txs /\ Len(Text[prog]) \in 1 .. 11
  BY Lengths DEF Typing
<1>2. rest = From1(tx)
  BY <1>1, Whole
<1>3. Place
  BY <1>2 DEF Place
<1>4. \A p \in 1 .. 11 : ~Done(p)
  BY DEF Done
<1>5. Fields
  <2>1. \A f \in DOMAIN Pos : Pos[f] \in 1 .. 11 /\ f \in DOMAIN Blank /\ Blank[f] = Unset
    BY DEF Pos, Blank
  <2>2. Blank.sig = Unset /\ Blank.pubkey = Unset
    BY DEF Blank
  <2>. QED
    BY <1>4, <2>1, <2>2 DEF Fields
<1>6. Last = 0
  BY DEF Last, Blank
<1>7. tx.vout \in Seq(Txouts) /\ Len(tx.vout) \in Nat
  BY <1>1, TxFields
<1>8. Listed
  BY <1>6, <1>7 DEF Listed
<1>9. Scanned
  BY DEF Scanned
<1>. QED
  BY <1>3, <1>5, <1>8, <1>9 DEF Following

\* A parser has read nothing, and all of the file is left.
LEMMA ReadingInit ==
    ASSUME Init
    PROVE  Reading
<1>1. Typing
  BY TypingInit
<1>2. Following
  <2>1. SUFFICES ASSUME Readable PROVE Following
    BY DEF Following
  <2>2. pc = 1 /\ out = Blank /\ k = 0 /\ i = 0 /\ fault = "none"
    BY <2>1 DEF Init, Readable
  <2>3. rest = SeriTx(tx)
    <3>1. CASE writer = "kyk_seri_tx"
      BY <3>1 DEF Init, File
    <3>2. CASE writer = "kyk_tx_inc_ser"
      <4>1. Len(tx.vin) = 1 /\ Len(tx.vout) = 1 /\ rest = IncSer(TxColumns(tx))
        BY <3>2 DEF Init, File
      <4>2. tx \in Txs
        BY <1>1 DEF Typing
      <4>. QED
        BY <4>1, <4>2, Columns
    <3>. QED
      BY <3>1, <3>2 DEF Init, Writers
  <2>. QED
    BY <1>1, <2>2, <2>3, Fresh
<1>. QED
  BY <1>1, <1>2 DEF Reading

\* One variable of main is read right.
LEMMA FollowField ==
    ASSUME Typing, Readable, Following, fault = "none",
           NEW f \in DOMAIN Pos, pc = Pos[f], pc <= Len(Text[prog]),
           out' = [out EXCEPT ![f] = Right(f)], pc' = pc + 1,
           UNCHANGED <<writer, tx, prog, k, i, fault>>, Place'
    PROVE  Following'
<1>1. /\ prog \in Parsers /\ Len(Text[prog]) \in 1 .. 11 /\ pc \in Nat \ {0} /\ out \in Variables
      /\ prog' = prog /\ tx' = tx /\ k' = k
  BY Lengths DEF Typing
<1>2. \A g \in DOMAIN Pos : Pos[g] \in 1 .. 11 \ {6, 9, 10} /\ (Pos[g] = Pos[f] => g = f)
                            /\ g \in DOMAIN Blank
  BY DEF Pos, Blank
<1>3. /\ out'[f] = Right(f)
      /\ \A g \in DOMAIN Blank \ {f} : out'[g] = out[g]
  <2>1. DOMAIN out = DOMAIN Blank
    BY <1>1 DEF Variables, Blank
  <2>. QED
    BY <1>2, <2>1
<1>4. Fields /\ Listed /\ Scanned
  BY DEF Following
<1>5. Fields'
  <2>1. ASSUME NEW g \in DOMAIN Pos PROVE out'[g] = IF Done(Pos[g])' THEN Right(g) ELSE Unset
    <3>1. CASE g = f
      <4>1. Done(Pos[f])'
        BY <1>1, <1>2 DEF Done
      <4>. QED
        BY <1>3, <3>1, <4>1
    <3>2. CASE g # f
      <4>1. Done(Pos[g])' <=> Done(Pos[g])
        BY <1>1, <1>2, <3>2 DEF Done
      <4>2. out'[g] = out[g]
        BY <1>2, <1>3, <3>2
      <4>. QED
        BY <1>4, <4>1, <4>2 DEF Fields
    <3>. QED
      BY <3>1, <3>2
  <2>2. \A g \in DOMAIN Pos : Right(g)' = Right(g)
    BY <1>1 DEF Right
  <2>3. Done(6)' <=> Done(6)
    BY <1>1, <1>2 DEF Done
  <2>4. out'.sig = out.sig /\ out'.pubkey = out.pubkey
    BY <1>3 DEF Pos, Blank
  <2>5. SigShown(tx.vin[1])' <=> SigShown(tx.vin[1])
    BY <1>1, <2>4 DEF SigShown
  <2>. QED
    BY <1>4, <2>1, <2>2, <2>3, <2>4, <2>5 DEF Fields, Pos
<1>6. Listed'
  <2>1. out'.txouts = out.txouts
    BY <1>3 DEF Pos, Blank
  <2>2. Last' = Last
    BY <2>1 DEF Last
  <2>3. pc \notin {9, 10}
    BY <1>2
  <2>4. ~Done(8)' => ~Done(8)
    BY <1>1 DEF Done
  <2>5. \A j : Parsed(out.txouts[j].ops, tx.vout[j].sc)' <=> Parsed(out.txouts[j].ops, tx.vout[j].sc)
    BY <1>1, <2>1 DEF Parsed
  <2>6. pc' >= 11 => pc >= 11
    BY <1>1, <2>3
  <2>7. pc' <= Len(Text[prog])' => pc' # 10 /\ pc <= Len(Text[prog])
    BY <1>1, <2>3
  <2>. QED
    BY <1>1, <1>4, <2>1, <2>2, <2>3, <2>4, <2>5, <2>6, <2>7 DEF Listed
<1>7. Scanned'
  BY <1>1, <1>2 DEF Scanned
<1>. QED
  BY <1>5, <1>6, <1>7 DEF Following

\* A word in front is read.
LEMMA WordFront ==
    ASSUME NEW v \in 0 .. Long - 1, NEW b \in Seq(Byte), Ahead(LE(v, 4), b)
    PROVE  Num(Take(4)) = v /\ Drop(4) = b
<1>1. v \in Nat /\ LE(v, 4) \in Seq(Byte) /\ Len(LE(v, 4)) = 4
  BY Widths, Word
<1>2. Take(Len(LE(v, 4))) = LE(v, 4) /\ Drop(Len(LE(v, 4))) = b
  BY <1>1, Front
<1>3. Num(LE(v, 4)) = v
  <2>1. Fits(v, 4)
    BY Widths DEF Fits
  <2>. QED
    BY <1>1, <2>1, WordRead
<1>. QED
  BY <1>1, <1>2, <1>3

\* What is known where a parser can go on.
LEMMA Known ==
    ASSUME Typing, Readable, Following, NEW step, At(step)
    PROVE  /\ prog \in Parsers /\ pc \in 1 .. Len(Text[prog]) /\ pc \in 1 .. 11
           /\ Len(Text[prog]) \in 1 .. 11
           /\ fault = "none" /\ tx \in Txs /\ rest \in Seq(Byte)
           /\ tx.version \in 0 .. Long - 1 /\ tx.lock_time \in 0 .. Long - 1
           /\ Len(tx.vin) \in 0 .. Quad - 1 /\ Len(tx.vout) \in 0 .. Quad - 1
           /\ pc >= 3 => /\ Len(tx.vin) = 1 /\ tx.vin[1] \in Txins
                         /\ tx.vin[1].sc_size = Len(tx.vin[1].sc)
           /\ Place /\ Fields /\ Listed /\ Scanned
<1>1. /\ prog \in Parsers /\ pc \in Nat \ {0} /\ Len(Text[prog]) \in 1 .. 11 /\ tx \in Txs
      /\ rest \in Seq(Byte) /\ Len(tx.vin) < Quad /\ Len(tx.vout) < Quad
  BY Lengths DEF Typing
<1>2. fault = "none" /\ pc \in 1 .. Len(Text[prog])
  BY <1>1, Places
<1>3. pc \in 1 .. 11
  <2>. DEFINE n == Len(Text[prog])
  <2>1. pc \in 1 .. n /\ n \in 1 .. 11
    BY <1>1, <1>2
  <2>. HIDE DEF n
  <2>. QED
    BY <2>1
<1>4. /\ tx.version \in 0 .. Long - 1 /\ tx.lock_time \in 0 .. Long - 1
      /\ tx.vin \in Seq(Txins) /\ Len(tx.vin) \in Nat /\ Len(tx.vout) \in Nat
  BY <1>1, TxFields
<1>5. Len(tx.vin) \in 0 .. Quad - 1 /\ Len(tx.vout) \in 0 .. Quad - 1
  BY <1>1, <1>4, Widths
<1>6. ASSUME pc >= 3
      PROVE  /\ Len(tx.vin) = 1 /\ tx.vin[1] \in Txins
             /\ tx.vin[1].sc_size = Len(tx.vin[1].sc)
  <2>1. prog \notin {"parse_tx_version", "parse_tx", "parse_tx_vinc"}
    BY <1>1, <1>2, <1>6, LongParsers
  <2>2. Len(tx.vin) = 1 /\ Created(tx)
    BY <2>1 DEF Readable
  <2>3. 1 \in 1 .. Len(tx.vin) /\ 1 \in DOMAIN tx.vin
    BY <1>4, <2>2
  <2>4. tx.vin[1] \in Txins
    BY <1>4, <2>3, ElementOfSeq
  <2>5. tx.vin[1].sc_size = Len(tx.vin[1].sc)
    BY <2>2, <2>3 DEF Created
  <2>. QED
    BY <2>2, <2>4, <2>5
<1>7. Place /\ Fields /\ Listed /\ Scanned
  BY DEF Following
<1>. QED
  BY <1>1, <1>2, <1>3, <1>4, <1>5, <1>6, <1>7

\* A value that is right is read.
LEMMA FollowRead ==
    ASSUME Typing, Readable, Following, NEW step, At(step),
           NEW f \in DOMAIN Pos, pc = Pos[f], NEW v, v = Right(f),
           Reads([out EXCEPT ![f] = v]), Place'
    PROVE  Following'
<1>1. fault = "none" /\ pc <= Len(Text[prog])
  BY DEF At
<1>2. /\ out' = [out EXCEPT ![f] = Right(f)] /\ pc' = pc + 1
      /\ UNCHANGED <<writer, tx, prog, k, i, fault>>
  BY DEF Reads
<1>. QED
  BY <1>1, <1>2, FollowField

\* What is left where the next read is done.
LEMMA PlaceNext ==
    ASSUME Typing, NEW step, At(step), NEW o, Reads(o), NEW r, rest' = r,
           /\ pc = 1 /\ 2 \in 1 .. Len(Text[prog]) => r = From2(tx)
           /\ pc = 2 /\ 3 \in 1 .. Len(Text[prog]) => r = From3(tx)
           /\ pc = 3 => r = From4(tx)
           /\ pc = 4 => r = From5(tx)
           /\ pc = 5 => r = From6(tx)
           /\ pc = 6 => r = From7(tx)
           /\ pc = 7 /\ 8 \in 1 .. Len(Text[prog]) => r = From8(tx)
           /\ pc = 8 => r = Outs(tx, k + 1)
           /\ pc = 11 => r = <<>>,
           pc \notin {9, 10}
    PROVE  Place'
<1>1. /\ prog \in Parsers /\ pc \in Nat \ {0} /\ Len(Text[prog]) \in 1 .. 11
  BY Lengths DEF Typing
<1>2. pc' = pc + 1 /\ tx' = tx /\ prog' = prog /\ k' = k
  BY DEF Reads
<1>3. pc \in 1 .. Len(Text[prog])
  BY <1>1, Places
<1>. DEFINE n == Len(Text[prog])
<1>4. n' = n
  BY <1>2
<1>5. n \in 1 .. 11 /\ pc \in 1 .. n
  BY <1>1, <1>3
<1>. HIDE DEF n
<1>6. /\ pc' = 2 /\ 2 <= n => rest' = From2(tx)
      /\ pc' = 3 /\ 3 <= n => rest' = From3(tx)
      /\ pc' = 4 /\ 4 <= n => rest' = From4(tx)
      /\ pc' = 5 /\ 5 <= n => rest' = From5(tx)
      /\ pc' = 6 /\ 6 <= n => rest' = From6(tx)
      /\ pc' = 7 /\ 7 <= n => rest' = From7(tx)
      /\ pc' = 8 /\ 8 <= n => rest' = From8(tx)
      /\ pc' = 9 /\ 9 <= n => rest' = Outs(tx, k + 1)
      /\ pc' # 1 /\ pc' # 11 /\ (pc' > 11 => rest' = <<>>)
  <2>1. 2 <= n => 2 \in 1 .. n
    BY <1>5
  <2>2. 3 <= n => 3 \in 1 .. n
    BY <1>5
  <2>3. 8 <= n => 8 \in 1 .. n
    BY <1>5
  <2>4. pc \in 1 .. 11 /\ pc \notin {9, 10}
    BY <1>5
  <2>. QED
    BY <1>2, <2>1, <2>2, <2>3, <2>4 DEF n
<1>. QED
  BY <1>2, <1>4, <1>6 DEF Place, n

\* The version is read as it was written.
LEMMA FollowVersion ==
    ASSUME Typing, Readable, Following, ReadWord("version")
    PROVE  Following'
<1>1. At("version") /\ Reads([out EXCEPT !["version"] = Num(Take(4))])
  BY DEF ReadWord
<1>2. prog \in Parsers /\ pc \in Nat \ {0} /\ tx \in Txs /\ tx.version \in 0 .. Long - 1 /\ Place
  BY <1>1, Known
<1>3. Needs = 4 /\ pc = 1
  BY <1>1, <1>2, NeedsIs, Places DEF Words
<1>4. Ahead(LE(tx.version, 4), From2(tx)) /\ From2(tx) \in Seq(Byte)
  BY <1>2, <1>3, FromTyped DEF Place, From1, Ahead
<1>5. Num(Take(4)) = tx.version /\ Drop(4) = From2(tx)
  BY <1>2, <1>4, WordFront
<1>6. rest' = From2(tx)
  BY <1>1, <1>3, <1>5 DEF Reads
<1>7. Place'
  BY <1>1, <1>3, <1>6, PlaceNext
<1>8. "version" \in DOMAIN Pos /\ pc = Pos["version"] /\ Num(Take(4)) = Right("version")
  BY <1>3, <1>5 DEF Pos, Right
<1>. QED
  BY <1>1, <1>7, <1>8, FollowRead

\* The bytes behind the first count.
Behind(t) == IF Len(t.vin) = 1 THEN From3(t) ELSE SeriTxinList(t.vin)[1] \o From8(t)

\* What is behind the number of inputs.
LEMMA BehindTyped ==
    ASSUME NEW t \in Txs
    PROVE  Behind(t) \in Seq(Byte) /\ From2(t) = PackVarint(Len(t.vin)) \o Behind(t)
<1>1. /\ From8(t) \in Seq(Byte) /\ (Len(t.vin) = 1 => From3(t) \in Seq(Byte))
      /\ t.vin \in Seq(Txins)
  BY FromTyped, TxFields
<1>2. SeriTxinList(t.vin)[1] \in Seq(Byte)
  BY <1>1, TxinList
<1>3. SeriTxinList(t.vin)[1] \o From8(t) \in Seq(Byte)
  BY <1>1, <1>2, Rest
<1>. QED
  BY <1>1, <1>3 DEF Behind, From2

\* The number of inputs is,
LEMMA FollowVinSz ==
    ASSUME Typing, Readable, Following, ReadVarint("vin_sz")
    PROVE  Following'
<1>1. At("vin_sz") /\ Reads([out EXCEPT !["vin_sz"] = ValueAt(1)])
  BY DEF ReadVarint
<1>2. /\ prog \in Parsers /\ pc \in Nat \ {0} /\ tx \in Txs /\ Len(tx.vin) \in 0 .. Quad - 1 /\ Place
      /\ pc <= Len(Text[prog])
  BY <1>1, Known DEF At
<1>3. Needs = VarintAt(1) /\ pc = 2
  BY <1>1, <1>2, NeedsIs, Places DEF Varints
<1>4. rest = From2(tx)
  BY <1>2, <1>3 DEF Place
<1>5. Ahead(PackVarint(Len(tx.vin)), Behind(tx)) /\ Behind(tx) \in Seq(Byte)
  BY <1>2, <1>4, BehindTyped DEF Ahead
<1>6. ValueAt(1) = Len(tx.vin) /\ Drop(VarintAt(1)) = Behind(tx)
  BY <1>2, <1>5, VarintFront
<1>7. rest' = Behind(tx)
  BY <1>1, <1>3, <1>6 DEF Reads
<1>8. 3 \in 1 .. Len(Text[prog]) => Behind(tx) = From3(tx)
  BY <1>2, LongParsers DEF Readable, Behind
<1>9. Place'
  BY <1>1, <1>3, <1>7, <1>8, PlaceNext
<1>10. "vin_sz" \in DOMAIN Pos /\ pc = Pos["vin_sz"] /\ ValueAt(1) = Right("vin_sz")
  BY <1>3, <1>6 DEF Pos, Right
<1>. QED
  BY <1>1, <1>9, <1>10, FollowRead

\* and as a byte, if it is one.
LEMMA FollowVinByte ==
    ASSUME Typing, Readable, Following, ReadVinByte
    PROVE  Following'
<1>1. At("vin_byte") /\ Reads([out EXCEPT !["vin_sz"] = rest[1]])
  BY DEF ReadVinByte
<1>2. /\ prog \in Parsers /\ pc \in Nat \ {0} /\ tx \in Txs /\ Len(tx.vin) \in 0 .. Quad - 1 /\ Place
      /\ pc <= Len(Text[prog])
  BY <1>1, Known DEF At
<1>3. Needs = 1 /\ pc = 2 /\ prog = "parse_tx"
  BY <1>1, <1>2, NeedsIs, Places
<1>4. rest[1] = Len(tx.vin)
  <2>1. PackVarint(Len(tx.vin)) = <<Len(tx.vin)>>
    BY <1>3 DEF Readable, PackVarint
  <2>2. rest = From2(tx)
    BY <1>2, <1>3 DEF Place
  <2>. DEFINE v == Len(tx.vin)
              b == Behind(tx)
  <2>3. rest = <<v>> \o b /\ b \in Seq(Byte)
    BY <1>2, <2>1, <2>2, BehindTyped
  <2>. HIDE DEF v, b
  <2>4. (<<v>> \o b)[1] = v
    BY <2>3
  <2>. QED
    BY <2>3, <2>4 DEF v
<1>5. 3 \notin 1 .. Len(Text[prog])
  BY <1>2, <1>3, LongParsers
<1>6. rest' = Drop(Needs)
  BY <1>1 DEF Reads
<1>7. Place'
  BY <1>1, <1>3, <1>5, <1>6, PlaceNext
<1>8. "vin_sz" \in DOMAIN Pos /\ pc = Pos["vin_sz"] /\ rest[1] = Right("vin_sz")
  BY <1>3, <1>4 DEF Pos, Right
<1>. QED
  BY <1>1, <1>7, <1>8, FollowRead

\* The txid of an input is read as it was written,
LEMMA FollowTxid ==
    ASSUME Typing, Readable, Following, ReadHash
    PROVE  Following'
<1>. DEFINE u == Reversed(tx.vin[1].pre_txid)
<1>1. At("pre_txid") /\ Reads([out EXCEPT !["pre_txid"] = Reversed(Take(HashSize))])
  BY DEF ReadHash
<1>2. /\ prog \in Parsers /\ pc \in Nat \ {0} /\ tx \in Txs /\ Place /\ pc <= Len(Text[prog])
      /\ pc >= 3 => Len(tx.vin) = 1 /\ tx.vin[1] \in Txins
  BY <1>1, Known DEF At
<1>3. Needs = HashSize /\ pc = 3
  BY <1>1, <1>2, NeedsIs, Places
<1>4. /\ u \in Seq(Byte) /\ Len(u) = HashSize /\ Reversed(u) = tx.vin[1].pre_txid
  <2>1. u \in Seq(Byte) /\ Len(u) = HashSize /\ tx.vin[1].pre_txid \in Seq(Byte)
    BY <1>2, <1>3, TxinFields
  <2>. QED
    BY <2>1, Turned
<1>5. rest = From3(tx)
  BY <1>2, <1>3 DEF Place
<1>6. Ahead(u, From4(tx)) /\ From4(tx) \in Seq(Byte)
  BY <1>2, <1>3, <1>5, FromTyped DEF Ahead, From3
<1>. HIDE DEF u
<1>7. Take(Len(u)) = u /\ Drop(Len(u)) = From4(tx)
  BY <1>4, <1>6, Front
<1>8. rest' = From4(tx) /\ Reversed(Take(HashSize)) = tx.vin[1].pre_txid
  BY <1>1, <1>3, <1>4, <1>7 DEF Reads
<1>9. Place'
  BY <1>1, <1>3, <1>8, PlaceNext
<1>10. "pre_txid" \in DOMAIN Pos /\ pc = Pos["pre_txid"] /\ Reversed(Take(HashSize)) = Right("pre_txid")
  BY <1>3, <1>8 DEF Pos, Right
<1>. QED
  BY <1>1, <1>9, <1>10, FollowRead

\* so is the index of the output it spends,
LEMMA FollowTxInx ==
    ASSUME Typing, Readable, Following, ReadWord("pre_tx_inx")
    PROVE  Following'
<1>1. At("pre_tx_inx") /\ Reads([out EXCEPT !["pre_tx_inx"] = Num(Take(4))])
  BY DEF ReadWord
<1>2. /\ prog \in Parsers /\ pc \in Nat \ {0} /\ tx \in Txs /\ Place /\ pc <= Len(Text[prog])
      /\ pc >= 3 => Len(tx.vin) = 1 /\ tx.vin[1] \in Txins
  BY <1>1, Known DEF At
<1>3. Needs = 4 /\ pc = 4
  BY <1>1, <1>2, NeedsIs, Places DEF Words
<1>4. rest = From4(tx)
  BY <1>2, <1>3 DEF Place
<1>5. /\ Ahead(LE(tx.vin[1].pre_tx_inx, 4), From5(tx)) /\ From5(tx) \in Seq(Byte)
      /\ tx.vin[1].pre_tx_inx \in 0 .. Long - 1
  BY <1>2, <1>3, <1>4, FromTyped, TxinFields DEF Ahead, From4
<1>6. Num(Take(4)) = tx.vin[1].pre_tx_inx /\ Drop(4) = From5(tx)
  BY <1>5, WordFront
<1>7. rest' = From5(tx)
  BY <1>1, <1>3, <1>6 DEF Reads
<1>8. Place'
  BY <1>1, <1>3, <1>7, PlaceNext
<1>9. "pre_tx_inx" \in DOMAIN Pos /\ pc = Pos["pre_tx_inx"] /\ Num(Take(4)) = Right("pre_tx_inx")
  BY <1>3, <1>6 DEF Pos, Right
<1>. QED
  BY <1>1, <1>8, <1>9, FollowRead

\* the size of its script,
LEMMA FollowScSize ==
    ASSUME Typing, Readable, Following, ReadVarint("sc_size")
    PROVE  Following'
<1>1. At("sc_size") /\ Reads([out EXCEPT !["sc_size"] = ValueAt(1)])
  BY DEF ReadVarint
<1>2. /\ prog \in Parsers /\ pc \in Nat \ {0} /\ tx \in Txs /\ Place /\ pc <= Len(Text[prog])
      /\ pc >= 3 => /\ Len(tx.vin) = 1 /\ tx.vin[1] \in Txins
                    /\ tx.vin[1].sc_size = Len(tx.vin[1].sc)
  BY <1>1, Known DEF At
<1>3. Needs = VarintAt(1) /\ pc = 5
  BY <1>1, <1>2, NeedsIs, Places DEF Varints
<1>4. rest = From5(tx)
  BY <1>2, <1>3 DEF Place
<1>5. /\ Ahead(PackVarint(tx.vin[1].sc_size), From6(tx)) /\ From6(tx) \in Seq(Byte)
      /\ tx.vin[1].sc_size \in 0 .. Quad - 1
  BY <1>2, <1>3, <1>4, FromTyped, TxinFields DEF Ahead, From5
<1>6. ValueAt(1) = tx.vin[1].sc_size /\ Drop(VarintAt(1)) = From6(tx)
  BY <1>5, VarintFront
<1>7. rest' = From6(tx)
  BY <1>1, <1>3, <1>6 DEF Reads
<1>8. Place'
  BY <1>1, <1>3, <1>7, PlaceNext
<1>9. "sc_size" \in DOMAIN Pos /\ pc = Pos["sc_size"] /\ ValueAt(1) = Right("sc_size")
  BY <1>2, <1>3, <1>6 DEF Pos, Right
<1>. QED
  BY <1>1, <1>8, <1>9, FollowRead

\* its sequence number,
LEMMA FollowSeqNo ==
    ASSUME Typing, Readable, Following, ReadWord("seq_no")
    PROVE  Following'
<1>1. At("seq_no") /\ Reads([out EXCEPT !["seq_no"] = Num(Take(4))])
  BY DEF ReadWord
<1>2. /\ prog \in Parsers /\ pc \in Nat \ {0} /\ tx \in Txs /\ Place /\ pc <= Len(Text[prog])
      /\ pc >= 3 => Len(tx.vin) = 1 /\ tx.vin[1] \in Txins
  BY <1>1, Known DEF At
<1>3. Needs = 4 /\ pc = 7
  BY <1>1, <1>2, NeedsIs, Places DEF Words
<1>4. rest = From7(tx)
  BY <1>2, <1>3 DEF Place
<1>5. /\ Ahead(LE(tx.vin[1].seq_no, 4), From8(tx)) /\ From8(tx) \in Seq(Byte)
      /\ tx.vin[1].seq_no \in 0 .. Long - 1
  BY <1>2, <1>3, <1>4, FromTyped, TxinFields DEF Ahead, From7
<1>6. Num(Take(4)) = tx.vin[1].seq_no /\ Drop(4) = From8(tx)
  BY <1>5, WordFront
<1>7. rest' = From8(tx)
  BY <1>1, <1>3, <1>6 DEF Reads
<1>8. Place'
  BY <1>1, <1>3, <1>7, PlaceNext
<1>9. "seq_no" \in DOMAIN Pos /\ pc = Pos["seq_no"] /\ Num(Take(4)) = Right("seq_no")
  BY <1>3, <1>6 DEF Pos, Right
<1>. QED
  BY <1>1, <1>8, <1>9, FollowRead

\* the number of outputs
LEMMA FollowVoutSz ==
    ASSUME Typing, Readable, Following, ReadVarint("vout_sz")
    PROVE  Following'
<1>1. At("vout_sz") /\ Reads([out EXCEPT !["vout_sz"] = ValueAt(1)])
  BY DEF ReadVarint
<1>2. /\ prog \in Parsers /\ pc \in Nat \ {0} /\ tx \in Txs /\ Place /\ pc <= Len(Text[prog])
      /\ Len(tx.vout) \in 0 .. Quad - 1 /\ Listed
  BY <1>1, Known DEF At
<1>3. Needs = VarintAt(1) /\ pc = 8
  BY <1>1, <1>2, NeedsIs, Places DEF Varints
<1>4. rest = From8(tx)
  BY <1>2, <1>3 DEF Place
<1>5. Ahead(PackVarint(Len(tx.vout)), From9(tx)) /\ From9(tx) \in Seq(Byte)
  BY <1>2, <1>4, FromTyped DEF Ahead, From8
<1>6. ValueAt(1) = Len(tx.vout) /\ Drop(VarintAt(1)) = From9(tx)
  BY <1>2, <1>5, VarintFront
<1>7. rest' = From9(tx)
  BY <1>1, <1>3, <1>6 DEF Reads
<1>8. From9(tx) = Outs(tx, k + 1)
  <2>1. ~Done(8)
    BY <1>3 DEF Done
  <2>2. k = 0
    BY <1>2, <2>1 DEF Listed
  <2>3. k + 1 = 1
    BY <2>2
  <2>. QED
    BY <2>3 DEF From9
<1>9. Place'
  BY <1>1, <1>3, <1>7, <1>8, PlaceNext
<1>10. "vout_sz" \in DOMAIN Pos /\ pc = Pos["vout_sz"] /\ ValueAt(1) = Right("vout_sz")
  BY <1>3, <1>6 DEF Pos, Right
<1>. QED
  BY <1>1, <1>9, <1>10, FollowRead

\* and the lock time.
LEMMA FollowLockTime ==
    ASSUME Typing, Readable, Following, ReadWord("lock_time")
    PROVE  Following'
<1>1. At("lock_time") /\ Reads([out EXCEPT !["lock_time"] = Num(Take(4))])
  BY DEF ReadWord
<1>2. /\ prog \in Parsers /\ pc \in Nat \ {0} /\ tx.lock_time \in 0 .. Long - 1 /\ Place
      /\ pc <= Len(Text[prog])
  BY <1>1, Known DEF At
<1>3. Needs = 4 /\ pc = 11
  BY <1>1, <1>2, NeedsIs, Places DEF Words
<1>4. rest = LE(tx.lock_time, 4)
  BY <1>2, <1>3 DEF Place
<1>5. Ahead(LE(tx.lock_time, 4), <<>>) /\ <<>> \in Seq(Byte)
  <2>1. LE(tx.lock_time, 4) \in Seq(Byte)
    BY <1>2, Widths, Word
  <2>2. LE(tx.lock_time, 4) \o <<>> = LE(tx.lock_time, 4)
    BY <2>1
  <2>. QED
    BY <1>4, <2>2 DEF Ahead
<1>6. Num(Take(4)) = tx.lock_time /\ Drop(4) = <<>>
  BY <1>2, <1>5, WordFront
<1>7. rest' = <<>>
  BY <1>1, <1>3, <1>6 DEF Reads
<1>8. Place'
  BY <1>1, <1>3, <1>7, PlaceNext
<1>9. "lock_time" \in DOMAIN Pos /\ pc = Pos["lock_time"] /\ Num(Take(4)) = Right("lock_time")
  BY <1>3, <1>6 DEF Pos, Right
<1>. QED
  BY <1>1, <1>8, <1>9, FollowRead

\* What is listed is not disturbed by a read before the outputs or behind them.
LEMMA ListedNext ==
    ASSUME Typing, Listed, NEW step, At(step), NEW o, Reads(o), o.txouts = out.txouts,
           pc \notin {9, 10}
    PROVE  Listed' /\ Scanned'
<1>1. /\ prog \in Parsers /\ Len(Text[prog]) \in 1 .. 11 /\ pc \in Nat \ {0}
  BY Lengths DEF Typing
<1>2. /\ pc' = pc + 1 /\ tx' = tx /\ prog' = prog /\ k' = k /\ out'.txouts = out.txouts
  BY DEF Reads
<1>3. pc <= Len(Text[prog])
  BY DEF At
<1>4. Last' = Last
  BY <1>2 DEF Last
<1>5. ~Done(8)' => ~Done(8)
  BY <1>1, <1>2 DEF Done
<1>6. \A j : Parsed(out.txouts[j].ops, tx.vout[j].sc)' <=> Parsed(out.txouts[j].ops, tx.vout[j].sc)
  BY <1>2 DEF Parsed
<1>7. pc' >= 11 => pc >= 11
  BY <1>1, <1>2
<1>8. pc' <= Len(Text[prog])' => pc' # 10 /\ pc <= Len(Text[prog])
  BY <1>1, <1>2, <1>3
<1>9. Listed'
  BY <1>1, <1>2, <1>3, <1>4, <1>5, <1>6, <1>7, <1>8 DEF Listed
<1>10. Scanned'
  BY <1>1, <1>2 DEF Scanned
<1>. QED
  BY <1>9, <1>10

\* What is known where the script of the input is read.
LEMMA KnownSig ==
    ASSUME Typing, Readable, Following, NEW step \in SigOps \cup {"btc_sig"}, At(step)
    PROVE  /\ prog \in Parsers /\ pc = 6 /\ tx \in Txs /\ tx.vin[1] \in Txins
           /\ tx.vin[1].sc \in Seq(Byte) /\ From7(tx) \in Seq(Byte)
           /\ Ahead(tx.vin[1].sc, From7(tx))
           /\ out.sc_size = Len(tx.vin[1].sc) /\ tx.vin[1].sc_size = Len(tx.vin[1].sc)
           /\ out.sig = Unset /\ out.pubkey = Unset
           /\ Coinbase <=> IsCoinbase(tx.vin[1])
           /\ ReadableSig(tx.vin[1])
<1>1. /\ prog \in Parsers /\ pc \in Nat \ {0} /\ tx \in Txs /\ Place /\ Fields /\ pc \in 1 .. Len(Text[prog])
      /\ pc >= 3 => /\ Len(tx.vin) = 1 /\ tx.vin[1] \in Txins
                    /\ tx.vin[1].sc_size = Len(tx.vin[1].sc)
  BY Known
<1>2. pc = 6
  BY <1>1, Places DEF SigOps
<1>3. Len(tx.vin) = 1 /\ tx.vin[1] \in Txins /\ tx.vin[1].sc_size = Len(tx.vin[1].sc)
  BY <1>1, <1>2
<1>4. tx.vin[1].sc \in Seq(Byte) /\ From7(tx) \in Seq(Byte)
  BY <1>1, <1>3, TxinFields, FromTyped
<1>5. rest = From6(tx)
  BY <1>1, <1>2 DEF Place
<1>6. Ahead(tx.vin[1].sc, From7(tx))
  BY <1>5 DEF Ahead, From6
<1>7. Done(3) /\ Done(4) /\ Done(5) /\ ~Done(6)
  BY <1>1, <1>2 DEF Done
<1>8. /\ out["sc_size"] = Right("sc_size")
      /\ out["pre_txid"] = Right("pre_txid")
      /\ out["pre_tx_inx"] = Right("pre_tx_inx")
  <2>1. \A f \in DOMAIN Pos : out[f] = IF Done(Pos[f]) THEN Right(f) ELSE Unset
    BY <1>1 DEF Fields
  <2>2. /\ "sc_size" \in DOMAIN Pos /\ Pos["sc_size"] = 5
        /\ "pre_txid" \in DOMAIN Pos /\ Pos["pre_txid"] = 3
        /\ "pre_tx_inx" \in DOMAIN Pos /\ Pos["pre_tx_inx"] = 4
    BY DEF Pos
  <2>. QED
    BY <1>7, <2>1, <2>2
<1>9. /\ out.sc_size = Len(tx.vin[1].sc)
      /\ out.pre_txid = tx.vin[1].pre_txid
      /\ out.pre_tx_inx = tx.vin[1].pre_tx_inx
  BY <1>8 DEF Right
<1>10. Coinbase <=> IsCoinbase(tx.vin[1])
  BY <1>9 DEF Coinbase, IsCoinbase
<1>11. out.sig = Unset /\ out.pubkey = Unset
  BY <1>1, <1>7 DEF Fields
<1>12. ReadableSig(tx.vin[1])
  <2>1. prog \notin {"parse_tx_version", "parse_tx", "parse_tx_vinc"}
    BY <1>1, <1>2, LongParsers
  <2>. QED
    BY <2>1 DEF Readable
<1>. QED
  BY <1>1, <1>2, <1>3, <1>4, <1>6, <1>9, <1>10, <1>11, <1>12

\* The script is read whole, and shown as it should be.
LEMMA FollowScript ==
    ASSUME Typing, Readable, Following, NEW step \in SigOps \cup {"btc_sig"}, At(step),
           NEW o, Reads(o), Needs = Len(tx.vin[1].sc),
           \A f \in DOMAIN Pos : o[f] = out[f], o.txouts = out.txouts, SigShown(tx.vin[1])'
    PROVE  Following'
<1>1. /\ prog \in Parsers /\ pc = 6 /\ tx.vin[1].sc \in Seq(Byte) /\ From7(tx) \in Seq(Byte)
      /\ Ahead(tx.vin[1].sc, From7(tx))
  BY KnownSig
<1>2. /\ Fields /\ Listed /\ fault = "none" /\ pc <= Len(Text[prog]) /\ Len(Text[prog]) \in Nat
  BY Known DEF At
<1>3. rest' = From7(tx)
  <2>1. Drop(Len(tx.vin[1].sc)) = From7(tx)
    BY <1>1, Front
  <2>. QED
    BY <2>1 DEF Reads
<1>4. Place'
  BY <1>1, <1>3, PlaceNext
<1>5. pc' = 7 /\ prog' = prog /\ tx' = tx /\ out' = o /\ fault' = "none"
  BY <1>1, <1>2 DEF Reads
<1>6. Fields'
  <2>1. \A f \in DOMAIN Pos : Pos[f] \in 1 .. 11 \ {6}
    BY DEF Pos
  <2>2. \A f \in DOMAIN Pos : Done(Pos[f])' <=> Done(Pos[f])
    BY <1>1, <1>2, <1>5, <2>1 DEF Done
  <2>3. \A f \in DOMAIN Pos : Right(f)' = Right(f)
    BY <1>5 DEF Right
  <2>4. Done(6)'
    BY <1>1, <1>2, <1>5 DEF Done
  <2>. QED
    BY <1>2, <1>5, <2>2, <2>3, <2>4 DEF Fields
<1>7. Listed' /\ Scanned'
  BY <1>1, <1>2, ListedNext
<1>. QED
  BY <1>4, <1>5, <1>6, <1>7 DEF Following

\* The script is read as it is.
LEMMA FollowSig ==
    ASSUME Typing, Readable, Following, NEW step \in SigOps \cup {"btc_sig"}, At(step),
           Reads([out EXCEPT !.sig = Take(out.sc_size)]),
           prog = "parse_txin" \/ Coinbase, step = "btc_sig" \/ Coinbase
    PROVE  Following'
<1>1. /\ tx.vin[1].sc \in Seq(Byte) /\ From7(tx) \in Seq(Byte) /\ Ahead(tx.vin[1].sc, From7(tx))
      /\ out.sc_size = Len(tx.vin[1].sc) /\ (Coinbase <=> IsCoinbase(tx.vin[1]))
  BY KnownSig
<1>2. Needs = Len(tx.vin[1].sc)
  BY <1>1, NeedsIs
<1>3. Take(out.sc_size) = tx.vin[1].sc
  BY <1>1, Front
<1>. DEFINE u == Take(out.sc_size)
            o == [out EXCEPT !.sig = u]
<1>4. out \in Variables
  BY DEF Typing
<1>5. out' = o /\ tx' = tx /\ prog' = prog /\ Reads(o)
  BY DEF Reads
<1>. HIDE DEF u
<1>6. /\ \A f \in DOMAIN Pos : o[f] = out[f]
      /\ o.txouts = out.txouts /\ o.sig = u
  BY <1>4 DEF Variables, Pos
<1>. HIDE DEF o
<1>7. out'.sig = tx.vin[1].sc
  BY <1>3, <1>5, <1>6 DEF u
<1>8. SigShown(tx.vin[1])'
  BY <1>1, <1>5, <1>7 DEF SigShown, IsCoinbase
<1>. QED
  BY <1>2, <1>5, <1>6, <1>8, FollowScript

\* A coinbase script that can be read is not too long.
LEMMA NoOverrun ==
    ASSUME Typing, Readable, Following, NEW step \in SigOps
    PROVE  ~OverrunCoinbase(step)
<1>1. SUFFICES ASSUME OverrunCoinbase(step) PROVE FALSE
  OBVIOUS
<1>2. At(step) /\ Coinbase /\ 2 * out.sc_size >= SigBufSize
  BY <1>1 DEF OverrunCoinbase
<1>3. /\ prog \in Parsers /\ tx.vin[1] \in Txins
      /\ out.sc_size = tx.vin[1].sc_size /\ IsCoinbase(tx.vin[1]) /\ ReadableSig(tx.vin[1]) /\ pc = 6
  BY <1>2, KnownSig
<1>4. prog \notin {"parse_tx_version", "parse_tx", "parse_tx_vinc", "parse_txin"}
  BY <1>2, <1>3, Places DEF SigOps
<1>5. 2 * tx.vin[1].sc_size < SigBufSize
  BY <1>3, <1>4 DEF ReadableSig
<1>6. 2 * tx.vin[1].sc_size \in Int /\ SigBufSize \in Nat
  <2>1. tx.vin[1].sc_size \in 0 .. Quad - 1 /\ SigBufSize \in Nat
    BY <1>3, TxinFields, ParseTxAssumption DEF ParseTxAssumption
  <2>2. tx.vin[1].sc_size \in Nat
    BY <2>1, Widths
  <2>. QED
    BY <2>1, <2>2
<1>. QED
  BY <1>2, <1>3, <1>5, <1>6

\* The first opcodes of a script in front of the stream.
LEMMA FirstOps ==
    ASSUME NEW s \in Seq(Byte), NEW b \in Seq(Byte), Ahead(s, b), NEW n \in 1 .. 2, HasOps(s, n)
    PROVE  /\ CutsOf(s, n)[1] = OneOp /\ OneOp \in 1 .. Len(s) /\ rest[1] = s[1]
           /\ n = 1 => OneOp = Len(s)
           /\ n = 2 => /\ OneOp < Len(s) /\ TwoOps = Len(s) /\ rest[OneOp + 1] = s[OneOp + 1]
                       /\ CutsOf(s, n)[2] = Len(s)
                       /\ Len(s) = OneOp + OpSize(s[OneOp + 1])
<1>. DEFINE c == CutsOf(s, n)
<1>1. /\ c[0] = 0 /\ \A j \in 1 .. n : c[j] = NextCut(s, c[j - 1])
      /\ c[n] = Len(s)
  <2>1. n \in Nat
    OBVIOUS
  <2>2. c[0] = 0 /\ \A j \in 1 .. n : c[j] = NextCut(s, c[j - 1])
    BY <2>1, CutsDef
  <2>. QED
    BY <2>2 DEF HasOps
<1>2. Len(s) \in Nat /\ \A j \in 1 .. Len(s) : s[j] \in Byte
  BY LenProperties, ElementOfSeq
<1>3. \A m \in Nat : m < n => c[m] < Len(s)
  <2>1. n \in Nat
    OBVIOUS
  <2>. QED
    BY <2>1, CutsInside
<1>. HIDE DEF c
<1>4. Len(s) > 0 /\ 1 \in 1 .. Len(s)
  <2>1. c[0] < Len(s)
    BY <1>3
  <2>. QED
    BY <1>1, <1>2, <2>1
<1>5. c[1] = OpSize(s[1])
  <2>1. 1 \in 1 .. n /\ 1 - 1 = 0 /\ 0 + 1 = 1
    OBVIOUS
  <2>2. c[1] = NextCut(s, 0)
    BY <1>1, <2>1
  <2>3. NextCut(s, 0) = 0 + OpSize(s[0 + 1])
    BY <1>4 DEF NextCut
  <2>4. OpSize(s[1]) \in Nat
    BY <1>2, <1>4, OpSized
  <2>. QED
    BY <2>1, <2>2, <2>3, <2>4
<1>6. /\ \A j \in 1 .. Len(s) : rest[j] = s[j]
      /\ Len(rest) = Len(s) + Len(b) /\ Len(b) \in Nat /\ rest \in Seq(Byte)
  BY FrontPart, LenProperties
<1>7. rest # <<>>
  <2>1. Len(rest) > 0
    BY <1>2, <1>4, <1>6
  <2>. QED
    BY <2>1
<1>8. OneOp = c[1] /\ rest[1] = s[1]
  BY <1>4, <1>5, <1>6, <1>7 DEF OneOp
<1>9. OneOp \in Nat \ {0} /\ TwoOps \in Nat \ {0}
  BY <1>6, OpsTyped
<1>10. ASSUME n = 1 PROVE OneOp = Len(s)
  BY <1>1, <1>8, <1>10
<1>11. ASSUME n = 2
       PROVE  /\ OneOp < Len(s) /\ TwoOps = Len(s) /\ rest[OneOp + 1] = s[OneOp + 1]
              /\ c[2] = Len(s) /\ Len(s) = OneOp + OpSize(s[OneOp + 1])
  <2>1. OneOp < Len(s)
    BY <1>3, <1>8, <1>11
  <2>2. OneOp + 1 \in 1 .. Len(s)
    BY <1>2, <1>9, <2>1
  <2>3. rest[OneOp + 1] = s[OneOp + 1]
    BY <1>6, <2>2
  <2>4. c[2] = Len(s)
    BY <1>1, <1>11
  <2>5. c[2] = NextCut(s, OneOp)
    <3>1. 2 \in 1 .. n /\ 2 - 1 = 1
      BY <1>11
    <3>. QED
      BY <1>1, <1>8, <3>1
  <2>6. NextCut(s, OneOp) = OneOp + OpSize(s[OneOp + 1])
    BY <2>1 DEF NextCut
  <2>7. ~(Len(rest) <= OneOp)
    BY <1>2, <1>6, <1>9, <2>1
  <2>8. TwoOps = OneOp + OpSize(s[OneOp + 1])
    BY <2>3, <2>7 DEF TwoOps
  <2>. QED
    BY <2>1, <2>3, <2>4, <2>5, <2>6, <2>8
<1>12. OneOp \in 1 .. Len(s)
  <2>1. n = 1 \/ n = 2
    OBVIOUS
  <2>. QED
    BY <1>2, <1>9, <1>10, <1>11, <2>1
<1>. QED
  BY <1>8, <1>10, <1>11, <1>12 DEF c

\* What a push pushes is shown.
LEMMA ShownPush ==
    ASSUME NEW s \in Seq(Byte), NEW b \in Seq(Byte), Ahead(s, b),
           NEW x \in Nat, NEW y \in 0 .. Len(s), y = x + OpSize(s[x + 1]), rest[x + 1] = s[x + 1],
           x + 1 \in 1 .. Len(s)
    PROVE  Pushed(x + 1, Unset) = ShownOp(s, x, y)
<1>1. s[x + 1] \in Nat
  <2>1. s[x + 1] \in Byte
    BY ElementOfSeq
  <2>. QED
    BY <2>1 DEF Byte
<1>2. CASE IsPush(s[x + 1])
  <2>. DEFINE d == s[x + 1]
  <2>1. OpSize(d) = d + 1
    BY <1>2 DEF OpSize
  <2>2. d \in Nat
    BY <1>1
  <2>. HIDE DEF d
  <2>3. x + 1 + 1 = x + 2 /\ x + 2 \in Nat \ {0} /\ x + 1 + d = x + (d + 1)
    BY <2>2
  <2>4. x + 1 + d = y
    BY <2>1, <2>3 DEF d
  <2>5. SubSeq(rest, x + 2, y) = SubSeq(s, x + 2, y)
    BY <2>3, FrontPart
  <2>6. Pushed(x + 1, Unset) = SubSeq(rest, x + 2, y)
    BY <1>2, <2>3, <2>4 DEF Pushed, d
  <2>7. ShownOp(s, x, y) = SubSeq(s, x + 2, y)
    BY <1>2 DEF ShownOp
  <2>. QED
    BY <2>5, <2>6, <2>7
<1>3. CASE ~IsPush(s[x + 1])
  BY <1>3 DEF Pushed, ShownOp
<1>. QED
  BY <1>2, <1>3

\* The first opcodes of a readable script are the script.
LEMMA SigNeeds ==
    ASSUME Typing, Readable, Following, NEW step \in SigOps, At(step), ~Coinbase
    PROVE  Needs = Len(tx.vin[1].sc)
<1>. DEFINE s == tx.vin[1].sc
            b == From7(tx)
<1>1. At(step) /\ ~Coinbase /\ step \in SigOps \cup {"btc_sig"}
  OBVIOUS
<1>2. /\ prog \in Parsers /\ pc = 6 /\ s \in Seq(Byte) /\ b \in Seq(Byte) /\ Ahead(s, b)
      /\ out.sc_size = Len(s) /\ ~IsCoinbase(tx.vin[1]) /\ ReadableSig(tx.vin[1])
  BY <1>1, KnownSig
<1>3. /\ prog \notin {"parse_tx_version", "parse_tx", "parse_tx_vinc", "parse_txin"}
      /\ step = "sc_sig" <=> prog = "parse_txout_script_pbk"
  BY <1>1, <1>2, Places DEF SigOps
<1>4. PICK n \in 1 .. 2 : HasOps(s, n) /\ (n = 1 => step = "sc_sig")
  <2>1. \/ HasOps(s, 2)
        \/ HasOps(s, 1) /\ prog = "parse_txout_script_pbk"
    BY <1>2, <1>3 DEF ReadableSig
  <2>. QED
    BY <1>3, <2>1
<1>. HIDE DEF s, b
<1>5. /\ OneOp \in 1 .. Len(s)
      /\ n = 1 => OneOp = Len(s)
      /\ n = 2 => OneOp < Len(s) /\ TwoOps = Len(s)
  BY <1>2, <1>4, FirstOps
<1>6. Len(s) \in Nat
  BY <1>2, LenProperties
<1>7. Needs = Len(s)
  <2>1. CASE n = 1
    <3>1. ~(OneOp < out.sc_size)
      BY <1>2, <1>5, <1>6, <2>1
    <3>2. Needs = SigSize
      BY <1>1, <1>4, <2>1, NeedsIs
    <3>. QED
      BY <1>5, <2>1, <3>1, <3>2 DEF SigSize
  <2>2. CASE n = 2
    <3>1. OneOp < out.sc_size
      BY <1>2, <1>5, <2>2
    <3>2. Needs \in {TwoOps, SigSize}
      BY <1>1, NeedsIs DEF SigOps
    <3>. QED
      BY <1>5, <2>2, <3>1, <3>2 DEF SigSize
  <2>. QED
    BY <2>1, <2>2
<1>. QED
  BY <1>7 DEF s

\* The opcodes of the script are read as they were written.
LEMMA FollowScriptSig ==
    ASSUME Typing, Readable, Following, NEW step \in SigOps, ReadScriptSig(step)
    PROVE  Following'
<1>. DEFINE s == tx.vin[1].sc
            b == From7(tx)
            u == Pushed(1, out.sig)
            v == IF Needs > OneOp THEN Pushed(OneOp + 1, out.pubkey) ELSE out.pubkey
            o == [out EXCEPT !.sig = u, !.pubkey = v]
<1>1. At(step) /\ ~Coinbase /\ Reads(o) /\ step \in SigOps \cup {"btc_sig"}
  BY DEF ReadScriptSig
<1>2. /\ prog \in Parsers /\ pc = 6 /\ s \in Seq(Byte) /\ b \in Seq(Byte) /\ Ahead(s, b)
      /\ out.sc_size = Len(s) /\ out.sig = Unset /\ out.pubkey = Unset
      /\ ~IsCoinbase(tx.vin[1]) /\ ReadableSig(tx.vin[1])
  BY <1>1, KnownSig
<1>3. /\ prog \notin {"parse_tx_version", "parse_tx", "parse_tx_vinc", "parse_txin"}
      /\ step = "sc_sig" <=> prog = "parse_txout_script_pbk"
  BY <1>1, <1>2, Places DEF SigOps
<1>4. PICK n \in 1 .. 2 : HasOps(s, n) /\ (n = 1 => step = "sc_sig")
  <2>1. \/ HasOps(s, 2)
        \/ HasOps(s, 1) /\ prog = "parse_txout_script_pbk"
    BY <1>2, <1>3 DEF ReadableSig
  <2>. QED
    BY <1>3, <2>1
<1>. HIDE DEF s, b
<1>5. /\ CutsOf(s, n)[1] = OneOp /\ OneOp \in 1 .. Len(s) /\ rest[1] = s[1]
      /\ n = 1 => OneOp = Len(s)
      /\ n = 2 => /\ OneOp < Len(s) /\ TwoOps = Len(s) /\ rest[OneOp + 1] = s[OneOp + 1]
                  /\ CutsOf(s, n)[2] = Len(s)
                  /\ Len(s) = OneOp + OpSize(s[OneOp + 1])
  BY <1>2, <1>4, FirstOps
<1>6. Len(s) \in Nat
  BY <1>2, LenProperties
<1>7. Needs = Len(s)
  BY <1>1, SigNeeds DEF s
<1>8. u = ShownOp(s, 0, CutsOf(s, n)[1])
  <2>1. OneOp = 0 + OpSize(s[0 + 1])
    <3>1. s[1] \in Byte /\ rest # <<>>
      <4>1. 1 \in 1 .. Len(s) /\ Len(s) > 0
        BY <1>5, <1>6
      <4>2. s[1] \in Byte
        BY <1>2, <4>1, ElementOfSeq
      <4>3. Len(rest) = Len(s) + Len(b) /\ Len(b) \in Nat
        BY <1>2, FrontPart, LenProperties
      <4>4. Len(rest) > 0
        BY <1>6, <4>1, <4>3
      <4>. QED
        BY <4>2, <4>4
    <3>2. OneOp = OpSize(s[1])
      BY <1>5, <3>1 DEF OneOp
    <3>3. OpSize(s[1]) \in Nat
      BY <3>1, OpSized
    <3>. QED
      BY <3>2, <3>3
  <2>2. /\ 0 \in Nat /\ OneOp \in 0 .. Len(s) /\ rest[0 + 1] = s[0 + 1] /\ 0 + 1 \in 1 .. Len(s)
        /\ 0 + 1 = 1
    BY <1>5, <1>6
  <2>3. Pushed(0 + 1, Unset) = ShownOp(s, 0, OneOp)
    <3>. HIDE DEF u, v
    <3>. QED
      BY <1>2, <2>1, <2>2, ShownPush
  <2>. QED
    BY <1>2, <1>5, <2>2, <2>3
<1>9. v = IF n = 2 THEN ShownOp(s, CutsOf(s, n)[1], CutsOf(s, n)[2]) ELSE Unset
  <2>1. CASE n = 1
    <3>1. ~(Needs > OneOp)
      BY <1>5, <1>6, <1>7, <2>1
    <3>. QED
      BY <1>2, <2>1, <3>1
  <2>2. CASE n = 2
    <3>1. Needs > OneOp
      BY <1>5, <1>6, <1>7, <2>2
    <3>2. OneOp \in Nat /\ Len(s) \in 0 .. Len(s) /\ OneOp + 1 \in 1 .. Len(s)
      BY <1>5, <1>6, <2>2
    <3>3. Len(s) = OneOp + OpSize(s[OneOp + 1]) /\ rest[OneOp + 1] = s[OneOp + 1]
      BY <1>5, <2>2
    <3>4. Pushed(OneOp + 1, Unset) = ShownOp(s, OneOp, Len(s))
      <4>. HIDE DEF u, v
      <4>. QED
        BY <1>2, <3>2, <3>3, ShownPush
    <3>. QED
      BY <1>2, <1>5, <2>2, <3>1, <3>4
  <2>. QED
    BY <2>1, <2>2
<1>10. out \in Variables
  BY DEF Typing
<1>11. out' = o /\ tx' = tx /\ prog' = prog
  BY <1>1 DEF Reads
<1>. HIDE DEF u, v
<1>12. /\ \A f \in DOMAIN Pos : o[f] = out[f]
       /\ o.txouts = out.txouts /\ o.sig = u /\ o.pubkey = v
  BY <1>10 DEF Variables, Pos
<1>. HIDE DEF o
<1>13. out'.sig = u /\ out'.pubkey = v
  BY <1>11, <1>12
<1>14. SigShown(tx.vin[1])'
  <2>1. \E m \in 1 .. 2 :
             /\ HasOps(s, m)
             /\ LET c == CutsOf(s, m)
                IN  /\ out'.sig = ShownOp(s, 0, c[1])
                    /\ out'.pubkey = IF m = 2 THEN ShownOp(s, c[1], c[2]) ELSE Unset
    BY <1>4, <1>8, <1>9, <1>13
  <2>2. prog # "parse_txin" /\ ~IsCoinbase(tx.vin[1])
    BY <1>2, <1>3
  <2>. QED
    BY <1>11, <2>1, <2>2 DEF SigShown, s
<1>. QED
  BY <1>1, <1>7, <1>12, <1>14, FollowScript DEF s

\* A read of an output does not disturb the other variables.
LEMMA FieldsKept ==
    ASSUME prog \in Parsers, Fields, pc \in 9 .. 10, pc <= Len(Text[prog]), pc' \in 9 .. 11,
           prog' = prog, tx' = tx,
           \A f \in DOMAIN Pos : out'[f] = out[f],
           out'.sig = out.sig, out'.pubkey = out.pubkey
    PROVE  Fields'
<1>. DEFINE n == Len(Text[prog])
<1>1. n \in 1 .. 11 /\ pc <= n /\ n' = n
  BY Lengths
<1>. HIDE DEF n
<1>2. \A p \in 1 .. 8 : Done(p) /\ Done(p)'
  BY <1>1 DEF Done, n
<1>3. ~Done(11) /\ ~Done(11)'
  BY DEF Done
<1>4. \A f \in DOMAIN Pos : Pos[f] \in 1 .. 8 \cup {11}
  BY DEF Pos
<1>5. \A f \in DOMAIN Pos : Done(Pos[f])' <=> Done(Pos[f])
  BY <1>2, <1>3, <1>4
<1>6. \A f \in DOMAIN Pos : Right(f)' = Right(f)
  BY DEF Right
<1>7. SigShown(tx.vin[1])' <=> SigShown(tx.vin[1])
  BY DEF SigShown
<1>8. Done(6) /\ Done(6)'
  BY <1>2
<1>. QED
  BY <1>5, <1>6, <1>7, <1>8 DEF Fields

\* What is known where the outputs are read.
LEMMA KnownOuts ==
    ASSUME Typing, Readable, Following, At("txout")
    PROVE  /\ prog \in Parsers /\ pc = 9 /\ pc <= Len(Text[prog]) /\ tx \in Txs
           /\ prog \in {"parse_txout", "parse_txout_script_pbk"}
           /\ fault = "none" /\ Fields /\ Listed
           /\ out \in Variables /\ k \in Nat /\ rest \in Seq(Byte)
           /\ out.vout_sz = Len(tx.vout) /\ tx.vout \in Seq(Txouts) /\ Len(tx.vout) \in Nat
           /\ Last = k /\ k <= Len(tx.vout) /\ rest = Outs(tx, k + 1)
<1>1. /\ prog \in Parsers /\ pc \in Nat \ {0} /\ tx \in Txs /\ out \in Variables /\ k \in Nat
      /\ rest \in Seq(Byte) /\ Len(Text[prog]) \in Nat
  BY Lengths DEF Typing
<1>2. /\ fault = "none" /\ Place /\ Fields /\ Listed /\ pc \in 1 .. Len(Text[prog])
  BY Known
<1>3. pc = 9
  BY <1>1, Places
<1>4. prog \in {"parse_txout", "parse_txout_script_pbk"}
  BY <1>1, <1>2, <1>3, LongParsers
<1>5. pc <= Len(Text[prog]) /\ Done(8)
  BY <1>1, <1>2, <1>3 DEF Done
<1>6. out["vout_sz"] = Right("vout_sz")
  <2>1. \A f \in DOMAIN Pos : out[f] = IF Done(Pos[f]) THEN Right(f) ELSE Unset
    BY <1>2 DEF Fields
  <2>2. "vout_sz" \in DOMAIN Pos /\ Pos["vout_sz"] = 8
    BY DEF Pos
  <2>. QED
    BY <1>5, <2>1, <2>2
<1>7. out.vout_sz = Len(tx.vout)
  BY <1>6 DEF Right
<1>8. tx.vout \in Seq(Txouts) /\ Len(tx.vout) \in Nat
  BY <1>1, TxFields
<1>9. Last = k /\ k <= Len(tx.vout)
  BY <1>2, <1>3, <1>5 DEF Listed
<1>10. rest = Outs(tx, k + 1)
  BY <1>2, <1>3, <1>5 DEF Place
<1>. QED
  BY <1>1, <1>2, <1>3, <1>4, <1>5, <1>7, <1>8, <1>9, <1>10

\* The next output is in front of the stream.
LEMMA OutFront ==
    ASSUME Typing, Readable, Following, At("txout"), k < Len(tx.vout)
    PROVE  LET txout == tx.vout[k + 1]
               s     == txout.sc
           IN  /\ s \in Seq(Byte) /\ txout.sc_size = Len(s) /\ Outs(tx, k + 2) \in Seq(Byte)
               /\ Num(Take(8)) = txout.value /\ ValueAt(9) = Len(s)
               /\ TxoutSize = TxoutHead + Len(s) /\ Len(rest) >= TxoutSize
               /\ SubSeq(rest, TxoutHead + 1, TxoutSize) = s
               /\ Drop(TxoutHead) = s \o Outs(tx, k + 2)
               /\ Drop(TxoutSize) = Outs(tx, k + 2)
<1>. DEFINE txout == tx.vout[k + 1]
            s == txout.sc
            a == LE(txout.value, 8)
            p == PackVarint(txout.sc_size)
            d == Outs(tx, k + 2)
<1>1. /\ tx \in Txs /\ k \in Nat /\ rest = Outs(tx, k + 1) /\ tx.vout \in Seq(Txouts)
      /\ Len(tx.vout) \in Nat
  BY KnownOuts
<1>2. k + 1 \in 1 .. Len(tx.vout) /\ k + 1 + 1 = k + 2 /\ k + 2 \in 1 .. Len(tx.vout) + 1
  BY <1>1
<1>3. txout \in Txouts
  BY <1>1, <1>2, ElementOfSeq
<1>4. /\ a \in Seq(Byte) /\ txout.value \in 0 .. Quad - 1
      /\ p \in Seq(Byte) /\ txout.sc_size \in 0 .. Quad - 1 /\ s \in Seq(Byte)
  BY <1>3, TxoutFields
<1>5. d \in Seq(Byte)
  BY <1>1, <1>2, OutsStep
<1>6. txout.sc_size = Len(s)
  <2>1. k + 1 \in DOMAIN tx.vout
    BY <1>1, <1>2
  <2>. QED
    BY <2>1 DEF Readable, Created
<1>7. rest = a \o (p \o (s \o d))
  BY <1>1, <1>2, OutsStep
<1>8. IsLong(a) /\ Num(a) = txout.value
  <2>1. txout.value \in Nat /\ Fits(txout.value, 8)
    BY <1>4, Widths, SMTT(60) DEF Fits
  <2>2. Len(a) = 8
    BY <2>1, Word
  <2>3. Num(a) = txout.value
    BY <2>1, WordRead
  <2>. QED
    BY <2>2, <2>3 DEF IsLong
<1>. DEFINE v == txout.value
            z == txout.sc_size
<1>9. z \in 0 .. Quad - 1 /\ p = PackVarint(z) /\ z = Len(s) /\ Num(a) = v
  BY <1>4, <1>6, <1>8
<1>. HIDE DEF a, s, d, v
<1>10. s \o d \in Seq(Byte) /\ p \o (s \o d) \in Seq(Byte)
  <2>1. s \o d \in Seq(Byte)
    BY <1>4, <1>5, Rest
  <2>. HIDE DEF p
  <2>. QED
    BY <2>1, <1>4, Rest
<1>11. Ahead(a, p \o (s \o d))
  BY <1>7 DEF Ahead
<1>12. VarintAt(9) = Len(p) /\ ValueAt(9) = z
  <2>. HIDE DEF z
  <2>1. Ahead(a, PackVarint(z) \o (s \o d))
    BY <1>9, <1>11
  <2>2. VarintAt(9) = Len(PackVarint(z)) /\ ValueAt(9) = z
    BY <1>4, <1>8, <1>9, <1>10, <2>1, VarintBehind
  <2>. QED
    BY <1>9, <2>2
<1>13. Take(8) = a
  <2>1. Take(Len(a)) = a
    BY <1>4, <1>10, <1>11, Front
  <2>. QED
    BY <1>8, <2>1 DEF IsLong
<1>. HIDE DEF p, z
<1>. DEFINE h == a \o p
            w == h \o s
<1>14. h \in Seq(Byte) /\ Len(h) = Len(a) + Len(p) /\ Len(h) \in Nat
  <2>1. a \o p \in Seq(Byte)
    BY <1>4, Rest
  <2>2. Len(a \o p) = Len(a) + Len(p)
    BY <1>4, Parts
  <2>3. Len(a \o p) \in Nat
    BY <2>1, LenProperties
  <2>. QED
    BY <2>1, <2>2, <2>3
<1>15. a \o (p \o (s \o d)) = h \o (s \o d)
  <2>1. a \in Seq(Byte) /\ p \in Seq(Byte) /\ s \o d \in Seq(Byte)
    BY <1>4, <1>10
  <2>. HIDE DEF h
  <2>2. \A y \in Seq(Byte) : (a \o p) \o y = a \o (p \o y)
    BY <2>1, Rest, SMTT(60)
  <2>3. (a \o p) \o (s \o d) = a \o (p \o (s \o d))
    BY <2>1, <2>2
  <2>. QED
    BY <2>3 DEF h
<1>. HIDE DEF h
<1>16. w \in Seq(Byte) /\ Len(w) = Len(h) + Len(s) /\ Len(w) \in Nat
  <2>1. h \o s \in Seq(Byte)
    BY <1>4, <1>14, Rest
  <2>2. Len(h \o s) = Len(h) + Len(s)
    BY <1>4, <1>14, Parts
  <2>3. Len(h \o s) \in Nat
    BY <2>1, LenProperties
  <2>. QED
    BY <2>1, <2>2, <2>3
<1>17. h \o (s \o d) = w \o d
  <2>1. h \in Seq(Byte) /\ s \in Seq(Byte) /\ d \in Seq(Byte)
    BY <1>4, <1>5, <1>14
  <2>. HIDE DEF w
  <2>2. (h \o s) \o d = h \o (s \o d)
    BY <2>1, Rest
  <2>. QED
    BY <2>2 DEF w
<1>. HIDE DEF w
<1>18. Ahead(h, s \o d) /\ Ahead(w, d)
  BY <1>7, <1>15, <1>17 DEF Ahead
<1>19. Len(rest) >= Len(w) /\ Drop(Len(w)) = d /\ Drop(Len(h)) = s \o d /\ Len(rest) >= Len(h)
  BY <1>5, <1>10, <1>14, <1>16, <1>18, Front
<1>20. TxoutHead = Len(h)
  <2>1. Len(a) = 8
    BY <1>8 DEF IsLong
  <2>2. Len(h) = 8 + Len(p)
    BY <1>14, <2>1
  <2>. QED
    BY <1>12, <2>2 DEF TxoutHead
<1>21. TxoutSize = TxoutHead + Len(s) /\ TxoutSize = Len(w)
  <2>1. ~(Len(rest) < TxoutHead)
    <3>1. Len(rest) \in Nat
      BY <1>5, <1>16, <1>18, FrontPart, LenProperties
    <3>. QED
      BY <1>14, <1>19, <1>20, <3>1
  <2>2. TxoutSize = TxoutHead + z
    BY <1>12, <2>1 DEF TxoutSize
  <2>. QED
    BY <1>9, <1>16, <1>20, <2>2
<1>22. SubSeq(rest, TxoutHead + 1, TxoutSize) = s
  <2>1. /\ Len(s \o d) = Len(s) + Len(d) /\ SubSeq(s \o d, 1, Len(s)) = s
        /\ Len(s) \in Nat /\ Len(d) \in Nat
    BY <1>4, <1>5, Parts, LenProperties
  <2>2. Len(s) \in 0 .. Len(s \o d) /\ 1 \in Nat \ {0}
    BY <2>1
  <2>3. SubSeq(rest, Len(h) + 1, Len(h) + Len(s)) = SubSeq(s \o d, 1, Len(s))
    BY <1>10, <1>14, <1>18, <2>2, BehindPart
  <2>. QED
    BY <1>16, <1>20, <1>21, <2>1, <2>3
<1>23. Num(Take(8)) = v
  BY <1>9, <1>13
<1>. QED
  BY <1>4, <1>5, <1>9, <1>12, <1>19, <1>20, <1>21, <1>22, <1>23 DEF s, d, v, z

\* The outputs before the one appended stay.
LEMMA ListedAppend ==
    ASSUME out \in Variables, Listed, k \in Nat, Last = k, NEW e \in Shown,
           out'.txouts = Append(out.txouts, e), prog' = prog, tx' = tx
    PROVE  /\ Last' = k + 1 /\ out'.txouts[k + 1] = e
           /\ \A j \in 1 .. k : /\ out'.txouts[j].value = tx.vout[j].value
                                /\ out'.txouts[j].sc = tx.vout[j].sc
                                /\ prog = "parse_txout_script_pbk" =>
                                       Parsed(out'.txouts[j].ops, tx.vout[j].sc)
<1>1. out.txouts \in Seq(Shown) /\ Len(out.txouts) = k
  BY DEF Variables, Last
<1>. DEFINE l == out.txouts
<1>2. l \in Seq(Shown) /\ Len(l) = k
  BY <1>1
<1>3. \A j \in 1 .. k : /\ l[j].value = tx.vout[j].value
                        /\ l[j].sc = tx.vout[j].sc
                        /\ prog = "parse_txout_script_pbk" =>
                                       Parsed(l[j].ops, tx.vout[j].sc)
  BY DEF Listed
<1>. HIDE DEF l
<1>4. /\ Len(Append(l, e)) = Len(l) + 1 /\ Append(l, e)[Len(l) + 1] = e
      /\ \A j \in 1 .. Len(l) : Append(l, e)[j] = l[j]
  BY <1>2, AppendProperties
<1>5. out'.txouts = Append(l, e)
  BY DEF l
<1>6. Last' = k + 1 /\ out'.txouts[k + 1] = e
  BY <1>2, <1>4, <1>5 DEF Last
<1>7. \A j \in 1 .. k : out'.txouts[j] = l[j]
  BY <1>2, <1>4, <1>5
<1>8. ASSUME NEW j \in 1 .. k
      PROVE  /\ out'.txouts[j].value = tx.vout[j].value
             /\ out'.txouts[j].sc = tx.vout[j].sc
             /\ prog = "parse_txout_script_pbk" => Parsed(out'.txouts[j].ops, tx.vout[j].sc)
  <2>1. /\ l[j].value = tx.vout[j].value /\ l[j].sc = tx.vout[j].sc
        /\ prog = "parse_txout_script_pbk" => Parsed(l[j].ops, tx.vout[j].sc)
    BY <1>3
  <2>2. out'.txouts[j] = l[j]
    BY <1>7
  <2>3. out'.txouts[j].value = tx.vout[j].value /\ out'.txouts[j].sc = tx.vout[j].sc
    BY <2>1, <2>2
  <2>4. ASSUME prog = "parse_txout_script_pbk" PROVE Parsed(out'.txouts[j].ops, tx.vout[j].sc)
    <3>1. Parsed(l[j].ops, tx.vout[j].sc)
      BY <2>1, <2>4
    <3>. QED
      BY <2>2, <3>1, Zenon
  <2>. QED
    BY <2>3, <2>4
<1>. QED
  BY <1>6, <1>8

\* An output is read as it was written,
LEMMA FollowTxout ==
    ASSUME Typing, Readable, Following, ReadTxout
    PROVE  Following'
<1>. DEFINE e == [value |-> Num(Take(8)), len |-> ValueAt(9),
                  sc |-> SubSeq(rest, TxoutHead + 1, TxoutSize), ops |-> <<>>]
            o == [out EXCEPT !.txouts = Append(@, e)]
            t == tx.vout[k + 1]
            s == t.sc
            d == Outs(tx, k + 2)
<1>1. At("txout") /\ k < out.vout_sz /\ out' = o /\ i' = 0
      /\ writer' = writer /\ tx' = tx /\ prog' = prog /\ fault' = fault
  BY DEF ReadTxout
<1>2. /\ prog \in Parsers /\ pc = 9 /\ pc <= Len(Text[prog])
      /\ prog \in {"parse_txout", "parse_txout_script_pbk"}
      /\ fault = "none" /\ Fields /\ Listed
      /\ out \in Variables /\ k \in Nat
      /\ out.vout_sz = Len(tx.vout) /\ Len(tx.vout) \in Nat
      /\ Last = k
  BY <1>1, KnownOuts
<1>3. k < Len(tx.vout)
  BY <1>1, <1>2
<1>4. /\ s \in Seq(Byte) /\ d \in Seq(Byte)
      /\ Num(Take(8)) = t.value /\ ValueAt(9) = Len(s)
      /\ SubSeq(rest, TxoutHead + 1, TxoutSize) = s
      /\ Drop(TxoutHead) = s \o d /\ Drop(TxoutSize) = d
  BY <1>1, <1>3, OutFront
<1>5. e.value = t.value /\ e.sc = s /\ e.len = Len(s) /\ e.ops = <<>>
  BY <1>4
<1>6. t.value \in Nat /\ k + 1 \in 1 .. Len(tx.vout)
  <2>1. k + 1 \in 1 .. Len(tx.vout) /\ tx.vout \in Seq(Txouts)
    BY <1>1, <1>2, <1>3, KnownOuts
  <2>2. t \in Txouts
    BY <2>1, ElementOfSeq
  <2>. QED
    BY <2>1, <2>2, TxoutFields, Widths
<1>7. e \in Shown
  <2>1. Num(Take(8)) \in Nat /\ SubSeq(rest, TxoutHead + 1, TxoutSize) \in Seq(Byte)
    BY <1>4, <1>6
  <2>2. Len(s) \in Nat
    BY <1>4, LenProperties
  <2>3. ValueAt(9) \in Nat /\ <<>> \in Seq(Entries)
    BY <1>4, <2>2
  <2>. QED
    BY <2>1, <2>3 DEF Shown
<1>8. rest' = IF prog = "parse_txout_script_pbk" THEN s \o d ELSE d
  BY <1>4 DEF ReadTxout
<1>9. /\ prog = "parse_txout_script_pbk" => pc' = 10 /\ k' = k
      /\ prog # "parse_txout_script_pbk" => pc' = 9 /\ k' = k + 1
  BY <1>2 DEF ReadTxout
<1>. HIDE DEF e, t, s, d
<1>10. o.txouts = Append(out.txouts, e)
  BY <1>2, <1>7, Listing
<1>11. \A f \in DOMAIN Blank \ {"txouts"} : o[f] = out[f]
  BY <1>2 DEF Variables, Blank
<1>. HIDE DEF o
<1>12. /\ Last' = k + 1 /\ out'.txouts[k + 1] = e
       /\ \A j \in 1 .. k : /\ out'.txouts[j].value = tx.vout[j].value
                            /\ out'.txouts[j].sc = tx.vout[j].sc
                            /\ prog = "parse_txout_script_pbk" =>
                                   Parsed(out'.txouts[j].ops, tx.vout[j].sc)
  BY <1>1, <1>2, <1>7, <1>10, ListedAppend
<1>13. Fields'
  <2>1. \A f \in DOMAIN Pos : out'[f] = out[f]
    BY <1>1, <1>11 DEF Pos, Blank
  <2>2. out'.sig = out.sig /\ out'.pubkey = out.pubkey
    BY <1>1, <1>11 DEF Blank
  <2>3. pc' \in 9 .. 11 /\ pc \in 9 .. 10
    BY <1>2, <1>9
  <2>. QED
    BY <1>1, <1>2, <2>1, <2>2, <2>3, FieldsKept
<1>14. d = Outs(tx, k + 1 + 1)
  BY <1>2 DEF d
<1>15. Place'
  BY <1>1, <1>2, <1>8, <1>9, <1>14 DEF Place
<1>16. Done(8)'
  <2>. DEFINE n == Len(Text[prog])
  <2>1. n \in Nat /\ pc <= n /\ n' = n
    BY <1>1, <1>2, Lengths
  <2>. HIDE DEF n
  <2>2. 8 < pc' /\ 8 <= n'
    BY <1>2, <1>9, <2>1
  <2>. QED
    BY <2>2 DEF Done, n
<1>17. Listed'
  <2>1. CASE prog = "parse_txout_script_pbk"
    <3>1. pc' = 10 /\ k' = k /\ Last' = k + 1
      BY <1>9, <1>12, <2>1
    <3>2. k <= Len(tx.vout) /\ k <= k + 1
      BY <1>2, <1>3
    <3>3. \A j \in 1 .. k : /\ out'.txouts[j].value = tx.vout[j].value
                            /\ out'.txouts[j].sc = tx.vout[j].sc
                            /\ prog = "parse_txout_script_pbk" =>
                                   Parsed(out'.txouts[j].ops, tx.vout[j].sc)
      BY <1>12
    <3>. QED
      BY <1>1, <1>16, <3>1, <3>2, <3>3 DEF Listed
  <2>2. CASE prog # "parse_txout_script_pbk"
    <3>1. pc' = 9 /\ k' = k + 1 /\ Last' = k + 1
      BY <1>9, <1>12, <2>2
    <3>2. k + 1 <= Len(tx.vout)
      BY <1>2, <1>3
    <3>3. ASSUME NEW j \in 1 .. k + 1
          PROVE  out'.txouts[j].value = tx.vout[j].value /\ out'.txouts[j].sc = tx.vout[j].sc
      <4>1. CASE j \in 1 .. k
        BY <1>12, <4>1
      <4>2. CASE j = k + 1
        BY <1>5, <1>12, <4>2 DEF t, s
      <4>. QED
        BY <1>2, <4>1, <4>2
    <3>. QED
      BY <1>1, <1>16, <2>2, <3>1, <3>2, <3>3 DEF Listed
  <2>. QED
    BY <2>1, <2>2
<1>18. Scanned'
  <2>1. SUFFICES ASSUME prog = "parse_txout_script_pbk" PROVE Scanned'
    BY <1>1 DEF Scanned
  <2>2. pc' = 10 /\ k' = k /\ Last' = k + 1 /\ rest' = s \o d
    BY <1>8, <1>9, <1>12, <2>1
  <2>3. PICK n \in 1 .. StackSize : HasOps(s, n)
    <3>1. \A j \in DOMAIN tx.vout : ReadableScript(tx.vout[j].sc)
      BY <2>1 DEF Readable
    <3>2. k + 1 \in DOMAIN tx.vout
      BY <1>2, <1>6, KnownOuts, <1>1
    <3>. QED
      BY <3>1, <3>2 DEF ReadableScript, t, s
  <2>4. CutsOf(s, 0)[0] = 0
    BY <1>4, CutsDef
  <2>5. 0 < Len(s)
    <3>1. n \in Nat /\ 0 \in Nat /\ 0 < n
      BY <2>3, ParseTxAssumption DEF ParseTxAssumption
    <3>2. CutsOf(s, 0)[0] < Len(s)
      BY <1>4, <2>3, <3>1, CutsInside
    <3>. QED
      BY <2>4, <3>2
  <2>6. SubSeq(s, 0 + 1, Len(s)) = s
    BY <1>4
  <2>7. Len(e.ops) = 0
    BY <1>5
  <2>8. /\ e.value = tx.vout[k + 1].value /\ e.sc = tx.vout[k + 1].sc
        /\ e.len = Len(tx.vout[k + 1].sc)
    BY <1>5 DEF s, t
  <2>9. tx.vout[k + 1].sc = s /\ Outs(tx, k + 2) = d
    BY DEF s, t, d
  <2>10. \A j \in 1 .. Len(e.ops) : FALSE
    BY <2>7
  <2>. QED
    BY <1>1, <1>3, <1>12, <2>2, <2>4, <2>5, <2>6, <2>7, <2>8, <2>9, <2>10 DEF Scanned
<1>. QED
  BY <1>1, <1>2, <1>13, <1>15, <1>17, <1>18 DEF Following

\* and then all of them have been.
LEMMA FollowTxoutsRead ==
    ASSUME Typing, Readable, Following, TxoutsRead
    PROVE  Following'
<1>1. /\ At("txout") /\ ~(k < out.vout_sz)
      /\ pc' = pc + (IF prog = "parse_txout_script_pbk" THEN 2 ELSE 1)
      /\ UNCHANGED <<writer, tx, prog, rest, out, k, i, fault>>
  <2>1. k >= out.vout_sz /\ At("txout")
    BY DEF TxoutsRead
  <2>2. k \in Nat /\ out.vout_sz \in Nat
    BY <2>1, KnownOuts
  <2>. QED
    BY <2>1, <2>2 DEF TxoutsRead
<1>2. /\ prog \in Parsers /\ pc = 9 /\ pc <= Len(Text[prog])
      /\ prog \in {"parse_txout", "parse_txout_script_pbk"} /\ tx \in Txs
      /\ fault = "none" /\ Fields /\ Listed
      /\ k \in Nat /\ out.vout_sz = Len(tx.vout) /\ Len(tx.vout) \in Nat
      /\ Last = k /\ k <= Len(tx.vout) /\ rest = Outs(tx, k + 1)
  BY <1>1, KnownOuts
<1>3. k = Len(tx.vout)
  BY <1>1, <1>2
<1>4. rest' = LE(tx.lock_time, 4)
  BY <1>1, <1>2, <1>3, OutsStep
<1>5. /\ prog = "parse_txout_script_pbk" => pc' = 11
      /\ prog # "parse_txout_script_pbk" => pc' = 10 /\ ~(pc' <= Len(Text[prog]))
  <2>. DEFINE n == Len(Text[prog])
  <2>1. n \in Nat /\ (prog = "parse_txout" => n = 9)
    BY <1>2, Lengths
  <2>2. /\ prog = "parse_txout_script_pbk" => pc' = 11
        /\ prog # "parse_txout_script_pbk" => pc' = 10
    BY <1>1, <1>2
  <2>. HIDE DEF n
  <2>3. prog # "parse_txout_script_pbk" => ~(pc' <= n)
    BY <1>2, <2>1, <2>2
  <2>. QED
    BY <2>2, <2>3 DEF n
<1>6. Place'
  BY <1>1, <1>4, <1>5 DEF Place
<1>7. Fields'
  <2>1. pc \in 9 .. 10 /\ pc' \in 9 .. 11
    BY <1>2, <1>5
  <2>. QED
    BY <1>1, <1>2, <2>1, FieldsKept
<1>8. Last' = Last
  BY <1>1 DEF Last
<1>9. Listed'
  <2>1. pc' <= Len(Text[prog])' => pc' # 10
    BY <1>1, <1>5
  <2>2. \A j : Parsed(out.txouts[j].ops, tx.vout[j].sc)' <=> Parsed(out.txouts[j].ops, tx.vout[j].sc)
    BY <1>1 DEF Parsed
  <2>3. Done(8)'
    <3>. DEFINE n == Len(Text[prog])
    <3>1. n \in Nat /\ pc <= n /\ n' = n
      BY <1>1, <1>2, Lengths
    <3>. HIDE DEF n
    <3>2. 8 < pc' /\ 8 <= n'
      BY <1>2, <1>5, <3>1
    <3>. QED
      BY <3>2 DEF Done, n
  <2>. QED
    BY <1>1, <1>2, <1>3, <1>8, <2>1, <2>2, <2>3 DEF Listed
<1>10. Scanned'
  BY <1>1, <1>5 DEF Scanned
<1>. QED
  BY <1>1, <1>2, <1>6, <1>7, <1>9, <1>10 DEF Following

\* A part of a part.
LEMMA PartOfPart ==
    ASSUME NEW s \in Seq(Byte), NEW a \in 0 .. Len(s), NEW x \in Nat \ {0}, NEW y \in 0 .. Len(s) - a
    PROVE  SubSeq(SubSeq(s, a + 1, Len(s)), x, y) = SubSeq(s, a + x, a + y)
<1>. DEFINE p == SubSeq(s, a + 1, Len(s))
            q == SubSeq(p, x, y)
            r == SubSeq(s, a + x, a + y)
<1>1. Len(s) \in Nat /\ a \in Nat /\ y \in Nat /\ x \in Nat
  OBVIOUS
<1>2. /\ p \in Seq(Byte) /\ Len(p) = Len(s) - a
      /\ \A j \in 1 .. Len(p) : p[j] = s[a + j]
  <2>1. \A j \in a + 1 .. Len(s) : s[j] \in Byte
    BY <1>1, ElementOfSeq
  <2>2. /\ p \in Seq(Byte)
        /\ Len(p) = IF a + 1 <= Len(s) THEN Len(s) - (a + 1) + 1 ELSE 0
        /\ \A j \in 1 .. Len(s) - (a + 1) + 1 : p[j] = s[(a + 1) + j - 1]
    BY <1>1, <2>1, SubSeqProperties
  <2>3. Len(p) = Len(s) - a
    BY <1>1, <2>2
  <2>. HIDE DEF p
  <2>4. \A j \in 1 .. Len(p) : p[j] = s[a + j]
    BY <1>1, <2>2, <2>3
  <2>. QED
    BY <2>2, <2>3, <2>4
<1>. HIDE DEF p
<1>3. /\ q \in Seq(Byte) /\ Len(q) = IF x <= y THEN y - x + 1 ELSE 0
      /\ \A j \in 1 .. y - x + 1 : q[j] = p[x + j - 1]
  <2>1. \A j \in x .. y : p[j] \in Byte
    BY <1>1, <1>2, ElementOfSeq
  <2>. QED
    BY <1>1, <2>1, SubSeqProperties
<1>4. /\ r \in Seq(Byte) /\ Len(r) = IF a + x <= a + y THEN (a + y) - (a + x) + 1 ELSE 0
      /\ \A j \in 1 .. (a + y) - (a + x) + 1 : r[j] = s[(a + x) + j - 1]
  <2>1. \A j \in a + x .. a + y : s[j] \in Byte
    BY <1>1, ElementOfSeq
  <2>2. a + x \in Nat /\ a + y \in Nat
    BY <1>1
  <2>. QED
    BY <2>1, <2>2, SubSeqProperties
<1>. HIDE DEF q, r
<1>5. Len(q) = Len(r)
  BY <1>1, <1>3, <1>4
<1>6. \A j \in 1 .. Len(q) : q[j] = r[j]
  <2>1. ASSUME NEW j \in 1 .. Len(q) PROVE q[j] = r[j]
    <3>1. x <= y /\ j \in 1 .. y - x + 1 /\ x + j - 1 \in 1 .. Len(p)
      BY <1>1, <1>2, <1>3, <2>1
    <3>2. q[j] = s[a + (x + j - 1)]
      BY <1>2, <1>3, <3>1
    <3>3. j \in 1 .. (a + y) - (a + x) + 1 /\ (a + x) + j - 1 = a + (x + j - 1)
      BY <1>1, <3>1
    <3>4. r[j] = s[(a + x) + j - 1]
      BY <1>4, <3>3
    <3>. QED
      BY <3>2, <3>3, <3>4
  <2>. QED
    BY <2>1
<1>7. q = r
  BY <1>3, <1>4, <1>5, <1>6, SeqEqual
<1>. QED
  BY <1>7 DEF q, r, p

\* The first m opcodes of script s end at place a.
EndsAt(s, m, a) == CutsOf(s, m)[m] = a

\* What is known where an opcode of the script of an output is parsed.
LEMMA KnownScan ==
    ASSUME Typing, Readable, Following, At("opcodes")
    PROVE  LET s   == tx.vout[k + 1].sc
               ops == out.txouts[Last].ops
           IN  /\ prog = "parse_txout_script_pbk" /\ pc = 10 /\ fault = "none"
               /\ tx \in Txs /\ Fields /\ Listed /\ Scanned /\ k \in Nat /\ i \in Nat
               /\ out \in Variables /\ Last = k + 1 /\ k + 1 \in 1 .. Len(out.txouts)
               /\ k + 1 \in 1 .. Len(tx.vout) /\ s \in Seq(Byte) /\ ops \in Seq(Entries)
               /\ Outs(tx, k + 2) \in Seq(Byte)
               /\ out.txouts[Last].len = Len(s)
               /\ \E n \in 1 .. StackSize : HasOps(s, n)
               /\ EndsAt(s, Len(ops), i) /\ i < Len(s)
               /\ Ahead(SubSeq(s, i + 1, Len(s)), Outs(tx, k + 2))
<1>1. /\ prog \in Parsers /\ pc \in Nat \ {0} /\ tx \in Txs /\ out \in Variables /\ k \in Nat
      /\ i \in Nat
  BY Lengths DEF Typing
<1>2. /\ fault = "none" /\ Fields /\ Listed /\ Scanned /\ pc \in 1 .. Len(Text[prog])
  BY Known
<1>3. pc = 10 /\ prog = "parse_txout_script_pbk"
  <2>1. pc = 10
    BY <1>1, Places
  <2>. QED
    BY <1>1, <1>2, <2>1, LongParsers
<1>4. Last = k + 1
  BY <1>2, <1>3 DEF Listed
<1>0. k < Len(tx.vout)
  BY <1>2, <1>3 DEF Scanned
<1>5. /\ out.txouts[Last].len = Len(tx.vout[k + 1].sc)
      /\ i = CutsOf(tx.vout[k + 1].sc, Len(out.txouts[Last].ops))[Len(out.txouts[Last].ops)]
      /\ i < Len(tx.vout[k + 1].sc)
      /\ rest = SubSeq(tx.vout[k + 1].sc, i + 1, Len(tx.vout[k + 1].sc)) \o Outs(tx, k + 2)
  BY <1>2, <1>3 DEF Scanned
<1>6. tx.vout \in Seq(Txouts) /\ Len(tx.vout) \in Nat
  BY <1>1, TxFields
<1>7. k + 1 \in 1 .. Len(tx.vout) /\ k + 2 \in 1 .. Len(tx.vout) + 1 /\ k + 1 \in DOMAIN tx.vout
  BY <1>0, <1>1, <1>6
<1>8. tx.vout[k + 1] \in Txouts
  BY <1>6, <1>7, ElementOfSeq
<1>9. tx.vout[k + 1].sc \in Seq(Byte)
  BY <1>8, TxoutFields
<1>10. Outs(tx, k + 2) \in Seq(Byte)
  BY <1>1, <1>7, OutsStep
<1>11. \E n \in 1 .. StackSize : HasOps(tx.vout[k + 1].sc, n)
  BY <1>3, <1>7 DEF Readable, ReadableScript
<1>12. out.txouts \in Seq(Shown) /\ Len(out.txouts) \in Nat
  BY <1>1 DEF Variables
<1>13. k + 1 \in 1 .. Len(out.txouts)
  BY <1>1, <1>4, <1>12 DEF Last
<1>14. out.txouts[Last] \in Shown
  BY <1>4, <1>12, <1>13, ElementOfSeq
<1>15. out.txouts[Last].ops \in Seq(Entries)
  BY <1>14 DEF Shown
<1>16. Ahead(SubSeq(tx.vout[k + 1].sc, i + 1, Len(tx.vout[k + 1].sc)), Outs(tx, k + 2))
  BY <1>5 DEF Ahead
<1>17. /\ out.txouts[Last].len = Len(tx.vout[k + 1].sc)
       /\ EndsAt(tx.vout[k + 1].sc, Len(out.txouts[Last].ops), i)
       /\ i < Len(tx.vout[k + 1].sc)
  BY <1>5 DEF EndsAt
<1>. QED
  BY <1>1, <1>2, <1>3, <1>4, <1>7, <1>9, <1>10, <1>11, <1>13, <1>15, <1>16, <1>17

\* The next opcode is in front of the stream, and belongs to the script.
LEMMA OpFront ==
    ASSUME Typing, rest \in Seq(Byte), NEW s \in Seq(Byte), NEW b \in Seq(Byte),
           NEW m \in Nat, NEW a \in Nat, EndsAt(s, m, a), a < Len(s),
           Ahead(SubSeq(s, a + 1, Len(s)), b),
           NEW n \in 1 .. StackSize, HasOps(s, n)
    PROVE  /\ m < StackSize /\ Len(rest) >= OneOp /\ OneOp \in Nat \ {0}
           /\ a + OneOp <= Len(s)
           /\ Take(OneOp) = SubSeq(s, a + 1, a + OneOp)
           /\ Drop(OneOp) = SubSeq(s, a + OneOp + 1, Len(s)) \o b
           /\ CutsOf(s, m + 1)[m + 1] = a + OneOp
           /\ \A j \in 0 .. m : CutsOf(s, m)[j] = CutsOf(s, m + 1)[j]
<1>. DEFINE p == SubSeq(s, a + 1, Len(s))
<1>1. Len(s) \in Nat /\ StackSize \in Nat /\ n \in Nat
  BY LenProperties, ParseTxAssumption DEF ParseTxAssumption
<1>2. m < n
  <2>1. m > n => a > Len(s)
    BY <1>1, CutsInside DEF EndsAt
  <2>2. m = n => a = Len(s)
    BY DEF HasOps, EndsAt
  <2>3. ~(a > Len(s)) /\ ~(a = Len(s))
    BY <1>1
  <2>. QED
    BY <1>1, <2>1, <2>2, <2>3
<1>3. /\ p \in Seq(Byte) /\ Len(p) = Len(s) - a /\ p[1] = s[a + 1]
  <2>1. \A j \in a + 1 .. Len(s) : s[j] \in Byte
    BY <1>1, ElementOfSeq
  <2>2. /\ p \in Seq(Byte)
        /\ Len(p) = IF a + 1 <= Len(s) THEN Len(s) - (a + 1) + 1 ELSE 0
        /\ \A j \in 1 .. Len(s) - (a + 1) + 1 : p[j] = s[(a + 1) + j - 1]
    BY <1>1, <2>1, SubSeqProperties
  <2>. HIDE DEF p
  <2>3. 1 \in 1 .. Len(s) - (a + 1) + 1 /\ (a + 1) + 1 - 1 = a + 1
    BY <1>1
  <2>4. p[1] = s[a + 1]
    BY <2>2, <2>3
  <2>5. Len(p) = Len(s) - a
    BY <1>1, <2>2
  <2>. QED
    BY <2>2, <2>4, <2>5
<1>. HIDE DEF p
<1>4. Ahead(p, b)
  BY DEF p
<1>5. /\ \A j \in 1 .. Len(p) : rest[j] = p[j]
      /\ \A x \in Nat \ {0}, y \in 0 .. Len(p) : SubSeq(rest, x, y) = SubSeq(p, x, y)
      /\ \A y \in 0 .. Len(p) : Drop(y) = SubSeq(p, y + 1, Len(p)) \o b
      /\ Len(rest) = Len(p) + Len(b) /\ Len(b) \in Nat
  BY <1>3, <1>4, FrontPart, LenProperties
<1>6. OneOp = OpSize(s[a + 1])
  <2>1. 1 \in 1 .. Len(p)
    BY <1>1, <1>3
  <2>2. rest[1] = s[a + 1]
    BY <1>3, <1>5, <2>1
  <2>3. Len(rest) > 0
    BY <1>5, <2>1, <1>1, <1>3
  <2>4. rest # <<>>
    BY <2>3
  <2>. QED
    BY <2>2, <2>4 DEF OneOp
<1>7. OneOp \in Nat \ {0}
  BY OpsTyped
<1>8. m + 1 \in Nat /\ m \in 0 .. m + 1 /\ m + 1 \in 1 .. m + 1 /\ m + 1 - 1 = m
  OBVIOUS
<1>9. \A j \in 0 .. m : CutsOf(s, m)[j] = CutsOf(s, m + 1)[j]
  BY <1>8, CutsPrefix
<1>10. CutsOf(s, m + 1)[m + 1] = a + OneOp
  <2>1. CutsOf(s, m + 1)[m + 1] = NextCut(s, CutsOf(s, m + 1)[m + 1 - 1])
    BY <1>8, CutsDef
  <2>2. CutsOf(s, m + 1)[m] = a
    <3>1. m \in 0 .. m
      OBVIOUS
    <3>. QED
      BY <1>9, <3>1 DEF EndsAt
  <2>3. NextCut(s, a) = a + OneOp
    BY <1>6 DEF NextCut
  <2>. QED
    BY <1>8, <2>1, <2>2, <2>3
<1>11. a + OneOp <= Len(s)
  <2>1. m + 1 < n => CutsOf(s, m + 1)[m + 1] < Len(s)
    BY <1>1, <1>8, CutsInside
  <2>2. m + 1 = n => CutsOf(s, m + 1)[m + 1] = Len(s)
    BY DEF HasOps
  <2>3. m + 1 < n \/ m + 1 = n
    BY <1>1, <1>2
  <2>. QED
    BY <1>1, <1>7, <1>10, <2>1, <2>2, <2>3
<1>12. OneOp \in 0 .. Len(p) /\ OneOp + 1 \in Nat \ {0} /\ a \in 0 .. Len(s)
       /\ OneOp \in 0 .. Len(s) - a /\ Len(s) - a \in 0 .. Len(s) - a
  BY <1>1, <1>3, <1>7, <1>11
<1>13. Take(OneOp) = SubSeq(s, a + 1, a + OneOp)
  <2>1. 1 \in Nat \ {0}
    OBVIOUS
  <2>2. SubSeq(rest, 1, OneOp) = SubSeq(p, 1, OneOp)
    BY <1>5, <1>12, <2>1
  <2>3. SubSeq(SubSeq(s, a + 1, Len(s)), 1, OneOp) = SubSeq(s, a + 1, a + OneOp)
    BY <1>12, <2>1, PartOfPart
  <2>. QED
    BY <2>2, <2>3 DEF Take, p
<1>14. Drop(OneOp) = SubSeq(s, a + OneOp + 1, Len(s)) \o b
  <2>1. Drop(OneOp) = SubSeq(p, OneOp + 1, Len(p)) \o b
    BY <1>5, <1>12
  <2>2. SubSeq(SubSeq(s, a + 1, Len(s)), OneOp + 1, Len(s) - a)
        = SubSeq(s, a + (OneOp + 1), a + (Len(s) - a))
    BY <1>12, PartOfPart
  <2>3. a + (OneOp + 1) = a + OneOp + 1 /\ a + (Len(s) - a) = Len(s)
    BY <1>1, <1>7
  <2>4. SubSeq(p, OneOp + 1, Len(p)) = SubSeq(s, a + OneOp + 1, Len(s))
    BY <1>3, <2>2, <2>3 DEF p
  <2>. QED
    BY <2>1, <2>4
<1>15. Len(rest) >= OneOp /\ m < StackSize
  <2>1. Len(rest) = Len(p) + Len(b) /\ Len(b) \in Nat /\ Len(p) = Len(s) - a
    BY <1>3, <1>5
  <2>2. OneOp \in 0 .. Len(s) - a
    BY <1>12
  <2>3. Len(rest) >= OneOp
    BY <1>1, <1>7, <2>1, <2>2
  <2>. QED
    BY <1>1, <1>2, <2>3
<1>. QED
  BY <1>7, <1>9, <1>10, <1>11, <1>13, <1>14, <1>15

\* The entries of the stack are those of the first opcodes of script s.
Stacked(ops, s) ==
    \A j \in 1 .. Len(ops) :
        ops[j] = Entry(SubSeq(s, CutsOf(s, Len(ops))[j - 1] + 1, CutsOf(s, Len(ops))[j]))

\* One more entry is put on the stack.
LEMMA StackedAppend ==
    ASSUME NEW ops \in Seq(Entries), NEW s \in Seq(Byte), Stacked(ops, s), NEW e \in Entries,
           NEW a \in Nat, EndsAt(s, Len(ops), a), NEW z \in Nat, EndsAt(s, Len(ops) + 1, z),
           e = Entry(SubSeq(s, a + 1, z)),
           \A j \in 0 .. Len(ops) : CutsOf(s, Len(ops))[j] = CutsOf(s, Len(ops) + 1)[j]
    PROVE  Stacked(Append(ops, e), s)
<1>. DEFINE q == Append(ops, e)
            m == Len(ops)
<1>1. /\ m \in Nat /\ Len(q) = m + 1 /\ q[m + 1] = e
      /\ \A j \in 1 .. m : q[j] = ops[j]
  BY AppendProperties, LenProperties
<1>2. CutsOf(s, m)[m] = a /\ CutsOf(s, m + 1)[m + 1] = z
  BY DEF EndsAt
<1>3. \A j \in 1 .. m : ops[j] = Entry(SubSeq(s, CutsOf(s, m)[j - 1] + 1, CutsOf(s, m)[j]))
  BY DEF Stacked
<1>4. e = Entry(SubSeq(s, a + 1, z))
  OBVIOUS
<1>5. \A j \in 0 .. m : CutsOf(s, m)[j] = CutsOf(s, m + 1)[j]
  OBVIOUS
<1>. HIDE DEF q, m
<1>6. ASSUME NEW j \in 1 .. m + 1
      PROVE  q[j] = Entry(SubSeq(s, CutsOf(s, m + 1)[j - 1] + 1, CutsOf(s, m + 1)[j]))
  <2>1. CASE j \in 1 .. m
    <3>1. j \in 0 .. m /\ j - 1 \in 0 .. m
      BY <1>1, <2>1
    <3>2. CutsOf(s, m)[j] = CutsOf(s, m + 1)[j] /\ CutsOf(s, m)[j - 1] = CutsOf(s, m + 1)[j - 1]
      BY <1>5, <3>1
    <3>3. q[j] = Entry(SubSeq(s, CutsOf(s, m)[j - 1] + 1, CutsOf(s, m)[j]))
      BY <1>1, <1>3, <2>1
    <3>. QED
      BY <3>2, <3>3
  <2>2. CASE j = m + 1
    <3>1. m \in 0 .. m /\ m + 1 - 1 = m
      BY <1>1
    <3>2. CutsOf(s, m + 1)[m] = a
      BY <1>2, <1>5, <3>1
    <3>. QED
      BY <1>1, <1>2, <1>4, <2>2, <3>1, <3>2
  <2>. QED
    BY <1>1, <2>1, <2>2
<1>. QED
  BY <1>1, <1>6 DEF Stacked, q

\* The variables of main when an entry has been put on the stack of output w.
LEMMA StackedOut ==
    ASSUME out \in Variables, NEW e \in Entries, NEW l \in Nat, Last = l, l >= 1,
           out' = [out EXCEPT !.txouts[Last].ops = Append(@, e)]
    PROVE  /\ \A f \in DOMAIN Blank \ {"txouts"} : out'[f] = out[f]
           /\ Last' = Last /\ \A j \in 1 .. l - 1 : out'.txouts[j] = out.txouts[j]
           /\ out'.txouts[l].value = out.txouts[l].value
           /\ out'.txouts[l].len = out.txouts[l].len
           /\ out'.txouts[l].sc = out.txouts[l].sc
           /\ out'.txouts[l].ops = Append(out.txouts[l].ops, e)
<1>. DEFINE w == out.txouts[l]
            a == Append(w.ops, e)
            u == [w EXCEPT !.ops = a]
            q == [out.txouts EXCEPT ![l] = u]
<1>1. out' = [out EXCEPT !.txouts = q]
  OBVIOUS
<1>2. out.txouts \in Seq(Shown) /\ Len(out.txouts) = l
  BY DEF Variables, Last
<1>3. l \in 1 .. Len(out.txouts)
  BY <1>2
<1>4. w \in Shown
  BY <1>2, <1>3, ElementOfSeq
<1>5. u.value = w.value /\ u.len = w.len /\ u.sc = w.sc /\ u.ops = a
  <2>. HIDE DEF w, a
  <2>. QED
    BY <1>4 DEF Shown
<1>. HIDE DEF u
<1>6. /\ Len(q) = Len(out.txouts) /\ q[l] = u
      /\ \A j \in 1 .. l - 1 : q[j] = out.txouts[j]
  BY <1>2, <1>3
<1>. HIDE DEF q
<1>7. \A f \in DOMAIN Blank \ {"txouts"} : [out EXCEPT !.txouts = q][f] = out[f]
  BY DEF Variables, Blank
<1>8. [out EXCEPT !.txouts = q].txouts = q
  BY DEF Variables
<1>9. out'.txouts = q
  BY <1>1, <1>8
<1>10. Last' = Last
  BY <1>2, <1>6, <1>9 DEF Last
<1>. QED
  BY <1>1, <1>5, <1>6, <1>7, <1>9, <1>10

\* What is known where an opcode has been parsed.
LEMMA Scanning ==
    ASSUME Typing, Readable, Following, At("opcodes")
    PROVE  LET s   == tx.vout[k + 1].sc
               ops == out.txouts[k + 1].ops
           IN  /\ Len(ops) < StackSize /\ Needs = OneOp /\ Len(rest) >= OneOp
               /\ OneOp \in Nat /\ i + OneOp <= Len(s)
               /\ Entry(Take(OneOp)) \in Entries
               /\ Stacked(Append(ops, Entry(Take(OneOp))), s)
               /\ Len(Append(ops, Entry(Take(OneOp)))) = Len(ops) + 1
               /\ EndsAt(s, Len(ops) + 1, i + OneOp)
               /\ Drop(OneOp) = SubSeq(s, i + OneOp + 1, Len(s)) \o Outs(tx, k + 2)
<1>. DEFINE s == tx.vout[k + 1].sc
            ops == out.txouts[k + 1].ops
            b == Outs(tx, k + 2)
            m == Len(ops)
            e == Entry(Take(OneOp))
<1>1. /\ prog = "parse_txout_script_pbk" /\ pc = 10 /\ Last = k + 1 /\ k \in Nat /\ i \in Nat
      /\ s \in Seq(Byte) /\ ops \in Seq(Entries) /\ b \in Seq(Byte)
      /\ \E n \in 1 .. StackSize : HasOps(s, n)
      /\ EndsAt(s, m, i) /\ i < Len(s) /\ Ahead(SubSeq(s, i + 1, Len(s)), b)
      /\ Scanned
  <2>1. Last = k + 1
    BY KnownScan
  <2>. QED
    BY <2>1, KnownScan
<1>2. Stacked(ops, s)
  BY <1>1 DEF Scanned, Stacked
<1>3. rest \in Seq(Byte)
  BY DEF Typing
<1>4. m \in Nat
  BY <1>1, LenProperties
<1>5. PICK n \in 1 .. StackSize : HasOps(s, n)
  BY <1>1
<1>. HIDE DEF s, ops, b, m
<1>6. /\ m < StackSize /\ Len(rest) >= OneOp /\ OneOp \in Nat \ {0}
      /\ i + OneOp <= Len(s)
      /\ Take(OneOp) = SubSeq(s, i + 1, i + OneOp)
      /\ Drop(OneOp) = SubSeq(s, i + OneOp + 1, Len(s)) \o b
      /\ CutsOf(s, m + 1)[m + 1] = i + OneOp
      /\ \A j \in 0 .. m : CutsOf(s, m)[j] = CutsOf(s, m + 1)[j]
  BY <1>1, <1>3, <1>4, <1>5, OpFront
<1>7. e \in Entries
  <2>1. Take(OneOp) \in Seq(Byte) /\ Len(Take(OneOp)) = OneOp
    BY <1>3, <1>6, StreamTyped
  <2>2. Take(OneOp) # <<>>
    BY <1>6, <2>1, EmptySeq
  <2>. QED
    BY <2>1, <2>2, EntryTyped
<1>8. EndsAt(s, m + 1, i + OneOp) /\ i + OneOp \in Nat
  BY <1>1, <1>6 DEF EndsAt
<1>9. e = Entry(SubSeq(s, i + 1, i + OneOp))
  BY <1>6
<1>. HIDE DEF e
<1>10. Stacked(Append(ops, e), s)
  <2>1. \A j \in 0 .. m : CutsOf(s, m)[j] = CutsOf(s, m + 1)[j]
    BY <1>6
  <2>. QED
    BY <1>1, <1>2, <1>7, <1>8, <1>9, <2>1, StackedAppend DEF m
<1>11. Len(Append(ops, e)) = m + 1
  BY <1>1 DEF m
<1>12. Needs = OneOp
  BY NeedsIs
<1>. QED
  BY <1>6, <1>7, <1>8, <1>10, <1>11, <1>12 DEF s, ops, b, m, e

\* An opcode of its script is, and the last ends it.
LEMMA FollowOpcode ==
    ASSUME Typing, Readable, Following, ParseOpcode
    PROVE  Following'
<1>. DEFINE s == tx.vout[k + 1].sc
            w == out.txouts[k + 1]
            e == Entry(Take(OneOp))
            z == i + OneOp
            q == Append(w.ops, e)
            d == Outs(tx, k + 2)
<1>1. At("opcodes") /\ UNCHANGED <<writer, tx, prog, fault>> /\ i' = z /\ rest' = Drop(OneOp)
      /\ out' = [out EXCEPT !.txouts[Last].ops = Append(@, e)]
  BY DEF ParseOpcode
<1>2. /\ prog = "parse_txout_script_pbk" /\ pc = 10 /\ Last = k + 1 /\ k \in Nat /\ i \in Nat
      /\ fault = "none" /\ tx \in Txs /\ Fields /\ Listed /\ Scanned
      /\ out \in Variables /\ k + 1 \in 1 .. Len(tx.vout) /\ s \in Seq(Byte)
      /\ out.txouts[Last].len = Len(s)
  <2>1. Last = k + 1
    BY <1>1, KnownScan
  <2>. QED
    BY <1>1, <2>1, KnownScan
<1>3. /\ OneOp \in Nat /\ z <= Len(s) /\ e \in Entries /\ Stacked(q, s) /\ Len(q) = Len(w.ops) + 1
      /\ EndsAt(s, Len(w.ops) + 1, z) /\ Drop(OneOp) = SubSeq(s, z + 1, Len(s)) \o d
  BY <1>1, Scanning
<1>4. /\ w.value = tx.vout[k + 1].value /\ w.sc = s /\ w.len = Len(s)
  BY <1>2 DEF Scanned
<1>5. /\ \A f \in DOMAIN Blank \ {"txouts"} : out'[f] = out[f]
      /\ Last' = Last /\ \A j \in 1 .. k : out'.txouts[j] = out.txouts[j]
      /\ out'.txouts[k + 1].value = w.value /\ out'.txouts[k + 1].len = w.len
      /\ out'.txouts[k + 1].sc = w.sc /\ out'.txouts[k + 1].ops = q
  <2>1. k + 1 \in Nat /\ k + 1 >= 1 /\ (k + 1) - 1 = k
    BY <1>2
  <2>. HIDE DEF w, e, q
  <2>2. /\ \A f \in DOMAIN Blank \ {"txouts"} : out'[f] = out[f]
        /\ Last' = Last /\ \A j \in 1 .. (k + 1) - 1 : out'.txouts[j] = out.txouts[j]
        /\ out'.txouts[k + 1].value = out.txouts[k + 1].value
        /\ out'.txouts[k + 1].len = out.txouts[k + 1].len
        /\ out'.txouts[k + 1].sc = out.txouts[k + 1].sc
        /\ out'.txouts[k + 1].ops = Append(out.txouts[k + 1].ops, e)
    BY <1>1, <1>2, <1>3, <2>1, StackedOut
  <2>. QED
    BY <2>1, <2>2 DEF w, q
<1>6. z \in Nat /\ Len(s) \in Nat
  <2>1. i \in Nat /\ OneOp \in Nat /\ s \in Seq(Byte)
    BY <1>2, <1>3
  <2>2. z \in Nat
    BY <2>1
  <2>. HIDE DEF s
  <2>3. Len(s) \in Nat
    BY <2>1, LenProperties
  <2>. QED
    BY <2>2, <2>3
<1>7. /\ z < Len(s) => pc' = 10 /\ k' = k
      /\ z >= Len(s) => pc' = 9 /\ k' = k + 1
  <2>1. IF i' < out.txouts[Last].len THEN pc' = pc /\ k' = k ELSE pc' = pc - 1 /\ k' = k + 1
    BY DEF ParseOpcode
  <2>. QED
    BY <1>1, <1>2, <1>6, <2>1
<1>8. /\ \A j \in 1 .. k : /\ out.txouts[j].value = tx.vout[j].value
                           /\ out.txouts[j].sc = tx.vout[j].sc
                           /\ Parsed(out.txouts[j].ops, tx.vout[j].sc)
      /\ k <= Len(tx.vout)
  BY <1>2 DEF Listed
<1>9. Len(Text[prog]) = 11
  BY <1>2, Lengths DEF Parsers, Text
<1>. HIDE DEF s, w, e, z, q, d
<1>10. rest' = SubSeq(s, z + 1, Len(s)) \o d
  BY <1>1, <1>3
<1>11. Fields'
  <2>1. \A f \in DOMAIN Pos : out'[f] = out[f]
    BY <1>5 DEF Pos, Blank
  <2>2. out'.sig = out.sig /\ out'.pubkey = out.pubkey
    BY <1>5 DEF Blank
  <2>3. pc' \in 9 .. 11 /\ pc \in 9 .. 10
    BY <1>2, <1>6, <1>7
  <2>4. prog \in Parsers /\ prog' = prog /\ tx' = tx /\ Fields
    BY <1>1, <1>2 DEF Parsers, Text
  <2>5. pc <= Len(Text[prog])
    BY <1>2, <1>9
  <2>. QED
    BY <2>1, <2>2, <2>3, <2>4, <2>5, FieldsKept
<1>12. \A j \in 1 .. k : /\ out'.txouts[j].value = tx.vout[j].value
                         /\ out'.txouts[j].sc = tx.vout[j].sc
                         /\ Parsed(out'.txouts[j].ops, tx.vout[j].sc)
  BY <1>5, <1>8, Zenon
<1>13. Done(8)'
  <2>. DEFINE n == Len(Text[prog])
  <2>1. n = 11 /\ n' = n
    BY <1>1, <1>9
  <2>. HIDE DEF n
  <2>2. 8 < pc' /\ 8 <= n'
    BY <1>6, <1>7, <2>1
  <2>. QED
    BY <2>2 DEF Done, n
<1>14. CASE z < Len(s)
  <2>1. pc' = 10 /\ k' = k /\ Last' = k + 1
    BY <1>2, <1>5, <1>7, <1>14
  <2>2. Place'
    <3>1. pc' # 1 /\ pc' # 2 /\ pc' # 3 /\ pc' # 4 /\ pc' # 5 /\ pc' # 6 /\ pc' # 7 /\ pc' # 8
          /\ pc' # 9 /\ pc' # 11 /\ ~(pc' > 11)
      BY <2>1
    <3>. QED
      BY <3>1 DEF Place
  <2>3. Listed'
    <3>1. k <= k + 1
      BY <1>2
    <3>. QED
      BY <1>1, <1>2, <1>8, <1>12, <1>13, <2>1, <3>1 DEF Listed
  <2>4. Scanned'
    <3>1. /\ out'.txouts[k + 1].value = tx.vout[k + 1].value
          /\ out'.txouts[k + 1].sc = s /\ out'.txouts[k + 1].len = Len(s)
          /\ out'.txouts[k + 1].ops = q
      BY <1>4, <1>5
    <3>2. k < Len(tx.vout)
      BY <1>2, <1>8
    <3>3. CutsOf(s, Len(q))[Len(q)] = z
      BY <1>3 DEF EndsAt
    <3>4. \A j \in 1 .. Len(q) :
              q[j] = Entry(SubSeq(s, CutsOf(s, Len(q))[j - 1] + 1, CutsOf(s, Len(q))[j]))
      BY <1>3 DEF Stacked
    <3>5. tx'.vout[k' + 1].sc = s /\ Outs(tx', k' + 2) = d /\ i' = z
      BY <1>1, <2>1 DEF s, d
    <3>6. out'.txouts[Last'].ops = q
      BY <2>1, <3>1
    <3>. QED
      BY <1>1, <1>10, <1>14, <2>1, <3>1, <3>2, <3>3, <3>4, <3>5, <3>6 DEF Scanned
  <2>. QED
    BY <1>1, <1>2, <1>11, <2>2, <2>3, <2>4 DEF Following
<1>15. CASE z >= Len(s)
  <2>1. pc' = 9 /\ k' = k + 1 /\ Last' = k + 1
    BY <1>2, <1>5, <1>7, <1>15
  <2>2. z = Len(s)
    BY <1>3, <1>6, <1>15
  <2>3. rest' = Outs(tx, (k + 1) + 1)
    <3>1. d \in Seq(Byte)
      BY <1>1, KnownScan DEF d
    <3>2. SubSeq(s, z + 1, Len(s)) = <<>>
      BY <1>2, <1>6, <2>2
    <3>3. <<>> \o d = d
      BY <3>1
    <3>4. (k + 1) + 1 = k + 2
      BY <1>2
    <3>. QED
      BY <1>10, <3>2, <3>3, <3>4 DEF d
  <2>4. Place'
    BY <1>1, <2>1, <2>3 DEF Place
  <2>5. Parsed(q, s)
    <3>1. HasOps(s, Len(q))
      BY <1>3, <2>2 DEF HasOps, EndsAt
    <3>. QED
      BY <1>3, <3>1 DEF Parsed, Stacked
  <2>6. ASSUME NEW j \in 1 .. k + 1
        PROVE  /\ out'.txouts[j].value = tx.vout[j].value
               /\ out'.txouts[j].sc = tx.vout[j].sc
               /\ Parsed(out'.txouts[j].ops, tx.vout[j].sc)
    <3>1. CASE j \in 1 .. k
      BY <1>12, <3>1
    <3>2. CASE j = k + 1
      <4>1. Parsed(out'.txouts[k + 1].ops, tx.vout[k + 1].sc)
        BY <1>5, <2>5, Zenon DEF s
      <4>2. out'.txouts[k + 1].value = tx.vout[k + 1].value /\ out'.txouts[k + 1].sc = tx.vout[k + 1].sc
        BY <1>4, <1>5 DEF s
      <4>. QED
        BY <3>2, <4>1, <4>2, Zenon
    <3>. QED
      BY <1>2, <3>1, <3>2
  <2>7. Listed'
    <3>1. k + 1 <= Len(tx.vout)
      BY <1>2
    <3>. QED
      BY <1>1, <1>2, <1>13, <2>1, <2>6, <3>1 DEF Listed
  <2>8. Scanned'
    BY <2>1 DEF Scanned
  <2>. QED
    BY <1>1, <1>2, <1>11, <2>4, <2>7, <2>8 DEF Following
<1>. QED
  BY <1>6, <1>14, <1>15

\* What is in front of the stream at each read of a field.
LEMMA Fronts ==
    ASSUME Typing, Readable, Following, NEW step, At(step)
    PROVE  /\ pc = 1 => Ahead(LE(tx.version, 4), From2(tx)) /\ From2(tx) \in Seq(Byte)
           /\ pc = 2 => Ahead(PackVarint(Len(tx.vin)), Behind(tx)) /\ Behind(tx) \in Seq(Byte)
           /\ pc = 3 => /\ Ahead(Reversed(tx.vin[1].pre_txid), From4(tx)) /\ From4(tx) \in Seq(Byte)
           /\ pc = 4 => Ahead(LE(tx.vin[1].pre_tx_inx, 4), From5(tx)) /\ From5(tx) \in Seq(Byte)
           /\ pc = 5 => Ahead(PackVarint(tx.vin[1].sc_size), From6(tx)) /\ From6(tx) \in Seq(Byte)
           /\ pc = 6 => Ahead(tx.vin[1].sc, From7(tx)) /\ From7(tx) \in Seq(Byte)
           /\ pc = 7 => Ahead(LE(tx.vin[1].seq_no, 4), From8(tx)) /\ From8(tx) \in Seq(Byte)
           /\ pc = 8 => Ahead(PackVarint(Len(tx.vout)), From9(tx)) /\ From9(tx) \in Seq(Byte)
           /\ pc = 11 => Ahead(LE(tx.lock_time, 4), <<>>) /\ <<>> \in Seq(Byte)
<1>1. /\ pc <= Len(Text[prog]) /\ tx \in Txs /\ Place /\ tx.lock_time \in 0 .. Long - 1
      /\ pc >= 3 => Len(tx.vin) = 1
  BY Known DEF At
<1>2. /\ From2(tx) \in Seq(Byte) /\ From8(tx) \in Seq(Byte) /\ From9(tx) \in Seq(Byte)
      /\ Behind(tx) \in Seq(Byte) /\ From2(tx) = PackVarint(Len(tx.vin)) \o Behind(tx)
      /\ Len(tx.vin) = 1 => /\ From4(tx) \in Seq(Byte) /\ From5(tx) \in Seq(Byte)
                            /\ From6(tx) \in Seq(Byte) /\ From7(tx) \in Seq(Byte)
  BY <1>1, FromTyped, BehindTyped
<1>3. ASSUME pc = 1 PROVE Ahead(LE(tx.version, 4), From2(tx))
  BY <1>1, <1>3 DEF Place, Ahead, From1
<1>4. ASSUME pc = 2 PROVE Ahead(PackVarint(Len(tx.vin)), Behind(tx))
  BY <1>1, <1>2, <1>4 DEF Place, Ahead
<1>5. ASSUME pc = 3 PROVE Ahead(Reversed(tx.vin[1].pre_txid), From4(tx))
  BY <1>1, <1>5 DEF Place, Ahead, From3
<1>6. ASSUME pc = 4 PROVE Ahead(LE(tx.vin[1].pre_tx_inx, 4), From5(tx))
  BY <1>1, <1>6 DEF Place, Ahead, From4
<1>7. ASSUME pc = 5 PROVE Ahead(PackVarint(tx.vin[1].sc_size), From6(tx))
  BY <1>1, <1>7 DEF Place, Ahead, From5
<1>8. ASSUME pc = 6 PROVE Ahead(tx.vin[1].sc, From7(tx))
  BY <1>1, <1>8 DEF Place, Ahead, From6
<1>9. ASSUME pc = 7 PROVE Ahead(LE(tx.vin[1].seq_no, 4), From8(tx))
  BY <1>1, <1>9 DEF Place, Ahead, From7
<1>10. ASSUME pc = 8 PROVE Ahead(PackVarint(Len(tx.vout)), From9(tx))
  BY <1>1, <1>10 DEF Place, Ahead, From8
<1>11. ASSUME pc = 11 PROVE Ahead(LE(tx.lock_time, 4), <<>>) /\ <<>> \in Seq(Byte)
  <2>1. LE(tx.lock_time, 4) \in Seq(Byte)
    BY <1>1, Widths, Word
  <2>2. LE(tx.lock_time, 4) \o <<>> = LE(tx.lock_time, 4)
    BY <2>1
  <2>3. rest = LE(tx.lock_time, 4)
    BY <1>1, <1>11 DEF Place
  <2>. QED
    BY <2>2, <2>3 DEF Ahead
<1>12. /\ pc = 3 => Len(tx.vin) = 1
       /\ pc = 4 => Len(tx.vin) = 1
       /\ pc = 5 => Len(tx.vin) = 1
       /\ pc = 6 => Len(tx.vin) = 1
  BY <1>1
<1>. QED
  BY <1>2, <1>3, <1>4, <1>5, <1>6, <1>7, <1>8, <1>9, <1>10, <1>11, <1>12

\* A word in front has four bytes.
LEMMA WordEnough ==
    ASSUME NEW v \in 0 .. Long - 1, NEW b \in Seq(Byte), Ahead(LE(v, 4), b)
    PROVE  Len(rest) >= 4
<1>1. v \in Nat /\ LE(v, 4) \in Seq(Byte) /\ Len(LE(v, 4)) = 4
  BY Widths, Word
<1>2. Len(rest) >= Len(LE(v, 4))
  BY <1>1, Front
<1>. QED
  BY <1>1, <1>2

\* No read of a readable transaction passes the end of the file.
LEMMA Enough ==
    ASSUME Typing, Readable, Following, NEW step, At(step)
    PROVE  Len(rest) >= Needs
<1>1. /\ prog \in Parsers /\ pc \in Nat \ {0} /\ pc \in 1 .. 11 /\ tx \in Txs
      /\ tx.version \in 0 .. Long - 1 /\ tx.lock_time \in 0 .. Long - 1
      /\ Len(tx.vin) \in 0 .. Quad - 1 /\ Len(tx.vout) \in 0 .. Quad - 1
      /\ pc >= 3 => Len(tx.vin) = 1 /\ tx.vin[1] \in Txins
      /\ rest \in Seq(Byte)
  BY Known
<1>2. CASE pc \in {1, 4, 7, 11}
  <2>1. Needs = 4
    <3>1. step \in Words
      BY <1>1, <1>2, Places DEF Words
    <3>. QED
      BY <3>1, NeedsIs
  <2>2. Len(rest) >= 4
    <3>1. CASE pc = 1
      BY <1>1, <3>1, Fronts, WordEnough
    <3>2. CASE pc = 4
      <4>1. tx.vin[1].pre_tx_inx \in 0 .. Long - 1
        BY <1>1, <3>2, TxinFields
      <4>. QED
        BY <3>2, <4>1, Fronts, WordEnough
    <3>3. CASE pc = 7
      <4>1. tx.vin[1].seq_no \in 0 .. Long - 1
        BY <1>1, <3>3, TxinFields
      <4>. QED
        BY <3>3, <4>1, Fronts, WordEnough
    <3>4. CASE pc = 11
      BY <1>1, <3>4, Fronts, WordEnough
    <3>. QED
      BY <1>2, <3>1, <3>2, <3>3, <3>4
  <2>. QED
    BY <2>1, <2>2
<1>3. CASE pc \in {2, 5, 8} /\ step # "vin_byte"
  <2>1. Needs = VarintAt(1)
    <3>1. step \in Varints
      BY <1>1, <1>3, Places DEF Varints
    <3>. QED
      BY <3>1, NeedsIs
  <2>2. Len(rest) >= VarintAt(1)
    <3>1. CASE pc = 2
      BY <1>1, <3>1, Fronts, VarintFront
    <3>2. CASE pc = 5
      <4>1. tx.vin[1].sc_size \in 0 .. Quad - 1
        BY <1>1, <3>2, TxinFields
      <4>. QED
        BY <3>2, <4>1, Fronts, VarintFront
    <3>3. CASE pc = 8
      BY <1>1, <3>3, Fronts, VarintFront
    <3>. QED
      BY <1>3, <3>1, <3>2, <3>3
  <2>. QED
    BY <2>1, <2>2
<1>4. CASE step = "vin_byte"
  <2>1. Needs = 1 /\ pc = 2
    BY <1>1, <1>4, NeedsIs, Places
  <2>2. Len(rest) >= VarintAt(1)
    BY <1>1, <2>1, Fronts, VarintFront
  <2>3. VarintAt(1) \in Nat \ {0}
    BY <1>1, ValueTyped
  <2>4. Len(rest) \in Nat
    BY <1>1
  <2>. QED
    BY <2>1, <2>2, <2>3, <2>4
<1>5. CASE pc = 3
  <2>1. Needs = HashSize
    BY <1>1, <1>5, NeedsIs, Places
  <2>. DEFINE u == Reversed(tx.vin[1].pre_txid)
  <2>2. u \in Seq(Byte) /\ Len(u) = HashSize
    BY <1>1, <1>5, TxinFields
  <2>3. Ahead(u, From4(tx)) /\ From4(tx) \in Seq(Byte)
    BY <1>5, Fronts
  <2>. HIDE DEF u
  <2>4. Len(rest) >= Len(u)
    BY <2>2, <2>3, Front
  <2>. QED
    BY <2>1, <2>2, <2>4
<1>6. CASE pc = 6
  <2>1. step \in SigOps \cup {"btc_sig"}
    BY <1>1, <1>6, Places DEF SigOps
  <2>2. /\ tx.vin[1].sc \in Seq(Byte) /\ From7(tx) \in Seq(Byte) /\ Ahead(tx.vin[1].sc, From7(tx))
        /\ out.sc_size = Len(tx.vin[1].sc)
    BY <2>1, KnownSig
  <2>3. Needs = Len(tx.vin[1].sc)
    <3>1. CASE step = "btc_sig" \/ Coinbase
      BY <2>1, <2>2, <3>1, NeedsIs
    <3>2. CASE step \in SigOps /\ ~Coinbase
      BY <3>2, SigNeeds
    <3>. QED
      BY <2>1, <3>1, <3>2
  <2>. QED
    BY <2>2, <2>3, Front
<1>7. CASE pc = 9
  <2>1. step = "txout"
    BY <1>1, <1>7, Places
  <2>2. out.vout_sz = Len(tx.vout)
    BY <2>1, KnownOuts
  <2>3. Needs = IF k < Len(tx.vout) THEN TxoutSize ELSE 0
    BY <2>1, <2>2, NeedsIs
  <2>4. k < Len(tx.vout) => Len(rest) >= TxoutSize
    BY <2>1, OutFront
  <2>5. Len(rest) \in Nat
    BY <1>1
  <2>. QED
    BY <2>3, <2>4, <2>5
<1>8. CASE pc = 10
  <2>1. step = "opcodes"
    BY <1>1, <1>8, Places
  <2>. QED
    BY <2>1, Scanning
<1>9. pc \in {1, 4, 7, 11} \/ pc \in {2, 5, 8} \/ pc = 3 \/ pc = 6 \/ pc = 9 \/ pc = 10
  BY <1>1
<1>. QED
  BY <1>2, <1>3, <1>4, <1>5, <1>6, <1>7, <1>8, <1>9

\* A script that can be read does not fill the stack.
LEMMA NoOverrunStack ==
    ASSUME Typing, Readable, Following
    PROVE  ~OverrunStack
<1>1. SUFFICES ASSUME OverrunStack PROVE FALSE
  OBVIOUS
<1>2. At("opcodes") /\ Len(out.txouts[Last].ops) >= StackSize
  BY <1>1 DEF OverrunStack
<1>3. Last = k + 1 /\ out.txouts[Last].ops \in Seq(Entries)
  BY <1>2, KnownScan
<1>4. Len(out.txouts[k + 1].ops) < StackSize
  BY <1>2, Scanning
<1>5. Len(out.txouts[k + 1].ops) \in Nat /\ StackSize \in Nat
  BY <1>3, LenProperties, ParseTxAssumption DEF ParseTxAssumption
<1>. QED
  BY <1>2, <1>3, <1>4, <1>5

\* Nothing is left to read when the file is read.
LEMMA NoEndOfFile ==
    ASSUME Typing, Readable, Following
    PROVE  ~EndOfFile
<1>1. SUFFICES ASSUME EndOfFile PROVE FALSE
  OBVIOUS
<1>2. At(Text[prog][pc]) /\ Len(rest) < Needs
  BY <1>1 DEF EndOfFile, At
<1>3. Len(rest) >= Needs /\ Needs \in Nat
  BY <1>2, Enough, NeedsTyped
<1>4. Len(rest) \in Nat
  BY DEF Typing
<1>. QED
  BY <1>2, <1>3, <1>4

\* Printing disturbs nothing.
LEMMA FollowPrint ==
    ASSUME Typing, Readable, Following, PrintOut
    PROVE  Following'
<1>. DEFINE n == Len(Text[prog])
<1>1. /\ pc = n + 1 /\ pc' = pc + 1 /\ fault' \in {"none", "unset"}
      /\ UNCHANGED <<writer, tx, prog, rest, out, k, i>>
  BY DEF PrintOut
<1>2. /\ prog \in Parsers /\ n \in 1 .. 11 /\ n' = n
      /\ prog = "parse_txout_script_pbk" => n = 11
  BY <1>1, Lengths DEF Typing
<1>3. Place /\ Fields /\ Listed /\ Scanned
  BY DEF Following
<1>4. \A p \in 1 .. 11 : Done(p)' <=> Done(p)
  <2>1. ASSUME NEW p \in 1 .. 11 PROVE (p < pc' /\ p <= n') <=> (p < pc /\ p <= n)
    <3>. HIDE DEF n
    <3>. QED
      BY <1>1, <1>2
  <2>. QED
    BY <2>1 DEF Done
<1>5. ~(pc' <= n') /\ ~(pc <= n) /\ pc' # 1 /\ (prog = "parse_txout_script_pbk" => pc > 11 /\ pc' > 11 /\ pc' # 10)
  <2>. HIDE DEF n
  <2>. QED
    BY <1>1, <1>2
<1>6. Place'
  BY <1>1, <1>3, <1>5 DEF Place
<1>7. Fields'
  <2>1. \A f \in DOMAIN Pos : Pos[f] \in 1 .. 11
    BY DEF Pos
  <2>2. \A f \in DOMAIN Pos : Right(f)' = Right(f)
    BY <1>1 DEF Right
  <2>3. SigShown(tx.vin[1])' <=> SigShown(tx.vin[1])
    BY <1>1 DEF SigShown
  <2>4. Done(6)' <=> Done(6)
    BY <1>4
  <2>5. \A f \in DOMAIN Pos : Done(Pos[f])' <=> Done(Pos[f])
    BY <1>4, <2>1
  <2>. QED
    BY <1>1, <1>3, <2>2, <2>3, <2>4, <2>5 DEF Fields
<1>8. Listed'
  <2>1. \A j : Parsed(out.txouts[j].ops, tx.vout[j].sc)' <=> Parsed(out.txouts[j].ops, tx.vout[j].sc)
    BY <1>1 DEF Parsed
  <2>2. Last' = Last
    BY <1>1 DEF Last
  <2>3. Done(8)' <=> Done(8)
    BY <1>4
  <2>4. prog = "parse_txout_script_pbk" => pc >= 11
    <3>. HIDE DEF n
    <3>. QED
      BY <1>1, <1>2
  <2>. QED
    BY <1>1, <1>3, <1>5, <2>1, <2>2, <2>3, <2>4 DEF Listed
<1>9. Scanned'
  BY <1>1, <1>5 DEF Scanned
<1>. QED
  BY <1>1, <1>6, <1>7, <1>8, <1>9 DEF Following

\* Every step keeps what is shown as it was written.
LEMMA FollowStep ==
    ASSUME Typing, Following, Step
    PROVE  Following'
<1>1. SUFFICES ASSUME Readable PROVE Following'
  <2>1. tx' = tx /\ prog' = prog
    BY DEF Step, ReadWord, ReadVarint, ReadCoinbase, OverrunCoinbase, ReadScriptSig, ReadVinByte,
           ReadHash, ReadSig, ReadTxout, TxoutsRead, ParseOpcode, OverrunStack, EndOfFile,
           PrintOut, Reads
  <2>2. Readable' <=> Readable
    BY <2>1 DEF Readable, ReadableSig
  <2>. QED
    BY <2>2 DEF Following
<1>. USE <1>1
<1>2. CASE \E f \in Words : ReadWord(f)
  BY <1>2, FollowVersion, FollowTxInx, FollowSeqNo, FollowLockTime DEF Words
<1>3. CASE \E f \in Varints : ReadVarint(f)
  BY <1>3, FollowVinSz, FollowScSize, FollowVoutSz DEF Varints
<1>4. CASE \E step \in SigOps : ReadCoinbase(step)
  <2>1. PICK step \in SigOps : ReadCoinbase(step)
    BY <1>4
  <2>2. /\ At(step) /\ step \in SigOps \cup {"btc_sig"} /\ Coinbase
        /\ Reads([out EXCEPT !.sig = Take(out.sc_size)])
    BY <2>1 DEF ReadCoinbase
  <2>. QED
    BY <2>2, FollowSig
<1>5. CASE \E step \in SigOps : OverrunCoinbase(step)
  BY <1>5, NoOverrun
<1>6. CASE \E step \in SigOps : ReadScriptSig(step)
  BY <1>6, FollowScriptSig
<1>7. CASE ReadVinByte
  BY <1>7, FollowVinByte
<1>8. CASE ReadHash
  BY <1>8, FollowTxid
<1>9. CASE ReadSig
  <2>1. At("btc_sig") /\ Reads([out EXCEPT !.sig = Take(out.sc_size)])
    BY <1>9 DEF ReadSig
  <2>2. prog = "parse_txin"
    <3>1. prog \in Parsers /\ pc \in Nat \ {0}
      BY Lengths DEF Typing
    <3>. QED
      BY <2>1, <3>1, Places
  <2>. QED
    BY <2>1, <2>2, FollowSig
<1>10. CASE ReadTxout
  BY <1>10, FollowTxout
<1>11. CASE TxoutsRead
  BY <1>11, FollowTxoutsRead
<1>12. CASE ParseOpcode
  BY <1>12, FollowOpcode
<1>13. CASE OverrunStack \/ EndOfFile
  BY <1>13, NoOverrunStack, NoEndOfFile
<1>14. CASE PrintOut
  BY <1>14, FollowPrint
<1>. QED
  BY <1>2, <1>3, <1>4, <1>5, <1>6, <1>7, <1>8, <1>9, <1>10, <1>11, <1>12, <1>13, <1>14 DEF Step

------------------------------------------------------------------------------
(* What a parser shows, from the first byte to the last. *)

\* What a parser is about to read is what kyk_seri_tx writes.
Opened == pc = 1 /\ fault = "none" /\ Created(tx) => rest = SeriTx(tx)

\* No parser comes back to the beginning of the file.
LEMMA OpenedStep ==
    ASSUME Typing, Step
    PROVE  Opened'
<1>. SUFFICES pc' # 1 \/ fault' # "none"
  BY DEF Opened
<1>1. pc \in Nat \ {0} /\ prog \in Parsers /\ Len(Text[prog]) \in 1 .. 11
  BY Lengths DEF Typing
<1>2. \A o : Reads(o) => pc' # 1
  BY <1>1 DEF Reads
<1>3. CASE \/ \E f \in Words : ReadWord(f)
           \/ \E f \in Varints : ReadVarint(f)
           \/ \E step \in SigOps : ReadCoinbase(step) \/ ReadScriptSig(step)
           \/ ReadVinByte \/ ReadHash \/ ReadSig
  BY <1>2, <1>3 DEF ReadWord, ReadVarint, ReadCoinbase, ReadScriptSig, ReadVinByte, ReadHash, ReadSig
<1>4. CASE (\E step \in SigOps : OverrunCoinbase(step)) \/ OverrunStack \/ EndOfFile
  BY <1>4 DEF OverrunCoinbase, OverrunStack, EndOfFile
<1>5. CASE ReadTxout
  <2>1. pc = 9
    BY <1>1, <1>5, Places DEF ReadTxout
  <2>. QED
    BY <1>5, <2>1 DEF ReadTxout
<1>6. CASE TxoutsRead
  <2>1. pc = 9
    BY <1>1, <1>6, Places DEF TxoutsRead
  <2>. QED
    BY <1>6, <2>1 DEF TxoutsRead
<1>7. CASE ParseOpcode
  <2>1. pc = 10
    BY <1>1, <1>7, Places DEF ParseOpcode
  <2>. QED
    BY <1>7, <2>1 DEF ParseOpcode
<1>8. CASE PrintOut
  BY <1>1, <1>8 DEF PrintOut
<1>. QED
  BY <1>3, <1>4, <1>5, <1>6, <1>7, <1>8 DEF Step

\* Both serialisers write the same bytes.
LEMMA OpenedInit ==
    ASSUME Init
    PROVE  Opened
<1>1. CASE writer = "kyk_seri_tx"
  BY <1>1 DEF Init, File, Opened
<1>2. CASE writer = "kyk_tx_inc_ser"
  <2>1. Len(tx.vin) = 1 /\ Len(tx.vout) = 1 /\ rest = IncSer(TxColumns(tx))
    BY <1>2 DEF Init, File
  <2>2. tx \in Txs
    BY TypingInit DEF Typing
  <2>3. SUFFICES ASSUME Created(tx) PROVE rest = SeriTx(tx)
    BY DEF Opened
  <2>. QED
    BY <2>1, <2>2, <2>3, Columns
<1>. QED
  BY <1>1, <1>2 DEF Init, Writers

\* The varint in front is read whole, and as wide as encode_btc_varint says.
LEMMA VarintAgrees ==
    ASSUME NEW v \in 0 .. Quad - 1, NEW b \in Seq(Byte), Ahead(PackVarint(v), b)
    PROVE  LET u == UnpackVarint(rest \o [j \in 1 .. 8 |-> 0])
           IN  u.val = v /\ u.size <= Len(rest) /\ u.size = EncodeBtcVarint(u.val).width + 1
<1>. DEFINE z == [j \in 1 .. 8 |-> 0]
            a == PackVarint(v)
<1>1. a \in Seq(Byte)
  <2>1. v \in Nat
    BY Widths
  <2>. QED
    BY <2>1, PackTyped
<1>2. z \in Seq(Byte)
  <2>1. 0 \in Byte
    BY BaseAssumption DEF BaseAssumption, Byte
  <2>2. z \in [1 .. 8 -> Byte] /\ 8 \in Nat
    BY <2>1
  <2>. QED
    BY <2>2
<1>3. rest = a \o b
  BY DEF Ahead
<1>4. Len(rest) >= Len(a)
  <2>. HIDE DEF a
  <2>1. Ahead(a, b)
    BY <1>3 DEF Ahead
  <2>. QED
    BY <1>1, <2>1, Front
<1>5. rest \o z = a \o (b \o z) /\ b \o z \in Seq(Byte)
  <2>. HIDE DEF a, z
  <2>1. (a \o b) \o z = a \o (b \o z) /\ b \o z \in Seq(Byte)
    BY <1>1, <1>2, Rest
  <2>. QED
    BY <1>3, <2>1
<1>. DEFINE y == b \o z
<1>6. y \in Seq(Byte) /\ rest \o z = PackVarint(v) \o y
  BY <1>5
<1>. HIDE DEF y, z, a
<1>7. UnpackVarint(PackVarint(v) \o y) = [val |-> v, size |-> Len(PackVarint(v))]
  BY <1>6, VarintRead
<1>8. Len(PackVarint(v)) = EncodeBtcVarint(v).width + 1
  BY VarintWidth
<1>9. UnpackVarint(rest \o z) = [val |-> v, size |-> Len(PackVarint(v))]
  BY <1>6, <1>7
<1>. DEFINE u == UnpackVarint(rest \o z)
<1>10. u.val = v /\ u.size = Len(PackVarint(v))
  BY <1>9
<1>. HIDE DEF u
<1>11. u.val = v /\ u.size <= Len(rest) /\ u.size = EncodeBtcVarint(u.val).width + 1
  BY <1>4, <1>8, <1>10 DEF a
<1>. QED
  BY <1>11 DEF u, z

\* The varints a parser is about to read are those that were written.
LEMMA ReadingVarints ==
    ASSUME Typing, Following
    PROVE  VarintsAgree
<1>. SUFFICES ASSUME NEW f \in Varints, At(f), Readable
              PROVE  LET u == UnpackVarint(rest \o [j \in 1 .. 8 |-> 0])
                     IN  /\ u.val = Count(f) /\ u.size <= Len(rest)
                         /\ u.size = EncodeBtcVarint(u.val).width + 1
  BY DEF VarintsAgree
<1>1. /\ prog \in Parsers /\ pc \in Nat \ {0}
      /\ Len(tx.vin) \in 0 .. Quad - 1 /\ Len(tx.vout) \in 0 .. Quad - 1
      /\ pc >= 3 => tx.vin[1] \in Txins /\ tx.vin[1].sc_size = Len(tx.vin[1].sc)
  BY Known
<1>2. PICK v \in 0 .. Quad - 1, b \in Seq(Byte) : Ahead(PackVarint(v), b) /\ v = Count(f)
  <2>1. CASE f = "vin_sz"
    <3>1. pc = 2
      BY <1>1, <2>1, Places
    <3>2. Ahead(PackVarint(Len(tx.vin)), Behind(tx)) /\ Behind(tx) \in Seq(Byte)
      BY <3>1, Fronts
    <3>. QED
      BY <1>1, <2>1, <3>2 DEF Count
  <2>2. CASE f = "sc_size"
    <3>1. pc = 5
      BY <1>1, <2>2, Places
    <3>2. Ahead(PackVarint(tx.vin[1].sc_size), From6(tx)) /\ From6(tx) \in Seq(Byte)
      BY <3>1, Fronts
    <3>3. tx.vin[1].sc_size \in 0 .. Quad - 1 /\ tx.vin[1].sc_size = Len(tx.vin[1].sc)
      BY <1>1, <3>1, TxinFields
    <3>. QED
      BY <2>2, <3>2, <3>3 DEF Count
  <2>3. CASE f = "vout_sz"
    <3>1. pc = 8
      BY <1>1, <2>3, Places
    <3>2. Ahead(PackVarint(Len(tx.vout)), From9(tx)) /\ From9(tx) \in Seq(Byte)
      BY <3>1, Fronts
    <3>. QED
      BY <1>1, <2>3, <3>2 DEF Count
  <2>. QED
    BY <2>1, <2>2, <2>3 DEF Varints
<1>3. LET u == UnpackVarint(rest \o [j \in 1 .. 8 |-> 0])
      IN  u.val = v /\ u.size <= Len(rest) /\ u.size = EncodeBtcVarint(u.val).width + 1
  BY <1>2, VarintAgrees
<1>. QED
  BY <1>2, <1>3

\* What is shown is what was written.
LEMMA ReadingFields ==
    ASSUME Typing, Following, Readable
    PROVE  AsWritten
<1>1. Fields /\ Listed /\ Len(Text[prog]) \in 1 .. 11
  BY Lengths DEF Following, Typing
<1>2. \A f \in DOMAIN Pos : out[f] = IF Done(Pos[f]) THEN Right(f) ELSE Unset
  BY <1>1 DEF Fields
<1>3. \A f \in DOMAIN Pos : out[f] \in {Unset, Right(f)}
  BY <1>2
<1>4. /\ out.version \in {Unset, tx.version} /\ out.vin_sz \in {Unset, Len(tx.vin)}
      /\ out.pre_txid \in {Unset, tx.vin[1].pre_txid}
      /\ out.pre_tx_inx \in {Unset, tx.vin[1].pre_tx_inx}
      /\ out.sc_size \in {Unset, Len(tx.vin[1].sc)}
      /\ out.seq_no \in {Unset, tx.vin[1].seq_no}
      /\ out.vout_sz \in {Unset, Len(tx.vout)}
      /\ out.lock_time \in {Unset, tx.lock_time}
  BY <1>3 DEF Pos, Right
<1>5. ASSUME out.seq_no # Unset PROVE SigShown(tx.vin[1])
  <2>1. "seq_no" \in DOMAIN Pos /\ Pos["seq_no"] = 7
    BY DEF Pos
  <2>2. Done(7)
    BY <1>2, <1>5, <2>1
  <2>3. Done(6)
    <3>. DEFINE n == Len(Text[prog])
    <3>1. n \in Nat /\ pc \in Nat
      BY <1>1 DEF Typing
    <3>2. 7 < pc /\ 7 <= n
      BY <2>2 DEF Done
    <3>. HIDE DEF n
    <3>3. 6 < pc /\ 6 <= n
      BY <3>1, <3>2
    <3>. QED
      BY <3>3 DEF Done, n
  <2>. QED
    BY <1>1, <2>3 DEF Fields
<1>6. \A j \in 1 .. k : /\ out.txouts[j].value = tx.vout[j].value
                        /\ out.txouts[j].sc = tx.vout[j].sc
                        /\ prog = "parse_txout_script_pbk" =>
                               Parsed(out.txouts[j].ops, tx.vout[j].sc)
  BY <1>1 DEF Listed
<1>. QED
  BY <1>4, <1>5, <1>6 DEF AsWritten

\* What the invariant says of what is shown.
LEMMA ReadingReads ==
    ASSUME Typing, Following, Opened
    PROVE  ReadsBack
<1>1. VarintsAgree
  BY ReadingVarints
<1>2. pc = 1 /\ fault = "none" /\ Created(tx) => rest = SeriTx(tx)
  BY DEF Opened
<1>3. ASSUME Readable PROVE AsWritten
  BY <1>3, ReadingFields
<1>4. ASSUME Readable PROVE fault \notin {"short", "overrun"}
  BY <1>4 DEF Following
<1>5. ASSUME Readable, prog = "parse_txout_script_pbk", pc > Len(Text[prog]) PROVE rest = <<>>
  <2>1. prog \in Parsers /\ pc \in Nat
    BY Lengths DEF Typing
  <2>2. Len(Text[prog]) = 11
    BY <1>5, <2>1, Lengths
  <2>3. pc > 11
    BY <1>5, <2>2
  <2>. QED
    BY <1>5, <2>3 DEF Following, Place
<1>. QED
  BY <1>1, <1>2, <1>3, <1>4, <1>5 DEF ReadsBack

\* What the invariant says of the types.
LEMMA TypingTypes ==
    ASSUME Typing
    PROVE  TypeOK
<1>1. /\ \A f \in Words \cup Varints : out[f] \in Nat \cup {Unset}
      /\ \A f \in {"sig", "pubkey"} : out[f] \in Seq(Byte) \cup {Unset}
  BY DEF Typing, Variables, Words, Varints, Numbers, Buffers
<1>2. \A j \in 1 .. Last : out.txouts[j].value \in Nat /\ out.txouts[j].sc \in Seq(Byte)
  <2>1. out.txouts \in Seq(Shown)
    BY DEF Typing, Variables
  <2>2. \A j \in 1 .. Last : out.txouts[j] \in Shown
    BY <2>1, ElementOfSeq DEF Last
  <2>. QED
    BY <2>2 DEF Shown
<1>. QED
  BY <1>1, <1>2 DEF Typing, TypeOK

------------------------------------------------------------------------------
(* The programs. *)

\* Where a program may be; it never is where a crash leaves it.
Stages == {"start", "pem", "priv", "test", "ecdsa", "text", "pubkey", "tx0", "key", "script",
           "made", "printed", "typed", "exit", "written", "other"}

\* There is a file.
Filed == stage \in {"written", "other"}

\* A file is read as Reading says, and before there is one nothing has happened to it.
Filing == IF Filed THEN Typing /\ Following /\ Opened ELSE NoFile

\* The key, and what is left of it in priv.
Keyed ==
    /\ key \in PemKeys \cup {0} /\ priv \in Privs /\ addr \in Seq(Nat)
    /\ stage \in {"test", "ecdsa"} => FullKey
    /\ stage = "tx0" => key = 0 /\ sc.result = "none"
    /\ stage \in {"key", "made", "printed", "script", "written"} /\ FullKey =>
           Number(priv, Base) = key

\* The address and the script of it.
Addressed ==
    /\ stage = "made" => addr = kyk_base58(AddressBytes(PubKeyHash(Number(priv, Base))))
    /\ stage = "script" => sc.result = "good"
    /\ stage \in {"script", "written"} /\ sc.result = "good" =>
           sc.hash = PubKeyHash(Number(priv, Base))
    /\ stage = "text" => shown = <<>>
    /\ stage = "typed" => /\ sc = pubk_hash_from_address(addr)
                          /\ sc.result = "good" =>
                                 shown \in {<<>>, HexText(build_p2pkh_sc_pubk(sc.hash))}
    /\ stage = "printed" => shown = HexText(priv)

\* The transaction of a file kyk_gens_tx or kyk_tx0 wrote, and its txid.
Owned ==
    stage = "written" =>
        /\ kyk_dgst_hash256(SeriTx(tx)) \in [1 .. HashSize -> Byte]
        /\ shown = HexText(kyk_inver_hash(SeriTx(tx)))
        /\ FullKey => /\ prog = "parse_txout_script_pbk"
                      /\ tx = GensTx(build_p2pkh_sc_pubk(PubKeyHash(key)))

AllInv == stage \in Stages /\ Filing /\ Keyed /\ Addressed /\ Owned

\* The bytes of a key fill what holds them or leave its end.
LEMMA FilledTyped ==
    ASSUME key \in PemKeys \cup {0}, priv \in Privs
    PROVE  Filled \in Privs /\ (FullKey => Number(Filled, Base) = key)
<1>. DEFINE bytes == Digits(key, Base)
<1>1. KeySize \in Nat /\ KeySize >= 1 /\ Base \in Nat /\ Base > 1 /\ Figures(Base) = Byte
  BY Bases, AddressAssumption DEF AddressAssumption
<1>2. key \in Nat /\ Len(bytes) <= KeySize
  <2>1. CASE key = 0
    BY <1>1, <2>1, DigitsZero
  <2>2. CASE key \in PemKeys
    BY <2>2, GensTxAssumption DEF GensTxAssumption
  <2>. QED
    BY <2>1, <2>2
<1>3. bytes \in Seq(Byte)
  BY <1>1, <1>2, DigitsSeq
<1>4. Filled = [j \in 1 .. KeySize |-> IF j <= Len(bytes) THEN bytes[j] ELSE priv[j]]
  BY DEF Filled
<1>5. Number(bytes, Base) = key
  BY <1>1, <1>2, NumberOfDigits
<1>. HIDE DEF bytes
<1>6. \A j \in 1 .. KeySize : (IF j <= Len(bytes) THEN bytes[j] ELSE priv[j]) \in Byte
  BY <1>1, <1>3 DEF Privs
<1>7. Filled \in Privs
  BY <1>4, <1>6 DEF Privs
<1>8. ASSUME FullKey PROVE Filled = bytes
  <2>1. Len(bytes) = KeySize
    <3>1. Len(bytes) >= KeySize
      BY <1>8 DEF FullKey, bytes
    <3>2. Len(bytes) \in Nat
      BY <1>3
    <3>. QED
      BY <1>1, <1>2, <3>1, <3>2
  <2>2. bytes \in [1 .. KeySize -> Byte]
    BY <1>3, <2>1, SeqN
  <2>3. \A j \in 1 .. KeySize : (IF j <= Len(bytes) THEN bytes[j] ELSE priv[j]) = bytes[j]
    BY <1>1, <2>1
  <2>4. Filled = [j \in 1 .. KeySize |-> bytes[j]]
    BY <1>4, <2>3
  <2>. QED
    BY <2>2, <2>4
<1>. QED
  BY <1>5, <1>7, <1>8

\* A key that could not be read fills nothing.
LEMMA NoKey ==
    ASSUME Len(Digits(0, Base)) >= KeySize
    PROVE  FALSE
<1>1. KeySize \in Nat /\ KeySize >= 1 /\ Base \in Nat /\ Base > 1
  BY Bases, AddressAssumption DEF AddressAssumption
<1>2. Len(Digits(0, Base)) = 0
  BY <1>1, DigitsZero
<1>. QED
  BY <1>1, <1>2

\* The address that is made of a key is read again, as the hash of it.
LEMMA OwnAddress ==
    ASSUME NEW p \in Privs
    PROVE  LET h == PubKeyHash(Number(p, Base))
           IN  /\ h \in Pkhs /\ kyk_make_address(p) = kyk_base58(AddressBytes(h))
               /\ kyk_base58(AddressBytes(h)) \in Seq(Nat)
               /\ pubk_hash_from_address(kyk_base58(AddressBytes(h)))
                      = [result |-> "good", hash |-> h]
<1>. DEFINE h == PubKeyHash(Number(p, Base))
<1>1. h \in Pkhs
  BY HashAssumption DEF HashAssumption
<1>2. kyk_make_address(p) = kyk_base58(AddressBytes(h))
  BY DEF kyk_make_address, kyk_ec_new_keypair, PubKeyHash, kyk_dgst_hash160
<1>. HIDE DEF h
<1>3. /\ kyk_base58(AddressBytes(h)) \in Seq(Nat)
      /\ pubk_hash_from_address(kyk_base58(AddressBytes(h))) = [result |-> "good", hash |-> h]
  BY <1>1, AddressMade
<1>. QED
  BY <1>1, <1>2, <1>3 DEF h

\* The script that pays a hash: where its opcodes are.
LEMMA PayScript ==
    ASSUME NEW h \in Pkhs
    PROVE  LET s == build_p2pkh_sc_pubk(h)
           IN  /\ s \in Seq(Byte) /\ Len(s) = PkhSize + 5 /\ PkhSize \in Nat \ {0}
               /\ s[1] = OpDup /\ s[2] = OpHash160 /\ s[3] = PkhSize
               /\ \A j \in 1 .. PkhSize : s[3 + j] = h[j]
               /\ s[PkhSize + 4] = OpEqualVerify /\ s[PkhSize + 5] = OpCheckSig
<1>1. PkhSize \in Nat \ {0} /\ PkhSize \in Byte
  BY AddressAssumption, GensTxAssumption, Sizes DEF AddressAssumption, GensTxAssumption
<1>2. h \in Seq(Byte) /\ Len(h) = PkhSize
  BY <1>1, NSeq DEF Pkhs
<1>3. OpDup \in Byte /\ OpHash160 \in Byte /\ OpEqualVerify \in Byte /\ OpCheckSig \in Byte
  BY AddressAssumption DEF AddressAssumption
<1>. DEFINE a == <<OpDup, OpHash160, PkhSize>>
            z == <<OpEqualVerify, OpCheckSig>>
<1>4. a \in Seq(Byte) /\ Len(a) = 3 /\ a[1] = OpDup /\ a[2] = OpHash160 /\ a[3] = PkhSize
  BY <1>1, <1>3
<1>5. z \in Seq(Byte) /\ Len(z) = 2 /\ z[1] = OpEqualVerify /\ z[2] = OpCheckSig
  BY <1>3
<1>6. build_p2pkh_sc_pubk(h) = (a \o h) \o z
  BY DEF build_p2pkh_sc_pubk
<1>. HIDE DEF a, z
<1>. DEFINE b == a \o h
<1>7. /\ b \in Seq(Byte) /\ Len(b) = 3 + PkhSize
      /\ \A j \in 1 .. 3 : b[j] = a[j]
      /\ \A j \in 1 .. PkhSize : b[3 + j] = h[j]
  <2>1. /\ b \in Seq(Byte) /\ Len(b) = Len(a) + Len(h)
        /\ \A j \in 1 .. Len(a) : b[j] = a[j]
        /\ \A j \in 1 .. Len(h) : b[Len(a) + j] = h[j]
    <3>1. a \in Seq(Byte) /\ h \in Seq(Byte)
      BY <1>2, <1>4
    <3>. QED
      BY <3>1
  <2>. QED
    BY <1>2, <1>4, <2>1
<1>. HIDE DEF b
<1>. DEFINE s == b \o z
<1>8. /\ s \in Seq(Byte) /\ Len(s) = PkhSize + 5
      /\ \A j \in 1 .. 3 + PkhSize : s[j] = b[j]
      /\ \A j \in 1 .. 2 : s[3 + PkhSize + j] = z[j]
  <2>1. /\ s \in Seq(Byte) /\ Len(s) = Len(b) + Len(z)
        /\ \A j \in 1 .. Len(b) : s[j] = b[j]
        /\ \A j \in 1 .. Len(z) : s[Len(b) + j] = z[j]
    <3>1. b \in Seq(Byte) /\ z \in Seq(Byte)
      BY <1>5, <1>7
    <3>. QED
      BY <3>1
  <2>2. Len(b) + Len(z) = PkhSize + 5
    BY <1>1, <1>5, <1>7
  <2>. QED
    BY <1>1, <1>5, <1>7, <2>1, <2>2
<1>. HIDE DEF s
<1>9. /\ s[1] = OpDup /\ s[2] = OpHash160 /\ s[3] = PkhSize
      /\ \A j \in 1 .. PkhSize : s[3 + j] = h[j]
  <2>1. /\ 1 \in 1 .. 3 /\ 2 \in 1 .. 3 /\ 3 \in 1 .. 3
        /\ \A j \in 1 .. 3 : j \in 1 .. 3 + PkhSize
        /\ \A j \in 1 .. PkhSize : 3 + j \in 1 .. 3 + PkhSize
    BY <1>1
  <2>2. \A j \in 1 .. 3 : s[j] = a[j]
    BY <1>7, <1>8, <2>1
  <2>3. \A j \in 1 .. PkhSize : s[3 + j] = h[j]
    BY <1>7, <1>8, <2>1
  <2>. QED
    BY <1>4, <2>1, <2>2, <2>3
<1>10. s[PkhSize + 4] = OpEqualVerify /\ s[PkhSize + 5] = OpCheckSig
  <2>1. PkhSize + 4 = 3 + PkhSize + 1 /\ PkhSize + 5 = 3 + PkhSize + 2
        /\ 1 \in 1 .. 2 /\ 2 \in 1 .. 2
    BY <1>1
  <2>. QED
    BY <1>5, <1>8, <2>1
<1>11. build_p2pkh_sc_pubk(h) = s
  BY <1>6 DEF b, s
<1>. QED
  BY <1>1, <1>8, <1>9, <1>10, <1>11

\* A transaction of one input and one output.
LEMMA OneOfEach ==
    ASSUME NEW v \in Txins, NEW w \in Txouts,
           NEW t, t = [version |-> 1, lock_time |-> 0, vin |-> <<v>>, vout |-> <<w>>]
    PROVE  /\ t \in Txs /\ Len(t.vin) = 1 /\ Len(t.vout) = 1 /\ t.vin[1] = v /\ t.vout[1] = w
           /\ Len(t.vin) < Quad /\ Len(t.vout) < Quad
           /\ v.sc_size = Len(v.sc) /\ w.sc_size = Len(w.sc) => Created(t)
<1>1. Long \in Nat /\ Quad \in Nat /\ 1 < Long /\ 1 < Quad
  BY Powers
<1>2. 1 \in 0 .. Long - 1 /\ 0 \in 0 .. Long - 1
  BY <1>1
<1>3. <<v>> \in Seq(Txins) /\ <<w>> \in Seq(Txouts) /\ Len(<<v>>) = 1 /\ Len(<<w>>) = 1
  OBVIOUS
<1>4. t \in Txs
  BY <1>2, <1>3 DEF Txs
<1>5. t.vin = <<v>> /\ t.vout = <<w>>
  OBVIOUS
<1>6. ASSUME v.sc_size = Len(v.sc), w.sc_size = Len(w.sc) PROVE Created(t)
  <2>1. \A s \in {t.vin, t.vout} : s \in {<<v>>, <<w>>}
    BY <1>5
  <2>2. \A s \in {<<v>>, <<w>>} : \A j \in DOMAIN s : s[j] \in {v, w}
    OBVIOUS
  <2>. QED
    BY <1>6, <2>1, <2>2 DEF Created
<1>. QED
  BY <1>1, <1>3, <1>4, <1>5, <1>6

\* The script of the input.
LEMMA CoinbaseTyped ==
    /\ make_coinbase \in Seq(Byte) /\ Len(make_coinbase) \in 0 .. Quad - 1
    /\ Zeros(HashSize) \in [1 .. HashSize -> Byte]
<1>1. CbPrefix \in Seq(Byte) /\ Note \in Seq(Byte) /\ Len(make_coinbase) < Quad
  BY GensTxAssumption DEF GensTxAssumption
<1>2. Len(Note) % Base \in Byte
  BY <1>1, Split
<1>3. make_coinbase \in Seq(Byte)
  <2>1. <<Len(Note) % Base>> \in Seq(Byte)
    BY <1>2
  <2>2. CbPrefix \o <<Len(Note) % Base>> \in Seq(Byte)
    BY <1>1, <2>1
  <2>. QED
    BY <1>1, <2>2 DEF make_coinbase
<1>4. Len(make_coinbase) \in Nat /\ Quad \in Nat
  BY <1>3, Powers
<1>5. 0 \in Byte
  BY Powers DEF Byte
<1>. QED
  BY <1>1, <1>3, <1>4, <1>5 DEF Zeros

\* The transaction kyk_gens_tx makes.
LEMMA GensTxTyped ==
    ASSUME NEW s \in Seq(Byte), Len(s) < Quad
    PROVE  LET t == GensTx(s)
           IN  /\ t \in Txs /\ Len(t.vin) = 1 /\ Len(t.vout) = 1
               /\ Len(t.vin) < Quad /\ Len(t.vout) < Quad /\ Created(t)
               /\ t.vin[1].pre_tx_inx = Long - 1 /\ t.vin[1].pre_txid = Zeros(HashSize)
               /\ t.vin[1].sc_size = Len(make_coinbase)
               /\ t.vout[1].value = GensValue /\ t.vout[1].sc = s
<1>. DEFINE v == [pre_txid |-> Zeros(HashSize), pre_tx_inx |-> Long - 1,
                  sc_size |-> Len(make_coinbase), sc |-> make_coinbase, seq_no |-> Long - 1]
            w == [value |-> GensValue, sc_size |-> Len(s), sc |-> s]
            t == GensTx(s)
<1>1. Long \in Nat /\ Long > 0 /\ Quad \in Nat
  BY Powers
<1>2. v \in Txins
  <2>1. Long - 1 \in 0 .. Long - 1
    BY <1>1
  <2>. QED
    BY <2>1, CoinbaseTyped DEF Txins
<1>3. w \in Txouts
  <2>1. Len(s) \in 0 .. Quad - 1
    BY <1>1
  <2>2. GensValue \in 0 .. Quad - 1
    BY GensTxAssumption DEF GensTxAssumption
  <2>. QED
    BY <2>1, <2>2 DEF Txouts
<1>4. t = [version |-> 1, lock_time |-> 0, vin |-> <<v>>, vout |-> <<w>>]
  BY DEF GensTx
<1>5. /\ v.sc_size = Len(v.sc) /\ w.sc_size = Len(w.sc)
      /\ v.pre_tx_inx = Long - 1 /\ v.pre_txid = Zeros(HashSize)
      /\ v.sc_size = Len(make_coinbase) /\ w.value = GensValue /\ w.sc = s
  OBVIOUS
<1>. HIDE DEF v, w, t
<1>6. /\ t \in Txs /\ Len(t.vin) = 1 /\ Len(t.vout) = 1 /\ t.vin[1] = v /\ t.vout[1] = w
      /\ Len(t.vin) < Quad /\ Len(t.vout) < Quad /\ Created(t)
  BY <1>2, <1>3, <1>4, <1>5, OneOfEach, ZenonT(60)
<1>. QED
  BY <1>5, <1>6 DEF t

\* A text that is read into n bytes has as many.
LEMMA HexTyped ==
    ASSUME NEW str \in Seq(Nat), NEW n \in Nat, hexstr_to_bytes(str, n) # Malformed
    PROVE  hexstr_to_bytes(str, n) \in [1 .. n -> Byte]
<1>. DEFINE b == [j \in 1 .. n |->
             IF str[2 * j] < Hex THEN (str[2 * j - 1] * Hex + str[2 * j]) % Base
             ELSE str[2 * j - 1]]
<1>1. Len(str) = 2 * n /\ (\A j \in 1 .. n : ~(str[2 * j - 1] >= Hex))
      /\ hexstr_to_bytes(str, n) = b
  BY DEF hexstr_to_bytes
<1>2. Hex \in Nat /\ Hex <= Base /\ Base \in Nat /\ Base > 3
  BY HexAssumption, BaseAssumption DEF HexAssumption, BaseAssumption
<1>3. SUFFICES ASSUME NEW j \in 1 .. n
               PROVE  (IF str[2 * j] < Hex THEN (str[2 * j - 1] * Hex + str[2 * j]) % Base
                       ELSE str[2 * j - 1]) \in Byte
  BY <1>1
<1>4. 2 * j \in 1 .. Len(str) /\ 2 * j - 1 \in 1 .. Len(str)
  <2>. HIDE DEF b
  <2>. QED
    BY <1>1
<1>5. str[2 * j] \in Nat /\ str[2 * j - 1] \in Nat /\ str[2 * j - 1] < Hex
  <2>1. str[2 * j] \in Nat /\ str[2 * j - 1] \in Nat
    BY <1>4, ElementOfSeq
  <2>2. ~(str[2 * j - 1] >= Hex)
    BY <1>1, Zenon
  <2>. QED
    BY <1>2, <2>1, <2>2
<1>. DEFINE x == str[2 * j - 1] * Hex + str[2 * j]
<1>6. x \in Nat
  <2>1. \A p \in Nat, q \in Nat, h \in Nat : p * h + q \in Nat
    OBVIOUS
  <2>2. str[2 * j - 1] \in Nat /\ Hex \in Nat /\ str[2 * j] \in Nat
    BY <1>2, <1>5
  <2>. QED
    BY <2>1, <2>2, Zenon
<1>7. x % Base \in Byte
  <2>. HIDE DEF x
  <2>. QED
    BY <1>6, Split
<1>8. str[2 * j - 1] \in Byte
  BY <1>2, <1>5 DEF Byte
<1>. QED
  BY <1>7, <1>8

\* The transaction kyk_tx0.c makes of texts that are what they should be.
LEMMA Tx0Typed ==
    ASSUME NEW t \in Tx0Texts, ~IsMalformed(Tx0(t))
    PROVE  LET u == Tx0(t)
           IN  u \in Txs /\ Len(u.vin) < Quad /\ Len(u.vout) < Quad /\ Created(u)
<1>. DEFINE a == hexstr_to_bytes(t.pre_txid, HashSize)
            b == hexstr_to_bytes(t.txin_sc, t.in_size)
            c == hexstr_to_bytes(t.txout_sc, t.out_size)
            v == [pre_txid |-> a, pre_tx_inx |-> Long - 1, sc_size |-> t.in_size, sc |-> b,
                  seq_no |-> Long - 1]
            w == [value |-> Tx0Value, sc_size |-> t.out_size, sc |-> c]
            u == Tx0(t)
<1>1. /\ t.pre_txid \in Seq(Nat) /\ t.txin_sc \in Seq(Nat) /\ t.txout_sc \in Seq(Nat)
      /\ t.in_size \in 0 .. Quad - 1 /\ t.out_size \in 0 .. Quad - 1
      /\ Tx0Value \in 0 .. Quad - 1
  BY GensTxAssumption DEF GensTxAssumption
<1>2. HashSize \in Nat /\ t.in_size \in Nat /\ t.out_size \in Nat
  BY <1>1, Widths
<1>3. u = [version |-> 1, lock_time |-> 0, vin |-> <<v>>, vout |-> <<w>>]
  BY DEF Tx0
<1>4. a # Malformed /\ b # Malformed /\ c # Malformed
  <2>1. u.vin[1].pre_txid = a /\ u.vin[1].sc = b /\ u.vout[1].sc = c
    BY <1>3
  <2>. QED
    BY <2>1 DEF IsMalformed
<1>5. a \in [1 .. HashSize -> Byte]
  BY <1>1, <1>2, <1>4, HexTyped
<1>6. b \in [1 .. t.in_size -> Byte]
  BY <1>1, <1>2, <1>4, HexTyped
<1>7. c \in [1 .. t.out_size -> Byte]
  BY <1>1, <1>2, <1>4, HexTyped
<1>. HIDE DEF a, b, c
<1>8. b \in Seq(Byte) /\ Len(b) = t.in_size
  BY <1>2, <1>6, NSeq
<1>9. c \in Seq(Byte) /\ Len(c) = t.out_size
  BY <1>2, <1>7, NSeq
<1>10. v \in Txins /\ v.sc_size = Len(v.sc)
  <2>1. Long - 1 \in 0 .. Long - 1
    BY Powers
  <2>. QED
    BY <1>1, <1>5, <1>8, <2>1 DEF Txins
<1>11. w \in Txouts /\ w.sc_size = Len(w.sc)
  BY <1>1, <1>9 DEF Txouts
<1>. HIDE DEF v, w, u
<1>12. u \in Txs /\ Len(u.vin) < Quad /\ Len(u.vout) < Quad /\ Created(u)
  BY <1>3, <1>10, <1>11, OneOfEach
<1>. QED
  BY <1>12 DEF u

\* Before there is a file, nothing has been read.
LEMMA NoFileReads ==
    ASSUME NoFile
    PROVE  TypeOK /\ ReadsBack
<1>1. tx \in Txs
  <2>1. <<>> \in Seq(Byte) /\ Len(<<>>) < Quad
    BY Powers
  <2>. QED
    BY <2>1, GensTxTyped DEF NoFile
<1>2. prog \in Parsers /\ Len(Text[prog]) = 11
  <2>1. prog \in Parsers /\ prog = "parse_txout_script_pbk"
    BY DEF NoFile, Parsers, Text
  <2>. QED
    BY <2>1, Lengths
<1>3. /\ \A f \in DOMAIN Blank \ {"txouts"} : out[f] = Unset
      /\ out.txouts = <<>> /\ Last = 0
  BY DEF NoFile, Blank, Last
<1>4. /\ out.version = Unset /\ out.vin_sz = Unset /\ out.pre_txid = Unset
      /\ out.pre_tx_inx = Unset /\ out.sc_size = Unset /\ out.seq_no = Unset
      /\ out.vout_sz = Unset /\ out.lock_time = Unset /\ out.sig = Unset /\ out.pubkey = Unset
  BY <1>3 DEF Blank
<1>5. /\ writer \in Writers /\ pc = 1 /\ rest = <<>> /\ k = 0 /\ i = 0 /\ fault = "unwritten"
  BY DEF NoFile, Writers
<1>6. TypeOK
  <2>1. \A f \in Words \cup Varints : out[f] = Unset
    BY <1>4 DEF Words, Varints
  <2>2. \A f \in {"sig", "pubkey"} : out[f] = Unset
    BY <1>4
  <2>3. pc \in 1 .. Len(Text[prog]) + 2 /\ rest \in Seq(Byte)
    BY <1>2, <1>5
  <2>. QED
    BY <1>1, <1>2, <1>3, <1>5, <2>1, <2>2, <2>3 DEF TypeOK
<1>7. VarintsAgree
  BY <1>5 DEF VarintsAgree, At
<1>8. AsWritten
  BY <1>4, <1>5 DEF AsWritten
<1>. QED
  BY <1>2, <1>5, <1>6, <1>7, <1>8 DEF ReadsBack

\* A file that has been written and not been opened yet.
Opening ==
    /\ writer \in Writers /\ prog \in Parsers
    /\ tx \in Txs /\ Len(tx.vin) < Quad /\ Len(tx.vout) < Quad
    /\ pc = 1 /\ out = Blank /\ k = 0 /\ i = 0 /\ fault = "none" /\ rest = SeriTx(tx)

\* Nothing of such a file has been read.
LEMMA OpeningReads == Opening => Typing /\ Following /\ Opened
<1>. SUFFICES ASSUME Opening PROVE Typing /\ Following /\ Opened
  OBVIOUS
<1>1. rest \in Seq(Byte)
  <2>1. tx \in Txs /\ rest = SeriTx(tx)
    BY DEF Opening
  <2>. QED
    BY <2>1, Whole, FromTyped
<1>2. prog \in Parsers /\ pc = 1
  BY DEF Opening
<1>3. Len(Text[prog]) \in 1 .. 11
  BY <1>2, Lengths
<1>4. ~Done(5) /\ ~Done(8)
  BY <1>2, <1>3 DEF Done
<1>5. out \in Variables
  BY DEF Opening, Blank, Variables, Numbers, Buffers
<1>6. pc \in 1 .. Len(Text[prog]) + 2
  BY <1>2, <1>3
<1>7. Typing
  BY <1>1, <1>2, <1>4, <1>5, <1>6 DEF Typing, Opening
<1>8. Following
  BY <1>7, Fresh DEF Opening
<1>9. Opened
  BY DEF Opening, Opened
<1>. QED
  BY <1>7, <1>8, <1>9

\* A file is written.
LEMMA Written ==
    ASSUME Opening'
    PROVE  Typing' /\ Following' /\ Opened'
<1>1. Opening' => Typing' /\ Following' /\ Opened'
  BY OpeningReads, PTL
<1>. QED
  BY <1>1

\* A parser leaves the file and the transaction as they are.
LEMMA StepKeeps ==
    ASSUME Step
    PROVE  UNCHANGED <<writer, tx, prog>>
BY DEF Step, Reads, ReadWord, ReadVarint, ReadCoinbase, OverrunCoinbase, ReadScriptSig, ReadVinByte,
       ReadHash, ReadSig, ReadTxout, TxoutsRead, ParseOpcode, OverrunStack, EndOfFile, PrintOut

\* The invariant holds before any program has begun,
LEMMA AllInvInit ==
    ASSUME GensInit \/ OtherInit \/ TextInit \/ Tx0Init
    PROVE  AllInv
<1>1. Zeros(KeySize) \in Privs /\ <<>> \in Seq(Nat)
  <2>1. 0 \in Byte
    BY Powers DEF Byte
  <2>. QED
    BY <2>1 DEF Zeros, Privs
<1>2. CASE GensInit
  <2>1. stage \in {"start", "pem", "priv"} \/ (stage \in {"test", "ecdsa"} /\ FullKey)
    BY <1>2 DEF GensInit
  <2>2. Keyed
    BY <1>1, <1>2, <2>1 DEF GensInit, Keyed
  <2>. QED
    BY <1>2, <2>1, <2>2 DEF AllInv, Stages, Filing, Filed, Addressed, Owned, GensInit
<1>3. CASE OtherInit
  <2>1. Typing /\ Following /\ Opened
    BY <1>3, ReadingInit, OpenedInit DEF OtherInit, Reading
  <2>2. Keyed
    BY <1>1, <1>3 DEF OtherInit, Keyed
  <2>. QED
    BY <1>3, <2>1, <2>2 DEF AllInv, Stages, Filing, Filed, Addressed, Owned, OtherInit
<1>4. CASE TextInit
  <2>1. addr \in Seq(Nat)
    BY <1>4, GensTxAssumption DEF GensTxAssumption, TextInit
  <2>2. Keyed
    BY <1>1, <1>4, <2>1 DEF TextInit, Keyed
  <2>. QED
    BY <1>4, <2>2 DEF AllInv, Stages, Filing, Filed, Addressed, Owned, TextInit
<1>5. CASE Tx0Init
  <2>1. Keyed
    BY <1>1, <1>5 DEF Tx0Init, Keyed
  <2>. QED
    BY <1>5, <2>1 DEF AllInv, Stages, Filing, Filed, Addressed, Owned, Tx0Init
<1>. QED
  BY <1>2, <1>3, <1>4, <1>5

\* Nothing happens to a file that is not there.
LEMMA StillNoFile ==
    ASSUME AllInv, ~Filed, UNCHANGED vars, ~Filed'
    PROVE  Filing' /\ Owned'
<1>1. NoFile
  BY DEF AllInv, Filing
<1>2. NoFile'
  BY <1>1 DEF NoFile, vars
<1>. QED
  BY <1>2 DEF Filing, Filed, Owned

\* after the key of a PEM file was read, or could not be,
LEMMA InvGetPriv ==
    ASSUME AllInv, GetPriv \/ GetPrivFails
    PROVE  AllInv'
<1>1. ~Filed /\ ~Filed' /\ UNCHANGED vars /\ stage' = "key"
  BY DEF Filed, GetPriv, GetPrivFails
<1>2. Filing' /\ Owned'
  BY <1>1, StillNoFile
<1>3. Keyed'
  <2>1. key \in PemKeys \cup {0} /\ priv \in Privs /\ addr \in Seq(Nat) /\ addr' = addr
    BY DEF AllInv, Keyed, GetPriv, GetPrivFails
  <2>2. CASE GetPriv
    <3>1. priv' = Filled /\ key' = key
      BY <2>2 DEF GetPriv
    <3>2. priv' \in Privs /\ (FullKey => Number(priv', Base) = key')
      BY <2>1, <3>1, FilledTyped
    <3>. QED
      BY <1>1, <2>1, <3>1, <3>2 DEF Keyed, FullKey
  <2>3. CASE GetPrivFails
    <3>1. priv' = priv /\ key' = 0
      BY <2>3 DEF GetPrivFails
    <3>2. ~FullKey'
      BY <3>1, NoKey DEF FullKey
    <3>. QED
      BY <1>1, <2>1, <3>1, <3>2 DEF Keyed
  <2>. QED
    BY <2>2, <2>3
<1>. QED
  BY <1>1, <1>2, <1>3 DEF AllInv, Stages, Addressed

\* after its address was made,
LEMMA InvMakeAddress ==
    ASSUME AllInv, MakeAddress
    PROVE  AllInv'
<1>1. /\ stage = "key" /\ addr' = kyk_make_address(priv) /\ sc' = pubk_hash_from_address(addr')
      /\ stage' = IF sc'.result = "good" THEN "script" ELSE "crash"
      /\ UNCHANGED <<vars, key, priv, shown>>
  BY DEF MakeAddress
<1>2. key \in PemKeys \cup {0} /\ priv \in Privs /\ (FullKey => Number(priv, Base) = key)
  BY <1>1 DEF AllInv, Keyed
<1>3. /\ addr' \in Seq(Nat)
      /\ sc' = [result |-> "good", hash |-> PubKeyHash(Number(priv, Base))]
  BY <1>1, <1>2, OwnAddress
<1>4. /\ sc'.result = "good" /\ sc'.hash = PubKeyHash(Number(priv, Base))
      /\ stage' = "script"
  BY <1>1, <1>3
<1>5. ~Filed /\ ~Filed'
  BY <1>1, <1>4 DEF Filed
<1>6. Filing' /\ Owned'
  BY <1>1, <1>5, StillNoFile
<1>7. Keyed'
  BY <1>1, <1>2, <1>3, <1>4 DEF Keyed, FullKey
<1>8. Addressed'
  BY <1>1, <1>4 DEF Addressed
<1>. QED
  BY <1>4, <1>6, <1>7, <1>8 DEF AllInv, Stages

\* at an early end,
LEMMA InvExit ==
    ASSUME AllInv, ~Filed, UNCHANGED <<vars, key, priv, addr>>, stage' = "exit"
    PROVE  AllInv'
<1>1. ~Filed'
  BY DEF Filed
<1>2. Filing' /\ Owned'
  BY <1>1, StillNoFile
<1>3. Keyed'
  BY DEF AllInv, Keyed
<1>. QED
  BY <1>2, <1>3 DEF AllInv, Stages, Addressed

\* An address is made of a key that was read, or that fills priv.
LEMMA InvMade ==
    ASSUME AllInv, PemToAddress \/ AddressTest
    PROVE  AllInv'
<1>1. ~Filed /\ UNCHANGED <<vars, key, sc, shown>>
  BY DEF Filed, PemToAddress, AddressTest
<1>2. key \in PemKeys \cup {0} /\ priv \in Privs /\ (stage = "test" => FullKey)
  BY DEF AllInv, Keyed
<1>3. Filled \in Privs /\ (FullKey => Number(Filled, Base) = key)
  BY <1>2, FilledTyped
<1>. DEFINE h == PubKeyHash(Number(Filled, Base))
<1>4. /\ kyk_base58(AddressBytes(h)) \in Seq(Nat)
      /\ kyk_make_address(Filled) = kyk_base58(AddressBytes(h))
  BY <1>3, OwnAddress
<1>5. ASSUME priv' = Filled, addr' = kyk_base58(AddressBytes(h)), stage' = "made"
      PROVE  AllInv'
  <2>1. ~Filed'
    BY <1>5 DEF Filed
  <2>2. Filing' /\ Owned'
    BY <1>1, <2>1, StillNoFile
  <2>3. Keyed'
    <3>. HIDE DEF h
    <3>. QED
      BY <1>1, <1>2, <1>3, <1>4, <1>5 DEF Keyed, FullKey
  <2>4. Addressed'
    BY <1>5 DEF Addressed
  <2>. QED
    BY <1>5, <2>2, <2>3, <2>4 DEF AllInv, Stages
<1>6. CASE PemToAddress
  <2>1. \/ priv' = Filled /\ addr' = kyk_make_address(priv') /\ stage' = "made"
        \/ stage' = "exit" /\ UNCHANGED <<priv, addr>>
    BY <1>6 DEF PemToAddress
  <2>2. CASE priv' = Filled /\ addr' = kyk_make_address(priv') /\ stage' = "made"
    <3>1. addr' = kyk_base58(AddressBytes(h))
      BY <1>4, <2>2
    <3>. QED
      BY <1>5, <2>2, <3>1
  <2>3. CASE stage' = "exit" /\ UNCHANGED <<priv, addr>>
    BY <1>1, <2>3, InvExit
  <2>. QED
    BY <2>1, <2>2, <2>3
<1>7. CASE AddressTest
  <2>1. /\ stage = "test" /\ priv' = Filled /\ stage' = "made"
        /\ addr' = kyk_base58(AddressBytes(Ripemd160(Sha256(Public(key)))))
    BY <1>7 DEF AddressTest
  <2>2. h = PubKeyHash(key)
    BY <1>2, <1>3, <2>1
  <2>3. PubKeyHash(key) = Ripemd160(Sha256(Public(key)))
    BY DEF PubKeyHash, kyk_dgst_hash160
  <2>4. addr' = kyk_base58(AddressBytes(h))
    BY <2>1, <2>2, <2>3
  <2>. QED
    BY <1>5, <2>1, <2>4
<1>. QED
  BY <1>6, <1>7

\* after a key was shown,
LEMMA InvShown ==
    ASSUME AllInv, ShowPriv \/ EcdsaTest
    PROVE  AllInv'
<1>1. ~Filed /\ UNCHANGED <<vars, key, addr, sc>>
  BY DEF Filed, ShowPriv, EcdsaTest
<1>2. key \in PemKeys \cup {0} /\ priv \in Privs /\ addr \in Seq(Nat)
  BY DEF AllInv, Keyed
<1>3. Filled \in Privs /\ (FullKey => Number(Filled, Base) = key)
  BY <1>2, FilledTyped
<1>4. ASSUME priv' = Filled, shown' = HexText(priv'), stage' = "printed"
      PROVE  AllInv'
  <2>1. ~Filed'
    BY <1>4 DEF Filed
  <2>2. Filing' /\ Owned'
    BY <1>1, <2>1, StillNoFile
  <2>3. Keyed'
    BY <1>1, <1>2, <1>3, <1>4 DEF Keyed, FullKey
  <2>4. Addressed'
    BY <1>4 DEF Addressed
  <2>. QED
    BY <1>4, <2>2, <2>3, <2>4 DEF AllInv, Stages
<1>5. \/ priv' = Filled /\ shown' = HexText(priv') /\ stage' = "printed"
      \/ stage' = "exit" /\ UNCHANGED <<priv, shown>>
  BY DEF ShowPriv, EcdsaTest
<1>. QED
  BY <1>1, <1>4, <1>5, InvExit

\* after an address was taken,
LEMMA InvTyped ==
    ASSUME AllInv, TakeAddress \/ ShowScript
    PROVE  AllInv'
<1>1. /\ ~Filed /\ UNCHANGED <<vars, key, priv, addr>> /\ stage' = "typed"
      /\ sc' = pubk_hash_from_address(addr)
  BY DEF Filed, TakeAddress, ShowScript
<1>2. ~Filed'
  BY <1>1 DEF Filed
<1>3. Filing' /\ Owned'
  BY <1>1, <1>2, StillNoFile
<1>4. Keyed'
  BY <1>1 DEF AllInv, Keyed
<1>5. sc'.result = "good" => shown' \in {<<>>, HexText(build_p2pkh_sc_pubk(sc'.hash))}
  <2>1. CASE TakeAddress
    BY <2>1 DEF AllInv, Addressed, TakeAddress
  <2>2. CASE ShowScript
    BY <2>2 DEF ShowScript
  <2>. QED
    BY <2>1, <2>2
<1>6. Addressed'
  BY <1>1, <1>5 DEF Addressed
<1>. QED
  BY <1>1, <1>3, <1>4, <1>6 DEF AllInv, Stages

\* The file of a transaction is written.
LEMMA Saved ==
    ASSUME NoFile, NEW t \in Txs, Len(t.vin) < Quad, Len(t.vout) < Quad, Save(t),
           UNCHANGED <<writer, prog, pc, out, k, i>>,
           kyk_dgst_hash256(SeriTx(t)) \in [1 .. HashSize -> Byte],
           FullKey' => t = GensTx(build_p2pkh_sc_pubk(PubKeyHash(key')))
    PROVE  Filing' /\ Owned'
<1>1. /\ tx' = t /\ rest' = SeriTx(t) /\ fault' = "none" /\ stage' = "written"
      /\ shown' = HexText(kyk_inver_hash(SeriTx(t)))
  BY DEF Save
<1>2. /\ writer' \in Writers /\ prog' = "parse_txout_script_pbk" /\ prog' \in Parsers
      /\ pc' = 1 /\ out' = Blank /\ k' = 0 /\ i' = 0
  BY DEF NoFile, Writers, Parsers, Text
<1>3. Opening'
  BY <1>1, <1>2 DEF Opening
<1>4. Typing' /\ Following' /\ Opened'
  BY <1>3, Written
<1>. QED
  BY <1>1, <1>2, <1>4 DEF Filing, Filed, Owned

\* after the file of kyk_gens_tx was written,
LEMMA InvWrite ==
    ASSUME AllInv, Write
    PROVE  AllInv'
<1>. DEFINE h == PubKeyHash(Number(priv, Base))
            s == build_p2pkh_sc_pubk(h)
            t == GensTx(s)
<1>1. /\ stage = "script" /\ Save(GensTx(build_p2pkh_sc_pubk(sc.hash)))
      /\ UNCHANGED <<writer, prog, pc, out, k, i, key, priv, addr, sc>>
  BY DEF Write
<1>2. NoFile /\ priv \in Privs /\ (FullKey => Number(priv, Base) = key) /\ sc.hash = h
  BY <1>1 DEF AllInv, Filing, Filed, Keyed, Addressed
<1>3. h \in Pkhs
  BY <1>2, OwnAddress
<1>4. s \in Seq(Byte) /\ Len(s) < Quad
  <2>. HIDE DEF h
  <2>1. s \in Seq(Byte) /\ Len(s) = PkhSize + 5 /\ PkhSize \in Nat
    BY <1>3, PayScript
  <2>2. PkhSize <= PushEnd /\ PushEnd <= Base - 4 /\ PushEnd \in Nat
    BY GensTxAssumption, ParseTxAssumption, Powers
       DEF GensTxAssumption, ParseTxAssumption, Tag2
  <2>3. PkhSize + 5 < Quad
    BY <2>1, <2>2, Powers
  <2>. QED
    BY <2>1, <2>3
<1>5. kyk_dgst_hash256(SeriTx(t)) \in [1 .. HashSize -> Byte]
  BY <1>3, HashAssumption DEF HashAssumption
<1>6. Save(t)
  BY <1>1, <1>2
<1>7. FullKey' => t = GensTx(build_p2pkh_sc_pubk(PubKeyHash(key')))
  BY <1>1, <1>2 DEF FullKey
<1>8. stage' = "written"
  BY <1>6 DEF Save
<1>9. Filing' /\ Owned'
  <2>. HIDE DEF s
  <2>1. t \in Txs /\ Len(t.vin) < Quad /\ Len(t.vout) < Quad
    BY <1>4, GensTxTyped
  <2>. HIDE DEF t
  <2>. QED
    BY <1>1, <1>2, <1>5, <1>6, <1>7, <2>1, Saved
<1>10. Keyed'
  BY <1>1, <1>8 DEF AllInv, Keyed, FullKey
<1>11. Addressed'
  BY <1>1, <1>2, <1>8 DEF Addressed
<1>. QED
  BY <1>8, <1>9, <1>10, <1>11 DEF AllInv, Stages

\* after that of kyk_tx0 was, if its texts are what they should be,
LEMMA InvTx0 ==
    ASSUME AllInv, MakeTx0
    PROVE  AllInv'
<1>1. stage = "tx0" /\ UNCHANGED <<writer, prog, pc, out, k, i, key, priv, addr, sc>>
  BY DEF MakeTx0
<1>2. ~Filed /\ NoFile /\ key = 0 /\ sc.result = "none"
  BY <1>1 DEF AllInv, Filing, Filed, Keyed
<1>3. PICK t \in Tx0Texts : IF IsMalformed(Tx0(t))
                            THEN stage' = "exit" /\ UNCHANGED <<tx, rest, fault, shown>>
                            ELSE Save(Tx0(t))
  BY DEF MakeTx0
<1>4. CASE IsMalformed(Tx0(t))
  BY <1>1, <1>2, <1>3, <1>4, InvExit DEF vars
<1>5. CASE ~IsMalformed(Tx0(t))
  <2>. DEFINE u == Tx0(t)
  <2>1. Save(u) /\ kyk_dgst_hash256(SeriTx(u)) \in [1 .. HashSize -> Byte]
    BY <1>3, <1>5, HashAssumption DEF HashAssumption
  <2>2. u \in Txs /\ Len(u.vin) < Quad /\ Len(u.vout) < Quad
    BY <1>5, Tx0Typed
  <2>3. ~FullKey'
    BY <1>1, <1>2, NoKey DEF FullKey
  <2>4. stage' = "written"
    BY <2>1 DEF Save
  <2>. HIDE DEF u
  <2>5. Filing' /\ Owned'
    BY <1>1, <1>2, <2>1, <2>2, <2>3, Saved
  <2>6. Keyed'
    BY <1>1, <2>3, <2>4 DEF AllInv, Keyed
  <2>7. Addressed'
    BY <1>1, <1>2, <2>4 DEF Addressed
  <2>. QED
    BY <2>4, <2>5, <2>6, <2>7 DEF AllInv, Stages
<1>. QED
  BY <1>4, <1>5

\* after each read of a parser,
LEMMA InvParse ==
    ASSUME AllInv, Parse
    PROVE  AllInv'
<1>1. /\ stage \in {"written", "other"} /\ Step
      /\ UNCHANGED <<key, priv, addr, sc, shown, stage>>
  BY DEF Parse, gensVars
<1>2. Typing /\ Following /\ Opened
  BY <1>1 DEF AllInv, Filing, Filed
<1>3. Typing' /\ Following' /\ Opened'
  BY <1>1, <1>2, TypingStep, FollowStep, OpenedStep
<1>4. UNCHANGED <<writer, tx, prog>>
  BY <1>1, StepKeeps
<1>5. Filing'
  BY <1>1, <1>3 DEF Filing, Filed
<1>6. Keyed' /\ Addressed'
  BY <1>1 DEF AllInv, Keyed, Addressed, FullKey
<1>7. Owned'
  BY <1>1, <1>4 DEF AllInv, Owned, FullKey
<1>. QED
  BY <1>1, <1>5, <1>6, <1>7 DEF AllInv

\* and when nothing happens.
LEMMA InvStays ==
    ASSUME AllInv, UNCHANGED allVars
    PROVE  AllInv'
<1>1. /\ UNCHANGED <<writer, tx, prog, pc, rest, out, k, i, fault>>
      /\ UNCHANGED <<key, priv, addr, sc, shown, stage>>
  BY DEF allVars, vars, gensVars
<1>2. NoFile => NoFile'
  BY <1>1 DEF NoFile
<1>3. Typing => Typing'
  BY <1>1 DEF Typing, Done, Last
<1>4. Opened => Opened'
  BY <1>1 DEF Opened
<1>5. Following => Following'
  <2>1. Readable' => Readable
    BY <1>1 DEF Readable, ReadableSig
  <2>2. Place => Place'
    BY <1>1 DEF Place
  <2>3. Fields => Fields'
    <3>1. \A f \in DOMAIN Pos : Right(f)' = Right(f)
      BY <1>1 DEF Right
    <3>2. \A p : Done(p)' <=> Done(p)
      BY <1>1 DEF Done
    <3>3. SigShown(tx.vin[1])' <=> SigShown(tx.vin[1])
      BY <1>1 DEF SigShown
    <3>. QED
      BY <1>1, <3>1, <3>2, <3>3 DEF Fields
  <2>4. Listed => Listed'
    BY <1>1 DEF Listed, Done, Last
  <2>5. Scanned => Scanned'
    BY <1>1 DEF Scanned, Last
  <2>. QED
    BY <1>1, <2>1, <2>2, <2>3, <2>4, <2>5 DEF Following
<1>6. Filing'
  BY <1>1, <1>2, <1>3, <1>4, <1>5 DEF AllInv, Filing, Filed
<1>7. Keyed' /\ Addressed'
  BY <1>1 DEF AllInv, Keyed, Addressed, FullKey
<1>8. Owned'
  BY <1>1 DEF AllInv, Owned, FullKey
<1>. QED
  BY <1>1, <1>6, <1>7, <1>8 DEF AllInv

\* Every step of every program keeps the invariant.
LEMMA AllInvStep ==
    ASSUME AllInv, [AllNext]_allVars
    PROVE  AllInv'
<1>1. CASE UNCHANGED allVars \/ AllEnded
  BY <1>1, InvStays DEF AllEnded
<1>2. CASE \/ GetPriv \/ GetPrivFails \/ MakeAddress \/ PemToAddress \/ AddressTest
           \/ TakeAddress \/ ShowPriv \/ EcdsaTest \/ ShowScript \/ Write \/ MakeTx0 \/ Parse
  BY <1>2, InvGetPriv, InvMakeAddress, InvMade, InvShown, InvTyped, InvWrite, InvTx0, InvParse
<1>. QED
  BY <1>1, <1>2 DEF AllNext

\* The invariant holds of the programs and the parsers.
LEMMA AllInvCorrect == AllSpec => []AllInv
<1>1. GensInit \/ OtherInit \/ TextInit \/ Tx0Init => AllInv
  BY AllInvInit
<1>2. AllInv /\ [AllNext]_allVars => AllInv'
  BY AllInvStep
<1>. QED
  BY <1>1, <1>2, PTL DEF AllSpec

------------------------------------------------------------------------------
(* What the invariant says of them. *)

\* What the invariant says of the types and of what is read.
LEMMA AllReads ==
    ASSUME AllInv
    PROVE  TypeOK /\ ReadsBack
<1>1. CASE Filed
  BY <1>1, TypingTypes, ReadingReads DEF AllInv, Filing
<1>2. CASE ~Filed
  BY <1>2, NoFileReads DEF AllInv, Filing
<1>. QED
  BY <1>1, <1>2

\* What it says of an address that was taken.
LEMMA AllTaken ==
    ASSUME AllInv
    PROVE  TakenAddressPays
<1>. SUFFICES ASSUME stage = "typed", sc.result = "good"
              PROVE  /\ shown # <<>> =>
                            Column("txout-sc-pubkey:hex", shown) = build_p2pkh_sc_pubk(sc.hash)
                     /\ \E v \in Byte :
                            LET bytes == <<v>> \o sc.hash
                            IN  WithoutOnes(addr)
                                    = WithoutOnes(kyk_base58(bytes \o get_checksum(bytes)))
  BY DEF TakenAddressPays
<1>1. /\ addr \in Seq(Nat) /\ sc = pubk_hash_from_address(addr)
      /\ shown \in {<<>>, HexText(build_p2pkh_sc_pubk(sc.hash))}
  BY DEF AllInv, Keyed, Addressed
<1>2. /\ sc.hash \in Pkhs
      /\ \E v \in Byte :
             LET bytes == <<v>> \o sc.hash
             IN  WithoutOnes(addr) = WithoutOnes(kyk_base58(bytes \o get_checksum(bytes)))
  BY <1>1, AddressTaken
<1>3. ASSUME shown # <<>>
      PROVE  Column("txout-sc-pubkey:hex", shown) = build_p2pkh_sc_pubk(sc.hash)
  <2>. DEFINE s == build_p2pkh_sc_pubk(sc.hash)
  <2>1. s \in Seq(Byte)
    BY <1>2, PayScript
  <2>2. shown = HexText(s)
    BY <1>1, <1>3
  <2>. HIDE DEF s
  <2>3. kyk_alloc_hex(HexText(s)) = s
    BY <2>1, HexRead
  <2>4. Column("txout-sc-pubkey:hex", shown) = kyk_alloc_hex(shown)
    BY ColumnBytes
  <2>. QED
    BY <2>2, <2>3, <2>4 DEF s
<1>. QED
  BY <1>2, <1>3

\* A txid that is shown is read as the hash it is the text of.
LEMMA TxidRead ==
    ASSUME NEW b, kyk_dgst_hash256(b) \in [1 .. HashSize -> Byte]
    PROVE  LET txin == [pre_txid |-> hexstr_to_bytes(HexText(kyk_inver_hash(b)), HashSize),
                        pre_tx_inx |-> 0, sc_size |-> 0, sc |-> <<>>, seq_no |-> 0]
           IN  SubSeq(SeriTxin(txin), 1, HashSize) = kyk_dgst_hash256(b)
<1>. DEFINE h == kyk_dgst_hash256(b)
            r == Reversed(h)
<1>1. h \in Seq(Byte) /\ Len(h) = HashSize /\ HashSize \in Nat
  BY Widths, NSeq
<1>2. kyk_inver_hash(b) = r
  BY DEF kyk_inver_hash, kyk_dble_sha256, kyk_dgst_hash256
<1>. HIDE DEF h
<1>3. r \in Seq(Byte) /\ Len(r) = HashSize /\ Reversed(r) = h
  BY <1>1, Turned
<1>. HIDE DEF r
<1>4. hexstr_to_bytes(HexText(r), HashSize) = r
  BY <1>3, HexRead
<1>. DEFINE txin == [pre_txid |-> r, pre_tx_inx |-> 0, sc_size |-> 0, sc |-> <<>>, seq_no |-> 0]
<1>5. txin \in Txins
  <2>1. r \in [1 .. HashSize -> Byte]
    BY <1>3, SeqN
  <2>2. 0 \in 0 .. Long - 1 /\ 0 \in 0 .. Quad - 1 /\ <<>> \in Seq(Byte)
    BY Powers
  <2>. QED
    BY <2>1, <2>2 DEF Txins
<1>6. txin.pre_txid = r
  OBVIOUS
<1>. HIDE DEF txin
<1>7. SeriTxin(txin) = h \o Txin2(txin) /\ Txin2(txin) \in Seq(Byte)
  BY <1>3, <1>5, <1>6, TxinBytes DEF Txin1
<1>8. SubSeq(SeriTxin(txin), 1, HashSize) = h
  <2>. DEFINE z == Txin2(txin)
  <2>1. z \in Seq(Byte) /\ SeriTxin(txin) = h \o z
    BY <1>7
  <2>. HIDE DEF z
  <2>2. SubSeq(h \o z, 1, Len(h)) = h
    BY <1>1, <2>1, Parts
  <2>. QED
    BY <1>1, <2>1, <2>2
<1>. QED
  BY <1>2, <1>4, <1>8 DEF txin, h

\* What it says of a txid.
LEMMA AllTxids ==
    ASSUME AllInv
    PROVE  TxidNames
<1>. SUFFICES ASSUME stage = "written"
              PROVE  LET txin == [pre_txid |-> hexstr_to_bytes(shown, HashSize), pre_tx_inx |-> 0,
                                  sc_size |-> 0, sc |-> <<>>, seq_no |-> 0]
                     IN  SubSeq(SeriTxin(txin), 1, HashSize) = kyk_dgst_hash256(SeriTx(tx))
  BY DEF TxidNames
<1>1. /\ kyk_dgst_hash256(SeriTx(tx)) \in [1 .. HashSize -> Byte]
      /\ shown = HexText(kyk_inver_hash(SeriTx(tx)))
  BY DEF AllInv, Owned
<1>. QED
  BY <1>1, TxidRead

\* The type invariant.
THEOREM AllTypeCorrect == AllSpec => []TypeOK
<1>1. AllInv => TypeOK
  BY AllReads
<1>. QED
  BY <1>1, AllInvCorrect, PTL

\* What either serialiser has written, every parser shows, for all transactions it can read:
\* every field as it was written, every script opcode by opcode, no read past the end of the
\* file, no write past the end of an array.
THEOREM AllReadsBackCorrect == AllSpec => []ReadsBack
<1>1. AllInv => ReadsBack
  BY AllReads
<1>. QED
  BY <1>1, AllInvCorrect, PTL

\* An address is taken only when it is the address of the hash that the script pays, but for
\* the ones it begins with, for addresses of any length and whatever the hash functions are.
THEOREM TakenAddressPaysCorrect == AllSpec => []TakenAddressPays
<1>1. AllInv => TakenAddressPays
  BY AllTaken
<1>. QED
  BY <1>1, AllInvCorrect, PTL

------------------------------------------------------------------------------
(* Whom the transaction pays. *)

\* A byte of a script that is an opcode.
LEMMA OpAlone ==
    ASSUME NEW s \in Seq(Byte), NEW j \in 1 .. Len(s), s[j] \in Opcodes \ 0 .. PushEnd
    PROVE  OpSize(s[j]) = 1 /\ Entry(SubSeq(s, j, j)).op = s[j]
<1>1. s[j] \in Nat /\ PushEnd \in Nat
  BY Powers, ParseTxAssumption DEF Byte, ParseTxAssumption, Tag2
<1>2. ~IsPush(s[j])
  <2>. DEFINE op == s[j]
  <2>1. ~(op \in 0 .. PushEnd) /\ op \in Nat
    BY <1>1
  <2>. HIDE DEF op
  <2>2. ~(op >= 1 /\ op <= PushEnd)
    BY <1>1, <2>1
  <2>. QED
    BY <2>2 DEF IsPush, op
<1>. DEFINE z == SubSeq(s, j, j)
<1>3. z[1] = s[j]
  <2>1. \A m \in 1 .. j + 1 - j : z[m] = s[j + m - 1]
    <3>1. j \in 1 .. Len(s) + 1 /\ j \in j - 1 .. Len(s)
      OBVIOUS
    <3>. QED
      BY <3>1, Piece
  <2>. HIDE DEF z
  <2>2. 1 \in 1 .. j + 1 - j /\ j + 1 - 1 = j
    OBVIOUS
  <2>. QED
    BY <2>1, <2>2
<1>. HIDE DEF z
<1>4. Entry(z).op = s[j]
  BY <1>2, <1>3 DEF Entry
<1>. QED
  BY <1>2, <1>4 DEF OpSize, z

\* There is a push at place j, and h behind it.
Pushes(s, j, h) ==
    /\ s[j] \in 1 .. PushEnd /\ j + s[j] <= Len(s) /\ Len(h) = s[j]
    /\ \A m \in 1 .. Len(h) : s[j + m] = h[m]

\* Of a push, its size and its entry.
LEMMA PushAlone ==
    ASSUME NEW s \in Seq(Byte), NEW j \in 1 .. Len(s), NEW h \in Seq(Byte), Pushes(s, j, h)
    PROVE  /\ OpSize(s[j]) = s[j] + 1
           /\ Entry(SubSeq(s, j, j + s[j])).op = 0 /\ Entry(SubSeq(s, j, j + s[j])).data = h
<1>1. s[j] \in Nat /\ PushEnd \in Nat
  BY ParseTxAssumption, Powers DEF ParseTxAssumption, Tag2, Pushes
<1>2. IsPush(s[j])
  BY <1>1 DEF IsPush, Pushes
<1>. DEFINE n == s[j]
            z == SubSeq(s, j, j + n)
<1>3. n \in Nat /\ j + n <= Len(s) /\ Len(h) = n /\ \A m \in 1 .. n : s[j + m] = h[m]
  BY <1>1 DEF Pushes
<1>4. z \in Seq(Byte) /\ Len(z) = n + 1 /\ \A m \in 1 .. n + 1 : z[m] = s[j + m - 1]
  <2>. HIDE DEF n
  <2>. DEFINE e == j + n
  <2>1. j \in 1 .. Len(s) + 1 /\ e \in j - 1 .. Len(s) /\ e + 1 - j = n + 1
    BY <1>3
  <2>2. z = SubSeq(s, j, e)
    OBVIOUS
  <2>. HIDE DEF e, z
  <2>3. /\ SubSeq(s, j, e) \in Seq(Byte) /\ Len(SubSeq(s, j, e)) = e + 1 - j
        /\ \A m \in 1 .. e + 1 - j : SubSeq(s, j, e)[m] = s[j + m - 1]
    BY <2>1, Piece
  <2>. QED
    BY <2>1, <2>2, <2>3
<1>. HIDE DEF z
<1>5. z[1] = s[j]
  <2>1. 1 \in 1 .. n + 1 /\ j + 1 - 1 = j
    BY <1>3
  <2>. QED
    BY <1>4, <2>1
<1>. HIDE DEF n
<1>6. Tail(z) = h
  <2>1. Tail(z) \in Seq(Byte) /\ Len(Tail(z)) = n /\ \A m \in 1 .. n : Tail(z)[m] = z[m + 1]
    BY <1>3, <1>4
  <2>2. \A m \in 1 .. n : z[m + 1] = h[m]
    <3>. SUFFICES ASSUME NEW m \in 1 .. n PROVE z[m + 1] = h[m]
      OBVIOUS
    <3>1. m + 1 \in 1 .. n + 1 /\ j + (m + 1) - 1 = j + m
      BY <1>3
    <3>. QED
      BY <1>3, <1>4, <3>1
  <2>. QED
    BY <1>3, <2>1, <2>2, SeqEqual
<1>7. Entry(z).op = 0 /\ Entry(z).data = h
  BY <1>2, <1>5, <1>6 DEF Entry
<1>. QED
  BY <1>2, <1>7 DEF OpSize, z, n

\* The script that pays a hash has five opcodes; the third is a push of the hash.
LEMMA PayOps ==
    ASSUME NEW h \in Pkhs
    PROVE  LET s == build_p2pkh_sc_pubk(h)
               c == CutsOf(s, 5)
           IN  /\ HasOps(s, 5)
               /\ Entry(SubSeq(s, c[0] + 1, c[1])).op = OpDup
               /\ Entry(SubSeq(s, c[1] + 1, c[2])).op = OpHash160
               /\ Entry(SubSeq(s, c[2] + 1, c[3])).op = 0
               /\ Entry(SubSeq(s, c[2] + 1, c[3])).data = h
               /\ Entry(SubSeq(s, c[3] + 1, c[4])).op = OpEqualVerify
               /\ Entry(SubSeq(s, c[4] + 1, c[5])).op = OpCheckSig
<1>. DEFINE s == build_p2pkh_sc_pubk(h)
            c == CutsOf(s, 5)
            P == PkhSize
<1>1. /\ s \in Seq(Byte) /\ Len(s) = P + 5 /\ P \in Nat \ {0}
      /\ s[1] = OpDup /\ s[2] = OpHash160 /\ s[3] = P
      /\ \A j \in 1 .. P : s[3 + j] = h[j]
      /\ s[P + 4] = OpEqualVerify /\ s[P + 5] = OpCheckSig
  BY PayScript
<1>2. h \in Seq(Byte) /\ Len(h) = P
  BY <1>1, NSeq DEF Pkhs
<1>3. /\ P \in 1 .. PushEnd
      /\ {OpDup, OpHash160, OpEqualVerify, OpCheckSig} \subseteq Opcodes \ 0 .. PushEnd
  BY GensTxAssumption DEF GensTxAssumption
<1>. HIDE DEF s, P
<1>4. 1 \in 1 .. Len(s) /\ 2 \in 1 .. Len(s) /\ 3 \in 1 .. Len(s) /\ P + 4 \in 1 .. Len(s)
      /\ P + 5 \in 1 .. Len(s)
  BY <1>1
<1>5. OpSize(s[1]) = 1 /\ Entry(SubSeq(s, 1, 1)).op = OpDup
  BY <1>1, <1>3, <1>4, OpAlone
<1>6. OpSize(s[2]) = 1 /\ Entry(SubSeq(s, 2, 2)).op = OpHash160
  BY <1>1, <1>3, <1>4, OpAlone
<1>7. /\ OpSize(s[3]) = P + 1
      /\ Entry(SubSeq(s, 3, 3 + P)).op = 0 /\ Entry(SubSeq(s, 3, 3 + P)).data = h
  <2>1. Pushes(s, 3, h)
    BY <1>1, <1>2, <1>3 DEF Pushes
  <2>2. /\ OpSize(s[3]) = s[3] + 1
        /\ Entry(SubSeq(s, 3, 3 + s[3])).op = 0 /\ Entry(SubSeq(s, 3, 3 + s[3])).data = h
    BY <1>1, <1>2, <1>4, <2>1, PushAlone
  <2>. QED
    BY <1>1, <2>2
<1>8. OpSize(s[P + 4]) = 1 /\ Entry(SubSeq(s, P + 4, P + 4)).op = OpEqualVerify
  BY <1>1, <1>3, <1>4, OpAlone
<1>9. OpSize(s[P + 5]) = 1 /\ Entry(SubSeq(s, P + 5, P + 5)).op = OpCheckSig
  BY <1>1, <1>3, <1>4, OpAlone
<1>10. /\ c[0] = 0
       /\ \A j \in 1 .. 5 : c[j] = NextCut(s, c[j - 1])
  <2>1. s \in Seq(Byte) /\ 5 \in Nat
    BY <1>1
  <2>. QED
    BY <2>1, CutsDef, Zenon
<1>. HIDE DEF c
<1>11. c[1] = 1
  <2>1. 1 \in 1 .. 5 /\ 1 - 1 = 0 /\ 0 < Len(s) /\ 0 + 1 = 1
    BY <1>1
  <2>2. c[1] = NextCut(s, 0)
    BY <1>10, <2>1
  <2>. QED
    BY <1>5, <2>1, <2>2 DEF NextCut
<1>12. c[2] = 2
  <2>1. 2 \in 1 .. 5 /\ 2 - 1 = 1 /\ 1 < Len(s) /\ 1 + 1 = 2
    BY <1>1
  <2>2. c[2] = NextCut(s, 1)
    BY <1>10, <1>11, <2>1
  <2>. QED
    BY <1>6, <2>1, <2>2 DEF NextCut
<1>13. c[3] = P + 3
  <2>1. 3 \in 1 .. 5 /\ 3 - 1 = 2 /\ 2 < Len(s) /\ 2 + 1 = 3
    BY <1>1
  <2>2. c[3] = NextCut(s, 2)
    BY <1>10, <1>12, <2>1
  <2>3. c[3] = 2 + (P + 1)
    BY <1>7, <2>1, <2>2 DEF NextCut
  <2>. QED
    BY <1>1, <2>3
<1>14. c[4] = P + 4
  <2>1. 4 \in 1 .. 5 /\ 4 - 1 = 3 /\ P + 3 < Len(s) /\ (P + 3) + 1 = P + 4
    BY <1>1
  <2>2. c[4] = NextCut(s, P + 3)
    BY <1>10, <1>13, <2>1
  <2>3. c[4] = (P + 3) + 1
    BY <1>8, <2>1, <2>2 DEF NextCut
  <2>. QED
    BY <1>1, <2>3
<1>15. c[5] = P + 5
  <2>1. 5 \in 1 .. 5 /\ 5 - 1 = 4 /\ P + 4 < Len(s) /\ (P + 4) + 1 = P + 5
    BY <1>1
  <2>2. c[5] = NextCut(s, P + 4)
    BY <1>10, <1>14, <2>1
  <2>3. c[5] = (P + 4) + 1
    BY <1>9, <2>1, <2>2 DEF NextCut
  <2>. QED
    BY <1>1, <2>3
<1>16. HasOps(s, 5)
  BY <1>1, <1>15 DEF HasOps, c
<1>17. /\ c[0] + 1 = 1 /\ c[1] + 1 = 2 /\ c[2] + 1 = 3 /\ c[3] = 3 + P /\ c[3] + 1 = P + 4
       /\ c[4] + 1 = P + 5
  BY <1>1, <1>10, <1>11, <1>12, <1>13, <1>14
<1>18. /\ HasOps(s, 5)
       /\ Entry(SubSeq(s, c[0] + 1, c[1])).op = OpDup
       /\ Entry(SubSeq(s, c[1] + 1, c[2])).op = OpHash160
       /\ Entry(SubSeq(s, c[2] + 1, c[3])).op = 0
       /\ Entry(SubSeq(s, c[2] + 1, c[3])).data = h
       /\ Entry(SubSeq(s, c[3] + 1, c[4])).op = OpEqualVerify
       /\ Entry(SubSeq(s, c[4] + 1, c[5])).op = OpCheckSig
  BY <1>5, <1>6, <1>7, <1>8, <1>9, <1>11, <1>12, <1>14, <1>15, <1>16, <1>17, Zenon
<1>. QED
  BY <1>18 DEF c, s

\* A parser has shown the script that pays a hash.
LEMMA PaidShown ==
    ASSUME NEW h \in Pkhs, NEW ops \in Seq(Entries), Parsed(ops, build_p2pkh_sc_pubk(h))
    PROVE  /\ [j \in 1 .. 5 |-> ops[j].op] = <<OpDup, OpHash160, 0, OpEqualVerify, OpCheckSig>>
           /\ ops[3].data = h
<1>. DEFINE s == build_p2pkh_sc_pubk(h)
            c == CutsOf(s, 5)
<1>1. s \in Seq(Byte) /\ Len(ops) \in Nat
  BY PayScript
<1>2. HasOps(s, 5)
  BY PayOps
<1>3. /\ Entry(SubSeq(s, c[0] + 1, c[1])).op = OpDup
      /\ Entry(SubSeq(s, c[1] + 1, c[2])).op = OpHash160
      /\ Entry(SubSeq(s, c[2] + 1, c[3])).op = 0
      /\ Entry(SubSeq(s, c[2] + 1, c[3])).data = h
      /\ Entry(SubSeq(s, c[3] + 1, c[4])).op = OpEqualVerify
      /\ Entry(SubSeq(s, c[4] + 1, c[5])).op = OpCheckSig
  BY PayOps
<1>4. Parsed(ops, s)
  OBVIOUS
<1>. HIDE DEF s
<1>5. Len(ops) = 5
  <2>. DEFINE m == Len(ops)
  <2>1. HasOps(s, m) /\ m \in Nat
    BY <1>1, <1>4 DEF Parsed
  <2>. HIDE DEF m
  <2>2. CutsOf(s, m)[m] = Len(s)
    BY <2>1 DEF HasOps
  <2>3. /\ m < 5 => CutsOf(s, m)[m] < Len(s)
        /\ m > 5 => CutsOf(s, m)[m] > Len(s)
    BY <1>1, <1>2, <2>1, CutsInside
  <2>4. m = 5
    BY <1>1, <2>1, <2>2, <2>3
  <2>. QED
    BY <2>4 DEF m
<1>6. \A j \in 1 .. 5 : ops[j] = Entry(SubSeq(s, c[j - 1] + 1, c[j]))
  BY <1>4, <1>5, Zenon DEF Parsed
<1>. HIDE DEF c
<1>7. /\ ops[1].op = OpDup /\ ops[2].op = OpHash160 /\ ops[3].op = 0 /\ ops[3].data = h
      /\ ops[4].op = OpEqualVerify /\ ops[5].op = OpCheckSig
  <2>1. /\ 1 \in 1 .. 5 /\ 2 \in 1 .. 5 /\ 3 \in 1 .. 5 /\ 4 \in 1 .. 5 /\ 5 \in 1 .. 5
        /\ 1 - 1 = 0 /\ 2 - 1 = 1 /\ 3 - 1 = 2 /\ 4 - 1 = 3 /\ 5 - 1 = 4
    OBVIOUS
  <2>2. /\ ops[1] = Entry(SubSeq(s, c[0] + 1, c[1])) /\ ops[2] = Entry(SubSeq(s, c[1] + 1, c[2]))
        /\ ops[3] = Entry(SubSeq(s, c[2] + 1, c[3])) /\ ops[4] = Entry(SubSeq(s, c[3] + 1, c[4]))
        /\ ops[5] = Entry(SubSeq(s, c[4] + 1, c[5]))
    BY <1>6, <2>1
  <2>. QED
    BY <1>3, <2>2, Zenon
<1>8. [j \in 1 .. 5 |-> ops[j].op] = <<OpDup, OpHash160, 0, OpEqualVerify, OpCheckSig>>
  BY <1>7
<1>. QED
  BY <1>7, <1>8

\* The transaction kyk_gens_tx makes is one the last of the parsers reads right.
LEMMA OwnReadable ==
    ASSUME NEW h \in Pkhs, tx = GensTx(build_p2pkh_sc_pubk(h)), prog = "parse_txout_script_pbk"
    PROVE  /\ Readable /\ Len(tx.vout) = 1 /\ tx.vout[1].value = GensValue
           /\ tx.vout[1].sc = build_p2pkh_sc_pubk(h)
<1>. DEFINE s == build_p2pkh_sc_pubk(h)
<1>1. s \in Seq(Byte) /\ Len(s) = PkhSize + 5 /\ PkhSize \in Nat
  BY PayScript
<1>2. PkhSize <= PushEnd /\ PushEnd <= Base - 4 /\ PushEnd \in Nat
  BY GensTxAssumption, ParseTxAssumption, Powers DEF GensTxAssumption, ParseTxAssumption, Tag2
<1>3. Len(s) < Quad
  <2>. HIDE DEF s
  <2>. QED
    BY <1>1, <1>2, Powers
<1>4. HasOps(s, 5)
  BY PayOps
<1>5. StackSize \in Nat /\ StackSize >= 5 /\ 2 * Len(make_coinbase) < SigBufSize
  BY ParseTxAssumption, GensTxAssumption DEF ParseTxAssumption, GensTxAssumption
<1>6. tx = GensTx(s)
  OBVIOUS
<1>. HIDE DEF s
<1>7. /\ Created(tx) /\ Len(tx.vin) = 1 /\ Len(tx.vout) = 1 /\ tx \in Txs
      /\ tx.vin[1].pre_tx_inx = Long - 1 /\ tx.vin[1].pre_txid = Zeros(HashSize)
      /\ tx.vin[1].sc_size = Len(make_coinbase)
      /\ tx.vout[1].value = GensValue /\ tx.vout[1].sc = s
  BY <1>1, <1>3, <1>6, GensTxTyped
<1>8. ReadableSig(tx.vin[1])
  BY <1>5, <1>7 DEF ReadableSig, IsCoinbase, Zeros
<1>9. ReadableScript(s)
  <2>1. 5 \in 1 .. StackSize
    BY <1>5
  <2>. QED
    BY <1>4, <2>1 DEF ReadableScript
<1>10. \A j \in DOMAIN tx.vout : ReadableScript(tx.vout[j].sc)
  <2>1. DOMAIN tx.vout = {1}
    <3>1. tx.vout \in Seq(Txouts)
      BY <1>7, TxFields
    <3>. QED
      BY <1>7, <3>1
  <2>. QED
    BY <1>7, <1>9, <2>1
<1>11. Readable
  BY <1>7, <1>8, <1>10 DEF Readable
<1>. QED
  BY <1>7, <1>11 DEF s

\* What the invariant says of whom the transaction pays.
LEMMA AllPays ==
    ASSUME AllInv
    PROVE  PaysOwner
<1>1. priv \in Privs /\ Len(Text[prog]) \in 1 .. 11
  <2>1. prog \in Parsers
    BY AllReads DEF TypeOK
  <2>. QED
    BY <2>1, Lengths DEF AllInv, Keyed
<1>. DEFINE h == PubKeyHash(Number(priv, Base))
<1>2. TxidNames
  BY AllTxids
<1>3. stage # "crash"
  BY DEF AllInv, Stages
<1>4. sc.result = "good" /\ stage \in {"script", "written"} => sc.hash = h
  BY DEF AllInv, Addressed
<1>5. ASSUME stage = "made" PROVE pubk_hash_from_address(addr) = [result |-> "good", hash |-> h]
  BY <1>1, <1>5, OwnAddress DEF AllInv, Addressed
<1>6. ASSUME stage = "printed", FullKey PROVE Number(kyk_alloc_hex(shown), Base) = key
  <2>1. shown = HexText(priv) /\ Number(priv, Base) = key
    BY <1>6 DEF AllInv, Addressed, Keyed
  <2>2. priv \in Seq(Byte)
    <3>1. KeySize \in Nat
      BY AddressAssumption DEF AddressAssumption
    <3>. QED
      BY <1>1, <3>1, NSeq DEF Privs
  <2>3. kyk_alloc_hex(HexText(priv)) = priv
    BY <2>2, HexRead
  <2>. QED
    BY <2>1, <2>3
<1>7. ASSUME stage = "written", pc > Len(Text[prog]), FullKey
      PROVE  /\ fault \in {"none", "unset"}
             /\ out.txouts[1].value = GensValue
             /\ [j \in 1 .. 5 |-> out.txouts[1].ops[j].op]
                    = <<OpDup, OpHash160, 0, OpEqualVerify, OpCheckSig>>
             /\ out.txouts[1].ops[3].data = PubKeyHash(key)
  <2>1. /\ Typing /\ Following /\ Number(priv, Base) = key
        /\ prog = "parse_txout_script_pbk"
        /\ tx = GensTx(build_p2pkh_sc_pubk(PubKeyHash(key)))
    BY <1>7 DEF AllInv, Filing, Filed, Keyed, Owned
  <2>. DEFINE g == PubKeyHash(key)
  <2>2. g \in Pkhs
    BY <1>1, <2>1, OwnAddress
  <2>. HIDE DEF g
  <2>3. /\ Readable /\ Len(tx.vout) = 1 /\ tx.vout[1].value = GensValue
        /\ tx.vout[1].sc = build_p2pkh_sc_pubk(g)
    BY <2>1, <2>2, OwnReadable DEF g
  <2>4. fault \in {"none", "unset"} /\ Listed
    BY <2>1, <2>3 DEF Following
  <2>5. k = 1 /\ 1 <= Last
    <3>1. prog \in Parsers /\ pc \in Nat /\ Len(Text[prog]) = 11
      BY <2>1, Lengths DEF Typing
    <3>2. pc >= 11
      BY <1>7, <3>1
    <3>3. k = Len(tx.vout) /\ k <= Last
      BY <2>1, <2>4, <3>2 DEF Listed
    <3>. QED
      BY <2>3, <3>3
  <2>6. out.txouts[1].value = GensValue /\ Parsed(out.txouts[1].ops, build_p2pkh_sc_pubk(g))
    <3>1. 1 \in 1 .. k
      BY <2>5
    <3>2. out.txouts[1].value = tx.vout[1].value /\ Parsed(out.txouts[1].ops, tx.vout[1].sc)
      BY <2>1, <2>4, <3>1 DEF Listed
    <3>. QED
      BY <2>3, <3>2, Zenon
  <2>7. out.txouts[1].ops \in Seq(Entries)
    <3>1. out.txouts \in Seq(Shown)
      BY <2>1 DEF Typing, Variables
    <3>2. out.txouts[1] \in Shown
      BY <2>5, <3>1, ElementOfSeq DEF Last
    <3>. QED
      BY <3>2 DEF Shown
  <2>. DEFINE ops == out.txouts[1].ops
  <2>8. ops \in Seq(Entries) /\ Parsed(ops, build_p2pkh_sc_pubk(g))
    BY <2>6, <2>7
  <2>. HIDE DEF ops
  <2>9. /\ [j \in 1 .. 5 |-> ops[j].op] = <<OpDup, OpHash160, 0, OpEqualVerify, OpCheckSig>>
        /\ ops[3].data = g
    BY <2>2, <2>8, PaidShown
  <2>. QED
    BY <2>4, <2>6, <2>9 DEF ops, g
<1>. QED
  BY <1>2, <1>3, <1>4, <1>5, <1>6, <1>7 DEF PaysOwner

\* What the last of the parsers shows of the file kyk_gens_tx wrote pays the key of the PEM
\* file, if it fills priv, whatever the key and the hash functions are; the address made on
\* the way is always read again, and a txid names the transaction.
THEOREM PaysOwnerCorrect == AllSpec => []PaysOwner
<1>1. AllInv => PaysOwner
  BY AllPays
<1>. QED
  BY <1>1, AllInvCorrect, PTL
==============================================================================
