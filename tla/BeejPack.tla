------------------------------ MODULE BeejPack ------------------------------
(***************************************************************************)
(* beej_pack.c: numbers and strings are put into a buffer, and taken out of   *)
(* it, as the characters of a format say.  A format is a sequence of          *)
(* characters, each a string; an integer is its value, and a floating point   *)
(* number what the loops of pack754 have normalised it to, (1 + frac / 2 ^    *)
(* Precision) * 2 ^ shift, or Zero.                                           *)
(***************************************************************************)
EXTENDS Bytes

CONSTANTS ByteBits,  \* bits of a byte (8)
          ExpBits,   \* of each floating point format its exponent's bits: 5, 8, 11
          Precision  \* bits behind the point of a normalised number

\* 1 << n.
Bit(n) ==
    LET b[j \in 0 .. n] == IF j = 0 THEN 1 ELSE 2 * b[j - 1]
    IN  b[n]

Orders  == {"<", ">"}
Signed  == {"c", "h", "l", "q"}
Floats  == {"f", "d", "g"}
Fields  == Signed \cup {"C", "H", "L", "Q"} \cup Floats
Numeral == <<"0", "1", "2", "3", "4", "5", "6", "7", "8", "9">>

\* The bytes of a field in the buffer, and how many values they have.
Width(ch) ==
    CASE ch \in {"c", "C"} -> 1 [] ch \in {"h", "H", "f"} -> 2 [] ch \in {"l", "L", "d"} -> 4
      [] ch \in {"q", "Q", "g"} -> 8

Space(ch) == CASE Width(ch) = 1 -> Base [] Width(ch) = 2 -> Short [] Width(ch) = 4 -> Long
               [] Width(ch) = 8 -> Quad

\* The bytes of the integer beej_unpack stores a field in: an int for two, a long for four.
StoreWidth(ch) == CASE Width(ch) = 1 -> 1 [] Width(ch) = 2 -> 4 [] OTHER -> 8

\* In order ord, the bytes of n, and the number of the bytes s; no order is the network's.
Ordered(n, w, ord) == IF ord = "<" THEN LE(n, w) ELSE BE(n, w)
Value(s, ord)      == Num(IF ord = "<" THEN s ELSE Reversed(s))

\* Mutated: 0x80, 0x8000, ... are positive.
Bad_Resigned(n, ch) ==
    IF ch \in Signed /\ 2 * n > Space(ch) THEN n - Space(ch) ELSE n

\* What is above 0x7f, 0x7fff, ... is negative.
Resigned(n, ch) == IF ch \in Signed /\ 2 * n >= Space(ch) THEN n - Space(ch) ELSE n

------------------------------------------------------------------------------
(* Floating point numbers. *)

Zero == [neg |-> FALSE, frac |-> -1, shift |-> 0]

SigBits(bits, expbits) == bits - expbits - 1
Bias(expbits)          == Bit(expbits - 1) - 1

\* There is room for a sign, an exponent and a significand.
ASSUME BitsAssumption ==
    /\ ByteBits \in Nat /\ Base = Bit(ByteBits)
    /\ Precision \in Nat
    /\ \A ch \in Floats : ExpBits[ch] \in 1 .. ByteBits * Width(ch) - 1

\* The significand is rounded, and put under the exponent with an or, which does not carry.
pack754(f, bits, expbits) ==
    LET s   == SigBits(bits, expbits)
        sig == (f.frac * (Bit(s + 1) + 1)) \div Bit(Precision + 1)
        exp == f.shift + Bias(expbits)
    IN  IF f = Zero THEN 0
        ELSE (IF f.neg THEN Bit(bits - 1) ELSE 0) + exp * Bit(s)
             + IF sig = Bit(s) /\ exp % 2 = 1 THEN 0 ELSE sig

unpack754(n, bits, expbits) ==
    LET s == SigBits(bits, expbits)
    IN  IF n = 0 THEN Zero
        ELSE [neg   |-> (n \div Bit(bits - 1)) % 2 = 1,
              frac  |-> ((n % Bit(s)) * Bit(Precision)) \div Bit(s),
              shift |-> ((n \div Bit(s)) % Bit(expbits)) - Bias(expbits)]

\* The number that is packed for a value, and the value of a number unpacked.
Encoded(v, ch) ==
    IF ch \in Floats THEN pack754(v, ByteBits * Width(ch), ExpBits[ch]) ELSE v % Space(ch)

Decoded(n, ch) ==
    IF ch \in Floats THEN unpack754(n, ByteBits * Width(ch), ExpBits[ch]) ELSE Resigned(n, ch)

------------------------------------------------------------------------------
\* What a character of the format does to what has been packed.  The order is forgotten
\* after each field, but not after a string, and a string is written without its length.
PackChar(s, ch, args) ==
    CASE ch \in Orders -> [s EXCEPT !.ord = ch]
      [] ch \in Fields ->
             [ord |-> "none", n |-> s.n + 1,
              buf |-> s.buf \o Ordered(Encoded(args[s.n], ch), Width(ch), s.ord)]
      [] ch = "s" -> [s EXCEPT !.n = @ + 1, !.buf = @ \o args[s.n]]
      [] OTHER -> s

beej_pack(fmt, args) ==
    LET after[j \in 0 .. Len(fmt)] ==
            IF j = 0 THEN [ord |-> "none", n |-> 1, buf |-> <<>>]
            ELSE PackChar(after[j - 1], fmt[j], args)
    IN  after[Len(fmt)].buf

Digit(ch) == \E d \in 1 .. 10 : ch = Numeral[d]

\* The limit of a string, one digit on, in an unsigned int.
Limit(max, ch) == (10 * max + (CHOOSE d \in 1 .. 10 : ch = Numeral[d]) - 1) % Long

\* How many bytes are copied of a string.
Copied(len, max) == IF max > 0 /\ len > max THEN max - 1 ELSE len

\* What a character does to what has been unpacked.  The order stays until another is set,
\* a string is expected behind a length of two bytes, and a number before it limits what
\* is copied.
UnpackChar(r, ch, buf) ==
    LET s == [r EXCEPT !.max = 0]
        Bytes(from, n) == SubSeq(buf, from + 1, from + n)
    IN  CASE ch \in Orders -> [s EXCEPT !.ord = ch]
          [] ch \in Fields ->
                 [s EXCEPT !.at = @ + Width(ch),
                           !.args = Append(@, Decoded(Value(Bytes(s.at, Width(ch)), s.ord), ch))]
          [] ch = "s" ->
                 LET len == Value(Bytes(s.at, 2), s.ord)
                 IN  [s EXCEPT !.at = @ + 2 + len,
                               !.args = Append(@, Bytes(s.at + 2, Copied(len, r.max)))]
          [] Digit(ch) -> [s EXCEPT !.max = Limit(r.max, ch)]
          [] OTHER -> s

\* The values, and the place reading has come to.
beej_unpack(buf, fmt) ==
    LET after[j \in 0 .. Len(fmt)] ==
            IF j = 0 THEN [ord |-> "none", at |-> 0, args |-> <<>>, max |-> 0]
            ELSE UnpackChar(after[j - 1], fmt[j], buf)
    IN  after[Len(fmt)]
==============================================================================
