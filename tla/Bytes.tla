------------------------------- MODULE Bytes -------------------------------
(***************************************************************************)
(* Numbers and the bytes of a buffer, as beej_pack.c, varint.c and            *)
(* kyk_utils.c turn one into the other.  A number is a natural and a buffer a *)
(* sequence of bytes.  The number of values of a byte is a parameter, 256 in  *)
(* the code; a field keeps its width of 1, 2, 4 or 8 bytes.                   *)
(***************************************************************************)
EXTENDS Integers, Sequences

CONSTANT Base  \* values of a byte (256)

ASSUME BaseAssumption == Base \in Nat /\ Base > 3

Byte == 0 .. Base - 1

\* 0xffff + 1, 0xffffffff + 1 and 0xffffffffffffffff + 1.
Short == Base * Base
Long  == Short * Short
Quad  == Long * Long

------------------------------------------------------------------------------
(* Numbers. *)

\* Mutated: the cast to an unsigned char is left out.
Bad_LE(v, n) ==
    LET v1 == v \div Base   v2 == v1 \div Base   v3 == v2 \div Base   v4 == v3 \div Base
        v5 == v4 \div Base  v6 == v5 \div Base   v7 == v6 \div Base
    IN  SubSeq(<<v, v1, v2, v3, v4, v5, v6, v7>>, 1, n)

\* The low n bytes of v, least significant first: v, v >> 8, v >> 16, ..., each cast to
\* an unsigned char.
LE(v, n) ==
    LET v1 == v \div Base   v2 == v1 \div Base   v3 == v2 \div Base   v4 == v3 \div Base
        v5 == v4 \div Base  v6 == v5 \div Base   v7 == v6 \div Base
    IN  SubSeq(<<v % Base, v1 % Base, v2 % Base, v3 % Base,
                 v4 % Base, v5 % Base, v6 % Base, v7 % Base>>, 1, n)

\* The number whose bytes are s, at most eight, least significant first.
Num(s) ==
    LET At(j) == IF j <= Len(s) THEN s[j] ELSE 0
    IN  At(1) + Base * (At(2) + Base * (At(3) + Base * (At(4)
              + Base * (At(5) + Base * (At(6) + Base * (At(7) + Base * At(8)))))))

\* kyk_reverse_pack_chars.
Reversed(s) == [j \in 1 .. Len(s) |-> s[Len(s) + 1 - j]]

BE(v, n) == Reversed(LE(v, n))
==============================================================================
