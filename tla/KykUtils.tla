------------------------------ MODULE KykUtils ------------------------------
(***************************************************************************)
(* Bytes and the text they are written in, kyk_utils.c.  A character is a     *)
(* number: that of a hexadecimal digit, or more for any other character.      *)
(***************************************************************************)
EXTENDS Bytes

CONSTANT Hex  \* hexadecimal digits (16)

ASSUME HexAssumption == Hex \in Nat /\ Hex <= Base /\ Hex * Hex >= Base

\* print_bytes_in_hex, kyk_print_hex: two digits a byte.
HexText(buf) ==
    [j \in 1 .. 2 * Len(buf) |-> LET b == buf[(j + 1) \div 2]
                                 IN  IF j % 2 = 1 THEN b \div Hex ELSE b % Hex]

\* Of any other character, 0.
kyk_hex2byte(ch) == IF ch < Hex THEN ch ELSE 0

\* kyk_alloc_hex: a byte of every two characters; a last one that is alone is left out.
kyk_alloc_hex(str) ==
    [j \in 1 .. Len(str) \div 2 |->
        (kyk_hex2byte(str[2 * j - 1]) * Hex + kyk_hex2byte(str[2 * j])) % Base]

Malformed == <<-1>>

\* hexstr_to_bytes into a buffer of len bytes: the text must have two characters for each,
\* and the first of two be a digit; of the second, another character is left out.
hexstr_to_bytes(hexstr, len) ==
    IF Len(hexstr) # 2 * len \/ \E j \in 1 .. len : hexstr[2 * j - 1] >= Hex THEN Malformed
    ELSE [j \in 1 .. len |->
             IF hexstr[2 * j] < Hex THEN (hexstr[2 * j - 1] * Hex + hexstr[2 * j]) % Base
             ELSE hexstr[2 * j - 1]]
=============================================================================
