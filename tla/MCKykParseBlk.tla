--------------------------- MODULE MCKykParseBlk ----------------------------
(* Instances of KykParseBlk for TLC. *)
EXTENDS KykParseBlk

\* The k-th block of a file: no two fields are alike.
MCBlock(k, c) ==
    [magic |-> 10 * k + 1, version |-> 10 * k + 2, pre |-> 10 * k + 3, mrk |-> 10 * k + 4,
     tts |-> 10 * k + 5, bts |-> 10 * k + 6, nonce |-> 10 * k + 7, count |-> c,
     txs |-> k]

\* Counts of one, two, four and eight bytes, in a byte of eight values.
MCCounts == {1, 4, 6, 63, 100, 5000}

\* Files of up to three blocks.
MCFiles ==
    {<<>>} \cup {<<MCBlock(1, c)>> : c \in MCCounts}
    \cup {<<MCBlock(1, c), MCBlock(2, d)>> : c, d \in MCCounts}
    \cup {<<MCBlock(1, c), MCBlock(2, d), MCBlock(3, e)>> : c, d, e \in MCCounts \ {4, 63}}
==============================================================================
