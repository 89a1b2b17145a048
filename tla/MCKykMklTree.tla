---------------------------- MODULE MCKykMklTree ----------------------------
(* Instances of KykMklTreeTest, and with it of KykMklTree, for TLC. *)
EXTENDS KykMklTreeTest

CONSTANT AllUpTo, \* every list of one of three transactions up to this length
         MaxTxs   \* and one list of different transactions of each length up to this

\* As many transactions as the longest program has.
MCTxs == 1 .. 777

\* A digest is a number in one of two byte orders.
MCDigests == (0 .. 60) \X BOOLEAN

MCRev == [d \in MCDigests |-> <<d[1], ~d[2]>>]

\* hash256 mixes both operands, their place and their byte order.
Mix(d) == 2 * d[1] + (IF d[2] THEN 1 ELSE 0)

MCHash256 == [p \in MCDigests \X MCDigests |-> <<(7 * Mix(p[1]) + 11 * Mix(p[2]) + 3) % 61, FALSE>>]

MCTxHash == [t \in MCTxs |-> <<(3 * t) % 61, FALSE>>]

MCInputs == UNION {[1 .. n -> 1 .. 3] : n \in 1 .. AllUpTo} \cup {[i \in 1 .. n |-> i] : n \in 1 .. MaxTxs \cup {p.txs : p \in TestPrograms}}

\* The programs of the repository, and others that print the trees of the other lists.
MCPrograms == TestPrograms \cup {Program(n, leafs, "tree") : n \in 1 .. MaxTxs, leafs \in {"bufs", "txids"}}

MCPow2 == [h \in 0 .. 10 |-> 2 ^ h]

MCHeight == [s \in MCInputs |-> CHOOSE h \in 0 .. 10 : 2 ^ h >= Len(s) /\ \A g \in 0 .. h - 1 : 2 ^ g < Len(s)]

\* The reference tree, by recursion on the height.
MCMerkle ==
    [s \in MCInputs |->
        LET node[h \in 0 .. MCHeight[s]] ==
                [j \in 0 .. (Len(s) - 1) \div 2 ^ h |->
                    IF h = 0 THEN MCTxHash[s[j + 1]]
                    ELSE MCHash256[<<node[h - 1][2 * j],
                                     node[h - 1][IF (2 * j + 1) * 2 ^ (h - 1) < Len(s)
                                                 THEN 2 * j + 1 ELSE 2 * j]>>]]
        IN  node]
==============================================================================
