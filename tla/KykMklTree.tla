----------------------------- MODULE KykMklTree -----------------------------
(***************************************************************************)
(* The Merkle tree of kyk_mkl_tree.c: the leaf level is made from            *)
(* transactions or from their txids, and create_mkl_tree stacks parent       *)
(* levels on it until one is the root.                                       *)
(*                                                                         *)
(* A level is a record of its nodes, its number inx and the level below      *)
(* (dwn); levels are numbered in the order they are allocated, and nothing    *)
(* is ever freed.  A node points at its children by their place in the level  *)
(* below.  Digests are 32 bytes in one of two byte orders: hash256 works on   *)
(* the order it produces, node bodies are kept in the reversed one, in which  *)
(* txids are written.                                                        *)
(***************************************************************************)
EXTENDS Integers, Sequences

CONSTANTS Txs,      \* transactions
          Digests,  \* 32-byte strings
          Rev,      \* kyk_reverse on a digest
          TxHash,   \* kyk_dgst_hash256 of a serialised transaction
          Hash256,  \* kyk_dgst_hash256 of two digests, one after the other
          Inputs,   \* the transaction lists trees are built for
          Pow2,     \* powers of two, from height 0
          Height,   \* a height at which one node covers all of a list
          Merkle    \* Merkle[s][h][j]: node j at height h of the tree of s

ASSUME DigestAssumption ==
    /\ Rev \in [Digests -> Digests]
    /\ \A d \in Digests : Rev[Rev[d]] = d
    /\ TxHash \in [Txs -> Digests]
    /\ Hash256 \in [Digests \X Digests -> Digests]

\* Callers pass at least one transaction: on none create_mkl_tree never returns.
ASSUME InputsAssumption == \A s \in Inputs : s \in Seq(Txs) /\ Len(s) >= 1

\* Node j at height h stands for the 2^h transactions from j * 2^h on.
Exists(s, h, j) == j * Pow2[h] < Len(s)

\* The Merkle tree of a list, by height and place and not by levels: a node hashes
\* the two nodes below it, the first of them twice when the second stands for
\* nothing.  Digests are in the byte order hash256 produces.
ASSUME MerkleAssumption ==
    \A s \in Inputs :
        /\ Height[s] \in Nat
        /\ Pow2[0] = 1
        /\ \A h \in 0 .. Height[s] : Pow2[h] \in Nat \ {0}
        /\ \A h \in 1 .. Height[s] : Pow2[h] = 2 * Pow2[h - 1]
        /\ Len(s) <= Pow2[Height[s]]
        /\ \A i \in 1 .. Len(s) : Merkle[s][0][i - 1] = TxHash[s[i]]
        /\ \A h \in 1 .. Height[s] : \A j \in 0 .. Len(s) - 1 :
            Exists(s, h, j) =>
                Merkle[s][h][j] =
                    Hash256[<<Merkle[s][h - 1][2 * j],
                              Merkle[s][h - 1][IF Exists(s, h - 1, 2 * j + 1)
                                               THEN 2 * j + 1 ELSE 2 * j]>>]

VARIABLES input,  \* the transactions of the tree
          levels, \* every level allocated
          pnt,    \* pnt_level of create_mkl_tree: a place in levels, 0 before
          pc      \* "leafs", "parent" or "done"

vars == <<input, levels, pnt, pc>>

------------------------------------------------------------------------------
\* A leaf made from a transaction, kyk_hash_mkl_leaf.
HashedLeaf(tx) == [lft |-> 0, rgt |-> 0, ntype |-> "LEAF", bdy |-> Rev[TxHash[tx]]]

\* The text of a txid shows the bytes of the hash in reverse.
Txid(tx) == Rev[TxHash[tx]]

\* Mutated: the node is not initialised, malloc left another type in it.
Bad_CopiedLeaf(tx) == [lft |-> 0, rgt |-> 0, ntype |-> "BR", bdy |-> Txid(tx)]

CopiedLeaf(tx) == [lft |-> 0, rgt |-> 0, ntype |-> "LEAF", bdy |-> Txid(tx)]

\* A level of one node is the root.
MarkRoot(nd) == IF Len(nd) = 1 THEN [nd EXCEPT ![1].ntype = "ROOT"] ELSE nd

RootLevel(level) == Len(level.nd) = 1 /\ level.nd[1].ntype = "ROOT"

\* The right child of node i above n nodes; the last of an odd number is its own
\* neighbour.
RightChild(i, n) == IF 2 * i > n THEN 2 * i - 1 ELSE 2 * i

\* Mutated: the children are hashed in the byte order they are kept in.
Bad_NodeHash(l, r) == Rev[Hash256[<<l, r>>]]

\* kyk_hash_mkltree_node: the bodies are turned back, hashed, and the hash turned.
NodeHash(l, r) == Rev[Hash256[<<Rev[l], Rev[r]>>]]

\* Mutated: an odd node out is dropped.
Bad_ParentLen(n) == n \div 2

ParentLen(n) == IF n % 2 = 0 THEN n \div 2 ELSE n \div 2 + 1

\* kyk_up_mkltree_level and kyk_hash_mkltree_level above the nodes nd.
ParentNodes(nd) ==
    [i \in 1 .. ParentLen(Len(nd)) |->
        LET l == 2 * i - 1
            r == RightChild(i, Len(nd))
        IN  [lft |-> l, rgt |-> r, ntype |-> "BR", bdy |-> NodeHash(nd[l].bdy, nd[r].bdy)]]

------------------------------------------------------------------------------
Init ==
    /\ input \in Inputs
    /\ levels = <<>>
    /\ pnt = 0
    /\ pc = "leafs"

\* A level of leaves.
LeafLevel(leafs) ==
    /\ pc = "leafs"
    /\ levels' = <<[nd |-> MarkRoot(leafs), dwn |-> 0, inx |-> 1]>>
    /\ pnt' = 1
    /\ pc' = "parent"
    /\ UNCHANGED input

\* create_mkl_leafs.
CreateLeafs == LeafLevel([i \in 1 .. Len(input) |-> HashedLeaf(input[i])])

\* create_mkl_leafs_from_txid_hexs.
CreateLeafsFromTxids == LeafLevel([i \in 1 .. Len(input) |-> CopiedLeaf(input[i])])

\* Mutated: the leaf level is never taken for the root.
Bad_Returns == pc' = IF RootLevel(levels'[pnt']) /\ levels'[pnt'].dwn # 0 THEN "done" ELSE "parent"

\* create_mkl_tree goes on until the parent level it got is the root.
Returns == pc' = IF RootLevel(levels'[pnt']) THEN "done" ELSE "parent"

\* create_parent_mkl_level on the level create_mkl_tree holds.
CreateParent ==
    /\ pc = "parent"
    /\ LET level == levels[pnt]
       IN  \/ /\ RootLevel(level)
              /\ UNCHANGED <<levels, pnt>>
           \/ /\ ~RootLevel(level)
              /\ levels' = Append(levels, [nd  |-> MarkRoot(ParentNodes(level.nd)),
                                           dwn |-> pnt, inx |-> level.inx + 1])
              /\ pnt' = Len(levels) + 1
    /\ Returns
    /\ UNCHANGED input

\* The root level has been returned.
Returned == pc = "done" /\ UNCHANGED vars

Next == CreateLeafs \/ CreateLeafsFromTxids \/ CreateParent \/ Returned

Spec == Init /\ [][Next]_vars

------------------------------------------------------------------------------
(* Properties *)

LeafNodes == [lft : {0}, rgt : {0}, ntype : {"ROOT", "LEAF"}, bdy : Digests]

BranchNodes == [lft : Nat \ {0}, rgt : Nat \ {0}, ntype : {"ROOT", "BR"}, bdy : Digests]

\* The type invariant.
TypeOK ==
    /\ input \in Inputs
    /\ levels \in Seq([nd : Seq(LeafNodes \cup BranchNodes), dwn : Nat, inx : Nat])
    /\ pnt \in 0 .. Len(levels)
    /\ pc \in {"leafs", "parent", "done"}

\* The node levels above the leaves hang together: the children of a level are the
\* whole of the level below, left before right, and no node but the last is its
\* neighbour's twin, so every transaction counts in the root.
TreeConnected ==
    \A k \in 2 .. Len(levels) :
        LET nd    == levels[k].nd
            below == levels[levels[k].dwn].nd
        IN  /\ {nd[i].lft : i \in DOMAIN nd} \cup {nd[i].rgt : i \in DOMAIN nd} = DOMAIN below
            /\ \A i \in DOMAIN nd : nd[i].lft = nd[i].rgt => nd[i].lft = Len(below)
            /\ \A i, j \in DOMAIN nd : i < j => nd[i].rgt < nd[j].lft

\* The node returned, turned back into the byte order of the block header, is the
\* Merkle root of the transactions, whichever way the leaves were made, and it
\* stands at the lowest height at which one node covers them all.
MerkleRoot ==
    pc = "done" =>
        LET top == levels[pnt]
            h   == top.inx - 1
        IN  /\ Rev[top.nd[1].bdy] = Merkle[input][h][0]
            /\ h <= Height[input] /\ Len(input) <= Pow2[h]
            /\ h > 0 => Len(input) > Pow2[h - 1]
==============================================================================
