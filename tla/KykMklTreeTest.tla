--------------------------- MODULE KykMklTreeTest ---------------------------
(***************************************************************************)
(* The programs that build and print a tree, kyk_mkl_tree*_test.c and         *)
(* kyk_merkle_tree_test.c.  Each has its transactions, or their txids, in its *)
(* source, makes a leaf level and a tree of them, and prints the whole tree   *)
(* from the root down, its root level, or its root node.                      *)
(***************************************************************************)
EXTENDS KykMklTree, FiniteSets

CONSTANT Programs  \* what the programs looked at are made of

VARIABLES prog,   \* the program that runs
          bufs,   \* buf_list: the transactions in it
          lv,     \* lv of kyk_print_mkl_tree: a place in levels, 0 for none
          shown   \* the lines printed

testVars == <<vars, prog, bufs, lv, shown>>

------------------------------------------------------------------------------
\* A program: how many transactions it has, what its leaves are made from, what it
\* prints.
Program(n, leafs, prints) == [txs |-> n, leafs |-> leafs, prints |-> prints]

MklTree1Test   == Program(1, "bufs", "tree")
MklTree2Test   == Program(2, "bufs", "tree")
MklTree6Test   == Program(6, "bufs", "tree")
MklTree15Test  == Program(15, "txids", "tree")
MklTree32Test  == Program(32, "txids", "level")
MklTree777Test == Program(777, "txids", "level")
MerkleTreeTest == Program(2, "bufs", "node")

TestPrograms == {MklTree1Test, MklTree2Test, MklTree6Test, MklTree15Test,
                 MklTree32Test, MklTree777Test, MerkleTreeTest}

TestInit ==
    /\ Init
    /\ prog \in Programs
    /\ Len(input) = prog.txs
    /\ bufs = {}
    /\ lv = 0
    /\ shown = <<>>

\* build_tx_buf_from_hex on the next of buf_list.
BuildTxBuf ==
    /\ pc = "leafs"
    /\ prog.leafs = "bufs"
    /\ Cardinality(bufs) < prog.txs
    /\ bufs' = bufs \cup {Cardinality(bufs) + 1}
    /\ UNCHANGED <<vars, prog, lv, shown>>

\* The leaf level, from every buffer or from every txid.
MakeLeafs ==
    /\ \/ prog.leafs = "bufs" /\ Cardinality(bufs) = prog.txs /\ CreateLeafs
       \/ prog.leafs = "txids" /\ CreateLeafsFromTxids
    /\ UNCHANGED <<prog, bufs, lv, shown>>

\* create_mkl_tree; what is printed starts at the level it returns.
MakeTree ==
    /\ CreateParent
    /\ lv' = IF pc' = "done" THEN pnt' ELSE 0
    /\ UNCHANGED <<prog, bufs, shown>>

\* What kyk_print_mkl_level prints.
Line(level) ==
    [inx |-> level.inx, root |-> RootLevel(level),
     bdy |-> [i \in 1 .. Len(level.nd) |-> level.nd[i].bdy]]

\* Mutated: the level below is taken before the level is printed.
Bad_PrintTree ==
    /\ prog.prints = "tree"
    /\ lv # 0
    /\ lv' = levels[lv].dwn
    /\ shown' = IF lv' = 0 THEN shown ELSE Append(shown, Line(levels[lv']))
    /\ UNCHANGED <<vars, prog, bufs>>

\* One round of kyk_print_mkl_tree.
PrintTree ==
    /\ prog.prints = "tree"
    /\ lv # 0
    /\ shown' = Append(shown, Line(levels[lv]))
    /\ lv' = levels[lv].dwn
    /\ UNCHANGED <<vars, prog, bufs>>

\* kyk_print_mkl_level on the root level.
PrintRootLevel ==
    /\ prog.prints = "level"
    /\ lv # 0
    /\ shown' = <<Line(levels[lv])>>
    /\ lv' = 0
    /\ UNCHANGED <<vars, prog, bufs>>

\* kyk_print_hex on the root node, and free_tx_buf_list.
PrintRootNode ==
    /\ prog.prints = "node"
    /\ lv # 0
    /\ shown' = <<[inx |-> levels[lv].inx, root |-> TRUE, bdy |-> <<levels[lv].nd[1].bdy>>]>>
    /\ lv' = 0
    /\ bufs' = {}
    /\ UNCHANGED <<vars, prog>>

\* main has returned.
Exited == pc = "done" /\ lv = 0

Step == BuildTxBuf \/ MakeLeafs \/ MakeTree \/ PrintTree \/ PrintRootLevel \/ PrintRootNode

TestNext == Step \/ (Exited /\ UNCHANGED testVars)

TestSpec == TestInit /\ [][TestNext]_testVars

\* The program runs.
FairTestSpec == TestSpec /\ WF_testVars(Step)

------------------------------------------------------------------------------
(* Properties *)

\* Line k of those printed shows height h of the tree: every node of it, in place,
\* numbered from the leaves, and marked when it is the root.
ShowsHeight(k, h) ==
    /\ shown[k].inx = h + 1
    /\ shown[k].root <=> h = Len(levels) - 1
    /\ {j \in 0 .. Len(input) - 1 : Exists(input, h, j)} = 0 .. Len(shown[k].bdy) - 1
    /\ \A i \in DOMAIN shown[k].bdy : Rev[shown[k].bdy[i]] = Merkle[input][h][i - 1]

\* Every program comes to its end, and what it has printed by then is the Merkle tree
\* of its transactions: all of it from the root down to the txids, which is how the
\* dwn pointers of the levels hang together, or the root alone.
TreePrinted ==
    <>(/\ Exited
       /\ Len(shown) = IF prog.prints = "tree" THEN Len(levels) ELSE 1
       /\ \A k \in DOMAIN shown : ShowsHeight(k, Len(levels) - k))
==============================================================================
