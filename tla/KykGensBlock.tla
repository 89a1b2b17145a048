---------------------------- MODULE KykGensBlock ----------------------------
(***************************************************************************)
(* The program that makes the genesis block, kyk_gens_block.c: it creates the *)
(* block file, builds a transaction that pays the key of a PEM file, its      *)
(* Merkle tree (KykMklTree) and a header, mines the header (KykHashNonce) and *)
(* writes the block.  It may be killed at any time and be run again.          *)
(*                                                                         *)
(* A transaction is told apart by the key it pays; all else in it is          *)
(* constant.  The version, previous block and time of the header are too, so  *)
(* its fields other than bts and nonce are its Merkle root.  The file is the  *)
(* sequence of its parts: header, transaction count and transaction.  An      *)
(* absent file is an empty one.  The block fits the buffer of the stream, so  *)
(* nothing is on the disk before fclose.                                      *)
(***************************************************************************)
EXTENDS KykHashNonce, Sequences

CONSTANTS Keys,      \* private keys
          PemKey,    \* the key in kyk-gens-priv.pem
          TxHash, Hash256,  \* as in KykMklTree, whose digests are the rests of the headers
          GensBts,   \* the constant 0x1e00ffff
          MaxRuns    \* bound: how often the program is run

\* TX_COUNT is 1: the lists trees are built for, and their reference tree.
Lists == {<<k>> : k \in Keys}

\* The header and its miner have the variables of KykHashNonce.
VARIABLES disk,   \* the block file
          fp,     \* whether fopen returned a stream
          out,    \* what the stream has buffered
          tx,     \* the transaction, once created
          input, levels, pnt, treePc,     \* the Merkle tree
          said,   \* whether success has been printed
          runs,   \* how often the program has been started
          made,   \* every block that has been on the disk (read by the properties only)
          stage   \* what main does

treeVars == <<input, levels, pnt, treePc>>

gensVars == <<disk, fp, out, tx, treeVars, vars, said, runs, made, stage>>

Tree == INSTANCE KykMklTree WITH
            Txs <- Keys, Inputs <- Lists, pc <- treePc, Digests <- Rests, Rev <- SeriRest,
            Pow2 <- [h \in {0} |-> 1], Height <- [s \in Lists |-> 0],
            Merkle <- [s \in Lists |-> [h \in {0} |-> [j \in {0} |-> TxHash[s[1]]]]]

ASSUME KeysAssumption ==
    /\ PemKey \in Keys
    /\ \A d \in Rests : SeriRest[SeriRest[d]] = d
    /\ TxHash \in [Keys -> Rests]
    /\ GensBts \in Bts
    /\ MaxRuns \in Nat \ {0}

------------------------------------------------------------------------------
\* The stack of a new process: nothing is created yet.
GensInit ==
    /\ disk = <<>> /\ fp = FALSE /\ out = <<>> /\ tx = PemKey
    /\ input = <<PemKey>> /\ levels = <<>> /\ pnt = 0 /\ treePc = "leafs"
    /\ Init
    /\ said = FALSE /\ runs = 1 /\ made = {} /\ stage = "open"

\* fopen in mode "wb" empties the file.
Open ==
    /\ stage = "open"
    /\ disk' = <<>>
    /\ fp' = TRUE
    /\ stage' = "tx"
    /\ UNCHANGED <<out, tx, treeVars, vars, said, runs, made>>

OpenFails ==
    /\ stage = "open"
    /\ fp' = FALSE
    /\ stage' = "tx"
    /\ UNCHANGED <<disk, out, tx, treeVars, vars, said, runs, made>>

\* Mutated: the tree is built of a list of no transactions.
Bad_TreeOf(k) ==
    /\ stage = "tx"
    /\ tx' = k
    /\ input' = <<>> /\ levels' = <<>> /\ pnt' = 0 /\ treePc' = "leafs"
    /\ stage' = "tree"
    /\ UNCHANGED <<disk, fp, out, vars, said, runs, made>>

\* create_gens_tx and kyk_seri_tx, and the call of make_mkl_tree_root.
TreeOf(k) ==
    /\ stage = "tx"
    /\ tx' = k
    /\ input' = <<k>> /\ levels' = <<>> /\ pnt' = 0 /\ treePc' = "leafs"
    /\ stage' = "tree"
    /\ UNCHANGED <<disk, fp, out, vars, said, runs, made>>

\* get_priv_from_pem has filled priv.
CreateTx == TreeOf(PemKey)

\* make_address_from_pem goes on with what priv held: all of it when get_priv_from_pem
\* fails, and its last bytes when BN_bn2bin writes fewer than 32, for a key below 2^248.
CreateTxWithoutPem == \E k \in Keys \ {PemKey} : TreeOf(k)

\* make_mkl_tree_root.
MakeTree ==
    /\ stage = "tree"
    /\ Tree!CreateLeafs \/ Tree!CreateParent
    /\ UNCHANGED <<disk, fp, out, tx, vars, said, runs, made, stage>>

\* Mutated: the nonce is the one the stack has.
Bad_FillHeader ==
    /\ stage = "tree"
    /\ treePc = "done"
    /\ hd' = [rest |-> levels[pnt].nd[1].bdy, bts |-> GensBts, nonce |-> hd.nonce]
    /\ first' = hd.nonce
    /\ buf' \in Headers
    /\ hs' = 0
    /\ pc' = "start"
    /\ stage' = "mine"
    /\ UNCHANGED <<disk, fp, out, tx, treeVars, said, runs, made>>

\* The header is filled in, and kyk_hsh_nonce called; its buffer is not initialised.
FillHeader ==
    /\ stage = "tree"
    /\ treePc = "done"
    /\ hd' = [rest |-> levels[pnt].nd[1].bdy, bts |-> GensBts, nonce |-> 0]
    /\ first' = 0
    /\ buf' \in Headers
    /\ hs' = 0
    /\ pc' = "start"
    /\ stage' = "mine"
    /\ UNCHANGED <<disk, fp, out, tx, treeVars, said, runs, made>>

\* kyk_hsh_nonce.
Mine ==
    /\ stage = "mine"
    /\ Prepare \/ TryNonce \/ Found \/ Bump
    /\ UNCHANGED <<disk, fp, out, tx, treeVars, said, runs, made, stage>>

\* Mutated: the header is serialised with its root as the tree keeps it.
Bad_BlockBytes == <<hd, 1, tx>>

\* The block as it is serialised.
BlockBytes == <<SeriBlkHd(hd), 1, tx>>

\* fwrite takes all of the block, and success is printed.
Write ==
    /\ stage = "mine"
    /\ pc = "done"
    /\ fp
    /\ out' = BlockBytes
    /\ said' = TRUE
    /\ stage' = "close"
    /\ UNCHANGED <<disk, fp, tx, treeVars, vars, runs, made>>

\* The process ends: what the stream had buffered is gone with it.
Dies ==
    /\ out' = <<>>
    /\ stage' = "ended"
    /\ UNCHANGED <<disk, fp, tx, treeVars, vars, said, runs, made>>

\* fwrite on the NULL that fopen returned.
WriteFails == stage = "mine" /\ pc = "done" /\ ~fp /\ Dies

\* fclose writes the buffer; on a full disk a part of it, and main does not look.
Close ==
    /\ stage = "close"
    /\ \E n \in 0 .. Len(out) : disk' = SubSeq(out, 1, n)
    /\ made' = made \cup (IF Len(disk') = 3 THEN {disk'} ELSE {})
    /\ out' = <<>>
    /\ stage' = "ended"
    /\ UNCHANGED <<fp, tx, treeVars, vars, said, runs>>

Killed == stage # "ended" /\ Dies

\* The program is run again, on another stack.
Rerun ==
    /\ stage = "ended"
    /\ runs < MaxRuns
    /\ runs' = runs + 1
    /\ said' = FALSE
    /\ hd' \in Headers
    /\ pc' = "start"
    /\ stage' = "open"
    /\ UNCHANGED <<disk, fp, out, tx, treeVars, buf, hs, first, made>>

\* It is not run again.
Over == stage = "ended" /\ runs = MaxRuns /\ UNCHANGED gensVars

Main ==
    \/ Open \/ OpenFails \/ CreateTx \/ CreateTxWithoutPem \/ MakeTree \/ FillHeader
    \/ Mine \/ Write \/ WriteFails \/ Close

GensNext == Main \/ Killed \/ Rerun \/ Over

GensSpec == GensInit /\ [][GensNext]_gensVars

\* The program runs; nobody has to kill it or run it again.
FairGensSpec == GensSpec /\ WF_gensVars(Main)

------------------------------------------------------------------------------
(* Properties *)

\* The type invariant.
GensTypeOK ==
    /\ Len(disk) <= 3
    /\ Len(disk) >= 1 => disk[1] \in Headers
    /\ Len(disk) >= 2 => disk[2] = 1
    /\ Len(disk) = 3 => disk[3] \in Keys
    /\ fp \in BOOLEAN /\ said \in BOOLEAN
    /\ out \in {<<>>, BlockBytes}
    /\ tx \in Keys
    /\ Tree!TypeOK
    /\ TypeOK
    /\ runs \in 1 .. MaxRuns
    /\ stage \in {"open", "tx", "tree", "mine", "close", "ended"}

Whole(file) == Len(file) = 3

\* A whole block on the disk hangs together, whatever runs were killed before: its header
\* holds the Merkle root of the transaction beside it, in the order hash256 produces, and
\* the hash of that header is at most its target.
BlockCommits ==
    Whole(disk) => /\ disk[1].rest = TxHash[disk[3]]
                   /\ ~(HashValue[disk[1]] > Bts2Target(disk[1].bts))

\* A run after a killed one that pays the same key makes the same block again: nothing of the
\* stack a process finds gets into the block but through the key it pays, when the PEM file
\* cannot be read or its key is shorter than priv.
SameBlockAgain == \A a, b \in made : a[3] = b[3] => a = b

\* A run ends unless its header cannot be mined.
RunEnds ==
    stage = "open" ~>
        \/ stage = "ended"
        \/ stage = "mine" /\ \A n \in Nonces : ~Meets(WithNonce(n))

\* "saved gens block to kyk-gens-block.dat successfully": when the run is over, the block is there.
SavedIsSaved == said /\ stage = "ended" => Whole(disk)

\* make_address_from_pem: the block pays the key of the PEM file.
PaysPemKey == \A b \in made : b[3] = PemKey
==============================================================================
