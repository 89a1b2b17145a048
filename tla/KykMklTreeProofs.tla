-------------------------- MODULE KykMklTreeProofs --------------------------
(***************************************************************************)
(* Proofs about KykMklTree: for every hash function and every transaction    *)
(* list the tree built level by level is the Merkle tree, and its root the    *)
(* Merkle root.                                                              *)
(***************************************************************************)
EXTENDS KykMklTreeTest, SequenceTheorems, TLAPS

NodeSet == LeafNodes \cup BranchNodes

Levels == [nd : Seq(NodeSet), dwn : Nat, inx : Nat]

\* nd are the nodes at height h of the Merkle tree of s, as many as exist, with the
\* bodies turned; one node alone is the root.
AtHeight(s, h, nd) ==
    /\ h <= Height[s]
    /\ nd \in Seq(NodeSet) /\ Len(nd) >= 1
    /\ \A j \in Nat : j < Len(nd) <=> Exists(s, h, j)
    /\ \A i \in 1 .. Len(nd) : Rev[nd[i].bdy] = Merkle[s][h][i - 1]
    /\ nd[1].ntype = "ROOT" <=> Len(nd) = 1

LevelInv(k) ==
    /\ levels[k].inx = k /\ levels[k].dwn = k - 1
    /\ AtHeight(input, k - 1, levels[k].nd)

\* How level k stands on the level below it.
LinkInv(k) ==
    LET nd    == levels[k].nd
        below == levels[k - 1].nd
    IN  /\ Len(below) > 1
        /\ Len(nd) = ParentLen(Len(below))
        /\ \A i \in 1 .. Len(nd) : nd[i].lft = 2 * i - 1 /\ nd[i].rgt = RightChild(i, Len(below))

TreeInv ==
    /\ pc = "leafs" => levels = <<>>
    /\ pc # "leafs" => Len(levels) >= 1 /\ pnt = Len(levels)
    /\ \A k \in 1 .. Len(levels) : LevelInv(k)
    /\ \A k \in 2 .. Len(levels) : LinkInv(k)
    /\ pc = "done" => RootLevel(levels[pnt])

------------------------------------------------------------------------------
\* A function from 1 .. n is a sequence of n elements.
LEMMA SeqOfFunction ==
    ASSUME NEW n \in Nat, NEW S, NEW f \in [1 .. n -> S]
    PROVE  f \in Seq(S) /\ Len(f) = n
  <1>1. f \in Seq(S)
    BY SeqDef
  <1>2. DOMAIN f = 1 .. Len(f) /\ DOMAIN f = 1 .. n /\ Len(f) \in Nat
    BY <1>1, LenProperties
  <1>3. QED
    BY <1>1, <1>2

\* Marking the root changes the type of one node only.
LEMMA Marked ==
    ASSUME NEW nd \in Seq(NodeSet), Len(nd) >= 1, nd[1].ntype # "ROOT"
    PROVE  /\ MarkRoot(nd) \in Seq(NodeSet)
           /\ Len(MarkRoot(nd)) = Len(nd)
           /\ \A i \in 1 .. Len(nd) : /\ MarkRoot(nd)[i].bdy = nd[i].bdy
                                      /\ MarkRoot(nd)[i].lft = nd[i].lft
                                      /\ MarkRoot(nd)[i].rgt = nd[i].rgt
           /\ MarkRoot(nd)[1].ntype = "ROOT" <=> Len(nd) = 1
  <1>1. Len(nd) \in Nat /\ 1 \in 1 .. Len(nd) /\ nd[1] \in NodeSet
    BY LenProperties
  <1>2. CASE Len(nd) # 1
    BY <1>2 DEF MarkRoot
  <1>3. CASE Len(nd) = 1
    <2> DEFINE e == [nd[1] EXCEPT !.ntype = "ROOT"]
    <2>1. MarkRoot(nd) = [nd EXCEPT ![1] = e]
      BY <1>3 DEF MarkRoot
    <2>2. e \in NodeSet /\ e.bdy = nd[1].bdy /\ e.lft = nd[1].lft /\ e.rgt = nd[1].rgt /\ e.ntype = "ROOT"
      BY <1>1 DEF NodeSet, LeafNodes, BranchNodes
    <2> HIDE DEF e
    <2>3. /\ MarkRoot(nd) \in Seq(NodeSet) /\ Len(MarkRoot(nd)) = Len(nd)
          /\ \A i \in 1 .. Len(nd) : MarkRoot(nd)[i] = IF i = 1 THEN e ELSE nd[i]
      BY <1>1, <2>1, <2>2, ExceptSeq
    <2>4. QED
      BY <1>1, <1>3, <2>2, <2>3
  <1>4. QED
    BY <1>2, <1>3

\* Halving a level, rounded up: node j of the parents exists if and only if it
\* has a left child.
LEMMA Halved ==
    ASSUME NEW n \in Nat, n >= 2
    PROVE  /\ ParentLen(n) \in Nat /\ ParentLen(n) >= 1 /\ ParentLen(n) <= n
           /\ \A j \in Nat : j < ParentLen(n) <=> 2 * j < n
           /\ \A i \in 1 .. ParentLen(n) : /\ 2 * i - 1 \in 1 .. n
                                           /\ RightChild(i, n) \in 1 .. n
                                           /\ RightChild(i, n) = IF 2 * i <= n THEN 2 * i ELSE 2 * i - 1
  BY DEF ParentLen, RightChild

\* The first level.
LEMMA LeafsStep ==
    ASSUME TypeOK, NEW leafs, leafs \in [1 .. Len(input) -> LeafNodes],
           \A i \in 1 .. Len(input) : leafs[i].ntype = "LEAF" /\ leafs[i].bdy = Rev[TxHash[input[i]]],
           LeafLevel(leafs)
    PROVE  TypeOK' /\ TreeInv'
  <1>1. /\ input \in Inputs /\ input \in Seq(Txs) /\ Len(input) \in Nat /\ Len(input) >= 1
        /\ \A i \in 1 .. Len(input) : input[i] \in Txs
    BY InputsAssumption, LenProperties DEF TypeOK, InputsAssumption
  <1>2. leafs \in Seq(NodeSet) /\ Len(leafs) = Len(input)
    <2>1. leafs \in [1 .. Len(input) -> NodeSet]
      BY DEF NodeSet
    <2>2. QED
      BY <1>1, <2>1, SeqOfFunction
  <1> DEFINE nd == MarkRoot(leafs)
  <1>3. /\ nd \in Seq(NodeSet) /\ Len(nd) = Len(input)
        /\ \A i \in 1 .. Len(input) : nd[i].bdy = Rev[TxHash[input[i]]]
        /\ nd[1].ntype = "ROOT" <=> Len(input) = 1
    <2>1. leafs[1].ntype # "ROOT"
      BY <1>1
    <2>2. /\ nd \in Seq(NodeSet) /\ Len(nd) = Len(leafs)
          /\ \A i \in 1 .. Len(leafs) : nd[i].bdy = leafs[i].bdy
          /\ nd[1].ntype = "ROOT" <=> Len(leafs) = 1
      BY <1>1, <1>2, <2>1, Marked
    <2>3. QED
      BY <1>2, <2>2
  <1> DEFINE level == [nd |-> nd, dwn |-> 0, inx |-> 1]
  <1>4. levels' = <<level>> /\ pnt' = 1 /\ pc' = "parent" /\ input' = input
    BY DEF LeafLevel
  <1>5. level \in Levels /\ level.nd = nd /\ level.dwn = 0 /\ level.inx = 1
    BY <1>3 DEF Levels
  <1> HIDE DEF nd, level
  <1>6. levels' \in Seq(Levels) /\ Len(levels') = 1 /\ levels'[1] = level
    BY <1>4, <1>5
  <1>7. TypeOK'
    BY <1>1, <1>4, <1>6 DEF TypeOK, Levels, NodeSet
  <1>8. \A j \in Nat : j < Len(nd) <=> Exists(input, 0, j)
    BY <1>1, <1>3, MerkleAssumption DEF Exists, MerkleAssumption
  <1>9. \A i \in 1 .. Len(nd) : Rev[nd[i].bdy] = Merkle[input][0][i - 1]
    <2> TAKE i \in 1 .. Len(nd)
    <2>1. TxHash[input[i]] \in Digests
      BY <1>1, <1>3, DigestAssumption DEF DigestAssumption
    <2>2. Merkle[input][0][i - 1] = TxHash[input[i]]
      BY <1>1, <1>3, MerkleAssumption DEF MerkleAssumption
    <2>3. QED
      BY <1>3, <2>1, <2>2, DigestAssumption DEF DigestAssumption
  <1>10. 0 <= Height[input]
    BY <1>1, MerkleAssumption DEF MerkleAssumption
  <1>11. LevelInv(1)'
    <2>1. 1 - 1 = 0
      OBVIOUS
    <2>2. QED
      BY <1>1, <1>3, <1>4, <1>5, <1>6, <1>8, <1>9, <1>10, <2>1 DEF LevelInv, AtHeight
  <1>12. QED
    BY <1>4, <1>6, <1>7, <1>11 DEF TreeInv

\* What a parent level is made of.
LEMMA Parents ==
    ASSUME NEW nd \in Seq(NodeSet), NEW n \in Nat, n = Len(nd), n >= 2
    PROVE  /\ ParentNodes(nd) \in Seq(NodeSet) /\ Len(ParentNodes(nd)) = ParentLen(n)
           /\ \A i \in 1 .. ParentLen(n) :
                /\ ParentNodes(nd)[i].lft = 2 * i - 1
                /\ ParentNodes(nd)[i].rgt = RightChild(i, n)
                /\ ParentNodes(nd)[i].ntype = "BR"
                /\ ParentNodes(nd)[i].bdy = NodeHash(nd[2 * i - 1].bdy, nd[RightChild(i, n)].bdy)
  <1>1. /\ ParentLen(n) \in Nat
        /\ \A i \in 1 .. ParentLen(n) : 2 * i - 1 \in 1 .. n /\ RightChild(i, n) \in 1 .. n
    BY Halved
  <1>2. \A i \in 1 .. n : nd[i] \in NodeSet /\ nd[i].bdy \in Digests
    BY ElementOfSeq DEF NodeSet, LeafNodes, BranchNodes
  <1>3. \A d, e \in Digests : NodeHash(d, e) \in Digests
    BY DigestAssumption DEF DigestAssumption, NodeHash
  <1> DEFINE node(i) == [lft |-> 2 * i - 1, rgt |-> RightChild(i, n), ntype |-> "BR",
                         bdy |-> NodeHash(nd[2 * i - 1].bdy, nd[RightChild(i, n)].bdy)]
  <1>4. ParentNodes(nd) = [i \in 1 .. ParentLen(n) |-> node(i)]
    BY DEF ParentNodes
  <1>5. \A i \in 1 .. ParentLen(n) : node(i) \in NodeSet
    <2> TAKE i \in 1 .. ParentLen(n)
    <2>1. 2 * i - 1 \in Nat \ {0} /\ RightChild(i, n) \in Nat \ {0}
      BY <1>1
    <2>2. NodeHash(nd[2 * i - 1].bdy, nd[RightChild(i, n)].bdy) \in Digests
      BY <1>1, <1>2, <1>3
    <2>3. QED
      BY <2>1, <2>2 DEF NodeSet, BranchNodes
  <1>6. ParentNodes(nd) \in [1 .. ParentLen(n) -> NodeSet]
    BY <1>4, <1>5
  <1>7. ParentNodes(nd) \in Seq(NodeSet) /\ Len(ParentNodes(nd)) = ParentLen(n)
    BY <1>1, <1>6, SeqOfFunction
  <1>8. \A i \in 1 .. ParentLen(n) : ParentNodes(nd)[i] = node(i)
    BY <1>4
  <1>9. QED
    BY <1>7, <1>8

\* What the tree invariant says of the level create_mkl_tree holds.
LEMMA Current ==
    ASSUME TypeOK, TreeInv, pc = "parent"
    PROVE  /\ pnt \in 1 .. Len(levels) /\ Len(levels) \in Nat /\ pnt = Len(levels)
           /\ levels \in Seq(Levels) /\ levels[pnt] \in Levels
           /\ levels[pnt].nd \in Seq(NodeSet) /\ Len(levels[pnt].nd) \in Nat
           /\ LevelInv(pnt)
           /\ RootLevel(levels[pnt]) <=> Len(levels[pnt].nd) = 1
  <1>1. levels \in Seq(Levels) /\ Len(levels) \in Nat /\ pnt = Len(levels) /\ pnt \in 1 .. Len(levels)
    BY LenProperties DEF TypeOK, TreeInv, Levels, NodeSet
  <1>2. levels[pnt] \in Levels /\ LevelInv(pnt)
    BY <1>1, ElementOfSeq DEF TreeInv
  <1>3. levels[pnt].nd \in Seq(NodeSet) /\ Len(levels[pnt].nd) \in Nat
    BY <1>2, LenProperties DEF Levels
  <1>4. levels[pnt].nd[1].ntype = "ROOT" <=> Len(levels[pnt].nd) = 1
    BY <1>2 DEF LevelInv, AtHeight
  <1>5. RootLevel(levels[pnt]) <=> Len(levels[pnt].nd) = 1
    BY <1>4 DEF RootLevel
  <1>6. QED
    BY <1>1, <1>2, <1>3, <1>5

\* A multiple is at least its factor.
LEMMA Multiple == ASSUME NEW j \in Nat, NEW q \in Nat PROVE j <= j * (1 + q)
  <1>1. j * (1 + q) = j + j * q
    OBVIOUS
  <1>2. j * q \in Nat
    OBVIOUS
  <1>3. QED
    BY <1>1, <1>2

\* The parents of the nodes at height h are the nodes at height h + 1.
LEMMA ParentLevel ==
    ASSUME NEW s \in Inputs, NEW h \in Nat,
           NEW below, AtHeight(s, h, below), NEW n \in Nat, n = Len(below), n >= 2,
           NEW nd, nd = MarkRoot(ParentNodes(below))
    PROVE  /\ AtHeight(s, h + 1, nd)
           /\ Len(nd) = ParentLen(n)
           /\ \A i \in 1 .. Len(nd) : nd[i].lft = 2 * i - 1 /\ nd[i].rgt = RightChild(i, n)
  <1>0. /\ h <= Height[s] /\ below \in Seq(NodeSet)
        /\ \A j \in Nat : j < n <=> Exists(s, h, j)
        /\ \A i \in 1 .. n : Rev[below[i].bdy] = Merkle[s][h][i - 1]
    BY DEF AtHeight
  <1> DEFINE up == ParentNodes(below)
             m  == ParentLen(n)
  <1>1. /\ m \in Nat /\ m >= 1
        /\ \A j \in Nat : j < m <=> 2 * j < n
        /\ \A i \in 1 .. m : /\ 2 * i - 1 \in 1 .. n
                             /\ RightChild(i, n) \in 1 .. n
                             /\ RightChild(i, n) = IF 2 * i <= n THEN 2 * i ELSE 2 * i - 1
    BY Halved
  <1>2. /\ up \in Seq(NodeSet) /\ Len(up) = m
        /\ \A i \in 1 .. m : /\ up[i].lft = 2 * i - 1 /\ up[i].rgt = RightChild(i, n) /\ up[i].ntype = "BR"
                             /\ up[i].bdy = NodeHash(below[2 * i - 1].bdy, below[RightChild(i, n)].bdy)
    BY <1>0, Parents
  <1> HIDE DEF up, m
  <1>3. /\ nd \in Seq(NodeSet) /\ Len(nd) = m
        /\ \A i \in 1 .. m : nd[i].bdy = up[i].bdy /\ nd[i].lft = up[i].lft /\ nd[i].rgt = up[i].rgt
        /\ nd[1].ntype = "ROOT" <=> m = 1
    <2>1. Len(up) >= 1 /\ up[1].ntype # "ROOT" /\ nd = MarkRoot(up)
      BY <1>1, <1>2 DEF up
    <2>2. /\ MarkRoot(up) \in Seq(NodeSet) /\ Len(MarkRoot(up)) = Len(up)
          /\ \A i \in 1 .. Len(up) : /\ MarkRoot(up)[i].bdy = up[i].bdy
                                    /\ MarkRoot(up)[i].lft = up[i].lft
                                    /\ MarkRoot(up)[i].rgt = up[i].rgt
          /\ MarkRoot(up)[1].ntype = "ROOT" <=> Len(up) = 1
      BY <1>2, <2>1, Marked
    <2>3. QED
      BY <1>2, <2>1, <2>2
  <1>4. Len(s) \in Nat /\ Height[s] \in Nat /\ Len(s) <= Pow2[Height[s]]
    BY InputsAssumption, LenProperties, MerkleAssumption DEF InputsAssumption, MerkleAssumption
  <1>5. PICK P \in Nat \ {0} : P = Pow2[h]
    BY <1>0, <1>4, MerkleAssumption DEF MerkleAssumption
  <1>6. h + 1 <= Height[s]
    <2>1. 1 * P < Len(s)
      BY <1>0, <1>5 DEF Exists
    <2>2. h # Height[s]
      BY <1>4, <1>5, <2>1
    <2>3. QED
      BY <1>0, <1>4, <2>2
  <1>7. Pow2[h + 1] = 2 * P
    <2>1. h + 1 \in 1 .. Height[s] /\ (h + 1) - 1 = h
      BY <1>4, <1>6
    <2>2. QED
      BY <1>5, <2>1, MerkleAssumption DEF MerkleAssumption
  <1>8. \A j \in Nat : j < m <=> Exists(s, h + 1, j)
    <2> TAKE j \in Nat
    <2>1. 2 * j < n <=> (2 * j) * P < Len(s)
      <3>1. 2 * j \in Nat
        OBVIOUS
      <3>2. QED
        BY <1>0, <1>5, <3>1 DEF Exists
    <2>2. (2 * j) * P = j * (2 * P)
      BY <1>5
    <2>3. Exists(s, h + 1, j) <=> j * (2 * P) < Len(s)
      BY <1>7 DEF Exists
    <2>4. j < m <=> 2 * j < n
      BY <1>1
    <2>5. QED
      BY <2>1, <2>2, <2>3, <2>4
  <1>9. ASSUME NEW i \in 1 .. m
        PROVE  Rev[nd[i].bdy] = Merkle[s][h + 1][i - 1]
    <2>1. PICK r \in 1 .. n : r = RightChild(i, n) /\ r = IF 2 * i <= n THEN 2 * i ELSE 2 * i - 1
      BY <1>1
    <2>2. PICK l \in 1 .. n : l = 2 * i - 1
      BY <1>1
    <2>3. PICK j \in Nat : j = i - 1 /\ j < m /\ l - 1 = 2 * j
      BY <1>1, <2>2
    <2>4. PICK dl \in Digests, dr \in Digests : dl = Rev[below[l].bdy] /\ dr = Rev[below[r].bdy]
      <3>1. below[l] \in NodeSet /\ below[r] \in NodeSet
        BY <1>0, ElementOfSeq
      <3>2. below[l].bdy \in Digests /\ below[r].bdy \in Digests
        BY <3>1 DEF NodeSet, LeafNodes, BranchNodes
      <3>3. QED
        BY <3>2, DigestAssumption DEF DigestAssumption
    <2>5. Rev[nd[i].bdy] = Hash256[<<dl, dr>>]
      <3>1. nd[i].bdy = Rev[Hash256[<<dl, dr>>]]
        <4>1. nd[i].bdy = NodeHash(below[l].bdy, below[r].bdy)
          BY <1>2, <1>3, <2>1, <2>2
        <4>2. QED
          BY <2>4, <4>1 DEF NodeHash
      <3>2. Hash256[<<dl, dr>>] \in Digests
        BY <2>4, DigestAssumption DEF DigestAssumption
      <3>3. QED
        BY <3>1, <3>2, DigestAssumption DEF DigestAssumption
    <2>6. dl = Merkle[s][h][2 * j]
      BY <1>0, <2>2, <2>3, <2>4
    <2>7. dr = Merkle[s][h][IF Exists(s, h, 2 * j + 1) THEN 2 * j + 1 ELSE 2 * j]
      <3>1. Exists(s, h, 2 * j + 1) <=> 2 * j + 1 < n
        <4>1. 2 * j + 1 \in Nat
          BY <2>3
        <4>2. QED
          BY <1>0, <4>1
      <3>2. CASE 2 * j + 1 < n
        <4>1. r - 1 = 2 * j + 1
          BY <2>1, <2>3, <3>2
        <4>2. dr = Merkle[s][h][r - 1]
          BY <1>0, <2>4
        <4>3. QED
          BY <3>1, <3>2, <4>1, <4>2
      <3>3. CASE ~(2 * j + 1 < n)
        <4>1. r - 1 = 2 * j
          BY <2>1, <2>3, <3>3
        <4>2. dr = Merkle[s][h][r - 1]
          BY <1>0, <2>4
        <4>3. QED
          BY <3>1, <3>3, <4>1, <4>2
      <3>4. QED
        BY <3>2, <3>3
    <2>8. Exists(s, h + 1, j) /\ j \in 0 .. Len(s) - 1
      <3>1. Exists(s, h + 1, j)
        BY <1>8, <2>3
      <3>2. j * (2 * P) < Len(s)
        BY <1>7, <3>1 DEF Exists
      <3>3. j <= j * (2 * P)
        <4>1. PICK q \in Nat : 1 + q = 2 * P
          <5>1. 2 * P - 1 \in Nat /\ 1 + (2 * P - 1) = 2 * P
            OBVIOUS
          <5>2. QED
            BY <5>1
        <4>2. QED
          BY <2>3, <4>1, Multiple
      <3>4. j * (2 * P) \in Nat
        BY <1>5, <2>3
      <3>5. QED
        BY <1>4, <2>3, <3>1, <3>2, <3>3, <3>4
    <2>9. h + 1 \in 1 .. Height[s] /\ (h + 1) - 1 = h
      BY <1>4, <1>6
    <2>10. Merkle[s][h + 1][j] =
              Hash256[<<Merkle[s][h][2 * j],
                        Merkle[s][h][IF Exists(s, h, 2 * j + 1) THEN 2 * j + 1 ELSE 2 * j]>>]
      BY <2>8, <2>9, MerkleAssumption DEF MerkleAssumption
    <2>11. QED
      BY <2>3, <2>5, <2>6, <2>7, <2>10
  <1>10. AtHeight(s, h + 1, nd)
    <2>1. (h + 1) + 0 = h + 1 /\ Len(nd) >= 1 /\ (nd[1].ntype = "ROOT" <=> Len(nd) = 1)
      BY <1>1, <1>3
    <2>2. QED
      BY <1>3, <1>6, <1>8, <1>9, <2>1 DEF AtHeight
  <1>11. QED
    BY <1>2, <1>3, <1>10 DEF m

\* A further level keeps the types and the tree invariant.
LEMMA ParentStep ==
    ASSUME TypeOK, TreeInv, CreateParent, ~RootLevel(levels[pnt])
    PROVE  TypeOK' /\ TreeInv'
  <1>1. /\ pc = "parent" /\ pnt' = Len(levels) + 1 /\ input' = input
        /\ levels' = Append(levels, [nd |-> MarkRoot(ParentNodes(levels[pnt].nd)),
                                     dwn |-> pnt, inx |-> levels[pnt].inx + 1])
        /\ pc' \in {"parent", "done"} /\ (pc' = "done" => RootLevel(levels'[pnt']))
    BY DEF CreateParent, Returns
  <1>2. PICK p \in Nat \ {0} : p = pnt /\ p = Len(levels)
    BY <1>1, Current
  <1>3. PICK h \in Nat : h = p - 1
    BY <1>2
  <1>4. PICK below \in Seq(NodeSet) : below = levels[p].nd
    BY <1>1, <1>2, Current
  <1>5. levels[p].inx = p /\ AtHeight(input, h, below)
    BY <1>1, <1>2, <1>3, <1>4, Current DEF LevelInv
  <1>6. PICK n \in Nat : n = Len(below) /\ n >= 2
    <2>1. PICK m \in Nat : m = Len(below)
      BY LenProperties
    <2>2. m >= 1 /\ m # 1
      BY <1>1, <1>2, <1>4, <1>5, <2>1, Current DEF AtHeight
    <2>3. m >= 2
      BY <2>2
    <2>4. QED
      BY <2>1, <2>3
  <1>7. PICK nd : nd = MarkRoot(ParentNodes(below))
    OBVIOUS
  <1>8. /\ AtHeight(input, h + 1, nd)
        /\ Len(nd) = ParentLen(n)
        /\ \A i \in 1 .. Len(nd) : nd[i].lft = 2 * i - 1 /\ nd[i].rgt = RightChild(i, n)
    <2>1. input \in Inputs
      BY DEF TypeOK
    <2>2. QED
      BY <1>5, <1>6, <1>7, <2>1, ParentLevel
  <1>9. PICK level \in Levels : level = [nd |-> nd, dwn |-> p, inx |-> p + 1]
    <2>1. nd \in Seq(NodeSet) /\ p \in Nat /\ p + 1 \in Nat
      BY <1>8 DEF AtHeight
    <2>2. [nd |-> nd, dwn |-> p, inx |-> p + 1] \in Levels
      BY <2>1 DEF Levels
    <2>3. QED
      BY <2>2
  <1>10. level.nd = nd /\ level.dwn = p /\ level.inx = p + 1
    BY <1>9
  <1>11. levels' = Append(levels, level)
    BY <1>1, <1>2, <1>4, <1>5, <1>7, <1>9
  <1>12. /\ levels' \in Seq(Levels) /\ Len(levels') = p + 1 /\ levels'[p + 1] = level
         /\ \A k \in 1 .. p : levels'[k] = levels[k]
    BY <1>1, <1>2, <1>11, Current, AppendProperties
  <1>13. TypeOK'
    BY <1>1, <1>2, <1>12 DEF TypeOK, Levels, NodeSet
  <1>14. LevelInv(p + 1)'
    <2>1. h + 1 = p /\ (p + 1) - 1 = p
      BY <1>2, <1>3
    <2>2. levels'[p + 1].nd = nd /\ levels'[p + 1].dwn = p /\ levels'[p + 1].inx = p + 1
      BY <1>10, <1>12
    <2>3. QED
      BY <1>1, <1>8, <2>1, <2>2 DEF LevelInv
  <1>15. \A k \in 1 .. p : LevelInv(k)'
    BY <1>1, <1>2, <1>12 DEF TreeInv, LevelInv
  <1>16. LinkInv(p + 1)'
    <2>1. (p + 1) - 1 = p /\ p \in 1 .. p
      BY <1>2
    <2>2. levels'[p + 1].nd = nd /\ levels'[p].nd = below
      BY <1>4, <1>10, <1>12, <2>1
    <2>3. QED
      BY <1>6, <1>8, <2>1, <2>2 DEF LinkInv
  <1>17. \A k \in 2 .. p : LinkInv(k)'
    <2> TAKE k \in 2 .. p
    <2>1. k \in 1 .. p /\ k - 1 \in 1 .. p /\ k \in 2 .. Len(levels)
      BY <1>2
    <2>2. LinkInv(k) /\ levels'[k] = levels[k] /\ levels'[k - 1] = levels[k - 1]
      BY <1>12, <2>1 DEF TreeInv
    <2>3. QED
      BY <2>2 DEF LinkInv
  <1>18. \A k \in 1 .. Len(levels') : LevelInv(k)'
    BY <1>2, <1>12, <1>14, <1>15
  <1>19. \A k \in 2 .. Len(levels') : LinkInv(k)'
    BY <1>2, <1>12, <1>16, <1>17
  <1>20. QED
    BY <1>1, <1>2, <1>12, <1>13, <1>18, <1>19 DEF TreeInv

\* Every step keeps the types and the tree invariant.
LEMMA NextTree == TypeOK /\ TreeInv /\ [Next]_vars => TypeOK' /\ TreeInv'
  <1> SUFFICES ASSUME TypeOK, TreeInv, [Next]_vars PROVE TypeOK' /\ TreeInv'
    OBVIOUS
  <1>1. \A i \in 1 .. Len(input) : Rev[TxHash[input[i]]] \in Digests
    <2>1. \A i \in 1 .. Len(input) : input[i] \in Txs
      BY InputsAssumption, ElementOfSeq DEF TypeOK, InputsAssumption
    <2>2. QED
      BY <2>1, DigestAssumption DEF DigestAssumption
  <1>2. CASE CreateLeafs
    <2> DEFINE leafs == [i \in 1 .. Len(input) |-> HashedLeaf(input[i])]
    <2>1. leafs \in [1 .. Len(input) -> LeafNodes]
      BY <1>1 DEF HashedLeaf, LeafNodes
    <2>2. \A i \in 1 .. Len(input) : leafs[i].ntype = "LEAF" /\ leafs[i].bdy = Rev[TxHash[input[i]]]
      BY DEF HashedLeaf
    <2>3. LeafLevel(leafs)
      BY <1>2 DEF CreateLeafs
    <2> HIDE DEF leafs
    <2>4. QED
      BY <2>1, <2>2, <2>3, LeafsStep
  <1>3. CASE CreateLeafsFromTxids
    <2> DEFINE leafs == [i \in 1 .. Len(input) |-> CopiedLeaf(input[i])]
    <2>1. leafs \in [1 .. Len(input) -> LeafNodes]
      BY <1>1 DEF CopiedLeaf, Txid, LeafNodes
    <2>2. \A i \in 1 .. Len(input) : leafs[i].ntype = "LEAF" /\ leafs[i].bdy = Rev[TxHash[input[i]]]
      BY DEF CopiedLeaf, Txid
    <2>3. LeafLevel(leafs)
      BY <1>3 DEF CreateLeafsFromTxids
    <2> HIDE DEF leafs
    <2>4. QED
      BY <2>1, <2>2, <2>3, LeafsStep
  <1>4. CASE CreateParent /\ ~RootLevel(levels[pnt])
    BY <1>4, ParentStep
  <1>5. CASE CreateParent /\ RootLevel(levels[pnt])
    <2>1. /\ UNCHANGED <<input, levels, pnt>> /\ pc = "parent" /\ pc' \in {"parent", "done"}
          /\ RootLevel(levels'[pnt'])
      BY <1>5 DEF CreateParent, Returns
    <2>2. QED
      BY <2>1 DEF TypeOK, TreeInv, LevelInv, LinkInv
  <1>6. CASE UNCHANGED vars
    BY <1>6 DEF vars, TypeOK, TreeInv, LevelInv, LinkInv, RootLevel
  <1>7. QED
    BY <1>2, <1>3, <1>4, <1>5, <1>6 DEF Next, Returned

\* Init establishes both.
LEMMA InitTree == Init => TypeOK /\ TreeInv
  <1> SUFFICES ASSUME Init PROVE TypeOK /\ TreeInv
    OBVIOUS
  <1>1. levels = <<>> /\ Len(levels) = 0 /\ levels \in Seq(Levels)
    BY EmptySeq DEF Init
  <1>2. TypeOK
    BY <1>1 DEF Init, TypeOK, Levels, NodeSet
  <1>3. TreeInv
    BY <1>1 DEF Init, TreeInv
  <1>4. QED
    BY <1>2, <1>3

\* The types of the state hold in every reachable state, for every hash function.
THEOREM TypeCorrect == Spec => []TypeOK
  <1>1. QED
    BY InitTree, NextTree, PTL DEF Spec

\* The root level holds the Merkle root, at the lowest height that covers the list.
LEMMA RootIsMerkle == TypeOK /\ TreeInv => MerkleRoot
  <1> SUFFICES ASSUME TypeOK, TreeInv, pc = "done" PROVE MerkleRoot
    BY DEF MerkleRoot
  <1>1. PICK p \in Nat \ {0} : p = pnt /\ p \in 1 .. Len(levels)
    <2>1. Len(levels) \in Nat /\ Len(levels) >= 1 /\ pnt = Len(levels)
      BY LenProperties DEF TypeOK, TreeInv
    <2>2. QED
      BY <2>1
  <1> DEFINE nd == levels[p].nd
  <1>2. PICK h \in Nat : h = p - 1
    BY <1>1
  <1>3. levels[p].inx = p /\ AtHeight(input, h, nd) /\ RootLevel(levels[p])
    BY <1>1, <1>2 DEF TreeInv, LevelInv
  <1>4. Len(nd) = 1
    BY <1>3 DEF RootLevel
  <1>5. Rev[nd[1].bdy] = Merkle[input][h][0]
    <2>1. 1 \in 1 .. Len(nd) /\ 1 - 1 = 0
      BY <1>4
    <2>2. QED
      BY <1>3, <2>1 DEF AtHeight
  <1>6. input \in Inputs /\ Len(input) \in Nat /\ Height[input] \in Nat /\ h <= Height[input]
    BY <1>3, InputsAssumption, LenProperties, MerkleAssumption
    DEF TypeOK, AtHeight, InputsAssumption, MerkleAssumption
  <1>7. Len(input) <= Pow2[h]
    <2>1. ~Exists(input, h, 1)
      BY <1>3, <1>4 DEF AtHeight
    <2>2. Pow2[h] \in Nat
      BY <1>6, MerkleAssumption DEF MerkleAssumption
    <2>3. QED
      BY <1>6, <2>1, <2>2 DEF Exists
  <1>8. ASSUME h > 0 PROVE Len(input) > Pow2[h - 1]
    <2>1. p \in 2 .. Len(levels) /\ p - 1 \in 1 .. Len(levels) /\ (p - 1) - 1 = h - 1 /\ h - 1 \in 0 .. Height[input]
      BY <1>1, <1>2, <1>6, <1>8
    <2>2. Len(levels[p - 1].nd) > 1 /\ AtHeight(input, h - 1, levels[p - 1].nd)
      BY <2>1 DEF TreeInv, LinkInv, LevelInv
    <2>3. Exists(input, h - 1, 1)
      BY <2>2 DEF AtHeight
    <2>4. Pow2[h - 1] \in Nat
      BY <1>6, <2>1, MerkleAssumption DEF MerkleAssumption
    <2>5. QED
      BY <1>6, <2>3, <2>4 DEF Exists
  <1>9. levels[pnt].inx - 1 = h
    BY <1>1, <1>2, <1>3
  <1>10. QED
    BY <1>1, <1>5, <1>6, <1>7, <1>8, <1>9 DEF MerkleRoot

\* create_mkl_tree returns the Merkle root of every transaction list, for every hash
\* function and both ways of making leaves.
THEOREM RootCorrect == Spec => []MerkleRoot
  <1>1. QED
    BY InitTree, NextTree, RootIsMerkle, PTL DEF Spec

\* The links of a level cover the level below, in order.
LEMMA LinksConnect == TypeOK /\ TreeInv => TreeConnected
  <1> SUFFICES ASSUME TypeOK, TreeInv, NEW k \in 2 .. Len(levels)
               PROVE  LET nd    == levels[k].nd
                          below == levels[levels[k].dwn].nd
                      IN  /\ {nd[i].lft : i \in DOMAIN nd} \cup {nd[i].rgt : i \in DOMAIN nd} = DOMAIN below
                          /\ \A i \in DOMAIN nd : nd[i].lft = nd[i].rgt => nd[i].lft = Len(below)
                          /\ \A i, j \in DOMAIN nd : i < j => nd[i].rgt < nd[j].lft
    BY DEF TreeConnected
  <1>1. Len(levels) \in Nat /\ k \in 1 .. Len(levels) /\ k - 1 \in 1 .. Len(levels)
    BY LenProperties DEF TypeOK
  <1>2. levels[k].dwn = k - 1 /\ levels[k].nd \in Seq(NodeSet) /\ levels[k - 1].nd \in Seq(NodeSet)
    BY <1>1 DEF TreeInv, LevelInv, AtHeight
  <1>3. PICK nd \in Seq(NodeSet) : nd = levels[k].nd
    BY <1>2
  <1>4. PICK below \in Seq(NodeSet) : below = levels[k - 1].nd
    BY <1>2
  <1>5. PICK n \in Nat : n = Len(below) /\ DOMAIN below = 1 .. n
    BY LenProperties
  <1>6. PICK m \in Nat : m = Len(nd) /\ DOMAIN nd = 1 .. m
    BY LenProperties
  <1>7. /\ n >= 2 /\ m = ParentLen(n)
        /\ \A i \in 1 .. m : nd[i].lft = 2 * i - 1 /\ nd[i].rgt = RightChild(i, n)
    <2>1. n > 1 /\ m = ParentLen(n) /\ \A i \in 1 .. m : nd[i].lft = 2 * i - 1 /\ nd[i].rgt = RightChild(i, n)
      BY <1>3, <1>4, <1>5, <1>6 DEF TreeInv, LinkInv
    <2>2. QED
      BY <2>1
  <1>8. /\ \A j \in Nat : j < m <=> 2 * j < n
        /\ \A i \in 1 .. m : /\ 2 * i - 1 \in 1 .. n
                             /\ RightChild(i, n) \in 1 .. n
                             /\ RightChild(i, n) = IF 2 * i <= n THEN 2 * i ELSE 2 * i - 1
    BY <1>7, Halved
  <1>9. \A q \in 1 .. n : \E i \in 1 .. m : q = nd[i].lft \/ q = nd[i].rgt
    <2> TAKE q \in 1 .. n
    <2>1. PICK j \in Nat : q = 2 * j + 1 \/ q = 2 * j + 2
      <3>1. (q - 1) \div 2 \in Nat /\ (q = 2 * ((q - 1) \div 2) + 1 \/ q = 2 * ((q - 1) \div 2) + 2)
        OBVIOUS
      <3>2. QED
        BY <3>1
    <2>2. j < m
      <3>1. 2 * j < n
        BY <2>1
      <3>2. QED
        BY <1>8, <3>1
    <2>3. j + 1 \in 1 .. m
      BY <2>2
    <2>4. CASE q = 2 * j + 1
      BY <1>7, <2>3, <2>4
    <2>5. CASE q = 2 * j + 2
      <3>1. 2 * (j + 1) <= n /\ 2 * (j + 1) = q
        BY <2>5
      <3>2. nd[j + 1].rgt = q
        BY <1>7, <1>8, <2>3, <3>1
      <3>3. QED
        BY <2>3, <3>2
    <2>6. QED
      BY <2>1, <2>4, <2>5
  <1>10. \A i \in 1 .. m : nd[i].lft \in 1 .. n /\ nd[i].rgt \in 1 .. n
    BY <1>7, <1>8
  <1>11. {nd[i].lft : i \in DOMAIN nd} \cup {nd[i].rgt : i \in DOMAIN nd} = DOMAIN below
    <2> DEFINE L == {nd[i].lft : i \in 1 .. m}
               R == {nd[i].rgt : i \in 1 .. m}
    <2>1. \A q \in L \cup R : q \in 1 .. n
      BY <1>10
    <2>2. \A q \in 1 .. n : q \in L \cup R
      BY <1>9
    <2> HIDE DEF L, R
    <2>3. L \cup R = 1 .. n
      BY <2>1, <2>2
    <2>4. QED
      BY <1>5, <1>6, <2>3 DEF L, R
  <1>12. ASSUME NEW i \in 1 .. m, nd[i].lft = nd[i].rgt PROVE nd[i].lft = n
    <2>1. PICK r \in 1 .. n : r = RightChild(i, n) /\ r = IF 2 * i <= n THEN 2 * i ELSE 2 * i - 1
      BY <1>8
    <2>2. r = 2 * i - 1 /\ 2 * i - 1 \in 1 .. n
      BY <1>7, <1>8, <1>12, <2>1
    <2>3. 2 * i - 1 = n
      BY <2>1, <2>2
    <2>4. QED
      BY <1>7, <2>3
  <1>13. ASSUME NEW i \in 1 .. m, NEW j \in 1 .. m, i < j PROVE nd[i].rgt < nd[j].lft
    <2>1. PICK r \in 1 .. n : r = RightChild(i, n) /\ r = IF 2 * i <= n THEN 2 * i ELSE 2 * i - 1
      BY <1>8
    <2>2. r < 2 * j - 1
      BY <1>13, <2>1
    <2>3. nd[i].rgt = r /\ nd[j].lft = 2 * j - 1
      BY <1>7, <2>1
    <2>4. QED
      BY <2>2, <2>3
  <1>14. QED
    BY <1>2, <1>3, <1>4, <1>5, <1>6, <1>11, <1>12, <1>13

\* In every level every node of the level below has a parent, and only the last of
\* an odd number is counted twice, for transaction lists of any length.
THEOREM ConnectedCorrect == Spec => []TreeConnected
  <1>1. QED
    BY InitTree, NextTree, LinksConnect, PTL DEF Spec

------------------------------------------------------------------------------
\* The programs do with the levels nothing that create_mkl_leafs,
\* create_mkl_leafs_from_txid_hexs and create_mkl_tree would not do.
THEOREM TestsMakeTrees == TestSpec => Spec
<1>1. TestInit => Init
  BY DEF TestInit
<1>2. [TestNext]_testVars => [Next]_vars
  <2>. SUFFICES ASSUME [TestNext]_testVars PROVE [Next]_vars
    OBVIOUS
  <2>1. CASE MakeLeafs
    BY <2>1 DEF MakeLeafs, Next
  <2>2. CASE MakeTree
    BY <2>2 DEF MakeTree, Next
  <2>3. CASE BuildTxBuf \/ PrintTree \/ PrintRootLevel \/ PrintRootNode
    BY <2>3 DEF BuildTxBuf, PrintTree, PrintRootLevel, PrintRootNode
  <2>4. CASE UNCHANGED testVars
    BY <2>4 DEF testVars
  <2>. QED
    BY <2>1, <2>2, <2>3, <2>4 DEF TestNext, Step
<1>. QED
  BY <1>1, <1>2, PTL DEF TestSpec, Spec

\* What the programs print is taken from a root that is the Merkle root.
THEOREM TestRootCorrect == TestSpec => []MerkleRoot
BY TestsMakeTrees, RootCorrect, PTL
==============================================================================
