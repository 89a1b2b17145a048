SPECIFICATION FairTestSpec
CONSTANTS
    AllUpTo = 5
    MaxTxs = 20
    Programs <- MCPrograms
    Txs <- MCTxs
    Digests <- MCDigests
    Rev <- MCRev
    TxHash <- MCTxHash
    Hash256 <- MCHash256
    Inputs <- MCInputs
    Pow2 <- MCPow2
    Height <- MCHeight
    Merkle <- MCMerkle
INVARIANTS
    TypeOK
    TreeConnected
    MerkleRoot
PROPERTY TreePrinted
