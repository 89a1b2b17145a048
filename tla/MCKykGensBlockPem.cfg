SPECIFICATION GensSpec
CONSTANTS
    Keys = {1, 2, 3}
    PemKey = 1
    Rests <- MCRests
    SeriRest <- MCSeriRest
    Bts <- MCBts
    TxHash <- MCTxHash
    Hash256 <- MCHash256
    GensBts = 197
    Base = 4
    NonceMod = 3
    HashValue <- MCHashValue
    MaxRuns = 2
INVARIANT PaysPemKey
