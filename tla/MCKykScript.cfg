SPECIFICATION Spec
CONSTANTS
    Values <- MCValues
    Size <- MCSize
    KeySize = 33
    Hash160 <- MCHash160
    SigVerify <- MCSigVerify
    BufSize = 5
    Scripts <- MCScripts
    Depth <- MCDepth
INVARIANTS
    TypeOK
    MemorySafe
    LeakAccounted
    SpendCorrect
