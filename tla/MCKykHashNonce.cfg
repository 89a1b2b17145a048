SPECIFICATION FairTestSpec
CONSTANTS
    Rests = {1, 6}
    SeriRest <- MCSeriRest
    Base = 6
    NonceMod = 7
    Bts <- MCBts
    MaxTarget = 20
    HashValue <- MCHashValue
INVARIANTS
    TypeOK
    MinedMeetsTarget
    FirstNonce
    ShownAgrees
PROPERTY MinesIfPossible
