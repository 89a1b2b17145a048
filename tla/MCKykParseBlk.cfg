SPECIFICATION FairSpec
CONSTANTS
    Files <- MCFiles
    BlockCounts = {0, 1, 2, 4}
    Unknown = {0, 300, 20000}
    Words = {11, 12, 15, 16, 17, 21, 22, 25, 26, 27, 31, 32, 35, 36, 37}
    Hashes = {13, 14, 23, 24, 33, 34}
    Byte = 8
    Junk = Junk
INVARIANTS
    TypeOK
    BlocksInOrder
    BlockBehindTheEnd
PROPERTY Ends
