SPECIFICATION FairSpec
CONSTANTS
    Clients = {c1, c2}
    Listener = Listener
    HdrSize = 3
    LenOff = 1
    LenEnd = 2
    BufSize = 5
    Lens = {0, 2}
    ReplyBase = 2
    Backlog = 1
    MaxFaults = 1
PROPERTIES
    UnhurtAnswered
    ClientsFinish
    ZombiesReaped
    StrandedStays
    ImplementsService
