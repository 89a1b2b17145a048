SPECIFICATION Spec
CONSTANTS
    Clients = {c1, c2}
    Listener = Listener
    HdrSize = 4
    LenOff = 1
    LenEnd = 3
    BufSize = 7
    Lens = {0, 2, 3}
    ReplyBase = 2
    Backlog = 1
    MaxFaults = 1
SYMMETRY ClientSymmetry
INVARIANTS
    TypeOK
    AnswerIsEcho
    BodyIsPrefix
    DescriptorsBalanced
    NoZombieForgotten
