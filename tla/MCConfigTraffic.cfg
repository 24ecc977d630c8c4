SPECIFICATION Spec
CONSTANTS
    Name = {1, 2}
    MAC = {1, 2}
    IP = {a, b, x}
    NoIP = NoIP
    a = a
    b = b
    x = x
    Interfaces <- MCInterfaces
    Port = {65616}
    IcmpType = {0}
    IcmpCode = {65535}
    NumPackets = {1}
    Dumps <- MCDumps
    NoDump = NoDump
    NoFrame = NoFrame
    NoBlock = NoBlock
    MaxBlocks = 2
    MaxFlags = 2
    MaxExtras = 1
    MaxLent = 2
CONSTRAINT Bounded
INVARIANTS
    TypeOK
    FramesTrue
    DumpsTrue
    LentOnce
    PrintedIfComplete
    MasqueradedByIn
    FlagsAsAsked
