SPECIFICATION Spec
CONSTANTS
    h1 = h1
    h2 = h2
    Header = {h1, h2}
    Name <- MCName
    RuleSets <- MCRuleSets
    MasqChain = "masq"
    NoPacket = NoPacket
    MaxPackets = 3
    Running = Running
INVARIANTS
    TypeOK
    CallsNested
    BacktracksHere
    UnusedExact
PROPERTIES
    WalksIptables
    Leaves
