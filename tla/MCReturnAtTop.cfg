SPECIFICATION Spec
CONSTANTS
    h1 = h1
    h2 = h2
    Header = {h1, h2}
    Name <- MCName
    RuleSets <- ReturnAtTop
    MasqChain = "masq"
    NoPacket = NoPacket
    MaxPackets = 1
    Running = Running
INVARIANT BacktrackAsserted
