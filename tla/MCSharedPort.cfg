SPECIFICATION Spec
CONSTANTS
    IP = {c1, c2, f, s}
    NoIP = NoIP
    Port = {1}
    Protocol = {"TCP"}
    IcmpType = {8}
    NoPacket = NoPacket
    c1 = c1
    c2 = c2
    f = f
    s = s
    Traffic <- MCTraffic
    LocalIP <- MCLocalIP
    NatRules <- MCNatRules
    MaxEntries = 2
CONSTRAINT Bounded
ACTION_CONSTRAINT AllPass
INVARIANT ReplyToOriginator
