SPECIFICATION Spec
CONSTANTS
    IP = {c, f, s}
    NoIP = NoIP
    Port = {1, 2}
    Protocol = {"ICMP", "TCP", "OTHER"}
    IcmpType = {0, 3, 8}
    NoPacket = NoPacket
    c = c
    f = f
    s = s
    Traffic <- MCTraffic
    LocalIP <- MCLocalIP
    NatRules <- MCNatRules
    MaxEntries = 2
CONSTRAINT Bounded NoClash
INVARIANTS
    TypeOK
    ReplyRecognised
    TranslationStable
    EstablishedStays
    RoundTrip
    Transparent
    NatFreeReply
    RelatedFollows
