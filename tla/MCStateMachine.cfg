SPECIFICATION SMSpec
CONSTANTS
    IP = {c, s}
    NoIP = NoIP
    Port = {1}
    Protocol = {"ICMP", "TCP", "OTHER"}
    IcmpType = {0, 3, 8}
    NoPacket = NoPacket
    MaxEntries = 2
CONSTRAINT FewEntries
INVARIANTS
    SMTypeOK
    EntriesDistinct
