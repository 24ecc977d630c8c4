CONSTANTS
    b1 = b1
    b2 = b2
    Block = {b1, b2}
    Policy <- MCPolicy
    numPackets <- MCnumPackets
    Text = {"table"}
    MaxTexts = 1
    NoPacket = NoPacket
SPECIFICATION Spec
INVARIANTS TypeOK NoDangling FilesExact LostExact
PROPERTY Reported
