SPECIFICATION Spec
CONSTANTS
    Packet <- MCPacket
    Rules <- Multiport
    WithFlag <- MCWithFlag
    Broadcast <- MCBroadcast
    Unlisted = Unlisted
    MaxPhrases = 2
CHECK_DEADLOCK FALSE
INVARIANT JumpsWhenSatisfied
