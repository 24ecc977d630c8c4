SPECIFICATION Spec
CONSTANTS
    Packet <- MCPacket
    Rules <- MCRules
    WithFlag <- MCWithFlag
    Broadcast <- MCBroadcast
    Unlisted = Unlisted
    MaxPhrases = 3
CHECK_DEADLOCK FALSE
INVARIANTS
    TypeOK
    OptionsKept
    RefusedForCause
    NothingMissed
    NothingAdded
