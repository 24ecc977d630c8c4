SPECIFICATION Spec
CONSTANTS
    Byte = {"x", "y", "z"}
    Config = {"one", "two"}
    Parts <- MCParts
    MaxRuns = 2
    MaxStarts = 3
    MaxFaults = 2
    None = None
CHECK_DEADLOCK FALSE
INVARIANTS TypeOK GarbledOnce StaleOnce OutputOfThisStart EvidenceKept
PROPERTY Ends
