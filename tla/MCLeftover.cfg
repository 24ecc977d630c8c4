SPECIFICATION Spec
CONSTANTS
    Byte = {"x", "y", "z"}
    Config = {"one", "two"}
    Parts <- MCParts
    MaxRuns = 1
    MaxStarts = 2
    MaxFaults = 1
    None = None
CHECK_DEADLOCK FALSE
INVARIANT ReturnsOutput
