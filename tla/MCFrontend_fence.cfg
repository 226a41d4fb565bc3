SPECIFICATION Spec
CONSTANTS
    NumTags = 2
    NumSets = 2
    LinePairs = 2
    Branch <- MCBranch
    Fences <- MCFences
    Traps <- MCTraps
    ResetVector = 0
    Patched = 5
    PowerUp <- MCPowerUp
INVARIANT FenceFlushes
