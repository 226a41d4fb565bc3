SPECIFICATION MCSpec
CONSTANTS
    NumSets = 2
    NumWords = 2
    NumTags = 3
    Value <- MCValue
    Junk <- MCJunk
    Requests <- AllRequests
    IdleAddrs <- MCIdleAddrs
    PowerUp <- MCPowerUp
    MemInit <- MCMemInit
INVARIANTS TypeOK BurstInStep UniqueResidency CleanMatchesMemory FlushedOut WrittenBack
PROPERTIES TransparentIfTame Answered
