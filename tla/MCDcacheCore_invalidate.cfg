SPECIFICATION Spec
CONSTANTS
    NumSets = 2
    NumWords = 2
    NumTags = 2
    Value <- MCValue
    Junk <- MCJunk
    Requests <- MaintenanceRequests
    IdleAddrs <- MCIdleAddrs
    PowerUp <- MCPowerUp
    MemInit <- MCMemInit
INVARIANTS InvalidateDrops
