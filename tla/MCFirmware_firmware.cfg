SPECIFICATION FairSpec
CHECK_DEADLOCK FALSE
CONSTANTS
    Programs <- MCPrograms
    Regs <- MCRegs
    FirmwareSp = 13
    NumPc = 3
    MaxTraps = 2
INVARIANTS TypeOK VectorRestored Expected TimerUnmasked
PROPERTIES ImplementsHart TimerDelivered
