SPECIFICATION HistorySpec
CHECK_DEADLOCK FALSE
CONSTANTS
    Programs <- MCReservedPrograms
    Regs <- MCRegs
    FirmwareSp = 13
    NumPc = 3
    MaxTraps = 2
PROPERTIES PairedStore
