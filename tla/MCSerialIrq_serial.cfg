SPECIFICATION FairSpec
CONSTANTS
    Input <- Keys
    Output <- Text
    Banner = 1
    BitDiv = 24
    IntrMask <- KindOfIntr
    MaxEvents = 2
INVARIANTS
    TypeOK
PROPERTIES
    KernelReads
    LineCarries
    InputConsumed
    LevelServed
    InterruptsEnd
