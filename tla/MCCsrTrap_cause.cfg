SPECIFICATION Spec
CONSTANTS
    Programs <- MCTimerPrograms
    Delegated <- MCDelegated
INVARIANT CauseKnown
