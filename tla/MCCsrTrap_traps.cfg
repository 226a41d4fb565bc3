SPECIFICATION Spec
CONSTANTS
    Programs <- MCPrograms
    Delegated <- MCDelegated
INVARIANTS TypeOK PrivilegeKept TrapAllowed CsrCommits Flushed
PROPERTY PendingKept
