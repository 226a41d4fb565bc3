SPECIFICATION Spec
CONSTANTS
    Programs <- MCAliasPrograms
    Delegated <- MCDelegated
PROPERTY LevelFollows
