SPECIFICATION FairSpec
CONSTANTS
    Page = {"linear", "text", "module", "data", "user"}
    Frame = {"tables", "ftext", "fmodule", "f0", "f1", "fuser", "hole"}
    Holes = {"hole"}
    Tables = "tables"
    Table = {"A", "B", "LA", "LB", "LK"}
    Space = {"A", "B"}
    Sum = TRUE
    Mxr = FALSE
    Window = 2
    Programs <- MCPrograms
INVARIANTS TypeOK Answers
PROPERTIES Served
