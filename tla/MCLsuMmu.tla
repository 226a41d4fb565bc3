------------------------------ MODULE MCLsuMmu -------------------------------
(* Software for the load store unit and the MMU: a kernel that runs from the *)
(* page "text", prefetches from "module", reaches the tables through the     *)
(* superpage "linear", and a user with one page of code and one of data.     *)
EXTENDS LsuMmu, TLC

Leaf(f, p) == [kind |-> "leaf", to |-> f, perm |-> p]
Ptr(t)     == [kind |-> "ptr", to |-> t, perm |-> {}]
At(l, t, p) == [level |-> l, table |-> t, page |-> p]

\* Two roots, A and B, share the second level table LK of the kernel; in A the
\* user's data is not mapped at first.
Kernel(t) == (At(1, t, "linear") :> Leaf("tables", {"r", "w"})) @@ (At(1, t, "text") :> Ptr("LK"))
             @@ (At(1, t, "module") :> Ptr("LK"))
MCTables ==
    Kernel("A") @@ Kernel("B")
    @@ (At(2, "LK", "text") :> Leaf("ftext", {"x"})) @@ (At(2, "LK", "module") :> Leaf("fmodule", {"x"}))
    @@ (At(1, "A", "user") :> Ptr("LA")) @@ (At(2, "LA", "user") :> Leaf("fuser", {"x", "u"}))
    @@ (At(2, "LA", "data") :> Leaf("f0", {"r", "w", "u"}))
    @@ (At(1, "B", "user") :> Ptr("LB")) @@ (At(2, "LB", "user") :> Leaf("fuser", {"x", "u"}))
    @@ (At(1, "B", "data") :> Ptr("LB")) @@ (At(2, "LB", "data") :> Leaf("f1", {"r", "u"}))
MapData == (At(1, "A", "data") :> Ptr("LA")) @@ MCTables

Do(o, a) == [op |-> o, va |-> a, mis |-> FALSE, w |-> NoUpdate]
Misaligned(o, a) == [Do(o, a) EXCEPT !.mis = TRUE]
Write(c, e) == [Do("st", "linear") EXCEPT !.w = [cell |-> c, entry |-> e]]

Code(s, u) == [p \in Priv |-> IF p = "M" THEN {"ftext"} ELSE IF p = "S" THEN s ELSE u]
Ops(m, s, u) == [p \in Priv |-> IF p = "M" THEN m ELSE IF p = "S" THEN s ELSE u]

\* Data is mapped, remapped read only, and remapped to nothing that answers,
\* with and without a flush, while kernel and user use it.
DataProgram ==
    [ops |-> Ops({Do("st", "f1")},
                 {Do("ld", "data"), Misaligned("st", "data"), Write(At(1, "A", "data"), Ptr("LA")),
                  Write(At(2, "LA", "data"), Leaf("f1", {"r", "u"})), Write(At(2, "LA", "data"), Leaf("hole", {"r", "u"}))},
                 {Do("st", "data")}),
     code |-> Code({"text"}, {"user"}), csr |-> {"sfence"}, privs |-> {"S", "U"}, satp |-> "A", tables |-> MCTables]

\* The page fetched ahead is unmapped and mapped again.
FetchProgram ==
    [ops |-> Ops({}, {Write(At(2, "LK", "module"), Absent), Write(At(2, "LK", "module"), Leaf("fmodule", {"x"}))}, {}),
     code |-> Code({"text", "module"}, {"user"}), csr |-> {"sfence"}, privs |-> {"S"}, satp |-> "A", tables |-> MCTables]

\* satp changes between the two roots.
SwitchProgram ==
    [ops |-> Ops({}, {Do("ld", "data")}, {Do("ld", "data")}),
     code |-> Code({"text"}, {"user"}), csr |-> {"satp"}, privs |-> {"S", "U", "M"}, satp |-> "A", tables |-> MapData]

MCPrograms == [data |-> DataProgram, fetch |-> FetchProgram, switch |-> SwitchProgram]

\* The software the theorem on Answers is about.
ASSUME ProgramsOrderly == \A n \in DOMAIN Programs : Orderly(Programs[n])
=============================================================================
