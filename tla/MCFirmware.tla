------------------------------ MODULE MCFirmware -------------------------------
(* Instances of Firmware for TLC.                                             *)
EXTENDS Firmware, TLC

Op(op, rd, rs1, rs2) == [op |-> op, rd |-> rd, rs1 |-> rs1, rs2 |-> rs2, imm |-> 0, seen |-> "same"]
Li(rd, imm) == [Op("li", rd, "zero", "zero") EXCEPT !.imm = imm]
Call(op) == Op(op, "zero", "zero", "zero")
MapPage(p) == [Call("map") EXCEPT !.imm = p]
Seen(i, how) == [i EXCEPT !.seen = how]

MCRegs == {"zero", "sp", "a0", "a1"}

\* The atomics, with the destination equal to, or other than, the operands.
MCAtomics ==
    {Op(op, "a1", "a0", "a1") : op \in AmoOps} \cup
    {Op("amoadd", "zero", "a0", "a1"), Op("lr", "a1", "a0", "zero"),
     Op("sc", "a1", "a0", "a1"), Op("sc", "zero", "a1", "a0"), MapPage(2), Call("sret"), Li("a0", 8)}

\* Loads and stores of any alignment.
MCLoads ==
    {Op("lw", "a1", "a0", "zero"), Op("lh", "a1", "a0", "zero"), Op("lhu", "a0", "a0", "zero"),
     Op("lw", "zero", "a0", "zero"), Seen(Op("lw", "a1", "a0", "zero"), "other"),
     Seen(Op("lh", "a1", "a0", "zero"), "fault"), MapPage(2), Call("sret"), Li("a1", 6)}
MCStores ==
    {Op("sw", "zero", "a0", "a1"), Op("sh", "zero", "a0", "a1"), Op("sh", "zero", "a0", "zero"),
     Seen(Op("sh", "zero", "a0", "a1"), "other"), Seen(Op("sw", "zero", "a0", "a1"), "fault"),
     MapPage(2), Call("sret")}

\* The calls, with a timer and a reservation.
MCCalls ==
    {Call(op) : op \in Calls} \cup
    {Op("lr", "zero", "a1", "zero"), Op("sc", "zero", "a1", "a1"), Call("sret"), Call("bad")}

\* A program in a memory whose bytes and words differ, with an address in a0
\* and data in a1; page 2 is mapped as given.
Starting(is, a0, a1, how) ==
    [code |-> is,
     x    |-> ("zero" :> 0) @@ ("sp" :> 5) @@ ("a0" :> a0) @@ ("a1" :> a1),
     mem  |-> [b \in Word |-> IF b \in {4, 5, 7, 9, 11} THEN 1 ELSE 0],
     attr |-> [p \in Page |-> CASE p = 1 -> "rw" [] p = 2 -> how [] OTHER -> "none"]]

MCPrograms ==
    {Starting(MCAtomics, 4, a1, "ro") : a1 \in {3, 10}} \cup
    {Starting(MCAtomics, 8, 10, how) : how \in Mappings} \cup {Starting(MCAtomics, 11, 3, "rw")} \cup
    {Starting(is, a0, 6, how) : is \in {MCLoads, MCStores}, a0 \in 4..8 \cup {11}, how \in Mappings} \cup
    {Starting(MCCalls, 3, 4, "rw")}

\* The programs are ones the frame serves, so ImplementsHart is expected of them.
ASSUME ProgramsSupported == \A p \in MCPrograms : Supported(p)
===============================================================================
