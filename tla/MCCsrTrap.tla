----------------------------- MODULE MCCsrTrap ------------------------------
(* Instances of CsrTrap for TLC: the CSR accesses of the boot program        *)
(* (bootloader/main.c 70-100, sbi.c 53-57) and of a supervisor under it.     *)
EXTENDS CsrTrap, TLC

Op(kind) == [NoInstr EXCEPT !.kind = kind]
Csr(num, op, bits) == [Op("csr") EXCEPT !.num = num, !.op = op, !.bits = bits]
Xret(lvl) == [Op("xret") EXCEPT !.lvl = lvl]

\* medeleg of boot_kernel: all but ecall from S, illegal and misaligned.
MCDelegated == {"ecall0", "fault"}

\* The timer and the external interrupt, in the modes M and S.
MCTimerProgram ==
    (0 :> {}) @@
    (1 :> {Op("mem"), Op("ecall"),
           Csr("sstatus", "set", {"sie"}), Csr("sstatus", "clr", {"sie"})}) @@
    (3 :> {Csr("mideleg", "rw", Irq \ {"mtip"}), Csr("mstatus", "rw", {"mpp0", "mpie"}),
           Csr("mie", "set", {"mtip", "seip"}), Csr("mie", "clr", {"mtip"}), Csr("mip", "clr", {"mtip"}),
           Csr("mip", "set", {}), Csr("mtimecmp", "rw", {}), Xret(3)})

\* The three modes, the traps and returns between them, and accesses that are
\* denied, with the external interrupt.
MCModesProgram ==
    (0 :> {Op("mem"), Op("ecall"), Op("invalid"), Csr("sstatus", "set", {"sie"})}) @@
    (1 :> {Op("mem"), Op("fence"), Op("ecall"), Csr("sstatus", "clr", {"sie", "spp"}), Xret(1), Xret(3)}) @@
    (3 :> {Op("wfi"), Op("mem"), Csr("mideleg", "rw", Irq \ {"mtip"}), Csr("mstatus", "rw", {"mpp0", "sie"}),
           Csr("mie", "set", {"seip"}), Xret(3)})

\* A supervisor whose only access to a CSR is one that is not: an ordinary
\* instruction with the number of sip in its immediate.
MCAliasProgram ==
    (0 :> {}) @@
    (1 :> {[Op("plain") EXCEPT !.num = "sip"], Op("mem")}) @@
    (3 :> {Csr("mideleg", "rw", Irq \ {"mtip"}), Csr("mstatus", "rw", {"mpp0"}),
           Csr("mie", "set", {"seip"}), Xret(3)})

MCPrograms == {MCTimerProgram, MCModesProgram}
MCTimerPrograms == {MCTimerProgram}
MCAliasPrograms == {MCAliasProgram}
=============================================================================
