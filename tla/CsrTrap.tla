------------------------------ MODULE CsrTrap -------------------------------
(* Interrupts and traps of the core: the control and status registers        *)
(* (biriscv_csr_regfile.v), the CSR unit (biriscv_csr.v), the issue rules of *)
(* biriscv_issue.v and the stages of biriscv_pipe_ctrl.v between them.  A    *)
(* step is one clock cycle.  An interrupt is launched by marking the         *)
(* instruction being issued, reaches write back three cycles or more later,  *)
(* and finds there what the machine has become in the meantime.              *)
(*                                                                           *)
(* A CSR is the set of its bits that are one, and mpp is two of them.  Left  *)
(* out are the program counter, the registers that only hold addresses, the  *)
(* results of ordinary instructions, and the second slot, which takes no CSR *)
(* instruction: its memory faults are those of the "mem" instructions here.  *)
EXTENDS Naturals

CONSTANTS
    Programs,  \* each a piece of software: the instructions it may issue at each privilege
    Delegated  \* the exceptions medeleg hands to the supervisor

Priv    == {0, 1, 3}   \* PRIV_USER, PRIV_SUPER, PRIV_MACHINE
MIrq    == {"msip", "mtip", "meip"}
SIrq    == {"ssip", "stip", "seip"}
Irq     == MIrq \cup SIrq
MppBits == {"mpp0", "mpp1"}
SStatus == {"sie", "spie", "spp"}
Status  == {"mie", "mpie"} \cup MppBits \cup SStatus
Csrs    == {"mip", "sip", "mie", "sie", "mstatus", "sstatus", "mideleg", "mtimecmp"}
Causes  == {"illegal", "ecall0", "ecall1", "ecall3", "fault"}
Events  == {"none", "intr", "eret1", "eret3", "fence"} \cup Causes
Kinds   == {"none", "plain", "mem", "csr", "xret", "ecall", "fence", "wfi", "invalid", "intr"}

\* num is the CSR of a CSR instruction, and for any other one the CSR that
\* the same bits of its encoding happen to name.
Instr   == [kind : Kinds, num : Csrs \cup {"none"}, op : {"rw", "set", "clr"},
            bits : SUBSET (Status \cup Irq), lvl : {1, 3}]
Result  == [wr : BOOLEAN, data : SUBSET (Status \cup Irq), exc : Events]
Stage   == [instr : Instr, res : Result]

NoInstr  == [kind |-> "none", num |-> "none", op |-> "rw", bits |-> {}, lvl |-> 3]
Marked   == [NoInstr EXCEPT !.kind = "intr"]
NoResult == [wr |-> FALSE, data |-> {}, exc |-> "none"]
Bubble   == [instr |-> NoInstr, res |-> NoResult]

\* MPP never gets the value 2, which is no mode: an instruction that writes
\* it leaves 0, 1 or 3 where it finds one of them (main.c 80 writes 1).
LegalMpp(i) ==
    i.kind = "csr" /\ i.num = "mstatus" =>
        i.bits \cap MppBits # IF i.op = "clr" THEN {"mpp0"} ELSE {"mpp1"}

\* What software may consist of.
Software == {i \in Instr : i.kind # "intr" /\ LegalMpp(i)}

ASSUME ProgramAssumption ==
    /\ \A p \in Programs : p \in [Priv -> SUBSET Software]
    /\ Delegated \subseteq Causes

VARIABLES
    csr_sr_q, csr_mie_q, csr_mideleg_q, csr_mpriv_q,
    csr_mip_q,
    csr_mip_next_q,    \* interrupts that arrive while an instruction holds mip
    csr_mip_upd_q,     \* an instruction has read mip or sip and not written it
    csr_mtime_ie_q,    \* mtimecmp was written and has not matched
    irq_priv_q,        \* the level of the last interrupt that was enabled
    take_interrupt_q,  \* mark the next instruction issued
    csr_pending_q,     \* a CSR instruction is on its way to write back
    squash_q,          \* squash_e1_e2_q: the cycle after an exception left E2
    branch_q,          \* the branch of a trap is requested from the fetch unit
    e1, csr_e1, e2, wb,  \* the stages; csr_e1 is the CSR unit's result
    timer,             \* mcycle against mtimecmp: "ahead", "now" (equal), "past"
    ext,               \* ext_intr_i, the line of the interrupt controller
    program            \* the software that runs

regVars  == <<csr_sr_q, csr_mie_q, csr_mideleg_q, csr_mpriv_q>>
mipVars  == <<csr_mip_q, csr_mip_next_q, csr_mip_upd_q>>
pipeVars == <<csr_pending_q, squash_q, branch_q, e1, csr_e1, e2, wb>>
vars == <<regVars, mipVars, csr_mtime_ie_q, irq_priv_q, take_interrupt_q, pipeVars, timer, ext, program>>

-----------------------------------------------------------------------------
\* mstatus.MPP as a privilege, and the status word with it replaced.
Mpp(sr) == (IF "mpp0" \in sr THEN 1 ELSE 0) + (IF "mpp1" \in sr THEN 2 ELSE 0)
\* Mutation: the saved privilege loses its low bit.
WithMpp_HighBit(sr, p) == (sr \ MppBits) \cup (IF p = 3 THEN {"mpp1"} ELSE {})
WithMpp(sr, p) ==
    (sr \ MppBits) \cup (IF p = 3 THEN MppBits ELSE IF p = 1 THEN {"mpp0"} ELSE {})

\* Bit "to" takes the value of bit "from"; "from" becomes one if set, else zero.
Move(sr, from, to, set) ==
    LET copied == IF from \in sr THEN sr \cup {to} ELSE sr \ {to}
    IN  IF set THEN copied \cup {from} ELSE copied \ {from}

\* The masked interrupts: a level with any enabled interrupt hides the lower.
MEnabled == csr_mpriv_q < 3 \/ "mie" \in csr_sr_q
SEnabled == csr_mpriv_q < 1 \/ (csr_mpriv_q = 1 /\ "sie" \in csr_sr_q)
MPending == IF MEnabled THEN (csr_mip_q \cap csr_mie_q) \ csr_mideleg_q ELSE {}
SPending == IF SEnabled THEN csr_mip_q \cap csr_mie_q \cap csr_mideleg_q ELSE {}
Interrupts == IF MPending # {} THEN MPending ELSE SPending
IrqPriv    == IF MPending # {} THEN 3 ELSE 1

\* The cause an interrupt trap records: the first in the order of priority,
\* or what the cause register held ("kept") if none of the level is pending.
Cause ==
    LET order == IF irq_priv_q = 3 THEN <<"msip", "mtip", "meip">> ELSE <<"ssip", "stip", "seip">>
    IN  IF order[1] \in Interrupts THEN order[1]
        ELSE IF order[2] \in Interrupts THEN order[2]
        ELSE IF order[3] \in Interrupts THEN order[3]
        ELSE "kept"

-----------------------------------------------------------------------------
\* The instructions that go to the CSR unit, one at a time (decoder csr_o).
IsCsr(i) == i.kind \in {"csr", "xret", "ecall", "fence", "wfi", "invalid"}

\* The memory answers the instruction in E2: m is "busy", "done" or "fault".
InMem    == e2.instr.kind = "mem"
Stall(m) == InMem /\ m = "busy"
ExcE2(m) == IF InMem /\ m = "fault" THEN "fault" ELSE e2.res.exc
\* Mutation: the cycle after the exception is not squashed.
Squash_OneCycle(m) == ExcE2(m) # "none"
Squash(m) == ExcE2(m) # "none" \/ squash_q

\* Mutation: a CSR instruction may follow a load or store directly.
MayFollow_Any(h) == TRUE
\* No CSR instruction in the cycle after a load or store.
MayFollow(h) == e1.kind = "mem" => ~IsCsr(h)

\* Instruction h, at the head of the fetch queue, is issued; go is FALSE if it
\* waits for an operand or for the load store unit.
Issued(h, go, m) ==
    /\ go /\ h.kind # "none"
    /\ ~branch_q /\ ~Squash(m) /\ ~Stall(m) /\ ~csr_pending_q
    /\ MayFollow(h)

\* It gets to the CSR unit only if no interrupt takes its place.
ToCsrUnit(h, go, m) == Issued(h, go, m) /\ ~take_interrupt_q

CsrValue(c) ==
    CASE c = "mip"     -> csr_mip_q
      [] c = "sip"     -> csr_mip_q \cap SIrq
      [] c = "mie"     -> csr_mie_q
      [] c = "sie"     -> csr_mie_q \cap SIrq
      [] c = "mstatus" -> csr_sr_q
      [] c = "sstatus" -> csr_sr_q \cap SStatus
      [] c = "mideleg" -> csr_mideleg_q
      [] OTHER         -> {}
CsrLevel(c) == IF c \in {"sip", "sie", "sstatus"} THEN 1 ELSE 3

\* What the CSR unit makes of an instruction; every CSR instruction that is
\* allowed writes, even one that only reads.
Execute(h) ==
    LET denied == h.kind = "csr" /\ csr_mpriv_q < CsrLevel(h.num)
        old    == CsrValue(h.num)
    IN  [wr   |-> h.kind = "csr" /\ ~denied,
         data |-> IF h.kind # "csr" \/ denied THEN {}
                  ELSE CASE h.op = "rw"  -> h.bits
                         [] h.op = "set" -> old \cup h.bits
                         [] h.op = "clr" -> old \ h.bits,
         exc  |-> CASE h.kind = "ecall" /\ csr_mpriv_q = 0 -> "ecall0"
                    [] h.kind = "ecall" /\ csr_mpriv_q = 1 -> "ecall1"
                    [] h.kind = "ecall" /\ csr_mpriv_q = 3 -> "ecall3"
                    [] h.kind = "xret" /\ csr_mpriv_q < h.lvl -> "illegal"
                    [] h.kind = "xret" /\ h.lvl = 1 /\ csr_mpriv_q >= 1 -> "eret1"
                    [] h.kind = "xret" /\ h.lvl = 3 /\ csr_mpriv_q >= 3 -> "eret3"
                    [] h.kind = "invalid" \/ denied -> "illegal"
                    [] h.kind = "fence" -> "fence"
                    [] OTHER -> "none"]

\* The stages move, but for the CSR unit's result only while nothing stalls.
Pipeline(h, go, m) ==
    /\ csr_e1' = IF ToCsrUnit(h, go, m) THEN Execute(h) ELSE NoResult
    /\ IF Stall(m)
       THEN UNCHANGED <<e1, e2, wb, squash_q>>
       ELSE /\ e1' = IF ~Issued(h, go, m) THEN NoInstr
                     ELSE IF take_interrupt_q THEN Marked ELSE h
            /\ e2' = IF Squash(m) THEN Bubble
                     ELSE [instr |-> e1,
                           res |-> IF e1.kind = "intr" THEN [csr_e1 EXCEPT !.exc = "intr"] ELSE csr_e1]
            /\ wb' = [e2 EXCEPT !.res.exc = ExcE2(m)]
            /\ squash_q' = (ExcE2(m) # "none")
    /\ csr_pending_q' = IF Squash(m) THEN FALSE
                        ELSE IF ToCsrUnit(h, go, m) /\ IsCsr(h) THEN TRUE
                        ELSE IF IsCsr(wb.instr) /\ ~Stall(m) THEN FALSE
                        ELSE csr_pending_q

\* Mutation: an interrupt may be launched behind a CSR instruction.
Inhibit_HeadOnly(h) == IsCsr(h)
Inhibit(h) == csr_pending_q \/ IsCsr(h)

\* An interrupt is launched from what is pending now.
Launch(h) ==
    /\ take_interrupt_q' = (Interrupts # {} /\ ~Inhibit(h))
    /\ irq_priv_q' = IF Interrupts # {} THEN IrqPriv ELSE irq_priv_q

-----------------------------------------------------------------------------
\* Write back: exception_i and the CSR write of the instruction there.
Exc       == wb.res.exc
Writes(c) == Exc \in {"none", "fence"} /\ wb.res.wr /\ wb.instr.num = c

\* The interrupts that arrive: the controller's line and the timer match.
MipNext ==
    LET line  == IF "meip" \in csr_mideleg_q THEN "seip" ELSE "meip"
        tick  == IF "mtip" \in csr_mideleg_q THEN "stip" ELSE "mtip"
        lined == IF ext THEN csr_mip_next_q \cup {line} ELSE csr_mip_next_q
    IN  IF timer # "now" THEN lined
        ELSE IF csr_mtime_ie_q THEN lined \cup {tick} ELSE lined \ {tick}

ReadsMip(h, go, m) == ToCsrUnit(h, go, m) /\ h.num \in {"mip", "sip"}
\* Mutation: arrivals are kept only in the cycle of the read.
BufferMip_Read(h, go, m) == ReadsMip(h, go, m)
BufferMip(h, go, m) == ReadsMip(h, go, m) \/ csr_mip_upd_q

\* mip: what is written, without the two bits that follow the line, and what
\* arrives, this cycle or since the instruction that writes read it.
Pending(h, go, m) ==
    LET written == IF Writes("mip") THEN wb.res.data \cap Irq
                   ELSE IF Writes("sip") THEN (csr_mip_q \ SIrq) \cup (wb.res.data \cap SIrq)
                   ELSE csr_mip_q
    IN  /\ csr_mip_q' = (written \ {"meip", "seip"}) \cup MipNext
        /\ csr_mip_next_q' = IF BufferMip(h, go, m) THEN MipNext ELSE {}
        /\ csr_mip_upd_q' = IF ReadsMip(h, go, m) THEN TRUE
                            ELSE IF (wb.res.wr /\ wb.instr.num \in {"mip", "sip"}) \/ Exc # "none"
                            THEN FALSE ELSE csr_mip_upd_q

\* The timer matches in one cycle only, and a match disarms it; mtimecmp may
\* be given any value.
Timer ==
    /\ csr_mtime_ie_q' = IF timer = "now" THEN FALSE
                         ELSE IF Writes("mtimecmp") THEN TRUE ELSE csr_mtime_ie_q
    /\ timer' \in IF Writes("mtimecmp") THEN {"ahead", "now", "past"}
                  ELSE IF timer = "ahead" THEN {"ahead", "now"} ELSE {"past"}

\* The line rises at any time, and falls when the driver has served the device
\* with a store to it, which it does with the interrupt off.
Line(m) ==
    LET off == IF "meip" \in csr_mideleg_q THEN ~SEnabled ELSE ~MEnabled
    IN  ext' \in IF ext /\ ~(off /\ Stall(m)) THEN {TRUE} ELSE BOOLEAN

Clock(h, go, m) ==
    Pipeline(h, go, m) /\ Launch(h) /\ Pending(h, go, m) /\ Timer /\ Line(m)

\* An interrupt reaches write back; the level is the one last seen enabled.
InterruptTrap ==
    /\ Exc = "intr"
    /\ csr_mpriv_q' = irq_priv_q
    /\ csr_sr_q' = IF irq_priv_q = 3
                   THEN WithMpp(Move(csr_sr_q, "mie", "mpie", FALSE), csr_mpriv_q)
                   ELSE IF csr_mpriv_q = 1 THEN Move(csr_sr_q, "sie", "spie", FALSE) \cup {"spp"}
                                           ELSE Move(csr_sr_q, "sie", "spie", FALSE) \ {"spp"}
    /\ branch_q' = TRUE
    /\ UNCHANGED <<csr_mie_q, csr_mideleg_q>>

\* MRET and SRET.
ExceptionReturn ==
    /\ Exc \in {"eret1", "eret3"}
    /\ IF Exc = "eret3"
       THEN /\ csr_mpriv_q' = Mpp(csr_sr_q)
            /\ csr_sr_q' = WithMpp(Move(csr_sr_q, "mpie", "mie", TRUE), 0)
       ELSE /\ csr_mpriv_q' = IF "spp" \in csr_sr_q THEN 1 ELSE 0
            /\ csr_sr_q' = Move(csr_sr_q, "spie", "sie", TRUE) \ {"spp"}
    /\ branch_q' = TRUE
    /\ UNCHANGED <<csr_mie_q, csr_mideleg_q>>

\* An exception, for the supervisor if it is delegated and not from machine mode.
ExceptionTrap ==
    /\ Exc \in Causes
    /\ IF csr_mpriv_q <= 1 /\ Exc \in Delegated
       THEN /\ csr_mpriv_q' = 1
            /\ csr_sr_q' = IF csr_mpriv_q = 1 THEN Move(csr_sr_q, "sie", "spie", FALSE) \cup {"spp"}
                                              ELSE Move(csr_sr_q, "sie", "spie", FALSE) \ {"spp"}
       ELSE /\ csr_mpriv_q' = 3
            /\ csr_sr_q' = WithMpp(Move(csr_sr_q, "mie", "mpie", FALSE), csr_mpriv_q)
    /\ branch_q' = TRUE
    /\ UNCHANGED <<csr_mie_q, csr_mideleg_q>>

\* Anything else: the CSR write, if there is one, and the flush of a fence.
Commit ==
    /\ Exc \in {"none", "fence"}
    /\ csr_sr_q' = IF Writes("mstatus") THEN wb.res.data \cap Status
                   ELSE IF Writes("sstatus") THEN (csr_sr_q \ SStatus) \cup (wb.res.data \cap SStatus)
                   ELSE csr_sr_q
    /\ csr_mie_q' = IF Writes("mie") THEN wb.res.data \cap Irq
                    ELSE IF Writes("sie") THEN (csr_mie_q \ SIrq) \cup (wb.res.data \cap SIrq)
                    ELSE csr_mie_q
    /\ csr_mideleg_q' = IF Writes("mideleg") THEN wb.res.data \cap Irq ELSE csr_mideleg_q
    /\ branch_q' = (Exc = "fence")
    /\ UNCHANGED csr_mpriv_q

-----------------------------------------------------------------------------
\* Reset: machine mode, everything off; the first branch is to the reset vector.
Init ==
    /\ csr_sr_q = {} /\ csr_mie_q = {} /\ csr_mideleg_q = {} /\ csr_mpriv_q = 3
    /\ csr_mip_q = {} /\ csr_mip_next_q = {} /\ csr_mip_upd_q = FALSE
    /\ csr_mtime_ie_q = FALSE
    /\ irq_priv_q = 3 /\ take_interrupt_q = FALSE
    /\ csr_pending_q = FALSE /\ squash_q = FALSE /\ branch_q = TRUE
    /\ e1 = NoInstr /\ csr_e1 = NoResult /\ e2 = Bubble /\ wb = Bubble
    /\ timer = "now"
    /\ ext = FALSE
    /\ program \in Programs

Next ==
    /\ UNCHANGED program
    /\ \E h \in program[csr_mpriv_q] \cup {NoInstr}, go \in BOOLEAN :
          \E m \in IF InMem THEN {"busy", "done", "fault"} ELSE {"done"} : Clock(h, go, m)
    /\ \/ InterruptTrap
       \/ ExceptionReturn
       \/ ExceptionTrap
       \/ Commit

Spec == Init /\ [][Next]_vars

-----------------------------------------------------------------------------
\* The registers hold values of their widths; no mode but the three exists.
TypeOK ==
    /\ csr_sr_q \in SUBSET Status
    /\ csr_mie_q \in SUBSET Irq
    /\ csr_mideleg_q \in SUBSET Irq
    /\ csr_mpriv_q \in Priv
    /\ csr_mip_q \in SUBSET Irq
    /\ csr_mip_next_q \in SUBSET Irq
    /\ csr_mip_upd_q \in BOOLEAN
    /\ csr_mtime_ie_q \in BOOLEAN
    /\ irq_priv_q \in {1, 3}
    /\ take_interrupt_q \in BOOLEAN
    /\ csr_pending_q \in BOOLEAN
    /\ squash_q \in BOOLEAN
    /\ branch_q \in BOOLEAN
    /\ e1 \in Instr
    /\ csr_e1 \in Result
    /\ e2 \in Stage
    /\ wb \in Stage
    /\ timer \in {"ahead", "now", "past"}
    /\ ext \in BOOLEAN
    /\ program \in Programs

\* An interrupt is launched cycles before it traps (biriscv_csr.v 270): when
\* it does, its level still has interrupts enabled and is not below the mode
\* the core runs in, whatever CSR writes, returns and faults were under way.
TrapAllowed ==
    Exc = "intr" => IF irq_priv_q = 3 THEN MEnabled ELSE SEnabled

\* The CSR unit compares the mode with the level of the CSR when the
\* instruction is issued (biriscv_csr.v 131); the write is made at write back,
\* cycles later, and no trap or return has lowered the mode in between.
PrivilegeKept ==
    IsCsr(wb.instr) /\ wb.res.wr => csr_mpriv_q >= CsrLevel(wb.instr.num)

\* mip is written three cycles after it was read (biriscv_csr_regfile.v
\* 146-156): an interrupt that arrives in between is not lost.  Only a write
\* that asks for it takes a software or timer bit away.
Clears(b) ==
    /\ Writes("mip") \/ (Writes("sip") /\ b \in SIrq)
    /\ \/ wb.instr.op = "clr" /\ b \in wb.instr.bits
       \/ wb.instr.op = "rw" /\ b \notin wb.instr.bits
PendingKept ==
    [][\A b \in Irq \ {"meip", "seip"} : b \in csr_mip_q /\ ~Clears(b) => b \in csr_mip_q']_vars

\* A CSR instruction keeps its result on the way to write back, although the
\* CSR unit holds it for one cycle only (biriscv_csr.v 203-254) and the stages
\* may stall (biriscv_issue.v 681).
CsrCommits ==
    IsCsr(wb.instr) /\ wb.instr.kind # "wfi" => wb.res.wr \/ Exc # "none"

\* When the fetch unit is told where a trap, a return or a fence continues, no
\* instruction of the old stream is left in the stages, and no second trap.
Flushed == branch_q => e1 = NoInstr /\ e2 = Bubble /\ wb = Bubble

\* "Piority encoded interrupt cause" (biriscv_csr_regfile.v 284, 309): an
\* interrupt trap records the interrupt it is for.
CauseKnown == Exc = "intr" => Cause # "kept"

\* The external bits are re-evaluated every cycle from the line
\* (biriscv_csr_regfile.v 468-472), but for the cycles a CSR instruction is
\* under way.
LevelFollows ==
    [][~csr_pending_q /\ csr_mip_q' \cap {"seip", "meip"} # {} => ext]_vars
=============================================================================
