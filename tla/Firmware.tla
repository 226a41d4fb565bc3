------------------------------- MODULE Firmware -------------------------------
(* The machine mode firmware (bootloader/): the trap frame of boot.S, the    *)
(* dispatch of exception.c, the emulation of atomic and misaligned accesses  *)
(* of emulation.c, the SBI calls of sbi.c and the timer of main.c, together  *)
(* with what the core does on a trap.  Hart is what it promises.             *)
(*                                                                           *)
(* Machine mode cannot be interrupted, so a handler is one step, except      *)
(* where it touches what changes under it: the timer, mip and sip.           *)
EXTENDS Rv32

CONSTANTS
    Programs,   \* sets of instructions (code), with the registers, the memory
                \* and the mapping of the pages they start with
    Regs,       \* the registers they use
    FirmwareSp, \* the stack pointer of the firmware
    NumPc,      \* program counters, in words; the last is stvec
    MaxTraps    \* bound on the traps that are emulated

Ops == {"li", "lr", "sc", "map", "sret", "bad"} \cup LoadOps \cup StoreOps \cup AmoOps \cup Calls
Exceptions == Faults \cup {"illegal", "ecall_u", "ecall_s"}
Instr == [op : Ops, rd : Regs, rs1 : Regs, rs2 : Regs, imm : Word, seen : Views]

ASSUME SizeAssumption == NumPc \in 2..16 /\ MaxTraps \in Nat /\ FirmwareSp \in Word
ASSUME RegsAssumption == {"zero", "a0"} \subseteq Regs
ASSUME ProgramsAssumption ==
    /\ Programs \subseteq [code : SUBSET Instr, x : [Regs -> Word], mem : [Word -> {0, 1}],
                           attr : [Page -> Mappings]]
    /\ \A p \in Programs : p.x["zero"] = 0

VARIABLES
    code, x, pc, priv, strap, mem, attr, stip, on,   \* as in Hart
    mstatus,   \* sie, spie, spp, and mpp
    mcsr,      \* mtvec, mcause, mtval
    instr,     \* the instruction of the last trap: mtval if it was illegal, the word at mepc if not
    load_reservation,
    table,     \* the handler of each exception, or "none"
    delegated, \* the exceptions and interrupts medeleg and mideleg give away
    slot,      \* the word for x0 in the frame, which nothing saves or clears
    fw,        \* "out" while the program runs, or what the firmware does next
    mtie, mtip,   \* the machine timer bits of mie and mip
    timer,     \* mtimecmp is "ahead" of mcycle, "now" (equal), "past", or has
               \* matched and is "off" until it is written again
    traps      \* traps emulated so far

progVars  == <<code, x, pc, priv, strap, mem, attr, on>>
bootVars  == <<table, delegated>>
csrVars   == <<mstatus, mcsr, instr, slot, load_reservation>>
timerVars == <<stip, mtie, mtip, timer>>
vars == <<progVars, bootVars, csrVars, timerVars, fw, traps>>

Stvec == NumPc - 1
Next4(p) == (p + 1) % NumPc

-----------------------------------------------------------------------------
(* The state a handler works on: the frame ctx, memory, the machine and      *)
(* supervisor trap registers and the reservation.                            *)

\* isr_vector stores the registers above the firmware's own stack pointer,
\* which is the one in sp by then.
Frame == [pc |-> pc, status |-> mstatus, cause |-> mcsr.mcause,
          reg |-> [r \in Regs |-> CASE r = "zero" -> slot
                                    [] r = "sp" -> FirmwareSp
                                    [] OTHER -> x[r]]]

Entry == [ctx |-> Frame, mem |-> mem, mcsr |-> mcsr, strap |-> strap, res |-> load_reservation]

\* An access with fault catching: under MPRV it has the privilege of the mode
\* that trapped, and a fault continues at the label mtvec now holds.
Caught(h, fault, a) ==
    [h EXCEPT !.mcsr = IF fault = "none" THEN [@ EXCEPT !.mtvec = "label"]
                       ELSE [mtvec |-> "label", mcause |-> fault, mtval |-> a]]

ReadFault_Bare(h, n, a) == IF a % n = 0 THEN "none" ELSE "misaligned_load"
ReadFault(h, n, a)  == FaultOf(attr, "load", n, h.ctx.status.mpp, a)
WriteFault(h, n, a) == FaultOf(attr, "store", n, h.ctx.status.mpp, a)

emulation_read_word(h, a)     == Caught(h, ReadFault(h, 4, a), a)
emulation_write_word(h, a, w) ==
    LET fault == WriteFault(h, 4, a)
    IN  Caught(IF fault = "none" THEN [h EXCEPT !.mem = Stored(h.mem, 4, a, w)] ELSE h, fault, a)
emulation_read_byte(h, a)     == Caught(h, ReadFault(h, 1, a), a)
emulation_write_byte(h, a, b) ==
    LET fault == WriteFault(h, 1, a)
    IN  Caught(IF fault = "none" THEN [h EXCEPT !.mem = Stored(h.mem, 1, a, b)] ELSE h, fault, a)

\* The trap is handed to the supervisor, with what the last fault left in
\* mcause and mtval, and the status it would have trapped with.
emulation_trap_to_supervisor(h) ==
    LET s == h.ctx.status
    IN  [h EXCEPT !.mcsr.mtvec = "isr_vector",
                  !.strap = [epc |-> h.ctx.pc, cause |-> h.mcsr.mcause, tval |-> h.mcsr.mtval],
                  !.ctx.pc = Stvec,
                  !.ctx.status = [sie |-> FALSE, spie |-> s.sie, spp |-> s.mpp % 2, mpp |-> 1]]

SkipInstruction_KeepsLabel(h) == [h EXCEPT !.ctx.pc = Next4(@)]

\* The end of a handler that emulated its instruction.
SkipInstruction(h) == [h EXCEPT !.ctx.pc = Next4(@), !.mcsr.mtvec = "isr_vector"]

-----------------------------------------------------------------------------
\* min and max compare as the type they are cast to.
Compute(sel, src, data_read) ==
    LET digits(F(_, _)) == FromBytes([i \in Lane |-> F(Bytes(src)[i], Bytes(data_read)[i])])
    IN  CASE sel = "amoadd"  -> (src + data_read) % 16
          [] sel = "amoswap" -> src
          [] sel = "amoxor"  -> digits(LAMBDA b, c : IF b # c THEN 1 ELSE 0)
          [] sel = "amoand"  -> digits(LAMBDA b, c : IF b = 1 /\ c = 1 THEN 1 ELSE 0)
          [] sel = "amoor"   -> digits(LAMBDA b, c : IF b = 1 \/ c = 1 THEN 1 ELSE 0)
          [] sel = "amomin"  -> IF Signed(src) < Signed(data_read) THEN src ELSE data_read
          [] sel = "amomax"  -> IF Signed(src) > Signed(data_read) THEN src ELSE data_read
          [] sel = "amominu" -> IF src < data_read THEN src ELSE data_read
          [] sel = "amomaxu" -> IF src > data_read THEN src ELSE data_read

load_reserved(h) ==
    LET a == h.ctx.reg[instr.rs1]
        r == emulation_read_word(h, a)
    IN  IF ReadFault(h, 4, a) # "none" THEN emulation_trap_to_supervisor(r)
        ELSE SkipInstruction([r EXCEPT !.res = a, !.ctx.reg[instr.rd] = Fetched(h.mem, 4, a)])

\* An operand is x0 by its number in all but the address of LR.
Operand(h, r) == IF r = "zero" THEN 0 ELSE h.ctx.reg[r]

store_conditional(h) ==
    LET a == Operand(h, instr.rs1)
        w == emulation_write_word(h, a, Operand(h, instr.rs2))
    IN  IF h.res # a THEN SkipInstruction([h EXCEPT !.ctx.reg[instr.rd] = 1])
        ELSE IF WriteFault(h, 4, a) # "none" THEN emulation_trap_to_supervisor(w)
        ELSE SkipInstruction([w EXCEPT !.res = 0, !.ctx.reg[instr.rd] = 0])

atomic(h) ==
    LET a == Operand(h, instr.rs1)
        data_read == Fetched(h.mem, 4, a)
        r == emulation_read_word(h, a)
        w == emulation_write_word(r, a, Compute(instr.op, Operand(h, instr.rs2), data_read))
    IN  IF ReadFault(h, 4, a) # "none" THEN emulation_trap_to_supervisor(r)
        ELSE IF WriteFault(r, 4, a) # "none" THEN emulation_trap_to_supervisor(w)
        ELSE SkipInstruction([w EXCEPT !.ctx.reg[instr.rd] = data_read])

trap_invalid_inst(h) ==
    CASE instr.op = "lr" -> load_reserved(h)
      [] instr.op = "sc" -> store_conditional(h)
      [] OTHER -> atomic(h)

\* The instruction itself is loaded, since mtval has the address of the data.
FetchInstruction(h) == Caught(h, IF instr.seen = "fault" THEN "load_fault" ELSE "none", h.ctx.pc)

Extended_Any(op, data) == IF Bytes(data)[1] = 1 THEN data + 12 ELSE data

\* LH extends the sign of its second byte.
Extended(op, data) == IF op = "lh" /\ Bytes(data)[1] = 1 THEN data + 12 ELSE data

\* The bytes are read one after the other; the first that faults ends it.
trap_misaligned_ld(h) ==
    LET a == h.mcsr.mtval
        f == FetchInstruction(h)
        len == Length(instr.op)
        faulting == {i \in 0..(len - 1) : ReadFault(f, 1, Plus(a, i)) # "none"}
        data == Extended(instr.op, Fetched(h.mem, len, a))
    IN  IF instr.seen # "same" THEN emulation_trap_to_supervisor(f)
        ELSE IF faulting # {}
        THEN emulation_trap_to_supervisor(emulation_read_byte(f, Plus(a, Least(faulting))))
        ELSE SkipInstruction(IF instr.rd = "zero" THEN f ELSE [f EXCEPT !.ctx.reg[instr.rd] = data])

\* The bytes are written one after the other; those before a fault stay.
trap_misaligned_st(h) ==
    LET a == h.mcsr.mtval
        f == FetchInstruction(h)
        len == Length(instr.op)
        faulting == {i \in 0..(len - 1) : WriteFault(f, 1, Plus(a, i)) # "none"}
        value == Operand(f, instr.rs2)
        after(n) == [f EXCEPT !.mem = Stored(h.mem, n, a, value)]
    IN  IF instr.seen # "same" THEN emulation_trap_to_supervisor(f)
        ELSE IF faulting # {}
        THEN LET n == Least(faulting)
             IN  emulation_trap_to_supervisor(emulation_write_byte(after(n), Plus(a, n), Bytes(value)[n]))
        ELSE SkipInstruction(after(len))

-----------------------------------------------------------------------------
(* What the core does by itself: the program, and the traps.                 *)

NoInstr == [op |-> "li", rd |-> "zero", rs1 |-> "zero", rs2 |-> "zero", imm |-> 0, seen |-> "same"]
Running == on /\ fw = "out"

\* A trap to machine mode (biriscv_csr_regfile.v), at mtvec.
MachineTrap(i, cause, tval) ==
    /\ fw' = "isr"
    /\ instr' = i
    /\ mcsr' = [mcsr EXCEPT !.mcause = cause, !.mtval = tval]
    /\ mstatus' = [mstatus EXCEPT !.mpp = priv]
    /\ UNCHANGED <<progVars, bootVars, timerVars, slot, load_reservation>>

\* A trap that is delegated.
SupervisorTrap(cause, tval) ==
    /\ strap' = [epc |-> pc, cause |-> cause, tval |-> tval]
    /\ mstatus' = [mstatus EXCEPT !.sie = FALSE, !.spie = mstatus.sie, !.spp = priv]
    /\ priv' = 1
    /\ pc' = Stvec
    /\ UNCHANGED <<code, x, mem, attr, on, bootVars, mcsr, instr, slot, load_reservation, timerVars, fw, traps>>

\* The exception the core raises for an instruction: the atomics, what does
\* not exist and what the mode may not do are illegal.
CauseOf(i) ==
    CASE i.op \in {"lr", "sc", "bad"} \cup AmoOps \/ (i.op = "sret" /\ priv = 0) -> "illegal"
      [] i.op \in LoadOps  -> FaultOf(attr, "load", Length(i.op), priv, x[i.rs1])
      [] i.op \in StoreOps -> FaultOf(attr, "store", Length(i.op), priv, x[i.rs1])
      [] i.op \in Calls    -> IF priv = 1 THEN "ecall_s" ELSE "ecall_u"
      [] OTHER -> "none"
TvalOf(i) == IF i.op \in LoadOps \cup StoreOps THEN x[i.rs1] ELSE 0

Undelegated(i) ==
    /\ Running /\ CauseOf(i) \in Exceptions \ delegated
    /\ MachineTrap(i, CauseOf(i), TvalOf(i))
    /\ LET emulated == i.op \notin Calls \cup {"bad", "sret"}
       IN  (emulated => traps < MaxTraps) /\ traps' = IF emulated THEN traps + 1 ELSE traps

Delegated(i) ==
    /\ Running /\ CauseOf(i) \in Exceptions \cap delegated
    /\ SupervisorTrap(CauseOf(i), TvalOf(i))

\* Everything else the core does itself.
Native(i) ==
    /\ Running /\ CauseOf(i) = "none"
    /\ LET a == x[i.rs1]
           n == Length(i.op)
           v == Fetched(mem, n, a)
           set(w) == IF i.rd = "zero" THEN x ELSE [x EXCEPT ![i.rd] = w]
       IN  \/ i.op = "li" /\ x' = set(i.imm) /\ UNCHANGED <<mem, attr>>
           \/ /\ i.op \in LoadOps
              /\ x' = set(IF i.op = "lh" /\ v >= 2 THEN v + 12 ELSE v) /\ UNCHANGED <<mem, attr>>
           \/ /\ i.op \in StoreOps
              /\ mem' = Stored(mem, n, a, x[i.rs2]) /\ UNCHANGED <<x, attr>>
           \/ /\ i.op = "map" /\ priv = 1
              /\ attr' = [attr EXCEPT ![i.imm] = "rw"] /\ UNCHANGED <<x, mem>>
    /\ pc' = Next4(pc)
    /\ UNCHANGED <<code, priv, strap, on, bootVars, csrVars, timerVars, fw, traps>>

SupervisorReturn(i) ==
    /\ Running /\ i.op = "sret" /\ priv = 1
    /\ pc' = strap.epc
    /\ priv' = mstatus.spp
    /\ mstatus' = [mstatus EXCEPT !.sie = mstatus.spie, !.spie = TRUE, !.spp = 0]
    /\ UNCHANGED <<code, x, strap, mem, attr, on, bootVars, mcsr, instr, slot, load_reservation,
                   timerVars, fw, traps>>

SupervisorInterrupt ==
    /\ Running /\ (priv = 0 \/ mstatus.sie)
    /\ \E cause \in {"timer", "external"} \cap delegated :
           (cause = "timer" => stip) /\ SupervisorTrap(cause, 0)

MachineTimerInterrupt ==
    /\ Running /\ mtip /\ mtie /\ "machine_timer" \notin delegated
    /\ MachineTrap(NoInstr, "machine_timer", 0)
    /\ UNCHANGED traps

\* The cycle counter goes on.  A match disarms the comparator.
Tick ==
    /\ on /\ timer # "off"
    /\ timer' = CASE timer = "ahead" -> "now" [] timer = "now" -> "off" [] timer = "past" -> "ahead"
    /\ mtip' = (mtip \/ timer = "now")
    /\ UNCHANGED <<progVars, bootVars, csrVars, stip, mtie, fw, traps>>

-----------------------------------------------------------------------------
(* The firmware, from the entry of isr_vector to mret.                       *)

\* exception_handler: a call goes on behind the ecall.
AfterCall == [Entry EXCEPT !.ctx.pc = Next4(@)]

\* The end of isr_vector: everything from the frame, sp from mscratch.  What
\* nobody reads again (mcause, mtval, the instruction) is forgotten.
Return(h) ==
    /\ x' = [r \in Regs |-> CASE r = "zero" -> 0 [] r = "sp" -> x["sp"] [] OTHER -> h.ctx.reg[r]]
    /\ slot' = h.ctx.reg["zero"]
    /\ pc' = h.ctx.pc
    /\ priv' = h.ctx.status.mpp
    /\ mstatus' = [h.ctx.status EXCEPT !.mpp = 0]
    /\ mem' = h.mem
    /\ strap' = h.strap
    /\ load_reservation' = h.res
    /\ mcsr' = [h.mcsr EXCEPT !.mcause = "none", !.mtval = 0]
    /\ instr' = NoInstr
    /\ fw' = "out"
    /\ UNCHANGED <<code, attr, on, bootVars, traps>>

Exit == on' = FALSE /\ UNCHANGED <<code, x, pc, priv, strap, mem, attr, bootVars, csrVars, timerVars, fw, traps>>

\* exception_handler calls the handler of the cause.
Handles(handler) ==
    /\ on /\ fw = "isr" /\ mcsr.mcause \in Exceptions
    /\ table[mcsr.mcause] = handler

EmulateIllegal ==
    /\ Handles("trap_invalid_inst") /\ instr.op \notin {"bad", "sret"}
    /\ \E h \in {trap_invalid_inst(Entry)} : Return(h)
    /\ UNCHANGED timerVars

\* Any other opcode, and a cause without a handler, ends in an assertion,
\* which stops the machine.
Asserts == Handles("none") \/ (Handles("trap_invalid_inst") /\ instr.op \in {"bad", "sret"})
AssertFails == Asserts /\ Exit

EmulateMisaligned ==
    /\ \E h \in IF Handles("trap_misaligned_ld") THEN {trap_misaligned_ld(Entry)}
               ELSE IF Handles("trap_misaligned_st") THEN {trap_misaligned_st(Entry)} ELSE {} : Return(h)
    /\ UNCHANGED timerVars

\* sbi_syscall: the console (a character or -1), the fences, which do nothing,
\* and the end.
SbiConsole ==
    /\ Handles("sbi_syscall")
    /\ \/ instr.op = "putchar" /\ Return(AfterCall)
       \/ instr.op = "getchar" /\ \E c \in {1, 15} : Return([AfterCall EXCEPT !.ctx.reg["a0"] = c])
    /\ UNCHANGED timerVars

SbiFence == Handles("sbi_syscall") /\ instr.op = "fence" /\ Return(AfterCall) /\ UNCHANGED timerVars

SbiStop == Handles("sbi_syscall") /\ instr.op \in {"shutdown", "unknown"} /\ Exit

SetMtimecmp_ClearsMip ==
    /\ Handles("sbi_syscall") /\ instr.op = "set_timer"
    /\ timer' \in {"ahead", "now", "past"} /\ mtip' = FALSE
    /\ fw' = "set_mie"
    /\ UNCHANGED <<progVars, bootVars, csrVars, stip, mtie, traps>>

\* SBI_SET_TIMER: mtimecmp, then mie, then sip.  A write in the very cycle the
\* counter matches the old value, which it may do with the comparator off too,
\* leaves the comparator off.
SetMtimecmp ==
    /\ Handles("sbi_syscall") /\ instr.op = "set_timer"
    /\ timer' \in CASE timer = "now" -> {"off"}
                    [] timer = "off" -> {"off", "ahead", "now", "past"}
                    [] OTHER -> {"ahead", "now", "past"}
    /\ mtip' = (mtip \/ timer = "now")
    /\ fw' = "set_mie"
    /\ UNCHANGED <<progVars, bootVars, csrVars, stip, mtie, traps>>
SetMie_Missing ==
    /\ fw = "set_mie" /\ fw' = "clear_sip"
    /\ UNCHANGED <<progVars, bootVars, csrVars, timerVars, traps>>
SetMie ==
    /\ fw = "set_mie" /\ fw' = "clear_sip"
    /\ mtie' = TRUE
    /\ UNCHANGED <<progVars, bootVars, csrVars, stip, mtip, timer, traps>>
ClearSip ==
    /\ fw = "clear_sip"
    /\ stip' = FALSE
    /\ Return(AfterCall)
    /\ UNCHANGED <<mtie, mtip, timer>>

emulation_take_irq == load_reservation' = 0

\* irq_callback: sip, then mie, then mip, one CSR instruction each.
RaiseStip ==
    /\ on /\ fw = "isr" /\ mcsr.mcause = "machine_timer"
    /\ emulation_take_irq
    /\ stip' = TRUE
    /\ fw' = "clear_mie"
    /\ UNCHANGED <<progVars, bootVars, mstatus, mcsr, instr, slot, mtie, mtip, timer, traps>>
ClearMie ==
    /\ fw = "clear_mie" /\ fw' = "clear_mip"
    /\ mtie' = FALSE
    /\ UNCHANGED <<progVars, bootVars, csrVars, stip, mtip, timer, traps>>
ClearMip ==
    /\ fw = "clear_mip"
    /\ mtip' = FALSE
    /\ Return(Entry)
    /\ UNCHANGED <<stip, mtie, timer>>

-----------------------------------------------------------------------------
(* The boot.  pc and priv are those of the program that is entered.          *)

\* start has set the vector and cleared the variables of the firmware.
Init ==
    /\ \E p \in Programs : code = p.code /\ x = p.x /\ mem = p.mem /\ attr = p.attr
    /\ pc = 0 /\ priv = 1
    /\ strap = [epc |-> 0, cause |-> "none", tval |-> 0]
    /\ mstatus = [sie |-> FALSE, spie |-> FALSE, spp |-> 0, mpp |-> 0]
    /\ mcsr = [mtvec |-> "isr_vector", mcause |-> "none", mtval |-> 0]
    /\ instr = NoInstr /\ slot = 0 /\ load_reservation = 0
    /\ table = [c \in Exceptions |-> "none"] /\ delegated = {}
    /\ mtie = FALSE /\ mtip = FALSE /\ stip = FALSE
    /\ timer = "off"
    /\ fw = "main" /\ on = TRUE /\ traps = 0

exception_set_handler(t, cause, handler) == [t EXCEPT ![cause] = handler]

emulation_init(t) ==
    LET t1 == exception_set_handler(t, "illegal", "trap_invalid_inst")
        t2 == exception_set_handler(t1, "misaligned_load", "trap_misaligned_ld")
    IN  exception_set_handler(t2, "misaligned_store", "trap_misaligned_st")

\* main: the banner, the handlers of the emulation.
BootMain ==
    /\ fw = "main" /\ fw' = "boot_kernel"
    /\ table' = emulation_init(table)
    /\ UNCHANGED <<progVars, delegated, csrVars, timerVars, traps>>

Medeleg_Faults == Exceptions \ (Faults \cup {"ecall_s", "illegal"})

\* Everything but the calls of the supervisor and what is emulated, and every
\* interrupt but the machine timer.
Medeleg == Exceptions \ {"ecall_s", "illegal", "misaligned_load", "misaligned_store"}
Mideleg == {"timer", "external"}

\* boot_kernel: the handler of the calls, the delegation, and mret.
BootKernel ==
    /\ fw = "boot_kernel" /\ fw' = "out"
    /\ table' = exception_set_handler(table, "ecall_s", "sbi_syscall")
    /\ delegated' = Medeleg \cup Mideleg
    /\ mtie' = TRUE
    /\ UNCHANGED <<progVars, csrVars, stip, mtip, timer, traps>>

Program == \E i \in code : Native(i) \/ Delegated(i) \/ Undelegated(i) \/ SupervisorReturn(i)
Handler ==
    \/ BootMain \/ BootKernel
    \/ EmulateIllegal \/ AssertFails \/ EmulateMisaligned
    \/ SbiConsole \/ SbiFence \/ SbiStop \/ SetMtimecmp \/ SetMie \/ ClearSip
    \/ RaiseStip \/ ClearMie \/ ClearMip
Next == Program \/ SupervisorInterrupt \/ MachineTimerInterrupt \/ Tick \/ Handler

Spec == Init /\ [][Next]_vars

\* The clock ticks, the firmware always gets to its mret or stops the machine
\* (its handlers loop over the bytes of an access, and for the UART to have room
\* for a character), and an interrupt that stays pending is taken between two
\* of its visits.
FairSpec ==
    /\ Spec
    /\ WF_vars(Tick) /\ SF_vars(MachineTimerInterrupt)
    /\ []<>(fw = "out" \/ ~on)

-----------------------------------------------------------------------------
TypeOK ==
    /\ code \subseteq Instr
    /\ x \in [Regs -> Word]
    /\ pc \in 0..(NumPc - 1)
    /\ priv \in {0, 1}
    /\ mem \in [Word -> {0, 1}]
    /\ attr \in [Page -> Mappings]
    /\ strap \in [epc : 0..(NumPc - 1), tval : Word,
                  cause : Faults \cup {"none", "ecall_u", "timer", "external"}]
    /\ mstatus \in [sie : BOOLEAN, spie : BOOLEAN, spp : {0, 1}, mpp : {0, 1}]
    /\ mcsr \in [mtvec : {"isr_vector", "label"}, mtval : Word,
                 mcause : {"none", "illegal", "misaligned_load", "misaligned_store",
                           "ecall_s", "machine_timer"}]
    /\ instr \in Instr
    /\ table \in [Exceptions -> {"none", "trap_invalid_inst", "trap_misaligned_ld",
                               "trap_misaligned_st", "sbi_syscall"}]
    /\ delegated \subseteq Exceptions \cup {"timer", "external"}
    /\ slot \in Word
    /\ load_reservation \in Word
    /\ fw \in {"main", "boot_kernel", "out", "isr", "set_mie", "clear_sip", "clear_mie", "clear_mip"}
    /\ timer \in {"off", "ahead", "now", "past"}
    /\ traps \in 0..MaxTraps
    /\ {stip, on, mtie, mtip} \subseteq BOOLEAN

\* Every access with fault catching moves mtvec to a label inside the firmware
\* (emulation.c 51); on every way out of every handler, faults of any byte
\* included, it is isr_vector again, or the next trap would go astray.
VectorRestored == fw \in {"out", "isr"} => mcsr.mtvec = "isr_vector"

\* The delegation of main.c and the handlers of emulation.c and main.c fit: no
\* trap that reaches the firmware is one nobody handles, which would stop the
\* machine (exception.c 59).
Expected == fw = "isr" => mcsr.mcause = "machine_timer" \/ table[mcsr.mcause] # "none"

\* irq_callback masks the machine timer and raises the supervisor's (main.c
\* 56-58), a set timer call does the opposite (sbi.c 54-56): whatever the
\* comparator does between their instructions, the machine timer is masked
\* only while the supervisor has a timer interrupt to see.
TimerUnmasked == fw = "out" /\ ~mtie => stip

\* The supervisor cannot tell the firmware from a hart that executes these
\* instructions itself: registers, memory, the trap registers and the status
\* change as there, in one step, and faults are reported precisely.
Abstract == INSTANCE Hart WITH
    sstatus <- [sie |-> mstatus.sie, spie |-> mstatus.spie, spp |-> mstatus.spp],
    reserved <- load_reservation
ImplementsHart == Abstract!Spec

\* What it takes for that: an atomic that is emulated uses sp neither as operand
\* nor as destination, a misaligned load does not write it and a misaligned store
\* does not store it, since the frame has the firmware's own in its slot; the
\* address of LR is not x0, whose slot nothing clears; and address 0, which stands
\* for no reservation, cannot be written.
Framed(i) ==
    /\ i.op \in {"lr", "sc"} \cup AmoOps => "sp" \notin {i.rd, i.rs1, i.rs2}
    /\ i.op = "lr" => i.rs1 # "zero"
    /\ i.op \in LoadOps => i.rd # "sp"
    /\ i.op \in StoreOps => i.rs2 # "sp"
FrameSuffices ==
    fw = "isr" /\ mcsr.mcause # "machine_timer" => Framed(instr) /\ attr[0] \in {"none", "ro"}

\* A program that sees to it whatever it does.
Supported(p) ==
    /\ \A i \in p.code : Framed(i) /\ (i.op = "map" => i.imm # 0)
    /\ p.attr[0] \in {"none", "ro"}

\* A deadline that is reached with the comparator armed reaches the supervisor.
TimerDelivered == timer = "now" ~> (stip \/ ~on)
===============================================================================
