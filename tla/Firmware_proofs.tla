--------------------------- MODULE Firmware_proofs -----------------------------
(* The firmware's invariants, for every program.  A handler works on a copy  *)
(* of the state, so the lemmas of the first parts say what each access and   *)
(* each emulation makes of such a copy; the invariant Inv then follows the   *)
(* boot, the trap the firmware is in, and the order in which the timer calls *)
(* touch sip, mie and mip.  On Inv rests the last part: the firmware, with   *)
(* the program on top of it, implements a hart that does all of it itself,   *)
(* handler by handler.                                                       *)
EXTENDS Firmware, TLAPS

USE SizeAssumption, RegsAssumption, ProgramsAssumption

\* The copy of the state a handler works on.
Pcs    == 0..(NumPc - 1)
Bit    == {0, 1}
Memory == [Word -> Bit]
Status == [sie : BOOLEAN, spie : BOOLEAN, spp : Bit, mpp : Bit]
McauseAtTrap == {"illegal", "misaligned_load", "misaligned_store", "ecall_s", "machine_timer"}
Mcsr   == [mtvec : {"isr_vector", "label"}, mtval : Word, mcause : McauseAtTrap \cup Faults \cup {"none"}]
Strap  == [epc : Pcs, tval : Word, cause : Faults \cup {"none", "ecall_u", "timer", "external"}]
Ctx    == [pc : Pcs, status : Status, cause : McauseAtTrap \cup {"none"}, reg : [Regs -> Word]]
Work   == [ctx : Ctx, mem : Memory, mcsr : Mcsr, strap : Strap, res : Word]

\* A word has a bit in each lane.
LEMMA BytesType ==
    ASSUME NEW w \in Word
    PROVE  Bytes(w) \in [Lane -> Bit]
BY DEF Word, Lane, Bytes, Bit

\* Four bytes make a word.
LEMMA FromBytesType ==
    ASSUME NEW b \in [Lane -> Bit]
    PROVE  FromBytes(b) \in Word
BY DEF Word, Lane, FromBytes, Bit

\* An address wraps within the memory.
LEMMA PlusType ==
    ASSUME NEW a \in Word, NEW i \in Int
    PROVE  Plus(a, i) \in Word
BY DEF Word, Plus

\* What is read from memory is a word.
LEMMA FetchedType ==
    ASSUME NEW m \in Memory, NEW n \in Nat, NEW a \in Word
    PROVE  Fetched(m, n, a) \in Word
<1>1. \A i \in Lane : Plus(a, i) \in Word
  BY PlusType DEF Lane
<1>2. [i \in Lane |-> IF i < n THEN m[Plus(a, i)] ELSE 0] \in [Lane -> Bit]
  BY <1>1 DEF Memory, Bit
<1> QED BY <1>2, FromBytesType DEF Fetched

\* A store of up to four bytes leaves a memory.
LEMMA StoredType ==
    ASSUME NEW m \in Memory, NEW n \in 0..4, NEW a \in Word, NEW w \in Word
    PROVE  Stored(m, n, a, w) \in Memory
<1>1. \A b \in Word : Plus(b, -a) \in Word
  BY PlusType DEF Word
<1>2. \A b \in Word : Plus(b, -a) < n => Bytes(w)[Plus(b, -a)] \in Bit
  <2> SUFFICES ASSUME NEW b \in Word, Plus(b, -a) < n PROVE Bytes(w)[Plus(b, -a)] \in Bit
    OBVIOUS
  <2>1. Plus(b, -a) \in Lane
    BY <1>1 DEF Word, Lane
  <2> QED BY <2>1, BytesType
<1> QED BY <1>1, <1>2 DEF Stored, Memory

-----------------------------------------------------------------------------
(* What the pieces of a handler do to the state it works on.                 *)

\* An access with fault catching changes the trap registers only (emulation.c 51).
LEMMA CaughtWork ==
    ASSUME NEW h \in Work, NEW fault \in Faults \cup {"none"}, NEW a \in Word
    PROVE  LET r == Caught(h, fault, a) IN
           /\ r \in Work
           /\ r.ctx = h.ctx /\ r.mem = h.mem /\ r.strap = h.strap /\ r.res = h.res
           /\ fault # "none" => r.mcsr.mcause = fault /\ r.mcsr.mtval = a
           /\ fault = "none" => r.mcsr.mcause = h.mcsr.mcause /\ r.mcsr.mtval = h.mcsr.mtval
BY DEF Caught, Work, Mcsr

\* A handler that emulated its instruction goes on behind it, with the vector restored.
LEMMA SkipWork ==
    ASSUME NEW h \in Work
    PROVE  LET r == SkipInstruction(h) IN
           /\ r \in Work
           /\ r.ctx.pc = Next4(h.ctx.pc) /\ r.ctx.reg = h.ctx.reg /\ r.ctx.status = h.ctx.status
           /\ r.mem = h.mem /\ r.strap = h.strap /\ r.res = h.res
           /\ r.mcsr.mtvec = "isr_vector"
<1>1. Next4(h.ctx.pc) \in Pcs
  BY DEF Work, Ctx, Pcs, Next4
<1> QED BY <1>1 DEF SkipInstruction, Work, Ctx, Mcsr

\* A fault that is handed to the supervisor is told as the core would have (emulation.c 31-49).
LEMMA TrapWork ==
    ASSUME NEW h \in Work, h.mcsr.mcause \in Faults
    PROVE  LET r == emulation_trap_to_supervisor(h) IN
           /\ r \in Work
           /\ r.ctx.pc = Stvec /\ r.ctx.reg = h.ctx.reg
           /\ r.ctx.status = [sie |-> FALSE, spie |-> h.ctx.status.sie, spp |-> h.ctx.status.mpp, mpp |-> 1]
           /\ r.strap = [epc |-> h.ctx.pc, cause |-> h.mcsr.mcause, tval |-> h.mcsr.mtval]
           /\ r.mem = h.mem /\ r.res = h.res
           /\ r.mcsr.mtvec = "isr_vector"
<1>1. Stvec \in Pcs
  BY DEF Pcs, Stvec
<1>2. h.ctx.status.mpp % 2 = h.ctx.status.mpp
  BY DEF Work, Ctx, Status, Bit
<1>3. [sie |-> FALSE, spie |-> h.ctx.status.sie, spp |-> h.ctx.status.mpp % 2, mpp |-> 1] \in Status
  BY <1>2 DEF Work, Ctx, Status, Bit
<1>4. [epc |-> h.ctx.pc, cause |-> h.mcsr.mcause, tval |-> h.mcsr.mtval] \in Strap
  BY DEF Work, Ctx, Strap, Mcsr
<1> QED BY <1>1, <1>2, <1>3, <1>4 DEF emulation_trap_to_supervisor, Work, Ctx, Mcsr

\* A handler writes a register of the frame.
Put(h, r, v) == [h EXCEPT !.ctx.reg[r] = v]

\* Writing a register of the frame leaves the rest of it.
LEMMA PutWork ==
    ASSUME NEW h \in Work, NEW r \in Regs, NEW v \in Word
    PROVE  /\ Put(h, r, v) \in Work
           /\ Put(h, r, v).ctx.pc = h.ctx.pc /\ Put(h, r, v).ctx.status = h.ctx.status
           /\ Put(h, r, v).ctx.reg = [h.ctx.reg EXCEPT ![r] = v]
           /\ Put(h, r, v).mem = h.mem /\ Put(h, r, v).strap = h.strap
           /\ Put(h, r, v).res = h.res /\ Put(h, r, v).mcsr = h.mcsr
BY DEF Work, Ctx, Put

\* An access faults with one of four causes or not at all.
LEMMA FaultType ==
    \A m, kind, n, p, a : FaultOf(m, kind, n, p, a) \in Faults \cup {"none"}
BY DEF FaultOf, Faults

\* A word is written, or its fault is caught and memory is as it was.
LEMMA WriteWork ==
    ASSUME NEW h \in Work, NEW a \in Word, NEW w \in Word
    PROVE  LET r     == emulation_write_word(h, a, w)
               fault == WriteFault(h, 4, a)
           IN  /\ r \in Work
               /\ r.ctx = h.ctx /\ r.strap = h.strap /\ r.res = h.res
               /\ fault # "none" => r.mcsr.mcause = fault /\ r.mcsr.mtval = a /\ r.mem = h.mem
               /\ fault = "none" => r.mem = Stored(h.mem, 4, a, w)
<1> DEFINE s == [h EXCEPT !.mem = Stored(h.mem, 4, a, w)]
           fault == WriteFault(h, 4, a)
<1>1. fault \in Faults \cup {"none"}
  BY FaultType DEF WriteFault
<1>2. s \in Work /\ s.ctx = h.ctx /\ s.strap = h.strap /\ s.res = h.res /\ s.mcsr = h.mcsr
      /\ s.mem = Stored(h.mem, 4, a, w)
  <2>1. Stored(h.mem, 4, a, w) \in Memory
    BY StoredType DEF Work
  <2> QED BY <2>1 DEF Work
<1> HIDE DEF s, fault
<1>3. CASE fault = "none"
  <2>1. emulation_write_word(h, a, w) = Caught(s, fault, a)
    BY <1>3 DEF emulation_write_word, s, fault
  <2>2. Caught(s, fault, a) \in Work /\ Caught(s, fault, a).ctx = h.ctx
        /\ Caught(s, fault, a).strap = h.strap /\ Caught(s, fault, a).res = h.res
        /\ Caught(s, fault, a).mem = s.mem
    BY <1>1, <1>2, CaughtWork
  <2> QED BY <1>2, <1>3, <2>1, <2>2 DEF fault
<1>4. CASE fault # "none"
  <2>1. emulation_write_word(h, a, w) = Caught(h, fault, a)
    BY <1>4 DEF emulation_write_word, fault
  <2> QED BY <1>1, <1>4, <2>1, CaughtWork DEF fault
<1> QED BY <1>3, <1>4

\* How a handler ends: behind its instruction, or in the supervisor's trap.
Skipped(r, h) ==
    /\ r \in Work /\ r.mcsr.mtvec = "isr_vector"
    /\ r.ctx.pc = Next4(h.ctx.pc) /\ r.ctx.status = h.ctx.status /\ r.strap = h.strap
HandedOver(r, h, cause, tval) ==
    /\ r \in Work /\ r.mcsr.mtvec = "isr_vector"
    /\ r.ctx.pc = Stvec /\ r.ctx.reg = h.ctx.reg /\ r.res = h.res
    /\ r.ctx.status = [sie |-> FALSE, spie |-> h.ctx.status.sie, spp |-> h.ctx.status.mpp, mpp |-> 1]
    /\ r.strap = [epc |-> h.ctx.pc, cause |-> cause, tval |-> tval]

\* LR: the fault of its load, or the word and the reservation.
LEMMA LoadReservedWork ==
    ASSUME NEW h \in Work, instr \in Instr
    PROVE  LET r == load_reserved(h)
               a == h.ctx.reg[instr.rs1]
               fault == ReadFault(h, 4, a)
           IN  /\ fault # "none" => HandedOver(r, h, fault, a) /\ r.mem = h.mem
               /\ fault = "none" => /\ Skipped(r, h) /\ r.mem = h.mem /\ r.res = a
                                    /\ r.ctx.reg = [h.ctx.reg EXCEPT ![instr.rd] = Fetched(h.mem, 4, a)]
<1> DEFINE a == h.ctx.reg[instr.rs1]
           fault == ReadFault(h, 4, a)
           r == Caught(h, fault, a)
           q == [r EXCEPT !.res = a]
           s == Put(q, instr.rd, Fetched(h.mem, 4, a))
<1>1. a \in Word /\ instr.rd \in Regs /\ fault \in Faults \cup {"none"} /\ Fetched(h.mem, 4, a) \in Word
  BY FaultType, FetchedType DEF Work, Ctx, Instr, ReadFault
<1>2. /\ r \in Work /\ r.ctx = h.ctx /\ r.mem = h.mem /\ r.strap = h.strap /\ r.res = h.res
      /\ fault # "none" => r.mcsr.mcause = fault /\ r.mcsr.mtval = a
  BY <1>1, CaughtWork
<1>3. ASSUME fault # "none" PROVE load_reserved(h) = emulation_trap_to_supervisor(r)
  BY <1>3 DEF load_reserved, emulation_read_word
<1>4. ASSUME fault = "none" PROVE load_reserved(h) = SkipInstruction(s)
  <2>1. load_reserved(h) = SkipInstruction([r EXCEPT !.res = a, !.ctx.reg[instr.rd] = Fetched(h.mem, 4, a)])
    BY <1>4 DEF load_reserved, emulation_read_word
  <2> QED BY <2>1 DEF Put
<1> HIDE DEF r, fault, a
<1>5. q \in Work /\ q.ctx = h.ctx /\ q.mem = h.mem /\ q.strap = h.strap /\ q.res = a
  BY <1>1, <1>2 DEF Work
<1> HIDE DEF q
<1>6. /\ s \in Work /\ s.ctx.pc = h.ctx.pc /\ s.ctx.status = h.ctx.status
      /\ s.ctx.reg = [h.ctx.reg EXCEPT ![instr.rd] = Fetched(h.mem, 4, a)]
      /\ s.mem = h.mem /\ s.strap = h.strap /\ s.res = a
  BY <1>1, <1>5, PutWork
<1> HIDE DEF s
<1>7. ASSUME fault # "none" PROVE HandedOver(load_reserved(h), h, fault, a) /\ load_reserved(h).mem = h.mem
  BY <1>1, <1>2, <1>3, <1>7, TrapWork DEF HandedOver
<1>8. ASSUME fault = "none"
      PROVE  /\ Skipped(load_reserved(h), h) /\ load_reserved(h).mem = h.mem /\ load_reserved(h).res = a
             /\ load_reserved(h).ctx.reg = [h.ctx.reg EXCEPT ![instr.rd] = Fetched(h.mem, 4, a)]
  BY <1>4, <1>6, <1>8, SkipWork DEF Skipped
<1> QED BY <1>7, <1>8 DEF fault, a

\* An operand is a word.
LEMMA OperandType ==
    ASSUME NEW h \in Work, NEW r \in Regs
    PROVE  Operand(h, r) \in Word
BY DEF Operand, Work, Ctx, Word

\* SC: not the address that is reserved, the fault of its store, or the word is stored.
LEMMA StoreConditionalWork ==
    ASSUME NEW h \in Work, instr \in Instr
    PROVE  LET r == store_conditional(h)
               a == Operand(h, instr.rs1)
               v == Operand(h, instr.rs2)
               fault == WriteFault(h, 4, a)
           IN  /\ h.res # a => /\ Skipped(r, h) /\ r.mem = h.mem /\ r.res = h.res
                               /\ r.ctx.reg = [h.ctx.reg EXCEPT ![instr.rd] = 1]
               /\ h.res = a /\ fault # "none" => HandedOver(r, h, fault, a) /\ r.mem = h.mem
               /\ h.res = a /\ fault = "none" =>
                     /\ Skipped(r, h) /\ r.mem = Stored(h.mem, 4, a, v) /\ r.res = 0
                     /\ r.ctx.reg = [h.ctx.reg EXCEPT ![instr.rd] = 0]
<1> DEFINE a == Operand(h, instr.rs1)
           v == Operand(h, instr.rs2)
           fault == WriteFault(h, 4, a)
           w == emulation_write_word(h, a, v)
           q == [w EXCEPT !.res = 0]
           r == store_conditional(h)
<1>1. a \in Word /\ v \in Word /\ instr.rd \in Regs /\ 0 \in Word /\ 1 \in Word
  BY OperandType DEF Instr, Word
<1>2. fault \in Faults \cup {"none"}
  BY FaultType DEF WriteFault
<1>4. h.res # a => r = SkipInstruction(Put(h, instr.rd, 1))
  BY DEF store_conditional, Put
<1>5. h.res = a /\ fault # "none" => r = emulation_trap_to_supervisor(w)
  BY DEF store_conditional
<1>6. h.res = a /\ fault = "none" => r = SkipInstruction(Put(q, instr.rd, 0))
  BY DEF store_conditional, Put
<1> HIDE DEF a, v
<1>3. /\ w \in Work /\ w.ctx = h.ctx /\ w.strap = h.strap /\ w.res = h.res
      /\ fault # "none" => w.mcsr.mcause = fault /\ w.mcsr.mtval = a /\ w.mem = h.mem
      /\ fault = "none" => w.mem = Stored(h.mem, 4, a, v)
  BY <1>1, WriteWork
<1> HIDE DEF fault, w, r
<1>7. q \in Work /\ q.ctx = h.ctx /\ q.mem = w.mem /\ q.strap = h.strap /\ q.res = 0
  BY <1>1, <1>3 DEF Work
<1> HIDE DEF q
<1>8. ASSUME h.res # a
      PROVE  /\ Skipped(r, h) /\ r.mem = h.mem /\ r.res = h.res
             /\ r.ctx.reg = [h.ctx.reg EXCEPT ![instr.rd] = 1]
  <2>1. /\ Put(h, instr.rd, 1) \in Work
        /\ Put(h, instr.rd, 1).ctx.pc = h.ctx.pc /\ Put(h, instr.rd, 1).ctx.status = h.ctx.status
        /\ Put(h, instr.rd, 1).ctx.reg = [h.ctx.reg EXCEPT ![instr.rd] = 1]
        /\ Put(h, instr.rd, 1).mem = h.mem /\ Put(h, instr.rd, 1).strap = h.strap
        /\ Put(h, instr.rd, 1).res = h.res
    BY <1>1, PutWork
  <2> QED BY <1>4, <1>8, <2>1, SkipWork DEF Skipped
<1>9. ASSUME h.res = a, fault # "none" PROVE HandedOver(r, h, fault, a) /\ r.mem = h.mem
  BY <1>2, <1>3, <1>5, <1>9, TrapWork DEF HandedOver
<1>10. ASSUME h.res = a, fault = "none"
       PROVE  /\ Skipped(r, h) /\ r.mem = Stored(h.mem, 4, a, v) /\ r.res = 0
              /\ r.ctx.reg = [h.ctx.reg EXCEPT ![instr.rd] = 0]
  <2>1. /\ Put(q, instr.rd, 0) \in Work
        /\ Put(q, instr.rd, 0).ctx.pc = h.ctx.pc /\ Put(q, instr.rd, 0).ctx.status = h.ctx.status
        /\ Put(q, instr.rd, 0).ctx.reg = [h.ctx.reg EXCEPT ![instr.rd] = 0]
        /\ Put(q, instr.rd, 0).mem = w.mem /\ Put(q, instr.rd, 0).strap = h.strap
        /\ Put(q, instr.rd, 0).res = 0
    BY <1>1, <1>7, PutWork
  <2> QED BY <1>3, <1>6, <1>10, <2>1, SkipWork DEF Skipped
<1> QED BY <1>8, <1>9, <1>10 DEF a, v, fault, r

\* The nine operations compute what the hart's do, within a word.
LEMMA ComputeType ==
    ASSUME NEW op \in AmoOps, NEW src \in Word, NEW old \in Word
    PROVE  Compute(op, src, old) \in Word
<1>1. \A F \in [Lane -> Bit] : FromBytes(F) \in Word
  BY FromBytesType
<1>2. CASE op = "amoadd"
  BY <1>2 DEF Compute, Word
<1>3. CASE op \in {"amoswap", "amomin", "amomax", "amominu", "amomaxu"}
  BY <1>3 DEF Compute
<1>4. CASE op = "amoxor"
  <2>1. [i \in Lane |-> IF Bytes(src)[i] # Bytes(old)[i] THEN 1 ELSE 0] \in [Lane -> Bit]
    BY DEF Bit
  <2>2. Compute(op, src, old) =
            FromBytes([i \in Lane |-> IF Bytes(src)[i] # Bytes(old)[i] THEN 1 ELSE 0])
    BY <1>4 DEF Compute
  <2> QED BY <1>1, <2>1, <2>2
<1>5. CASE op = "amoand"
  <2>1. [i \in Lane |-> IF Bytes(src)[i] = 1 /\ Bytes(old)[i] = 1 THEN 1 ELSE 0] \in [Lane -> Bit]
    BY DEF Bit
  <2>2. Compute(op, src, old) =
            FromBytes([i \in Lane |-> IF Bytes(src)[i] = 1 /\ Bytes(old)[i] = 1 THEN 1 ELSE 0])
    BY <1>5 DEF Compute
  <2> QED BY <1>1, <2>1, <2>2
<1>6. CASE op = "amoor"
  <2>1. [i \in Lane |-> IF Bytes(src)[i] = 1 \/ Bytes(old)[i] = 1 THEN 1 ELSE 0] \in [Lane -> Bit]
    BY DEF Bit
  <2>2. Compute(op, src, old) =
            FromBytes([i \in Lane |-> IF Bytes(src)[i] = 1 \/ Bytes(old)[i] = 1 THEN 1 ELSE 0])
    BY <1>6 DEF Compute
  <2> QED BY <1>1, <2>1, <2>2
<1> QED BY <1>2, <1>3, <1>4, <1>5, <1>6 DEF AmoOps

\* AMO: the fault of its load, or else of its store, or the word is replaced by the result.
LEMMA AtomicWork ==
    ASSUME NEW h \in Work, instr \in Instr, instr.op \in AmoOps
    PROVE  LET r == atomic(h)
               a == Operand(h, instr.rs1)
               old == Fetched(h.mem, 4, a)
               v == Compute(instr.op, Operand(h, instr.rs2), old)
               load == ReadFault(h, 4, a)
               store == WriteFault(h, 4, a)
           IN  /\ load # "none" => HandedOver(r, h, load, a) /\ r.mem = h.mem
               /\ load = "none" /\ store # "none" => HandedOver(r, h, store, a) /\ r.mem = h.mem
               /\ load = "none" /\ store = "none" =>
                     /\ Skipped(r, h) /\ r.mem = Stored(h.mem, 4, a, v) /\ r.res = h.res
                     /\ r.ctx.reg = [h.ctx.reg EXCEPT ![instr.rd] = old]
<1> DEFINE a == Operand(h, instr.rs1)
           old == Fetched(h.mem, 4, a)
           src == Operand(h, instr.rs2)
           v == Compute(instr.op, src, old)
           load == ReadFault(h, 4, a)
           store == WriteFault(h, 4, a)
           c == Caught(h, load, a)
           w == emulation_write_word(c, a, v)
           r == atomic(h)
<1>1. a \in Word /\ src \in Word /\ instr.rd \in Regs
  BY OperandType DEF Instr
<1>2. load \in Faults \cup {"none"} /\ store \in Faults \cup {"none"}
  BY FaultType DEF WriteFault, ReadFault
<1>3. /\ c \in Work /\ c.ctx = h.ctx /\ c.mem = h.mem /\ c.strap = h.strap /\ c.res = h.res
      /\ load # "none" => c.mcsr.mcause = load /\ c.mcsr.mtval = a
  BY <1>1, <1>2, CaughtWork
<1>4. WriteFault(c, 4, a) = store
  BY <1>3 DEF WriteFault
<1>5. load # "none" => r = emulation_trap_to_supervisor(c)
  BY DEF atomic, emulation_read_word
<1>6. load = "none" /\ store # "none" => r = emulation_trap_to_supervisor(w)
  BY <1>4 DEF atomic, emulation_read_word
<1>7. load = "none" /\ store = "none" => r = SkipInstruction(Put(w, instr.rd, old))
  BY <1>4 DEF atomic, emulation_read_word, Put
<1> HIDE DEF a, src, load, store, c, r
<1>8. old \in Word
  BY <1>1, FetchedType DEF Work
<1> HIDE DEF old
<1>9. v \in Word
  BY <1>1, <1>8, ComputeType
<1> HIDE DEF v
<1>10. /\ w \in Work /\ w.ctx = h.ctx /\ w.strap = h.strap /\ w.res = h.res
       /\ store # "none" => w.mcsr.mcause = store /\ w.mcsr.mtval = a /\ w.mem = h.mem
       /\ store = "none" => w.mem = Stored(h.mem, 4, a, v)
  <2>1. LET q     == emulation_write_word(c, a, v)
            fault == WriteFault(c, 4, a)
        IN  /\ q \in Work
            /\ q.ctx = c.ctx /\ q.strap = c.strap /\ q.res = c.res
            /\ fault # "none" => q.mcsr.mcause = fault /\ q.mcsr.mtval = a /\ q.mem = c.mem
            /\ fault = "none" => q.mem = Stored(c.mem, 4, a, v)
    <3> HIDE DEF w
    <3> QED BY <1>1, <1>3, <1>9, WriteWork
  <2> QED BY <1>3, <1>4, <2>1
<1> HIDE DEF w
<1>11. ASSUME load # "none" PROVE HandedOver(r, h, load, a) /\ r.mem = h.mem
  BY <1>2, <1>3, <1>5, <1>11, TrapWork DEF HandedOver
<1>12. ASSUME load = "none", store # "none" PROVE HandedOver(r, h, store, a) /\ r.mem = h.mem
  BY <1>2, <1>6, <1>10, <1>12, TrapWork DEF HandedOver
<1>13. ASSUME load = "none", store = "none"
       PROVE  /\ Skipped(r, h) /\ r.mem = Stored(h.mem, 4, a, v) /\ r.res = h.res
              /\ r.ctx.reg = [h.ctx.reg EXCEPT ![instr.rd] = old]
  <2>1. /\ Put(w, instr.rd, old) \in Work
        /\ Put(w, instr.rd, old).ctx.pc = h.ctx.pc /\ Put(w, instr.rd, old).ctx.status = h.ctx.status
        /\ Put(w, instr.rd, old).ctx.reg = [h.ctx.reg EXCEPT ![instr.rd] = old]
        /\ Put(w, instr.rd, old).mem = w.mem /\ Put(w, instr.rd, old).strap = h.strap
        /\ Put(w, instr.rd, old).res = h.res
    BY <1>1, <1>8, <1>10, PutWork
  <2> QED BY <1>7, <1>10, <1>13, <2>1, SkipWork DEF Skipped
<1> QED BY <1>11, <1>12, <1>13 DEF a, src, old, v, load, store, r

\* The instruction is fetched by a load, which may fault or find another.
LEMMA FetchWork ==
    ASSUME NEW h \in Work
    PROVE  LET f == FetchInstruction(h) IN
           /\ f \in Work
           /\ f.ctx = h.ctx /\ f.mem = h.mem /\ f.strap = h.strap /\ f.res = h.res
           /\ instr.seen = "fault" => f.mcsr.mcause = "load_fault" /\ f.mcsr.mtval = h.ctx.pc
           /\ instr.seen # "fault" => f.mcsr.mcause = h.mcsr.mcause /\ f.mcsr.mtval = h.mcsr.mtval
<1>1. h.ctx.pc \in Word
  BY DEF Work, Ctx, Pcs, Word
<1>2. CASE instr.seen = "fault"
  <2>1. FetchInstruction(h) = Caught(h, "load_fault", h.ctx.pc)
    BY <1>2 DEF FetchInstruction
  <2>2. "load_fault" \in Faults \cup {"none"} /\ "load_fault" # "none"
    BY DEF Faults
  <2> QED BY <1>1, <1>2, <2>1, <2>2, CaughtWork
<1>3. CASE instr.seen # "fault"
  <2>1. FetchInstruction(h) = Caught(h, "none", h.ctx.pc)
    BY <1>3 DEF FetchInstruction
  <2> QED BY <1>1, <1>3, <2>1, CaughtWork
<1> QED BY <1>2, <1>3

\* A byte is never misaligned.
LEMMA ByteFault ==
    ASSUME NEW m, NEW kind \in {"load", "store"}, NEW p, NEW a \in Word
    PROVE  FaultOf(m, kind, 1, p, a) = IF Allowed(m, kind, p, a) THEN "none"
                                       ELSE IF kind = "load" THEN "load_fault" ELSE "store_fault"
BY DEF FaultOf, Word

\* The first of the byte lanes that fault exists and is the first.
LEMMA LeastIs ==
    ASSUME NEW S \in SUBSET Lane, S # {}
    PROVE  Least(S) \in S /\ \A j \in S : Least(S) <= j
<1>1. \E i \in S : \A j \in S : i <= j
  <2>1. CASE 0 \in S
    BY <2>1 DEF Lane
  <2>2. CASE 0 \notin S /\ 1 \in S
    BY <2>2 DEF Lane
  <2>3. CASE 0 \notin S /\ 1 \notin S /\ 2 \in S
    BY <2>3 DEF Lane
  <2>4. CASE 0 \notin S /\ 1 \notin S /\ 2 \notin S
    <3>1. \A j \in S : j = 3
      BY <2>4 DEF Lane
    <3> QED BY <3>1
  <2> QED BY <2>1, <2>2, <2>3, <2>4
<1> QED BY <1>1 DEF Least

\* The sign of a halfword is that of its second byte.
LEMMA ExtendedType ==
    ASSUME NEW m \in Memory, NEW op \in LoadOps, NEW a \in Word
    PROVE  Extended(op, Fetched(m, Length(op), a)) \in Word
           /\ Extended(op, Fetched(m, Length(op), a)) =
                 IF op = "lh" /\ Fetched(m, Length(op), a) >= 2
                 THEN Fetched(m, Length(op), a) + 12 ELSE Fetched(m, Length(op), a)
<1> DEFINE v == Fetched(m, Length(op), a)
<1>1. v \in Word
  BY FetchedType DEF Length
<1>2. CASE op = "lh"
  <2>1. v < 4
    <3>1. m[Plus(a, 0)] \in Bit /\ m[Plus(a, 1)] \in Bit
      BY PlusType DEF Memory
    <3>2. v = m[Plus(a, 0)] + 2 * m[Plus(a, 1)]
      BY <1>2, <3>1 DEF Fetched, Length, FromBytes, Lane, Bit
    <3> QED BY <3>1, <3>2 DEF Bit
  <2> HIDE DEF v
  <2>2. Bytes(v)[1] = 1 <=> v >= 2
    BY <1>1, <2>1 DEF Bytes, Lane, Word
  <2> QED BY <1>1, <1>2, <2>1, <2>2 DEF Extended, Word, v
<1>3. CASE op # "lh"
  BY <1>1, <1>3 DEF Extended
<1> QED BY <1>2, <1>3

\* A misaligned load: the fetch fails or finds another instruction, a byte of
\* the access faults, or all of them are read.
LEMMA MisalignedLoadWork ==
    ASSUME NEW h \in Work, instr \in Instr, instr.op \in LoadOps,
           h.mcsr.mcause = "misaligned_load"
    PROVE  LET r == trap_misaligned_ld(h)
               a == h.mcsr.mtval
               failing == {i \in 0..(Length(instr.op) - 1) :
                              ~Allowed(attr, "load", h.ctx.status.mpp, Plus(a, i))}
               data == Extended(instr.op, Fetched(h.mem, Length(instr.op), a))
           IN  /\ instr.seen = "fault" => HandedOver(r, h, "load_fault", h.ctx.pc) /\ r.mem = h.mem
               /\ instr.seen = "other" => HandedOver(r, h, "misaligned_load", a) /\ r.mem = h.mem
               /\ instr.seen = "same" /\ failing # {} =>
                     HandedOver(r, h, "load_fault", Plus(a, Least(failing))) /\ r.mem = h.mem
               /\ instr.seen = "same" /\ failing = {} =>
                     /\ Skipped(r, h) /\ r.mem = h.mem /\ r.res = h.res
                     /\ r.ctx.reg = IF instr.rd = "zero" THEN h.ctx.reg
                                    ELSE [h.ctx.reg EXCEPT ![instr.rd] = data]
<1> DEFINE a == h.mcsr.mtval
           n == Length(instr.op)
           failing == {i \in 0..(n - 1) : ~Allowed(attr, "load", h.ctx.status.mpp, Plus(a, i))}
           data == Extended(instr.op, Fetched(h.mem, n, a))
           f == FetchInstruction(h)
           b == Plus(a, Least(failing))
           c == Caught(f, "load_fault", b)
           r == trap_misaligned_ld(h)
<1>1. a \in Word /\ h.mem \in Memory /\ instr.rd \in Regs /\ n \in {2, 4}
  BY DEF Work, Mcsr, Instr, Length
<1>2. /\ f \in Work /\ f.ctx = h.ctx /\ f.mem = h.mem /\ f.strap = h.strap /\ f.res = h.res
      /\ instr.seen = "fault" => f.mcsr.mcause = "load_fault" /\ f.mcsr.mtval = h.ctx.pc
      /\ instr.seen # "fault" => f.mcsr.mcause = "misaligned_load" /\ f.mcsr.mtval = a
  BY FetchWork
<1> HIDE DEF f
<1>3. \A i \in 0..(n - 1) : ReadFault(f, 1, Plus(a, i)) =
          IF Allowed(attr, "load", h.ctx.status.mpp, Plus(a, i)) THEN "none" ELSE "load_fault"
  <2> SUFFICES ASSUME NEW i \in 0..(n - 1)
               PROVE  ReadFault(f, 1, Plus(a, i)) =
                        IF Allowed(attr, "load", h.ctx.status.mpp, Plus(a, i)) THEN "none" ELSE "load_fault"
    OBVIOUS
  <2>1. Plus(a, i) \in Word
    BY <1>1, PlusType
  <2> HIDE DEF a, n
  <2> QED BY <1>2, <2>1, ByteFault DEF ReadFault
<1>4. failing = {i \in 0..(n - 1) : ReadFault(f, 1, Plus(a, i)) # "none"}
  BY <1>3
<1>5. failing \subseteq Lane
  BY <1>1 DEF Lane
<1>6. instr.seen # "same" => r = emulation_trap_to_supervisor(f)
  BY DEF trap_misaligned_ld, f
<1>7. instr.seen = "same" /\ failing # {} =>
          r = emulation_trap_to_supervisor(emulation_read_byte(f, b))
  BY <1>4 DEF trap_misaligned_ld, f
<1>8. instr.seen = "same" /\ failing = {} =>
          r = SkipInstruction(IF instr.rd = "zero" THEN f ELSE Put(f, instr.rd, data))
  BY <1>4 DEF trap_misaligned_ld, f, Put
<1>9. data \in Word
  BY <1>1, ExtendedType
<1> HIDE DEF r, data, a
<1>10. "load_fault" \in Faults /\ "misaligned_load" \in Faults
  BY DEF Faults
<1>11. ASSUME instr.seen = "fault" PROVE HandedOver(r, h, "load_fault", h.ctx.pc) /\ r.mem = h.mem
  BY <1>2, <1>6, <1>10, <1>11, TrapWork DEF HandedOver
<1>12. ASSUME instr.seen = "other" PROVE HandedOver(r, h, "misaligned_load", a) /\ r.mem = h.mem
  BY <1>2, <1>6, <1>10, <1>12, TrapWork DEF HandedOver
<1>13. ASSUME instr.seen = "same", failing # {}
       PROVE  HandedOver(r, h, "load_fault", b) /\ r.mem = h.mem
  <2>1. Least(failing) \in failing
    BY <1>5, <1>13, LeastIs
  <2>2. b \in Word /\ ReadFault(f, 1, b) = "load_fault"
    <3>1. Least(failing) \in 0..(n - 1) /\ ~Allowed(attr, "load", h.ctx.status.mpp, b)
      BY <2>1
    <3>2. Least(failing) \in Int
      BY <1>1, <3>1
    <3> QED BY <1>1, <1>3, <3>1, <3>2, PlusType
  <2>3. emulation_read_byte(f, b) = c
    BY <2>2 DEF emulation_read_byte
  <2> HIDE DEF b, c, failing
  <2>4. c \in Work /\ c.ctx = f.ctx /\ c.mem = f.mem /\ c.strap = f.strap /\ c.res = f.res
        /\ c.mcsr.mcause = "load_fault" /\ c.mcsr.mtval = b
    <3>1. "load_fault" \in Faults \cup {"none"} /\ "load_fault" # "none"
      BY <1>10
    <3> QED BY <1>2, <2>2, <3>1, CaughtWork DEF c
  <2> QED BY <1>2, <1>7, <1>10, <1>13, <2>3, <2>4, TrapWork DEF HandedOver
<1>14. ASSUME instr.seen = "same", failing = {}
       PROVE  /\ Skipped(r, h) /\ r.mem = h.mem /\ r.res = h.res
              /\ r.ctx.reg = IF instr.rd = "zero" THEN h.ctx.reg
                             ELSE [h.ctx.reg EXCEPT ![instr.rd] = data]
  <2>1. CASE instr.rd = "zero"
    BY <1>2, <1>8, <1>14, <2>1, SkipWork DEF Skipped
  <2>2. CASE instr.rd # "zero"
    <3>1. /\ Put(f, instr.rd, data) \in Work
          /\ Put(f, instr.rd, data).ctx.pc = h.ctx.pc /\ Put(f, instr.rd, data).ctx.status = h.ctx.status
          /\ Put(f, instr.rd, data).ctx.reg = [h.ctx.reg EXCEPT ![instr.rd] = data]
          /\ Put(f, instr.rd, data).mem = h.mem /\ Put(f, instr.rd, data).strap = h.strap
          /\ Put(f, instr.rd, data).res = h.res
      BY <1>1, <1>2, <1>9, PutWork
    <3> QED BY <1>8, <1>14, <2>2, <3>1, SkipWork DEF Skipped
  <2> QED BY <2>1, <2>2
<1> QED BY <1>11, <1>12, <1>13, <1>14 DEF r, data, a

\* A misaligned store: the same, and what was stored before a byte that faults stays.
LEMMA MisalignedStoreWork ==
    ASSUME NEW h \in Work, instr \in Instr, instr.op \in StoreOps,
           h.mcsr.mcause = "misaligned_store"
    PROVE  LET r == trap_misaligned_st(h)
               a == h.mcsr.mtval
               failing == {i \in 0..(Length(instr.op) - 1) :
                              ~Allowed(attr, "store", h.ctx.status.mpp, Plus(a, i))}
               value == Operand(h, instr.rs2)
           IN  /\ instr.seen = "fault" => HandedOver(r, h, "load_fault", h.ctx.pc) /\ r.mem = h.mem
               /\ instr.seen = "other" => HandedOver(r, h, "misaligned_store", a) /\ r.mem = h.mem
               /\ instr.seen = "same" /\ failing # {} =>
                     /\ HandedOver(r, h, "store_fault", Plus(a, Least(failing)))
                     /\ r.mem = Stored(h.mem, Least(failing), a, value)
               /\ instr.seen = "same" /\ failing = {} =>
                     /\ Skipped(r, h) /\ r.res = h.res /\ r.ctx.reg = h.ctx.reg
                     /\ r.mem = Stored(h.mem, Length(instr.op), a, value)
<1> DEFINE a == h.mcsr.mtval
           n == Length(instr.op)
           failing == {i \in 0..(n - 1) : ~Allowed(attr, "store", h.ctx.status.mpp, Plus(a, i))}
           value == Operand(h, instr.rs2)
           f == FetchInstruction(h)
           b == Plus(a, Least(failing))
           after(k) == [f EXCEPT !.mem = Stored(h.mem, k, a, value)]
           c == Caught(after(Least(failing)), "store_fault", b)
           r == trap_misaligned_st(h)
<1>1. a \in Word /\ h.mem \in Memory /\ value \in Word /\ n \in {2, 4}
  BY OperandType DEF Work, Mcsr, Instr, Length
<1>2. /\ f \in Work /\ f.ctx = h.ctx /\ f.mem = h.mem /\ f.strap = h.strap /\ f.res = h.res
      /\ instr.seen = "fault" => f.mcsr.mcause = "load_fault" /\ f.mcsr.mtval = h.ctx.pc
      /\ instr.seen # "fault" => f.mcsr.mcause = "misaligned_store" /\ f.mcsr.mtval = a
  BY FetchWork
<1>3. Operand(f, instr.rs2) = value
  BY <1>2 DEF Operand
<1> HIDE DEF f, value
<1>4. \A i \in 0..(n - 1) : WriteFault(f, 1, Plus(a, i)) =
          IF Allowed(attr, "store", h.ctx.status.mpp, Plus(a, i)) THEN "none" ELSE "store_fault"
  <2> SUFFICES ASSUME NEW i \in 0..(n - 1)
               PROVE  WriteFault(f, 1, Plus(a, i)) =
                        IF Allowed(attr, "store", h.ctx.status.mpp, Plus(a, i)) THEN "none" ELSE "store_fault"
    OBVIOUS
  <2>1. Plus(a, i) \in Word
    BY <1>1, PlusType
  <2> HIDE DEF a, n
  <2> QED BY <1>2, <2>1, ByteFault DEF WriteFault
<1>5. failing = {i \in 0..(n - 1) : WriteFault(f, 1, Plus(a, i)) # "none"}
  BY <1>4
<1>6. failing \subseteq Lane
  BY <1>1 DEF Lane
<1>7. \A k \in 0..4 : /\ after(k) \in Work /\ after(k).ctx = f.ctx /\ after(k).strap = f.strap
                     /\ after(k).res = f.res /\ after(k).mem = Stored(h.mem, k, a, value)
  <2> SUFFICES ASSUME NEW k \in 0..4
               PROVE  /\ after(k) \in Work /\ after(k).ctx = f.ctx /\ after(k).strap = f.strap
                      /\ after(k).res = f.res /\ after(k).mem = Stored(h.mem, k, a, value)
    OBVIOUS
  <2>1. Stored(h.mem, k, a, value) \in Memory
    BY <1>1, StoredType
  <2> QED BY <1>2, <2>1 DEF Work
<1>8. instr.seen # "same" => r = emulation_trap_to_supervisor(f)
  BY DEF trap_misaligned_st, f
<1>9. instr.seen = "same" /\ failing # {} =>
          r = emulation_trap_to_supervisor(
                 emulation_write_byte(after(Least(failing)), b, Bytes(value)[Least(failing)]))
  BY <1>3, <1>5 DEF trap_misaligned_st, f
<1>10. instr.seen = "same" /\ failing = {} => r = SkipInstruction(after(n))
  BY <1>3, <1>5 DEF trap_misaligned_st, f
<1>11. "load_fault" \in Faults /\ "store_fault" \in Faults /\ "misaligned_store" \in Faults
  BY DEF Faults
<1> HIDE DEF r, after, a
<1>12. ASSUME instr.seen = "fault" PROVE HandedOver(r, h, "load_fault", h.ctx.pc) /\ r.mem = h.mem
  BY <1>2, <1>8, <1>11, <1>12, TrapWork DEF HandedOver
<1>13. ASSUME instr.seen = "other" PROVE HandedOver(r, h, "misaligned_store", a) /\ r.mem = h.mem
  BY <1>2, <1>8, <1>11, <1>13, TrapWork DEF HandedOver
<1>14. ASSUME instr.seen = "same", failing # {}
       PROVE  HandedOver(r, h, "store_fault", b) /\ r.mem = Stored(h.mem, Least(failing), a, value)
  <2>1. Least(failing) \in failing
    BY <1>6, <1>14, LeastIs
  <2>2. Least(failing) \in 0..(n - 1) /\ ~Allowed(attr, "store", h.ctx.status.mpp, b)
    BY <2>1
  <2>3. Least(failing) \in 0..4
    BY <1>1, <2>2
  <2> DEFINE g == after(Least(failing))
  <2>4. /\ g \in Work /\ g.ctx = h.ctx /\ g.strap = h.strap /\ g.res = h.res
        /\ g.mem = Stored(h.mem, Least(failing), a, value)
    BY <1>2, <1>7, <2>3
  <2>5. b \in Word
    BY <1>1, <2>3, PlusType
  <2>6. WriteFault(g, 1, b) = "store_fault"
    <3>1. WriteFault(f, 1, b) = "store_fault"
      BY <1>4, <2>2
    <3> QED BY <1>2, <2>4, <3>1 DEF WriteFault
  <2>7. emulation_write_byte(g, b, Bytes(value)[Least(failing)]) = c
    BY <2>6 DEF emulation_write_byte
  <2> HIDE DEF b, g, failing
  <2>8. c \in Work /\ c.ctx = g.ctx /\ c.mem = g.mem /\ c.strap = g.strap /\ c.res = g.res
        /\ c.mcsr.mcause = "store_fault" /\ c.mcsr.mtval = b
    <3>1. "store_fault" \in Faults \cup {"none"} /\ "store_fault" # "none"
      BY <1>11
    <3>2. c = Caught(g, "store_fault", b)
      BY DEF c, g
    <3> HIDE DEF c
    <3> QED BY <2>4, <2>5, <3>1, <3>2, CaughtWork
  <2>9. r = emulation_trap_to_supervisor(c)
    BY <1>9, <1>14, <2>7 DEF g
  <2> HIDE DEF c
  <2> QED BY <1>11, <2>4, <2>8, <2>9, TrapWork DEF HandedOver
<1>15. ASSUME instr.seen = "same", failing = {}
       PROVE  /\ Skipped(r, h) /\ r.res = h.res /\ r.ctx.reg = h.ctx.reg
              /\ r.mem = Stored(h.mem, n, a, value)
  <2>1. n \in 0..4
    BY <1>1
  <2>2. /\ after(n) \in Work /\ after(n).ctx = h.ctx /\ after(n).strap = h.strap
        /\ after(n).res = h.res /\ after(n).mem = Stored(h.mem, n, a, value)
    BY <1>2, <1>7, <2>1
  <2> QED BY <1>10, <1>15, <2>2, SkipWork DEF Skipped
<1> QED BY <1>12, <1>13, <1>14, <1>15 DEF r, value, a

-----------------------------------------------------------------------------
(* The inductive invariant.                                                  *)

Handlers == [c \in Exceptions |-> CASE c = "illegal"          -> "trap_invalid_inst"
                                     [] c = "misaligned_load"  -> "trap_misaligned_ld"
                                     [] c = "misaligned_store" -> "trap_misaligned_st"
                                     [] c = "ecall_s"          -> "sbi_syscall"
                                     [] OTHER                  -> "none"]

\* What main and boot_kernel have set up so far.
Booted ==
    /\ fw = "main" => table = [c \in Exceptions |-> "none"] /\ delegated = {}
    /\ fw = "boot_kernel" =>
          /\ table = emulation_init([c \in Exceptions |-> "none"])
          /\ delegated = {}
    /\ fw \notin {"main", "boot_kernel"} =>
          /\ table = Handlers
          /\ delegated = Medeleg \cup Mideleg

\* The machine timer is masked only while the supervisor has an interrupt to see.
Timers ==
    /\ fw \in {"out", "isr"} /\ ~mtie => stip
    /\ fw = "clear_sip" => mtie
    /\ fw = "clear_mie" => stip
    /\ fw = "clear_mip" => ~mtie /\ stip

\* While the firmware runs, the state of the program is that of its trap.
Trapped ==
    /\ fw \in {"isr", "set_mie", "clear_sip", "clear_mie", "clear_mip"} => mstatus.mpp = priv
    /\ fw = "isr" => mcsr.mcause # "none"
    /\ fw = "isr" /\ mcsr.mcause # "machine_timer" =>
          instr \in code /\ mcsr.mcause = CauseOf(instr) /\ mcsr.mtval = TvalOf(instr)
    /\ fw \in {"set_mie", "clear_sip"} => instr \in code /\ instr.op = "set_timer" /\ priv = 1
    /\ fw # "isr" => on

Vector == mcsr.mtvec = "isr_vector" /\ x["zero"] = 0

Inv == TypeOK /\ Booted /\ Timers /\ Trapped /\ Vector

\* What main leaves in the table.
LEMMA HandlersSet ==
    exception_set_handler(emulation_init([c \in Exceptions |-> "none"]), "ecall_s", "sbi_syscall")
        = Handlers
BY DEF exception_set_handler, emulation_init, Handlers, Exceptions, Faults

\* The cause of an exception is one of the exceptions.
LEMMA CauseType ==
    ASSUME TypeOK, NEW i \in Instr
    PROVE  /\ CauseOf(i) \in Exceptions \cup {"none"}
           /\ TvalOf(i) \in Word
           /\ CauseOf(i) = "ecall_s" => i.op \in Calls /\ priv = 1
<1>1. \A kind, n, a : FaultOf(attr, kind, n, priv, a) \in Faults \cup {"none"}
  BY FaultType
<1>2. x[i.rs1] \in Word
  BY DEF TypeOK, Instr
<1> QED BY <1>1, <1>2 DEF CauseOf, TvalOf, Exceptions, Faults, Word, Calls, LoadOps, StoreOps, AmoOps

\* What is not delegated is what emulation_init and boot_kernel handle.
LEMMA TrapCauses == Exceptions \ (Medeleg \cup Mideleg)
                      = {"illegal", "misaligned_load", "misaligned_store", "ecall_s"}
BY DEF Exceptions, Medeleg, Mideleg, Faults

\* start leaves a state that satisfies the invariant.
LEMMA InitInv == Init => Inv
<1> SUFFICES ASSUME Init PROVE Inv
  OBVIOUS
<1>1. PICK p \in Programs : code = p.code /\ x = p.x /\ mem = p.mem /\ attr = p.attr
  BY DEF Init
<1>2. code \subseteq Instr /\ x \in [Regs -> Word] /\ mem \in [Word -> {0, 1}]
      /\ attr \in [Page -> Mappings] /\ x["zero"] = 0
  BY <1>1
<1>3. NoInstr \in Instr
  BY DEF NoInstr, Instr, Ops, Views, Word
<1>4. TypeOK
  <2>1. /\ pc \in 0..(NumPc - 1) /\ priv \in {0, 1} /\ slot \in Word /\ load_reservation \in Word
        /\ traps \in 0..MaxTraps
    BY DEF Init, Word
  <2>5. {stip, on, mtie, mtip} \subseteq BOOLEAN
    BY DEF Init
  <2>2. strap \in [epc : 0..(NumPc - 1), tval : Word,
                  cause : Faults \cup {"none", "ecall_u", "timer", "external"}]
    BY DEF Init, Word
  <2>3. mstatus \in [sie : BOOLEAN, spie : BOOLEAN, spp : {0, 1}, mpp : {0, 1}]
    BY DEF Init
  <2>4. mcsr \in [mtvec : {"isr_vector", "label"}, mtval : Word,
                 mcause : {"none", "illegal", "misaligned_load", "misaligned_store",
                           "ecall_s", "machine_timer"}]
    BY DEF Init, Word
  <2> QED BY <1>2, <1>3, <2>1, <2>2, <2>3, <2>4, <2>5 DEF TypeOK, Init
<1> QED BY <1>2, <1>4 DEF Inv, Init, Booted, Timers, Trapped, Vector

\* The frame isr_vector stores has the registers of the program but for x0 and sp.
LEMMA EntryWork ==
    ASSUME Inv
    PROVE  /\ Entry \in Work
           /\ Entry.ctx = Frame /\ Entry.mem = mem /\ Entry.mcsr = mcsr /\ Entry.strap = strap
           /\ Entry.res = load_reservation
           /\ Frame.pc = pc /\ Frame.status = mstatus
           /\ Frame.reg \in [Regs -> Word]
           /\ \A r \in Regs \ {"zero", "sp"} : Frame.reg[r] = x[r]
<1>1. Frame.reg \in [Regs -> Word] /\ \A r \in Regs \ {"zero", "sp"} : Frame.reg[r] = x[r]
  BY DEF Frame, Inv, TypeOK, Word
<1>2. mcsr \in Mcsr /\ mcsr.mcause \in McauseAtTrap \cup {"none"}
  BY DEF Mcsr, Inv, TypeOK, McauseAtTrap
<1>3. Frame \in Ctx
  BY <1>1, <1>2 DEF Ctx, Frame, Inv, TypeOK, Status, Pcs, Bit
<1> QED BY <1>1, <1>2, <1>3 DEF Entry, Work, Frame, Inv, TypeOK, Memory, Strap, Pcs, Bit

\* A handler that ends in mret keeps everything but the timer's part.
LEMMA ReturnInv ==
    ASSUME Inv, on, fw \notin {"main", "boot_kernel"}, NEW h \in Work, h.mcsr.mtvec = "isr_vector",
           Return(h), timer' \in {"off", "ahead", "now", "past"},
           {stip', mtie', mtip'} \subseteq BOOLEAN
    PROVE  TypeOK' /\ Booted' /\ Trapped' /\ Vector' /\ fw' = "out"
<1>1. NoInstr \in Instr
  BY DEF NoInstr, Instr, Ops, Views, Word
<1>2. x' \in [Regs -> Word] /\ x'["zero"] = 0
  BY DEF Return, Work, Ctx, Inv, TypeOK, Word
<1>3. h.ctx.status \in Status /\ mstatus' = [h.ctx.status EXCEPT !.mpp = 0]
  BY DEF Return, Work, Ctx
<1>4. mstatus' \in [sie : BOOLEAN, spie : BOOLEAN, spp : {0, 1}, mpp : {0, 1}] /\ priv' \in {0, 1}
  BY <1>3 DEF Status, Return, Bit
<1>5. mcsr' \in [mtvec : {"isr_vector", "label"}, mtval : Word,
                 mcause : {"none", "illegal", "misaligned_load", "misaligned_store",
                           "ecall_s", "machine_timer"}] /\ mcsr'.mtvec = "isr_vector"
  <2>1. h.mcsr \in Mcsr /\ mcsr' = [h.mcsr EXCEPT !.mcause = "none", !.mtval = 0]
    BY DEF Return, Work
  <2>2. mcsr' = [mtvec |-> "isr_vector", mcause |-> "none", mtval |-> 0]
    BY <2>1 DEF Mcsr
  <2> QED BY <2>2 DEF Word
<1>6. /\ pc' \in 0..(NumPc - 1) /\ slot' \in Word /\ mem' \in [Word -> {0, 1}]
      /\ load_reservation' \in Word
      /\ strap' \in [epc : 0..(NumPc - 1), tval : Word,
                     cause : Faults \cup {"none", "ecall_u", "timer", "external"}]
  BY DEF Return, Work, Ctx, Pcs, Memory, Bit, Strap
<1>7. TypeOK'
  BY <1>1, <1>2, <1>4, <1>5, <1>6 DEF TypeOK, Inv, Return, bootVars
<1> QED BY <1>2, <1>5, <1>7 DEF Inv, Booted, Trapped, Vector, Return, bootVars
-----------------------------------------------------------------------------
(* The steps of the program.                                                 *)

\* What the core does without a trap leaves the invariant.
LEMMA NativeInv ==
    ASSUME Inv, NEW i \in code, Native(i)
    PROVE  Inv'
<1>1. i \in Instr /\ i.rd \in Regs /\ i.imm \in Word /\ x[i.rs1] \in Word /\ x[i.rs2] \in Word
      /\ mem \in Memory /\ Length(i.op) \in {2, 4}
  BY DEF Inv, TypeOK, Instr, Memory, Bit, Length
<1>2. x' \in [Regs -> Word] /\ x'["zero"] = 0
  <2> DEFINE v == Fetched(mem, Length(i.op), x[i.rs1])
  <2>1. CASE i.op \in LoadOps
    <3>1. (IF i.op = "lh" /\ v >= 2 THEN v + 12 ELSE v) \in Word
      BY <1>1, <2>1, ExtendedType
    <3>2. x' = x \/ (i.rd # "zero" /\ x' = [x EXCEPT ![i.rd] = IF i.op = "lh" /\ v >= 2 THEN v + 12 ELSE v])
      BY <2>1 DEF Native, LoadOps, StoreOps
    <3> HIDE DEF v
    <3> QED BY <1>1, <3>1, <3>2 DEF Inv, TypeOK, Vector
  <2>2. CASE i.op = "li"
    <3>1. x' = x \/ (i.rd # "zero" /\ x' = [x EXCEPT ![i.rd] = i.imm])
      BY <2>2 DEF Native, LoadOps, StoreOps
    <3> QED BY <1>1, <3>1 DEF Inv, TypeOK, Vector
  <2>3. CASE i.op \notin LoadOps \cup {"li"}
    <3>1. x' = x
      BY <2>3 DEF Native
    <3> QED BY <3>1 DEF Inv, TypeOK, Vector
  <2> QED BY <2>1, <2>2, <2>3
<1>3. mem' \in Memory
  <2>1. Length(i.op) \in 0..4
    BY <1>1
  <2>2. Stored(mem, Length(i.op), x[i.rs1], x[i.rs2]) \in Memory
    BY <1>1, <2>1, StoredType
  <2> QED BY <1>1, <2>2 DEF Native
<1>4. attr' \in [Page -> Mappings]
  BY DEF Native, Inv, TypeOK, Mappings
<1>5. pc' \in 0..(NumPc - 1)
  BY DEF Native, Next4, Inv, TypeOK
<1>6. UNCHANGED <<code, priv, strap, on, bootVars, csrVars, timerVars, fw, traps>> /\ fw = "out"
  BY DEF Native, Running
<1>7. TypeOK'
  BY <1>2, <1>3, <1>4, <1>5, <1>6 DEF Inv, TypeOK, bootVars, csrVars, timerVars, Memory, Bit
<1> QED BY <1>2, <1>6, <1>7 DEF Inv, Booted, Timers, Trapped, Vector, bootVars, csrVars, timerVars

\* A trap that is delegated leaves the firmware alone.
LEMMA SupervisorTrapInv ==
    ASSUME Inv, Running, NEW cause \in Faults \cup {"none", "ecall_u", "timer", "external"},
           NEW tval \in Word, SupervisorTrap(cause, tval)
    PROVE  Inv'
<1>1. strap' \in [epc : 0..(NumPc - 1), tval : Word,
                 cause : Faults \cup {"none", "ecall_u", "timer", "external"}]
  BY DEF SupervisorTrap, Inv, TypeOK
<1>2. mstatus' \in [sie : BOOLEAN, spie : BOOLEAN, spp : {0, 1}, mpp : {0, 1}]
  BY DEF SupervisorTrap, Inv, TypeOK
<1>3. pc' \in 0..(NumPc - 1) /\ priv' \in {0, 1}
  BY DEF SupervisorTrap, Stvec
<1>4. UNCHANGED <<code, x, mem, attr, on, bootVars, mcsr, instr, slot, load_reservation,
                  timerVars, fw, traps>> /\ fw = "out"
  BY DEF SupervisorTrap, Running
<1>5. TypeOK'
  BY <1>1, <1>2, <1>3, <1>4 DEF Inv, TypeOK, bootVars, timerVars
<1> QED BY <1>4, <1>5 DEF Inv, Booted, Timers, Trapped, Vector, bootVars, timerVars

\* The same for the exceptions.
LEMMA DelegatedInv ==
    ASSUME Inv, NEW i \in code, Delegated(i)
    PROVE  Inv'
<1>1. i \in Instr
  BY DEF Inv, TypeOK
<1>2. delegated = Medeleg \cup Mideleg
  BY DEF Delegated, Running, Inv, Booted
<1>3. CauseOf(i) \in Faults \cup {"none", "ecall_u", "timer", "external"} /\ TvalOf(i) \in Word
  BY <1>1, <1>2, CauseType DEF Delegated, Medeleg, Mideleg, Exceptions, Inv
<1> QED BY <1>3, SupervisorTrapInv DEF Delegated

\* A trap to machine mode is recorded as it was raised.
LEMMA MachineTrapInv ==
    ASSUME Inv, Running, NEW i \in Instr, NEW cause \in McauseAtTrap, NEW tval \in Word,
           cause # "machine_timer" => i \in code /\ cause = CauseOf(i) /\ tval = TvalOf(i),
           MachineTrap(i, cause, tval), traps' \in 0..MaxTraps
    PROVE  Inv'
<1>1. /\ fw = "out" /\ fw' = "isr" /\ on
      /\ UNCHANGED <<code, x, pc, priv, strap, mem, attr, on, table, delegated, stip, mtie, mtip, timer,
                     slot, load_reservation>>
      /\ instr' = i
  BY DEF MachineTrap, Running, progVars, bootVars, timerVars
<1>2. mcsr' \in [mtvec : {"isr_vector", "label"}, mtval : Word,
                mcause : {"none", "illegal", "misaligned_load", "misaligned_store",
                          "ecall_s", "machine_timer"}]
      /\ mcsr'.mtvec = mcsr.mtvec /\ mcsr'.mcause = cause /\ mcsr'.mtval = tval
  BY DEF MachineTrap, Inv, TypeOK, McauseAtTrap
<1>3. mstatus' \in [sie : BOOLEAN, spie : BOOLEAN, spp : {0, 1}, mpp : {0, 1}] /\ mstatus'.mpp = priv
  BY DEF MachineTrap, Inv, TypeOK
<1>4. CauseOf(i)' = CauseOf(i) /\ TvalOf(i)' = TvalOf(i)
  BY <1>1 DEF CauseOf, TvalOf
<1>5. TypeOK'
  BY <1>1, <1>2, <1>3 DEF Inv, TypeOK
<1>6. Trapped'
  <2>1. (instr \in code /\ mcsr.mcause = CauseOf(instr) /\ mcsr.mtval = TvalOf(instr))'
        \/ mcsr'.mcause = "machine_timer"
    BY <1>1, <1>2, <1>4
  <2> QED BY <1>1, <1>2, <1>3, <2>1 DEF Trapped, McauseAtTrap
<1> QED BY <1>1, <1>2, <1>5, <1>6 DEF Inv, Booted, Timers, Vector

\* The exceptions that are not delegated are those with a handler.
LEMMA UndelegatedInv ==
    ASSUME Inv, NEW i \in code, Undelegated(i)
    PROVE  Inv'
<1>1. i \in Instr /\ traps' \in 0..MaxTraps
  BY DEF Inv, TypeOK, Undelegated
<1>2. delegated = Medeleg \cup Mideleg
  BY DEF Undelegated, Running, Inv, Booted
<1>3. CauseOf(i) \in McauseAtTrap /\ CauseOf(i) # "machine_timer" /\ TvalOf(i) \in Word
  <2>1. CauseOf(i) \in Exceptions \ (Medeleg \cup Mideleg)
    BY <1>2, CauseType DEF Undelegated
  <2> QED BY <1>1, <2>1, CauseType, TrapCauses DEF Inv, McauseAtTrap
<1> QED BY <1>1, <1>3, MachineTrapInv DEF Undelegated

\* sret leaves the firmware alone.
LEMMA ReturnFromSupervisorInv ==
    ASSUME Inv, NEW i \in code, SupervisorReturn(i)
    PROVE  Inv'
<1>1. mstatus' \in [sie : BOOLEAN, spie : BOOLEAN, spp : {0, 1}, mpp : {0, 1}]
  BY DEF SupervisorReturn, Inv, TypeOK
<1>2. pc' \in 0..(NumPc - 1) /\ priv' \in {0, 1}
  BY DEF SupervisorReturn, Inv, TypeOK
<1>3. UNCHANGED <<code, x, strap, mem, attr, on, bootVars, mcsr, instr, slot, load_reservation,
                  timerVars, fw, traps>> /\ fw = "out"
  BY DEF SupervisorReturn, Running
<1>4. TypeOK'
  BY <1>1, <1>2, <1>3 DEF Inv, TypeOK, bootVars, timerVars
<1> QED BY <1>3, <1>4 DEF Inv, Booted, Timers, Trapped, Vector, bootVars, timerVars

\* An interrupt of the supervisor or of the machine timer.
LEMMA InterruptInv ==
    ASSUME Inv, SupervisorInterrupt \/ MachineTimerInterrupt
    PROVE  Inv'
<1>1. CASE SupervisorInterrupt
  <2>1. PICK cause \in {"timer", "external"} : SupervisorTrap(cause, 0)
    BY <1>1 DEF SupervisorInterrupt
  <2> QED BY <1>1, <2>1, SupervisorTrapInv DEF SupervisorInterrupt, Word
<1>2. CASE MachineTimerInterrupt
  <2>1. NoInstr \in Instr /\ 0 \in Word /\ "machine_timer" \in McauseAtTrap
    BY DEF NoInstr, Instr, Ops, Views, Word, McauseAtTrap
  <2>2. traps' \in 0..MaxTraps
    BY <1>2 DEF MachineTimerInterrupt, Inv, TypeOK
  <2> QED BY <1>2, <2>1, <2>2, MachineTrapInv DEF MachineTimerInterrupt
<1> QED BY <1>1, <1>2

\* The comparator moves mip only.
LEMMA TickInv ==
    ASSUME Inv, Tick
    PROVE  Inv'
<1>1. timer' \in {"off", "ahead", "now", "past"} /\ mtip' \in BOOLEAN
  BY DEF Tick, Inv, TypeOK
<1>2. UNCHANGED <<code, x, pc, priv, strap, mem, attr, on, table, delegated, mstatus, mcsr, instr, slot,
                  load_reservation, stip, mtie, fw, traps>>
  BY DEF Tick, progVars, bootVars, csrVars
<1>3. CauseOf(instr)' = CauseOf(instr) /\ TvalOf(instr)' = TvalOf(instr)
  BY <1>2 DEF CauseOf, TvalOf
<1>4. TypeOK'
  BY <1>1, <1>2 DEF Inv, TypeOK
<1> QED BY <1>2, <1>3, <1>4 DEF Inv, Booted, Timers, Trapped, Vector
-----------------------------------------------------------------------------
(* The steps of the firmware.                                                *)

\* A trap that reaches a handler is one of the instructions it is for.
LEMMA HandledTraps ==
    ASSUME Inv
    PROVE  /\ ~Handles("none")
           /\ Handles("trap_invalid_inst") =>
                 /\ instr \in code /\ CauseOf(instr) = "illegal"
                 /\ instr.op \in {"lr", "sc", "bad"} \cup AmoOps \/ (instr.op = "sret" /\ priv = 0)
           /\ Handles("trap_misaligned_ld") =>
                 /\ instr \in code /\ instr.op \in LoadOps /\ mcsr.mcause = "misaligned_load"
                 /\ x[instr.rs1] % Length(instr.op) # 0 /\ mcsr.mtval = x[instr.rs1]
           /\ Handles("trap_misaligned_st") =>
                 /\ instr \in code /\ instr.op \in StoreOps /\ mcsr.mcause = "misaligned_store"
                 /\ x[instr.rs1] % Length(instr.op) # 0 /\ mcsr.mtval = x[instr.rs1]
           /\ Handles("sbi_syscall") => instr \in code /\ instr.op \in Calls /\ priv = 1
<1> SUFFICES ASSUME on, fw = "isr", mcsr.mcause \in Exceptions
    PROVE  /\ ~Handles("none")
           /\ Handles("trap_invalid_inst") =>
                 /\ instr \in code /\ CauseOf(instr) = "illegal"
                 /\ instr.op \in {"lr", "sc", "bad"} \cup AmoOps \/ (instr.op = "sret" /\ priv = 0)
           /\ Handles("trap_misaligned_ld") =>
                 /\ instr \in code /\ instr.op \in LoadOps /\ mcsr.mcause = "misaligned_load"
                 /\ x[instr.rs1] % Length(instr.op) # 0 /\ mcsr.mtval = x[instr.rs1]
           /\ Handles("trap_misaligned_st") =>
                 /\ instr \in code /\ instr.op \in StoreOps /\ mcsr.mcause = "misaligned_store"
                 /\ x[instr.rs1] % Length(instr.op) # 0 /\ mcsr.mtval = x[instr.rs1]
           /\ Handles("sbi_syscall") => instr \in code /\ instr.op \in Calls /\ priv = 1
  BY DEF Handles
<1>1. table = Handlers
  BY DEF Inv, Booted
<1>2. mcsr.mcause \in {"illegal", "misaligned_load", "misaligned_store", "ecall_s"}
  BY DEF Inv, TypeOK, Trapped, Exceptions, Faults
<1>3. instr \in code /\ mcsr.mcause = CauseOf(instr) /\ mcsr.mtval = TvalOf(instr)
  BY <1>2 DEF Inv, Trapped
<1>4. table[mcsr.mcause] = CASE mcsr.mcause = "illegal"          -> "trap_invalid_inst"
                            [] mcsr.mcause = "misaligned_load"  -> "trap_misaligned_ld"
                            [] mcsr.mcause = "misaligned_store" -> "trap_misaligned_st"
                            [] mcsr.mcause = "ecall_s"          -> "sbi_syscall"
  BY <1>1, <1>2 DEF Handlers
<1>5. CASE mcsr.mcause = "illegal"
  <2>1. instr.op \in {"lr", "sc", "bad"} \cup AmoOps \/ (instr.op = "sret" /\ priv = 0)
    BY <1>3, <1>5, FaultType DEF CauseOf, Faults
  <2> QED BY <1>3, <1>4, <1>5, <2>1 DEF Handles
<1>6. CASE mcsr.mcause \in {"misaligned_load", "misaligned_store"}
  <2>1. instr.op \in LoadOps \cup StoreOps
    BY <1>3, <1>6 DEF CauseOf
  <2>2. /\ mcsr.mtval = x[instr.rs1]
        /\ instr.op \in LoadOps =>
              mcsr.mcause = FaultOf(attr, "load", Length(instr.op), priv, x[instr.rs1])
        /\ instr.op \in StoreOps =>
              mcsr.mcause = FaultOf(attr, "store", Length(instr.op), priv, x[instr.rs1])
    <3>1. ~(instr.op \in {"lr", "sc", "bad"} \cup AmoOps \/ (instr.op = "sret" /\ priv = 0))
      BY <2>1 DEF LoadOps, StoreOps, AmoOps
    <3>2. instr.op \in LoadOps =>
              CauseOf(instr) = FaultOf(attr, "load", Length(instr.op), priv, x[instr.rs1])
      BY <3>1 DEF CauseOf, LoadOps, StoreOps, Calls
    <3>3. instr.op \in StoreOps =>
              CauseOf(instr) = FaultOf(attr, "store", Length(instr.op), priv, x[instr.rs1])
      BY <3>1 DEF CauseOf, LoadOps, StoreOps, Calls
    <3> QED BY <1>3, <2>1, <3>2, <3>3 DEF TvalOf
  <2>3. x[instr.rs1] % Length(instr.op) # 0
    BY <1>6, <2>1, <2>2 DEF FaultOf
  <2>4. mcsr.mcause = IF instr.op \in LoadOps THEN "misaligned_load" ELSE "misaligned_store"
    BY <1>6, <2>1, <2>2, <2>3 DEF FaultOf
  <2> QED BY <1>3, <1>4, <1>6, <2>1, <2>2, <2>3, <2>4 DEF Handles
<1>7. CASE mcsr.mcause = "ecall_s"
  <2>1. instr.op \in Calls /\ priv = 1
    BY <1>3, <1>7, CauseType DEF Inv, TypeOK
  <2> QED BY <1>3, <1>4, <1>7, <2>1 DEF Handles
<1> QED BY <1>2, <1>5, <1>6, <1>7

\* An emulated instruction ends with the vector restored.
LEMMA EmulationReturns ==
    ASSUME Inv, EmulateIllegal \/ EmulateMisaligned
    PROVE  \E h \in Work : h.mcsr.mtvec = "isr_vector" /\ Return(h)
<1> DEFINE e == Entry
<1>1. e \in Work /\ e.mcsr = mcsr /\ instr \in Instr
  BY EntryWork DEF Inv, TypeOK
<1> HIDE DEF e
<1>2. CASE EmulateIllegal
  <2>1. Return(trap_invalid_inst(e)) /\ Handles("trap_invalid_inst") /\ instr.op \notin {"bad", "sret"}
    BY <1>2 DEF EmulateIllegal, e
  <2>2. instr.op \in {"lr", "sc"} \cup AmoOps
    BY <2>1, HandledTraps
  <2>3. trap_invalid_inst(e) \in Work /\ trap_invalid_inst(e).mcsr.mtvec = "isr_vector"
    <3>1. CASE instr.op = "lr"
      BY <1>1, <3>1, LoadReservedWork DEF trap_invalid_inst, Skipped, HandedOver
    <3>2. CASE instr.op = "sc"
      BY <1>1, <3>2, StoreConditionalWork DEF trap_invalid_inst, Skipped, HandedOver
    <3>3. CASE instr.op \in AmoOps
      <4>1. trap_invalid_inst(e) = atomic(e)
        BY <3>3 DEF trap_invalid_inst, AmoOps
      <4> QED BY <1>1, <3>3, <4>1, AtomicWork DEF Skipped, HandedOver
    <3> QED BY <2>2, <3>1, <3>2, <3>3
  <2> QED BY <2>1, <2>3
<1>3. CASE EmulateMisaligned
  <2>1. \/ Handles("trap_misaligned_ld") /\ Return(trap_misaligned_ld(e))
        \/ Handles("trap_misaligned_st") /\ Return(trap_misaligned_st(e))
    BY <1>3 DEF EmulateMisaligned, e
  <2>2. CASE Handles("trap_misaligned_ld") /\ Return(trap_misaligned_ld(e))
    <3>1. instr.op \in LoadOps /\ e.mcsr.mcause = "misaligned_load" /\ instr.seen \in Views
      BY <1>1, <2>2, HandledTraps DEF Instr
    <3>2. trap_misaligned_ld(e) \in Work /\ trap_misaligned_ld(e).mcsr.mtvec = "isr_vector"
      BY <1>1, <3>1, MisalignedLoadWork DEF Skipped, HandedOver, Views
    <3> QED BY <2>2, <3>2
  <2>3. CASE Handles("trap_misaligned_st") /\ Return(trap_misaligned_st(e))
    <3>1. instr.op \in StoreOps /\ e.mcsr.mcause = "misaligned_store" /\ instr.seen \in Views
      BY <1>1, <2>3, HandledTraps DEF Instr
    <3>2. trap_misaligned_st(e) \in Work /\ trap_misaligned_st(e).mcsr.mtvec = "isr_vector"
      BY <1>1, <3>1, MisalignedStoreWork DEF Skipped, HandedOver, Views
    <3> QED BY <2>3, <3>2
  <2> QED BY <2>1, <2>2, <2>3
<1> QED BY <1>2, <1>3
\* A call of the supervisor returns behind the ecall.
LEMMA AfterCallWork ==
    ASSUME Inv
    PROVE  /\ AfterCall \in Work /\ AfterCall.mcsr.mtvec = "isr_vector"
           /\ AfterCall.ctx.pc = Next4(pc) /\ AfterCall.ctx.reg = Frame.reg
           /\ AfterCall.ctx.status = mstatus /\ AfterCall.mem = mem /\ AfterCall.strap = strap
           /\ AfterCall.res = load_reservation
<1>1. Next4(pc) \in Pcs
  BY DEF Next4, Pcs, Inv, TypeOK
<1>2. Next4(Entry.ctx.pc) = Next4(pc)
  BY EntryWork
<1>3. AfterCall = [Entry EXCEPT !.ctx.pc = Next4(Entry.ctx.pc)]
  BY DEF AfterCall
<1> HIDE DEF AfterCall
<1> QED BY <1>1, <1>2, <1>3, EntryWork DEF Work, Ctx, Inv, Vector

\* An emulated instruction.
LEMMA EmulateInv ==
    ASSUME Inv, EmulateIllegal \/ EmulateMisaligned
    PROVE  Inv'
<1>1. PICK h \in Work : h.mcsr.mtvec = "isr_vector" /\ Return(h)
  BY EmulationReturns
<1>2. /\ on /\ fw = "isr" /\ UNCHANGED <<stip, mtie, mtip, timer>>
  BY DEF EmulateIllegal, EmulateMisaligned, Handles, timerVars
<1>3. timer' \in {"off", "ahead", "now", "past"} /\ {stip', mtie', mtip'} \subseteq BOOLEAN
  BY <1>2 DEF Inv, TypeOK
<1>4. TypeOK' /\ Booted' /\ Trapped' /\ Vector' /\ fw' = "out"
  BY <1>1, <1>2, <1>3, ReturnInv
<1> QED BY <1>2, <1>4 DEF Inv, Timers

\* The console call writes a0 of the frame or nothing.
LEMMA CallInv ==
    ASSUME Inv, SbiConsole \/ SbiFence
    PROVE  Inv'
<1>1. PICK h \in Work : h.mcsr.mtvec = "isr_vector" /\ Return(h)
  <2>1. CASE Return(AfterCall)
    BY <2>1, AfterCallWork
  <2>2. CASE \E c \in {1, 15} : Return([AfterCall EXCEPT !.ctx.reg["a0"] = c])
    <3>1. PICK c \in {1, 15} : Return([AfterCall EXCEPT !.ctx.reg["a0"] = c])
      BY <2>2
    <3>2. Return(Put(AfterCall, "a0", c))
      BY <3>1 DEF Put
    <3>3. "a0" \in Regs /\ c \in Word
      BY DEF Word
    <3> QED BY <3>2, <3>3, AfterCallWork, PutWork
  <2> QED BY <2>1, <2>2 DEF SbiConsole, SbiFence
<1>2. /\ on /\ fw = "isr" /\ UNCHANGED <<stip, mtie, mtip, timer>>
  BY DEF SbiConsole, SbiFence, Handles, timerVars
<1>3. timer' \in {"off", "ahead", "now", "past"} /\ {stip', mtie', mtip'} \subseteq BOOLEAN
  BY <1>2 DEF Inv, TypeOK
<1>4. TypeOK' /\ Booted' /\ Trapped' /\ Vector' /\ fw' = "out"
  BY <1>1, <1>2, <1>3, ReturnInv
<1> QED BY <1>2, <1>4 DEF Inv, Timers

\* The machine stops where it is.
LEMMA ExitInv ==
    ASSUME Inv, AssertFails \/ SbiStop
    PROVE  Inv'
<1>1. /\ on' = FALSE /\ fw = "isr"
      /\ UNCHANGED <<code, x, pc, priv, strap, mem, attr, table, delegated, mstatus, mcsr, instr, slot,
                     load_reservation, stip, mtie, mtip, timer, fw, traps>>
  BY DEF AssertFails, Asserts, SbiStop, Handles, Exit, bootVars, csrVars, timerVars
<1>2. CauseOf(instr)' = CauseOf(instr) /\ TvalOf(instr)' = TvalOf(instr)
  BY <1>1 DEF CauseOf, TvalOf
<1>3. TypeOK'
  <2>1. {stip', on', mtie', mtip'} \subseteq BOOLEAN
    BY <1>1 DEF Inv, TypeOK
  <2> QED BY <1>1, <2>1 DEF Inv, TypeOK
<1> QED BY <1>1, <1>2, <1>3 DEF Inv, Booted, Timers, Trapped, Vector

\* sbi.c 54-55: mtimecmp, then mie.
LEMMA SetTimerInv ==
    ASSUME Inv, SetMtimecmp \/ SetMie
    PROVE  Inv'
<1>1. /\ on
      /\ UNCHANGED <<code, x, pc, priv, strap, mem, attr, on, table, delegated, mstatus, mcsr, instr, slot,
                     load_reservation, stip, traps>>
  BY DEF SetMtimecmp, SetMie, Handles, progVars, bootVars, csrVars, Inv, Trapped
<1>2. CASE SetMtimecmp
  <2>1. fw = "isr" /\ fw' = "set_mie" /\ instr.op = "set_timer" /\ mtie' = mtie
    BY <1>2 DEF SetMtimecmp, Handles
  <2>2. timer' \in {"off", "ahead", "now", "past"} /\ mtip' \in BOOLEAN
    BY <1>2 DEF SetMtimecmp, Inv, TypeOK
  <2>3. instr \in code /\ priv = 1
    BY <1>2, HandledTraps DEF SetMtimecmp
  <2>4. TypeOK'
    BY <1>1, <2>1, <2>2 DEF Inv, TypeOK
  <2> QED BY <1>1, <2>1, <2>3, <2>4 DEF Inv, Booted, Timers, Trapped, Vector
<1>3. CASE SetMie
  <2>1. fw = "set_mie" /\ fw' = "clear_sip" /\ mtie' = TRUE /\ UNCHANGED <<mtip, timer>>
    BY <1>3 DEF SetMie
  <2>2. TypeOK'
    BY <1>1, <2>1 DEF Inv, TypeOK
  <2> QED BY <1>1, <2>1, <2>2 DEF Inv, Booted, Timers, Trapped, Vector
<1> QED BY <1>2, <1>3

\* sbi.c 56: the supervisor has seen its interrupt, and the machine timer is unmasked by then.
LEMMA ClearSipInv ==
    ASSUME Inv, ClearSip
    PROVE  Inv'
<1>1. /\ fw = "clear_sip" /\ on /\ mtie /\ stip' = FALSE /\ UNCHANGED <<mtie, mtip, timer>>
      /\ Return(AfterCall)
  BY DEF ClearSip, Inv, Trapped, Timers
<1>2. timer' \in {"off", "ahead", "now", "past"} /\ {stip', mtie', mtip'} \subseteq BOOLEAN
  BY <1>1 DEF Inv, TypeOK
<1>3. TypeOK' /\ Booted' /\ Trapped' /\ Vector' /\ fw' = "out"
  BY <1>1, <1>2, ReturnInv, AfterCallWork
<1> QED BY <1>1, <1>3 DEF Inv, Timers

\* main.c 56-57: sip is raised before mie is cleared.
LEMMA IrqCallbackInv ==
    ASSUME Inv, RaiseStip \/ ClearMie
    PROVE  Inv'
<1>1. /\ on
      /\ UNCHANGED <<code, x, pc, priv, strap, mem, attr, on, table, delegated, mstatus, mcsr, instr, slot,
                     mtip, timer, traps>>
  BY DEF RaiseStip, ClearMie, progVars, bootVars, csrVars, Inv, Trapped
<1>2. CASE RaiseStip
  <2>1. /\ fw = "isr" /\ fw' = "clear_mie" /\ stip' = TRUE /\ mtie' = mtie
        /\ load_reservation' = 0
    BY <1>2 DEF RaiseStip, emulation_take_irq
  <2>2. TypeOK'
    <3>1. {stip', on', mtie', mtip'} \subseteq BOOLEAN /\ load_reservation' \in Word
      BY <1>1, <2>1 DEF Inv, TypeOK, Word
    <3> QED BY <1>1, <2>1, <3>1 DEF Inv, TypeOK
  <2> QED BY <1>1, <2>1, <2>2 DEF Inv, Booted, Timers, Trapped, Vector
<1>3. CASE ClearMie
  <2>1. /\ fw = "clear_mie" /\ fw' = "clear_mip" /\ mtie' = FALSE
        /\ UNCHANGED <<stip, load_reservation>>
    BY <1>3 DEF ClearMie, csrVars
  <2>2. TypeOK'
    <3>1. {stip', on', mtie', mtip'} \subseteq BOOLEAN
      BY <1>1, <2>1 DEF Inv, TypeOK
    <3> QED BY <1>1, <2>1, <3>1 DEF Inv, TypeOK
  <2> QED BY <1>1, <2>1, <2>2 DEF Inv, Booted, Timers, Trapped, Vector
<1> QED BY <1>2, <1>3

\* main.c 58: back to the program, whatever the comparator did meanwhile.
LEMMA ClearMipInv ==
    ASSUME Inv, ClearMip
    PROVE  Inv'
<1>1. /\ fw = "clear_mip" /\ on /\ stip /\ mtip' = FALSE /\ UNCHANGED <<stip, mtie, timer>>
      /\ Return(Entry)
  BY DEF ClearMip, Inv, Trapped, Timers
<1>2. timer' \in {"off", "ahead", "now", "past"} /\ {stip', mtie', mtip'} \subseteq BOOLEAN
  BY <1>1 DEF Inv, TypeOK
<1>3. Entry \in Work /\ Entry.mcsr.mtvec = "isr_vector"
  BY EntryWork DEF Inv, Vector
<1>4. TypeOK' /\ Booted' /\ Trapped' /\ Vector' /\ fw' = "out"
  BY <1>1, <1>2, <1>3, ReturnInv
<1> QED BY <1>1, <1>4 DEF Inv, Timers

\* main and boot_kernel fill the table before the first trap can come.
LEMMA BootInv ==
    ASSUME Inv, BootMain \/ BootKernel
    PROVE  Inv'
<1>1. UNCHANGED <<code, x, pc, priv, strap, mem, attr, on, mstatus, mcsr, instr, slot, load_reservation,
                  stip, mtip, timer, traps>>
  BY DEF BootMain, BootKernel, progVars, csrVars, timerVars
<1>2. CASE BootMain
  <2>1. /\ fw = "main" /\ fw' = "boot_kernel" /\ table' = emulation_init(table)
        /\ UNCHANGED <<delegated, mtie>>
    BY <1>2 DEF BootMain, timerVars
  <2>2. table' \in [Exceptions -> {"none", "trap_invalid_inst", "trap_misaligned_ld",
                                  "trap_misaligned_st", "sbi_syscall"}]
    BY <2>1 DEF Inv, TypeOK, emulation_init, exception_set_handler
  <2>3. TypeOK'
    BY <1>1, <2>1, <2>2 DEF Inv, TypeOK
  <2> QED BY <1>1, <2>1, <2>3 DEF Inv, Booted, Timers, Trapped, Vector
<1>3. CASE BootKernel
  <2>1. /\ fw = "boot_kernel" /\ fw' = "out" /\ mtie' = TRUE
        /\ table' = exception_set_handler(table, "ecall_s", "sbi_syscall")
        /\ delegated' = Medeleg \cup Mideleg
    BY <1>3 DEF BootKernel
  <2>2. table' = Handlers
    BY <2>1, HandlersSet DEF Inv, Booted
  <2>3. table' \in [Exceptions -> {"none", "trap_invalid_inst", "trap_misaligned_ld",
                                  "trap_misaligned_st", "sbi_syscall"}]
    BY <2>2 DEF Handlers
  <2>4. delegated' \subseteq Exceptions \cup {"timer", "external"}
    BY <2>1 DEF Medeleg, Mideleg
  <2>5. TypeOK'
    BY <1>1, <2>1, <2>3, <2>4 DEF Inv, TypeOK
  <2> QED BY <1>1, <2>1, <2>2, <2>5 DEF Inv, Booted, Timers, Trapped, Vector
<1> QED BY <1>2, <1>3

\* Inv is inductive.
LEMMA NextInv == Inv /\ [Next]_vars => Inv'
<1> SUFFICES ASSUME Inv, [Next]_vars PROVE Inv'
  OBVIOUS
<1>1. CASE Program
  BY <1>1, NativeInv, DelegatedInv, UndelegatedInv, ReturnFromSupervisorInv DEF Program
<1>2. CASE SupervisorInterrupt \/ MachineTimerInterrupt
  BY <1>2, InterruptInv
<1>3. CASE Tick
  BY <1>3, TickInv
<1>4. CASE Handler
  BY <1>4, BootInv, EmulateInv, ExitInv, CallInv, SetTimerInv, ClearSipInv, IrqCallbackInv, ClearMipInv
     DEF Handler
<1>5. CASE UNCHANGED vars
  <2>1. UNCHANGED <<code, x, pc, priv, strap, mem, attr, on, table, delegated, mstatus, mcsr, instr, slot,
                    load_reservation, stip, mtie, mtip, timer, fw, traps>>
    BY <1>5 DEF vars, progVars, bootVars, csrVars, timerVars
  <2>2. CauseOf(instr)' = CauseOf(instr) /\ TvalOf(instr)' = TvalOf(instr)
    BY <2>1 DEF CauseOf, TvalOf
  <2>3. TypeOK'
    BY <2>1 DEF Inv, TypeOK
  <2> QED BY <2>1, <2>2, <2>3 DEF Inv, Booted, Timers, Trapped, Vector
<1> QED BY <1>1, <1>2, <1>3, <1>4, <1>5 DEF Next

\* The inductive invariant holds of every program.
THEOREM Invariant == Spec => []Inv
<1> QED BY InitInv, NextInv, PTL DEF Spec

\* Type correctness, for every program and every size of its trap budget.
THEOREM TypeCorrect == Spec => []TypeOK
<1>1. Inv => TypeOK
  BY DEF Inv
<1> QED BY <1>1, Invariant, PTL

\* Whatever byte of whatever access faults, mtvec is isr_vector again when a
\* handler is left, so the next trap does not go astray (emulation.c 51).
THEOREM VectorIsRestored == Spec => []VectorRestored
<1>1. Inv => VectorRestored
  BY DEF Inv, Vector, VectorRestored
<1> QED BY <1>1, Invariant, PTL

\* No trap reaches the firmware that it has no handler for, whatever the program
\* does (exception.c 59).
THEOREM TrapsExpected == Spec => []Expected
<1>1. Inv => Expected
  <2> SUFFICES ASSUME Inv, fw = "isr", mcsr.mcause # "machine_timer" PROVE table[mcsr.mcause] # "none"
    BY DEF Expected
  <2>1. mcsr.mcause \in {"illegal", "misaligned_load", "misaligned_store", "ecall_s"}
    BY DEF Inv, TypeOK, Trapped
  <2> QED BY <2>1 DEF Inv, Booted, Handlers, Exceptions, Faults
<1> QED BY <1>1, Invariant, PTL

\* Whatever the comparator does between the instructions of irq_callback and of
\* the set timer call, the machine timer is masked only while the supervisor has
\* a timer interrupt to see (main.c 56-58, sbi.c 54-56).
THEOREM TimerMaskedWhilePending == Spec => []TimerUnmasked
<1>1. Inv => TimerUnmasked
  BY DEF Inv, Timers, TimerUnmasked
<1> QED BY <1>1, Invariant, PTL

-----------------------------------------------------------------------------
(* The firmware implements a hart.                                           *)

\* The hart reads and writes words the way the firmware does.
LEMMA SameWords ==
    /\ \A a, i : Abstract!Plus(a, i) = Plus(a, i)
    /\ \A w : Abstract!Bytes(w) = Bytes(w)
    /\ \A b : Abstract!FromBytes(b) = FromBytes(b)
    /\ \A w : Abstract!Signed(w) = Signed(w)
    /\ \A S : Abstract!Least(S) = Least(S)
    /\ \A op : Abstract!Length(op) = Length(op)
    /\ Abstract!LoadOps = LoadOps /\ Abstract!StoreOps = StoreOps
    /\ Abstract!AmoOps = AmoOps /\ Abstract!Calls = Calls
<1>1. \A a, i : Abstract!Plus(a, i) = Plus(a, i)
  BY DEF Abstract!Plus, Plus
<1>2. \A w : Abstract!Bytes(w) = Bytes(w)
  BY DEF Abstract!Bytes, Bytes, Abstract!Lane, Lane
<1>3. \A b : Abstract!FromBytes(b) = FromBytes(b)
  BY DEF Abstract!FromBytes, FromBytes
<1>4. \A w : Abstract!Signed(w) = Signed(w)
  BY DEF Abstract!Signed, Signed
<1>5. \A S : Abstract!Least(S) = Least(S)
  BY DEF Abstract!Least, Least
<1>6. \A op : Abstract!Length(op) = Length(op)
  BY DEF Abstract!Length, Length
<1>7. /\ Abstract!LoadOps = LoadOps /\ Abstract!StoreOps = StoreOps
      /\ Abstract!AmoOps = AmoOps /\ Abstract!Calls = Calls
  BY DEF Abstract!LoadOps, LoadOps, Abstract!StoreOps, StoreOps, Abstract!AmoOps, AmoOps,
         Abstract!Calls, Calls
<1> QED BY <1>1, <1>2, <1>3, <1>4, <1>5, <1>6, <1>7

\* The hart reads, writes and faults the way the firmware does.
LEMMA SameMemory ==
    /\ \A m, n, a : Abstract!Fetched(m, n, a) = Fetched(m, n, a)
    /\ \A m, n, a, w : Abstract!Stored(m, n, a, w) = Stored(m, n, a, w)
    /\ \A m, kind, p, a : Abstract!Allowed(m, kind, p, a) = Allowed(m, kind, p, a)
    /\ \A m, kind, n, p, a : Abstract!FaultOf(m, kind, n, p, a) = FaultOf(m, kind, n, p, a)
<1>1. \A m, n, a : Abstract!Fetched(m, n, a) = Fetched(m, n, a)
  BY DEF Abstract!Fetched, Fetched, Abstract!Plus, Plus, Abstract!FromBytes, FromBytes, Abstract!Lane, Lane
<1>2. \A m, n, a, w : Abstract!Stored(m, n, a, w) = Stored(m, n, a, w)
  BY DEF Abstract!Stored, Stored, Abstract!Plus, Plus, Abstract!Bytes, Bytes, Abstract!Lane, Lane,
         Abstract!Word, Word
<1>3. \A m, kind, p, a : Abstract!Allowed(m, kind, p, a) = Allowed(m, kind, p, a)
  BY DEF Abstract!Allowed, Allowed, Abstract!PageOf, PageOf
<1>4. \A m, kind, n, p, a : Abstract!FaultOf(m, kind, n, p, a) = FaultOf(m, kind, n, p, a)
  BY DEF Abstract!FaultOf, FaultOf, Abstract!Allowed, Allowed, Abstract!PageOf, PageOf
<1> QED BY <1>1, <1>2, <1>3, <1>4
\* The nine operations of the emulation compute what those of the hart do.
LEMMA SameAtomic ==
    ASSUME NEW op \in AmoOps, NEW old \in Word, NEW src \in Word
    PROVE  Abstract!Atomic(op, old, src) = Compute(op, src, old)
<1>1. Bytes(old) \in [Lane -> Bit] /\ Bytes(src) \in [Lane -> Bit]
  BY BytesType
<1>2. CASE op \in {"amoadd", "amoswap"}
  BY <1>2 DEF Abstract!Atomic, Compute, Word
<1>3. CASE op = "amoxor"
  <2>1. Abstract!Atomic(op, old, src) = FromBytes([i \in Lane |-> (Bytes(old)[i] + Bytes(src)[i]) % 2])
    BY <1>3, SameWords DEF Abstract!Atomic, Abstract!Lane, Lane
  <2>2. Compute(op, src, old) =
            FromBytes([i \in Lane |-> IF Bytes(src)[i] # Bytes(old)[i] THEN 1 ELSE 0])
    BY <1>3 DEF Compute
  <2>3. \A i \in Lane : (Bytes(old)[i] + Bytes(src)[i]) % 2 =
                       IF Bytes(src)[i] # Bytes(old)[i] THEN 1 ELSE 0
    BY <1>1 DEF Bit
  <2> QED BY <2>1, <2>2, <2>3
<1>4. CASE op = "amoand"
  <2>1. Abstract!Atomic(op, old, src) = FromBytes([i \in Lane |-> Bytes(old)[i] * Bytes(src)[i]])
    BY <1>4, SameWords DEF Abstract!Atomic, Abstract!Lane, Lane
  <2>2. Compute(op, src, old) =
            FromBytes([i \in Lane |-> IF Bytes(src)[i] = 1 /\ Bytes(old)[i] = 1 THEN 1 ELSE 0])
    BY <1>4 DEF Compute
  <2>3. \A i \in Lane : Bytes(old)[i] * Bytes(src)[i] =
                       IF Bytes(src)[i] = 1 /\ Bytes(old)[i] = 1 THEN 1 ELSE 0
    <3>1. \A b, c \in Bit : b * c = IF c = 1 /\ b = 1 THEN 1 ELSE 0
      BY DEF Bit
    <3> QED BY <1>1, <3>1
  <2> QED BY <2>1, <2>2, <2>3
<1>5. CASE op = "amoor"
  <2>1. Abstract!Atomic(op, old, src) =
            FromBytes([i \in Lane |-> IF Bytes(old)[i] + Bytes(src)[i] > 0 THEN 1 ELSE 0])
    BY <1>5, SameWords DEF Abstract!Atomic, Abstract!Lane, Lane
  <2>2. Compute(op, src, old) =
            FromBytes([i \in Lane |-> IF Bytes(src)[i] = 1 \/ Bytes(old)[i] = 1 THEN 1 ELSE 0])
    BY <1>5 DEF Compute
  <2>3. \A i \in Lane : (IF Bytes(old)[i] + Bytes(src)[i] > 0 THEN 1 ELSE 0) =
                       IF Bytes(src)[i] = 1 \/ Bytes(old)[i] = 1 THEN 1 ELSE 0
    BY <1>1 DEF Bit
  <2> QED BY <2>1, <2>2, <2>3
<1>6. CASE op = "amomin"
  <2>1. Abstract!Atomic(op, old, src) =
            CHOOSE w \in {old, src} : \A v \in {old, src} : Signed(w) <= Signed(v)
    BY <1>6, SameWords DEF Abstract!Atomic
  <2> QED BY <1>6, <2>1 DEF Compute, Signed, Word
<1>7. CASE op = "amomax"
  <2>1. Abstract!Atomic(op, old, src) =
            CHOOSE w \in {old, src} : \A v \in {old, src} : -Signed(w) <= -Signed(v)
    BY <1>7, SameWords DEF Abstract!Atomic
  <2> QED BY <1>7, <2>1 DEF Compute, Signed, Word
<1>8. CASE op = "amominu"
  <2>1. Abstract!Atomic(op, old, src) =
            CHOOSE w \in {old, src} : \A v \in {old, src} : w <= v
    BY <1>8 DEF Abstract!Atomic
  <2> QED BY <1>8, <2>1 DEF Compute, Word
<1>9. CASE op = "amomaxu"
  <2>1. Abstract!Atomic(op, old, src) =
            CHOOSE w \in {old, src} : \A v \in {old, src} : -w <= -v
    BY <1>9 DEF Abstract!Atomic
  <2> QED BY <1>9, <2>1 DEF Compute, Word
<1> QED BY <1>2, <1>3, <1>4, <1>5, <1>6, <1>7, <1>8, <1>9 DEF AmoOps

-----------------------------------------------------------------------------
(* How the end of a handler looks to the supervisor.                         *)

\* A fault that is handed over is a trap of the hart.
LEMMA HandedOverStep ==
    ASSUME Inv, fw = "isr", NEW r, NEW cause, NEW tval,
           HandedOver(r, Entry, cause, tval), Return(r), UNCHANGED timerVars
    PROVE  /\ Abstract!SupervisorTrap(cause, tval)
           /\ load_reservation' = load_reservation /\ mem' = r.mem
<1>1. /\ r.ctx.pc = Stvec /\ r.ctx.reg = Frame.reg /\ r.res = load_reservation
      /\ r.ctx.status = [sie |-> FALSE, spie |-> mstatus.sie, spp |-> priv, mpp |-> 1]
      /\ r.strap = [epc |-> pc, cause |-> cause, tval |-> tval]
  BY EntryWork DEF HandedOver, Inv, Trapped
<1>2. x' = x
  BY <1>1, EntryWork DEF Return, Inv, TypeOK, Vector
<1> QED BY <1>1, <1>2 DEF Return, Abstract!SupervisorTrap, Abstract!Stvec, Stvec, timerVars

\* The registers of the frame, with one of them written.
LEMMA WrittenStep ==
    ASSUME Inv, NEW r, Return(r), NEW rd \in Regs \ {"sp"}, NEW v,
           r.ctx.reg = [Frame.reg EXCEPT ![rd] = v]
    PROVE  x' = Abstract!Written(rd, v)
<1>1. x' = [q \in Regs |-> CASE q = "zero" -> 0 [] q = "sp" -> x["sp"] [] OTHER -> r.ctx.reg[q]]
  BY DEF Return
<1>2. \A q \in Regs : r.ctx.reg[q] = IF q = rd THEN v ELSE Frame.reg[q]
  BY EntryWork
<1>3. \A q \in Regs : x'[q] = IF q = rd /\ rd # "zero" THEN v ELSE x[q]
  BY <1>1, <1>2, EntryWork DEF Inv, Vector
<1>4. x \in [Regs -> Word] /\ x' = [q \in Regs |-> x'[q]]
  BY <1>1 DEF Inv, TypeOK
<1>5. CASE rd = "zero"
  BY <1>3, <1>4, <1>5 DEF Abstract!Written
<1>6. CASE rd # "zero"
  <2>1. Abstract!Written(rd, v) = [q \in Regs |-> IF q = rd THEN v ELSE x[q]]
    BY <1>4, <1>6 DEF Abstract!Written
  <2>2. x' = [q \in Regs |-> IF q = rd THEN v ELSE x[q]]
    BY <1>3, <1>4, <1>6
  <2> QED BY <2>1, <2>2
<1> QED BY <1>5, <1>6

\* An instruction that was emulated is one the hart has executed.
LEMMA SkippedStep ==
    ASSUME Inv, fw = "isr", NEW r, Skipped(r, Entry), Return(r), UNCHANGED timerVars
    PROVE  /\ Abstract!Proceeds /\ UNCHANGED stip
           /\ load_reservation' = r.res /\ mem' = r.mem
           /\ r.ctx.reg = Frame.reg => x' = x
<1>1. r.ctx.pc = Next4(pc) /\ r.ctx.status = mstatus /\ r.strap = strap /\ mstatus.mpp = priv
  BY EntryWork DEF Skipped, Inv, Trapped
<1>2. r.ctx.reg = Frame.reg => x' = x
  BY EntryWork DEF Return, Inv, TypeOK, Vector
<1>3. mstatus \in [sie : BOOLEAN, spie : BOOLEAN, spp : {0, 1}, mpp : {0, 1}]
  BY DEF Inv, TypeOK
<1>4. UNCHANGED [sie |-> mstatus.sie, spie |-> mstatus.spie, spp |-> mstatus.spp]
  BY <1>1, <1>3 DEF Return
<1> QED BY <1>1, <1>2, <1>4 DEF Return, Abstract!Proceeds, Abstract!NextPc, Next4, timerVars
-----------------------------------------------------------------------------
(* The emulation of an instruction is the instruction of the hart.           *)

\* The machine timer is not an exception.
LEMMA ExceptionTraps == "machine_timer" \notin Exceptions
BY DEF Exceptions, Faults

\* What an emulation starts from: the faults and operands are the program's.
LEMMA EmulationStarts ==
    ASSUME Inv, fw = "isr"
    PROVE  /\ \A n, a : ReadFault(Entry, n, a) = FaultOf(attr, "load", n, priv, a)
           /\ \A n, a : WriteFault(Entry, n, a) = FaultOf(attr, "store", n, priv, a)
           /\ \A r \in Regs \ {"sp"} : Operand(Entry, r) = x[r]
           /\ Entry \in Work /\ Entry.mem = mem /\ Entry.res = load_reservation
           /\ Entry.ctx.reg = Frame.reg /\ Entry.ctx.pc = pc /\ Entry.ctx.status.mpp = priv
           /\ Entry.mcsr = mcsr /\ instr \in Instr
           /\ \A r \in Regs \ {"zero", "sp"} : Frame.reg[r] = x[r]
<1>1. Entry.ctx.status.mpp = priv
  BY EntryWork DEF Inv, Trapped
<1> QED BY <1>1, EntryWork DEF ReadFault, WriteFault, Operand, Inv, TypeOK, Vector

\* load_reserved is LR.
LEMMA LoadReservedStep ==
    ASSUME Inv, FrameSuffices, EmulateIllegal, instr.op = "lr"
    PROVE  Abstract!LoadReserved(instr)
<1> DEFINE a == x[instr.rs1]
           fault == FaultOf(attr, "load", 4, priv, a)
           r == load_reserved(Entry)
<1>1. /\ fw = "isr" /\ UNCHANGED timerVars /\ Return(trap_invalid_inst(Entry))
      /\ Framed(instr) /\ attr[0] \in {"none", "ro"}
  BY ExceptionTraps DEF EmulateIllegal, Handles, FrameSuffices
<1>2. Return(r)
  BY <1>1 DEF trap_invalid_inst
<1>3. /\ instr.rs1 \in Regs \ {"zero", "sp"} /\ instr.rd \in Regs \ {"sp"} /\ instr \in Instr
  BY <1>1, EmulationStarts DEF Framed, Instr
<1>4. Frame.reg[instr.rs1] = a /\ ReadFault(Entry, 4, a) = fault
  BY <1>1, <1>3, EmulationStarts
<1>5. /\ fault # "none" => HandedOver(r, Entry, fault, a) /\ r.mem = mem
      /\ fault = "none" => /\ Skipped(r, Entry) /\ r.mem = mem /\ r.res = a
                           /\ r.ctx.reg = [Frame.reg EXCEPT ![instr.rd] = Fetched(mem, 4, a)]
  BY <1>1, <1>3, <1>4, EmulationStarts, LoadReservedWork
<1> HIDE DEF r, fault, a
<1>6. ASSUME fault # "none"
      PROVE  Abstract!SupervisorTrap(fault, a) /\ UNCHANGED <<mem, load_reservation>>
  BY <1>1, <1>2, <1>5, <1>6, HandedOverStep
<1>7. ASSUME fault = "none"
      PROVE  /\ x' = Abstract!Written(instr.rd, Fetched(mem, 4, a))
             /\ load_reservation' = a
             /\ Abstract!Proceeds /\ UNCHANGED <<mem, stip>>
  BY <1>1, <1>2, <1>3, <1>5, <1>7, SkippedStep, WrittenStep
<1> QED BY <1>6, <1>7, SameMemory DEF Abstract!LoadReserved, fault, a

\* store_conditional is SC; address 0, which stands for no reservation, faults.
LEMMA StoreConditionalStep ==
    ASSUME Inv, FrameSuffices, EmulateIllegal, instr.op = "sc"
    PROVE  Abstract!StoreConditional(instr)
<1> DEFINE a == x[instr.rs1]
           v == x[instr.rs2]
           fault == FaultOf(attr, "store", 4, priv, a)
           r == store_conditional(Entry)
<1>1. /\ fw = "isr" /\ UNCHANGED timerVars /\ Return(trap_invalid_inst(Entry))
      /\ Framed(instr) /\ attr[0] \in {"none", "ro"}
  BY ExceptionTraps DEF EmulateIllegal, Handles, FrameSuffices
<1>2. Return(r)
  BY <1>1 DEF trap_invalid_inst
<1>3. /\ instr.rs1 \in Regs \ {"sp"} /\ instr.rs2 \in Regs \ {"sp"} /\ instr.rd \in Regs \ {"sp"}
      /\ instr \in Instr
  BY <1>1, EmulationStarts DEF Framed, Instr
<1>4. Operand(Entry, instr.rs1) = a /\ Operand(Entry, instr.rs2) = v /\ WriteFault(Entry, 4, a) = fault
  BY <1>1, <1>3, EmulationStarts
<1>5. /\ load_reservation # a => /\ Skipped(r, Entry) /\ r.mem = mem /\ r.res = load_reservation
                                 /\ r.ctx.reg = [Frame.reg EXCEPT ![instr.rd] = 1]
      /\ load_reservation = a /\ fault # "none" => HandedOver(r, Entry, fault, a) /\ r.mem = mem
      /\ load_reservation = a /\ fault = "none" =>
             /\ Skipped(r, Entry) /\ r.mem = Stored(mem, 4, a, v) /\ r.res = 0
             /\ r.ctx.reg = [Frame.reg EXCEPT ![instr.rd] = 0]
  BY <1>1, <1>3, <1>4, EmulationStarts, StoreConditionalWork
<1>6. fault = "none" => a # 0
  BY <1>1 DEF FaultOf, Allowed, PageOf
<1> HIDE DEF r, fault, a, v
<1>7. ASSUME load_reservation # a
      PROVE  /\ x' = Abstract!Written(instr.rd, 1)
             /\ Abstract!Proceeds /\ UNCHANGED <<mem, load_reservation, stip>>
  BY <1>1, <1>2, <1>3, <1>5, <1>7, SkippedStep, WrittenStep
<1>8. ASSUME load_reservation = a, fault # "none"
      PROVE  Abstract!SupervisorTrap(fault, a) /\ UNCHANGED <<mem, load_reservation>>
  BY <1>1, <1>2, <1>5, <1>8, HandedOverStep
<1>9. ASSUME load_reservation = a, fault = "none"
      PROVE  /\ mem' = Stored(mem, 4, a, v) /\ x' = Abstract!Written(instr.rd, 0)
             /\ load_reservation' = 0 /\ Abstract!Proceeds /\ UNCHANGED stip
  BY <1>1, <1>2, <1>3, <1>5, <1>9, SkippedStep, WrittenStep
<1> QED BY <1>6, <1>7, <1>8, <1>9, SameMemory DEF Abstract!StoreConditional, fault, a, v

\* atomic is the atomic operation.
LEMMA ReadModifyWriteStep ==
    ASSUME Inv, FrameSuffices, EmulateIllegal, instr.op \in AmoOps
    PROVE  Abstract!ReadModifyWrite(instr)
<1> DEFINE a == x[instr.rs1]
           old == Fetched(mem, 4, a)
           v == Compute(instr.op, x[instr.rs2], old)
           load == FaultOf(attr, "load", 4, priv, a)
           store == FaultOf(attr, "store", 4, priv, a)
           r == atomic(Entry)
<1>1. /\ fw = "isr" /\ UNCHANGED timerVars /\ Return(trap_invalid_inst(Entry))
      /\ Framed(instr) /\ attr[0] \in {"none", "ro"}
  BY ExceptionTraps DEF EmulateIllegal, Handles, FrameSuffices
<1>2. Return(r)
  BY <1>1 DEF trap_invalid_inst, AmoOps
<1>3. /\ instr.rs1 \in Regs \ {"sp"} /\ instr.rs2 \in Regs \ {"sp"} /\ instr.rd \in Regs \ {"sp"}
      /\ instr \in Instr
  BY <1>1, EmulationStarts DEF Framed, Instr
<1>4. /\ Operand(Entry, instr.rs1) = a /\ Operand(Entry, instr.rs2) = x[instr.rs2]
      /\ WriteFault(Entry, 4, a) = store /\ ReadFault(Entry, 4, a) = load
  BY <1>1, <1>3, EmulationStarts
<1>5. /\ load # "none" => HandedOver(r, Entry, load, a) /\ r.mem = mem
      /\ load = "none" /\ store # "none" => HandedOver(r, Entry, store, a) /\ r.mem = mem
      /\ load = "none" /\ store = "none" =>
             /\ Skipped(r, Entry) /\ r.mem = Stored(mem, 4, a, v) /\ r.res = load_reservation
             /\ r.ctx.reg = [Frame.reg EXCEPT ![instr.rd] = old]
  BY <1>1, <1>3, <1>4, EmulationStarts, AtomicWork
<1>6. v = Abstract!Atomic(instr.op, old, x[instr.rs2])
  <2>1. mem \in Memory /\ a \in Word /\ x[instr.rs2] \in Word
    BY <1>3 DEF Inv, TypeOK, Memory, Bit
  <2>2. old \in Word
    BY <2>1, FetchedType
  <2> QED BY <2>1, <2>2, SameAtomic
<1> HIDE DEF r, load, store, a, old, v
<1>7. ASSUME load # "none"
      PROVE  Abstract!SupervisorTrap(load, a) /\ UNCHANGED <<mem, load_reservation>>
  BY <1>1, <1>2, <1>5, <1>7, HandedOverStep
<1>8. ASSUME load = "none", store # "none"
      PROVE  Abstract!SupervisorTrap(store, a) /\ UNCHANGED <<mem, load_reservation>>
  BY <1>1, <1>2, <1>5, <1>8, HandedOverStep
<1>9. ASSUME load = "none", store = "none"
      PROVE  /\ mem' = Stored(mem, 4, a, v) /\ x' = Abstract!Written(instr.rd, old)
             /\ Abstract!Proceeds /\ UNCHANGED <<load_reservation, stip>>
  BY <1>1, <1>2, <1>3, <1>5, <1>9, SkippedStep, WrittenStep
<1> QED BY <1>6, <1>7, <1>8, <1>9, SameMemory, SameWords
        DEF Abstract!ReadModifyWrite, load, store, a, old

\* trap_misaligned_ld is the load.
LEMMA LoadStep ==
    ASSUME Inv, FrameSuffices, EmulateMisaligned, Handles("trap_misaligned_ld")
    PROVE  Abstract!Load(instr)
<1> DEFINE a == x[instr.rs1]
           n == Length(instr.op)
           failing == {i \in 0..(n - 1) : ~Allowed(attr, "load", priv, Plus(a, i))}
           v == Fetched(mem, n, a)
           data == IF instr.op = "lh" /\ v >= 2 THEN v + 12 ELSE v
           r == trap_misaligned_ld(Entry)
<1>1. /\ fw = "isr" /\ UNCHANGED timerVars /\ Return(r)
      /\ Framed(instr) /\ instr.op \in LoadOps /\ mcsr.mcause = "misaligned_load"
      /\ a % n # 0 /\ mcsr.mtval = a
  BY HandledTraps, ExceptionTraps DEF EmulateMisaligned, Handles, FrameSuffices
<1>2. instr \in Instr /\ instr.rd \in Regs \ {"sp"} /\ instr.seen \in Views
  BY <1>1, EmulationStarts DEF Framed, Instr
<1>3. data = Extended(instr.op, Fetched(mem, n, a))
  <2>1. mem \in Memory /\ a \in Word
    BY <1>2 DEF Inv, TypeOK, Memory, Bit, Instr
  <2> QED BY <1>1, <2>1, ExtendedType
<1>4. /\ instr.seen = "fault" => HandedOver(r, Entry, "load_fault", pc) /\ r.mem = mem
      /\ instr.seen = "other" => HandedOver(r, Entry, "misaligned_load", a) /\ r.mem = mem
      /\ instr.seen = "same" /\ failing # {} =>
             HandedOver(r, Entry, "load_fault", Plus(a, Least(failing))) /\ r.mem = mem
      /\ instr.seen = "same" /\ failing = {} =>
             /\ Skipped(r, Entry) /\ r.mem = mem /\ r.res = load_reservation
             /\ r.ctx.reg = IF instr.rd = "zero" THEN Frame.reg
                            ELSE [Frame.reg EXCEPT ![instr.rd] = data]
  <2> HIDE DEF data
  <2>1. instr \in Instr /\ instr.op \in LoadOps /\ Entry.mcsr.mcause = "misaligned_load" /\ Entry \in Work
    BY <1>1, <1>2, EmulationStarts
  <2>2. /\ instr.seen = "fault" => HandedOver(r, Entry, "load_fault", Entry.ctx.pc) /\ r.mem = Entry.mem
        /\ instr.seen = "other" => HandedOver(r, Entry, "misaligned_load", Entry.mcsr.mtval)
                                     /\ r.mem = Entry.mem
        /\ LET b == Entry.mcsr.mtval
               bad == {i \in 0..(Length(instr.op) - 1) :
                          ~Allowed(attr, "load", Entry.ctx.status.mpp, Plus(b, i))}
           IN  /\ instr.seen = "same" /\ bad # {} =>
                     HandedOver(r, Entry, "load_fault", Plus(b, Least(bad))) /\ r.mem = Entry.mem
               /\ instr.seen = "same" /\ bad = {} =>
                     /\ Skipped(r, Entry) /\ r.mem = Entry.mem /\ r.res = Entry.res
                     /\ r.ctx.reg = IF instr.rd = "zero" THEN Entry.ctx.reg
                                    ELSE [Entry.ctx.reg EXCEPT
                                             ![instr.rd] = Extended(instr.op, Fetched(Entry.mem, n, b))]
    BY <2>1, MisalignedLoadWork
  <2>3. Entry.mcsr.mtval = a /\ Entry.ctx.pc = pc /\ Entry.mem = mem /\ Entry.res = load_reservation
        /\ Entry.ctx.reg = Frame.reg /\ Entry.ctx.status.mpp = priv
    BY <1>1, EmulationStarts
  <2> QED BY <1>3, <2>2, <2>3
<1> HIDE DEF r, data
<1>5. ASSUME instr.seen = "fault"
      PROVE  Abstract!SupervisorTrap("load_fault", pc) /\ UNCHANGED <<mem, load_reservation>>
  BY <1>1, <1>4, <1>5, HandedOverStep
<1>6. ASSUME instr.seen = "other"
      PROVE  Abstract!SupervisorTrap("misaligned_load", a) /\ UNCHANGED <<mem, load_reservation>>
  BY <1>1, <1>4, <1>6, HandedOverStep
<1>7. ASSUME instr.seen = "same", failing # {}
      PROVE  /\ Abstract!SupervisorTrap("load_fault", Plus(a, Least(failing)))
             /\ UNCHANGED <<mem, load_reservation>>
  BY <1>1, <1>4, <1>7, HandedOverStep
<1>8. ASSUME instr.seen = "same", failing = {}
      PROVE  /\ x' = Abstract!Written(instr.rd, data)
             /\ Abstract!Proceeds /\ UNCHANGED <<mem, load_reservation, stip>>
  <2>1. CASE instr.rd = "zero"
    BY <1>1, <1>4, <1>8, <2>1, SkippedStep DEF Abstract!Written
  <2>2. CASE instr.rd # "zero"
    BY <1>1, <1>2, <1>4, <1>8, <2>2, SkippedStep, WrittenStep
  <2> QED BY <2>1, <2>2
<1>9. Abstract!Failing("load", n, a) = failing
  BY SameMemory, SameWords DEF Abstract!Failing
<1> HIDE DEF failing
<1> QED BY <1>1, <1>2, <1>5, <1>6, <1>7, <1>8, <1>9, SameMemory, SameWords
        DEF Abstract!Load, Abstract!LeftOver, Abstract!Known, data, Views
\* trap_misaligned_st is the store, with the bytes before a fault.
LEMMA StoreStep ==
    ASSUME Inv, FrameSuffices, EmulateMisaligned, Handles("trap_misaligned_st")
    PROVE  Abstract!Store(instr)
<1> DEFINE a == x[instr.rs1]
           n == Length(instr.op)
           failing == {i \in 0..(n - 1) : ~Allowed(attr, "store", priv, Plus(a, i))}
           value == x[instr.rs2]
           r == trap_misaligned_st(Entry)
<1>1. /\ fw = "isr" /\ UNCHANGED timerVars /\ ~Handles("trap_misaligned_ld") /\ Return(r)
      /\ Framed(instr) /\ instr.op \in StoreOps /\ mcsr.mcause = "misaligned_store"
      /\ a % n # 0 /\ mcsr.mtval = a
  BY HandledTraps, ExceptionTraps DEF EmulateMisaligned, Handles, FrameSuffices
<1>2. instr \in Instr /\ instr.rs2 \in Regs \ {"sp"} /\ instr.seen \in Views
  BY <1>1, EmulationStarts DEF Framed, Instr
<1>3. Operand(Entry, instr.rs2) = value
  BY <1>1, <1>2, EmulationStarts
<1>4. /\ instr.seen = "fault" => HandedOver(r, Entry, "load_fault", pc) /\ r.mem = mem
      /\ instr.seen = "other" => HandedOver(r, Entry, "misaligned_store", a) /\ r.mem = mem
      /\ instr.seen = "same" /\ failing # {} =>
             /\ HandedOver(r, Entry, "store_fault", Plus(a, Least(failing)))
             /\ r.mem = Stored(mem, Least(failing), a, value)
      /\ instr.seen = "same" /\ failing = {} =>
             /\ Skipped(r, Entry) /\ r.res = load_reservation /\ r.ctx.reg = Frame.reg
             /\ r.mem = Stored(mem, n, a, value)
  <2>1. instr \in Instr /\ instr.op \in StoreOps /\ Entry.mcsr.mcause = "misaligned_store" /\ Entry \in Work
    BY <1>1, <1>2, EmulationStarts
  <2>2. /\ instr.seen = "fault" => HandedOver(r, Entry, "load_fault", Entry.ctx.pc) /\ r.mem = Entry.mem
        /\ instr.seen = "other" => HandedOver(r, Entry, "misaligned_store", Entry.mcsr.mtval)
                                     /\ r.mem = Entry.mem
        /\ LET b == Entry.mcsr.mtval
               bad == {i \in 0..(Length(instr.op) - 1) :
                          ~Allowed(attr, "store", Entry.ctx.status.mpp, Plus(b, i))}
               w == Operand(Entry, instr.rs2)
           IN  /\ instr.seen = "same" /\ bad # {} =>
                     /\ HandedOver(r, Entry, "store_fault", Plus(b, Least(bad)))
                     /\ r.mem = Stored(Entry.mem, Least(bad), b, w)
               /\ instr.seen = "same" /\ bad = {} =>
                     /\ Skipped(r, Entry) /\ r.res = Entry.res /\ r.ctx.reg = Entry.ctx.reg
                     /\ r.mem = Stored(Entry.mem, Length(instr.op), b, w)
    BY <2>1, MisalignedStoreWork
  <2>3. Entry.mcsr.mtval = a /\ Entry.ctx.pc = pc /\ Entry.mem = mem /\ Entry.res = load_reservation
        /\ Entry.ctx.reg = Frame.reg /\ Entry.ctx.status.mpp = priv
    BY <1>1, EmulationStarts
  <2> HIDE DEF value, r
  <2> QED BY <1>3, <2>2, <2>3
<1> HIDE DEF r, value
<1>5. ASSUME instr.seen = "fault"
      PROVE  Abstract!SupervisorTrap("load_fault", pc) /\ UNCHANGED <<mem, load_reservation>>
  BY <1>1, <1>4, <1>5, HandedOverStep
<1>6. ASSUME instr.seen = "other"
      PROVE  Abstract!SupervisorTrap("misaligned_store", a) /\ UNCHANGED <<mem, load_reservation>>
  BY <1>1, <1>4, <1>6, HandedOverStep
<1>7. ASSUME instr.seen = "same", failing # {}
      PROVE  /\ mem' = Stored(mem, Least(failing), a, value)
             /\ Abstract!SupervisorTrap("store_fault", Plus(a, Least(failing)))
             /\ UNCHANGED load_reservation
  BY <1>1, <1>4, <1>7, HandedOverStep
<1>8. ASSUME instr.seen = "same", failing = {}
      PROVE  /\ mem' = Stored(mem, n, a, value)
             /\ Abstract!Proceeds /\ UNCHANGED <<x, load_reservation, stip>>
  BY <1>1, <1>4, <1>8, SkippedStep
<1>9. Abstract!Failing("store", n, a) = failing
  BY SameMemory, SameWords DEF Abstract!Failing
<1> HIDE DEF failing
<1> QED BY <1>1, <1>2, <1>5, <1>6, <1>7, <1>8, <1>9, SameMemory, SameWords
        DEF Abstract!Store, Abstract!LeftOver, Abstract!Known, value, Views

-----------------------------------------------------------------------------
(* What the core does itself is the hart's as well.                          *)

\* The bytes of an aligned access are in one page.
LEMMA AlignedPage ==
    ASSUME NEW a \in Word, NEW n \in {2, 4}, a % n = 0, NEW i \in 0..(n - 1)
    PROVE  PageOf(Plus(a, i)) = PageOf(a)
<1>1. CASE n = 4
  <2>1. i \in 0..3 /\ a \in {0, 4, 8, 12}
    BY <1>1 DEF Word
  <2> QED BY <2>1 DEF PageOf, Plus
<1>2. CASE n = 2
  <2>1. i \in 0..1 /\ a \in {0, 2, 4, 6, 8, 10, 12, 14}
    BY <1>2 DEF Word
  <2> QED BY <2>1 DEF PageOf, Plus
<1> QED BY <1>1, <1>2

\* An aligned access faults in all of its bytes, or in none.
LEMMA AlignedFailing ==
    ASSUME NEW kind \in {"load", "store"}, NEW n \in {2, 4}, NEW a \in Word, a % n = 0
    PROVE  /\ FaultOf(attr, kind, n, priv, a) = "none" => Abstract!Failing(kind, n, a) = {}
           /\ FaultOf(attr, kind, n, priv, a) # "none" =>
                 /\ FaultOf(attr, kind, n, priv, a) = IF kind = "load" THEN "load_fault" ELSE "store_fault"
                 /\ Abstract!Failing(kind, n, a) # {}
                 /\ Least(Abstract!Failing(kind, n, a)) = 0
<1>1. \A i \in 0..(n - 1) : Allowed(attr, kind, priv, Plus(a, i)) <=> Allowed(attr, kind, priv, a)
  BY AlignedPage DEF Allowed
<1>2. Abstract!Failing(kind, n, a) = {i \in 0..(n - 1) : ~Allowed(attr, kind, priv, a)}
  BY <1>1, SameMemory, SameWords DEF Abstract!Failing
<1>3. FaultOf(attr, kind, n, priv, a) =
          IF Allowed(attr, kind, priv, a) THEN "none"
          ELSE IF kind = "load" THEN "load_fault" ELSE "store_fault"
  BY DEF FaultOf
<1>4. ASSUME ~Allowed(attr, kind, priv, a)
      PROVE  Abstract!Failing(kind, n, a) # {} /\ Least(Abstract!Failing(kind, n, a)) = 0
  <2> DEFINE S == Abstract!Failing(kind, n, a)
  <2>1. S = 0..(n - 1)
    BY <1>2, <1>4
  <2>2. S \in SUBSET Lane /\ 0 \in S /\ S # {}
    BY <2>1 DEF Lane
  <2>3. Least(S) \in S /\ Least(S) <= 0
    BY <2>2, LeastIs
  <2> QED BY <2>1, <2>2, <2>3
<1>5. ASSUME Allowed(attr, kind, priv, a) PROVE Abstract!Failing(kind, n, a) = {}
  BY <1>2, <1>5
<1> QED BY <1>3, <1>4, <1>5

\* What the core does without a trap.
LEMMA NativeStep ==
    ASSUME Inv, NEW i \in code, Native(i)
    PROVE  Abstract!Execute(i)
<1>1. i \in Instr /\ x[i.rs1] \in Word /\ i.rd \in Regs /\ Length(i.op) \in {2, 4}
  BY DEF Inv, TypeOK, Instr, Length
<1>2. /\ pc' = Abstract!NextPc
      /\ UNCHANGED <<code, priv, strap, on, mstatus, load_reservation, stip>>
  BY DEF Native, Next4, Abstract!NextPc, csrVars, timerVars
<1>3. CASE i.op = "li"
  <2>1. x' = Abstract!Written(i.rd, i.imm) /\ UNCHANGED <<mem, attr>>
    BY <1>3 DEF Native, LoadOps, StoreOps, Abstract!Written
  <2> QED BY <1>2, <1>3, <2>1 DEF Abstract!Execute, Abstract!Immediate, Abstract!Proceeds
<1>4. CASE i.op = "map"
  <2>1. attr' = [attr EXCEPT ![i.imm] = "rw"] /\ priv = 1 /\ UNCHANGED <<x, mem>>
    BY <1>4 DEF Native, LoadOps, StoreOps
  <2> QED BY <1>2, <1>4, <2>1 DEF Abstract!Execute, Abstract!Map
<1>5. CASE i.op \in LoadOps
  <2> DEFINE a == x[i.rs1]
             n == Length(i.op)
             v == Fetched(mem, n, a)
             data == IF i.op = "lh" /\ v >= 2 THEN v + 12 ELSE v
  <2>1. FaultOf(attr, "load", n, priv, a) = "none"
    <3>1. ~(i.op \in {"lr", "sc", "bad"} \cup AmoOps \/ (i.op = "sret" /\ priv = 0))
      BY <1>5 DEF LoadOps, AmoOps
    <3>2. CauseOf(i) = FaultOf(attr, "load", n, priv, a)
      BY <1>5, <3>1 DEF CauseOf, LoadOps, StoreOps, Calls
    <3> QED BY <3>2 DEF Native
  <2>2. a % n = 0
    BY <2>1 DEF FaultOf
  <2>3. Abstract!Failing("load", n, a) = {}
    BY <1>1, <2>1, <2>2, AlignedFailing
  <2>4. x' = Abstract!Written(i.rd, data) /\ UNCHANGED <<mem, attr>>
    BY <1>5 DEF Native, LoadOps, StoreOps, Abstract!Written
  <2> HIDE DEF data
  <2>5. Abstract!Load(i)
    <3>1. Abstract!Known(i, a)
      BY <2>2, SameWords DEF Abstract!Known
    <3>2. Abstract!Proceeds /\ UNCHANGED <<mem, load_reservation, stip>>
      BY <1>2, <2>4 DEF Abstract!Proceeds
    <3> QED BY <1>5, <2>3, <2>4, <3>1, <3>2, SameWords, SameMemory DEF Abstract!Load, data
  <2> QED BY <2>5 DEF Abstract!Execute
<1>6. CASE i.op \in StoreOps
  <2> DEFINE a == x[i.rs1]
             n == Length(i.op)
  <2>1. FaultOf(attr, "store", n, priv, a) = "none"
    <3>1. ~(i.op \in {"lr", "sc", "bad"} \cup AmoOps \/ (i.op = "sret" /\ priv = 0))
      BY <1>6 DEF StoreOps, AmoOps
    <3>2. CauseOf(i) = FaultOf(attr, "store", n, priv, a)
      BY <1>6, <3>1 DEF CauseOf, LoadOps, StoreOps, Calls
    <3> QED BY <3>2 DEF Native
  <2>2. a % n = 0
    BY <2>1 DEF FaultOf
  <2>3. Abstract!Failing("store", n, a) = {}
    BY <1>1, <2>1, <2>2, AlignedFailing
  <2>4. mem' = Stored(mem, n, a, x[i.rs2]) /\ UNCHANGED <<x, attr>>
    BY <1>6 DEF Native, LoadOps, StoreOps
  <2>5. Abstract!Store(i)
    <3>1. Abstract!Known(i, a)
      BY <2>2, SameWords DEF Abstract!Known
    <3>2. Abstract!Proceeds /\ UNCHANGED <<x, load_reservation, stip>>
      BY <1>2, <2>4 DEF Abstract!Proceeds
    <3> QED BY <1>6, <2>3, <2>4, <3>1, <3>2, SameWords, SameMemory DEF Abstract!Store
  <2> QED BY <2>5 DEF Abstract!Execute
<1> QED BY <1>3, <1>4, <1>5, <1>6 DEF Native
\* A trap that is delegated is a trap of the hart.
LEMMA DelegatedTrapStep ==
    ASSUME Inv, NEW cause, NEW tval, SupervisorTrap(cause, tval)
    PROVE  /\ Abstract!SupervisorTrap(cause, tval)
           /\ UNCHANGED <<mem, load_reservation>>
<1>1. mstatus' = [mstatus EXCEPT !.sie = FALSE, !.spie = mstatus.sie, !.spp = priv]
  BY DEF SupervisorTrap
<1>2. [sie |-> mstatus'.sie, spie |-> mstatus'.spie, spp |-> mstatus'.spp]
          = [sie |-> FALSE, spie |-> mstatus.sie, spp |-> priv]
  BY <1>1 DEF Inv, TypeOK
<1> QED BY <1>2 DEF SupervisorTrap, Abstract!SupervisorTrap, Abstract!Stvec, Stvec, timerVars

\* The exceptions the supervisor takes without the firmware.
LEMMA DelegatedStep ==
    ASSUME Inv, NEW i \in code, Delegated(i)
    PROVE  Abstract!Execute(i)
<1> DEFINE a == x[i.rs1]
           n == Length(i.op)
<1>1. i \in Instr /\ a \in Word /\ n \in {2, 4} /\ mem \in Memory
  BY DEF Inv, TypeOK, Instr, Length, Memory, Bit
<1>2. CauseOf(i) \in {"load_fault", "store_fault", "ecall_u"}
  <2>1. delegated = Medeleg \cup Mideleg
    BY DEF Delegated, Running, Inv, Booted
  <2> QED BY <2>1 DEF Delegated, Medeleg, Mideleg, Exceptions, Faults
<1>3. SupervisorTrap(CauseOf(i), TvalOf(i))
  BY DEF Delegated
<1>4. /\ Abstract!SupervisorTrap(CauseOf(i), TvalOf(i)) /\ UNCHANGED <<mem, load_reservation>>
  BY <1>3, DelegatedTrapStep
<1>5. ~(i.op \in {"lr", "sc", "bad"} \cup AmoOps \/ (i.op = "sret" /\ priv = 0))
  <2> SUFFICES ASSUME i.op \in {"lr", "sc", "bad"} \cup AmoOps \/ (i.op = "sret" /\ priv = 0)
               PROVE  CauseOf(i) = "illegal"
    BY <1>2
  <2>1. i.op \notin LoadOps \cup StoreOps \cup Calls
    BY DEF AmoOps, LoadOps, StoreOps, Calls
  <2> QED BY <2>1 DEF CauseOf
<1>6. CASE i.op \in LoadOps
  <2>1. CauseOf(i) = FaultOf(attr, "load", n, priv, a) /\ TvalOf(i) = a
    BY <1>5, <1>6 DEF CauseOf, TvalOf, LoadOps, StoreOps, Calls
  <2>2. a % n = 0 /\ FaultOf(attr, "load", n, priv, a) # "none"
    BY <1>2, <2>1 DEF FaultOf
  <2>3. /\ CauseOf(i) = "load_fault" /\ Abstract!Failing("load", n, a) # {}
        /\ Least(Abstract!Failing("load", n, a)) = 0
    BY <1>1, <2>1, <2>2, AlignedFailing
  <2>4. Plus(a, 0) = a
    BY <1>1 DEF Plus, Word
  <2>5. Abstract!Known(i, a)
    BY <2>2, SameWords DEF Abstract!Known
  <2>6. Abstract!Load(i)
    BY <1>4, <1>6, <2>1, <2>3, <2>4, <2>5, SameWords DEF Abstract!Load
  <2> QED BY <2>6 DEF Abstract!Execute
<1>7. CASE i.op \in StoreOps
  <2>1. CauseOf(i) = FaultOf(attr, "store", n, priv, a) /\ TvalOf(i) = a
    BY <1>5, <1>7 DEF CauseOf, TvalOf, LoadOps, StoreOps, Calls
  <2>2. a % n = 0 /\ FaultOf(attr, "store", n, priv, a) # "none"
    BY <1>2, <2>1 DEF FaultOf
  <2>3. /\ CauseOf(i) = "store_fault" /\ Abstract!Failing("store", n, a) # {}
        /\ Least(Abstract!Failing("store", n, a)) = 0
    BY <1>1, <2>1, <2>2, AlignedFailing
  <2>4. Plus(a, 0) = a
    BY <1>1 DEF Plus, Word
  <2>5. Abstract!Known(i, a)
    BY <2>2, SameWords DEF Abstract!Known
  <2>6. mem' = Stored(mem, 0, a, x[i.rs2])
    <3>1. \A b \in Word : ~(Plus(b, -a) < 0)
      BY <1>1 DEF Plus, Word
    <3>2. Stored(mem, 0, a, x[i.rs2]) = [b \in Word |-> mem[b]]
      BY <3>1 DEF Stored
    <3> QED BY <1>1, <1>4, <3>2 DEF Memory
  <2>7. Abstract!Store(i)
    BY <1>4, <1>7, <2>1, <2>3, <2>4, <2>5, <2>6, SameWords, SameMemory DEF Abstract!Store
  <2> QED BY <2>7 DEF Abstract!Execute
<1>8. CASE i.op \notin LoadOps \cup StoreOps
  <2>1. i.op \in Calls /\ priv = 0 /\ CauseOf(i) = "ecall_u" /\ TvalOf(i) = 0
    BY <1>2, <1>5, <1>8 DEF CauseOf, TvalOf, Inv, TypeOK
  <2>2. Abstract!UserCall(i)
    BY <1>4, <2>1, SameWords DEF Abstract!UserCall
  <2> QED BY <2>2 DEF Abstract!Execute
<1> QED BY <1>6, <1>7, <1>8

\* sret is the return of the hart.
LEMMA SupervisorReturnStep ==
    ASSUME Inv, NEW i \in code, SupervisorReturn(i)
    PROVE  Abstract!Execute(i)
<1>1. mstatus' = [mstatus EXCEPT !.sie = mstatus.spie, !.spie = TRUE, !.spp = 0]
  BY DEF SupervisorReturn
<1>2. [sie |-> mstatus'.sie, spie |-> mstatus'.spie, spp |-> mstatus'.spp]
          = [sie |-> mstatus.spie, spie |-> TRUE, spp |-> 0]
  BY <1>1 DEF Inv, TypeOK
<1>3. Abstract!SupervisorReturn(i)
  BY <1>2 DEF SupervisorReturn, Abstract!SupervisorReturn, timerVars
<1> QED BY <1>3 DEF Abstract!Execute

\* An interrupt of the supervisor is one of the hart.
LEMMA InterruptStep ==
    ASSUME Inv, SupervisorInterrupt
    PROVE  Abstract!Interrupt
<1>1. PICK cause \in {"timer", "external"} : (cause = "timer" => stip) /\ SupervisorTrap(cause, 0)
  BY DEF SupervisorInterrupt
<1>2. Abstract!SupervisorTrap(cause, 0) /\ UNCHANGED <<mem, load_reservation>>
  BY <1>1, DelegatedTrapStep
<1> QED BY <1>1, <1>2 DEF SupervisorInterrupt, Abstract!Interrupt

-----------------------------------------------------------------------------
(* The calls, the timer and the end.                                         *)

\* A handler that returns what AfterCall is, with a0 written or not.
LEMMA AfterCallStep ==
    ASSUME Inv, fw \in {"isr", "clear_sip"}, NEW h, Return(h),
           h.ctx.pc = Next4(pc), h.ctx.status = mstatus, h.mem = mem, h.strap = strap,
           h.res = load_reservation
    PROVE  /\ Abstract!Proceeds /\ UNCHANGED <<mem, load_reservation>>
           /\ h.ctx.reg = Frame.reg => x' = x
<1>1. mstatus.mpp = priv /\ mstatus \in [sie : BOOLEAN, spie : BOOLEAN, spp : {0, 1}, mpp : {0, 1}]
  BY DEF Inv, TypeOK, Trapped
<1>2. h.ctx.reg = Frame.reg => x' = x
  BY EntryWork DEF Return, Inv, TypeOK, Vector
<1>3. UNCHANGED [sie |-> mstatus.sie, spie |-> mstatus.spie, spp |-> mstatus.spp]
  BY <1>1 DEF Return
<1> QED BY <1>1, <1>2, <1>3 DEF Return, Abstract!Proceeds, Abstract!NextPc, Next4

\* The console and the fences are the calls of the hart.
LEMMA CallStep ==
    ASSUME Inv, SbiConsole \/ SbiFence
    PROVE  Abstract!SbiCall(instr)
<1>1. instr.op \in {"putchar", "fence", "getchar"} /\ priv = 1 /\ fw = "isr" /\ UNCHANGED stip
  BY HandledTraps DEF SbiConsole, SbiFence, Handles, timerVars
<1>2. CASE Return(AfterCall) /\ instr.op # "getchar"
  <2>1. Abstract!Proceeds /\ UNCHANGED <<x, mem, load_reservation>>
    BY <1>1, <1>2, AfterCallWork, AfterCallStep
  <2> QED BY <1>1, <1>2, <2>1 DEF Abstract!SbiCall
<1>3. CASE instr.op = "getchar" /\ \E c \in {1, 15} : Return([AfterCall EXCEPT !.ctx.reg["a0"] = c])
  <2>1. PICK c \in {1, 15} : Return([AfterCall EXCEPT !.ctx.reg["a0"] = c])
    BY <1>3
  <2> DEFINE h == Put(AfterCall, "a0", c)
  <2>2. Return(h)
    BY <2>1 DEF Put
  <2>3. "a0" \in Regs \ {"sp"} /\ c \in Word
    BY RegsAssumption DEF Word
  <2>4. /\ h.ctx.pc = Next4(pc) /\ h.ctx.status = mstatus /\ h.mem = mem /\ h.strap = strap
        /\ h.res = load_reservation /\ h.ctx.reg = [Frame.reg EXCEPT !["a0"] = c]
    BY <2>3, AfterCallWork, PutWork
  <2> HIDE DEF h
  <2>5. Abstract!Proceeds /\ UNCHANGED <<mem, load_reservation>>
    BY <1>1, <2>2, <2>4, AfterCallStep
  <2>6. x' = [x EXCEPT !["a0"] = c]
    BY <2>2, <2>3, <2>4, WrittenStep DEF Abstract!Written
  <2> QED BY <1>1, <1>3, <2>5, <2>6 DEF Abstract!SbiCall
<1> QED BY <1>2, <1>3 DEF SbiConsole, SbiFence

\* The last of the steps of a set timer call is the call.
LEMMA ClearSipStep ==
    ASSUME Inv, ClearSip
    PROVE  Abstract!SbiCall(instr) /\ instr \in code /\ on
<1>1. /\ fw = "clear_sip" /\ instr.op = "set_timer" /\ instr \in code /\ priv = 1 /\ on
      /\ stip' = FALSE /\ Return(AfterCall)
  BY DEF ClearSip, Inv, Trapped
<1>2. Abstract!Proceeds /\ UNCHANGED <<x, mem, load_reservation>>
  BY <1>1, AfterCallWork, AfterCallStep
<1> QED BY <1>1, <1>2 DEF Abstract!SbiCall

\* The machine stops only where the hart does.
LEMMA ExitStep ==
    ASSUME Inv, AssertFails \/ SbiStop
    PROVE  Abstract!Stop(instr) /\ instr \in code /\ on
<1>1. on /\ Exit
  BY DEF AssertFails, Asserts, SbiStop, Handles
<1>2. /\ instr \in code
      /\ \/ instr.op \in {"shutdown", "unknown"} /\ priv = 1
         \/ instr.op = "bad"
         \/ instr.op = "sret" /\ priv = 0
  BY HandledTraps DEF AssertFails, Asserts, SbiStop, AmoOps
<1> QED BY <1>1, <1>2 DEF Abstract!Stop, Exit, csrVars, timerVars

\* irq_callback returns to where the timer has interrupted the program.
LEMMA ClearMipStep ==
    ASSUME Inv, ClearMip
    PROVE  UNCHANGED Abstract!hartVars
<1>1. fw = "clear_mip" /\ Return(Entry) /\ UNCHANGED stip /\ mstatus.mpp = priv
  BY DEF ClearMip, Inv, Trapped
<1>2. mstatus \in [sie : BOOLEAN, spie : BOOLEAN, spp : {0, 1}, mpp : {0, 1}]
  BY DEF Inv, TypeOK
<1>3. x' = x
  BY <1>1, EntryWork DEF Return, Inv, TypeOK, Vector
<1>4. UNCHANGED [sie |-> mstatus.sie, spie |-> mstatus.spie, spp |-> mstatus.spp]
  BY <1>1, <1>2, EntryWork DEF Return
<1> QED BY <1>1, <1>3, <1>4, EntryWork DEF Return, Abstract!hartVars

-----------------------------------------------------------------------------
\* The firmware boots into the first state of the hart.
LEMMA InitHart == Init => Abstract!Init
BY DEF Init, Abstract!Init

\* Every step of the firmware and its program is a step of the hart, or none.
LEMMA NextHart == Inv /\ FrameSuffices /\ [Next]_vars => [Abstract!Next]_(Abstract!hartVars)
<1> SUFFICES ASSUME Inv, FrameSuffices, [Next]_vars PROVE Abstract!Next \/ UNCHANGED Abstract!hartVars
  OBVIOUS
<1>1. ASSUME NEW i \in code, Native(i) \/ Delegated(i) \/ SupervisorReturn(i) PROVE Abstract!Next
  <2>1. on
    BY <1>1 DEF Native, Delegated, SupervisorReturn, Running
  <2> QED BY <1>1, <2>1, NativeStep, DelegatedStep, SupervisorReturnStep DEF Abstract!Next
<1>2. ASSUME NEW i \in code, Undelegated(i) PROVE UNCHANGED Abstract!hartVars
  BY <1>2 DEF Undelegated, MachineTrap, Inv, TypeOK, progVars, timerVars, Abstract!hartVars
<1>3. CASE SupervisorInterrupt
  BY <1>3, InterruptStep DEF SupervisorInterrupt, Running, Abstract!Next
<1>4. CASE MachineTimerInterrupt
  BY <1>4 DEF MachineTimerInterrupt, MachineTrap, Inv, TypeOK, progVars, timerVars, Abstract!hartVars
<1>5. CASE Tick \/ BootMain \/ BootKernel \/ SetMtimecmp \/ SetMie \/ ClearMie \/ UNCHANGED vars
  BY <1>5 DEF Tick, BootMain, BootKernel, SetMtimecmp, SetMie, ClearMie, vars, progVars, csrVars, timerVars,
              Abstract!hartVars
<1>6. CASE EmulateIllegal
  <2>1. instr \in code /\ on /\ instr.op \in {"lr", "sc"} \cup AmoOps
    BY <1>6, HandledTraps DEF EmulateIllegal, Handles
  <2>2. Abstract!Execute(instr)
    BY <1>6, <2>1, LoadReservedStep, StoreConditionalStep, ReadModifyWriteStep DEF Abstract!Execute
  <2> QED BY <2>1, <2>2 DEF Abstract!Next
<1>7. CASE EmulateMisaligned
  <2>1. Handles("trap_misaligned_ld") \/ Handles("trap_misaligned_st")
    BY <1>7 DEF EmulateMisaligned
  <2>2. instr \in code /\ on
    BY <2>1, HandledTraps DEF Handles
  <2>3. Abstract!Execute(instr)
    BY <1>7, <2>1, LoadStep, StoreStep DEF Abstract!Execute
  <2> QED BY <2>2, <2>3 DEF Abstract!Next
<1>8. CASE SbiConsole \/ SbiFence
  <2>1. instr \in code /\ on
    BY <1>8, HandledTraps DEF SbiConsole, SbiFence, Handles
  <2> QED BY <1>8, <2>1, CallStep DEF Abstract!Execute, Abstract!Next
<1>9. CASE ClearSip
  BY <1>9, ClearSipStep DEF Abstract!Execute, Abstract!Next
<1>10. CASE AssertFails \/ SbiStop
  BY <1>10, ExitStep DEF Abstract!Execute, Abstract!Next
<1>11. CASE RaiseStip
  <2>1. Abstract!Ring /\ on
    BY <1>11 DEF RaiseStip, emulation_take_irq, progVars, Abstract!Ring
  <2> QED BY <2>1 DEF Abstract!Next
<1>12. CASE ClearMip
  BY <1>12, ClearMipStep
<1> QED BY <1>1, <1>2, <1>3, <1>4, <1>5, <1>6, <1>7, <1>8, <1>9, <1>10, <1>11, <1>12
        DEF Next, Program, Handler

\* As long as the instructions that are emulated get by with what the frame holds,
\* and address 0 cannot be written, the supervisor cannot tell the firmware from a
\* hart that executes these instructions itself, for every program: each of its
\* steps is one of the hart, or invisible.
THEOREM FirmwareImplementsHart == Spec /\ []FrameSuffices => ImplementsHart
<1> QED BY Invariant, InitHart, NextHart, PTL DEF Spec, ImplementsHart, Abstract!Spec

-----------------------------------------------------------------------------
(* Programs that are Supported stay so.                                      *)

Hosted == (\A i \in code : Framed(i) /\ (i.op = "map" => i.imm # 0)) /\ attr[0] \in {"none", "ro"}

\* The program stays one the frame serves.
LEMMA HostedNext == TypeOK /\ Hosted /\ [Next]_vars => Hosted'
<1> SUFFICES ASSUME TypeOK, Hosted, [Next]_vars PROVE Hosted'
  OBVIOUS
<1>1. CASE UNCHANGED <<code, attr>>
  BY <1>1 DEF Hosted, Framed
<1>2. CASE \E i \in code : Native(i)
  <2>1. PICK i \in code : Native(i)
    BY <1>2
  <2>2. code' = code
    BY <2>1 DEF Native
  <2>3. attr' = attr \/ (i.op = "map" /\ attr' = [attr EXCEPT ![i.imm] = "rw"])
    BY <2>1 DEF Native
  <2>4. attr'[0] = attr[0]
    BY <2>3 DEF Hosted, Framed, TypeOK, Page
  <2> QED BY <2>2, <2>4 DEF Hosted, Framed
<1>3. UNCHANGED <<code, attr>> \/ \E i \in code : Native(i)
  BY DEF Next, Program, Delegated, Undelegated, SupervisorReturn, SupervisorTrap, MachineTrap,
         SupervisorInterrupt, MachineTimerInterrupt, Tick, Handler, BootMain, BootKernel, EmulateIllegal,
         AssertFails, EmulateMisaligned, SbiConsole, SbiFence, SbiStop, SetMtimecmp, SetMie, ClearSip,
         RaiseStip, ClearMie, ClearMip, Return, Exit, progVars, vars
<1> QED BY <1>1, <1>2, <1>3

\* Programs that do not use sp so, and map no page at address 0 for writing, see
\* to it themselves.
THEOREM SupportedImplementsHart ==
    ASSUME \A p \in Programs : Supported(p)
    PROVE  Spec => ImplementsHart
<1>1. Init => Hosted
  BY DEF Init, Hosted, Supported
<1>2. Inv => TypeOK
  BY DEF Inv
<1>3. Spec => []Hosted
  BY <1>1, <1>2, HostedNext, Invariant, PTL DEF Spec
<1>4. Inv /\ Hosted => FrameSuffices
  BY DEF Inv, Trapped, Hosted, FrameSuffices
<1> QED BY <1>3, <1>4, Invariant, FirmwareImplementsHart, PTL
=============================================================================
