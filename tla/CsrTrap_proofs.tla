--------------------------- MODULE CsrTrap_proofs ---------------------------
(* Proofs about interrupts and traps, for all software that keeps MPP legal  *)
(* and every delegation of exceptions: what an interrupt or a CSR            *)
(* instruction relies on still holds when it reaches write back, whatever    *)
(* stalls, faults, traps and returns happen on the way.                      *)
EXTENDS CsrTrap, TLAPS

USE ProgramAssumption

-----------------------------------------------------------------------------
\* What memory may answer, and what write back does to the registers.
Answers == {"busy", "done", "fault"}
Retire == InterruptTrap \/ ExceptionReturn \/ ExceptionTrap \/ Commit

\* A step of Next is a clock cycle with an instruction of the software, or
\* none, at the head of the fetch queue.
LEMMA CycleOfNext ==
    ASSUME TypeOK, Next
    PROVE  /\ UNCHANGED program /\ Retire
           /\ \E h \in Software, go \in BOOLEAN, m \in Answers : Clock(h, go, m)
<1>1. NoInstr \in Software
  BY DEF NoInstr, Software, Instr, Kinds, LegalMpp
<1>2. program[csr_mpriv_q] \subseteq Software
  BY DEF TypeOK
<1> QED BY <1>1, <1>2 DEF Next, Answers, Retire

\* The stage registers hold stages when empty.
LEMMA EmptyTypes ==
    /\ NoInstr \in Instr /\ Marked \in Instr /\ NoResult \in Result /\ Bubble \in Stage
    /\ Software \subseteq Instr
BY DEF NoInstr, Marked, NoResult, Bubble, Instr, Result, Stage, Kinds, Events, Software

\* What the CSR unit makes of an instruction is a result.
LEMMA ExecuteType ==
    ASSUME TypeOK, NEW h \in Instr
    PROVE  Execute(h) \in Result
<1> DEFINE old == CsrValue(h.num)
<1>1. old \in SUBSET (Status \cup Irq)
  BY DEF TypeOK, CsrValue
<1>2. h.bits \in SUBSET (Status \cup Irq) /\ h.op \in {"rw", "set", "clr"}
  BY DEF Instr
<1>3. /\ Execute(h).wr \in BOOLEAN 
  BY DEF Execute
<1>4. Execute(h).data \in SUBSET (Status \cup Irq)
  <2> HIDE DEF old
  <2> QED BY <1>1, <1>2 DEF Execute, old
<1>5. Execute(h).exc \in Events
  BY DEF Execute, Events, Causes
<1> QED BY <1>3, <1>4, <1>5 DEF Execute, Result

\* The status word keeps its width under the moves of a trap and a return.
LEMMA StatusMoves ==
    ASSUME NEW sr \in SUBSET Status
    PROVE  /\ \A p \in Priv : WithMpp(sr, p) \in SUBSET Status
           /\ \A set \in BOOLEAN : /\ Move(sr, "mie", "mpie", set) \in SUBSET Status
                                   /\ Move(sr, "mpie", "mie", set) \in SUBSET Status
                                   /\ Move(sr, "sie", "spie", set) \in SUBSET Status
                                   /\ Move(sr, "spie", "sie", set) \in SUBSET Status
BY DEF WithMpp, Move, Status, SStatus, MppBits

\* MPP holds a mode, and gives it back.
MppLegal == csr_sr_q \cap MppBits # {"mpp1"}

\* MRET returns to a mode.
LEMMA MppIsPriv ==
    ASSUME MppLegal
    PROVE  Mpp(csr_sr_q) \in Priv
BY DEF MppLegal, Mpp, Priv, MppBits

\* What write back does keeps the registers in their widths.
LEMMA RetireType ==
    ASSUME TypeOK, MppLegal, Retire
    PROVE  /\ csr_sr_q' \in SUBSET Status /\ csr_mie_q' \in SUBSET Irq
           /\ csr_mideleg_q' \in SUBSET Irq /\ csr_mpriv_q' \in Priv
           /\ branch_q' \in BOOLEAN
<1> DEFINE down == Move(csr_sr_q, "sie", "spie", FALSE)
<1>m. /\ Move(csr_sr_q, "mie", "mpie", FALSE) \in SUBSET Status
      /\ Move(csr_sr_q, "mpie", "mie", TRUE) \in SUBSET Status
      /\ Move(csr_sr_q, "spie", "sie", TRUE) \in SUBSET Status
      /\ down \in SUBSET Status
  BY StatusMoves DEF TypeOK
<1>p. csr_mpriv_q \in Priv /\ 0 \in Priv /\ 1 \in Priv /\ 3 \in Priv /\ "spp" \in Status
  BY DEF TypeOK, Priv, Status, SStatus
<1>w. /\ WithMpp(Move(csr_sr_q, "mie", "mpie", FALSE), csr_mpriv_q) \in SUBSET Status
      /\ WithMpp(Move(csr_sr_q, "mpie", "mie", TRUE), 0) \in SUBSET Status
  BY <1>m, <1>p, StatusMoves
<1>s. down \cup {"spp"} \in SUBSET Status /\ down \ {"spp"} \in SUBSET Status
  BY <1>m, <1>p
<1> HIDE DEF down
<1>k. csr_mie_q \in SUBSET Irq /\ csr_mideleg_q \in SUBSET Irq /\ irq_priv_q \in {1, 3}
  BY DEF TypeOK
<1>1. CASE InterruptTrap
  BY <1>1, <1>p, <1>w, <1>s, <1>k DEF InterruptTrap, down
<1>2. CASE ExceptionReturn
  BY <1>2, <1>p, <1>m, <1>w, <1>k, MppIsPriv DEF ExceptionReturn
<1>3. CASE ExceptionTrap
  BY <1>3, <1>p, <1>w, <1>s, <1>k DEF ExceptionTrap, down
<1>4. CASE Commit
  BY <1>4 DEF Commit, TypeOK, Status, SStatus, SIrq, Irq
<1> QED BY <1>1, <1>2, <1>3, <1>4 DEF Retire

\* The stages hold stages after every cycle.
LEMMA PipelineType ==
    ASSUME TypeOK, NEW h \in Software, NEW go \in BOOLEAN, NEW m \in Answers, Pipeline(h, go, m)
    PROVE  /\ e1' \in Instr /\ csr_e1' \in Result /\ e2' \in Stage /\ wb' \in Stage
           /\ squash_q' \in BOOLEAN /\ csr_pending_q' \in BOOLEAN
<1> USE EmptyTypes
<1>1. csr_e1' \in Result
  BY ExecuteType DEF Pipeline, TypeOK
<1>2. e1' \in Instr /\ squash_q' \in BOOLEAN /\ csr_pending_q' \in BOOLEAN
  BY DEF Pipeline, TypeOK
<1>3. e2' \in Stage
  BY DEF Pipeline, TypeOK, Stage, Result, Events
<1>4. wb' \in Stage
  <2>1. ExcE2(m) \in Events
    BY DEF ExcE2, TypeOK, Stage, Result, Events, Causes
  <2>2. CASE Stall(m)
    BY <2>2 DEF Pipeline, TypeOK
  <2>3. CASE ~Stall(m)
    BY <2>1, <2>3 DEF Pipeline, TypeOK, Stage, Result
  <2> QED BY <2>2, <2>3
<1> QED BY <1>1, <1>2, <1>3, <1>4

\* Every step keeps the types.
LEMMA TypePreserved ==
    ASSUME TypeOK, MppLegal, [Next]_vars
    PROVE  TypeOK'
<1>1. CASE UNCHANGED vars
  BY <1>1 DEF vars, regVars, mipVars, pipeVars, TypeOK
<1>2. CASE Next
  <2>1. PICK h \in Software, go \in BOOLEAN, m \in Answers : Clock(h, go, m)
    BY <1>2, CycleOfNext
  <2>2. Retire /\ program' = program
    BY <1>2, CycleOfNext
  <2>3. /\ take_interrupt_q' \in BOOLEAN /\ irq_priv_q' \in {1, 3}
        /\ csr_mtime_ie_q' \in BOOLEAN /\ timer' \in {"ahead", "now", "past"} /\ ext' \in BOOLEAN
    BY <2>1 DEF Clock, Launch, IrqPriv, Timer, Line, TypeOK
  <2>4. MipNext \in SUBSET Irq
    BY DEF MipNext, TypeOK, Irq, MIrq, SIrq
  <2>5. csr_mip_q' \in SUBSET Irq /\ csr_mip_next_q' \in SUBSET Irq /\ csr_mip_upd_q' \in BOOLEAN
    BY <2>1, <2>4 DEF Clock, Pending, TypeOK, Irq, SIrq
  <2>6. Pipeline(h, go, m)
    BY <2>1 DEF Clock
  <2> QED BY <2>2, <2>3, <2>5, <2>6, PipelineType, RetireType DEF TypeOK
<1> QED BY <1>1, <1>2

-----------------------------------------------------------------------------
(* The inductive invariant: where an instruction that goes to the CSR unit   *)
(* or an interrupt can be, and what holds while it is there.                 *)

\* csr_pending_q covers a CSR instruction from issue to write back, nothing is
\* issued behind it, and it never waits in E1, where its result would be lost.
OneAtATime ==
    /\ IsCsr(e1) => csr_pending_q /\ e2.instr.kind # "mem"
    /\ IsCsr(e2.instr) => csr_pending_q /\ e1 = NoInstr
    /\ IsCsr(wb.instr) => (csr_pending_q \/ squash_q) /\ e1 = NoInstr /\ e2 = Bubble

\* squash_q stands while an exception is in write back, behind which the stages
\* are empty.
Squashing ==
    /\ squash_q = (Exc # "none")
    /\ squash_q => e1 = NoInstr /\ e2 = Bubble

\* Only a CSR instruction has a result, and an interrupt is its own exception.
Results ==
    /\ ~IsCsr(e1) => csr_e1 = NoResult
    /\ ~IsCsr(e2.instr) => /\ ~e2.res.wr
                           /\ e2.res.exc = IF e2.instr.kind = "intr" THEN "intr" ELSE "none"
    /\ ~IsCsr(wb.instr) => ~wb.res.wr

\* An empty stage and an interrupt are no CSR instructions.
LEMMA EmptyIsNotCsr ==
    /\ ~IsCsr(NoInstr) /\ ~IsCsr(Bubble.instr) /\ ~IsCsr(Marked)
    /\ Bubble = [instr |-> NoInstr, res |-> NoResult]
    /\ NoInstr.kind = "none" /\ Marked.kind = "intr" /\ Bubble.instr = NoInstr
    /\ Bubble.res.exc = "none" /\ ~Bubble.res.wr /\ NoResult.exc = "none" /\ ~NoResult.wr
BY DEF IsCsr, NoInstr, Bubble, Marked, NoResult

\* A stall is a load or store in E2 that waits, with no exception anywhere.
LEMMA Stalled ==
    ASSUME OneAtATime, Squashing, Results, NEW h \in Software, NEW go \in BOOLEAN, NEW m \in Answers,
           Pipeline(h, go, m), Stall(m)
    PROVE  /\ UNCHANGED <<e1, e2, wb, squash_q, csr_pending_q>> /\ csr_e1' = NoResult
           /\ e2 # Bubble /\ ~IsCsr(e1) /\ ~squash_q /\ ~Issued(h, go, m)
<1>1. e2.instr.kind = "mem" /\ e2 # Bubble /\ m = "busy"
  BY EmptyIsNotCsr DEF Stall, InMem
<1>2. ~squash_q /\ ~IsCsr(e1)
  BY <1>1 DEF Squashing, OneAtATime
<1>3. ExcE2(m) = "none"
  BY <1>1 DEF ExcE2, Results, IsCsr
<1>4. ~Issued(h, go, m) /\ ~Squash(m)
  BY <1>2, <1>3 DEF Issued, Squash
<1> QED BY <1>1, <1>2, <1>4 DEF Pipeline, ToCsrUnit

\* What a cycle without a stall puts into the stages.
LEMMA Moved ==
    ASSUME NEW h \in Software, NEW go \in BOOLEAN, NEW m \in Answers, Pipeline(h, go, m), ~Stall(m)
    PROVE  /\ \/ ~Issued(h, go, m) /\ e1' = NoInstr /\ csr_e1' = NoResult
              \/ Issued(h, go, m) /\ take_interrupt_q /\ e1' = Marked /\ csr_e1' = NoResult
              \/ ToCsrUnit(h, go, m) /\ e1' = h /\ csr_e1' = Execute(h)
           /\ \/ Squash(m) /\ e2' = Bubble
              \/ ~Squash(m) /\ e1.kind # "intr" /\ e2' = [instr |-> e1, res |-> csr_e1]
              \/ ~Squash(m) /\ e1.kind = "intr" /\ e2' = [instr |-> e1, res |-> [csr_e1 EXCEPT !.exc = "intr"]]
           /\ wb' = [e2 EXCEPT !.res.exc = ExcE2(m)]
           /\ squash_q' = (ExcE2(m) # "none")
BY DEF Pipeline, ToCsrUnit

\* A CSR instruction moves alone, from E1 to write back in three cycles.
LEMMA OneAtATimePreserved ==
    ASSUME TypeOK, OneAtATime, Squashing, Results,
           NEW h \in Software, NEW go \in BOOLEAN, NEW m \in Answers, Pipeline(h, go, m)
    PROVE  OneAtATime'
<1>1. CASE Stall(m)
  BY <1>1, Stalled DEF OneAtATime
<1>2. CASE ~Stall(m)
  <2> USE Moved, EmptyIsNotCsr, <1>2
  <2>issued. Issued(h, go, m) => ~csr_pending_q /\ ~Squash(m) /\ MayFollow(h)
    BY DEF Issued
  <2>1. ASSUME IsCsr(e1') PROVE csr_pending_q' /\ e2'.instr.kind # "mem"
    <3>1. ToCsrUnit(h, go, m) /\ e1' = h
      BY <2>1
    <3>2. Issued(h, go, m)
      BY <3>1 DEF ToCsrUnit
    <3>3. e2'.instr = e1 /\ e1.kind # "mem"
      BY <2>1, <2>issued, <3>1, <3>2 DEF MayFollow
    <3>4. csr_pending_q'
      BY <2>1, <2>issued, <3>1, <3>2 DEF Pipeline
    <3> QED BY <3>3, <3>4
  <2>2. ASSUME IsCsr(e2'.instr) PROVE csr_pending_q' /\ e1' = NoInstr
    <3>1. ~Squash(m) /\ IsCsr(e1)
      BY <2>2
    <3>2. csr_pending_q /\ ~IsCsr(wb.instr)
      BY <3>1 DEF OneAtATime
    <3>3. ~Issued(h, go, m)
      BY <3>2, <2>issued
    <3> QED BY <3>1, <3>2, <3>3 DEF Pipeline, ToCsrUnit
  <2>3. ASSUME IsCsr(wb'.instr) PROVE (csr_pending_q' \/ squash_q') /\ e1' = NoInstr /\ e2' = Bubble
    <3>1. IsCsr(e2.instr) /\ e2 # Bubble
      <4>1. wb'.instr = e2.instr
        BY DEF TypeOK, Stage
      <4> QED BY <2>3, <4>1
    <3>2. csr_pending_q /\ e1 = NoInstr /\ ~IsCsr(wb.instr) /\ ~squash_q
      BY <3>1 DEF OneAtATime, Squashing
    <3>3. ~Issued(h, go, m) /\ e1' = NoInstr /\ csr_e1 = NoResult
      BY <3>2, <2>issued DEF ToCsrUnit, Results
    <3>4. e2' = Bubble
      BY <3>2, <3>3
    <3>5. csr_pending_q' \/ squash_q'
      BY <3>2, <3>3 DEF Pipeline, ToCsrUnit, Squash
    <3> QED BY <3>3, <3>4, <3>5
  <2> QED BY <2>1, <2>2, <2>3 DEF OneAtATime
<1> QED BY <1>1, <1>2

\* Two cycles of squashing leave nothing behind an exception.
LEMMA SquashingPreserved ==
    ASSUME TypeOK, OneAtATime, Squashing, Results,
           NEW h \in Software, NEW go \in BOOLEAN, NEW m \in Answers, Pipeline(h, go, m)
    PROVE  Squashing'
<1>1. CASE Stall(m)
  BY <1>1, Stalled DEF Squashing, Exc
<1>2. CASE ~Stall(m)
  <2>1. wb'.res.exc = ExcE2(m)
    BY <1>2, Moved DEF TypeOK, Stage, Result
  <2>2. ASSUME squash_q' PROVE e1' = NoInstr /\ e2' = Bubble
    <3>1. Squash(m) /\ ~Issued(h, go, m)
      BY <1>2, <2>2, Moved DEF Squash, Issued
    <3> QED BY <1>2, <3>1, Moved DEF ToCsrUnit
  <2> QED BY <1>2, <2>1, <2>2, Moved DEF Squashing, Exc
<1> QED BY <1>1, <1>2

\* An ordinary instruction leaves the CSR unit's result empty.
LEMMA ExecuteOrdinary ==
    ASSUME NEW h \in Software, ~IsCsr(h)
    PROVE  Execute(h) = NoResult
BY DEF Execute, IsCsr, NoResult

\* A stage gets a result only from the CSR unit, in the cycle it leaves E1.
LEMMA ResultsPreserved ==
    ASSUME TypeOK, OneAtATime, Squashing, Results,
           NEW h \in Software, NEW go \in BOOLEAN, NEW m \in Answers, Pipeline(h, go, m)
    PROVE  Results'
<1>1. CASE Stall(m)
  BY <1>1, Stalled DEF Results
<1>2. CASE ~Stall(m)
  <2> USE Moved, EmptyIsNotCsr, <1>2
  <2>1. ~IsCsr(e1') => csr_e1' = NoResult
    BY ExecuteOrdinary
  <2>2. ASSUME ~IsCsr(e2'.instr)
        PROVE  /\ ~e2'.res.wr
               /\ e2'.res.exc = IF e2'.instr.kind = "intr" THEN "intr" ELSE "none"
    <3>1. CASE e2' = Bubble
      BY <3>1
    <3>2. CASE e2' # Bubble
      <4>1. e2'.instr = e1 /\ csr_e1 = NoResult
        BY <2>2, <3>2 DEF Results
      <4>2. csr_e1 \in Result
        BY DEF TypeOK
      <4> QED BY <2>2, <3>2, <4>1, <4>2 DEF Result
    <3> QED BY <3>1, <3>2
  <2>3. ~IsCsr(wb'.instr) => ~wb'.res.wr
    <3>1. wb'.instr = e2.instr /\ wb'.res.wr = e2.res.wr
      BY DEF TypeOK, Stage, Result
    <3> QED BY <3>1 DEF Results
  <2> QED BY <2>1, <2>2, <2>3 DEF Results
<1> QED BY <1>1, <1>2

\* The external bits come and go with the line; every other bit of mip that is
\* one, and that the instruction does not ask to clear, is in what it writes or
\* has arrived since it read, at a timer match that cannot come again.
Accounted(i, r, b) ==
    \/ b \in r.data
    \/ b \in csr_mip_next_q /\ timer = "past"
    \/ i.op = "clr" /\ b \in i.bits
    \/ i.op = "rw" /\ b \notin i.bits

\* What instruction i with the CSR unit's result r relies on until it writes.
Carried(i, r) ==
    /\ IsCsr(i) => r.exc # "intr" /\ (r.wr \/ r.exc # "none" \/ i.kind = "wfi")
    /\ r.wr => /\ csr_mpriv_q >= CsrLevel(i.num)
               /\ i.num = "mstatus" => r.data \cap MppBits # {"mpp1"}
               /\ i.num \in {"mip", "sip"} =>
                     /\ csr_mip_upd_q
                     /\ \A b \in csr_mip_q \ {"meip", "seip"} :
                           (i.num = "sip" => b \in SIrq) => Accounted(i, r, b)

InStages == Carried(e1, csr_e1) /\ Carried(e2.instr, e2.res) /\ Carried(wb.instr, wb.res)

\* An interrupt that may be launched, or is in the stages, is for a level that
\* has interrupts enabled.
LevelEnabled == IF irq_priv_q = 3 THEN MEnabled ELSE SEnabled
UnderWay ==
    \/ take_interrupt_q /\ ~branch_q
    \/ e1.kind = "intr" \/ e2.instr.kind = "intr" \/ Exc = "intr"
Launched == UnderWay => LevelEnabled

\* What is kept for an instruction that writes mip has been seen in mip.
Buffered == csr_mip_next_q \subseteq csr_mip_q

Inductive ==
    /\ TypeOK /\ MppLegal
    /\ OneAtATime /\ Squashing /\ Results
    /\ InStages /\ Launched /\ Buffered /\ Flushed

\* While write back holds neither a CSR instruction nor an exception, the
\* registers stand still: so when something is behind it, and when something
\* is issued.
LEMMA Quiet ==
    ASSUME OneAtATime, Squashing, Results, Retire,
           \/ e1 # NoInstr \/ e2 # Bubble
           \/ ~squash_q /\ ~csr_pending_q
    PROVE  /\ ~squash_q /\ Exc = "none" /\ ~branch_q'
           /\ \A c : ~Writes(c)
           /\ ~wb.res.wr
           /\ UNCHANGED <<csr_sr_q, csr_mie_q, csr_mideleg_q, csr_mpriv_q>>
<1>1. ~squash_q /\ Exc = "none"
  BY DEF Squashing
<1>2. ~wb.res.wr
  BY <1>1 DEF OneAtATime, Results
<1>3. \A c : ~Writes(c)
  BY <1>2 DEF Writes
<1>4. Commit
  BY <1>1 DEF Retire, InterruptTrap, ExceptionReturn, ExceptionTrap, Causes
<1> QED BY <1>1, <1>2, <1>3, <1>4 DEF Commit

\* What is kept is what arrives, which mip gets too.
LEMMA BufferedPreserved ==
    ASSUME NEW h \in Software, NEW go \in BOOLEAN, NEW m \in Answers, Pending(h, go, m)
    PROVE  Buffered'
BY DEF Pending, Buffered

\* The exception that asks for the branch has emptied the stages behind it.
LEMMA FlushedPreserved ==
    ASSUME TypeOK, OneAtATime, Squashing, Results, Retire,
           NEW h \in Software, NEW go \in BOOLEAN, NEW m \in Answers, Pipeline(h, go, m)
    PROVE  Flushed'
<1> SUFFICES ASSUME branch_q' PROVE e1' = NoInstr /\ e2' = Bubble /\ wb' = Bubble
  BY DEF Flushed
<1>1. Exc # "none"
  BY DEF Retire, InterruptTrap, ExceptionReturn, ExceptionTrap, Commit, Causes
<1>2. squash_q /\ e1 = NoInstr /\ e2 = Bubble
  BY <1>1 DEF Squashing
<1>3. ~InMem
  BY <1>2, EmptyIsNotCsr DEF InMem
<1>4. ~Stall(m) /\ Squash(m) /\ ~Issued(h, go, m) /\ ExcE2(m) = "none"
  BY <1>2, <1>3, EmptyIsNotCsr DEF Stall, Squash, Issued, ExcE2
<1>5. e1' = NoInstr /\ e2' = Bubble /\ wb' = [Bubble EXCEPT !.res.exc = "none"]
  BY <1>2, <1>4, Moved DEF ToCsrUnit
<1>6. [Bubble EXCEPT !.res.exc = "none"] = Bubble
  <2>1. [NoResult EXCEPT !.exc = "none"] = NoResult
    BY DEF NoResult
  <2>2. [Bubble EXCEPT !.res = NoResult] = Bubble
    BY DEF Bubble
  <2> QED BY <2>1, <2>2, EmptyIsNotCsr
<1> QED BY <1>5, <1>6

\* An interrupt in the stages finds its level enabled: the mode and the enable
\* bits do not change under it, and a launch records the level that is enabled.
LEMMA LaunchedPreserved ==
    ASSUME TypeOK, OneAtATime, Squashing, Results, InStages, Launched, Retire,
           NEW h \in Software, NEW go \in BOOLEAN, NEW m \in Answers,
           Pipeline(h, go, m), Launch(h)
    PROVE  Launched'
<1>1. ASSUME UNCHANGED <<csr_sr_q, csr_mpriv_q>>, LevelEnabled \/ Interrupts # {}
      PROVE  LevelEnabled'
  <2>1. MEnabled' = MEnabled /\ SEnabled' = SEnabled
    BY <1>1 DEF MEnabled, SEnabled
  <2>2. CASE Interrupts = {}
    BY <1>1, <2>1, <2>2 DEF Launch, LevelEnabled
  <2>3. CASE Interrupts # {}
    BY <2>1, <2>3 DEF Launch, LevelEnabled, Interrupts, IrqPriv, MPending, SPending
  <2> QED BY <2>2, <2>3
<1>2. CASE take_interrupt_q' /\ ~branch_q'
  <2>1. Interrupts # {} /\ ~csr_pending_q
    BY <1>2 DEF Launch, Inhibit
  <2>2. ~squash_q
    BY <1>2 DEF Retire, InterruptTrap, ExceptionReturn, ExceptionTrap, Commit, Squashing, Exc
  <2> QED BY <1>1, <2>1, <2>2, Quiet DEF Launched
<1>3. CASE Stall(m) /\ (e1'.kind = "intr" \/ e2'.instr.kind = "intr" \/ wb'.res.exc = "intr")
  <2>1. UNCHANGED <<e1, e2, wb>> /\ e2 # Bubble
    BY <1>3, Stalled
  <2>2. UnderWay
    BY <1>3, <2>1 DEF UnderWay, Exc
  <2> QED BY <1>1, <2>1, <2>2, Quiet DEF Launched
<1>4. CASE ~Stall(m) /\ e1'.kind = "intr"
  <2>1. Issued(h, go, m) /\ take_interrupt_q
    BY <1>4, Moved, EmptyIsNotCsr DEF Software, ToCsrUnit
  <2>2. ~branch_q /\ ~squash_q /\ ~csr_pending_q
    BY <2>1 DEF Issued, Squash
  <2> QED BY <1>1, <2>1, <2>2, Quiet DEF Launched, UnderWay
<1>5. CASE ~Stall(m) /\ e2'.instr.kind = "intr"
  <2>1. e1.kind = "intr" /\ e1 # NoInstr
    BY <1>5, Moved, EmptyIsNotCsr
  <2> QED BY <1>1, <2>1, Quiet DEF Launched, UnderWay
<1>6. CASE ~Stall(m) /\ wb'.res.exc = "intr"
  <2>1. ExcE2(m) = "intr"
    BY <1>6, Moved DEF TypeOK, Stage, Result
  <2>2. e2.res.exc = "intr" /\ e2 # Bubble
    BY <2>1, EmptyIsNotCsr DEF ExcE2
  <2>3. e2.instr.kind = "intr"
    BY <2>2 DEF Results, InStages, Carried
  <2> QED BY <1>1, <2>2, <2>3, Quiet DEF Launched, UnderWay
<1> QED BY <1>2, <1>3, <1>4, <1>5, <1>6 DEF Launched, UnderWay, Exc

\* What the CSR unit makes of an instruction it is given now.
LEMMA ExecuteCarried ==
    ASSUME TypeOK, MppLegal, NEW h \in Software
    PROVE  LET r == Execute(h) IN
           /\ IsCsr(h) => r.exc # "intr" /\ (r.wr \/ r.exc # "none" \/ h.kind = "wfi")
           /\ r.wr => /\ csr_mpriv_q >= CsrLevel(h.num)
                      /\ h.num = "mstatus" => r.data \cap MppBits # {"mpp1"}
                      /\ h.num = "mip" => r.data = IF h.op = "rw" THEN h.bits
                                                   ELSE IF h.op = "set" THEN csr_mip_q \cup h.bits
                                                   ELSE csr_mip_q \ h.bits
                      /\ h.num = "sip" => r.data = IF h.op = "rw" THEN h.bits
                                                   ELSE IF h.op = "set" THEN (csr_mip_q \cap SIrq) \cup h.bits
                                                   ELSE (csr_mip_q \cap SIrq) \ h.bits
<1> DEFINE r == Execute(h)
<1>h. h.op \in {"rw", "set", "clr"} /\ LegalMpp(h) /\ h.kind \in Kinds /\ h.lvl \in {1, 3}
  BY DEF Software, Instr
<1>p. csr_mpriv_q \in {0, 1, 3}
  BY DEF TypeOK, Priv
<1>w. r.wr = (h.kind = "csr" /\ ~(csr_mpriv_q < CsrLevel(h.num)))
  BY DEF Execute
<1>1. IsCsr(h) => r.exc # "intr" /\ (r.wr \/ r.exc # "none" \/ h.kind = "wfi")
  <2>1. r.exc # "intr"
    BY DEF Execute
  <2>2. CASE h.kind = "csr"
    BY <1>w, <2>2 DEF Execute
  <2>3. CASE h.kind = "xret"
    BY <1>h, <1>p, <2>3 DEF Execute
  <2>4. CASE h.kind \in {"ecall", "fence", "invalid"}
    BY <1>p, <2>4 DEF Execute
  <2> QED BY <2>1, <2>2, <2>3, <2>4 DEF IsCsr
<1>2. ASSUME r.wr PROVE h.kind = "csr" /\ csr_mpriv_q >= CsrLevel(h.num)
  <2>1. CsrLevel(h.num) \in {1, 3}
    BY DEF CsrLevel
  <2>2. h.kind = "csr" /\ ~(csr_mpriv_q < CsrLevel(h.num))
    BY <1>2, <1>w, Zenon
  <2> QED BY <2>1, <2>2, <1>p
<1>3. ASSUME r.wr PROVE r.data = IF h.op = "rw" THEN h.bits
                                 ELSE IF h.op = "set" THEN CsrValue(h.num) \cup h.bits
                                 ELSE CsrValue(h.num) \ h.bits
  BY <1>3, <1>h DEF Execute
<1>4. ASSUME r.wr, h.num = "mstatus" PROVE r.data \cap MppBits # {"mpp1"}
  <2>1. CsrValue(h.num) = csr_sr_q
    BY <1>4 DEF CsrValue
  <2>2. h.bits \cap MppBits # IF h.op = "clr" THEN {"mpp0"} ELSE {"mpp1"}
    BY <1>2, <1>4, <1>h DEF LegalMpp
  <2> HIDE DEF r
  <2> QED BY <1>3, <1>4, <1>h, <2>1, <2>2 DEF MppLegal, MppBits
<1>5. h.num = "mip" => CsrValue(h.num) = csr_mip_q
  BY DEF CsrValue
<1>6. h.num = "sip" => CsrValue(h.num) = csr_mip_q \cap SIrq
  BY DEF CsrValue
<1> HIDE DEF r
<1> QED BY <1>1, <1>2, <1>3, <1>4, <1>5, <1>6 DEF r

\* Arrivals are kept while an instruction that has read mip is on its way.
LEMMA Arrivals ==
    ASSUME TypeOK, Buffered, NEW h \in Software, NEW go \in BOOLEAN, NEW m \in Answers,
           Pending(h, go, m), Timer, \A c : ~Writes(c),
           NEW b \in csr_mip_q' \ {"meip", "seip"}
    PROVE  /\ b \in csr_mip_q \/ (b \in MipNext /\ timer' = "past")
           /\ b \in csr_mip_next_q /\ timer = "past" => b \in MipNext /\ timer' = "past"
<1>1. csr_mip_q' = (csr_mip_q \ {"meip", "seip"}) \cup MipNext
  BY DEF Pending
<1>2. timer = "past" => timer' = "past"
  BY DEF Timer
<1>3. b \in MipNext => b \in csr_mip_next_q \/ timer' = "past"
  BY DEF MipNext, Timer
<1>4. timer = "past" => csr_mip_next_q \subseteq MipNext
  BY DEF MipNext
<1> QED BY <1>1, <1>2, <1>3, <1>4 DEF Buffered

\* An instruction that has not reached write back keeps what it relies on.
LEMMA CarriedOn ==
    ASSUME TypeOK, Buffered, NEW h \in Software, NEW go \in BOOLEAN, NEW m \in Answers,
           Pending(h, go, m), Timer, \A c : ~Writes(c), ~wb.res.wr, Exc = "none",
           UNCHANGED csr_mpriv_q,
           NEW i \in Instr, NEW r \in Result, Carried(i, r)
    PROVE  Carried(i, r)'
<1>1. ASSUME r.wr, i.num \in {"mip", "sip"} PROVE csr_mip_upd_q' /\ csr_mip_next_q' = MipNext
  BY <1>1 DEF Carried, Pending, BufferMip
<1>2. ASSUME r.wr, i.num \in {"mip", "sip"},
             NEW b \in csr_mip_q' \ {"meip", "seip"}, i.num = "sip" => b \in SIrq
      PROVE  Accounted(i, r, b)'
  <2>1. CASE b \in csr_mip_q
    <3>1. Accounted(i, r, b)
      BY <1>2, <2>1 DEF Carried
    <3> QED BY <1>1, <1>2, <3>1, Arrivals DEF Accounted
  <2>2. CASE b \in MipNext /\ timer' = "past"
    BY <1>1, <1>2, <2>2 DEF Accounted
  <2> QED BY <2>1, <2>2, Arrivals
<1> QED BY <1>1, <1>2 DEF Carried

\* The CSR unit has just made a result of the instruction issued.
LEMMA CarriedFromIssue ==
    ASSUME TypeOK, MppLegal, Buffered, OneAtATime, Squashing, Results, Retire,
           NEW h \in Software, NEW go \in BOOLEAN, NEW m \in Answers,
           Pending(h, go, m), Timer, ToCsrUnit(h, go, m),
           NEW r, r = Execute(h)
    PROVE  Carried(h, r)'
<1>1. ~squash_q /\ ~csr_pending_q
  BY DEF ToCsrUnit, Issued, Squash
<1>2. (\A c : ~Writes(c)) /\ csr_mpriv_q' = csr_mpriv_q
  BY <1>1, Quiet
<1>3. ASSUME r.wr, h.num \in {"mip", "sip"}
      PROVE  csr_mip_upd_q' /\ csr_mip_next_q' = MipNext
  BY <1>3 DEF Pending, BufferMip, ReadsMip
<1>4. ASSUME r.wr, h.num \in {"mip", "sip"},
             NEW b \in csr_mip_q' \ {"meip", "seip"}, h.num = "sip" => b \in SIrq
      PROVE  \/ b \in r.data
             \/ b \in csr_mip_next_q' /\ timer' = "past"
             \/ h.op = "clr" /\ b \in h.bits
             \/ h.op = "rw" /\ b \notin h.bits
  <2>1. b \in csr_mip_q \/ (b \in csr_mip_next_q' /\ timer' = "past")
    BY <1>2, <1>3, <1>4, Arrivals
  <2>2. h.op \in {"rw", "set", "clr"}
    BY DEF Software, Instr
  <2>3. CASE h.num = "mip"
    <3>1. r.data = IF h.op = "rw" THEN h.bits
                   ELSE IF h.op = "set" THEN csr_mip_q \cup h.bits ELSE csr_mip_q \ h.bits
      BY <1>4, <2>3, ExecuteCarried
    <3> QED BY <2>1, <2>2, <3>1
  <2>4. CASE h.num = "sip"
    <3>1. r.data = IF h.op = "rw" THEN h.bits
                   ELSE IF h.op = "set" THEN (csr_mip_q \cap SIrq) \cup h.bits
                   ELSE (csr_mip_q \cap SIrq) \ h.bits
      BY <1>4, <2>4, ExecuteCarried
    <3> QED BY <1>4, <2>1, <2>2, <2>4, <3>1
  <2> QED BY <1>4, <2>3, <2>4
<1>5. /\ IsCsr(h) => r.exc # "intr" /\ (r.wr \/ r.exc # "none" \/ h.kind = "wfi")
      /\ r.wr => /\ csr_mpriv_q >= CsrLevel(h.num)
                 /\ h.num = "mstatus" => r.data \cap MppBits # {"mpp1"}
  BY ExecuteCarried
<1> QED BY <1>2, <1>3, <1>4, <1>5 DEF Carried, Accounted

\* An empty stage relies on nothing.
LEMMA NothingCarried ==
    ASSUME NEW i \in Instr, NEW r, ~IsCsr(i), ~r.wr
    PROVE  Carried(i, r)'
BY DEF Carried

\* Each stage hands on what its instruction relies on.
LEMMA InStagesPreserved ==
    ASSUME Inductive, Retire,
           NEW h \in Software, NEW go \in BOOLEAN, NEW m \in Answers,
           Pipeline(h, go, m), Pending(h, go, m), Timer
    PROVE  InStages'
<1> USE DEF Inductive
<1>t. e1 \in Instr /\ csr_e1 \in Result /\ e2 \in Stage /\ wb \in Stage
  BY DEF TypeOK
<1>s. /\ e2.instr \in Instr /\ e2.res \in Result /\ wb.instr \in Instr /\ wb.res \in Result
      /\ NoInstr \in Instr /\ Marked \in Instr /\ h \in Instr
  BY <1>t, EmptyTypes DEF Stage
<1>on. ASSUME e1 # NoInstr \/ e2 # Bubble, NEW i \in Instr, NEW r \in Result, Carried(i, r)
       PROVE  Carried(i, r)'
  <2>1. Exc = "none" /\ ~wb.res.wr /\ (\A c : ~Writes(c)) /\ UNCHANGED csr_mpriv_q
    BY <1>on, Quiet
  <2> QED BY <1>on, <2>1, CarriedOn
<1>1. CASE Stall(m)
  <2>1. UNCHANGED <<e1, e2, wb>> /\ csr_e1' = NoResult /\ e2 # Bubble /\ ~IsCsr(e1)
    BY <1>1, Stalled
  <2>2. Carried(e1, csr_e1)'
    BY <1>s, <1>t, <2>1, NothingCarried, EmptyIsNotCsr
  <2>3. Carried(e2.instr, e2.res)' /\ Carried(wb.instr, wb.res)'
    BY <1>s, <2>1, <1>on DEF InStages
  <2> QED BY <2>2, <2>3 DEF InStages
<1>2. CASE ~Stall(m)
  <2>1. Carried(e1, csr_e1)'
    <3>1. CASE ToCsrUnit(h, go, m) /\ e1' = h /\ csr_e1' = Execute(h)
      BY <3>1, CarriedFromIssue
    <3>2. CASE e1' \in {NoInstr, Marked} /\ csr_e1' = NoResult
      BY <1>s, <3>2, NothingCarried, EmptyIsNotCsr
    <3> QED BY <1>2, <3>1, <3>2, Moved
  <2>2. Carried(e2.instr, e2.res)'
    <3>1. CASE e2'.instr = e1 /\ e2'.res = csr_e1 /\ e1 # NoInstr
      BY <1>t, <3>1, <1>on DEF InStages
    <3>2. CASE e2' = Bubble
      BY <1>s, <3>2, NothingCarried, EmptyIsNotCsr
    <3>3. CASE e1.kind = "intr" /\ e2'.instr = e1 /\ e2'.res = [csr_e1 EXCEPT !.exc = "intr"]
      <4>1. ~IsCsr(e1) /\ csr_e1 = NoResult
        BY <3>3 DEF IsCsr, Results
      <4>2. ~e2'.res.wr
        BY <3>3, <4>1 DEF NoResult
      <4> QED BY <1>t, <3>3, <4>1, <4>2, NothingCarried
    <3>4. e1 = NoInstr => csr_e1 = NoResult
      BY EmptyIsNotCsr DEF Results
    <3> QED BY <1>2, <3>1, <3>2, <3>3, <3>4, Moved, EmptyIsNotCsr
  <2>3. Carried(wb.instr, wb.res)'
    <3>1. wb'.instr = e2.instr /\ wb'.res = [e2.res EXCEPT !.exc = ExcE2(m)]
      BY <1>2, <1>t, Moved DEF Stage
    <3>2. CASE IsCsr(e2.instr)
      <4>1. e2 # Bubble /\ ExcE2(m) = e2.res.exc
        BY <3>2, EmptyIsNotCsr DEF ExcE2, InMem, IsCsr
      <4>2. wb'.res = e2.res
        BY <1>s, <3>1, <4>1 DEF Result
      <4> QED BY <1>s, <3>1, <4>1, <4>2, <1>on DEF InStages
    <3>3. CASE ~IsCsr(e2.instr)
      <4>1. ~wb'.res.wr
        BY <1>s, <3>1, <3>3 DEF Results, Result
      <4> QED BY <1>s, <3>1, <3>3, <4>1, NothingCarried
    <3> QED BY <3>2, <3>3
  <2> QED BY <2>1, <2>2, <2>3 DEF InStages
<1> QED BY <1>1, <1>2

\* A trap saves a mode in MPP, and software writes one.
LEMMA MppPreserved ==
    ASSUME TypeOK, MppLegal, InStages, Retire
    PROVE  MppLegal'
<1>1. \A sr, p : p \in Priv => WithMpp(sr, p) \cap MppBits # {"mpp1"}
  BY DEF WithMpp, MppBits, Priv
<1>2. csr_mpriv_q \in Priv /\ 0 \in Priv
  BY DEF TypeOK, Priv
<1>3. /\ Move(csr_sr_q, "sie", "spie", FALSE) \cap MppBits = csr_sr_q \cap MppBits
      /\ Move(csr_sr_q, "spie", "sie", TRUE) \cap MppBits = csr_sr_q \cap MppBits
  BY DEF Move, MppBits
<1>4. "spp" \notin MppBits /\ SStatus \cap MppBits = {} /\ MppBits \subseteq Status
  BY DEF SStatus, MppBits, Status
<1>5. CASE InterruptTrap
  BY <1>1, <1>2, <1>3, <1>4, <1>5 DEF InterruptTrap, MppLegal
<1>6. CASE ExceptionReturn
  BY <1>1, <1>2, <1>3, <1>4, <1>6 DEF ExceptionReturn, MppLegal
<1>7. CASE ExceptionTrap
  BY <1>1, <1>2, <1>3, <1>4, <1>7 DEF ExceptionTrap, MppLegal
<1>8. CASE Commit
  <2>1. Writes("mstatus") => wb.res.data \cap MppBits # {"mpp1"}
    BY DEF Writes, InStages, Carried
  <2> QED BY <1>4, <1>8, <2>1 DEF Commit, MppLegal
<1> QED BY <1>5, <1>6, <1>7, <1>8 DEF Retire

\* The invariant holds after reset and every cycle keeps it.
LEMMA InductiveAlways == Spec => []Inductive
<1>1. Init => Inductive
  <2> SUFFICES ASSUME Init PROVE Inductive
    OBVIOUS
  <2>1. TypeOK
    BY EmptyTypes DEF Init, TypeOK, Priv
  <2>2. OneAtATime /\ Squashing /\ Results /\ MppLegal /\ Buffered /\ Flushed
    BY EmptyIsNotCsr DEF Init, OneAtATime, Squashing, Results, MppLegal, Buffered, Flushed, Exc
  <2>3. InStages /\ Launched
    BY EmptyIsNotCsr DEF Init, InStages, Carried, Launched, UnderWay, Exc
  <2> QED BY <2>1, <2>2, <2>3 DEF Inductive
<1>2. Inductive /\ [Next]_vars => Inductive'
  <2> SUFFICES ASSUME Inductive, [Next]_vars PROVE Inductive'
    OBVIOUS
  <2>1. CASE UNCHANGED vars
    BY <2>1 DEF vars, regVars, mipVars, pipeVars, Inductive, TypeOK, MppLegal, OneAtATime, Squashing,
                Results, InStages, Carried, Accounted, Launched, UnderWay, LevelEnabled, MEnabled,
                SEnabled, Buffered, Flushed, Exc
  <2>2. CASE Next
    <3>1. PICK h \in Software, go \in BOOLEAN, m \in Answers : Clock(h, go, m)
      BY <2>2, CycleOfNext DEF Inductive
    <3>2. Retire /\ Pipeline(h, go, m) /\ Launch(h) /\ Pending(h, go, m) /\ Timer
      BY <2>2, <3>1, CycleOfNext DEF Clock, Inductive
    <3>3. TypeOK' /\ MppLegal'
      BY TypePreserved, MppPreserved, <3>2 DEF Inductive
    <3>4. OneAtATime' /\ Squashing' /\ Results'
      BY <3>2, OneAtATimePreserved, SquashingPreserved, ResultsPreserved DEF Inductive
    <3>5. InStages' /\ Launched'
      BY <3>2, InStagesPreserved, LaunchedPreserved DEF Inductive
    <3>6. Buffered' /\ Flushed'
      BY <3>2, BufferedPreserved, FlushedPreserved DEF Inductive
    <3> QED BY <3>3, <3>4, <3>5, <3>6 DEF Inductive
  <2> QED BY <2>1, <2>2
<1> QED BY <1>1, <1>2, PTL DEF Spec

-----------------------------------------------------------------------------
\* The registers of biriscv_csr_regfile.v and the stages hold values of their
\* widths, and the core is never in a mode but the three, whatever software
\* does that keeps MPP legal.
THEOREM TypeCorrect == Spec => []TypeOK
<1>1. Inductive => TypeOK
  BY DEF Inductive
<1> QED BY <1>1, InductiveAlways, PTL

\* The branch of a trap, a return or a fence finds the stages empty
\* (squash_e1_e2_q and branch_csr_request_o of the pipe control).
THEOREM StagesFlushed == Spec => []Flushed
<1>1. Inductive => Flushed
  BY DEF Inductive
<1> QED BY <1>1, InductiveAlways, PTL

\* An interrupt that reaches write back still has its level enabled, although
\* it was launched from the registers of some cycles before.
THEOREM InterruptsAllowed == Spec => []TrapAllowed
<1>1. Inductive => TrapAllowed
  BY DEF Inductive, Launched, UnderWay, LevelEnabled, TrapAllowed
<1> QED BY <1>1, InductiveAlways, PTL

\* The check of the privilege at issue still stands at the write.
THEOREM PrivilegeAtWrite == Spec => []PrivilegeKept
<1>1. Inductive => PrivilegeKept
  BY DEF Inductive, InStages, Carried, PrivilegeKept
<1> QED BY <1>1, InductiveAlways, PTL

\* No CSR instruction reaches write back without the CSR unit's result.
THEOREM CsrResultArrives == Spec => []CsrCommits
<1>1. Inductive => CsrCommits
  BY DEF Inductive, InStages, Carried, CsrCommits, Exc
<1> QED BY <1>1, InductiveAlways, PTL

\* No interrupt that arrives while an instruction reads and writes mip is lost.
THEOREM ArrivalsKept == Spec => PendingKept
<1>1. ASSUME Inductive, [Next]_vars, NEW b \in Irq \ {"meip", "seip"}, b \in csr_mip_q, ~Clears(b)
      PROVE  b \in csr_mip_q'
  <2>1. CASE UNCHANGED vars
    BY <1>1, <2>1 DEF vars, mipVars
  <2>2. CASE Next
    <3>1. PICK h \in Software, go \in BOOLEAN, m \in Answers : Clock(h, go, m)
      BY <1>1, <2>2, CycleOfNext DEF Inductive
    <3>2. Pending(h, go, m)
      BY <3>1 DEF Clock
    <3>3. b \in csr_mip_next_q /\ timer = "past" => b \in MipNext
      BY DEF MipNext
    <3>4. CASE Writes("mip")
      <4>1. Accounted(wb.instr, wb.res, b)
        BY <1>1, <3>4 DEF Inductive, InStages, Carried, Writes
      <4> QED BY <1>1, <3>2, <3>3, <3>4, <4>1 DEF Accounted, Clears, Pending
    <3>5. CASE Writes("sip") /\ ~Writes("mip")
      <4>1. CASE b \in SIrq
        <5>1. Accounted(wb.instr, wb.res, b)
          BY <1>1, <3>5, <4>1 DEF Inductive, InStages, Carried, Writes
        <5> QED BY <1>1, <3>2, <3>3, <3>5, <4>1, <5>1 DEF Accounted, Clears, Pending
      <4>2. CASE b \notin SIrq
        BY <1>1, <3>2, <3>5, <4>2 DEF Pending
      <4> QED BY <4>1, <4>2
    <3>6. CASE ~Writes("sip") /\ ~Writes("mip")
      BY <1>1, <3>2, <3>6 DEF Pending
    <3> QED BY <3>4, <3>5, <3>6
  <2> QED BY <1>1, <2>1, <2>2
<1>2. Inductive /\ [Next]_vars =>
        (\A b \in Irq \ {"meip", "seip"} : b \in csr_mip_q /\ ~Clears(b) => b \in csr_mip_q')
  BY <1>1
<1> QED BY <1>2, InductiveAlways, PTL DEF Spec, PendingKept
=============================================================================
