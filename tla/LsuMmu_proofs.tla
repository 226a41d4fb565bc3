---------------------------- MODULE LsuMmu_proofs ----------------------------
(* What holds of the load store unit and the MMU whatever the software, the   *)
(* pages and the caches do: the types (TypeCorrect), from a shape of the      *)
(* registers that says what waits for what, and that every answer is one the  *)
(* tables allow (AnswersAllowed), for software that does not pull the tables  *)
(* from under its own walks (Orderly).                                        *)
EXTENDS LsuMmu, TLAPS

-----------------------------------------------------------------------------
(* The shape of the registers, for all software.                             *)

\* The accesses of the software, and the one in the request register.
AllOps == UNION {Software.ops[at] : at \in Priv}
Held   == IF mem_q.op = "none" THEN <<>> ELSE <<mem_q>>
Writes == {o.w : o \in AllOps \cup {NoOp}}

\* More on types than TypeOK.
Registers ==
    /\ program \in DOMAIN Programs
    /\ mem_q \in AllOps \cup {NoOp}
    /\ mem_q.op # "none" => mem_q.va \in Addr(priv)
    /\ fifo = <<>> \/ \E o \in AllOps : fifo = <<o>>
    /\ port.src \in {"none", "lsu", "mmu"} /\ port.to \in Frame \cup {NoFrame} /\ port.w \in Writes
    /\ \A c \in DOMAIN tables : tables[c] \in Entry
    /\ csr \in {NoCsr} \cup [op : Software.csr, stage : 1 .. 3]
    /\ {mem_req_q, read_hold_q, src_mmu_q, dtlb_req_q, turn} \subseteq BOOLEAN

\* What waits for what in the load store unit: an access is in the request
\* register until it is accepted, and then in fifo until it is answered, by the
\* data cache, by a fault, or as a misaligned one.
Waits ==
    /\ owed = fifo \o Held
    /\ hold_q # {} => hold_q = {mem_q.op} /\ mem_q.op # "none" /\ ~mem_q.mis /\ fifo = <<>>
    /\ mem_unaligned_e2_q => mem_q.op = "none" /\ ~pending_lsu_e2_q /\ fifo[1].mis
    /\ pending_lsu_e2_q =>
          /\ ~fifo[1].mis
          /\ \/ fault_q = {} /\ port.src = "lsu" /\ port.op = fifo[1].op
             \/ fault_q = {fifo[1].op} /\ port.src # "lsu"
    /\ ~pending_lsu_e2_q => fault_q = {} /\ port.src # "lsu"

\* The walker reads one entry at a time, and whoever it walks for waits.
Walks ==
    /\ state_q \in {"LEVEL_FIRST", "LEVEL_SECOND"} <=> (mem_req_q \/ port.src = "mmu")
    /\ ~(mem_req_q /\ port.src = "mmu")
    /\ port.src = "mmu" => port.cell = pte_addr_q
    /\ state_q = "LEVEL_FIRST" => pte_addr_q \in [level : {1}, table : Space, page : {virt_addr_q}]
    /\ state_q = "LEVEL_SECOND" => pte_addr_q \in [level : {2}, table : Table, page : {virt_addr_q}]
    /\ state_q # "IDLE" => virt_addr_q \in Page
    /\ state_q # "IDLE" /\ dtlb_req_q =>
          /\ mem_q.op # "none" /\ ~mem_q.mis /\ mem_q.va = virt_addr_q /\ priv # "M"
          /\ ~(dtlb.valid /\ dtlb.va = virt_addr_q) /\ fifo = <<>>
    /\ state_q # "IDLE" /\ ~dtlb_req_q =>
          /\ fetch.page = virt_addr_q /\ fetch.priv # "M"
          /\ ~(itlb.valid /\ itlb.va = virt_addr_q)

\* A CSR instruction is alone in the pipeline, and what is fetched is for the
\* privilege it is executed at.
Pipe ==
    /\ ~turn => fetch.priv = priv
    /\ supply > 0 => ~turn
    /\ csr.op # "none" => mem_q.op = "none" /\ fifo = <<>> /\ priv = "S" /\ ~turn

Shape == TypeOK /\ Registers /\ Waits /\ Walks /\ Pipe

-----------------------------------------------------------------------------
(* A cycle, step by step of the pipeline.                                    *)
Walker(ans, rd) ==
    WalkStart(ans, rd) \/ WalkSecond(ans) \/ WalkEnd(ans) \/ WalkUpdate \/ WalkWait(ans, rd)

Cycle(ans, ready, rd, iready, step) ==
    /\ ans => port.src # "none"
    /\ ready => Offered(ans)
    /\ iready => FetchOffered(rd)
    /\ Sticky(ans, ready) /\ Walker(ans, rd) /\ Tlbs /\ Mux(ans, ready, rd) /\ Memory(ans, ready)
    /\ step \in Steps(ans, ready)
    /\ Pipeline(step)
    /\ Fetch(ans, rd, iready, step)
    /\ Lsu(ans, ready, step.opcode)
    /\ History(ans, ready, rd, iready, step.opcode)

\* A step of the model is a cycle.
LEMMA CycleOfNext ==
    ASSUME Next
    PROVE  \E ans, ready, rd, iready \in BOOLEAN : \E step : Cycle(ans, ready, rd, iready, step)
<1>1. PICK ans \in BOOLEAN, ready \in BOOLEAN, rd \in BOOLEAN, iready \in BOOLEAN :
         Clock(ans, ready, rd, iready)
  BY DEF Next
<1>2. \E step : Cycle(ans, ready, rd, iready, step)
  BY <1>1 DEF Clock, Cycle, Walker
<1> QED BY <1>2

\* What the pipeline may do in a cycle.
LEMMA StepKinds ==
    ASSUME Shape, NEW ans, NEW ready, NEW step \in Steps(ans, ready)
    PROVE  \/ step = NoStep
           \/ /\ step.opcode \in AllOps /\ step.opcode.va \in Addr(priv) /\ step.opcode.op \in {"ld", "st"}
              /\ CanIssue(ans, ready) /\ step.instr = "none" /\ step.to = "none"
           \/ /\ step.instr \in Software.csr /\ step.instr \in {"sfence", "satp"}
              /\ CanIssue(ans, ready) /\ mem_q.op = "none" /\ priv = "S"
              /\ step.opcode = NoOp /\ step.to = "none"
           \/ /\ step.to \in Priv /\ Drained /\ csr.op = "none"
              /\ step.opcode = NoOp /\ step.instr = "none"
<1>1. program \in DOMAIN Programs /\ priv \in Priv
  BY DEF Shape, TypeOK, Registers
<1>2. IsProgram(Software)
  BY <1>1, ProgramAssumption DEF Software
<1>3. \A o \in Software.ops[priv] : o \in AllOps /\ o.va \in Addr(priv) /\ o.op \in {"ld", "st"}
  BY <1>1, <1>2 DEF IsProgram, AllOps, Op
<1>4. Software.csr \subseteq {"sfence", "satp"} /\ Software.privs \subseteq Priv
  BY <1>2 DEF IsProgram
<1> QED BY <1>3, <1>4 DEF Steps, NoStep

\* What is wanted and what is asked for is the access in the request register.
LEMMA Asks ==
    ASSUME Shape, NEW ans \in BOOLEAN
    PROVE  /\ Requests(ans) => LsuReq(ans) = mem_q /\ mem_q.op \in {"ld", "st"} /\ ~mem_q.mis
           /\ Wanted(ans) = IF Requests(ans) THEN {mem_q.op} ELSE {}
           /\ hold_q # {} => Requests(ans)
           /\ mem_q.op # "none" => mem_q \in AllOps /\ mem_q.op \in {"ld", "st"}
           /\ mem_q.op = "none" => mem_q = NoOp /\ ~mem_q.mis /\ ~Requests(ans)
<1>1. \A o \in AllOps : o.op \in {"ld", "st"}
  BY ProgramAssumption DEF IsProgram, AllOps, Shape, Registers, Software, Op, Priv
<1>2. mem_q.op # "none" => mem_q \in AllOps /\ mem_q.op \in {"ld", "st"}
  BY <1>1 DEF Shape, Registers, NoOp
<1>3. mem_q.op = "none" => mem_q = NoOp /\ ~mem_q.mis
  BY <1>1 DEF Shape, Registers, NoOp
<1>4. hold_q # {} => Requests(ans)
  BY DEF Shape, TypeOK, Waits, Requests, LsuReq, Delay, NoOp
<1> QED BY <1>2, <1>3, <1>4 DEF Requests, LsuReq, Wanted, NoOp, Shape, Waits

\* The access is accepted: by the data cache, or as a fault.
Accepts(ans, ready) == Requests(ans) /\ InAccept(ans, ready)

\* An entry that permits an access is a leaf.
LEMMA LeafPermits ==
    ASSUME NEW e \in Entry, NEW at \in Priv, NEW op \in {"ld", "st"}, ~Denied(op, at, e)
    PROVE  e.to \in Frame
BY DEF Denied, Entry, Absent

\* What goes to the data cache, and when the access is accepted.
LEMMA Offers ==
    ASSUME Shape, NEW ans \in BOOLEAN, NEW ready \in BOOLEAN, ready => Offered(ans)
    PROVE  /\ Faults(ans) \subseteq {mem_q.op} /\ OutOps(ans) \subseteq {mem_q.op}
           /\ Faults(ans) # {} => /\ Accepts(ans, ready) /\ Faults(ans) = {mem_q.op} /\ OutOps(ans) = {}
                                  /\ VmD /\ DtlbHit /\ Denied(mem_q.op, priv, dtlb.entry)
           /\ PortReq(ans).src \in {"none", "lsu", "mmu"}
           /\ PortReq(ans).src = "mmu" =>
                 /\ SrcMmu /\ mem_req_q /\ PortReq(ans).cell = pte_addr_q
           /\ PortReq(ans).src = "lsu" =>
                 /\ ~SrcMmu /\ Requests(ans) /\ Faults(ans) = {} /\ OutOps(ans) = {mem_q.op}
                 /\ PortReq(ans).op = mem_q.op /\ PortReq(ans).to = OutTo
                 /\ VmD => DtlbHit /\ ~Denied(mem_q.op, priv, dtlb.entry)
           /\ PortReq(ans).to \in Frame \cup {NoFrame} /\ PortReq(ans).w \in Writes
           /\ ready => PortReq(ans).src # "none"
           /\ ready /\ PortReq(ans).src = "lsu" => Accepts(ans, ready)
           /\ Accepts(ans, ready) /\ Faults(ans) = {} => ready /\ PortReq(ans).src = "lsu"
<1>1. /\ Requests(ans) => LsuReq(ans) = mem_q /\ mem_q.op \in {"ld", "st"}
      /\ Wanted(ans) = IF Requests(ans) THEN {mem_q.op} ELSE {}
      /\ ~Requests(ans) => LsuReq(ans).op = "none"
  BY Asks DEF Requests
<1>2. Faults(ans) \subseteq {mem_q.op} /\ OutOps(ans) \subseteq {mem_q.op}
  BY <1>1 DEF Faults, OutOps
<1>3. ASSUME Faults(ans) # {}
      PROVE  /\ Accepts(ans, ready) /\ Faults(ans) = {mem_q.op} /\ OutOps(ans) = {}
             /\ VmD /\ DtlbHit /\ Denied(mem_q.op, priv, dtlb.entry)
  <2>1. PICK o \in Faults(ans) : TRUE
    BY <1>3
  <2>2. o = mem_q.op /\ Requests(ans) /\ VmD /\ DtlbHit /\ Denied(o, priv, dtlb.entry)
    BY <2>1, <1>1 DEF Faults
  <2>3. Accepts(ans, ready)
    BY <2>2, <1>3 DEF Accepts, InAccept
  <2>4. Faults(ans) = {mem_q.op}
    BY <2>1, <2>2, <1>2
  <2>5. OutOps(ans) = {}
    BY <2>2, <2>4, <1>1 DEF OutOps
  <2> QED BY <2>2, <2>3, <2>4, <2>5
<1>4. PortReq(ans).src = "mmu" => SrcMmu /\ mem_req_q /\ PortReq(ans).cell = pte_addr_q
  BY DEF PortReq, NoReq
<1>5. ASSUME PortReq(ans).src = "lsu"
      PROVE  /\ ~SrcMmu /\ Requests(ans) /\ Faults(ans) = {} /\ OutOps(ans) = {mem_q.op}
             /\ PortReq(ans).op = mem_q.op /\ PortReq(ans).to = OutTo /\ PortReq(ans).w = mem_q.w
             /\ VmD => DtlbHit /\ ~Denied(mem_q.op, priv, dtlb.entry)
  <2>1. ~SrcMmu /\ OutOps(ans) # {}
    BY <1>5 DEF PortReq, NoReq
  <2>2. OutOps(ans) = {mem_q.op}
    BY <2>1, <1>2
  <2>3. (CHOOSE o \in OutOps(ans) : TRUE) = mem_q.op
    BY <2>2
  <2>4. Requests(ans) /\ Faults(ans) = {}
    BY <2>1, <1>3, <1>1 DEF OutOps
  <2>5. PortReq(ans).op = mem_q.op /\ PortReq(ans).to = OutTo /\ PortReq(ans).w = mem_q.w
    BY <2>1, <2>3 DEF PortReq
  <2>6. VmD => DtlbHit /\ ~Denied(mem_q.op, priv, dtlb.entry)
    BY <2>1, <2>4, <1>1 DEF OutOps, Faults
  <2> QED BY <2>1, <2>2, <2>4, <2>5, <2>6
<1>6. PortReq(ans).src \in {"none", "lsu", "mmu"} /\ (PortReq(ans).src = "none" => PortReq(ans) = NoReq)
  BY DEF PortReq, NoReq
<1>7. PortReq(ans).to \in Frame \cup {NoFrame}
  <2>1. CASE PortReq(ans).src = "lsu"
    <3>1. CASE VmD
      BY <1>5, <2>1, <3>1, <1>1, LeafPermits DEF Shape, TypeOK, DtlbHit, OutTo
    <3>2. CASE ~VmD
      BY <1>5, <2>1, <3>2, <1>1 DEF Shape, Registers, OutTo, VmD, Addr
    <3> QED BY <3>1, <3>2
  <2>2. CASE PortReq(ans).src = "mmu"
    <3>1. PortReq(ans) = [NoReq EXCEPT !.src = "mmu", !.op = "ld", !.to = Tables, !.cell = pte_addr_q]
      BY <2>2, <1>4 DEF PortReq
    <3>2. PortReq(ans).to = Tables
      BY <3>1 DEF NoReq
    <3> QED BY <3>2, ProgramAssumption
  <2> QED BY <2>1, <2>2, <1>6 DEF NoReq
<1>8. PortReq(ans).w \in Writes
  <2>1. NoUpdate \in Writes /\ mem_q.w \in Writes
    <3>1. NoOp.w = NoUpdate
      BY DEF NoOp
    <3>2. NoOp \in AllOps \cup {NoOp} /\ mem_q \in AllOps \cup {NoOp}
      BY DEF Shape, Registers
    <3> QED BY <3>1, <3>2 DEF Writes
  <2> QED BY <2>1, <1>5, <1>6 DEF PortReq, NoReq
<1>9. ready => PortReq(ans).src # "none"
  BY <1>6 DEF Offered
<1>10. ready /\ PortReq(ans).src = "lsu" => Accepts(ans, ready)
  BY <1>5 DEF Accepts, InAccept, CpuAccept
<1>11. Accepts(ans, ready) /\ Faults(ans) = {} => ready /\ PortReq(ans).src = "lsu"
  BY <1>6, <1>9 DEF Accepts, InAccept, CpuAccept, PortReq, NoReq
<1> QED BY <1>2, <1>3, <1>4, <1>5, <1>6, <1>7, <1>8, <1>9, <1>10, <1>11

-----------------------------------------------------------------------------
(* The cycles of the load store unit: what one does to the accesses, and what *)
(* it records of them.                                                       *)

\* The access behind a fault is dropped.
Drops(ans, ready, opcode) ==
    /\ Squashes(ans) /\ ~Requests(ans) /\ ~Pushes(ans, ready) /\ opcode = NoOp
    /\ mem_q' = NoOp /\ ~pending_lsu_e2_q' /\ ~mem_unaligned_e2_q' /\ fifo' = <<>>
    /\ hold_q' = {} /\ fault_q' = {}

\* The access in the request register is accepted and the next one moves in.
Accepted(ans, ready, opcode) ==
    /\ ~Squashes(ans) /\ Accepts(ans, ready) /\ Pushes(ans, ready) /\ due' = Allowed(mem_q, priv)
    /\ mem_q' = opcode /\ pending_lsu_e2_q' /\ ~mem_unaligned_e2_q' /\ fifo' = <<mem_q>>
    /\ hold_q' = {} /\ fault_q' = Faults(ans)

\* A misaligned access goes on without a request.
Misaligned(ans, ready, opcode) ==
    /\ ~Squashes(ans) /\ ~Requests(ans) /\ Pushes(ans, ready) /\ due' = Allowed(mem_q, priv)
    /\ mem_q.mis /\ opcode = NoOp
    /\ mem_q' = opcode /\ ~pending_lsu_e2_q' /\ mem_unaligned_e2_q' /\ fifo' = <<mem_q>>
    /\ hold_q' = {} /\ fault_q' = {}

\* The access is not accepted and stays.
Refused(ans, ready, opcode) ==
    /\ ~Squashes(ans) /\ Requests(ans) /\ ~Accepts(ans, ready) /\ ~Pushes(ans, ready) /\ opcode = NoOp
    /\ mem_q' = mem_q /\ ~pending_lsu_e2_q' /\ ~mem_unaligned_e2_q' /\ fifo' = <<>>
    /\ hold_q' = {mem_q.op} /\ fault_q' = {}

\* The answer to the last access is not there yet.
Waiting(ans, ready, opcode) ==
    /\ ~Squashes(ans) /\ ~Completes(ans) /\ pending_lsu_e2_q /\ ~Requests(ans) /\ ~Pushes(ans, ready)
    /\ opcode = NoOp /\ due' = due /\ fault_q = {}
    /\ mem_q' = mem_q /\ pending_lsu_e2_q' /\ ~mem_unaligned_e2_q' /\ fifo' = fifo
    /\ hold_q' = {} /\ fault_q' = {}

\* There is nothing to do but to take the next access.
Moves(ans, ready, opcode) ==
    /\ ~Squashes(ans) /\ ~Requests(ans) /\ ~Pushes(ans, ready) /\ mem_q = NoOp
    /\ mem_q' = opcode /\ ~pending_lsu_e2_q' /\ ~mem_unaligned_e2_q' /\ fifo' = <<>>
    /\ hold_q' = {} /\ fault_q' = {}

Outcomes(ans, ready, opcode) ==
    \/ Drops(ans, ready, opcode) \/ Accepted(ans, ready, opcode) \/ Misaligned(ans, ready, opcode)
    \/ Refused(ans, ready, opcode) \/ Waiting(ans, ready, opcode) \/ Moves(ans, ready, opcode)

\* What the pipeline has to respect.
Issues(ans, ready, opcode) ==
    /\ opcode \in AllOps \cup {NoOp}
    /\ opcode # NoOp => opcode.op # "none" /\ ~Stall(ans, ready) /\ ~Squashes(ans)

\* What is in the queue and what answers it.
LEMMA Answering ==
    ASSUME Shape, NEW ans \in BOOLEAN
    PROVE  /\ Ack(ans) => pending_lsu_e2_q /\ ~mem_unaligned_e2_q /\ fifo # <<>>
           /\ Squashes(ans) => Completes(ans) /\ fifo # <<>> /\ ~Requests(ans) /\ Faults(ans) = {}
                               /\ (mem_q.mis => Delay(ans)) /\ hold_q = {}
           /\ ~Delay(ans) /\ ~Squashes(ans) => fifo = <<>> \/ Completes(ans)
           /\ Delay(ans) /\ ~Squashes(ans) => pending_lsu_e2_q /\ ~Ack(ans) /\ ~Completes(ans) /\ fifo # <<>>
           /\ fifo # <<>> => Tail(fifo) = <<>> /\ Len(fifo) = 1
<1>1. Ack(ans) => pending_lsu_e2_q /\ ~mem_unaligned_e2_q /\ fifo # <<>>
  BY DEF Shape, TypeOK, Waits, Ack, RespLsu
<1>2. fifo # <<>> => Tail(fifo) = <<>> /\ Len(fifo) = 1
  <2>1. \A o : Tail(<<o>>) = <<>> /\ Len(<<o>>) = 1
    OBVIOUS
  <2> QED BY <2>1 DEF Shape, Registers
<1>3. ASSUME Squashes(ans)
      PROVE  /\ Completes(ans) /\ fifo # <<>> /\ ~Requests(ans) /\ Faults(ans) = {}
             /\ (mem_q.mis => Delay(ans)) /\ hold_q = {}
  <2>1. CASE mem_unaligned_e2_q
    <3>1. mem_q.op = "none" /\ fifo # <<>>
      BY <2>1 DEF Shape, TypeOK, Waits
    <3> QED BY <2>1, <3>1, Asks DEF Completes, Faults
  <2>2. CASE ~mem_unaligned_e2_q
    <3>1. Ack(ans) /\ Err(ans)
      BY <2>2, <1>3 DEF Squashes
    <3>2. Delay(ans) /\ fifo # <<>>
      BY <3>1, <1>1 DEF Delay
    <3>3. ~Requests(ans)
      BY <3>2 DEF Requests, LsuReq, NoOp
    <3> QED BY <3>1, <3>2, <3>3, Asks DEF Completes, Faults
  <2> QED BY <2>1, <2>2
<1>4. ~Delay(ans) /\ ~Squashes(ans) => fifo = <<>> \/ Completes(ans)
  BY DEF Shape, TypeOK, Delay, Squashes, Completes
<1>5. Delay(ans) /\ ~Squashes(ans) => pending_lsu_e2_q /\ ~Ack(ans) /\ ~Completes(ans) /\ fifo # <<>>
  BY DEF Shape, TypeOK, Delay, Squashes, Completes
<1> QED BY <1>1, <1>2, <1>3, <1>4, <1>5

\* The queue of two accesses without the first.
LEMMA TailOfTwo ==
    ASSUME NEW a, NEW b
    PROVE  Tail(<<a>> \o <<b>>) = <<b>>
<1> DEFINE s == <<a>> \o <<b>>
           t == Tail(s)
<1>1. <<a>> \in Seq({a, b}) /\ <<b>> \in Seq({a, b})
  OBVIOUS
<1>2. s \in Seq({a, b}) /\ Len(s) = 2 /\ s[2] = b
  BY <1>1
<1> HIDE DEF s
<1>3. t \in Seq({a, b}) /\ Len(t) = 1 /\ t[1] = b
  BY <1>2
<1> HIDE DEF t
<1>4. t = [i \in 1 .. 1 |-> t[i]]
  BY <1>3
<1>5. <<b>> = [i \in 1 .. 1 |-> b]
  OBVIOUS
<1>6. t = <<b>>
  BY <1>3, <1>4, <1>5
<1> QED BY <1>6 DEF t, s

\* The accesses after the answer of the cycle.
LEMMA Left ==
    ASSUME Shape, NEW ans \in BOOLEAN, ~Squashes(ans)
    PROVE  /\ ~Delay(ans) => (IF Completes(ans) /\ fifo # <<>> THEN Tail(fifo) ELSE fifo) = <<>>
           /\ ~Delay(ans) => (IF Completes(ans) /\ owed # <<>> THEN Tail(owed) ELSE owed) = Held
           /\ Delay(ans) => (IF Completes(ans) /\ fifo # <<>> THEN Tail(fifo) ELSE fifo) = fifo
           /\ Delay(ans) => (IF Completes(ans) /\ owed # <<>> THEN Tail(owed) ELSE owed) = owed
<1>1. ASSUME ~Delay(ans)
      PROVE  /\ (IF Completes(ans) /\ fifo # <<>> THEN Tail(fifo) ELSE fifo) = <<>>
             /\ (IF Completes(ans) /\ owed # <<>> THEN Tail(owed) ELSE owed) = Held
  <2>1. CASE fifo = <<>>
    <3>1. ~Completes(ans)
      BY <2>1, Answering DEF Completes, Shape, TypeOK
    <3>2. owed = Held
      BY <2>1 DEF Shape, Waits, Held
    <3> QED BY <2>1, <3>1, <3>2
  <2>2. CASE fifo # <<>>
    <3>1. Completes(ans) /\ Tail(fifo) = <<>>
      BY <2>2, <1>1, Answering
    <3>2. PICK o \in AllOps : fifo = <<o>>
      BY <2>2 DEF Shape, Registers
    <3>3. owed = <<o>> \o Held
      BY <3>2 DEF Shape, Waits
    <3>4. owed # <<>> /\ Tail(owed) = Held
      <4>1. CASE Held = <<>>
        BY <3>3, <4>1
      <4>2. CASE Held = <<mem_q>>
        <5>1. <<o>> \o <<mem_q>> # <<>>
          OBVIOUS
        <5>2. Tail(<<o>> \o <<mem_q>>) = <<mem_q>>
          BY TailOfTwo
        <5> QED BY <3>3, <4>2, <5>1, <5>2
      <4> QED BY <4>1, <4>2 DEF Held
    <3> QED BY <2>2, <3>1, <3>4
  <2> QED BY <2>1, <2>2
<1>2. Delay(ans) => ~Completes(ans)
  BY Answering
<1> QED BY <1>1, <1>2

\* Every cycle of the load store unit is one of the six.
LEMMA LsuCases ==
    ASSUME Shape, NEW ans \in BOOLEAN, NEW ready \in BOOLEAN, NEW rd, NEW iready, NEW opcode,
           ready => Offered(ans), Issues(ans, ready, opcode),
           Lsu(ans, ready, opcode), Sticky(ans, ready), History(ans, ready, rd, iready, opcode)
    PROVE  Outcomes(ans, ready, opcode) /\ owed' = fifo' \o Held'
<1> DEFINE after == IF Squashes(ans) THEN <<>> ELSE IF Completes(ans) /\ owed # <<>> THEN Tail(owed) ELSE owed
           left  == IF Completes(ans) /\ fifo # <<>> THEN Tail(fifo) ELSE fifo
<1>1. /\ owed' = IF opcode = NoOp THEN after ELSE Append(after, opcode)
      /\ due' = IF Pushes(ans, ready) THEN (IF after = <<>> THEN {} ELSE Allowed(Oldest(after), priv))
                ELSE IF Completes(ans) THEN {} ELSE due
  BY DEF History
<1>2. fifo' = IF Pushes(ans, ready) /\ Len(fifo) < 2 THEN Append(left, mem_q) ELSE left
  BY DEF Lsu
<1>3. Len(fifo) < 2
  <2>1. CASE fifo = <<>>
    BY <2>1
  <2>2. CASE fifo # <<>>
    <3>1. Len(fifo) = 1
      BY <2>2, Answering
    <3> QED BY <3>1
  <2> QED BY <2>1, <2>2
<1>4. Held' = IF mem_q'.op = "none" THEN <<>> ELSE <<mem_q'>>
  BY DEF Held
<1>5. opcode = NoOp <=> opcode.op = "none"
  BY DEF Issues, NoOp
<1>6. NoOp.op = "none" /\ ~NoOp.mis
  BY DEF NoOp
<1> HIDE DEF after, left
<1>7. CASE Squashes(ans)
  <2>1. opcode = NoOp
    BY <1>7 DEF Issues
  <2>2. /\ ~Requests(ans) /\ Faults(ans) = {} /\ hold_q = {} /\ (mem_q.mis => Delay(ans))
        /\ fifo # <<>> /\ Completes(ans)
    BY <1>7, Answering
  <2>3. ~Pushes(ans, ready)
    BY <2>2 DEF Pushes
  <2>4. left = <<>> /\ after = <<>>
    BY <2>2, <1>7, Answering DEF left, after
  <2>5. ~pending_lsu_e2_q'
    BY <2>2, Answering DEF Lsu, Completes, Shape, TypeOK, Waits
  <2>6. mem_q' = NoOp /\ ~mem_unaligned_e2_q' /\ hold_q' = {} /\ fault_q' = {}
    BY <1>7, <2>2 DEF Lsu, Sticky
  <2>7. fifo' = <<>> /\ owed' = <<>>
    BY <1>1, <1>2, <2>1, <2>3, <2>4
  <2>8. Held' = <<>>
    BY <1>4, <2>6, <1>6
  <2> QED BY <1>7, <2>1, <2>2, <2>3, <2>5, <2>6, <2>7, <2>8 DEF Outcomes, Drops
<1>8. CASE ~Squashes(ans) /\ Delay(ans)
  <2>1. pending_lsu_e2_q /\ ~Ack(ans) /\ ~Completes(ans) /\ fifo # <<>>
    BY <1>8, Answering
  <2>2. ~Requests(ans) /\ ~Pushes(ans, ready)
    BY <1>8, <1>6 DEF Requests, LsuReq, Pushes
  <2>3. hold_q = {} /\ Faults(ans) = {}
    BY <2>2, Asks DEF Faults
  <2>4. opcode = NoOp
    BY <1>8 DEF Issues, Stall
  <2>5. left = fifo /\ after = owed
    BY <1>8, Left DEF left, after
  <2>6. mem_q' = mem_q
    BY <1>8, <2>2, <2>4, Asks DEF Lsu
  <2>7. pending_lsu_e2_q' /\ ~mem_unaligned_e2_q' /\ hold_q' = {} /\ fault_q' = {}
    BY <1>8, <2>1, <2>2, <2>3 DEF Lsu, Sticky
  <2>8. fault_q = {}
    BY <2>1 DEF Ack
  <2>9. fifo' = fifo /\ owed' = owed /\ due' = due /\ Held' = Held
    BY <1>1, <1>2, <1>4, <2>1, <2>2, <2>4, <2>5, <2>6 DEF Held
  <2>10. owed' = fifo' \o Held'
    BY <2>9 DEF Shape, Waits
  <2> QED BY <1>8, <2>1, <2>2, <2>4, <2>6, <2>7, <2>8, <2>9, <2>10 DEF Outcomes, Waiting
<1>9. CASE ~Squashes(ans) /\ ~Delay(ans)
  <2>1. left = <<>> /\ after = Held
    BY <1>9, Left DEF left, after
  <2>2. CASE mem_q.op = "none"
    <3>1. mem_q = NoOp /\ ~mem_q.mis /\ ~Requests(ans)
      BY <2>2, Asks
    <3>2. ~Pushes(ans, ready) /\ hold_q = {} /\ Faults(ans) = {}
      BY <3>1, Asks DEF Pushes, Faults
    <3>3. mem_q' = opcode /\ ~mem_unaligned_e2_q' /\ hold_q' = {} /\ fault_q' = {}
      BY <1>9, <3>1, <3>2, <1>6 DEF Lsu, Sticky
    <3>4. ~pending_lsu_e2_q'
      BY <1>9, <3>1 DEF Lsu, Delay, Shape, TypeOK
    <3>5. fifo' = <<>>
      BY <1>2, <2>1, <3>2
    <3>6. owed' = Held'
      BY <1>1, <1>4, <1>5, <2>1, <2>2, <3>3 DEF Held
    <3>7. owed' = fifo' \o Held'
      BY <3>5, <3>6, <1>4
    <3> QED BY <1>9, <3>1, <3>2, <3>3, <3>4, <3>5, <3>7 DEF Outcomes, Moves
  <2>3. CASE mem_q.op # "none" /\ mem_q.mis
    <3>1. ~Requests(ans)
      BY <2>3, <1>6 DEF Requests, LsuReq
    <3>2. Pushes(ans, ready) /\ hold_q = {} /\ Faults(ans) = {} /\ opcode = NoOp
      BY <1>9, <2>3, <3>1, Asks DEF Pushes, Faults, Issues, Stall
    <3>3. mem_q' = opcode /\ mem_unaligned_e2_q' /\ hold_q' = {} /\ fault_q' = {}
      BY <1>9, <2>3, <3>1, <3>2 DEF Lsu, Sticky
    <3>4. ~pending_lsu_e2_q'
      BY <1>9, <3>1 DEF Lsu, Delay, Shape, TypeOK
    <3>5. after = <<mem_q>> /\ Oldest(after) = mem_q
      BY <2>1, <2>3 DEF Held, Oldest
    <3>6. fifo' = <<mem_q>>
      BY <1>2, <1>3, <2>1, <3>2
    <3>7. owed' = <<mem_q>> /\ due' = Allowed(mem_q, priv)
      BY <1>1, <3>2, <3>5
    <3>8. owed' = fifo' \o Held'
      BY <1>4, <1>6, <3>2, <3>3, <3>6, <3>7
    <3> QED BY <1>9, <2>3, <3>1, <3>2, <3>3, <3>4, <3>6, <3>7, <3>8 DEF Outcomes, Misaligned
  <2>4. CASE mem_q.op # "none" /\ ~mem_q.mis
    <3>1. Requests(ans)
      BY <1>9, <2>4 DEF Requests, LsuReq
    <3>2. ~mem_unaligned_e2_q'
      BY <2>4 DEF Lsu
    <3>3. after = <<mem_q>> /\ Oldest(after) = mem_q
      BY <2>1, <2>4 DEF Held, Oldest
    <3>4. hold_q \subseteq {mem_q.op}
      BY DEF Shape, Waits
    <3>5. CASE InAccept(ans, ready)
      <4>1. Accepts(ans, ready) /\ Pushes(ans, ready)
        BY <3>1, <3>5 DEF Accepts, Pushes
      <4>2. mem_q' = opcode /\ pending_lsu_e2_q' /\ hold_q' = {} /\ fault_q' = Faults(ans)
        BY <1>9, <3>1, <3>4, <3>5 DEF Lsu, Sticky
      <4>3. fifo' = <<mem_q>>
        BY <1>2, <1>3, <2>1, <4>1
      <4>4. /\ due' = Allowed(mem_q, priv)
            /\ owed' = IF opcode = NoOp THEN <<mem_q>> ELSE Append(<<mem_q>>, opcode)
        BY <1>1, <3>3, <4>1
      <4>5. owed' = fifo' \o Held'
        <5>1. CASE opcode = NoOp
          BY <1>4, <1>5, <4>2, <4>3, <4>4, <5>1
        <5>2. CASE opcode # NoOp
          <6>1. Held' = <<opcode>> /\ owed' = Append(<<mem_q>>, opcode)
            BY <1>4, <1>5, <4>2, <4>4, <5>2
          <6> QED BY <6>1, <4>3
        <5> QED BY <5>1, <5>2
      <4> QED BY <1>9, <3>2, <4>1, <4>2, <4>3, <4>4, <4>5 DEF Outcomes, Accepted
    <3>6. CASE ~InAccept(ans, ready)
      <4>1. ~Accepts(ans, ready) /\ ~Pushes(ans, ready) /\ Faults(ans) = {}
        BY <3>6, <2>4, Offers DEF Accepts, Pushes
      <4>2. opcode = NoOp
        BY <3>1, <3>6 DEF Issues, Stall
      <4>3. mem_q' = mem_q /\ hold_q' = {mem_q.op} /\ fault_q' = {}
        BY <1>9, <3>1, <3>4, <3>6, <4>1 DEF Lsu, Sticky
      <4>4. ~pending_lsu_e2_q'
        BY <1>9, <3>6 DEF Lsu, Delay, Shape, TypeOK
      <4>5. fifo' = <<>>
        BY <1>2, <2>1, <4>1
      <4>6. owed' = <<mem_q>> /\ Held' = <<mem_q>>
        BY <1>1, <1>4, <2>4, <3>3, <4>2, <4>3
      <4>7. owed' = fifo' \o Held'
        BY <4>5, <4>6
      <4> QED BY <1>9, <3>1, <3>2, <4>1, <4>2, <4>3, <4>4, <4>5, <4>7 DEF Outcomes, Refused
    <3> QED BY <3>5, <3>6
  <2> QED BY <2>2, <2>3, <2>4
<1> QED BY <1>7, <1>8, <1>9

\* A cycle from a state of the right shape.
Runs(ans, ready, rd, iready, step) ==
    /\ Shape
    /\ ans \in BOOLEAN /\ ready \in BOOLEAN /\ rd \in BOOLEAN /\ iready \in BOOLEAN
    /\ Cycle(ans, ready, rd, iready, step)

\* What the pipeline issues in a cycle, and what the load store unit does.
LEMMA StepFacts ==
    ASSUME NEW ans, NEW ready, NEW rd, NEW iready, NEW step, Runs(ans, ready, rd, iready, step)
    PROVE  /\ Outcomes(ans, ready, step.opcode) /\ owed' = fifo' \o Held'
           /\ step.opcode \in AllOps \cup {NoOp}
           /\ step.opcode # NoOp => /\ step.opcode.va \in Addr(priv) /\ step.opcode.op \in {"ld", "st"}
                                    /\ CanIssue(ans, ready) /\ step.instr = "none" /\ step.to = "none"
           /\ step.instr # "none" =>
                 /\ step.instr \in Software.csr /\ step.instr \in {"sfence", "satp"}
                 /\ CanIssue(ans, ready) /\ mem_q.op = "none" /\ priv = "S"
                 /\ step.opcode = NoOp /\ step.to = "none"
           /\ step.to # "none" => /\ step.to \in Priv /\ Drained /\ csr.op = "none"
                                  /\ step.opcode = NoOp /\ step.instr = "none"
<1>1. Shape /\ ans \in BOOLEAN /\ ready \in BOOLEAN /\ (ready => Offered(ans)) /\ step \in Steps(ans, ready)
  BY DEF Runs, Cycle
<1>2. /\ Lsu(ans, ready, step.opcode) /\ Sticky(ans, ready)
      /\ History(ans, ready, rd, iready, step.opcode)
  BY DEF Runs, Cycle
<1>3. NoStep.opcode = NoOp /\ NoStep.instr = "none" /\ NoStep.to = "none"
  BY DEF NoStep
<1>4. NoOp.op = "none" /\ "none" \notin {"sfence", "satp"} /\ "none" \notin Priv
  BY DEF NoOp, Priv
<1>5. \/ step = NoStep
      \/ /\ step.opcode \in AllOps /\ step.opcode.va \in Addr(priv) /\ step.opcode.op \in {"ld", "st"}
         /\ CanIssue(ans, ready) /\ step.instr = "none" /\ step.to = "none"
      \/ /\ step.instr \in Software.csr /\ step.instr \in {"sfence", "satp"}
         /\ CanIssue(ans, ready) /\ mem_q.op = "none" /\ priv = "S"
         /\ step.opcode = NoOp /\ step.to = "none"
      \/ /\ step.to \in Priv /\ Drained /\ csr.op = "none"
         /\ step.opcode = NoOp /\ step.instr = "none"
  BY <1>1, StepKinds
<1>6. /\ step.opcode \in AllOps \cup {NoOp}
      /\ step.opcode # NoOp => /\ step.opcode.va \in Addr(priv) /\ step.opcode.op \in {"ld", "st"}
                               /\ CanIssue(ans, ready) /\ step.instr = "none" /\ step.to = "none"
      /\ step.instr # "none" =>
            /\ step.instr \in Software.csr /\ step.instr \in {"sfence", "satp"}
            /\ CanIssue(ans, ready) /\ mem_q.op = "none" /\ priv = "S"
            /\ step.opcode = NoOp /\ step.to = "none"
      /\ step.to # "none" => /\ step.to \in Priv /\ Drained /\ csr.op = "none"
                             /\ step.opcode = NoOp /\ step.instr = "none"
  BY <1>3, <1>4, <1>5
<1>7. Issues(ans, ready, step.opcode)
  BY <1>6 DEF Issues, CanIssue
<1>8. Outcomes(ans, ready, step.opcode) /\ owed' = fifo' \o Held'
  BY <1>1, <1>2, <1>7, LsuCases
<1> QED BY <1>6, <1>8

\* While a CSR instruction is issued or on its way nothing else is.
LEMMA CsrAlone ==
    ASSUME NEW ans, NEW ready, NEW rd, NEW iready, NEW step, Runs(ans, ready, rd, iready, step),
           csr.op # "none" \/ step.instr # "none"
    PROVE  /\ ~Squashes(ans) /\ Moves(ans, ready, step.opcode) /\ step.opcode = NoOp /\ step.to = "none"
           /\ csr.op # "none" => step.instr = "none"
           /\ mem_q = NoOp /\ priv = "S" /\ ~turn
<1> DEFINE opcode == step.opcode
<1>1. Shape /\ ans \in BOOLEAN
  BY DEF Runs
<1>2. Outcomes(ans, ready, opcode)
  BY StepFacts
<1>3. CASE csr.op # "none"
  <2>1. mem_q.op = "none" /\ fifo = <<>> /\ priv = "S" /\ ~turn /\ ~pending_lsu_e2_q /\ ~mem_unaligned_e2_q
    BY <1>1, <1>3 DEF Shape, Pipe, TypeOK
  <2>2. ~Squashes(ans) /\ mem_q = NoOp /\ ~mem_q.mis /\ ~Requests(ans)
    BY <1>1, <2>1, Asks, Answering
  <2>3. ~CanIssue(ans, ready)
    BY <1>3 DEF CanIssue
  <2>4. opcode = NoOp /\ step.to = "none" /\ step.instr = "none"
    BY <1>3, <2>3, StepFacts
  <2>5. Moves(ans, ready, opcode)
    BY <1>2, <2>1, <2>2 DEF Outcomes, Drops, Accepted, Accepts, Misaligned, Refused, Waiting
  <2> QED BY <2>1, <2>2, <2>4, <2>5
<1>4. CASE csr.op = "none" /\ step.instr # "none"
  <2>1. CanIssue(ans, ready) /\ mem_q.op = "none" /\ priv = "S" /\ opcode = NoOp /\ step.to = "none"
    BY <1>4, StepFacts
  <2>2. ~Squashes(ans) /\ ~Delay(ans) /\ supply > 0
    BY <2>1 DEF CanIssue, Stall
  <2>3. mem_q = NoOp /\ ~mem_q.mis /\ ~Requests(ans)
    BY <1>1, <2>1, Asks
  <2>4. ~Waiting(ans, ready, opcode)
    BY <2>2 DEF Waiting, Delay, Completes
  <2>5. Moves(ans, ready, opcode)
    BY <1>2, <2>2, <2>3, <2>4 DEF Outcomes, Drops, Accepted, Accepts, Misaligned, Refused
  <2>6. ~turn
    BY <1>1, <2>2 DEF Shape, Pipe
  <2> QED BY <1>4, <2>1, <2>2, <2>3, <2>5, <2>6
<1> QED BY <1>3, <1>4, <1>1

\* What the data cache is at work on next: the access that was accepted, an
\* access that is not answered yet, or the walker's.
LEMMA PortNext ==
    ASSUME NEW ans, NEW ready, NEW rd, NEW iready, NEW step, Runs(ans, ready, rd, iready, step)
    PROVE  /\ port' = IF ready THEN PortReq(ans) ELSE IF ans THEN NoReq ELSE port
           /\ ready => port.src = "none" \/ ans
           /\ Waiting(ans, ready, step.opcode) => port.src = "lsu" /\ ~ans /\ ~ready /\ port' = port
           /\ Accepted(ans, ready, step.opcode) /\ Faults(ans) = {} =>
                 port' = PortReq(ans) /\ PortReq(ans).src = "lsu" /\ ready
           /\ port'.src = "lsu" => \/ Waiting(ans, ready, step.opcode)
                                   \/ Accepted(ans, ready, step.opcode) /\ Faults(ans) = {}
           /\ port'.src = "mmu" <=> (ready /\ SrcMmu /\ mem_req_q) \/ (port.src = "mmu" /\ ~ans)
           /\ ready /\ SrcMmu => mem_req_q
<1> DEFINE opcode == step.opcode
<1>1. /\ Shape /\ ans \in BOOLEAN /\ ready \in BOOLEAN /\ (ready => Offered(ans))
      /\ port' = IF ready THEN PortReq(ans) ELSE IF ans THEN NoReq ELSE port
  BY DEF Runs, Cycle, Memory
<1>2. ready => port.src = "none" \/ ans
  BY <1>1 DEF Offered
<1>3. Outcomes(ans, ready, opcode)
  BY StepFacts
<1>4. ASSUME Waiting(ans, ready, opcode)
      PROVE  port.src = "lsu" /\ ~ans /\ ~ready /\ port' = port
  <2>1. pending_lsu_e2_q /\ fault_q = {} /\ ~Completes(ans)
    BY <1>4 DEF Waiting
  <2>2. port.src = "lsu"
    BY <1>1, <2>1 DEF Shape, Waits
  <2>3. ~ans
    BY <2>1, <2>2 DEF Completes, Ack, RespLsu
  <2> QED BY <1>1, <1>2, <2>2, <2>3
<1>5. ASSUME Accepted(ans, ready, opcode), Faults(ans) = {}
      PROVE  port' = PortReq(ans) /\ PortReq(ans).src = "lsu" /\ ready
  BY <1>1, <1>5, Offers DEF Accepted
<1>6. ASSUME port'.src = "lsu", ~Waiting(ans, ready, opcode)
      PROVE  Accepted(ans, ready, opcode) /\ Faults(ans) = {}
  <2>1. port.src = "lsu" => ans
    <3>1. SUFFICES ASSUME port.src = "lsu", ~ans  PROVE FALSE
      OBVIOUS
    <3>2. pending_lsu_e2_q /\ fault_q = {} /\ ~mem_unaligned_e2_q
      BY <1>1, <3>1 DEF Shape, TypeOK, Waits
    <3>3. ~Ack(ans) /\ ~Squashes(ans)
      BY <3>1, <3>2 DEF Ack, RespLsu, Squashes
    <3>4. Delay(ans)
      BY <3>2, <3>3 DEF Delay
    <3>5. ~Requests(ans) /\ ~Pushes(ans, ready)
      BY <3>4 DEF Requests, LsuReq, NoOp, Pushes
    <3>6. Moves(ans, ready, opcode)
      BY <1>3, <1>6, <3>3, <3>5 DEF Outcomes, Drops, Accepted, Misaligned, Refused
    <3>7. ~pending_lsu_e2_q'
      BY <3>6 DEF Moves
    <3>8. pending_lsu_e2_q'
      BY <3>2, <3>3 DEF Runs, Cycle, Lsu
    <3> QED BY <3>7, <3>8
  <2>2. ready /\ PortReq(ans).src = "lsu"
    BY <1>1, <1>6, <2>1 DEF NoReq
  <2>3. Accepts(ans, ready) /\ Faults(ans) = {}
    BY <1>1, <2>2, Offers
  <2>4. Requests(ans)
    BY <2>3 DEF Accepts
  <2> QED BY <1>3, <2>3, <2>4 DEF Outcomes, Drops, Misaligned, Refused, Waiting, Moves
<1>7. PortReq(ans).src = "mmu" <=> SrcMmu /\ mem_req_q
  BY <1>1, Offers DEF PortReq, NoReq
<1>8. port'.src = "mmu" <=> (ready /\ SrcMmu /\ mem_req_q) \/ (port.src = "mmu" /\ ~ans)
  BY <1>1, <1>2, <1>7 DEF NoReq
<1>9. ready /\ SrcMmu => mem_req_q
  BY <1>1 DEF Offered, PortReq
<1> QED BY <1>1, <1>2, <1>4, <1>5, <1>6, <1>8, <1>9

\* The software does not change, and its addresses are those of a privilege.
LEMMA SameSoftware ==
    ASSUME NEW ans, NEW ready, NEW rd, NEW iready, NEW step, Runs(ans, ready, rd, iready, step)
    PROVE  /\ program' = program /\ Software' = Software /\ AllOps' = AllOps /\ Writes' = Writes
           /\ IsProgram(Software) /\ program \in DOMAIN Programs
<1>1. program' = program /\ program \in DOMAIN Programs
  BY DEF Runs, Cycle, Pipeline, Shape, Registers
<1>2. Software' = Software
  BY <1>1 DEF Software
<1> QED BY <1>1, <1>2, ProgramAssumption DEF Software, AllOps, Writes

\* Waits is kept.
LEMMA WaitsKept ==
    ASSUME NEW ans, NEW ready, NEW rd, NEW iready, NEW step, Runs(ans, ready, rd, iready, step)
    PROVE  Waits'
<1> DEFINE opcode == step.opcode
<1>1. Shape /\ ans \in BOOLEAN /\ ready \in BOOLEAN /\ (ready => Offered(ans))
  BY DEF Runs, Cycle
<1>2. Outcomes(ans, ready, opcode) /\ owed' = fifo' \o Held'
  BY StepFacts
<1>3. NoOp.op = "none" /\ ~NoOp.mis
  BY DEF NoOp
<1>4. ASSUME hold_q' # {}
      PROVE  hold_q' = {mem_q'.op} /\ mem_q'.op # "none" /\ ~mem_q'.mis /\ fifo' = <<>>
  <2>1. Refused(ans, ready, opcode)
    BY <1>2, <1>4 DEF Outcomes, Drops, Accepted, Misaligned, Waiting, Moves
  <2>2. Requests(ans) /\ hold_q' = {mem_q.op} /\ mem_q' = mem_q /\ fifo' = <<>>
    BY <2>1 DEF Refused
  <2>3. mem_q.op \in {"ld", "st"} /\ ~mem_q.mis
    BY <1>1, <2>2, Asks
  <2> QED BY <2>2, <2>3
<1>5. ASSUME mem_unaligned_e2_q'
      PROVE  mem_q'.op = "none" /\ ~pending_lsu_e2_q' /\ fifo'[1].mis
  <2>1. Misaligned(ans, ready, opcode)
    BY <1>2, <1>5 DEF Outcomes, Drops, Accepted, Refused, Waiting, Moves
  <2> QED BY <2>1, <1>3 DEF Misaligned
<1>6. ASSUME pending_lsu_e2_q'
      PROVE  /\ ~fifo'[1].mis
             /\ \/ fault_q' = {} /\ port'.src = "lsu" /\ port'.op = fifo'[1].op
                \/ fault_q' = {fifo'[1].op} /\ port'.src # "lsu"
  <2>1. CASE Accepted(ans, ready, opcode)
    <3>1. Accepts(ans, ready) /\ fifo' = <<mem_q>> /\ fault_q' = Faults(ans)
      BY <2>1 DEF Accepted
    <3>2. ~mem_q.mis
      BY <1>1, <3>1, Asks DEF Accepts
    <3>3. CASE Faults(ans) = {}
      <4>1. port' = PortReq(ans) /\ PortReq(ans).src = "lsu"
        BY <2>1, <3>3, PortNext
      <4>2. PortReq(ans).op = mem_q.op
        BY <1>1, <4>1, Offers
      <4> QED BY <3>1, <3>2, <3>3, <4>1, <4>2
    <3>4. CASE Faults(ans) # {}
      <4>1. Faults(ans) = {mem_q.op}
        BY <1>1, <3>4, Offers
      <4>2. port'.src # "lsu"
        BY <2>1, <3>4, PortNext DEF Accepted, Waiting
      <4> QED BY <3>1, <3>2, <4>1, <4>2
    <3> QED BY <3>3, <3>4
  <2>2. CASE Waiting(ans, ready, opcode)
    <3>1. fifo' = fifo /\ fault_q = {} /\ fault_q' = {} /\ pending_lsu_e2_q
      BY <2>2 DEF Waiting
    <3>2. port.src = "lsu" /\ port' = port
      BY <2>2, PortNext
    <3> QED BY <1>1, <3>1, <3>2 DEF Shape, Waits
  <2> QED BY <1>2, <1>6, <2>1, <2>2 DEF Outcomes, Drops, Misaligned, Refused, Moves
<1>7. ASSUME ~pending_lsu_e2_q'
      PROVE  fault_q' = {} /\ port'.src # "lsu"
  <2>1. ~Accepted(ans, ready, opcode) /\ ~Waiting(ans, ready, opcode)
    BY <1>7 DEF Accepted, Waiting
  <2>2. fault_q' = {}
    BY <1>2, <2>1 DEF Outcomes, Drops, Misaligned, Refused, Moves
  <2> QED BY <2>1, <2>2, PortNext
<1> QED BY <1>2, <1>4, <1>5, <1>6, <1>7 DEF Waits

\* Pipe is kept.
LEMMA PipeKept ==
    ASSUME NEW ans, NEW ready, NEW rd, NEW iready, NEW step, Runs(ans, ready, rd, iready, step)
    PROVE  Pipe'
<1> DEFINE opcode == step.opcode
           acc == FetchAccept(rd, iready)
           br == Branches(ans, step)
<1>1. Shape /\ ans \in BOOLEAN /\ (~turn => fetch.priv = priv) /\ (supply > 0 => ~turn)
  BY DEF Runs, Shape, Pipe
<1>2. /\ fetch' \in IF acc THEN [page : Software.code[IF turn THEN priv ELSE fetch.priv],
                                 priv : {IF turn THEN priv ELSE fetch.priv}] ELSE {fetch}
      /\ turn' = (br \/ (turn /\ ~acc))
  BY DEF Runs, Cycle, Fetch
<1>3. supply' = IF br THEN 0
                ELSE IF acc /\ ~turn /\ ~FetchFault(rd) THEN Window
                ELSE IF opcode # NoOp \/ step.instr # "none" THEN supply - 1 ELSE supply
  BY DEF Runs, Cycle, Fetch
<1>4. priv' = IF step.to # "none" THEN step.to ELSE priv
  BY DEF Runs, Cycle, Pipeline
<1>5. csr' = IF step.instr # "none" THEN [op |-> step.instr, stage |-> 1]
             ELSE IF csr.stage \in {1, 2} THEN [csr EXCEPT !.stage = @ + 1] ELSE NoCsr
  BY DEF Runs, Cycle, Pipeline
<1>6. ~br => step.to = "none"
  BY DEF Branches
<1>7. ~turn' => fetch'.priv = priv'
  <2>1. SUFFICES ASSUME ~turn' PROVE fetch'.priv = priv
    BY <1>2, <1>4, <1>6
  <2>2. CASE acc
    <3>1. fetch'.priv = IF turn THEN priv ELSE fetch.priv
      BY <1>2, <2>2
    <3> QED BY <1>1, <3>1
  <2>3. CASE ~acc
    BY <1>1, <1>2, <2>1, <2>3
  <2> QED BY <2>2, <2>3
<1>8. supply' > 0 => ~turn'
  <2>1. SUFFICES ASSUME supply' > 0 PROVE ~turn'
    OBVIOUS
  <2>2. ~br
    BY <1>3, <2>1
  <2>3. ~turn \/ supply > 0
    <3>1. supply \in Nat
      BY <1>1, ProgramAssumption DEF Shape, TypeOK
    <3>2. supply - 1 > 0 => supply > 0
      BY <3>1
    <3> QED BY <1>3, <2>1, <2>2, <3>2
  <2> QED BY <1>1, <1>2, <2>2, <2>3
<1>9. csr'.op # "none" => mem_q'.op = "none" /\ fifo' = <<>> /\ priv' = "S" /\ ~turn'
  <2>1. SUFFICES ASSUME csr'.op # "none"
                 PROVE  mem_q'.op = "none" /\ fifo' = <<>> /\ priv' = "S" /\ ~turn'
    OBVIOUS
  <2>2. step.instr # "none" \/ (csr.op # "none" /\ csr.stage # 3)
    <3>1. CASE step.instr = "none" /\ csr = NoCsr
      BY <1>5, <2>1, <3>1 DEF NoCsr
    <3>2. CASE step.instr = "none" /\ csr # NoCsr
      <4>1. csr.op # "none"
        BY <1>1, <3>2, SameSoftware DEF Shape, Registers, IsProgram
      <4>2. csr.stage # 3
        BY <1>5, <2>1, <3>2 DEF NoCsr
      <4> QED BY <4>1, <4>2
    <3> QED BY <3>1, <3>2
  <2>3. ~Squashes(ans) /\ Moves(ans, ready, opcode) /\ opcode = NoOp /\ step.to = "none" /\ priv = "S" /\ ~turn
    BY <2>2, CsrAlone
  <2>4. csr.stage # 3
    <3>1. CASE step.instr # "none"
      <4>1. csr.op = "none"
        BY <3>1, StepFacts DEF CanIssue
      <4>2. csr = NoCsr
        BY <1>1, <4>1, SameSoftware DEF Shape, Registers, IsProgram
      <4> QED BY <4>2 DEF NoCsr
    <3>2. CASE step.instr = "none"
      BY <2>2, <3>2
    <3> QED BY <3>1, <3>2
  <2>5. ~br
    BY <2>3, <2>4 DEF Branches
  <2>6. ~turn'
    BY <1>2, <2>3, <2>5 DEF Branches
  <2>7. mem_q' = NoOp /\ fifo' = <<>>
    BY <2>3 DEF Moves
  <2> QED BY <1>4, <2>3, <2>6, <2>7 DEF NoOp
<1> QED BY <1>7, <1>8, <1>9 DEF Pipe

\* A translated address is that of a page.
LEMMA Translated ==
    ASSUME NEW ans, NEW ready, NEW rd, NEW iready, NEW step, Runs(ans, ready, rd, iready, step)
    PROVE  /\ VmD /\ mem_q.op # "none" => mem_q.va \in Page
           /\ VmI => fetch.page \in Page
<1>1. IsProgram(Software) /\ Shape
  BY SameSoftware DEF Runs
<1>2. fetch.priv \in Priv /\ fetch.page \in Software.code[fetch.priv]
  BY <1>1 DEF Shape, TypeOK
<1>3. Software.code[fetch.priv] \subseteq Addr(fetch.priv)
  BY <1>1, <1>2 DEF IsProgram
<1> QED BY <1>1, <1>2, <1>3 DEF Shape, Registers, VmD, VmI, Addr

\* An access that is walked for is not accepted.
LEMMA MissRefused ==
    ASSUME NEW ans, NEW ready, NEW rd, NEW iready, NEW step, Runs(ans, ready, rd, iready, step),
           Requests(ans), VmD, ~DtlbHit
    PROVE  /\ Refused(ans, ready, step.opcode) /\ mem_q' = mem_q /\ fifo' = <<>> /\ priv' = priv
           /\ mem_q.op # "none" /\ ~mem_q.mis
<1>1. ~Accepts(ans, ready)
  BY DEF Accepts, InAccept, Faults
<1>2. Refused(ans, ready, step.opcode)
  BY <1>1, StepFacts DEF Outcomes, Drops, Accepted, Misaligned, Waiting, Moves
<1>3. mem_q.op # "none" /\ ~mem_q.mis
  BY Asks DEF Runs
<1>4. step.to = "none"
  BY <1>3, StepFacts DEF Drained
<1>5. priv' = priv
  BY <1>4 DEF Runs, Cycle, Pipeline
<1> QED BY <1>2, <1>3, <1>5 DEF Refused

\* A fetch that is walked for is not accepted.
LEMMA MissFetch ==
    ASSUME NEW ans, NEW ready, NEW rd, NEW iready, NEW step, Runs(ans, ready, rd, iready, step),
           VmI, ~(itlb.valid /\ itlb.va = fetch.page)
    PROVE  fetch' = fetch
<1>1. iready => FetchOffered(rd)
  BY DEF Runs, Cycle
<1>2. ~FetchAccept(rd, iready)
  BY <1>1 DEF FetchAccept, FetchOffered, FetchFault, ItlbHit
<1> QED BY <1>2 DEF Runs, Cycle, Fetch

\* The entry the walker reads.
LEMMA Reads ==
    ASSUME Shape
    PROVE  PteRead \in Entry /\ (PteRead.kind = "ptr" => PteRead.to \in Table)
<1>1. PteRead \in Entry
  BY DEF PteRead, EntryAt, Shape, Registers, Entry
<1>2. \A e \in Entry : e.kind = "ptr" => e.to \in Table
  BY DEF Entry, Absent
<1> QED BY <1>1, <1>2

\* The walk and its read.
LEMMA WalkRead ==
    ASSUME NEW ans, NEW ready, NEW rd, NEW iready, NEW step, Runs(ans, ready, rd, iready, step)
    PROVE  /\ state_q' \in {"LEVEL_FIRST", "LEVEL_SECOND"} <=> (mem_req_q' \/ port'.src = "mmu")
           /\ ~(mem_req_q' /\ port'.src = "mmu")
           /\ port'.src = "mmu" => port'.cell = pte_addr_q'
<1>1. /\ Walker(ans, rd) /\ Shape
      /\ mem_req_q' = IF (state_q = "IDLE" /\ (ItlbMiss(rd) \/ DtlbMiss(ans))) \/ Follows(ans) THEN TRUE
                      ELSE IF SrcMmu /\ ready THEN FALSE ELSE mem_req_q
  BY DEF Runs, Cycle, Mux
<1>2. /\ port' = IF ready THEN PortReq(ans) ELSE IF ans THEN NoReq ELSE port
      /\ ready => port.src = "none" \/ ans
      /\ port'.src = "mmu" <=> (ready /\ SrcMmu /\ mem_req_q) \/ (port.src = "mmu" /\ ~ans)
      /\ ready /\ SrcMmu => mem_req_q
  BY PortNext
<1>3. /\ state_q \in {"LEVEL_FIRST", "LEVEL_SECOND"} <=> (mem_req_q \/ port.src = "mmu")
      /\ ~(mem_req_q /\ port.src = "mmu")
      /\ port.src = "mmu" => port.cell = pte_addr_q
      /\ state_q \in {"IDLE", "LEVEL_FIRST", "LEVEL_SECOND", "UPDATE"}
  BY <1>1 DEF Shape, TypeOK, Walks
<1>4. ready /\ SrcMmu /\ mem_req_q => PortReq(ans).cell = pte_addr_q
  BY Offers, <1>1 DEF Runs, Cycle, PortReq, NoReq
<1>5. CASE WalkStart(ans, rd)
  <2>1. state_q = "IDLE" /\ mem_req_q' /\ state_q' = "LEVEL_FIRST"
    BY <1>1, <1>5 DEF WalkStart
  <2>2. port'.src # "mmu"
    BY <1>2, <1>3, <2>1
  <2> QED BY <2>1, <2>2
<1>6. CASE WalkSecond(ans)
  <2>1. mem_req_q' /\ state_q' = "LEVEL_SECOND" /\ port.src = "mmu" /\ ans
    BY <1>1, <1>6 DEF WalkSecond, Follows, RespMmu
  <2>2. port'.src # "mmu"
    BY <1>2, <1>3, <2>1
  <2> QED BY <2>1, <2>2
<1>7. CASE WalkEnd(ans)
  <2>1. state_q' = "UPDATE" /\ port.src = "mmu" /\ ans /\ ~Follows(ans) /\ state_q # "IDLE"
    BY <1>7 DEF WalkEnd, RespMmu
  <2>2. ~mem_req_q'
    BY <1>1, <1>3, <2>1
  <2>3. port'.src # "mmu"
    BY <1>2, <1>3, <2>1
  <2> QED BY <2>1, <2>2, <2>3
<1>8. CASE WalkUpdate
  <2>1. state_q = "UPDATE" /\ state_q' = "IDLE" /\ ~Follows(ans)
    BY <1>8 DEF WalkUpdate, Follows
  <2>2. ~mem_req_q' /\ port'.src # "mmu"
    BY <1>1, <1>2, <1>3, <2>1
  <2> QED BY <2>1, <2>2
<1>9. CASE WalkWait(ans, rd)
  <2>1. /\ state_q' = state_q /\ pte_addr_q' = pte_addr_q /\ state_q # "UPDATE"
        /\ state_q = "IDLE" => ~ItlbMiss(rd) /\ ~DtlbMiss(ans)
        /\ state_q \in {"LEVEL_FIRST", "LEVEL_SECOND"} => ~RespMmu(ans)
    BY <1>9 DEF WalkWait, walkVars
  <2>2. mem_req_q' = IF SrcMmu /\ ready THEN FALSE ELSE mem_req_q
    BY <1>1, <2>1 DEF Follows
  <2>3. CASE state_q = "IDLE"
    BY <1>2, <1>3, <2>1, <2>2, <2>3
  <2>4. CASE mem_req_q
    <3>1. port.src # "mmu" /\ state_q \in {"LEVEL_FIRST", "LEVEL_SECOND"}
      BY <1>3, <2>4
    <3>2. port'.src = "mmu" <=> ready /\ SrcMmu
      BY <1>2, <2>4, <3>1
    <3>3. mem_req_q' <=> ~(ready /\ SrcMmu)
      BY <2>2, <2>4
    <3>4. port'.src = "mmu" => port'.cell = pte_addr_q
      BY <1>2, <1>4, <2>4, <3>2
    <3> QED BY <2>1, <3>1, <3>2, <3>3, <3>4
  <2>5. CASE port.src = "mmu"
    <3>1. ~mem_req_q /\ state_q \in {"LEVEL_FIRST", "LEVEL_SECOND"} /\ ~ans
      BY <1>3, <2>1, <2>5 DEF RespMmu
    <3>2. ~ready /\ port' = port
      BY <1>2, <2>5, <3>1
    <3>3. ~mem_req_q'
      BY <2>2, <3>1
    <3> QED BY <1>3, <2>1, <2>5, <3>1, <3>2, <3>3
  <2> QED BY <1>3, <2>1, <2>3, <2>4, <2>5
<1> QED BY <1>1, <1>5, <1>6, <1>7, <1>8, <1>9 DEF Walker

\* For whom the walk is, which waits.
LEMMA WalkFor ==
    ASSUME NEW ans, NEW ready, NEW rd, NEW iready, NEW step, Runs(ans, ready, rd, iready, step),
           state_q' # "IDLE"
    PROVE  /\ \/ state_q = "IDLE" /\ state_q' = "LEVEL_FIRST" /\ WalkStart(ans, rd)
              \/ /\ state_q \notin {"IDLE", "UPDATE"} /\ virt_addr_q' = virt_addr_q
                 /\ dtlb_req_q' = dtlb_req_q
           /\ virt_addr_q' \in Page
           /\ dtlb_req_q' =>
                 /\ mem_q'.op # "none" /\ ~mem_q'.mis /\ mem_q'.va = virt_addr_q' /\ priv' # "M"
                 /\ ~(dtlb'.valid /\ dtlb'.va = virt_addr_q') /\ fifo' = <<>>
           /\ ~dtlb_req_q' =>
                 /\ fetch'.page = virt_addr_q' /\ fetch'.priv # "M"
                 /\ ~(itlb'.valid /\ itlb'.va = virt_addr_q')
<1>1. Walker(ans, rd) /\ Shape /\ Tlbs /\ ans \in BOOLEAN
  BY DEF Runs, Cycle
<1>2. CASE WalkStart(ans, rd)
  <2>1. /\ state_q = "IDLE" /\ state_q' = "LEVEL_FIRST"
        /\ virt_addr_q' = IF DtlbMiss(ans) THEN mem_q.va ELSE fetch.page
        /\ dtlb_req_q' = DtlbMiss(ans)
        /\ ItlbMiss(rd) \/ DtlbMiss(ans)
    BY <1>2 DEF WalkStart
  <2>2. /\ itlb'.va = itlb.va /\ (itlb'.valid => itlb.valid)
        /\ dtlb'.va = dtlb.va /\ (dtlb'.valid => dtlb.valid)
    BY <1>1, <2>1 DEF Tlbs, ItlbValid
  <2>3. CASE DtlbMiss(ans)
    <3>1. VmD /\ ~DtlbHit /\ Wanted(ans) # {}
      BY <2>3 DEF DtlbMiss
    <3>2. Requests(ans)
      BY <1>1, <3>1, Asks
    <3>3. mem_q' = mem_q /\ fifo' = <<>> /\ priv' = priv /\ mem_q.op # "none" /\ ~mem_q.mis
      BY <3>1, <3>2, MissRefused
    <3>4. mem_q.va \in Page
      BY <3>1, <3>3, Translated
    <3> QED BY <1>2, <2>1, <2>2, <2>3, <3>1, <3>3, <3>4 DEF VmD, DtlbHit
  <2>4. CASE ~DtlbMiss(ans)
    <3>1. VmI /\ ~(itlb.valid /\ itlb.va = fetch.page)
      BY <2>1, <2>4 DEF ItlbMiss, ItlbHit
    <3>2. fetch' = fetch /\ fetch.page \in Page
      BY <3>1, MissFetch, Translated
    <3> QED BY <1>2, <2>1, <2>2, <2>4, <3>1, <3>2 DEF VmI
  <2> QED BY <2>3, <2>4
<1>3. CASE ~WalkStart(ans, rd)
  <2>1. state_q \notin {"IDLE", "UPDATE"} /\ virt_addr_q' = virt_addr_q /\ dtlb_req_q' = dtlb_req_q
    BY <1>1, <1>3 DEF Walker, WalkSecond, WalkEnd, WalkUpdate, WalkWait, walkVars, Follows
  <2>2. /\ virt_addr_q \in Page
        /\ dtlb_req_q =>
              /\ mem_q.op # "none" /\ ~mem_q.mis /\ mem_q.va = virt_addr_q /\ priv # "M"
              /\ ~(dtlb.valid /\ dtlb.va = virt_addr_q) /\ fifo = <<>>
        /\ ~dtlb_req_q =>
              /\ fetch.page = virt_addr_q /\ fetch.priv # "M"
              /\ ~(itlb.valid /\ itlb.va = virt_addr_q)
    BY <1>1, <2>1 DEF Shape, Walks
  <2>3. dtlb'.va = dtlb.va /\ (dtlb'.valid => dtlb.valid)
    BY <1>1, <2>1 DEF Tlbs
  <2>4. itlb'.va = itlb.va /\ (~dtlb_req_q => ~itlb'.valid)
    BY <1>1, <2>1 DEF Tlbs, ItlbValid
  <2>5. CASE dtlb_req_q
    <3>1. VmD /\ ~DtlbHit
      BY <2>2, <2>5 DEF VmD, DtlbHit
    <3>2. Requests(ans)
      BY <1>1, <2>2, <2>5 DEF Requests, LsuReq, Delay, Shape, TypeOK
    <3>3. mem_q' = mem_q /\ fifo' = <<>> /\ priv' = priv
      BY <3>1, <3>2, MissRefused
    <3> QED BY <2>1, <2>2, <2>3, <2>5, <3>3
  <2>6. CASE ~dtlb_req_q
    <3>1. VmI /\ ~(itlb.valid /\ itlb.va = fetch.page)
      BY <2>2, <2>6 DEF VmI
    <3>2. fetch' = fetch
      BY <3>1, MissFetch
    <3> QED BY <2>1, <2>2, <2>4, <2>6, <3>2
  <2> QED BY <2>5, <2>6
<1> QED BY <1>2, <1>3

\* Walks is kept.
LEMMA WalksKept ==
    ASSUME NEW ans, NEW ready, NEW rd, NEW iready, NEW step, Runs(ans, ready, rd, iready, step)
    PROVE  Walks'
<1>1. Walker(ans, rd) /\ Shape /\ satp \in Space
  BY DEF Runs, Cycle, Shape, TypeOK
<1>2. state_q' = "LEVEL_FIRST" => pte_addr_q' \in [level : {1}, table : Space, page : {virt_addr_q'}]
  <2>1. SUFFICES ASSUME state_q' = "LEVEL_FIRST"
                 PROVE  pte_addr_q' \in [level : {1}, table : Space, page : {virt_addr_q'}]
    OBVIOUS
  <2>2. CASE WalkStart(ans, rd)
    BY <1>1, <2>2 DEF WalkStart, FirstLevel
  <2>3. CASE WalkWait(ans, rd)
    BY <1>1, <2>1, <2>3 DEF WalkWait, walkVars, Shape, Walks
  <2> QED BY <1>1, <2>1, <2>2, <2>3 DEF Walker, WalkSecond, WalkEnd, WalkUpdate
<1>3. state_q' = "LEVEL_SECOND" => pte_addr_q' \in [level : {2}, table : Table, page : {virt_addr_q'}]
  <2>1. SUFFICES ASSUME state_q' = "LEVEL_SECOND"
                 PROVE  pte_addr_q' \in [level : {2}, table : Table, page : {virt_addr_q'}]
    OBVIOUS
  <2>2. CASE WalkSecond(ans)
    <3>1. PteRead.to \in Table /\ ReqPage = virt_addr_q
      BY <1>1, <2>2, Reads DEF WalkSecond, Follows, ReqPage, Shape, Walks
    <3> QED BY <2>2, <3>1 DEF WalkSecond, SecondLevel
  <2>3. CASE WalkWait(ans, rd)
    BY <1>1, <2>1, <2>3 DEF WalkWait, walkVars, Shape, Walks
  <2> QED BY <1>1, <2>1, <2>2, <2>3 DEF Walker, WalkStart, WalkEnd, WalkUpdate
<1> QED BY <1>2, <1>3, WalkRead, WalkFor DEF Walks

\* The tables stay tables.
LEMMA TablesKept ==
    ASSUME NEW ans, NEW ready, NEW rd, NEW iready, NEW step, Runs(ans, ready, rd, iready, step)
    PROVE  DOMAIN tables' \subseteq Cell /\ \A c \in DOMAIN tables' : tables'[c] \in Entry
<1>1. DOMAIN tables \subseteq Cell /\ (\A c \in DOMAIN tables : tables[c] \in Entry) /\ port.w \in Writes
  BY DEF Runs, Shape, TypeOK, Registers
<1>2. Writes \subseteq Update \cup {NoUpdate}
  <2>1. \A o \in AllOps : o.w \in Update \cup {NoUpdate}
    BY SameSoftware DEF IsProgram, AllOps, Op
  <2>2. NoOp.w = NoUpdate
    BY DEF NoOp
  <2> QED BY <2>1, <2>2 DEF Writes
<1>3. CASE tables' = tables
  BY <1>1, <1>3
<1>4. CASE tables' # tables
  <2>1. /\ port.w # NoUpdate
        /\ tables' = [c \in DOMAIN tables \cup {port.w.cell} |->
                         IF c = port.w.cell THEN port.w.entry ELSE tables[c]]
    BY <1>4 DEF Runs, Cycle, Memory
  <2>2. port.w.cell \in Cell /\ port.w.entry \in Entry
    BY <1>1, <1>2, <2>1 DEF Update
  <2> QED BY <1>1, <2>1, <2>2
<1> QED BY <1>3, <1>4

\* The access that moves into the request register.
LEMMA NextOp ==
    ASSUME NEW ans, NEW ready, NEW rd, NEW iready, NEW step, Runs(ans, ready, rd, iready, step)
    PROVE  /\ mem_q' \in AllOps \cup {NoOp}
           /\ mem_q'.op # "none" => mem_q'.va \in Addr(priv')
           /\ fifo' = <<>> \/ \E o \in AllOps : fifo' = <<o>>
<1> DEFINE opcode == step.opcode
<1>1. Shape /\ mem_q \in AllOps \cup {NoOp} /\ (mem_q.op # "none" => mem_q.va \in Addr(priv))
  BY DEF Runs, Shape, Registers
<1>2. Outcomes(ans, ready, opcode) /\ opcode \in AllOps \cup {NoOp}
  BY StepFacts
<1>3. priv' = IF step.to # "none" THEN step.to ELSE priv
  BY DEF Runs, Cycle, Pipeline
<1>4. mem_q' \in {NoOp, opcode} \/ mem_q' = mem_q
  BY <1>2 DEF Outcomes, Drops, Accepted, Misaligned, Refused, Waiting, Moves
<1>5. NoOp.op = "none"
  BY DEF NoOp
<1>6. mem_q'.op # "none" => mem_q'.va \in Addr(priv')
  <2>1. CASE step.to # "none"
    <3>1. mem_q.op = "none" /\ opcode = NoOp
      BY <2>1, StepFacts DEF Drained
    <3> QED BY <1>4, <1>5, <3>1
  <2>2. CASE step.to = "none"
    <3>1. opcode # NoOp => opcode.va \in Addr(priv)
      BY StepFacts
    <3> QED BY <1>1, <1>3, <1>4, <1>5, <2>2, <3>1
  <2> QED BY <2>1, <2>2
<1>7. fifo' = <<>> \/ \E o \in AllOps : fifo' = <<o>>
  <2>1. CASE Accepted(ans, ready, opcode)
    <3>1. fifo' = <<mem_q>> /\ mem_q \in AllOps
      BY <1>1, <2>1, Asks DEF Accepted, Accepts, Runs
    <3> QED BY <3>1
  <2>2. CASE Misaligned(ans, ready, opcode)
    <3>1. fifo' = <<mem_q>> /\ mem_q.mis
      BY <2>2 DEF Misaligned
    <3>2. mem_q \in AllOps
      BY <1>1, <3>1 DEF NoOp
    <3> QED BY <3>1, <3>2
  <2>3. CASE Waiting(ans, ready, opcode)
    BY <1>1, <2>3 DEF Waiting, Shape, Registers
  <2> QED BY <1>2, <2>1, <2>2, <2>3 DEF Outcomes, Drops, Refused, Moves
<1> QED BY <1>1, <1>2, <1>4, <1>6, <1>7

\* Registers is kept.
LEMMA RegistersKept ==
    ASSUME NEW ans, NEW ready, NEW rd, NEW iready, NEW step, Runs(ans, ready, rd, iready, step)
    PROVE  Registers'
<1>1. /\ Shape /\ Registers /\ ans \in BOOLEAN /\ ready \in BOOLEAN /\ (ready => Offered(ans))
      /\ Walker(ans, rd) /\ Mux(ans, ready, rd)
  BY DEF Runs, Shape, Cycle
<1>2. /\ program' = program /\ Software' = Software /\ AllOps' = AllOps /\ Writes' = Writes
      /\ program \in DOMAIN Programs
  BY SameSoftware
<1>3. /\ mem_q' \in AllOps \cup {NoOp}
      /\ mem_q'.op # "none" => mem_q'.va \in Addr(priv')
      /\ fifo' = <<>> \/ \E o \in AllOps : fifo' = <<o>>
  BY NextOp
<1>4. port'.src \in {"none", "lsu", "mmu"} /\ port'.to \in Frame \cup {NoFrame} /\ port'.w \in Writes
  <2>1. /\ PortReq(ans).src \in {"none", "lsu", "mmu"} /\ PortReq(ans).to \in Frame \cup {NoFrame}
        /\ PortReq(ans).w \in Writes
    BY <1>1, Offers
  <2>2. NoReq.src = "none" /\ NoReq.to = NoFrame /\ NoReq.w \in Writes
    <3>1. NoOp.w = NoUpdate
      BY DEF NoOp
    <3> QED BY <3>1 DEF NoReq, Writes
  <2>3. port' = IF ready THEN PortReq(ans) ELSE IF ans THEN NoReq ELSE port
    BY PortNext
  <2> QED BY <1>1, <2>1, <2>2, <2>3 DEF Registers
<1>5. \A c \in DOMAIN tables' : tables'[c] \in Entry
  BY TablesKept
<1>6. csr' \in {NoCsr} \cup [op : Software.csr, stage : 1 .. 3]
  <2>1. csr' = IF step.instr # "none" THEN [op |-> step.instr, stage |-> 1]
               ELSE IF csr.stage \in {1, 2} THEN [csr EXCEPT !.stage = @ + 1] ELSE NoCsr
    BY DEF Runs, Cycle, Pipeline
  <2>2. step.instr # "none" => step.instr \in Software.csr
    BY StepFacts
  <2>3. csr \in {NoCsr} \cup [op : Software.csr, stage : 1 .. 3]
    BY <1>1 DEF Registers
  <2>4. ASSUME csr.stage \in {1, 2}
        PROVE  [csr EXCEPT !.stage = @ + 1] \in [op : Software.csr, stage : 1 .. 3]
    <3>1. csr \in [op : Software.csr, stage : 1 .. 3]
      BY <2>3, <2>4 DEF NoCsr
    <3>2. csr.stage + 1 \in 1 .. 3
      BY <2>4
    <3> QED BY <3>1, <3>2
  <2> QED BY <2>1, <2>2, <2>4
<1>7. mem_req_q' \in BOOLEAN /\ read_hold_q' \in BOOLEAN /\ src_mmu_q' \in BOOLEAN
  BY <1>1 DEF Mux, SrcMmu, Registers
<1>8. dtlb_req_q' \in BOOLEAN
  BY <1>1 DEF Walker, WalkStart, WalkSecond, WalkEnd, WalkUpdate, WalkWait, walkVars, DtlbMiss, Registers
<1>9. turn' \in BOOLEAN
  BY DEF Runs, Cycle, Fetch
<1> QED BY <1>2, <1>3, <1>4, <1>5, <1>6, <1>7, <1>8, <1>9 DEF Registers

\* The translation lookaside buffers hold entries of pages.
LEMMA TlbsKept ==
    ASSUME NEW ans, NEW ready, NEW rd, NEW iready, NEW step, Runs(ans, ready, rd, iready, step)
    PROVE  \A tlb \in {itlb', dtlb'} : tlb.valid => tlb.va \in Page /\ tlb.entry \in Entry
<1>1. Tlbs /\ Shape
  BY DEF Runs, Cycle
<1>2. /\ \A tlb \in {itlb, dtlb} : tlb.valid => tlb.va \in Page /\ tlb.entry \in Entry
      /\ state_q = "UPDATE" => virt_addr_q \in Page
      /\ pte_entry_q \in Entry
  BY <1>1 DEF Shape, TypeOK, Walks
<1>3. /\ itlb' = [valid |-> ItlbValid,
                  va |-> IF state_q = "UPDATE" /\ ~dtlb_req_q THEN virt_addr_q ELSE itlb.va,
                  entry |-> IF state_q = "UPDATE" /\ ~dtlb_req_q THEN pte_entry_q ELSE itlb.entry]
      /\ dtlb' = [valid |-> ~Flush /\ (dtlb.valid \/ (state_q = "UPDATE" /\ dtlb_req_q)),
                  va |-> IF state_q = "UPDATE" /\ dtlb_req_q THEN virt_addr_q ELSE dtlb.va,
                  entry |-> IF state_q = "UPDATE" /\ dtlb_req_q THEN pte_entry_q ELSE dtlb.entry]
  BY <1>1 DEF Tlbs
<1>4. itlb'.valid => itlb'.va \in Page /\ itlb'.entry \in Entry
  BY <1>2, <1>3 DEF ItlbValid
<1>5. dtlb'.valid => dtlb'.va \in Page /\ dtlb'.entry \in Entry
  BY <1>2, <1>3
<1> QED BY <1>4, <1>5

\* TypeOK is kept.
LEMMA TypesKept ==
    ASSUME NEW ans, NEW ready, NEW rd, NEW iready, NEW step, Runs(ans, ready, rd, iready, step)
    PROVE  TypeOK'
<1> DEFINE opcode == step.opcode
<1>1. /\ Shape /\ TypeOK /\ ans \in BOOLEAN /\ ready \in BOOLEAN /\ (ready => Offered(ans))
      /\ Walker(ans, rd) /\ Lsu(ans, ready, opcode)
  BY DEF Runs, Shape, Cycle
<1>2. Outcomes(ans, ready, opcode)
  BY StepFacts
<1>3. mem_q' \in Op \cup {NoOp}
  <2>1. AllOps \subseteq Op
    BY SameSoftware DEF IsProgram, AllOps
  <2> QED BY <2>1, NextOp
<1>4. pending_lsu_e2_q' \in BOOLEAN /\ mem_unaligned_e2_q' \in BOOLEAN
  <2>1. mem_q.mis \in BOOLEAN
    <3>1. \A o \in Op : o.mis \in BOOLEAN
      BY DEF Op
    <3>2. NoOp.mis \in BOOLEAN
      BY DEF NoOp
    <3> QED BY <1>1, <3>1, <3>2 DEF TypeOK
  <2> QED BY <1>1, <2>1 DEF Lsu, TypeOK
<1>5. Len(fifo') <= 1
  <2>1. \A o : Len(<<o>>) = 1
    OBVIOUS
  <2>2. Len(<<>>) = 0
    OBVIOUS
  <2>3. CASE fifo' = <<>>
    BY <2>2, <2>3
  <2>4. CASE fifo' # <<>>
    <3>1. PICK o \in AllOps : fifo' = <<o>>
      BY <2>4, NextOp
    <3>2. Len(fifo') = 1
      BY <3>1, <2>1
    <3> QED BY <3>2
  <2> QED BY <2>3, <2>4
<1>6. fifo' # <<>> <=> (pending_lsu_e2_q' \/ mem_unaligned_e2_q')
  <2>1. <<mem_q>> # <<>>
    OBVIOUS
  <2>2. pending_lsu_e2_q => fifo # <<>>
    BY <1>1 DEF TypeOK
  <2> QED BY <1>2, <2>1, <2>2 DEF Outcomes, Drops, Accepted, Misaligned, Refused, Waiting, Moves
<1>7. hold_q' \subseteq {"ld", "st"} /\ fault_q' \subseteq {"ld", "st"}
  <2>1. mem_q.op # "none" => mem_q.op \in {"ld", "st"}
    BY <1>1, Asks
  <2>2. Faults(ans) \subseteq {"ld", "st"}
    <3>1. Faults(ans) # {} => Requests(ans) /\ Faults(ans) = {mem_q.op}
      BY <1>1, Offers DEF Accepts
    <3> QED BY <1>1, <3>1, Asks
  <2>3. CASE Refused(ans, ready, opcode)
    BY <1>1, <2>3, Asks DEF Refused
  <2> QED BY <1>2, <2>2, <2>3 DEF Outcomes, Drops, Accepted, Misaligned, Waiting, Moves
<1>8. state_q' \in {"IDLE", "LEVEL_FIRST", "LEVEL_SECOND", "UPDATE"}
  BY <1>1 DEF Walker, WalkStart, WalkSecond, WalkEnd, WalkUpdate, WalkWait, walkVars, TypeOK
<1>9. pte_addr_q' \in Cell \cup {NoCell}
  <2>1. CASE WalkStart(ans, rd)
    <3>1. state_q' = "LEVEL_FIRST" /\ pte_addr_q' \in [level : {1}, table : Space, page : {virt_addr_q'}]
      BY <2>1, WalksKept DEF WalkStart, Walks
    <3>2. virt_addr_q' \in Page
      BY <3>1, WalkFor
    <3> QED BY <3>1, <3>2, ProgramAssumption DEF Cell
  <2>2. CASE WalkSecond(ans)
    <3>1. state_q' = "LEVEL_SECOND" /\ pte_addr_q' \in [level : {2}, table : Table, page : {virt_addr_q'}]
      BY <2>2, WalksKept DEF WalkSecond, Walks
    <3>2. virt_addr_q' \in Page
      BY <3>1, WalkFor
    <3> QED BY <3>1, <3>2 DEF Cell
  <2> QED BY <1>1, <2>1, <2>2 DEF Walker, WalkEnd, WalkUpdate, WalkWait, walkVars, TypeOK
<1>10. pte_entry_q' \in Entry
  BY <1>1, Reads DEF Walker, WalkStart, WalkSecond, WalkEnd, WalkUpdate, WalkWait, walkVars, TypeOK
<1>11. \A tlb \in {itlb, dtlb}' : tlb.valid => tlb.va \in Page /\ tlb.entry \in Entry
  BY TlbsKept
<1>12. port'.to \in Frame \cup {NoFrame} /\ DOMAIN tables' \subseteq Cell
  BY RegistersKept, TablesKept DEF Registers
<1>13. priv' \in Priv /\ satp' \in Space
  <2>1. step.to # "none" => step.to \in Priv
    BY StepFacts
  <2>2. satp \in Space /\ priv \in Priv
    BY <1>1 DEF TypeOK
  <2>3. /\ satp' \in IF csr = [op |-> "satp", stage |-> 3] THEN Space ELSE {satp}
        /\ priv' = IF step.to # "none" THEN step.to ELSE priv
    BY DEF Runs, Cycle, Pipeline
  <2> QED BY <2>1, <2>2, <2>3
<1>14. csr'.stage \in 0 .. 3
  <2>1. csr' \in {NoCsr} \cup [op : Software.csr, stage : 1 .. 3]
    BY RegistersKept, SameSoftware DEF Registers
  <2>2. \A c \in [op : Software.csr, stage : 1 .. 3] : c.stage \in 0 .. 3
    OBVIOUS
  <2>3. NoCsr.stage \in 0 .. 3
    BY DEF NoCsr
  <2> QED BY <2>1, <2>2, <2>3
<1>15. supply' \in 0 .. Window
  <2>1. supply \in 0 .. Window /\ Window \in Nat \ {0}
    BY <1>1, ProgramAssumption DEF TypeOK
  <2>2. \/ supply' \in {0, Window, supply}
        \/ supply' = supply - 1 /\ (opcode # NoOp \/ step.instr # "none")
    BY DEF Runs, Cycle, Fetch
  <2>3. opcode # NoOp \/ step.instr # "none" => supply > 0
    BY StepFacts DEF CanIssue
  <2> QED BY <2>1, <2>2, <2>3
<1>16. fetch'.priv \in Priv /\ fetch'.page \in Software'.code[fetch'.priv]
  <2> DEFINE at == IF turn THEN priv ELSE fetch.priv
  <2>1. at \in Priv /\ fetch.priv \in Priv /\ fetch.page \in Software.code[fetch.priv]
    BY <1>1 DEF TypeOK
  <2>2. fetch' \in [page : Software.code[at], priv : {at}] \/ fetch' = fetch
    BY DEF Runs, Cycle, Fetch
  <2> QED BY <2>1, <2>2, SameSoftware
<1> QED BY <1>3, <1>4, <1>5, <1>6, <1>7, <1>8, <1>9, <1>10, <1>11, <1>12, <1>13, <1>14, <1>15, <1>16 DEF TypeOK

\* The initial states have the shape.
LEMMA ShapeInit ==
    ASSUME Init
    PROVE  Shape
<1>1. program \in DOMAIN Programs /\ IsProgram(Software)
  BY ProgramAssumption DEF Init, Software
<1>2. NoOp.op = "none" /\ NoReq.src = "none" /\ NoReq.to = NoFrame /\ NoReq.w = NoUpdate /\ NoOp.w = NoUpdate
  BY DEF NoOp, NoReq
<1>3. ~itlb.valid /\ ~dtlb.valid
  BY DEF Init, NoEntry
<1>4. fetch.priv = "M" /\ fetch.page \in Software.code["M"] /\ "M" \in Priv
  BY DEF Init, Priv
<1>5. csr.stage = 0 /\ csr.op = "none" /\ csr = NoCsr
  BY DEF Init, NoCsr
<1>6. TypeOK
  <2>1. Absent \in Entry
    BY DEF Entry
  <2>2. satp \in Space /\ DOMAIN tables \subseteq Cell
    BY <1>1 DEF Init, IsProgram
  <2>3. supply \in 0 .. Window
    BY ProgramAssumption DEF Init
  <2>4. Len(<<>>) <= 1
    OBVIOUS
  <2>5. Len(fifo) <= 1 /\ (fifo # <<>>) = (pending_lsu_e2_q \/ mem_unaligned_e2_q)
    BY <2>4 DEF Init
  <2>6. mem_q \in Op \cup {NoOp} /\ pending_lsu_e2_q \in BOOLEAN /\ mem_unaligned_e2_q \in BOOLEAN
    BY DEF Init
  <2>7. hold_q \subseteq {"ld", "st"} /\ fault_q \subseteq {"ld", "st"}
    BY DEF Init
  <2>8. /\ state_q \in {"IDLE", "LEVEL_FIRST", "LEVEL_SECOND", "UPDATE"}
        /\ pte_addr_q \in Cell \cup {NoCell} /\ pte_entry_q \in Entry
    BY <2>1 DEF Init
  <2>9. \A tlb \in {itlb, dtlb} : tlb.valid => tlb.va \in Page /\ tlb.entry \in Entry
    BY <1>3
  <2>10. port.to \in Frame \cup {NoFrame} /\ priv \in Priv
    BY <1>2, <1>4 DEF Init
  <2> QED BY <1>4, <1>5, <2>2, <2>3, <2>5, <2>6, <2>7, <2>8, <2>9, <2>10 DEF TypeOK
<1>7. Registers
  <2>1. NoUpdate \in Writes
    BY <1>2 DEF Writes
  <2>2. \A c \in DOMAIN tables : tables[c] \in Entry
    BY <1>1 DEF Init, IsProgram
  <2> QED BY <1>1, <1>2, <1>5, <2>1, <2>2 DEF Init, Registers
<1>8. Waits
  <2>1. Held = <<>>
    BY <1>2 DEF Held, Init
  <2>2. <<>> \o <<>> = <<>>
    OBVIOUS
  <2> QED BY <1>2, <2>1, <2>2 DEF Init, Waits
<1>9. Walks
  BY <1>2 DEF Init, Walks
<1>10. Pipe
  BY <1>4, <1>5 DEF Init, Pipe
<1> QED BY <1>6, <1>7, <1>8, <1>9, <1>10 DEF Shape

\* Shape is kept.
LEMMA ShapeStep ==
    ASSUME Shape, [Next]_vars
    PROVE  Shape'
<1>1. CASE Next
  <2>1. PICK ans \in BOOLEAN, ready \in BOOLEAN, rd \in BOOLEAN, iready \in BOOLEAN :
            \E step : Cycle(ans, ready, rd, iready, step)
    BY <1>1, CycleOfNext
  <2>2. PICK step : Cycle(ans, ready, rd, iready, step)
    BY <2>1
  <2>3. Runs(ans, ready, rd, iready, step)
    BY <2>2 DEF Runs
  <2> QED BY <2>3, TypesKept, RegistersKept, WaitsKept, WalksKept, PipeKept DEF Shape
<1>2. CASE UNCHANGED vars
  BY <1>2 DEF vars, lsuVars, walkVars, mmuVars, memVars, coreVars, history, Shape, TypeOK, Registers,
              Waits, Walks, Pipe, Held, AllOps, Writes, Software
<1> QED BY <1>1, <1>2

\* The types hold, and the queue of the load store unit is never full.
THEOREM TypeCorrect == Spec => []TypeOK
<1>1. Init => Shape
  BY ShapeInit
<1>2. Shape /\ [Next]_vars => Shape'
  BY ShapeStep
<1>3. Shape => TypeOK
  BY DEF Shape
<1> QED BY <1>1, <1>2, <1>3, PTL DEF Spec

-----------------------------------------------------------------------------
(* What the walker and the TLBs hold against what the tables give, for       *)
(* software that is orderly.                                                 *)

\* The entries of the TLBs are among those given since the last flush; until a
\* CSR instruction is through, those are the entries of now.
Given ==
    /\ \A v \in Page : Gives(satp, v) \in gave[v]
    /\ csr.stage \in {2, 3} => \A v \in Page : gave[v] = {Gives(satp, v)}
    /\ itlb.valid => itlb.entry \in gave[itlb.va]
    /\ dtlb.valid => dtlb.entry \in gave[dtlb.va]
    /\ csr.stage \in {2, 3} => ~dtlb.valid /\ (itlb.valid => itlb.va \in Software.code["S"])

\* The walk reads the entries of the page in the tables of satp; only the first
\* one of a fetch may be read in the tables of the last satp.
Roots ==
    /\ state_q = "LEVEL_FIRST" =>
          \/ pte_addr_q = FirstLevel(satp, virt_addr_q)
          \/ ~dtlb_req_q /\ virt_addr_q \in Software.code["S"] /\ "satp" \in Software.csr
    /\ state_q = "LEVEL_SECOND" =>
          /\ EntryAt(FirstLevel(satp, virt_addr_q)).kind = "ptr"
          /\ pte_addr_q = SecondLevel(EntryAt(FirstLevel(satp, virt_addr_q)).to, virt_addr_q)
    /\ state_q = "UPDATE" => pte_entry_q \in gave[virt_addr_q]

\* The answer that is to come is one the access may have.
Promised ==
    /\ mem_unaligned_e2_q => Outcome("align", fifo[1], NoFrame) \in due
    /\ fault_q # {} => Outcome("page", fifo[1], NoFrame) \in due
    /\ port.src = "lsu" => Reaches(fifo[1], port.to) \in due

\* What is in the tables is what was there or what the software stored.
Contents == \A c \in Cell : EntryAt(c) \in Values(Software, c)

Sound == Shape /\ Given /\ Roots /\ Promised /\ Contents /\ Answers

\* A cycle of orderly software from a state in which all of this holds.
Goes(ans, ready, rd, iready, step) == Sound /\ Runs(ans, ready, rd, iready, step) /\ Orderly(Software)

\* The entries of a page that satp is written from are those of every root.
LEMMA RootsAlike ==
    ASSUME Sound, Orderly(Software), "satp" \in Software.csr,
           NEW v \in Software.code["S"], v \in Page, NEW s \in Space, NEW t \in Space
    PROVE  EntryAt(FirstLevel(s, v)) = EntryAt(FirstLevel(t, v))
<1>1. FirstLevel(s, v) \in Cell /\ FirstLevel(t, v) \in Cell
  BY ProgramAssumption DEF FirstLevel, Cell
<1>2. /\ EntryAt(FirstLevel(s, v)) \in Values(Software, FirstLevel(s, v))
      /\ EntryAt(FirstLevel(t, v)) \in Values(Software, FirstLevel(t, v))
  BY <1>1 DEF Sound, Contents
<1> QED BY <1>2 DEF Orderly

\* What a store leaves in the tables.
LEMMA StoreCell ==
    ASSUME NEW ans, NEW ready, NEW rd, NEW iready, NEW step, Runs(ans, ready, rd, iready, step), NEW c
    PROVE  \/ EntryAt(c)' = EntryAt(c)
           \/ EntryAt(c)' \in Stores(Software, c)
<1>1. CASE tables' = tables
  BY <1>1 DEF EntryAt
<1>2. CASE tables' # tables
  <2>1. /\ port.w # NoUpdate
        /\ tables' = [d \in DOMAIN tables \cup {port.w.cell} |->
                         IF d = port.w.cell THEN port.w.entry ELSE tables[d]]
    BY <1>2 DEF Runs, Cycle, Memory
  <2>2. CASE c = port.w.cell
    <3>1. EntryAt(c)' = port.w.entry
      BY <2>1, <2>2 DEF EntryAt
    <3>2. PICK o \in AllOps : o.w = port.w
      <4>1. NoOp.w = NoUpdate
        BY DEF NoOp
      <4> QED BY <2>1, <4>1 DEF Runs, Shape, Registers, Writes
    <3>3. port.w.entry \in Stores(Software, c)
      BY <2>1, <2>2, <3>2 DEF Stores, AllOps
    <3> QED BY <3>1, <3>3
  <2>3. CASE c # port.w.cell
    BY <2>1, <2>3 DEF EntryAt
  <2> QED BY <2>2, <2>3
<1> QED BY <1>1, <1>2

\* Contents is kept.
LEMMA ContentsKept ==
    ASSUME NEW ans, NEW ready, NEW rd, NEW iready, NEW step, Goes(ans, ready, rd, iready, step)
    PROVE  Contents'
<1>1. Runs(ans, ready, rd, iready, step) /\ \A c \in Cell : EntryAt(c) \in Values(Software, c)
  BY DEF Goes, Sound, Contents
<1>2. ASSUME NEW c \in Cell PROVE EntryAt(c)' \in Values(Software, c)
  BY <1>1, StoreCell DEF Values
<1>3. Software' = Software
  BY <1>1, SameSoftware
<1> QED BY <1>2, <1>3 DEF Contents

\* A pointer of the first level stays.
LEMMA PointerStays ==
    ASSUME NEW ans, NEW ready, NEW rd, NEW iready, NEW step, Goes(ans, ready, rd, iready, step),
           NEW t \in Table, NEW v \in Page, EntryAt(FirstLevel(t, v)).kind = "ptr"
    PROVE  EntryAt(FirstLevel(t, v))' = EntryAt(FirstLevel(t, v))
<1> DEFINE c == FirstLevel(t, v)
<1>1. c \in Cell
  BY DEF FirstLevel, Cell
<1>2. EntryAt(c) \in Values(Software, c) /\ Orderly(Software) /\ Runs(ans, ready, rd, iready, step)
  BY <1>1 DEF Goes, Sound, Contents
<1>3. Stores(Software, c) \subseteq {EntryAt(c)}
  BY <1>2 DEF Orderly
<1>4. EntryAt(c)' = EntryAt(c) \/ EntryAt(c)' \in Stores(Software, c)
  BY <1>2, StoreCell
<1> QED BY <1>3, <1>4

\* While an answer to the walker comes, or a CSR instruction is on its way, no
\* store is done.
LEMMA NoStore ==
    ASSUME NEW ans, NEW ready, NEW rd, NEW iready, NEW step, Runs(ans, ready, rd, iready, step),
           RespMmu(ans) \/ csr.op # "none"
    PROVE  tables' = tables
<1>1. csr.op # "none" => port.src # "lsu"
  BY DEF Runs, Shape, TypeOK, Waits, Pipe
<1>2. ~RespLsu(ans)
  BY <1>1 DEF RespMmu, RespLsu
<1> QED BY <1>2 DEF Runs, Cycle, Memory

\* A CSR instruction on its way, and its page.
LEMMA CsrPage ==
    ASSUME NEW ans, NEW ready, NEW rd, NEW iready, NEW step, Runs(ans, ready, rd, iready, step),
           csr.stage # 0
    PROVE  /\ csr.op # "none" /\ csr.op \in Software.csr /\ mem_q = NoOp /\ step.instr = "none"
           /\ tables' = tables /\ fetch.priv = "S" /\ fetch.page \in Software.code["S"]
           /\ Software.code["S"] \subseteq Page
           /\ ~DtlbMiss(ans) /\ (state_q # "IDLE" => ~dtlb_req_q /\ virt_addr_q = fetch.page)
<1>1. Shape /\ IsProgram(Software) /\ ans \in BOOLEAN
  BY SameSoftware DEF Runs
<1>2. csr.op # "none" /\ csr.op \in Software.csr
  BY <1>1 DEF Shape, Registers, IsProgram, NoCsr
<1>3. mem_q = NoOp /\ priv = "S" /\ ~turn /\ step.instr = "none"
  BY <1>2, CsrAlone
<1>4. fetch.priv = "S" /\ fetch.page \in Software.code["S"]
  BY <1>1, <1>3 DEF Shape, Pipe, TypeOK
<1>5. Software.code["S"] \subseteq Page
  BY <1>1 DEF IsProgram, Addr, Priv
<1>6. NoOp.op = "none"
  BY DEF NoOp
<1>7. ~DtlbMiss(ans)
  BY <1>1, <1>3, <1>6, Asks DEF DtlbMiss
<1>8. state_q # "IDLE" => ~dtlb_req_q /\ virt_addr_q = fetch.page
  BY <1>1, <1>3, <1>6 DEF Shape, Walks, Registers
<1> QED BY <1>2, <1>3, <1>4, <1>5, <1>7, <1>8, NoStore

\* How satp changes: with the page of the instruction mapped as before.
LEMMA SatpStep ==
    ASSUME NEW ans, NEW ready, NEW rd, NEW iready, NEW step, Goes(ans, ready, rd, iready, step),
           satp' # satp
    PROVE  /\ csr.stage = 3 /\ "satp" \in Software.csr /\ ~Flush
           /\ \A v \in Software.code["S"] : /\ EntryAt(FirstLevel(satp', v)) = EntryAt(FirstLevel(satp, v))
                                            /\ Gives(satp, v)' = Gives(satp, v)
<1>1. Runs(ans, ready, rd, iready, step) /\ Sound /\ Orderly(Software)
  BY DEF Goes
<1>2. csr = [op |-> "satp", stage |-> 3] /\ satp' \in Space
  BY <1>1 DEF Runs, Cycle, Pipeline
<1>3. csr.stage = 3 /\ csr.op = "satp"
  BY <1>2
<1>4. "satp" \in Software.csr /\ tables' = tables /\ Software.code["S"] \subseteq Page
  BY <1>1, <1>3, CsrPage
<1>5. satp \in Space
  BY <1>1 DEF Sound, Shape, TypeOK
<1>6. ASSUME NEW v \in Software.code["S"]
      PROVE  EntryAt(FirstLevel(satp', v)) = EntryAt(FirstLevel(satp, v)) /\ Gives(satp, v)' = Gives(satp, v)
  <2>1. EntryAt(FirstLevel(satp', v)) = EntryAt(FirstLevel(satp, v))
    BY <1>1, <1>2, <1>4, <1>5, RootsAlike
  <2>2. EntryAt(FirstLevel(satp, v))' = EntryAt(FirstLevel(satp', v))
    BY <1>4 DEF EntryAt, FirstLevel
  <2>3. \A t : EntryAt(SecondLevel(t, v))' = EntryAt(SecondLevel(t, v))
    BY <1>4 DEF EntryAt, SecondLevel
  <2> QED BY <2>1, <2>2, <2>3 DEF Gives
<1> QED BY <1>3, <1>4, <1>6 DEF Flush

\* What is given in the next cycle.
LEMMA GaveNext ==
    ASSUME NEW ans, NEW ready, NEW rd, NEW iready, NEW step, Goes(ans, ready, rd, iready, step), NEW v \in Page
    PROVE  /\ gave'[v] = IF Flush \/ satp' # satp THEN {Gives(satp, v)'} ELSE gave[v] \cup {Gives(satp, v)'}
           /\ Gives(satp, v)' \in gave'[v]
<1>1. gave' = [u \in Page |-> IF Flush \/ satp' # satp THEN {Gives(satp, u)'}
                              ELSE gave[u] \cup {Gives(satp, u)'}]
  BY DEF Goes, Runs, Cycle, History
<1> QED BY <1>1

\* What was given stays given, until there is a flush.
LEMMA GaveStays ==
    ASSUME NEW ans, NEW ready, NEW rd, NEW iready, NEW step, Goes(ans, ready, rd, iready, step),
           NEW v \in Page, NEW e \in gave[v], ~Flush, satp' = satp \/ v \in Software.code["S"]
    PROVE  e \in gave'[v]
<1>1. CASE satp' = satp
  BY <1>1, GaveNext
<1>2. CASE satp' # satp
  <2>1. csr.stage = 3 /\ Gives(satp, v)' = Gives(satp, v)
    BY <1>2, SatpStep
  <2>2. gave[v] = {Gives(satp, v)}
    BY <2>1 DEF Goes, Sound, Given
  <2> QED BY <1>2, <2>1, <2>2, GaveNext
<1> QED BY <1>1, <1>2

\* Given is kept.
LEMMA GivenKept ==
    ASSUME NEW ans, NEW ready, NEW rd, NEW iready, NEW step, Goes(ans, ready, rd, iready, step)
    PROVE  Given'
<1>1. Runs(ans, ready, rd, iready, step) /\ Shape /\ Given /\ Roots /\ Walks /\ Tlbs
  BY DEF Goes, Sound, Runs, Cycle, Shape
<1>2. Software' = Software
  BY <1>1, SameSoftware
<1>3. /\ itlb' = [valid |-> ItlbValid,
                  va |-> IF state_q = "UPDATE" /\ ~dtlb_req_q THEN virt_addr_q ELSE itlb.va,
                  entry |-> IF state_q = "UPDATE" /\ ~dtlb_req_q THEN pte_entry_q ELSE itlb.entry]
      /\ dtlb' = [valid |-> ~Flush /\ (dtlb.valid \/ (state_q = "UPDATE" /\ dtlb_req_q)),
                  va |-> IF state_q = "UPDATE" /\ dtlb_req_q THEN virt_addr_q ELSE dtlb.va,
                  entry |-> IF state_q = "UPDATE" /\ dtlb_req_q THEN pte_entry_q ELSE dtlb.entry]
  BY <1>1 DEF Tlbs
<1>4. /\ itlb.valid => itlb.va \in Page
      /\ dtlb.valid => dtlb.va \in Page
      /\ state_q = "UPDATE" => virt_addr_q \in Page /\ pte_entry_q \in gave[virt_addr_q]
  BY <1>1 DEF Shape, TypeOK, Walks, Roots
<1>5. /\ csr' = IF step.instr # "none" THEN [op |-> step.instr, stage |-> 1]
                ELSE IF csr.stage \in {1, 2} THEN [csr EXCEPT !.stage = @ + 1] ELSE NoCsr
      /\ satp' \in IF csr = [op |-> "satp", stage |-> 3] THEN Space ELSE {satp}
  BY <1>1 DEF Runs, Cycle, Pipeline
<1>6. csr'.stage \in {2, 3} => csr.stage \in {1, 2} /\ satp' = satp
  <2>1. NoCsr.stage = 0
    BY DEF NoCsr
  <2> QED BY <1>5, <2>1
<1>7. ASSUME csr'.stage \in {2, 3}, NEW v \in Page
      PROVE  gave'[v] = {Gives(satp, v)'}
  <2>1. CASE csr.stage = 1
    BY <2>1, GaveNext DEF Flush
  <2>2. CASE csr.stage = 2
    <3>1. tables' = tables /\ satp' = satp
      BY <1>1, <1>6, <1>7, <2>2, CsrPage
    <3>2. Gives(satp, v)' = Gives(satp, v)
      BY <3>1 DEF Gives, EntryAt, FirstLevel, SecondLevel
    <3>3. gave[v] = {Gives(satp, v)}
      BY <1>1, <2>2 DEF Given
    <3> QED BY <3>2, <3>3, GaveNext
  <2> QED BY <1>6, <1>7, <2>1, <2>2
<1>8. ASSUME itlb'.valid
      PROVE  itlb'.entry \in gave'[itlb'.va] /\ (csr'.stage \in {2, 3} => itlb'.va \in Software.code["S"])
  <2>1. ~Flush
    BY <1>3, <1>8 DEF ItlbValid
  <2>2. CASE state_q = "UPDATE" /\ ~dtlb_req_q
    <3>1. itlb'.va = virt_addr_q /\ itlb'.entry = pte_entry_q
      BY <1>3, <2>2
    <3>2. csr.stage # 0 => virt_addr_q \in Software.code["S"]
      BY <1>1, <2>2, CsrPage
    <3>3. satp' = satp \/ virt_addr_q \in Software.code["S"]
      BY <3>2, SatpStep
    <3>4. pte_entry_q \in gave'[virt_addr_q]
      BY <1>4, <2>1, <2>2, <3>3, GaveStays
    <3> QED BY <1>6, <3>1, <3>2, <3>4
  <2>3. CASE ~(state_q = "UPDATE" /\ ~dtlb_req_q)
    <3>1. itlb'.va = itlb.va /\ itlb'.entry = itlb.entry /\ itlb.valid
      BY <1>3, <1>8, <2>1, <2>3 DEF ItlbValid
    <3>2. csr.stage \in {2, 3} => itlb.va \in Software.code["S"]
      BY <1>1, <3>1 DEF Given
    <3>3. satp' = satp \/ itlb.va \in Software.code["S"]
      BY <3>2, SatpStep
    <3>4. itlb.entry \in gave'[itlb.va]
      BY <1>1, <1>4, <2>1, <3>1, <3>3, GaveStays DEF Given
    <3>5. csr.stage # 1
      BY <2>1 DEF Flush
    <3> QED BY <1>6, <3>1, <3>2, <3>4, <3>5
  <2> QED BY <2>2, <2>3
<1>9. ASSUME dtlb'.valid
      PROVE  dtlb'.entry \in gave'[dtlb'.va] /\ csr'.stage \notin {2, 3}
  <2>1. ~Flush
    BY <1>3, <1>9
  <2>2. csr.stage # 1
    BY <2>1 DEF Flush
  <2>3. CASE state_q = "UPDATE" /\ dtlb_req_q
    <3>1. dtlb'.va = virt_addr_q /\ dtlb'.entry = pte_entry_q
      BY <1>3, <2>3
    <3>2. csr.stage = 0
      BY <1>1, <2>3, CsrPage
    <3>3. satp' = satp
      BY <3>2, SatpStep
    <3> QED BY <1>4, <1>6, <2>1, <2>3, <3>1, <3>2, <3>3, GaveStays
  <2>4. CASE ~(state_q = "UPDATE" /\ dtlb_req_q)
    <3>1. dtlb'.va = dtlb.va /\ dtlb'.entry = dtlb.entry /\ dtlb.valid
      BY <1>3, <1>9, <2>4
    <3>2. csr.stage \notin {2, 3}
      BY <1>1, <3>1 DEF Given
    <3>3. satp' = satp
      BY <3>2, SatpStep
    <3> QED BY <1>1, <1>4, <1>6, <2>1, <2>2, <3>1, <3>2, <3>3, GaveStays DEF Given
  <2> QED BY <2>3, <2>4
<1>10. \A v \in Page : Gives(satp, v)' \in gave'[v]
  BY GaveNext
<1> QED BY <1>2, <1>7, <1>8, <1>9, <1>10 DEF Given

\* Roots is kept.
LEMMA RootsKept ==
    ASSUME NEW ans, NEW ready, NEW rd, NEW iready, NEW step, Goes(ans, ready, rd, iready, step)
    PROVE  Roots'
<1>1. /\ Runs(ans, ready, rd, iready, step) /\ Sound /\ Orderly(Software) /\ Shape /\ Roots
      /\ Walker(ans, rd) /\ Walks
  BY DEF Goes, Sound, Runs, Cycle, Shape
<1>2. Software' = Software
  BY <1>1, SameSoftware
<1>3. satp \in Space /\ satp' \in Space /\ Space \subseteq Table
  BY <1>1, TypesKept, ProgramAssumption DEF Shape, TypeOK
\* If satp changes, the walk is for a page that every root maps alike.
<1>4. ASSUME satp' # satp, state_q # "IDLE"
      PROVE  /\ ~dtlb_req_q /\ virt_addr_q \in Software.code["S"] /\ "satp" \in Software.csr
             /\ EntryAt(FirstLevel(satp', virt_addr_q)) = EntryAt(FirstLevel(satp, virt_addr_q))
  BY <1>1, <1>4, SatpStep, CsrPage
\* The first entry, for the first level.
<1>5. ASSUME state_q = "LEVEL_FIRST"
      PROVE  EntryAt(pte_addr_q) = EntryAt(FirstLevel(satp, virt_addr_q))
  <2>1. CASE pte_addr_q = FirstLevel(satp, virt_addr_q)
    BY <2>1
  <2>2. CASE virt_addr_q \in Software.code["S"] /\ "satp" \in Software.csr
    <3>1. virt_addr_q \in Page /\ \E t \in Space : pte_addr_q = FirstLevel(t, virt_addr_q)
      BY <1>1, <1>5 DEF Walks, FirstLevel
    <3> QED BY <1>1, <1>3, <2>2, <3>1, RootsAlike
  <2> QED BY <1>1, <1>5, <2>1, <2>2 DEF Roots
\* What comes with an answer to the walker is what the tables give after it.
<1>6. ASSUME RespMmu(ans), state_q \in {"LEVEL_FIRST", "LEVEL_SECOND"}
      PROVE  /\ tables' = tables /\ port.cell = pte_addr_q /\ virt_addr_q \in Page
             /\ EntryAt(FirstLevel(satp, virt_addr_q))' =
                   EntryAt(FirstLevel(satp, virt_addr_q))
  <2>1. tables' = tables /\ port.cell = pte_addr_q /\ virt_addr_q \in Page
    BY <1>1, <1>6, NoStore DEF RespMmu, Walks
  <2>2. EntryAt(FirstLevel(satp', virt_addr_q)) = EntryAt(FirstLevel(satp, virt_addr_q))
    BY <1>4, <1>6
  <2>3. virt_addr_q' = virt_addr_q
    BY <1>1, <1>6 DEF Walker, WalkStart, WalkSecond, WalkEnd, WalkUpdate, WalkWait
  <2> QED BY <2>1, <2>2, <2>3 DEF EntryAt, FirstLevel
<1>7. CASE WalkStart(ans, rd)
  <2>1. /\ state_q = "IDLE" /\ state_q' = "LEVEL_FIRST" /\ dtlb_req_q' = DtlbMiss(ans)
        /\ pte_addr_q' = FirstLevel(satp, virt_addr_q')
        /\ ~DtlbMiss(ans) => virt_addr_q' = fetch.page
    BY <1>7 DEF WalkStart
  <2>2. CASE satp' = satp
    BY <2>1, <2>2 DEF Roots
  <2>3. CASE satp' # satp
    <3>1. ~DtlbMiss(ans) /\ fetch.page \in Software.code["S"] /\ "satp" \in Software.csr
      BY <1>1, <2>3, SatpStep, CsrPage
    <3> QED BY <1>2, <2>1, <3>1 DEF Roots
  <2> QED BY <2>2, <2>3
<1>8. CASE WalkSecond(ans)
  <2>1. /\ state_q = "LEVEL_FIRST" /\ RespMmu(ans) /\ PteRead.kind = "ptr" /\ state_q' = "LEVEL_SECOND"
        /\ pte_addr_q' = SecondLevel(PteRead.to, ReqPage) /\ virt_addr_q' = virt_addr_q
    BY <1>8 DEF WalkSecond, Follows
  <2>2. ReqPage = virt_addr_q
    BY <1>1, <2>1 DEF ReqPage, Walks
  <2>3. PteRead = EntryAt(FirstLevel(satp, virt_addr_q))
    BY <1>5, <1>6, <2>1 DEF PteRead
  <2>4. EntryAt(FirstLevel(satp, virt_addr_q))' = PteRead
    BY <1>6, <2>1, <2>3
  <2> QED BY <2>1, <2>2, <2>4 DEF Roots
<1>9. CASE WalkEnd(ans)
  <2>1. /\ state_q \in {"LEVEL_FIRST", "LEVEL_SECOND"} /\ RespMmu(ans) /\ ~Follows(ans)
        /\ pte_entry_q' = PteRead /\ state_q' = "UPDATE" /\ virt_addr_q' = virt_addr_q
    BY <1>9 DEF WalkEnd
  <2>2. /\ tables' = tables /\ PteRead = EntryAt(pte_addr_q) /\ virt_addr_q \in Page
        /\ EntryAt(FirstLevel(satp, virt_addr_q))' = EntryAt(FirstLevel(satp, virt_addr_q))
    BY <1>6, <2>1 DEF PteRead
  <2>3. Gives(satp, virt_addr_q)' = PteRead
    <3>1. CASE state_q = "LEVEL_FIRST"
      <4>1. PteRead = EntryAt(FirstLevel(satp, virt_addr_q)) /\ PteRead.kind # "ptr"
        BY <1>5, <2>1, <2>2, <3>1 DEF Follows
      <4> QED BY <2>2, <4>1 DEF Gives
    <3>2. CASE state_q = "LEVEL_SECOND"
      <4> DEFINE first == EntryAt(FirstLevel(satp, virt_addr_q))
      <4>1. first.kind = "ptr" /\ pte_addr_q = SecondLevel(first.to, virt_addr_q)
        BY <1>1, <3>2 DEF Roots
      <4>2. Gives(satp, virt_addr_q)' = EntryAt(SecondLevel(first.to, virt_addr_q))'
        BY <2>1, <2>2, <4>1 DEF Gives, SecondLevel
      <4>3. EntryAt(SecondLevel(first.to, virt_addr_q))' = EntryAt(SecondLevel(first.to, virt_addr_q))
        BY <2>1, <2>2 DEF EntryAt, SecondLevel
      <4> QED BY <2>2, <4>1, <4>2, <4>3
    <3> QED BY <2>1, <3>1, <3>2
  <2>4. Gives(satp, virt_addr_q)' \in gave'[virt_addr_q]
    <3>1. PICK v \in Page : v = virt_addr_q
      BY <2>2
    <3>2. Gives(satp, v)' \in gave'[v]
      BY GaveNext
    <3>3. Gives(satp, virt_addr_q)' = Gives(satp, v)'
      BY <2>1, <3>1 DEF Gives, EntryAt, FirstLevel, SecondLevel
    <3> QED BY <3>1, <3>2, <3>3
  <2> QED BY <2>1, <2>3, <2>4 DEF Roots
<1>10. CASE WalkUpdate
  BY <1>10 DEF WalkUpdate, Roots
<1>11. CASE WalkWait(ans, rd)
  <2>1. /\ state_q' = state_q /\ dtlb_req_q' = dtlb_req_q /\ virt_addr_q' = virt_addr_q
        /\ pte_addr_q' = pte_addr_q /\ state_q # "UPDATE"
    BY <1>11 DEF WalkWait, walkVars
  <2>2. CASE state_q = "LEVEL_FIRST"
    BY <1>1, <1>2, <1>4, <2>1, <2>2 DEF Roots
  <2>3. CASE state_q = "LEVEL_SECOND"
    <3> DEFINE first == EntryAt(FirstLevel(satp, virt_addr_q))
    <3>1. first.kind = "ptr" /\ pte_addr_q = SecondLevel(first.to, virt_addr_q) /\ virt_addr_q \in Page
      BY <1>1, <2>3 DEF Roots, Walks
    <3>2. EntryAt(FirstLevel(satp, virt_addr_q))' = first
      <4>1. CASE satp' = satp
        <5>1. PICK t \in Table, v \in Page : t = satp /\ v = virt_addr_q
          BY <1>3, <3>1
        <5>2. EntryAt(FirstLevel(t, v))' = EntryAt(FirstLevel(t, v))
          BY <3>1, <5>1, PointerStays
        <5> QED BY <2>1, <4>1, <5>1, <5>2 DEF EntryAt, FirstLevel
      <4>2. CASE satp' # satp
        <5>1. EntryAt(FirstLevel(satp', virt_addr_q)) = first
          BY <1>4, <2>3, <4>2
        <5>2. tables' = tables
          <6>1. csr.stage # 0
            BY <4>2, SatpStep
          <6> QED BY <1>1, <6>1, CsrPage
        <5> QED BY <2>1, <5>1, <5>2 DEF EntryAt, FirstLevel
      <4> QED BY <4>1, <4>2
    <3> QED BY <2>1, <2>3, <3>1, <3>2 DEF Roots
  <2>4. CASE state_q = "IDLE"
    BY <2>1, <2>4 DEF Roots
  <2> QED BY <1>1, <2>1, <2>2, <2>3, <2>4 DEF Shape, TypeOK
<1> QED BY <1>1, <1>7, <1>8, <1>9, <1>10, <1>11 DEF Walker

\* Promised is kept.
LEMMA PromisedKept ==
    ASSUME NEW ans, NEW ready, NEW rd, NEW iready, NEW step, Goes(ans, ready, rd, iready, step)
    PROVE  Promised'
<1> DEFINE opcode == step.opcode
<1>1. /\ Runs(ans, ready, rd, iready, step) /\ Shape /\ Given /\ Promised
      /\ ans \in BOOLEAN /\ ready \in BOOLEAN /\ (ready => Offered(ans))
  BY DEF Goes, Sound, Runs, Cycle
<1>2. Outcomes(ans, ready, opcode)
  BY <1>1, StepFacts
<1>3. ASSUME mem_unaligned_e2_q'
      PROVE  Outcome("align", fifo'[1], NoFrame) \in due'
  <2>1. Misaligned(ans, ready, opcode)
    BY <1>2, <1>3 DEF Outcomes, Drops, Accepted, Refused, Waiting, Moves
  <2>2. due' = Allowed(mem_q, priv) /\ mem_q.mis /\ fifo' = <<mem_q>>
    BY <2>1 DEF Misaligned
  <2>3. due' = {Outcome("align", mem_q, NoFrame)}
    BY <2>2 DEF Allowed
  <2> QED BY <2>2, <2>3
<1>4. ASSUME Accepted(ans, ready, opcode)
      PROVE  /\ fifo' = <<mem_q>> /\ due' = Allowed(mem_q, priv) /\ ~mem_q.mis
             /\ Requests(ans) /\ fault_q' = Faults(ans)
  BY <1>1, <1>4, Asks DEF Accepted, Accepts
<1>5. ASSUME fault_q' # {}
      PROVE  Outcome("page", fifo'[1], NoFrame) \in due'
  <2>1. Accepted(ans, ready, opcode)
    BY <1>2, <1>5 DEF Outcomes, Drops, Misaligned, Refused, Waiting, Moves
  <2>2. VmD /\ DtlbHit /\ Denied(mem_q.op, priv, dtlb.entry)
    BY <1>1, <1>4, <1>5, <2>1, Offers
  <2>3. dtlb.entry \in gave[mem_q.va] /\ priv # "M"
    BY <1>1, <2>2 DEF Given, DtlbHit, VmD
  <2>4. Outcome("page", mem_q, NoFrame) \in Allowed(mem_q, priv)
    BY <1>4, <2>1, <2>2, <2>3 DEF Allowed
  <2> QED BY <1>4, <2>1, <2>4
<1>6. ASSUME port'.src = "lsu"
      PROVE  Reaches(fifo'[1], port'.to) \in due'
  <2>1. CASE Waiting(ans, ready, opcode)
    <3>1. fifo' = fifo /\ due' = due
      BY <2>1 DEF Waiting
    <3>2. port' = port
      BY <1>1, <2>1, PortNext
    <3> QED BY <1>1, <1>6, <3>1, <3>2 DEF Promised, Reaches
  <2>2. CASE Accepted(ans, ready, opcode) /\ Faults(ans) = {}
    <3>1. port' = PortReq(ans) /\ PortReq(ans).src = "lsu"
      BY <1>1, <2>2, PortNext
    <3>2. PortReq(ans).to = OutTo /\ (VmD => DtlbHit /\ ~Denied(mem_q.op, priv, dtlb.entry))
      BY <1>1, <3>1, Offers
    <3>3. Reaches(mem_q, OutTo) \in Allowed(mem_q, priv)
      <4>1. CASE VmD
        <5>1. dtlb.entry \in gave[mem_q.va] /\ OutTo = dtlb.entry.to /\ priv # "M"
          BY <1>1, <3>2, <4>1 DEF Given, DtlbHit, VmD, OutTo
        <5> QED BY <1>4, <2>2, <3>2, <4>1, <5>1 DEF Allowed
      <4>2. CASE ~VmD
        BY <1>4, <2>2, <4>2 DEF Allowed, VmD, OutTo
      <4> QED BY <4>1, <4>2
    <3> QED BY <1>4, <2>2, <3>1, <3>2, <3>3
  <2> QED BY <1>1, <1>6, <2>1, <2>2, PortNext
<1> QED BY <1>3, <1>5, <1>6 DEF Promised, Reaches

\* Answers is kept.
LEMMA AnswersKept ==
    ASSUME NEW ans, NEW ready, NEW rd, NEW iready, NEW step, Goes(ans, ready, rd, iready, step)
    PROVE  Answers'
<1>1. /\ Runs(ans, ready, rd, iready, step) /\ Shape /\ Given /\ Promised
      /\ iready => FetchOffered(rd)
  BY DEF Goes, Sound, Runs, Cycle
<1>2. /\ answer' = IF Completes(ans) THEN [got |-> Got(ans), allowed |-> due] ELSE Quiet
      /\ fetched' = IF FetchAccept(rd, iready)
                    THEN [got |-> IF ~VmI THEN fetch.page ELSE IF FetchFault(rd) THEN NoFrame ELSE itlb.entry.to,
                          allowed |-> FetchAllowed]
                    ELSE NoFetch
  BY <1>1 DEF Runs, Cycle, History
<1>3. Quiet.got \in Quiet.allowed /\ NoFetch.got \in NoFetch.allowed
  BY DEF Quiet, NoFetch
<1>4. ASSUME Completes(ans)
      PROVE  Got(ans) \in due
  <2>1. fifo # <<>>
    BY <1>1, <1>4 DEF Completes, Ack, RespLsu, Shape, TypeOK, Waits
  <2>2. PICK o \in AllOps : fifo = <<o>>
    BY <1>1, <2>1 DEF Shape, Registers
  <2>3. Oldest(fifo) = o /\ fifo[1] = o
    BY <2>2 DEF Oldest
  <2>4. \A op : op = o.op => [o EXCEPT !.op = op].op = o.op /\ [o EXCEPT !.op = op].va = o.va
    <3>1. o \in Op
      BY <1>1, SameSoftware DEF IsProgram, AllOps
    <3> QED BY <3>1 DEF Op
  <2>5. \A exc, op, to : op = o.op => Outcome(exc, [o EXCEPT !.op = op], to) = Outcome(exc, o, to)
    BY <2>4 DEF Outcome
  <2>6. CASE mem_unaligned_e2_q
    BY <1>1, <2>3, <2>6 DEF Got, Promised
  <2>7. CASE ~mem_unaligned_e2_q /\ fault_q # {}
    <3>1. fault_q = {o.op} /\ o.op \in {"ld", "st"}
      BY <1>1, <2>3, <2>7 DEF Shape, TypeOK, Waits
    <3>2. (IF "ld" \in fault_q THEN "ld" ELSE "st") = o.op
      BY <3>1
    <3>3. Got(ans) = Outcome("page", o, NoFrame)
      BY <2>3, <2>5, <2>7, <3>2 DEF Got
    <3> QED BY <1>1, <2>3, <2>7, <3>3 DEF Promised
  <2>8. CASE ~mem_unaligned_e2_q /\ fault_q = {}
    <3>1. RespLsu(ans) /\ pending_lsu_e2_q /\ port.src = "lsu" /\ port.op = o.op
      BY <1>1, <1>4, <2>3, <2>8 DEF Completes, Ack, RespLsu, Shape, Waits
    <3>2. Reaches(o, port.to) \in due
      BY <1>1, <2>3, <3>1 DEF Promised
    <3>3. Got(ans) = Reaches(o, port.to)
      BY <2>3, <2>5, <2>8, <3>1 DEF Got, Err, Reaches
    <3> QED BY <3>2, <3>3
  <2> QED BY <2>6, <2>7, <2>8
<1>5. ASSUME FetchAccept(rd, iready), VmI
      PROVE  (IF FetchFault(rd) THEN NoFrame ELSE itlb.entry.to) \in FetchAllowed
  <2>1. ItlbHit(rd)
    BY <1>1, <1>5 DEF FetchAccept, FetchOffered, FetchFault
  <2>2. itlb.entry \in gave[fetch.page]
    BY <1>1, <2>1 DEF ItlbHit, Given
  <2> QED BY <1>5, <2>1, <2>2 DEF FetchAllowed, FetchFault
<1>6. ASSUME ~VmI
      PROVE  fetch.page \in FetchAllowed
  BY <1>6 DEF FetchAllowed
<1>7. answer'.got \in answer'.allowed
  BY <1>2, <1>3, <1>4
<1>8. fetched'.got \in fetched'.allowed
  BY <1>2, <1>3, <1>5, <1>6
<1> QED BY <1>7, <1>8 DEF Answers

\* The initial states are sound.
LEMMA SoundInit ==
    ASSUME Init
    PROVE  Sound
<1>1. Shape
  BY ShapeInit
<1>2. Given
  <2>1. csr.stage = 0 /\ ~itlb.valid /\ ~dtlb.valid
    BY DEF Init, NoCsr, NoEntry
  <2>2. \A v \in Page : Gives(satp, v) \in gave[v]
    BY DEF Init
  <2> QED BY <2>1, <2>2 DEF Given
<1>3. Roots
  BY DEF Init, Roots
<1>4. Promised
  BY DEF Init, Promised, NoReq
<1>5. Contents
  BY DEF Init, Contents, EntryAt, Values
<1>6. Answers
  BY DEF Init, Answers, Quiet, NoFetch
<1> QED BY <1>1, <1>2, <1>3, <1>4, <1>5, <1>6 DEF Sound

\* Sound is kept, by orderly software.
LEMMA SoundStep ==
    ASSUME Sound, [Next]_vars, \A n \in DOMAIN Programs : Orderly(Programs[n])
    PROVE  Sound'
<1>1. Orderly(Software) /\ Shape
  BY DEF Sound, Shape, Registers, Software
<1>2. CASE Next
  <2>1. PICK ans \in BOOLEAN, ready \in BOOLEAN, rd \in BOOLEAN, iready \in BOOLEAN :
            \E step : Cycle(ans, ready, rd, iready, step)
    BY <1>2, CycleOfNext
  <2>2. PICK step : Cycle(ans, ready, rd, iready, step)
    BY <2>1
  <2>3. Goes(ans, ready, rd, iready, step)
    BY <1>1, <2>2 DEF Goes, Runs
  <2>4. Shape'
    BY <1>1, <1>2, ShapeStep
  <2> QED BY <2>3, <2>4, GivenKept, RootsKept, PromisedKept, ContentsKept, AnswersKept DEF Sound
<1>3. CASE UNCHANGED vars
  <2>1. Shape'
    BY <1>1, <1>3, ShapeStep
  <2>2. Given'
    BY <1>3 DEF Sound, Given, Gives, EntryAt, FirstLevel, SecondLevel, Software,
                vars, mmuVars, memVars, coreVars, history
  <2>3. Roots'
    BY <1>3 DEF Sound, Roots, EntryAt, FirstLevel, SecondLevel, Software,
                vars, mmuVars, walkVars, memVars, coreVars, history
  <2>4. Promised'
    BY <1>3 DEF Sound, Promised, Reaches, vars, lsuVars, mmuVars, memVars, history
  <2>5. Contents'
    BY <1>3 DEF Sound, Contents, EntryAt, Software, vars, memVars, coreVars
  <2>6. Answers'
    BY <1>3 DEF Sound, Answers, vars, history
  <2> QED BY <2>1, <2>2, <2>3, <2>4, <2>5, <2>6 DEF Sound
<1> QED BY <1>2, <1>3

\* Each answer, to an access and to a fetch, is one the tables allow it, and of
\* the access the pipeline takes it for, when the software is orderly.
THEOREM AnswersAllowed ==
    ASSUME \A n \in DOMAIN Programs : Orderly(Programs[n])
    PROVE  Spec => []Answers
<1>1. Init => Sound
  BY SoundInit
<1>2. Sound /\ [Next]_vars => Sound'
  BY SoundStep
<1>3. Sound => Answers
  BY DEF Sound
<1> QED BY <1>1, <1>2, <1>3, PTL DEF Spec
=============================================================================
