------------------------------- MODULE LsuMmu --------------------------------
(* The load store unit and the MMU behind it, biriscv_lsu.v and              *)
(* biriscv_mmu.v, with the port to the data cache that the page table walker *)
(* shares with loads and stores.  A step is one clock cycle of all of them.  *)
(*                                                                           *)
(* An address is a page: a virtual one for an access that is translated, the *)
(* frame itself for one that is not.  A table entry is a record; the tables  *)
(* are in memory, and a store that names a cell of them changes it.  Byte    *)
(* lanes, data and the offset in a page are left out, and so is the          *)
(* maintenance of the data cache.                                            *)
(*                                                                           *)
(* The data cache (port) takes one request at a time and answers it later;   *)
(* it may answer an access with a bus error, and never the walker.           *)
(* The pipeline issues accesses while it is not stalled and has              *)
(* instructions (supply); the fetch unit repeats a request until it is       *)
(* accepted; program says what the software that runs does.                  *)
EXTENDS Naturals, Sequences

CONSTANTS
    Page, Frame,    \* virtual pages, and physical ones
    Holes,          \* the frames that answer with a bus error
    Tables,         \* the frame the tables are in
    Table, Space,   \* the tables, and those of the first level: the values of satp
    Sum, Mxr,       \* mstatus.SUM and mstatus.MXR
    Programs,       \* pieces of software by name, see IsProgram
    Window          \* accesses issued for one fetch

Perm  == {"r", "w", "x", "u"}
Priv  == {"M", "S", "U"}   \* "M" also stands for satp off
\* An entry: absent, a pointer to a second level table, or a leaf.
NoFrame == "none"
Absent == [kind |-> "absent", to |-> NoFrame, perm |-> {}]
Entry == {Absent} \cup [kind : {"ptr"}, to : Table, perm : {{}}]
                  \cup [kind : {"leaf"}, to : Frame, perm : SUBSET Perm]
\* A cell: the entry for a page in a first or a second level table.
Cell  == [level : {1, 2}, table : Table, page : Page]
NoCell == [level |-> 0]
FirstLevel(t, v)  == [level |-> 1, table |-> t, page |-> v]
SecondLevel(t, v) == [level |-> 2, table |-> t, page |-> v]
Update == [cell : Cell, entry : Entry]
NoUpdate == [cell |-> NoCell]
Op    == [op : {"ld", "st"}, va : Page \cup Frame, mis : BOOLEAN, w : Update \cup {NoUpdate}]

\* The addresses of a privilege.
Addr(at) == IF at = "M" THEN Frame ELSE Page
\* What a piece of software does: its accesses and the pages it is fetched
\* from at each privilege, the CSR instructions it executes, the privileges
\* traps and returns take it to, and the tables it starts with.
IsProgram(p) ==
    /\ p.ops \in [Priv -> SUBSET Op]
    /\ p.code \in [Priv -> SUBSET (Page \cup Frame)]
    /\ \A at \in Priv : /\ p.code[at] # {} /\ p.code[at] \subseteq Addr(at)
                        /\ \A o \in p.ops[at] : o.va \in Addr(at)
    /\ p.csr \subseteq {"sfence", "satp"}
    /\ p.privs \subseteq Priv
    /\ p.satp \in Space
    /\ DOMAIN p.tables \subseteq Cell /\ \A c \in DOMAIN p.tables : p.tables[c] \in Entry

ASSUME ProgramAssumption ==
    /\ \A n \in DOMAIN Programs : IsProgram(Programs[n])
    /\ Holes \subseteq Frame /\ Tables \in Frame \ Holes
    /\ Page \cap Frame = {}
    /\ NoFrame \notin Frame \cup Table /\ Space \subseteq Table
    /\ Sum \in BOOLEAN /\ Mxr \in BOOLEAN /\ Window \in Nat \ {0}

VARIABLES
    mem_q,              \* the request register mem_*_q of the load store unit
    pending_lsu_e2_q,   \* a request was accepted and has no response
    mem_unaligned_e2_q,
    fifo,               \* u_lsu_request: what the requests in flight are
    hold_q,             \* load_q and store_q: requests seen and not accepted
    fault_q,            \* load_fault_q and store_fault_q
    state_q, dtlb_req_q, virt_addr_q, pte_addr_q, pte_entry_q,   \* the walker
    mem_req_q,          \* the walker's read is still to be accepted
    read_hold_q, src_mmu_q,   \* a request was refused: keep its source
    itlb, dtlb,         \* one entry each
    port,               \* the request the data cache is at work on
    tables,             \* the page tables in memory
    priv, satp,         \* data privilege and root table
    csr,                \* the CSR instruction on its way to write back
    fetch,              \* the request of the fetch unit
    turn,               \* a branch waits for that request to be accepted
    supply,             \* instructions fetched and not yet issued
    program,
    gave,               \* history: what the tables gave for a page since the last flush
    owed, due,          \* history: accesses issued; the answers the oldest may have
    answer, fetched     \* history: the answers of the last cycle

lsuVars    == <<mem_q, pending_lsu_e2_q, mem_unaligned_e2_q, fifo>>
walkVars   == <<state_q, dtlb_req_q, virt_addr_q, pte_addr_q, pte_entry_q>>
mmuVars    == <<hold_q, fault_q, walkVars, mem_req_q, read_hold_q, src_mmu_q, itlb, dtlb>>
memVars    == <<port, tables>>
coreVars   == <<priv, satp, csr, fetch, turn, supply, program>>
history    == <<gave, owed, due, answer, fetched>>
vars == <<lsuVars, mmuVars, memVars, coreVars, history>>

-----------------------------------------------------------------------------
Software == Programs[program]

NoOp    == [op |-> "none", va |-> Tables, mis |-> FALSE, w |-> NoUpdate]
NoReq   == [src |-> "none", op |-> "none", to |-> NoFrame, cell |-> NoCell, w |-> NoUpdate]
NoCsr   == [op |-> "none", stage |-> 0]
NoEntry == [valid |-> FALSE, va |-> Tables, entry |-> Absent]

\* The answer to an access or a fetch, and those it may have.
Outcome(exc, o, to) == [exc |-> exc, op |-> o.op, va |-> o.va, to |-> to]
Quiet   == [got |-> Outcome("quiet", NoOp, NoFrame), allowed |-> {Outcome("quiet", NoOp, NoFrame)}]
NoFetch == [got |-> "quiet", allowed |-> {"quiet"}]

\* The checks of pc_fault_r, load_fault_r and store_fault_r.
Denied(op, at, e) ==
    \/ op = "if" /\ ("x" \notin e.perm \/ ("u" \in e.perm) # (at = "U"))
    \/ at = "U" /\ "u" \notin e.perm
    \/ at = "S" /\ op # "if" /\ "u" \in e.perm /\ ~Sum
    \/ op = "ld" /\ "r" \notin e.perm /\ ~(at = "S" /\ Mxr /\ "x" \in e.perm)
    \/ op = "st" /\ ~({"r", "w"} \subseteq e.perm)

\* The tables: a cell that is not listed is absent.
EntryAt(c) == IF c \in DOMAIN tables THEN tables[c] ELSE Absent

-----------------------------------------------------------------------------
\* The response of a cycle, ans if there is one.
RespMmu(ans) == ans /\ port.src = "mmu"
RespLsu(ans) == ans /\ port.src = "lsu"
Ack(ans) == RespLsu(ans) \/ fault_q # {}
Err(ans) == (RespLsu(ans) /\ port.to \in Holes) \/ fault_q # {}

\* Mutation: an answer that is a fault lets the next access go too.
Delay_AnyAnswer(ans) == pending_lsu_e2_q /\ ~Ack(ans)
\* delay_lsu_e2_w: the next access waits for the response of the last.
Delay(ans) == pending_lsu_e2_q /\ ~(Ack(ans) /\ ~Err(ans))

\* The request of the load store unit in this cycle.
LsuReq(ans) == IF Delay(ans) \/ mem_q.mis THEN NoOp ELSE mem_q
Requests(ans) == LsuReq(ans).op # "none"
\* load_w and store_w.
Wanted(ans) == ({LsuReq(ans).op} \ {"none"}) \cup hold_q

VmD == priv # "M"
VmI == fetch.priv # "M"
DtlbHit == dtlb.valid /\ dtlb.va = mem_q.va
DtlbMiss(ans) == Wanted(ans) # {} /\ VmD /\ ~DtlbHit
ItlbHit(rd) == rd /\ itlb.valid /\ itlb.va = fetch.page
ItlbMiss(rd) == rd /\ VmI /\ ~ItlbHit(rd)
Faults(ans) == {o \in Wanted(ans) : VmD /\ DtlbHit /\ Denied(o, priv, dtlb.entry)}
FetchFault(rd) == VmI /\ ItlbHit(rd) /\ Denied("if", fetch.priv, itlb.entry)

\* The translated request of the load store unit.
OutOps(ans) == IF VmD THEN (IF DtlbHit THEN Wanted(ans) \ Faults(ans) ELSE {})
               ELSE {LsuReq(ans).op} \ {"none"}
OutTo == IF VmD THEN dtlb.entry.to ELSE mem_q.va

\* src_mmu_w.
SrcMmu == IF read_hold_q THEN src_mmu_q ELSE mem_req_q

PortReq(ans) ==
    IF SrcMmu
    THEN IF mem_req_q THEN [NoReq EXCEPT !.src = "mmu", !.op = "ld", !.to = Tables, !.cell = pte_addr_q]
         ELSE NoReq
    ELSE IF OutOps(ans) = {} THEN NoReq
         ELSE [src |-> "lsu", op |-> CHOOSE o \in OutOps(ans) : TRUE, to |-> OutTo,
               cell |-> NoCell, w |-> mem_q.w]

\* What is offered to the data cache and to the instruction cache: the inputs
\* ready and iready say that they take it.
Offered(ans) == PortReq(ans) # NoReq /\ (port.src = "none" \/ ans)
FetchOffered(rd) == rd /\ (VmI => ItlbHit(rd) /\ ~FetchFault(rd))

\* lsu_in_accept_o and fetch_in_accept_o.
CpuAccept(ready) == ~SrcMmu /\ ready
InAccept(ans, ready) ==
    IF VmD THEN (DtlbHit /\ CpuAccept(ready)) \/ Faults(ans) # {} ELSE CpuAccept(ready)
FetchAccept(rd, iready) == iready \/ FetchFault(rd)

Completes(ans) == Ack(ans) \/ mem_unaligned_e2_q
Squashes(ans)  == (Ack(ans) /\ Err(ans)) \/ mem_unaligned_e2_q

\* stall_o, and the accesses the pipeline may issue in this cycle.
Stall(ans, ready) == (Requests(ans) /\ ~InAccept(ans, ready)) \/ Delay(ans) \/ mem_q.mis
CanIssue(ans, ready) == ~Stall(ans, ready) /\ ~Squashes(ans) /\ csr.op = "none" /\ supply > 0

-----------------------------------------------------------------------------
\* Mutation: a misaligned access gets to E2 ahead of the response before it.
Pushes_Early(ans, ready) == (Requests(ans) /\ InAccept(ans, ready)) \/ mem_q.mis
\* push_i of u_lsu_request.
Pushes(ans, ready) == (Requests(ans) /\ InAccept(ans, ready)) \/ (mem_q.mis /\ ~Delay(ans))

\* The load store unit; opcode is the access that is issued, or NoOp.
Lsu(ans, ready, opcode) ==
    /\ mem_q' = IF Squashes(ans) THEN NoOp
                ELSE IF mem_q.op # "none" /\ Delay(ans) THEN mem_q
                ELSE IF Requests(ans) /\ ~InAccept(ans, ready) THEN mem_q
                ELSE opcode
    /\ pending_lsu_e2_q' = IF Requests(ans) /\ InAccept(ans, ready) THEN TRUE
                           ELSE IF Ack(ans) THEN FALSE ELSE pending_lsu_e2_q
    /\ mem_unaligned_e2_q' = (mem_q.mis /\ ~Delay(ans))
    /\ LET left == IF Completes(ans) /\ fifo # <<>> THEN Tail(fifo) ELSE fifo
       IN  fifo' = IF Pushes(ans, ready) /\ Len(fifo) < 2 THEN Append(left, mem_q) ELSE left

\* load_q, store_q and the fault registers.
Sticky(ans, ready) ==
    /\ hold_q' = IF ~Requests(ans) THEN hold_q
                 ELSE IF InAccept(ans, ready) THEN hold_q \ {mem_q.op} ELSE hold_q \cup {mem_q.op}
    /\ fault_q' = Faults(ans)

\* The walker.  ReqPage is request_addr_w while it is at work.
ReqPage == IF dtlb_req_q THEN mem_q.va ELSE fetch.page
PteRead == EntryAt(port.cell)
Follows(ans) == state_q = "LEVEL_FIRST" /\ RespMmu(ans) /\ PteRead.kind = "ptr"

WalkStart(ans, rd) ==
    /\ state_q = "IDLE" /\ (ItlbMiss(rd) \/ DtlbMiss(ans))
    /\ LET va == IF DtlbMiss(ans) THEN mem_q.va ELSE fetch.page
       IN  /\ virt_addr_q' = va
           /\ pte_addr_q' = FirstLevel(satp, va)
    /\ dtlb_req_q' = DtlbMiss(ans)
    /\ state_q' = "LEVEL_FIRST"
    /\ UNCHANGED pte_entry_q

WalkSecond(ans) ==
    /\ Follows(ans)
    /\ pte_addr_q' = SecondLevel(PteRead.to, ReqPage)
    /\ state_q' = "LEVEL_SECOND"
    /\ UNCHANGED <<dtlb_req_q, virt_addr_q, pte_entry_q>>

\* A leaf on either level, a page not present, or a pointer where the second
\* level has a leaf, which has no permissions.
WalkEnd(ans) ==
    /\ state_q \in {"LEVEL_FIRST", "LEVEL_SECOND"} /\ RespMmu(ans) /\ ~Follows(ans)
    /\ pte_entry_q' = PteRead
    /\ state_q' = "UPDATE"
    /\ UNCHANGED <<dtlb_req_q, virt_addr_q, pte_addr_q>>

WalkUpdate ==
    /\ state_q = "UPDATE"
    /\ state_q' = "IDLE"
    /\ UNCHANGED <<dtlb_req_q, virt_addr_q, pte_addr_q, pte_entry_q>>

WalkWait(ans, rd) ==
    /\ state_q = "IDLE" => ~ItlbMiss(rd) /\ ~DtlbMiss(ans)
    /\ state_q \in {"LEVEL_FIRST", "LEVEL_SECOND"} => ~RespMmu(ans)
    /\ state_q # "UPDATE"
    /\ UNCHANGED walkVars

\* tlb_flush_q: the cycle after the CSR instruction was issued.
Flush == csr.stage = 1

\* Mutation: that a walk is on is looked at before its end is.
ItlbValid_WalkFirst == ~Flush /\ ~(state_q # "IDLE" /\ ~dtlb_req_q) /\ itlb.valid
\* After a walk the entry is valid only if the page is the one of the walk
\* before: a page that is new is walked for twice.
ItlbValid ==
    IF Flush THEN FALSE
    ELSE IF state_q = "UPDATE" /\ ~dtlb_req_q THEN itlb.va = fetch.page
    ELSE IF state_q # "IDLE" /\ ~dtlb_req_q THEN FALSE
    ELSE itlb.valid

Tlbs ==
    LET load(tlb, now, valid) ==
            [valid |-> valid, va |-> IF now THEN virt_addr_q ELSE tlb.va,
             entry |-> IF now THEN pte_entry_q ELSE tlb.entry]
    IN  /\ itlb' = load(itlb, state_q = "UPDATE" /\ ~dtlb_req_q, ItlbValid)
        /\ dtlb' = load(dtlb, state_q = "UPDATE" /\ dtlb_req_q,
                        ~Flush /\ (dtlb.valid \/ (state_q = "UPDATE" /\ dtlb_req_q)))

\* The walker's read, and the choice between it and the load store unit.
Mux(ans, ready, rd) ==
    /\ mem_req_q' = IF (state_q = "IDLE" /\ (ItlbMiss(rd) \/ DtlbMiss(ans))) \/ Follows(ans) THEN TRUE
                    ELSE IF SrcMmu /\ ready THEN FALSE ELSE mem_req_q
    /\ IF PortReq(ans) # NoReq /\ ~ready
       THEN read_hold_q' = TRUE /\ src_mmu_q' = SrcMmu
       ELSE /\ read_hold_q' = IF ready THEN FALSE ELSE read_hold_q
            /\ UNCHANGED src_mmu_q

-----------------------------------------------------------------------------
\* The data cache: a write is done when it is answered.
Memory(ans, ready) ==
    /\ port' = IF ready THEN PortReq(ans)
               ELSE IF ans THEN NoReq ELSE port
    /\ tables' = IF RespLsu(ans) /\ port.op = "st" /\ port.to = Tables /\ port.w # NoUpdate
                 THEN [c \in DOMAIN tables \cup {port.w.cell} |->
                          IF c = port.w.cell THEN port.w.entry ELSE tables[c]]
                 ELSE tables

\* What the pipeline does in a cycle: it issues an access or a CSR instruction,
\* or it takes a trap or returns.  A CSR instruction is not issued right behind
\* an access, and nothing behind it; a trap waits until nothing is under way.
Drained == mem_q.op = "none" /\ ~pending_lsu_e2_q /\ ~mem_unaligned_e2_q
NoStep == [opcode |-> NoOp, instr |-> "none", to |-> "none"]
Steps(ans, ready) ==
    {NoStep}
    \cup {[NoStep EXCEPT !.opcode = o] :
            o \in IF CanIssue(ans, ready) THEN Software.ops[priv] ELSE {}}
    \cup {[NoStep EXCEPT !.instr = i] :
            i \in IF CanIssue(ans, ready) /\ mem_q.op = "none" /\ priv = "S" THEN Software.csr ELSE {}}
    \cup {[NoStep EXCEPT !.to = p] :
            p \in IF Drained /\ csr.op = "none" THEN Software.privs ELSE {}}

\* The TLB is flushed a cycle after the issue of a CSR instruction; satp
\* changes in write back, with the branch.
Pipeline(step) ==
    /\ csr' = IF step.instr # "none" THEN [op |-> step.instr, stage |-> 1]
              ELSE IF csr.stage \in {1, 2} THEN [csr EXCEPT !.stage = @ + 1] ELSE NoCsr
    /\ satp' \in IF csr = [op |-> "satp", stage |-> 3] THEN Space ELSE {satp}
    /\ priv' = IF step.to # "none" THEN step.to ELSE priv
    /\ UNCHANGED program

Branches(ans, step) == Squashes(ans) \/ csr.stage = 3 \/ step.to # "none"

\* The fetch unit: a request is replaced when it is accepted, by the target of
\* the branch if one waits, else by what follows it or is predicted.
Fetch(ans, rd, iready, step) ==
    LET acc  == FetchAccept(rd, iready)
        at   == IF turn THEN priv ELSE fetch.priv
        left == IF step.opcode # NoOp \/ step.instr # "none" THEN supply - 1 ELSE supply
    IN  /\ fetch' \in IF acc THEN [page : Software.code[at], priv : {at}] ELSE {fetch}
        /\ turn' = (Branches(ans, step) \/ (turn /\ ~acc))
        /\ supply' = IF Branches(ans, step) THEN 0
                     ELSE IF acc /\ ~turn /\ ~FetchFault(rd) THEN Window ELSE left

-----------------------------------------------------------------------------
\* What the tables give for a page: a leaf, or an entry that permits nothing.
Gives(s, v) ==
    LET first == EntryAt(FirstLevel(s, v))
    IN  IF first.kind = "ptr" THEN EntryAt(SecondLevel(first.to, v)) ELSE first

\* The answers an access may have, at privilege at.
Reaches(o, to) == IF to \in Holes THEN Outcome("bus", o, NoFrame) ELSE Outcome("none", o, to)
Allowed(o, at) ==
    IF o.mis THEN {Outcome("align", o, NoFrame)}
    ELSE IF at = "M" THEN {Reaches(o, o.va)}
    ELSE {IF Denied(o.op, at, e) THEN Outcome("page", o, NoFrame) ELSE Reaches(o, e.to) : e \in gave[o.va]}
FetchAllowed == IF VmI THEN {IF Denied("if", fetch.priv, e) THEN NoFrame ELSE e.to : e \in gave[fetch.page]}
                ELSE {fetch.page}

\* writeback_exception_o and writeback_value_o, which the pipeline takes for
\* those of its oldest access.
Oldest(s) == IF s = <<>> THEN NoOp ELSE s[1]
Got(ans) ==
    LET o == Oldest(fifo)
    IN  IF mem_unaligned_e2_q THEN Outcome("align", o, NoFrame)
        ELSE IF fault_q # {} THEN Outcome("page", [o EXCEPT !.op = IF "ld" \in fault_q THEN "ld" ELSE "st"], NoFrame)
        ELSE IF Err(ans) THEN Outcome("bus", o, NoFrame)
        ELSE Outcome("none", [o EXCEPT !.op = port.op], port.to)

History(ans, ready, rd, iready, opcode) ==
    LET after == IF Squashes(ans) THEN <<>> ELSE IF Completes(ans) /\ owed # <<>> THEN Tail(owed) ELSE owed
        next  == Oldest(after)
    IN  /\ owed' = IF opcode = NoOp THEN after ELSE Append(after, opcode)
        /\ due' = IF Pushes(ans, ready) THEN (IF after = <<>> THEN {} ELSE Allowed(next, priv))
                  ELSE IF Completes(ans) THEN {} ELSE due
        /\ answer' = IF Completes(ans) THEN [got |-> Got(ans), allowed |-> due] ELSE Quiet
        /\ fetched' = IF FetchAccept(rd, iready)
                      THEN [got |-> IF ~VmI THEN fetch.page ELSE IF FetchFault(rd) THEN NoFrame ELSE itlb.entry.to,
                            allowed |-> FetchAllowed]
                      ELSE NoFetch
        /\ gave' = [v \in Page |-> IF Flush \/ satp' # satp THEN {Gives(satp, v)'}
                                   ELSE gave[v] \cup {Gives(satp, v)'}]

-----------------------------------------------------------------------------
Init ==
    /\ program \in DOMAIN Programs
    /\ mem_q = NoOp /\ pending_lsu_e2_q = FALSE /\ mem_unaligned_e2_q = FALSE /\ fifo = <<>>
    /\ hold_q = {} /\ fault_q = {}
    /\ state_q = "IDLE" /\ dtlb_req_q = FALSE
    /\ virt_addr_q = Tables /\ pte_addr_q = NoCell /\ pte_entry_q = Absent
    /\ mem_req_q = FALSE /\ read_hold_q = FALSE /\ src_mmu_q = FALSE
    /\ itlb = NoEntry /\ dtlb = NoEntry
    /\ port = NoReq /\ tables = Software.tables
    /\ priv = "M" /\ satp = Software.satp /\ csr = NoCsr
    /\ fetch \in [page : Software.code["M"], priv : {"M"}] /\ turn = FALSE /\ supply = 0
    /\ gave = [v \in Page |-> {Gives(satp, v)}]
    /\ owed = <<>> /\ due = {} /\ answer = Quiet /\ fetched = NoFetch

Clock(ans, ready, rd, iready) ==
    /\ ans => port.src # "none"
    /\ ready => Offered(ans)
    /\ iready => FetchOffered(rd)
    /\ Sticky(ans, ready)
    /\ WalkStart(ans, rd) \/ WalkSecond(ans) \/ WalkEnd(ans) \/ WalkUpdate \/ WalkWait(ans, rd)
    /\ Tlbs
    /\ Mux(ans, ready, rd)
    /\ Memory(ans, ready)
    /\ \E step \in Steps(ans, ready) :
          /\ Pipeline(step)
          /\ Fetch(ans, rd, iready, step)
          /\ Lsu(ans, ready, step.opcode)
          /\ History(ans, ready, rd, iready, step.opcode)

Next == \E ans, ready, rd, iready \in BOOLEAN : Clock(ans, ready, rd, iready)

Spec == Init /\ [][Next]_vars

\* A cycle in which the caches take what they are offered and answer, and the
\* fetch unit asks, comes again and again.
Ready == LET ans == port.src # "none" IN Clock(ans, Offered(ans), TRUE, FetchOffered(TRUE))
FairSpec == Spec /\ []<><<Ready>>_vars

-----------------------------------------------------------------------------
\* The queue of biriscv_lsu.v (lines 329-347) never has to refuse a push, and
\* has an entry exactly while a response or a misaligned access is to come.
TypeOK ==
    /\ mem_q \in Op \cup {NoOp}
    /\ pending_lsu_e2_q \in BOOLEAN /\ mem_unaligned_e2_q \in BOOLEAN
    /\ Len(fifo) <= 1
    /\ (fifo # <<>>) = (pending_lsu_e2_q \/ mem_unaligned_e2_q)
    /\ hold_q \subseteq {"ld", "st"} /\ fault_q \subseteq {"ld", "st"}
    /\ state_q \in {"IDLE", "LEVEL_FIRST", "LEVEL_SECOND", "UPDATE"}
    /\ pte_addr_q \in Cell \cup {NoCell} /\ pte_entry_q \in Entry
    /\ \A tlb \in {itlb, dtlb} : tlb.valid => tlb.va \in Page /\ tlb.entry \in Entry
    /\ port.to \in Frame \cup {NoFrame}
    /\ DOMAIN tables \subseteq Cell
    /\ priv \in Priv /\ satp \in Space /\ csr.stage \in 0 .. 3 /\ supply \in 0 .. Window
    /\ fetch.priv \in Priv /\ fetch.page \in Software.code[fetch.priv]

\* The software Answers is about, for the walker reads two entries one after
\* the other, and its fetches may straddle a change of satp: a pointer in a
\* first level table is never replaced, unless by itself, and every root has the
\* same first level entry for a page that satp is written from.
Stores(p, c) ==
    LET writers == {o \in UNION {p.ops[at] : at \in Priv} : o.w # NoUpdate /\ o.w.cell = c}
    IN  {o.w.entry : o \in writers}
Values(p, c) == Stores(p, c) \cup {IF c \in DOMAIN p.tables THEN p.tables[c] ELSE Absent}
Orderly(p) ==
    /\ \A t \in Table, v \in Page : \A e \in Values(p, FirstLevel(t, v)) :
          e.kind = "ptr" => Stores(p, FirstLevel(t, v)) \subseteq {e}
    /\ "satp" \in p.csr =>
          \A v \in p.code["S"], s \in Space, t \in Space :
             \A e \in Values(p, FirstLevel(s, v)), f \in Values(p, FirstLevel(t, v)) : e = f

\* Each answer is that of the oldest access the pipeline is waiting for, and
\* what the tables allow it: the frame reached, or the kind of fault (a page
\* fault, a misaligned address, a bus error, of a load or of a store), comes
\* from an entry the tables have held since the last flush of the TLBs, for
\* fetches too.  The walk and the TLBs (biriscv_mmu.v 188-266, 271-416), the
\* order of faults and responses and the squash of the access behind a fault
\* (biriscv_lsu.v 103-128, 262-278) stand behind this.
Answers == answer.got \in answer.allowed /\ fetched.got \in fetched.allowed

\* Every access is answered, and fetches go on, whatever the walker, which
\* goes first, has to do for the other side (biriscv_mmu.v 469-507).
Served == (owed # <<>> ~> answer # Quiet) /\ []<>(fetched # NoFetch)
=============================================================================
