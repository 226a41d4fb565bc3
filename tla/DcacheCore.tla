----------------------------- MODULE DcacheCore -----------------------------
(* The data cache core, src/src/dcache/dcache_core.v: two ways, write back,  *)
(* write allocate, one request in flight.  An action is one clock cycle of   *)
(* the controller in one of its states; the wires of that cycle are the      *)
(* operators, the registers the variables, with the names of the source.     *)
(*                                                                           *)
(* The tag RAMs are read with one cycle of latency and write-first, the data *)
(* RAMs with one cycle and read-first.  A data RAM output the controller has *)
(* no use for is Junk, as are RAM contents before the first write: a read    *)
(* that returns Junk has used a value it must not use.  Words are written    *)
(* whole (byte strobes are data here) and the bus returns no error.          *)
(*                                                                           *)
(* memory and port are what is behind the outport (dcache_pmem_mux,          *)
(* dcache_axi and the interconnect): a burst is accepted a beat at a time,   *)
(* read beats arrive later, a write burst is acknowledged once.              *)
EXTENDS Naturals

CONSTANTS
    NumSets,    \* lines of a way (DCACHE_NUM_LINES)
    NumWords,   \* words of a line
    NumTags,    \* distinct tags an address can have
    Value,      \* the values of a word
    Junk,       \* no value: the contents of a RAM cell nobody wrote
    Requests,   \* the requests the load store unit makes
    IdleAddrs,  \* what the address lines carry while it makes none
    PowerUp,    \* the tag entries the tag RAMs may hold before reset
    MemInit     \* the words of the backing memory at the start

Sets  == 0 .. NumSets - 1
Ways  == {0, 1}
Words == 0 .. NumWords - 1
Tags  == 0 .. NumTags - 1
Addr  == [tag : Tags, set : Sets, word : Words]
Line  == [tag : Tags, set : Sets]
Cell  == Sets \X Words
Entry == [valid : BOOLEAN, dirty : BOOLEAN, tag : Tags]
Ops   == {"none", "rd", "wr", "wb", "flush", "inval"}
Request == [op : Ops, addr : Addr, data : Value \cup {Junk}]

ASSUME SizeAssumption ==
    /\ NumSets \in Nat /\ NumSets >= 2
    /\ NumWords \in 2 .. 256
    /\ NumTags \in Nat \ {0}

ASSUME InputAssumption ==
    /\ Junk \notin Value
    /\ Requests \subseteq Request
    /\ \A r \in Requests : r.op = "wr" => r.data \in Value
    /\ IdleAddrs \subseteq Addr
    /\ PowerUp \subseteq Entry
    /\ MemInit \in [Addr -> Value]

VARIABLES
    state_q,            \* the controller's state
    mem_m,              \* the request buffer mem_*_m_q
    tag_ram, tag_out,   \* the tag RAMs and their registered outputs
    data_ram, data_out, \* the data RAMs and their registered outputs
    replace_way_q,      \* the way to refill or to evict next
    flush_addr_q, flushing_q, flush_last_q,
    data_write_addr_q,  \* the data RAM cell of the next burst beat
    pmem_rd_q,          \* a read burst is still to be accepted
    pmem_wr0_q,         \* the first beat of a write burst is still to be accepted
    pmem_len_q,         \* beats of the burst after the current one, 8 bits wide
    pmem_wr_q,          \* the skid buffer for a write beat that was not accepted
    memory,             \* the words behind the outport
    port                \* the burst in progress behind the outport

flushVars == <<flush_addr_q, flushing_q, flush_last_q>>
pmemVars  == <<pmem_rd_q, pmem_wr0_q, pmem_len_q, pmem_wr_q>>
busVars   == <<memory, port>>
ramVars   == <<tag_ram, data_ram>>
vars == <<state_q, mem_m, ramVars, tag_out, data_out, replace_way_q, flushVars,
          data_write_addr_q, pmemVars, busVars>>

-----------------------------------------------------------------------------
ZeroAddr == [tag |-> 0, set |-> 0, word |-> 0]
NoReq    == [op |-> "none", addr |-> ZeroAddr, data |-> Junk]
NoEntry  == [valid |-> FALSE, dirty |-> FALSE, tag |-> 0]
JunkOut  == [w \in Ways |-> Junk]
NoBeat   == [valid |-> FALSE, data |-> Junk]
IdlePort == [op |-> "idle", line |-> [tag |-> 0, set |-> 0], beat |-> 0]

CellOf(a)  == <<a.set, a.word>>
Base(s)    == <<s, 0>>
AddrAt(l, k) == [tag |-> l.tag, set |-> l.set, word |-> k]

\* Mutation: the carry is not cut to the width of the line number.
NextCell_Wide(c) == IF c[2] = NumWords - 1 THEN <<c[1] + 1, 0>> ELSE <<c[1], c[2] + 1>>

\* {line, word} + 1, with the carry into the line number.
NextCell(c) == IF c[2] = NumWords - 1 THEN <<(c[1] + 1) % NumSets, 0>>
                                      ELSE <<c[1], c[2] + 1>>

Fresh(dirty) == [valid |-> TRUE, dirty |-> dirty, tag |-> mem_m.addr.tag]

Hit(w)   == tag_out[w].valid /\ tag_out[w].tag = mem_m.addr.tag
HitAny   == \E w \in Ways : Hit(w)
Dirty(w) == tag_out[w].valid /\ tag_out[w].dirty
DirtyAny == \E w \in Ways : Dirty(w)
\* Mutation: a flush evicts only lines that do not match the request.
EvictWay_NoFlush == ~HitAny /\ Dirty(replace_way_q)
EvictWay == (flushing_q \/ ~HitAny) /\ Dirty(replace_way_q)
EvictLine == [tag |-> tag_out[replace_way_q].tag,
              set |-> IF flushing_q THEN flush_addr_q ELSE mem_m.addr.set]

IsAccess == mem_m.op \in {"rd", "wr"}
Miss     == IsAccess /\ ~HitAny
MemAck   == /\ state_q = "LOOKUP"
            /\ (IsAccess /\ HitAny) \/ mem_m.op \in {"flush", "inval", "wb"}

\* Mutation: a read may follow a write of the same word at once.
ReadAfterWrite_Never(r) == FALSE

\* A read of the word being written this cycle would see the data RAM as it
\* was before the write.
ReadAfterWrite(r) == mem_m.op = "wr" /\ r.op = "rd" /\ r.addr = mem_m.addr

DataOut == IF Hit(0) THEN data_out[0] ELSE IF Hit(1) THEN data_out[1] ELSE data_out[0]

PmemLast      == pmem_len_q = 0
PmemWr        == EvictWay \/ mem_m.op = "wb" \/ pmem_wr_q.valid
\* Mutation: the skid buffer is not used.
PmemWriteData_NoSkid == data_out[replace_way_q]
PmemWriteData == IF pmem_wr_q.valid THEN pmem_wr_q.data ELSE data_out[replace_way_q]
LenDown       == pmem_len_q' = (pmem_len_q + 255) % 256

\* The RAM ports of a cycle.
WriteTags(ways, s, e) ==
    tag_ram' = [w \in Ways |-> IF w \in ways THEN [tag_ram[w] EXCEPT ![s] = e] ELSE tag_ram[w]]
WriteData(ways, c, v) ==
    data_ram' = [w \in Ways |-> IF w \in ways THEN [data_ram[w] EXCEPT ![c] = v] ELSE data_ram[w]]
ReadTags(s) == tag_out' = [w \in Ways |-> tag_ram'[w][s]]
ReadData(c) == data_out' = [w \in Ways |-> data_ram[w][c]]
ReadNothing == data_out' = JunkOut

-----------------------------------------------------------------------------
Init ==
    /\ state_q = "RESET"
    /\ mem_m = NoReq
    /\ tag_ram \in [Ways -> [Sets -> PowerUp]]
    /\ tag_out = [w \in Ways |-> NoEntry]
    /\ data_ram = [w \in Ways |-> [c \in Cell |-> Junk]]
    /\ data_out = JunkOut
    /\ replace_way_q = 0
    /\ flush_addr_q = 0 /\ flushing_q = FALSE /\ flush_last_q = FALSE
    /\ data_write_addr_q = Base(0)
    /\ pmem_rd_q = FALSE /\ pmem_wr0_q = FALSE /\ pmem_len_q = 0 /\ pmem_wr_q = NoBeat
    /\ memory = MemInit
    /\ port = IdlePort

\* Mutation: the walk over the lines ends one line early.
TrackLastLine_Early == flush_last_q' = (flush_last_q \/ flush_addr_q = NumSets - 2)

\* flush_last_q is set in the cycle after the last line's address; while no
\* walk over the lines is under way the address is 0 and this changes nothing.
TrackLastLine == flush_last_q' = (flush_last_q \/ flush_addr_q = NumSets - 1)

NextLine == flush_addr_q' = (flush_addr_q + 1) % NumSets

\* STATE_RESET: clear the tags line by line.
Reset ==
    /\ state_q = "RESET"
    /\ state_q' = IF flush_last_q THEN "LOOKUP" ELSE "RESET"
    /\ WriteTags(Ways, flush_addr_q, NoEntry)
    /\ ReadTags(mem_m.addr.set)
    /\ ReadNothing
    /\ NextLine /\ TrackLastLine /\ UNCHANGED flushing_q
    /\ UNCHANGED <<mem_m, data_ram, replace_way_q, data_write_addr_q, pmemVars, busVars>>

\* Mutation: a write does not mark the line dirty.
CommitWrite_Clean ==
    LET ways == {w \in Ways : mem_m.op = "wr" /\ Hit(w)}
    IN  /\ WriteTags(ways, mem_m.addr.set, Fresh(FALSE))
        /\ WriteData(ways, CellOf(mem_m.addr), mem_m.data)

\* A write that hits is done in the lookup cycle: the line becomes dirty.
CommitWrite ==
    LET ways == {w \in Ways : mem_m.op = "wr" /\ Hit(w)}
    IN  /\ WriteTags(ways, mem_m.addr.set, Fresh(TRUE))
        /\ WriteData(ways, CellOf(mem_m.addr), mem_m.data)

AfterAccept(op) ==
    CASE op = "wb"    -> "WRITEBACK"
      [] op = "flush" -> "FLUSH_ADDR"
      [] op = "inval" -> "INVALIDATE"
      [] OTHER        -> "LOOKUP"

EndWalk == flush_addr_q' = 0 /\ flush_last_q' = FALSE

\* STATE_LOOKUP, nothing missed: answer the request in the buffer and take
\* the next one (op "none" while the requester is idle).  The tags are read
\* at the new address only if the lookup or a write back follows.
Lookup(r) ==
    /\ state_q = "LOOKUP"
    /\ ~Miss
    /\ ~ReadAfterWrite(r)
    /\ state_q' = AfterAccept(r.op)
    /\ mem_m' = r
    /\ CommitWrite
    /\ ReadTags(IF state_q' \in {"LOOKUP", "WRITEBACK"} THEN r.addr.set ELSE mem_m.addr.set)
    /\ IF r.op = "rd" THEN ReadData(CellOf(r.addr)) ELSE ReadNothing
    /\ EndWalk /\ flushing_q' = (r.op = "flush")
    /\ replace_way_q' = IF r.op = "flush" THEN 0 ELSE replace_way_q
    /\ UNCHANGED <<data_write_addr_q, pmemVars, busVars>>

\* STATE_LOOKUP, a read of the word being written has to wait a cycle.
LookupHold(r) ==
    /\ state_q = "LOOKUP"
    /\ ~Miss
    /\ ReadAfterWrite(r)
    /\ mem_m' = NoReq
    /\ CommitWrite
    /\ ReadTags(r.addr.set)
    /\ ReadNothing
    /\ EndWalk
    /\ UNCHANGED <<state_q, flushing_q, replace_way_q, data_write_addr_q, pmemVars, busVars>>

\* The outport in the cycle a refill is requested, and while it is not taken:
\* acc is outport_accept_i.
RequestRefill(acc) ==
    /\ pmem_rd_q' = ~acc
    /\ pmem_len_q' = IF acc THEN NumWords - 1 ELSE pmem_len_q
    /\ port' = IF acc THEN [op |-> "rd", beat |-> 0,
                            line |-> [tag |-> mem_m.addr.tag, set |-> mem_m.addr.set]]
                      ELSE port
    /\ UNCHANGED <<pmem_wr0_q, memory>>

\* Mutation: the first beat's address is not passed over.
RequestEvict_Late(s) ==
    /\ state_q' = "EVICT"
    /\ pmem_wr0_q' = TRUE
    /\ pmem_len_q' = NumWords - 1
    /\ data_write_addr_q' = Base(s)
    /\ ReadData(Base(s))
    /\ UNCHANGED <<pmem_rd_q, pmem_wr_q, busVars>>

\* Enter STATE_EVICT for the line at set s of the way to be replaced.
RequestEvict(s) ==
    /\ state_q' = "EVICT"
    /\ pmem_wr0_q' = TRUE
    /\ pmem_len_q' = NumWords - 1
    /\ data_write_addr_q' = NextCell(Base(s))
    /\ ReadData(Base(s))
    /\ UNCHANGED <<pmem_rd_q, pmem_wr_q, busVars>>

\* STATE_LOOKUP, the access missed and the line to replace is clean.
MissRefill(acc) ==
    /\ state_q = "LOOKUP"
    /\ Miss
    /\ ~EvictWay
    /\ state_q' = "REFILL"
    /\ RequestRefill(acc)
    /\ data_write_addr_q' = Base(mem_m.addr.set)
    /\ UNCHANGED ramVars
    /\ ReadTags(mem_m.addr.set)
    /\ ReadNothing
    /\ EndWalk
    /\ UNCHANGED <<mem_m, flushing_q, replace_way_q, pmem_wr_q>>

\* STATE_LOOKUP, the access missed and the line to replace is dirty.
MissEvict ==
    /\ state_q = "LOOKUP"
    /\ Miss
    /\ EvictWay
    /\ RequestEvict(mem_m.addr.set)
    /\ UNCHANGED ramVars
    /\ ReadTags(mem_m.addr.set)
    /\ EndWalk
    /\ UNCHANGED <<mem_m, flushing_q, replace_way_q>>

\* STATE_REFILL: the read burst is taken by the bus.
RefillAccept ==
    /\ state_q = "REFILL"
    /\ pmem_rd_q
    /\ RequestRefill(TRUE)
    /\ UNCHANGED ramVars
    /\ ReadTags(mem_m.addr.set)
    /\ ReadNothing
    /\ UNCHANGED <<state_q, mem_m, replace_way_q, flushVars, data_write_addr_q, pmem_wr_q>>

\* STATE_REFILL: a word arrives.  The last one makes the line valid.
RefillBeat ==
    /\ state_q = "REFILL"
    /\ port.op = "rd"
    /\ WriteData({replace_way_q}, data_write_addr_q, memory[AddrAt(port.line, port.beat)])
    /\ WriteTags(IF PmemLast THEN {replace_way_q} ELSE {}, mem_m.addr.set, Fresh(FALSE))
    /\ ReadTags(mem_m.addr.set)
    /\ ReadNothing
    /\ data_write_addr_q' = NextCell(data_write_addr_q)
    /\ LenDown
    /\ port' = IF port.beat = NumWords - 1 THEN IdlePort ELSE [port EXCEPT !.beat = @ + 1]
    /\ state_q' = IF ~PmemLast THEN state_q ELSE IF mem_m.op = "wr" THEN "WRITE" ELSE "READ"
    /\ UNCHANGED <<mem_m, replace_way_q, flushVars, pmem_rd_q, pmem_wr0_q, pmem_wr_q, memory>>

\* STATE_READ: look the refilled line up again.
ReadDone ==
    /\ state_q = "READ"
    /\ state_q' = "LOOKUP"
    /\ replace_way_q' = 1 - replace_way_q
    /\ UNCHANGED ramVars
    /\ ReadTags(mem_m.addr.set)
    /\ ReadData(CellOf(mem_m.addr))
    /\ UNCHANGED <<mem_m, flushVars, data_write_addr_q, pmemVars, busVars>>

\* STATE_WRITE: the write that caused the refill.
WriteDone ==
    /\ state_q = "WRITE"
    /\ state_q' = "LOOKUP"
    /\ replace_way_q' = 1 - replace_way_q
    /\ WriteTags({replace_way_q}, mem_m.addr.set, Fresh(TRUE))
    /\ WriteData({w \in Ways : Hit(w)}, CellOf(mem_m.addr), mem_m.data)
    /\ ReadTags(mem_m.addr.set)
    /\ ReadNothing
    /\ UNCHANGED <<mem_m, flushVars, data_write_addr_q, pmemVars, busVars>>

-----------------------------------------------------------------------------
EvictSet == IF flushing_q THEN flush_addr_q ELSE mem_m.addr.set

\* STATE_EVICT: the bus does not take the beat, which is kept aside because
\* the data RAM output moves on.
EvictStall ==
    /\ state_q = "EVICT"
    /\ pmem_wr_q' = IF PmemWr THEN [valid |-> TRUE, data |-> PmemWriteData] ELSE pmem_wr_q
    /\ UNCHANGED ramVars
    /\ ReadTags(EvictSet)
    /\ ReadData(data_write_addr_q)
    /\ UNCHANGED <<state_q, mem_m, replace_way_q, flushVars, data_write_addr_q,
                   pmem_rd_q, pmem_wr0_q, pmem_len_q, busVars>>

\* STATE_EVICT: the bus takes a beat; only the first carries the address.
EvictBeat ==
    /\ state_q = "EVICT"
    /\ IF PmemWr
       THEN /\ port' = IF pmem_wr0_q THEN [op |-> "wr", line |-> EvictLine, beat |-> 1]
                                     ELSE [port EXCEPT !.beat = @ + 1]
            /\ memory' = [memory EXCEPT ![AddrAt(port'.line, port'.beat - 1)] = PmemWriteData]
       ELSE UNCHANGED busVars
    /\ pmem_wr_q' = NoBeat
    /\ pmem_wr0_q' = FALSE
    /\ LenDown
    /\ state_q' = IF PmemLast THEN "EVICT_WAIT" ELSE "EVICT"
    /\ data_write_addr_q' = NextCell(data_write_addr_q)
    /\ UNCHANGED ramVars
    /\ ReadTags(EvictSet)
    /\ IF PmemLast THEN ReadNothing ELSE ReadData(data_write_addr_q)
    /\ UNCHANGED <<mem_m, replace_way_q, flushVars, pmem_rd_q>>

\* The write burst is complete behind the outport.
EvictAcked ==
    /\ state_q = "EVICT_WAIT"
    /\ port.op = "wr"

\* STATE_EVICT_WAIT, a line was written back: it stays, clean.
EvictWrittenBack ==
    /\ EvictAcked
    /\ mem_m.op = "wb"
    /\ state_q' = "LOOKUP"
    /\ WriteTags({replace_way_q}, mem_m.addr.set, Fresh(FALSE))
    /\ ReadTags(mem_m.addr.set)
    /\ ReadNothing
    /\ port' = IdlePort
    /\ UNCHANGED <<mem_m, data_ram, replace_way_q, flushVars, data_write_addr_q, pmemVars, memory>>

\* STATE_EVICT_WAIT, a line was flushed: it goes, and the set is read again.
EvictFlushed ==
    /\ EvictAcked
    /\ mem_m.op # "wb"
    /\ flushing_q
    /\ state_q' = "FLUSH_ADDR"
    /\ replace_way_q' = 0
    /\ WriteTags({replace_way_q}, flush_addr_q, NoEntry)
    /\ ReadTags(flush_addr_q)
    /\ ReadNothing
    /\ port' = IdlePort
    /\ UNCHANGED <<mem_m, data_ram, flushVars, data_write_addr_q, pmemVars, memory>>

\* STATE_EVICT_WAIT, a victim was evicted: the way gets the tag of the line
\* to come before the line has.
EvictRefill(acc) ==
    /\ EvictAcked
    /\ mem_m.op # "wb"
    /\ ~flushing_q
    /\ state_q' = "REFILL"
    /\ WriteTags({replace_way_q}, mem_m.addr.set, Fresh(FALSE))
    /\ ReadTags(mem_m.addr.set)
    /\ ReadNothing
    /\ data_write_addr_q' = Base(mem_m.addr.set)
    /\ pmem_rd_q' = ~acc
    /\ pmem_len_q' = IF acc THEN NumWords - 1 ELSE pmem_len_q
    /\ port' = IF acc THEN [op |-> "rd", beat |-> 0,
                            line |-> [tag |-> mem_m.addr.tag, set |-> mem_m.addr.set]]
                      ELSE IdlePort
    /\ UNCHANGED <<mem_m, data_ram, replace_way_q, flushVars, pmem_wr0_q, pmem_wr_q, memory>>

\* Mutation: the way to write back is the one to replace next.
Writeback_AnyWay ==
    /\ state_q = "WRITEBACK"
    /\ UNCHANGED ramVars
    /\ IF \E w \in Ways : Hit(w) /\ tag_out[w].dirty
       THEN RequestEvict(mem_m.addr.set)
       ELSE /\ state_q' = "LOOKUP"
            /\ ReadNothing
            /\ UNCHANGED <<data_write_addr_q, pmemVars, busVars>>
    /\ ReadTags(mem_m.addr.set)
    /\ UNCHANGED <<mem_m, replace_way_q, flushVars>>

\* STATE_WRITEBACK: the line of the request, if it is here and dirty, is
\* evicted; the way it is in becomes the one to evict.
Writeback ==
    /\ state_q = "WRITEBACK"
    /\ replace_way_q' = IF Hit(0) THEN 0 ELSE IF Hit(1) THEN 1 ELSE replace_way_q
    /\ IF \E w \in Ways : Hit(w) /\ tag_out[w].dirty
       THEN RequestEvict(mem_m.addr.set)
       ELSE /\ state_q' = "LOOKUP"
            /\ ReadNothing
            /\ UNCHANGED <<data_write_addr_q, pmemVars, busVars>>
    /\ UNCHANGED ramVars
    /\ ReadTags(mem_m.addr.set)
    /\ UNCHANGED <<mem_m, flushVars>>

\* STATE_INVALIDATE: drop the line if the tags that were read match, even if
\* it is dirty.
Invalidate ==
    /\ state_q = "INVALIDATE"
    /\ state_q' = "LOOKUP"
    /\ WriteTags({w \in Ways : Hit(w)}, mem_m.addr.set, [Fresh(FALSE) EXCEPT !.valid = FALSE])
    /\ ReadTags(mem_m.addr.set)
    /\ ReadNothing
    /\ UNCHANGED <<mem_m, data_ram, replace_way_q, flushVars, data_write_addr_q, pmemVars, busVars>>

\* STATE_FLUSH_ADDR: read the tags of the next line.
FlushAddr ==
    /\ state_q = "FLUSH_ADDR"
    /\ state_q' = "FLUSH"
    /\ UNCHANGED ramVars
    /\ ReadTags(flush_addr_q)
    /\ ReadNothing
    /\ TrackLastLine
    /\ UNCHANGED <<mem_m, replace_way_q, flush_addr_q, flushing_q, data_write_addr_q,
                   pmemVars, busVars>>

\* STATE_FLUSH, neither way is dirty: drop both and go on, or finish.
FlushClean ==
    /\ state_q = "FLUSH"
    /\ ~DirtyAny
    /\ WriteTags(Ways, flush_addr_q, NoEntry)
    /\ ReadTags(flush_addr_q)
    /\ ReadNothing
    /\ IF flush_last_q
       THEN /\ state_q' = "LOOKUP"
            /\ flushing_q' = FALSE
            /\ replace_way_q' = 0
            /\ UNCHANGED flush_addr_q
       ELSE /\ state_q' = "FLUSH_ADDR"
            /\ NextLine
            /\ UNCHANGED <<flushing_q, replace_way_q>>
    /\ UNCHANGED <<mem_m, data_ram, flush_last_q, data_write_addr_q, pmemVars, busVars>>

\* STATE_FLUSH, the selected way is dirty: evict it.
FlushEvict ==
    /\ state_q = "FLUSH"
    /\ DirtyAny
    /\ EvictWay
    /\ RequestEvict(flush_addr_q)
    /\ UNCHANGED ramVars
    /\ ReadTags(flush_addr_q)
    /\ UNCHANGED <<mem_m, replace_way_q, flushVars>>

\* STATE_FLUSH, the other way is the dirty one: select it.
FlushNextWay ==
    /\ state_q = "FLUSH"
    /\ DirtyAny
    /\ ~EvictWay
    /\ replace_way_q' = 1 - replace_way_q
    /\ UNCHANGED ramVars
    /\ ReadTags(flush_addr_q)
    /\ ReadNothing
    /\ UNCHANGED <<state_q, mem_m, flushVars, data_write_addr_q, pmemVars, busVars>>

-----------------------------------------------------------------------------
Inputs == Requests \cup {[NoReq EXCEPT !.addr = a] : a \in IdleAddrs}

Next ==
    \/ Reset
    \/ \E r \in Inputs : Lookup(r) \/ LookupHold(r)
    \/ \E acc \in BOOLEAN : MissRefill(acc) \/ EvictRefill(acc)
    \/ MissEvict
    \/ RefillAccept \/ RefillBeat
    \/ ReadDone \/ WriteDone
    \/ EvictStall \/ EvictBeat
    \/ EvictWrittenBack \/ EvictFlushed
    \/ Writeback
    \/ Invalidate
    \/ FlushAddr \/ FlushClean \/ FlushEvict \/ FlushNextWay

Spec == Init /\ [][Next]_vars

\* The controller runs every cycle, and the bus takes every burst and answers
\* it in the end; the requester may stay idle.
Fairness ==
    /\ WF_vars(Reset)
    /\ WF_vars(\E acc \in BOOLEAN : MissRefill(acc) \/ EvictRefill(acc))
    /\ WF_vars(MissEvict \/ EvictBeat)
    /\ WF_vars(RefillAccept \/ RefillBeat)
    /\ WF_vars(ReadDone \/ WriteDone)
    /\ WF_vars(EvictWrittenBack \/ EvictFlushed)
    /\ WF_vars(Writeback \/ Invalidate)
    /\ WF_vars(FlushAddr \/ FlushClean \/ FlushEvict \/ FlushNextWay)

FairSpec == Spec /\ Fairness

-----------------------------------------------------------------------------
States == {"RESET", "LOOKUP", "REFILL", "READ", "WRITE", "EVICT", "EVICT_WAIT",
           "WRITEBACK", "INVALIDATE", "FLUSH_ADDR", "FLUSH"}
Data == Value \cup {Junk}

\* The registers and RAMs hold values of their widths.
TypeOK ==
    /\ state_q \in States
    /\ mem_m \in Request
    /\ tag_ram \in [Ways -> [Sets -> Entry]]
    /\ tag_out \in [Ways -> Entry]
    /\ data_ram \in [Ways -> [Cell -> Data]]
    /\ data_out \in [Ways -> Data]
    /\ replace_way_q \in Ways
    /\ flush_addr_q \in Sets
    /\ flushing_q \in BOOLEAN
    /\ flush_last_q \in BOOLEAN
    /\ data_write_addr_q \in Cell
    /\ pmem_rd_q \in BOOLEAN
    /\ pmem_wr0_q \in BOOLEAN
    /\ pmem_len_q \in 0 .. 255
    /\ pmem_wr_q \in [valid : BOOLEAN, data : Data]
    /\ memory \in [Addr -> Data]
    /\ port \in [op : {"idle", "rd", "wr"}, line : Line, beat : 0 .. NumWords]

Holds(e, t) == e.valid /\ e.tag = t

\* The way is being filled: its tag and its words do not belong together.
Filling(w, s) == state_q = "REFILL" /\ w = replace_way_q /\ s = mem_m.addr.set

\* The way answers for the line of address a.
Owns(w, a) ==
    state_q # "RESET" /\ Holds(tag_ram[w][a.set], a.tag) /\ ~Filling(w, a.set)

\* The word the requester must find at an address: the write being answered,
\* else the word of the way that owns the line, else the word in memory.
Word(a) ==
    IF MemAck /\ mem_m.op = "wr" /\ mem_m.addr = a THEN mem_m.data
    ELSE IF Owns(0, a) THEN data_ram[0][CellOf(a)]
    ELSE IF Owns(1, a) THEN data_ram[1][CellOf(a)]
    ELSE memory[a]

\* The cache is transparent (dcache_core.v as a whole): through refills,
\* evictions, stalled bursts and flushes the port answers every read with the
\* word last written, and maintenance changes no word.
MP == INSTANCE MemPort WITH
        Init0 <- MemInit,
        store <- [a \in Addr |-> Word(a)],
        req   <- IF mem_m.op = "none" THEN [op |-> "none"] ELSE mem_m,
        resp  <- IF ~MemAck THEN [valid |-> FALSE]
                 ELSE IF mem_m.op = "rd" THEN [valid |-> TRUE, data |-> DataOut]
                 ELSE [valid |-> TRUE]
Transparent == MP!Spec

\* No line is in both ways (tag write enables 297-323 and 353-379): the two
\* copies would part, and data_r would pick way 0 whichever is newer.
UniqueResidency ==
    state_q # "RESET" =>
        \A s \in Sets, t \in Tags : ~(Holds(tag_ram[0][s], t) /\ Holds(tag_ram[1][s], t))

\* A line that is not dirty can be dropped or overwritten at any time: memory
\* has its words (the refill of 617-663, the evict that ends at 358-367).
CleanMatchesMemory ==
    state_q # "RESET" =>
        \A w \in Ways, l \in Line : 
            LET e == tag_ram[w][l.set]
            IN  Holds(e, l.tag) /\ ~e.dirty /\ ~Filling(w, l.set) =>
                    \A k \in Words : data_ram[w][<<l.set, k>>] = memory[AddrAt(l, k)]

\* A flush is answered when every dirty line is in memory and no line is
\* left (STATE_FLUSH_ADDR, STATE_FLUSH and the evictions between them).
FlushedOut ==
    state_q = "LOOKUP" /\ mem_m.op = "flush" =>
        \A w \in Ways, s \in Sets : ~tag_ram[w][s].valid

\* A write back is answered when memory has the words of the line
\* (STATE_WRITEBACK, and STATE_EVICT with mem_writeback_m_q).
WrittenBack ==
    state_q = "LOOKUP" /\ mem_m.op = "wb" =>
        \A k \in Words : LET a == [mem_m.addr EXCEPT !.word = k] IN memory[a] = Word(a)

\* The burst the bus has taken and the counters that drive it stay in step,
\* over stalls and the wrap of data_write_addr_q into the next line: a burst
\* starts on an idle port, ends when pmem_len_q is 0, and the data RAM address
\* is the beat's own on a refill and one ahead of it on an evict.
BurstInStep ==
    /\ pmem_rd_q => /\ state_q = "REFILL" /\ port.op = "idle"
                    /\ data_write_addr_q = Base(mem_m.addr.set)
    /\ pmem_wr0_q => state_q = "EVICT" /\ port.op = "idle"
    /\ port.op = "rd" =>
          /\ state_q = "REFILL"
          /\ port.line = [tag |-> mem_m.addr.tag, set |-> mem_m.addr.set]
          /\ port.beat + pmem_len_q = NumWords - 1
          /\ data_write_addr_q = <<port.line.set, port.beat>>
    /\ state_q = "EVICT" =>
          LET sent == IF pmem_wr0_q THEN 0 ELSE port.beat
          IN  /\ sent + pmem_len_q = NumWords - 1
              /\ data_write_addr_q = NextCell(<<EvictSet, sent>>)
              /\ ~pmem_wr0_q => port.op = "wr" /\ port.line = EvictLine
    /\ state_q = "EVICT_WAIT" => port.op = "wr" /\ port.beat = NumWords
    /\ port.op = "wr" => state_q \in {"EVICT", "EVICT_WAIT"}

\* What the proof of UniqueResidency rests on.  The tag outputs are the
\* entries of the set the state works on;
TagsAt(s) == [w \in Ways |-> tag_ram[w][s]]
TagsRead ==
    /\ (state_q = "LOOKUP" /\ IsAccess) \/ state_q \in {"REFILL", "READ", "WRITE", "WRITEBACK"}
          => tag_out = TagsAt(mem_m.addr.set)
    /\ state_q \in {"EVICT", "EVICT_WAIT"} => tag_out = TagsAt(EvictSet)
    /\ state_q = "FLUSH" => tag_out = TagsAt(flush_addr_q)

\* a state works for the operations that lead to it;
OpInState ==
    /\ flushing_q => mem_m.op = "flush" /\ state_q \in {"FLUSH_ADDR", "FLUSH", "EVICT", "EVICT_WAIT"}
    /\ state_q \in {"FLUSH_ADDR", "FLUSH"} => flushing_q
    /\ state_q \in {"EVICT", "EVICT_WAIT"} => flushing_q \/ mem_m.op \in {"rd", "wr", "wb"}
    /\ state_q = "REFILL" => mem_m.op \in {"rd", "wr"}
    /\ state_q = "READ" => mem_m.op = "rd"
    /\ state_q = "WRITE" => mem_m.op = "wr"
    /\ state_q = "WRITEBACK" => mem_m.op = "wb"
    /\ state_q = "INVALIDATE" => mem_m.op = "inval"
    /\ state_q = "RESET" => mem_m.op = "none"

\* the way at work is the one that holds the line, or no other way holds it;
WayInState ==
    /\ state_q \in {"EVICT", "EVICT_WAIT"} =>
          IF mem_m.op = "wb" THEN Hit(replace_way_q) ELSE EvictWay
    /\ state_q = "REFILL" => \A w \in Ways : Hit(w) => w = replace_way_q
    /\ state_q = "WRITE" => Hit(replace_way_q)

\* the reset walk leaves no entry valid behind it.
Cleared ==
    state_q = "RESET" =>
        \A s \in Sets : s < flush_addr_q \/ flush_last_q =>
            \A w \in Ways : ~tag_ram[w][s].valid

Inductive ==
    TypeOK /\ BurstInStep /\ TagsRead /\ OpInState /\ WayInState /\ Cleared /\ UniqueResidency

\* Whatever was accepted is answered, if the bus goes on: no state waits for
\* an answer nobody owes, and a flush gets past every line.
Answered == mem_m.op # "none" ~> MemAck

\* "Invalidate - mark entry (if matching line) not valid (even if dirty...)"
\* (273): when an invalidate is answered no way holds its line.
InvalidateDrops ==
    state_q = "LOOKUP" /\ mem_m.op = "inval" =>
        \A w \in Ways : ~Holds(tag_ram[w][mem_m.addr.set], mem_m.addr.tag)
=============================================================================
