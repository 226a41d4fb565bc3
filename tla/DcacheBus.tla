------------------------------ MODULE DcacheBus ------------------------------
(* From the data port to AXI, src/src/dcache: dcache_mux sends each request  *)
(* to the cache core or to the uncached bridge (dcache_if_pmem), both share  *)
(* one outport (dcache_pmem_mux), dcache_axi queues its requests and         *)
(* dcache_axi_axi makes the AXI channels of them.  A step is one clock cycle *)
(* of all of them; the wires are operators, with r the request offered at    *)
(* the port and dev what the AXI slave takes in the cycle.                   *)
(*                                                                           *)
(* The core is here as the bus sees it (DcacheCore has its inside): which    *)
(* bursts a request needs is part of the request.  A word is a pair of a     *)
(* value and its place in the line, so that beats out of place show.         *)
EXTENDS Naturals, Sequences, SequencesExt

CONSTANTS
    NumWords,   \* words of a line
    Lines,      \* cacheable lines
    Device,     \* an uncacheable word
    Tags,       \* request tags: the load store unit's, the MMU walker's
    Value,
    Initial,    \* the value everything behind AXI has at the start
    Offers      \* what can be on the request lines, idle lines included

Words == 0 .. NumWords - 1
Place == (Lines \X Words) \cup {<<Device, 0>>}
Word  == Value \X Words
Kinds == {"idle", "hit", "refill", "swap", "writeback", "load", "store", "drop"}
Offer == [kind : Kinds, line : Lines \cup {Device}, victim : Lines, value : Value, tag : Tags]

\* The beats of a burst are counted in eight bits, and a beat more than the length says
\* while the first one waits for its address: 256 beats would wrap.  The lines of the
\* cache have eight words.
ASSUME SizeAssumption == NumWords \in 2 .. 255
ASSUME InputAssumption ==
    /\ Device \notin Lines
    /\ Initial \in Value
    /\ Offers \subseteq Offer
    /\ \A r \in Offers : /\ r.kind \in {"hit", "refill", "swap", "writeback"} => r.line \in Lines
                         /\ r.kind \in {"load", "store", "drop"} => r.line = Device

VARIABLES
    pending_q, cache_access_q,        \* dcache_mux
    select_q,                         \* dcache_pmem_mux
    unc_req, unc_resp,                \* dcache_if_pmem: its two fifos
    request_pending_q, dropped_q,     \* dcache_if_pmem
    core,                             \* the cache core: state, request, burst
    axi_req,                          \* dcache_axi: the request fifo
    resp_outstanding_q, req_cnt_q,    \* dcache_axi
    awvalid_inhibit_q, wvalid_inhibit_q, burst_cnt_q, buf_q,    \* dcache_axi_axi
    txns, rsp, memory,                \* the AXI slave: open transactions, answer on the wires
    owed, shadow                      \* history: answers owed, memory as the requests leave it

muxVars   == <<pending_q, cache_access_q, select_q>>
uncVars   == <<unc_req, unc_resp, request_pending_q, dropped_q>>
axiVars   == <<axi_req, resp_outstanding_q, req_cnt_q>>
widgetVars == <<awvalid_inhibit_q, wvalid_inhibit_q, burst_cnt_q, buf_q>>
slaveVars == <<txns, rsp, memory>>
history   == <<owed, shadow>>
vars == <<muxVars, uncVars, core, axiVars, widgetVars, slaveVars, history>>

Push(q, push, x) == IF push THEN Append(q, x) ELSE q
Pop(q, pop) == IF pop /\ q # <<>> THEN Tail(q) ELSE q

NoPmem == [op |-> "none"]
NoRsp  == [op |-> "none"]
NoBuf  == [valid |-> FALSE]

-----------------------------------------------------------------------------
(* dcache_mux and the acknowledges.                                          *)
Cached(r) == r.line # Device
Busy == pending_q # 0
\* Mutation: a request goes to the other side while answers are due.
Hold_Never(r) == FALSE
\* A request of the other side waits for the answers of this one.
Hold(r) == Busy /\ cache_access_q # Cached(r)
\* Mutation: the outport goes to whoever the request lines name.
Select_NotBusy(r) == Cached(r)
\* cache_active_o, to the mux of the outport.
Select(r) == IF Busy THEN cache_access_q ELSE Cached(r)

BusAck  == rsp.op # "none"
CoreBusAck == select_q /\ BusAck
UncAck  == dropped_q \/ (~select_q /\ BusAck)
CoreAck == core.state = "LOOKUP" /\ core.req.kind = "hit"
MemAck  == IF cache_access_q THEN CoreAck ELSE UncAck
MemRespTag == IF cache_access_q THEN core.req.tag ELSE Head(unc_resp)
MemDataRd  == IF cache_access_q THEN core.words ELSE <<rsp.word>>

\* The core refuses a read of the word it is writing (slow).
CoreAccept(slow) == core.state = "LOOKUP" /\ core.req.kind \in {"idle", "hit"} /\ ~slow
\* Mutation: only the request fifo is asked for room.
UncAccept_OneFifo == Len(unc_req) # 2
UncAccept == Len(unc_req) # 2 /\ Len(unc_resp) # 2
Taken(r, slow) ==
    /\ r.kind # "idle"
    /\ ~Hold(r)
    /\ IF Cached(r) THEN CoreAccept(slow) ELSE UncAccept

Mux(r, slow) ==
    /\ pending_q' = IF Taken(r, slow) = MemAck THEN pending_q
                    ELSE IF MemAck THEN (pending_q + 31) % 32 ELSE (pending_q + 1) % 32
    /\ cache_access_q' = IF Taken(r, slow) THEN Cached(r) ELSE cache_access_q
    /\ select_q' = Select(r)

-----------------------------------------------------------------------------
(* The two users of the outport, and dcache_pmem_mux between them.           *)
InProgress == request_pending_q /\ ~UncAck
UncGo   == unc_req # <<>> /\ ~InProgress
UncDrop == UncGo /\ Head(unc_req).kind = "drop"
UncPmem ==
    IF UncGo /\ ~UncDrop
    THEN [op |-> IF Head(unc_req).kind = "load" THEN "rd" ELSE "wr", len |-> 0,
          place |-> <<Device, 0>>, word |-> <<Head(unc_req).value, 0>>]
    ELSE NoPmem

RefillRequest ==
    \/ core.state = "LOOKUP" /\ core.req.kind = "refill"
    \/ core.state = "EVICT_WAIT" /\ CoreBusAck /\ core.req.kind = "swap"
    \/ core.rd
CorePmem ==
    IF RefillRequest
    THEN [op |-> "rd", len |-> NumWords - 1, place |-> <<core.req.line, 0>>,
          word |-> <<core.req.value, 0>>]
    ELSE IF core.state = "EVICT"
    THEN [op |-> "wr", len |-> IF core.sent = 0 THEN NumWords - 1 ELSE 0,
          place |-> <<core.req.victim, core.sent>>, word |-> <<core.req.value, core.sent>>]
    ELSE NoPmem

Pmem(r)    == IF Select(r) THEN CorePmem ELSE UncPmem
PmemAccept == Len(axi_req) # 2
CorePmemAccept(r) == Select(r) /\ PmemAccept
UncComplete(r) == UncDrop \/ (UncPmem # NoPmem /\ ~Select(r) /\ PmemAccept)

\* Mutation: the acknowledge of a dropped request leaves the flag standing.
RequestPending_Drop(r) ==
    request_pending_q' = (UncComplete(r) \/ (request_pending_q /\ ~(~select_q /\ BusAck)))

\* Set again in the cycle of an acknowledge, if the next request goes on in it.
RequestPending(r) == request_pending_q' = (UncComplete(r) \/ (request_pending_q /\ ~UncAck))

\* dcache_if_pmem: one request at a time goes on.
Uncached(r, slow) ==
    LET push == Taken(r, slow) /\ ~Cached(r)
    IN  /\ unc_req' = Push(Pop(unc_req, UncComplete(r)), push, r)
        /\ unc_resp' = Push(Pop(unc_resp, UncAck), push, r.tag)
        /\ RequestPending(r)
        /\ dropped_q' = UncDrop

\* The core, an action for what each of its states does on the bus.  A refill
\* is answered here with all the words it brought.
Fresh(q) == [state |-> "LOOKUP", req |-> q, rd |-> FALSE, sent |-> 0, words |-> <<>>]
Idle == [kind |-> "idle"]

CoreLookup(r, slow) ==
    /\ core.state = "LOOKUP" /\ core.req.kind \in {"idle", "hit"}
    /\ core' = Fresh(IF Taken(r, slow) /\ Cached(r) THEN r ELSE Idle)

CoreMiss ==
    /\ core.state = "LOOKUP" /\ core.req.kind \in {"swap", "writeback"}
    /\ core' = [core EXCEPT !.state = "EVICT"]

\* STATE_EVICT: a beat each time the outport takes one.
CoreEvict(r) ==
    /\ core.state = "EVICT"
    /\ core' = IF ~CorePmemAccept(r) THEN core
               ELSE [core EXCEPT !.sent = @ + 1,
                                 !.state = IF core.sent = NumWords - 1 THEN "EVICT_WAIT" ELSE @]

CoreEvictWait ==
    /\ core.state = "EVICT_WAIT"
    /\ ~RefillRequest
    /\ core' = IF CoreBusAck THEN [core EXCEPT !.state = "LOOKUP", !.req.kind = "hit"] ELSE core

\* A refill is asked for until it is taken; its words arrive one by one.
CoreRefill(r) ==
    /\ RefillRequest \/ core.state = "REFILL"
    /\ LET beat == core.state = "REFILL" /\ CoreBusAck
           last == beat /\ Len(core.words) = NumWords - 1
       IN  core' = [core EXCEPT !.state = IF last THEN "READ" ELSE "REFILL",
                                !.rd = RefillRequest /\ ~CorePmemAccept(r),
                                !.words = Push(@, beat, rsp.word)]

CoreRead ==
    /\ core.state = "READ"
    /\ core' = [core EXCEPT !.state = "LOOKUP", !.req.kind = "hit"]

Core(r, slow) ==
    CoreLookup(r, slow) \/ CoreMiss \/ CoreEvict(r) \/ CoreEvictWait \/ CoreRefill(r) \/ CoreRead

-----------------------------------------------------------------------------
(* dcache_axi: the request fifo, the credit for two answers, the beats.      *)
CanIssue == axi_req # <<>> /\ resp_outstanding_q # 2
Req      == Head(axi_req)
IsWrite  == CanIssue /\ Req.op = "wr"
IsRead   == CanIssue /\ Req.op = "rd"

(* dcache_axi_axi: the AXI channels.  What the slave takes in a cycle (dev): *)
(* nothing, an address, or an address and a data beat.  No slave behind the  *)
(* interconnect takes a beat before its address.                             *)
AwValid  == IsWrite /\ ~awvalid_inhibit_q
ArValid  == IsRead
WValid   == buf_q.valid \/ (IsWrite /\ ~wvalid_inhibit_q)
\* Mutation: the count of beats runs one ahead.
WLast_Early == IF buf_q.valid THEN buf_q.last
               ELSE (AwValid /\ Req.len = 0) \/ burst_cnt_q = 2
WLast == IF buf_q.valid THEN buf_q.last
         ELSE (AwValid /\ Req.len = 0) \/ burst_cnt_q = 1
WData == IF buf_q.valid THEN buf_q.word ELSE Req.word

AwFire(dev) == AwValid /\ dev # "nothing"
ArFire(dev) == ArValid /\ dev # "nothing"
WFire(dev)  == WValid /\ dev = "both"
AxiAccept(dev) == AwFire(dev) \/ (WFire(dev) /\ ~buf_q.valid) \/ ArFire(dev)

Dec(n) == (n + 255) % 256

\* A beat whose address went ahead of it is kept until it is taken.
Buffer(dev) ==
    buf_q' = IF AwFire(dev) /\ WValid /\ ~WFire(dev)
             THEN [valid |-> TRUE, last |-> WLast, word |-> WData]
             ELSE IF dev = "both" THEN NoBuf ELSE buf_q

Widget(dev) ==
    /\ awvalid_inhibit_q' =
          \/ AwFire(dev) /\ (Req.len # 0 \/ (WValid /\ ~WFire(dev)))
          \/ awvalid_inhibit_q /\ ~(WFire(dev) /\ WLast)
    /\ wvalid_inhibit_q' =
          \/ WFire(dev) /\ AwValid /\ ~AwFire(dev)
          \/ wvalid_inhibit_q /\ ~AwFire(dev)
    /\ burst_cnt_q' =
          IF AwFire(dev) THEN IF dev # "both" /\ ~wvalid_inhibit_q THEN (Req.len + 1) % 256 ELSE Req.len
          ELSE IF burst_cnt_q # 0 /\ WFire(dev) THEN Dec(burst_cnt_q) ELSE burst_cnt_q
    /\ Buffer(dev)

ReqLast == IsWrite /\ Req.len = 0 /\ req_cnt_q = 0
RspLast == rsp.op = "wr" \/ (rsp.op = "rd" /\ rsp.last)

Axi(r, dev) ==
    LET push == (ReqLast \/ IsRead) /\ AxiAccept(dev)
        pop  == RspLast /\ resp_outstanding_q # 0
    IN  /\ axi_req' = Push(Pop(axi_req, AxiAccept(dev)), Pmem(r) # NoPmem /\ PmemAccept, Pmem(r))
        /\ req_cnt_q' =
              IF IsWrite /\ AxiAccept(dev) /\ req_cnt_q = 0 /\ Req.len # 0 THEN Dec(Req.len)
              ELSE IF IsWrite /\ AxiAccept(dev) /\ req_cnt_q # 0 THEN Dec(req_cnt_q)
              ELSE req_cnt_q
        /\ resp_outstanding_q' =
              IF push = pop THEN resp_outstanding_q
              ELSE IF push THEN resp_outstanding_q + 1 ELSE resp_outstanding_q - 1

-----------------------------------------------------------------------------
(* The AXI slave: opens a transaction for each address, takes write beats    *)
(* until the one marked last, and answers the transactions in order.         *)
Opened(dev) ==
    Push(txns, AwFire(dev) \/ ArFire(dev),
         [op |-> Req.op, place |-> Req.place, len |-> Req.len, beat |-> 0, closed |-> Req.op = "rd"])

\* The transaction that takes the write data, if one is open.
Writing(ts) == ts # <<>> /\ ~Last(ts).closed
BeatPlace(t) == <<t.place[1], t.place[2] + t.beat>>

Respond(ts, respond) ==
    LET t == Head(ts) IN
    IF ~respond \/ ts = <<>> \/ ~t.closed
    THEN rsp' = NoRsp /\ txns' = ts
    ELSE IF t.op = "wr"
    THEN rsp' = [op |-> "wr", place |-> t.place, word |-> <<Initial, 0>>] /\ txns' = Tail(ts)
    ELSE /\ rsp' = [op |-> "rd", place |-> t.place, word |-> memory'[BeatPlace(t)],
                    last |-> t.beat = t.len]
         /\ txns' = IF t.beat = t.len THEN Tail(ts) ELSE [ts EXCEPT ![1].beat = @ + 1]

Slave(dev, respond) ==
    LET ts == Opened(dev)
        t  == Last(ts)
    IN  IF WFire(dev) /\ Writing(ts)
        THEN /\ memory' = [memory EXCEPT ![BeatPlace(t)] = WData]
             /\ Respond([ts EXCEPT ![Len(ts)] = [t EXCEPT !.beat = @ + 1, !.closed = WLast]], respond)
        ELSE /\ UNCHANGED memory
             /\ Respond(ts, respond)

-----------------------------------------------------------------------------
(* What the requester is owed: for each request its tag and, for a load or   *)
(* a refill, the words as the requests before it leave them.                 *)
LineOf(mem, l) == [k \in 1 .. NumWords |-> mem[<<l, k - 1>>]]

After(r) ==
    [p \in Place |->
        IF r.kind = "store" /\ p = <<Device, 0>> THEN <<r.value, 0>>
        ELSE IF r.kind \in {"swap", "writeback"} /\ p[1] = r.victim THEN <<r.value, p[2]>>
        ELSE shadow[p]]

Answer(r) ==
    [tag |-> r.tag,
     words |-> CASE r.kind = "load" -> <<shadow[<<Device, 0>>]>>
                 [] r.kind \in {"refill", "swap"} -> LineOf(After(r), r.line)
                 [] OTHER -> <<>>]

History(r, slow) ==
    IF Taken(r, slow)
    THEN shadow' = After(r) /\ owed' = Append(Pop(owed, MemAck), Answer(r))
    ELSE UNCHANGED shadow /\ owed' = Pop(owed, MemAck)

-----------------------------------------------------------------------------
Init ==
    /\ pending_q = 0 /\ cache_access_q = FALSE /\ select_q = FALSE
    /\ unc_req = <<>> /\ unc_resp = <<>> /\ request_pending_q = FALSE /\ dropped_q = FALSE
    /\ core = Fresh(Idle)
    /\ axi_req = <<>> /\ resp_outstanding_q = 0 /\ req_cnt_q = 0
    /\ awvalid_inhibit_q = FALSE /\ wvalid_inhibit_q = FALSE /\ burst_cnt_q = 0 /\ buf_q = NoBuf
    /\ txns = <<>> /\ rsp = NoRsp
    /\ memory = [p \in Place |-> <<Initial, p[2]>>]
    /\ owed = <<>> /\ shadow = memory

Cycle(r, slow, dev, respond) ==
    /\ Mux(r, slow) /\ Uncached(r, slow) /\ Core(r, slow)
    /\ Axi(r, dev) /\ Widget(dev) /\ Slave(dev, respond)
    /\ History(r, slow)

Devs == {"nothing", "address", "both"}
Next == \E r \in Offers, slow, respond \in BOOLEAN, dev \in Devs : Cycle(r, slow, dev, respond)

Spec == Init /\ [][Next]_vars

\* The requester may stop offering; the slave takes and answers what it is
\* asked in the end, and the core is not refused for ever.
Ready == \E r \in Offers : Cycle(r, FALSE, "both", TRUE)
FairSpec == Spec /\ WF_vars(Ready)

-----------------------------------------------------------------------------
\* Registers hold values of their widths and no fifo is filled beyond its two
\* entries (the counts of dcache_if_pmem_fifo and dcache_axi_fifo, which would
\* run past DEPTH and overwrite an entry).
TypeOK ==
    /\ pending_q \in 0 .. 31 /\ {cache_access_q, select_q} \subseteq BOOLEAN
    /\ unc_req \in Seq(Offers) /\ Len(unc_req) <= 2
    /\ unc_resp \in Seq(Tags) /\ Len(unc_resp) <= 2
    /\ {request_pending_q, dropped_q} \subseteq BOOLEAN
    /\ core.state \in {"LOOKUP", "EVICT", "EVICT_WAIT", "REFILL", "READ"}
    /\ core.req \in Offers \cup {Idle} \cup {[r EXCEPT !.kind = "hit"] : r \in Offers}
    /\ core.rd \in BOOLEAN /\ core.sent \in 0 .. NumWords /\ core.words \in Seq(Word)
    /\ axi_req \in Seq([op : {"rd", "wr"}, len : 0 .. 255, place : Place, word : Word])
    /\ Len(axi_req) <= 2
    /\ resp_outstanding_q \in 0 .. 2 /\ req_cnt_q \in 0 .. 255
    /\ {awvalid_inhibit_q, wvalid_inhibit_q} \subseteq BOOLEAN
    /\ burst_cnt_q \in 0 .. 255
    /\ buf_q \in {NoBuf} \cup [valid : {TRUE}, last : BOOLEAN, word : Word]
    /\ memory \in [Place -> Word] /\ shadow \in [Place -> Word]

\* What the port answers is what is owed, in order: no answer to a request of
\* one side is taken for one of the other, none comes twice, and loads
\* and refills see every write before them (mem_ack_o, mem_resp_tag_o and
\* mem_data_rd_o of dcache_mux.v:104-107).
InOrder ==
    /\ Len(owed) = pending_q
    /\ MemAck => /\ owed # <<>>
                 /\ MemRespTag = Head(owed).tag
                 /\ Head(owed).words = <<>> \/ Head(owed).words = MemDataRd

\* An answer on the AXI wires finds the side that asked for it selected
\* (dcache_pmem_mux.v:104-116 takes it from select_q alone, the answer itself does
\* not say), and no second transaction is open with it, since reads and writes
\* answer on channels that are not ordered.
RespondsToIssuer ==
    /\ BusAck => select_q = (rsp.place[1] \in Lines)
    /\ Len(txns) <= 1
    /\ BusAck /\ txns # <<>> => rsp.op = "rd" /\ ~rsp.last

\* Each write burst has the beats its address announced, the last one marked,
\* however the slave holds up the two channels (wlast_w and req_cnt_q of
\* dcache_axi_axi.v:113-135).
WholeBursts ==
    WValid =>
        IF AwValid THEN WLast = (Req.len = 0)
        ELSE Writing(txns) /\ WLast = (Last(txns).beat = Last(txns).len)

\* Every request is answered: no acknowledge is dropped between the two sides
\* (dcache_pmem_mux.v:111-116, request_pending_q of dcache_if_pmem.v:146-168) and no
\* beat between the AXI channels.
Answered == owed # <<>> ~> MemAck
=============================================================================
