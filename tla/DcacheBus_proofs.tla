-------------------------- MODULE DcacheBus_proofs --------------------------
(* Proofs about the way from the data port to AXI, for every number of words *)
(* of a line, all lines, tags and values, and every request the port may be  *)
(* offered: the invariants of DcacheBus.                                     *)
(*                                                                           *)
(* The outport has one user at a time, and one thing under way at most: none *)
(* (Quiet), a read of which some words have come (Reading), or a write of    *)
(* which the outport has taken s words, the channels a, and the slave f      *)
(* (WriteAt): every count and flag of dcache_axi and dcache_axi_axi is a     *)
(* function of those three.  Lemmas on a cycle of each come first.           *)
(*                                                                           *)
(* Inv says who the user is.  On the core's side (CoreSide) each state of the *)
(* core goes with one state of the bus, and memory is what the requests      *)
(* leave but for the line that is being written.  On the bridge's side       *)
(* (UncSide) the requests in its queue are behind the one on the bus         *)
(* (Behind): their answers see, one after the other, the word of the device  *)
(* that the one before leaves.                                               *)
EXTENDS DcacheBus, TLAPS

\* The half of a cycle behind the outport.
Bus(r, dev, respond) == Axi(r, dev) /\ Widget(dev) /\ Slave(dev, respond)

\* The channels of AXI when no write is under way.
NoWrite ==
    /\ req_cnt_q = 0 /\ burst_cnt_q = 0 /\ buf_q = NoBuf
    /\ ~awvalid_inhibit_q /\ ~wvalid_inhibit_q

\* Nothing is under way behind the outport.
Quiet == axi_req = <<>> /\ txns = <<>> /\ rsp = NoRsp /\ resp_outstanding_q = 0 /\ NoWrite

\* Nothing but the last answer to what was asked.
Free ==
    /\ axi_req = <<>> /\ txns = <<>> /\ NoWrite
    /\ \/ rsp = NoRsp /\ resp_outstanding_q = 0
       \/ RspLast /\ resp_outstanding_q = 1

\* The last answer leaves, and a request may enter in the same cycle.
LEMMA FreeStep ==
    ASSUME Free, NEW r, NEW dev \in Devs, NEW respond \in BOOLEAN, Bus(r, dev, respond)
    PROVE  /\ memory' = memory /\ txns' = <<>> /\ rsp' = NoRsp /\ resp_outstanding_q' = 0 /\ NoWrite'
           /\ axi_req' = IF Pmem(r) = NoPmem THEN <<>> ELSE <<Pmem(r)>>
<1>1. ~CanIssue /\ ~IsWrite /\ ~IsRead
  BY DEF Free, CanIssue, IsWrite, IsRead
<1>2. ~AwFire(dev) /\ ~ArFire(dev) /\ ~WValid /\ ~WFire(dev) /\ ~AxiAccept(dev) /\ ~AwValid /\ ~ReqLast
  BY <1>1 DEF AwFire, ArFire, WFire, AwValid, ArValid, WValid, AxiAccept, Free, NoWrite, NoBuf, ReqLast
<1>3. Opened(dev) = <<>>
  BY <1>2 DEF Opened, Push, Free
<1>4. memory' = memory /\ txns' = <<>> /\ rsp' = NoRsp
  BY <1>2, <1>3 DEF Bus, Slave, Respond
<1>5. NoWrite'
  BY <1>1, <1>2 DEF Bus, Widget, Buffer, Axi, NoWrite, Free
<1>6. resp_outstanding_q' = 0
  <2>1. CASE rsp = NoRsp
    BY <1>1, <1>2, <2>1 DEF Bus, Axi, Free, RspLast, NoRsp
  <2>2. CASE RspLast
    BY <1>1, <1>2, <2>2 DEF Bus, Axi, Free, RspLast, NoRsp
  <2> QED BY <2>1, <2>2 DEF Free
<1>7. axi_req' = IF Pmem(r) = NoPmem THEN <<>> ELSE <<Pmem(r)>>
  BY <1>2 DEF Bus, Axi, Free, Push, Pop, PmemAccept
<1> QED BY <1>4, <1>5, <1>6, <1>7

-----------------------------------------------------------------------------
(* A read of the bus.                                                        *)
\* The slave counts the beats of a transaction, and closes it.
Transaction(o, p, n, b, x) == [op |-> o, place |-> p, len |-> n, beat |-> b, closed |-> x]

OpenRead(l, n, b) == Transaction("rd", <<l, 0>>, n - 1, b, TRUE)
ReadBeat(l, n, b) == [op |-> "rd", place |-> <<l, 0>>, word |-> memory[<<l, b>>], last |-> b = n - 1]

\* A read of n words from the first of line l is under way, and got of them are there.
Reading(l, n, got) ==
    /\ NoWrite /\ got \in 0 .. n - 1
    /\ \/ /\ Len(axi_req) = 1 /\ txns = <<>> /\ rsp = NoRsp /\ resp_outstanding_q = 0 /\ got = 0
          /\ axi_req[1].op = "rd" /\ axi_req[1].place = <<l, 0>> /\ axi_req[1].len = n - 1
       \/ /\ axi_req = <<>> /\ resp_outstanding_q = 1
          /\ rsp = NoRsp /\ txns = <<OpenRead(l, n, got)>>
       \/ /\ axi_req = <<>> /\ resp_outstanding_q = 1
          /\ rsp = ReadBeat(l, n, got)
          /\ txns = IF got = n - 1 THEN <<>> ELSE <<OpenRead(l, n, got + 1)>>

\* An open read is answered with its next word, or waits.
LEMMA ReadAnswer ==
    ASSUME NEW l, NEW n \in Nat \ {0}, NEW b \in 0 .. n - 1, NEW respond \in BOOLEAN,
           Respond(<<OpenRead(l, n, b)>>, respond), memory' = memory
    PROVE  \/ rsp' = NoRsp /\ txns' = <<OpenRead(l, n, b)>>
           \/ /\ rsp' = ReadBeat(l, n, b)
              /\ txns' = IF b = n - 1 THEN <<>> ELSE <<OpenRead(l, n, b + 1)>>
<1> DEFINE t == OpenRead(l, n, b)
<1>1. /\ Head(<<t>>) = t /\ <<t>> # <<>> /\ Tail(<<t>>) = <<>>
      /\ [<<t>> EXCEPT ![1].beat = @ + 1] = <<[t EXCEPT !.beat = @ + 1]>>
  OBVIOUS
<1>2. /\ t.closed /\ t.op = "rd" /\ t.beat = b /\ t.len = n - 1 /\ t.place = <<l, 0>>
      /\ [t EXCEPT !.beat = @ + 1] = OpenRead(l, n, b + 1) /\ BeatPlace(t) = <<l, b>>
  <2>1. t.closed /\ t.op = "rd" /\ t.beat = b /\ t.len = n - 1 /\ t.place = <<l, 0>>
    BY DEF OpenRead, Transaction
  <2>2. [t EXCEPT !.beat = @ + 1] = OpenRead(l, n, b + 1)
    <3>1. t \in [op : {"rd"}, place : {<<l, 0>>}, len : {n - 1}, beat : Nat, closed : BOOLEAN]
      BY DEF OpenRead, Transaction
    <3> HIDE DEF t
    <3>2. [t EXCEPT !.beat = @ + 1] = Transaction(t.op, t.place, t.len, t.beat + 1, t.closed)
      BY <3>1 DEF Transaction
    <3> QED BY <2>1, <3>2 DEF OpenRead
  <2>3. t.place[1] = l /\ t.place[2] = 0 /\ 0 + b = b
    BY <2>1
  <2>4. BeatPlace(t) = <<l, b>>
    BY <2>1, <2>3 DEF BeatPlace
  <2> QED BY <2>1, <2>2, <2>4
<1> HIDE DEF t
<1>3. Respond(<<t>>, respond)
  BY DEF t
<1>4. CASE ~respond
  BY <1>1, <1>2, <1>3, <1>4 DEF Respond, t
<1>5. CASE respond
  BY <1>1, <1>2, <1>3, <1>5 DEF Respond, ReadBeat, t
<1> QED BY <1>4, <1>5

\* A cycle of a read: the next word comes, or none.
LEMMA ReadStep ==
    ASSUME NEW S, axi_req \in Seq(S), NEW l, NEW n \in Nat \ {0}, NEW got, Reading(l, n, got),
           NEW r, NEW dev \in Devs, NEW respond \in BOOLEAN, Bus(r, dev, respond),
           Pmem(r) = NoPmem, ~(BusAck /\ got = n - 1)
    PROVE  memory' = memory /\ IF BusAck THEN Reading(l, n, got + 1)' ELSE Reading(l, n, got)'
<1>0. got \in 0 .. n - 1 /\ NoWrite
  BY DEF Reading
<1>1. /\ ~IsWrite /\ ~AwValid /\ ~WValid
      /\ ~WFire(dev) /\ ~AwFire(dev) /\ ~ReqLast
  <2>1. ~IsWrite
    BY DEF Reading, IsWrite, CanIssue, Req
  <2> QED BY <1>0, <2>1 DEF AwValid, WValid, WFire, AwFire, ReqLast, NoWrite, NoBuf
<1>2. NoWrite'
  BY <1>0, <1>1 DEF Bus, Widget, Buffer, Axi, NoWrite
<1>3. memory' = memory /\ Respond(Opened(dev), respond)
  BY <1>1 DEF Bus, Slave
<1>4. axi_req' = Pop(axi_req, AxiAccept(dev))
  BY DEF Bus, Axi, Push
<1>5. CASE axi_req # <<>>
  <2>0. /\ Len(axi_req) = 1 /\ txns = <<>> /\ rsp = NoRsp /\ resp_outstanding_q = 0 /\ got = 0
        /\ axi_req[1].op = "rd" /\ axi_req[1].place = <<l, 0>> /\ axi_req[1].len = n - 1
    BY <1>5 DEF Reading
  <2>1. ~BusAck /\ IsRead /\ ArValid /\ ~RspLast
    BY <1>5, <2>0 DEF BusAck, NoRsp, IsRead, ArValid, CanIssue, Req, RspLast
  <2>2. CASE dev = "nothing"
    <3>1. ~AxiAccept(dev) /\ Opened(dev) = txns /\ axi_req' = axi_req
      BY <1>1, <1>4, <2>2 DEF AxiAccept, Opened, Push, Pop, ArFire
    <3>2. txns' = <<>> /\ rsp' = NoRsp
      BY <1>3, <2>0, <3>1 DEF Respond
    <3>3. resp_outstanding_q' = 0
      BY <2>0, <2>1, <3>1 DEF Bus, Axi
    <3> QED BY <1>0, <1>2, <1>3, <2>0, <2>1, <3>1, <3>2, <3>3 DEF Reading
  <2>3. CASE dev # "nothing"
    <3>1. AxiAccept(dev) /\ ArFire(dev)
      BY <2>1, <2>3 DEF AxiAccept, ArFire
    <3>2. Opened(dev) = <<OpenRead(l, n, 0)>>
      <4>1. Req = axi_req[1]
        BY <2>0 DEF Req
      <4>2. Req.op = "rd" /\ Req.place = <<l, 0>> /\ Req.len = n - 1
        BY <2>0, <4>1
      <4>3. Opened(dev) = Append(<<>>, OpenRead(l, n, 0))
        BY <2>0, <3>1, <4>2, Zenon DEF Opened, Push, OpenRead, Transaction
      <4> QED BY <4>3
    <3>3. axi_req' = <<>>
      BY <1>4, <1>5, <2>0, <3>1 DEF Pop
    <3>4. resp_outstanding_q' = 1
      BY <2>0, <2>1, <3>1 DEF Bus, Axi
    <3>5. 0 \in 0 .. n - 1 /\ Respond(<<OpenRead(l, n, 0)>>, respond)
      BY <1>3, <3>2
    <3>6. \/ rsp' = NoRsp /\ txns' = <<OpenRead(l, n, 0)>>
          \/ /\ rsp' = ReadBeat(l, n, 0)
             /\ txns' = IF 0 = n - 1 THEN <<>> ELSE <<OpenRead(l, n, 0 + 1)>>
      BY <1>3, <3>5, ReadAnswer
    <3>7. ReadBeat(l, n, 0) = ReadBeat(l, n, 0)'
      BY <1>3 DEF ReadBeat
    <3> QED BY <1>0, <1>2, <1>3, <2>0, <2>1, <3>3, <3>4, <3>6, <3>7 DEF Reading
  <2> QED BY <2>2, <2>3
<1>6. CASE axi_req = <<>>
  <2>0. resp_outstanding_q = 1 /\ ~IsRead /\ ~AxiAccept(dev) /\ ~ArFire(dev)
    BY <1>1, <1>6 DEF Reading, IsRead, CanIssue, AxiAccept, ArFire, ArValid
  <2>1. Opened(dev) = txns /\ axi_req' = <<>>
    BY <1>1, <1>4, <1>6, <2>0 DEF Opened, Push, Pop
  <2>2. ~RspLast
    <3>1. CASE rsp = NoRsp
      BY <3>1 DEF RspLast, NoRsp
    <3>2. CASE rsp = ReadBeat(l, n, got)
      BY <3>2 DEF RspLast, ReadBeat, BusAck
    <3> QED BY <1>6, <3>1, <3>2 DEF Reading
  <2>3. resp_outstanding_q' = 1
    BY <2>0, <2>2 DEF Bus, Axi
  <2>4. CASE rsp = NoRsp
    <3>1. txns = <<OpenRead(l, n, got)>> /\ ~BusAck
      BY <1>6, <2>4 DEF Reading, ReadBeat, NoRsp, BusAck
    <3>2. \/ rsp' = NoRsp /\ txns' = <<OpenRead(l, n, got)>>
          \/ /\ rsp' = ReadBeat(l, n, got)
             /\ txns' = IF got = n - 1 THEN <<>> ELSE <<OpenRead(l, n, got + 1)>>
      BY <1>0, <1>3, <2>1, <3>1, ReadAnswer
    <3>3. ReadBeat(l, n, got) = ReadBeat(l, n, got)'
      BY <1>3 DEF ReadBeat
    <3> QED BY <1>0, <1>2, <1>3, <2>1, <2>3, <3>1, <3>2, <3>3 DEF Reading
  <2>5. CASE rsp # NoRsp
    <3>0. rsp = ReadBeat(l, n, got) /\ BusAck
      BY <1>6, <2>5 DEF Reading, ReadBeat, BusAck
    <3>1. BusAck /\ txns = <<OpenRead(l, n, got + 1)>> /\ got + 1 \in 0 .. n - 1
      BY <1>0, <1>6, <2>5, <3>0 DEF Reading
    <3>2. \/ rsp' = NoRsp /\ txns' = <<OpenRead(l, n, got + 1)>>
          \/ /\ rsp' = ReadBeat(l, n, got + 1)
             /\ txns' = IF got + 1 = n - 1 THEN <<>> ELSE <<OpenRead(l, n, got + 1 + 1)>>
      BY <1>3, <2>1, <3>1, ReadAnswer
    <3>3. ReadBeat(l, n, got + 1) = ReadBeat(l, n, got + 1)'
      BY <1>3 DEF ReadBeat
    <3> QED BY <1>0, <1>2, <1>3, <2>1, <2>3, <3>1, <3>2, <3>3 DEF Reading
  <2> QED BY <2>4, <2>5
<1> QED BY <1>5, <1>6

\* The last word of a read frees the bus.
LEMMA ReadEnds ==
    ASSUME NEW l, NEW n \in Nat \ {0}, NEW got, Reading(l, n, got), BusAck
    PROVE  /\ rsp.word = memory[<<l, got>>] /\ rsp.place[1] = l
           /\ got = n - 1 => Free
           /\ rsp.op = "rd" /\ rsp.last = (got = n - 1)
<1>1. rsp = ReadBeat(l, n, got) /\ axi_req = <<>> /\ resp_outstanding_q = 1 /\ NoWrite
      /\ txns = IF got = n - 1 THEN <<>> ELSE <<OpenRead(l, n, got + 1)>>
  BY DEF Reading, BusAck, NoRsp
<1>2. rsp.word = memory[<<l, got>>] /\ rsp.place[1] = l /\ rsp.op = "rd" /\ rsp.last = (got = n - 1)
  BY <1>1 DEF ReadBeat
<1> QED BY <1>1, <1>2 DEF Free, RspLast

-----------------------------------------------------------------------------
(* A write of the bus.                                                       *)
\* Beat k of a write, as it enters the queue, and the transaction of the slave with f beats.
WriteReq(l, n, v, k) ==
    [op |-> "wr", len |-> IF k = 0 THEN n - 1 ELSE 0, place |-> <<l, k>>, word |-> <<v, k>>]
OpenWrite(l, n, f) == Transaction("wr", <<l, 0>>, n - 1, f, f = n)

\* Of a write of n words to line l the outport has taken s, the channels a, and the
\* slave f; the first word may wait behind its address.
WriteAt(l, n, v, s, a, f) ==
    /\ s \in 0 .. n /\ a \in 0 .. s /\ f \in 0 .. a /\ (f = a \/ (f = 0 /\ a = 1))
    /\ Len(axi_req) = s - a /\ \A i \in 1 .. s - a : axi_req[i] = WriteReq(l, n, v, a + i - 1)
    /\ req_cnt_q = (IF a = 0 \/ a = n THEN 0 ELSE n - 1 - a)
    /\ burst_cnt_q = (IF a = 0 THEN 0 ELSE n - f)
    /\ buf_q = (IF f < a THEN [valid |-> TRUE, last |-> n = 1, word |-> <<v, 0>>] ELSE NoBuf)
    /\ (awvalid_inhibit_q <=> a > 0 /\ f < n) /\ ~wvalid_inhibit_q
    /\ resp_outstanding_q = (IF a = n THEN 1 ELSE 0)
    /\ \/ rsp = NoRsp /\ txns = IF a = 0 THEN <<>> ELSE <<OpenWrite(l, n, f)>>
       \/ f = n /\ txns = <<>> /\ rsp = [op |-> "wr", place |-> <<l, 0>>, word |-> <<Initial, 0>>]
    /\ \A k \in 0 .. f - 1 : memory[<<l, k>>] = <<v, k>>

\* The wires between dcache_axi and the slave while a write is under way.
LEMMA WriteWires ==
    ASSUME NEW S, axi_req \in Seq(S), NEW l, NEW n \in 1 .. 255, NEW v, NEW s, NEW a, NEW f,
           WriteAt(l, n, v, s, a, f), ~BusAck
    PROVE  /\ a < s => Req = WriteReq(l, n, v, a)
           /\ a < s => axi_req # <<>>
           /\ (CanIssue <=> a < s) /\ (IsWrite <=> a < s) /\ ~IsRead
           /\ (AwValid <=> a = 0 /\ a < s)
           /\ (WValid <=> f < a \/ a < s)
           /\ WValid => WData = <<v, f>> /\ (WLast <=> f = n - 1) /\ WLast \in BOOLEAN
           /\ (ReqLast <=> a < s /\ a = n - 1)
           /\ rsp = NoRsp
           /\ (buf_q.valid <=> f < a)
<1>0. s \in 0 .. n /\ a \in 0 .. s /\ f \in 0 .. a /\ (f = a \/ (f = 0 /\ a = 1))
  BY DEF WriteAt
<1>q. Len(axi_req) = s - a /\ \A i \in 1 .. s - a : axi_req[i] = WriteReq(l, n, v, a + i - 1)
  BY DEF WriteAt
<1>b. buf_q = (IF f < a THEN [valid |-> TRUE, last |-> n = 1, word |-> <<v, 0>>] ELSE NoBuf)
  BY DEF WriteAt
<1>c. burst_cnt_q = (IF a = 0 THEN 0 ELSE n - f)
  BY DEF WriteAt
<1>1. a < s => axi_req # <<>> /\ Req = WriteReq(l, n, v, a)
  <2> SUFFICES ASSUME a < s PROVE axi_req # <<>> /\ Req = WriteReq(l, n, v, a)
    OBVIOUS
  <2>1. Len(axi_req) # 0 /\ 1 \in 1 .. s - a
    BY <1>0, <1>q
  <2>2. axi_req[1] = WriteReq(l, n, v, a + 1 - 1)
    BY <2>1, <1>q
  <2>3. a + 1 - 1 = a
    BY <1>0
  <2>4. axi_req # <<>> /\ Head(axi_req) = axi_req[1]
    BY <2>1
  <2> QED BY <2>2, <2>3, <2>4 DEF Req
<1>2. a < s => Req.op = "wr" /\ Req.len = (IF a = 0 THEN n - 1 ELSE 0) /\ Req.word = <<v, a>>
  BY <1>1 DEF WriteReq
<1>3. ~(a < s) => axi_req = <<>>
  BY <1>0, <1>q
<1>4. resp_outstanding_q # 2
  BY DEF WriteAt
<1>5. (CanIssue <=> a < s) /\ (IsWrite <=> a < s) /\ ~IsRead
  <2>1. CanIssue <=> a < s
    BY <1>1, <1>3, <1>4 DEF CanIssue
  <2> QED BY <2>1, <1>2 DEF IsWrite, IsRead
<1>6. buf_q.valid <=> f < a
  BY <1>b DEF NoBuf
<1>7. AwValid <=> a = 0 /\ a < s
  <2>1. awvalid_inhibit_q <=> a > 0 /\ f < n
    BY DEF WriteAt
  <2> QED BY <2>1, <1>0, <1>5 DEF AwValid
<1>8. WValid <=> f < a \/ a < s
  <2>1. ~wvalid_inhibit_q
    BY DEF WriteAt
  <2> QED BY <2>1, <1>5, <1>6 DEF WValid
<1>9. rsp = NoRsp
  BY DEF BusAck, WriteAt
<1>10. ReqLast <=> a < s /\ a = n - 1
  <2>1. req_cnt_q = (IF a = 0 \/ a = n THEN 0 ELSE n - 1 - a)
    BY DEF WriteAt
  <2>2. a < s => (Req.len = 0 <=> a # 0 \/ n = 1)
    BY <1>0, <1>2
  <2>3. a < s => (req_cnt_q = 0 <=> a = 0 \/ a = n - 1)
    BY <2>1, <1>0
  <2> QED BY <2>2, <2>3, <1>0, <1>5 DEF ReqLast
<1>11. CASE f < a
  <2>1. f = 0 /\ a = 1 /\ buf_q = [valid |-> TRUE, last |-> n = 1, word |-> <<v, 0>>]
    BY <1>0, <1>b, <1>11
  <2>2. WData = <<v, f>> /\ (WLast <=> f = n - 1) /\ WLast \in BOOLEAN
    <3>1. buf_q.valid /\ (buf_q.last <=> n = 1) /\ buf_q.last \in BOOLEAN /\ buf_q.word = <<v, 0>>
      BY <2>1
    <3> QED BY <2>1, <3>1 DEF WData, WLast
  <2> QED BY <1>1, <1>5, <1>6, <1>7, <1>8, <1>9, <1>10, <2>2
<1>12. CASE ~(f < a)
  <2>1. f = a /\ ~buf_q.valid
    BY <1>0, <1>6, <1>12
  <2>2. WValid => a < s /\ WData = <<v, f>>
    <3>1. WData = Req.word
      BY <2>1 DEF WData
    <3> QED BY <2>1, <3>1, <1>2, <1>8, <1>12
  <2>4. WLast \in BOOLEAN
    BY <2>1 DEF WLast
  <2>3. a < s => (WLast <=> f = n - 1)
    <3>1. CASE a = 0
      BY <2>1, <3>1, <1>2, <1>7, <1>c DEF WLast
    <3>2. CASE a # 0
      <4>1. burst_cnt_q = n - f /\ ~AwValid
        BY <2>1, <3>2, <1>7, <1>c
      <4> QED BY <4>1, <2>1, <1>0 DEF WLast
    <3> QED BY <3>1, <3>2
  <2> QED BY <1>1, <1>5, <1>6, <1>7, <1>8, <1>9, <1>10, <2>2, <2>3, <2>4
<1> QED BY <1>11, <1>12

\* An open write is answered when it is whole.
LEMMA WriteAnswer ==
    ASSUME NEW l, NEW n, NEW f, NEW respond \in BOOLEAN, Respond(<<OpenWrite(l, n, f)>>, respond)
    PROVE  \/ rsp' = NoRsp /\ txns' = <<OpenWrite(l, n, f)>>
           \/ /\ f = n /\ txns' = <<>>
              /\ rsp' = [op |-> "wr", place |-> <<l, 0>>, word |-> <<Initial, 0>>]
<1> DEFINE t == OpenWrite(l, n, f)
<1>1. Head(<<t>>) = t /\ <<t>> # <<>> /\ Tail(<<t>>) = <<>>
  OBVIOUS
<1>2. t.op = "wr" /\ t.place = <<l, 0>> /\ (t.closed <=> f = n)
  BY DEF OpenWrite, Transaction
<1>3. Respond(<<t>>, respond)
  OBVIOUS
<1> HIDE DEF t
<1>4. CASE f = n /\ respond
  BY <1>1, <1>2, <1>3, <1>4 DEF Respond
<1>5. CASE ~(f = n /\ respond)
  <2>1. rsp' = NoRsp /\ txns' = <<t>>
    BY <1>1, <1>2, <1>3, <1>5 DEF Respond
  <2> QED BY <2>1 DEF t
<1> QED BY <1>4, <1>5 DEF t

\* What fires in a cycle of a write.
LEMMA WriteFires ==
    ASSUME NEW S, axi_req \in Seq(S), NEW l, NEW n \in 1 .. 255, NEW v, NEW s, NEW a, NEW f,
           WriteAt(l, n, v, s, a, f), ~BusAck, NEW dev \in Devs
    PROVE  /\ (AwFire(dev) <=> (a = 0 /\ a < s /\ dev # "nothing")) /\ ~ArFire(dev)
           /\ (WFire(dev) <=> ((f < a \/ a < s) /\ dev = "both"))
           /\ (AxiAccept(dev) <=> (f = a /\ a < s /\ (dev = "both" \/ (a = 0 /\ dev # "nothing"))))
<1>0. s \in 0 .. n /\ a \in 0 .. s /\ f \in 0 .. a /\ (f = a \/ (f = 0 /\ a = 1))
  BY DEF WriteAt
<1>1. /\ (IsWrite <=> a < s) /\ ~IsRead /\ (AwValid <=> a = 0 /\ a < s)
      /\ (WValid <=> f < a \/ a < s) /\ (buf_q.valid <=> f < a)
  BY WriteWires
<1>2. (AwFire(dev) <=> (a = 0 /\ a < s /\ dev # "nothing")) /\ ~ArFire(dev)
  BY <1>1 DEF AwFire, ArFire, ArValid
<1>3. (WFire(dev) <=> ((f < a \/ a < s) /\ dev = "both"))
  BY <1>1 DEF WFire
<1>4. (AxiAccept(dev) <=> (f = a /\ a < s /\ (dev = "both" \/ (a = 0 /\ dev # "nothing"))))
  BY <1>0, <1>1, <1>2, <1>3 DEF AxiAccept
<1> QED BY <1>2, <1>3, <1>4

\* The counts of beats in eight bits.
LEMMA Counts ==
    ASSUME NEW k \in 1 .. 255
    PROVE  Dec(k) = k - 1 /\ k % 256 = k
BY DEF Dec

\* The queue of dcache_axi in a cycle.
LEMMA QueueStep ==
    ASSUME NEW S, axi_req \in Seq(S), NEW r, NEW dev, Axi(r, dev),
           AxiAccept(dev) => axi_req # <<>>, Pmem(r) # NoPmem => Pmem(r) \in S,
           NEW d, d = IF AxiAccept(dev) THEN 1 ELSE 0
    PROVE  /\ axi_req' \in Seq(S)
           /\ Len(axi_req') = IF Pmem(r) # NoPmem /\ PmemAccept THEN (Len(axi_req) - d) + 1
                              ELSE Len(axi_req) - d
           /\ \A i \in 1 .. Len(axi_req) - d : axi_req'[i] = axi_req[i + d]
           /\ Pmem(r) # NoPmem /\ PmemAccept => axi_req'[(Len(axi_req) - d) + 1] = Pmem(r)
<1> DEFINE p == Pop(axi_req, AxiAccept(dev))
<1>1. p \in Seq(S) /\ Len(p) = Len(axi_req) - d /\ \A i \in 1 .. Len(axi_req) - d : p[i] = axi_req[i + d]
  <2>1. CASE AxiAccept(dev)
    BY <2>1 DEF Pop
  <2>2. CASE ~AxiAccept(dev)
    BY <2>2 DEF Pop
  <2> QED BY <2>1, <2>2
<1>2. Len(p) \in Nat
  BY <1>1
<1>3. axi_req' = Push(p, Pmem(r) # NoPmem /\ PmemAccept, Pmem(r))
  BY DEF Axi
<1> HIDE DEF p
<1>4. CASE Pmem(r) # NoPmem /\ PmemAccept
  <2> PICK x \in S : x = Pmem(r)
    BY <1>4
  <2>1. axi_req' = Append(p, x)
    BY <1>3, <1>4 DEF Push
  <2>2. Append(p, x) \in Seq(S) /\ Len(Append(p, x)) = Len(p) + 1
    BY <1>1
  <2>3. /\ \A i \in 1 .. Len(p) : Append(p, x)[i] = p[i]
        /\ Append(p, x)[Len(p) + 1] = x
    BY <1>1
  <2> QED BY <1>1, <1>2, <1>4, <2>1, <2>2, <2>3
<1>5. CASE ~(Pmem(r) # NoPmem /\ PmemAccept)
  <2>1. axi_req' = p
    BY <1>3, <1>5 DEF Push
  <2> QED BY <1>1, <1>5, <2>1
<1> QED BY <1>4, <1>5

\* A write is under way, whatever of it has come how far.
Storing(l, n, v, s) == \E a, f : WriteAt(l, n, v, s, a, f)

\* A cycle in which the outport asks for the next word of a write, or for nothing; it
\* has then taken sent words.
WriteCycle(S, l, n, v, s, sent, r, dev, respond) ==
    /\ dev \in Devs /\ respond \in BOOLEAN /\ Bus(r, dev, respond)
    /\ Pmem(r) # NoPmem => s < n /\ Pmem(r) = WriteReq(l, n, v, s) /\ Pmem(r) \in S
    /\ sent = IF Pmem(r) # NoPmem /\ PmemAccept THEN s + 1 ELSE s
    /\ memory \in [Place -> Word] /\ \A k \in 0 .. n - 1 : <<l, k>> \in Place

\* A cycle of a write: another word may enter the queue, and each word goes on
\* by one place at most.
LEMMA WriteStep ==
    ASSUME NEW S, axi_req \in Seq(S), NEW l, NEW n, NEW v, NEW s, n \in 1 .. 255,
           Storing(l, n, v, s), ~BusAck,
           NEW r, NEW dev, NEW respond, NEW sent, WriteCycle(S, l, n, v, s, sent, r, dev, respond)
    PROVE  Storing(l, n, v, sent)' /\ \A p \in Place : p[1] # l => memory'[p] = memory[p]
<1> PICK a, f : WriteAt(l, n, v, s, a, f)
  BY DEF Storing
<1>d. /\ dev \in Devs /\ respond \in BOOLEAN /\ Bus(r, dev, respond)
      /\ Pmem(r) # NoPmem => s < n /\ Pmem(r) = WriteReq(l, n, v, s) /\ Pmem(r) \in S
      /\ sent = IF Pmem(r) # NoPmem /\ PmemAccept THEN s + 1 ELSE s
      /\ memory \in [Place -> Word] /\ \A k \in 0 .. n - 1 : <<l, k>> \in Place
  BY DEF WriteCycle
<1> DEFINE acc == AxiAccept(dev)
           wf == WFire(dev)
<1> PICK push \in BOOLEAN : push <=> Pmem(r) # NoPmem /\ PmemAccept
  OBVIOUS
<1>p. push => s < n /\ Pmem(r) = WriteReq(l, n, v, s)
  BY <1>d
<1>0. s \in 0 .. n /\ a \in 0 .. s /\ f \in 0 .. a /\ (f = a \/ (f = 0 /\ a = 1))
  BY DEF WriteAt
<1>w. /\ a < s => Req = WriteReq(l, n, v, a) /\ axi_req # <<>>
      /\ (IsWrite <=> a < s) /\ ~IsRead
      /\ (AwValid <=> a = 0 /\ a < s)
      /\ (WValid <=> f < a \/ a < s)
      /\ WValid => WData = <<v, f>> /\ (WLast <=> f = n - 1) /\ WLast \in BOOLEAN
      /\ (ReqLast <=> a < s /\ a = n - 1)
      /\ rsp = NoRsp
  BY WriteWires
<1>r. a < s => Req.op = "wr" /\ Req.place = <<l, a>> /\ Req.len = IF a = 0 THEN n - 1 ELSE 0
  BY <1>w DEF WriteReq
<1>a. (AwFire(dev) <=> a = 0 /\ a < s /\ dev # "nothing") /\ ~ArFire(dev)
  BY <1>d, WriteFires
<1>f. wf <=> (f < a \/ a < s) /\ dev = "both"
  BY <1>d, WriteFires
<1>c. acc <=> f = a /\ a < s /\ (dev = "both" \/ (a = 0 /\ dev # "nothing"))
  BY <1>d, WriteFires
<1>b. acc \in BOOLEAN /\ wf \in BOOLEAN
  BY DEF AxiAccept, WFire, AwFire, ArFire
<1> HIDE DEF acc, wf
<1> PICK s1 \in Nat, a1 \in Nat, f1 \in Nat :
        /\ s1 = IF push THEN s + 1 ELSE s
        /\ a1 = IF acc THEN a + 1 ELSE a
        /\ f1 = IF wf THEN f + 1 ELSE f
  BY <1>0, <1>b
<1>s. s1 = sent
  BY <1>d
<1>1. s1 \in 0 .. n /\ a1 \in 0 .. s1 /\ f1 \in 0 .. a1 /\ (f1 = a1 \/ (f1 = 0 /\ a1 = 1))
  <2>1. s1 \in 0 .. n
    BY <1>d, <1>0
  <2>2. a1 \in 0 .. s1
    BY <1>0, <1>c
  <2>3. f1 \in 0 .. a1
    BY <1>0, <1>c, <1>f
  <2>4. f1 = a1 \/ (f1 = 0 /\ a1 = 1)
    BY <1>0, <1>c, <1>f
  <2> QED BY <2>1, <2>2, <2>3, <2>4
<1>2. Len(axi_req') = s1 - a1 /\ \A i \in 1 .. s1 - a1 : axi_req'[i] = WriteReq(l, n, v, a1 + i - 1)
  <2> DEFINE d == IF acc THEN 1 ELSE 0
  <2>4. acc => axi_req # <<>>
    BY <1>c, <1>w
  <2>5. /\ Len(axi_req') = IF push THEN (Len(axi_req) - d) + 1 ELSE Len(axi_req) - d
        /\ \A i \in 1 .. Len(axi_req) - d : axi_req'[i] = axi_req[i + d]
        /\ push => axi_req'[(Len(axi_req) - d) + 1] = Pmem(r)
    <3>1. (acc <=> AxiAccept(dev)) /\ Axi(r, dev)
      BY <1>d DEF acc, Bus
    <3> PICK e : e = IF acc THEN 1 ELSE 0
      OBVIOUS
    <3>2. /\ e = IF AxiAccept(dev) THEN 1 ELSE 0
          /\ AxiAccept(dev) => axi_req # <<>>
      BY <2>4, <3>1
    <3>3. /\ Len(axi_req') = IF Pmem(r) # NoPmem /\ PmemAccept THEN (Len(axi_req) - e) + 1
                             ELSE Len(axi_req) - e
          /\ \A i \in 1 .. Len(axi_req) - e : axi_req'[i] = axi_req[i + e]
          /\ Pmem(r) # NoPmem /\ PmemAccept => axi_req'[(Len(axi_req) - e) + 1] = Pmem(r)
      <4>1. Pmem(r) # NoPmem => Pmem(r) \in S
        BY <1>d
      <4> QED BY <3>1, <3>2, <4>1, QueueStep
    <3> QED BY <3>3
  <2>6. Len(axi_req) = s - a /\ \A i \in 1 .. s - a : axi_req[i] = WriteReq(l, n, v, a + i - 1)
    BY DEF WriteAt
  <2>7. a1 = a + d /\ d \in 0 .. 1
    <3> QED BY <1>0, <1>b
  <2>8. Len(axi_req') = s1 - a1
    BY <1>0, <2>5, <2>6, <2>7
  <2>9. ASSUME NEW i \in 1 .. s1 - a1 PROVE axi_req'[i] = WriteReq(l, n, v, a1 + i - 1)
    <3>1. CASE i <= (s - a) - d
      <4>1. i \in 1 .. Len(axi_req) - d /\ i + d \in 1 .. s - a /\ a + (i + d) - 1 = a1 + i - 1
        BY <1>0, <2>6, <2>7, <3>1
      <4> QED BY <4>1, <2>5, <2>6
    <3>2. CASE i > (s - a) - d
      <4>1. push /\ i = (Len(axi_req) - d) + 1 /\ a1 + i - 1 = s
        BY <1>0, <2>6, <2>7, <3>2
      <4> QED BY <1>d, <4>1, <2>5
    <3> QED BY <1>0, <2>7, <3>1, <3>2
  <2> QED BY <2>8, <2>9
<1>3. req_cnt_q' = IF a1 = 0 \/ a1 = n THEN 0 ELSE n - 1 - a1
  <2>0. /\ req_cnt_q = (IF a = 0 \/ a = n THEN 0 ELSE n - 1 - a)
        /\ req_cnt_q' = IF IsWrite /\ acc /\ req_cnt_q = 0 /\ Req.len # 0 THEN Dec(Req.len)
                        ELSE IF IsWrite /\ acc /\ req_cnt_q # 0 THEN Dec(req_cnt_q)
                        ELSE req_cnt_q
    BY <1>d DEF WriteAt, Bus, Axi, acc, wf
  <2>1. CASE ~acc
    BY <2>0, <2>1
  <2>2. CASE acc
    <3>0. IsWrite /\ a < s /\ a1 = a + 1 /\ a \in 0 .. n - 1
      BY <1>0, <1>c, <1>w, <2>2
    <3>1. CASE a = 0
      <4>1. req_cnt_q = 0 /\ Req.len = n - 1
        BY <1>r, <2>0, <3>0, <3>1
      <4>2. ASSUME n # 1 PROVE Dec(n - 1) = n - 2
        <5>1. n - 1 \in 1 .. 255 /\ (n - 1) - 1 = n - 2
          BY <4>2
        <5>2. Dec(n - 1) = (n - 1) - 1
          BY <5>1, Counts
        <5> QED BY <5>1, <5>2
      <4> QED BY <2>0, <2>2, <3>0, <3>1, <4>1, <4>2
    <3>2. CASE a # 0
      <4>1. req_cnt_q = n - 1 - a /\ Req.len = 0
        BY <1>r, <2>0, <3>0, <3>2
      <4>2. ASSUME a # n - 1 PROVE Dec(n - 1 - a) = n - 2 - a
        <5>1. n - 1 - a \in 1 .. 255 /\ (n - 1 - a) - 1 = n - 2 - a
          BY <3>0, <4>2
        <5>2. Dec(n - 1 - a) = (n - 1 - a) - 1
          BY <5>1, Counts
        <5> QED BY <5>1, <5>2
      <4> QED BY <2>0, <2>2, <3>0, <3>2, <4>1, <4>2
    <3> QED BY <3>1, <3>2
  <2> QED BY <2>1, <2>2
<1>4. burst_cnt_q' = IF a1 = 0 THEN 0 ELSE n - f1
  <2>0. /\ burst_cnt_q = (IF a = 0 THEN 0 ELSE n - f)
        /\ ~wvalid_inhibit_q
        /\ burst_cnt_q' =
              IF AwFire(dev) THEN IF dev # "both" /\ ~wvalid_inhibit_q THEN (Req.len + 1) % 256 ELSE Req.len
              ELSE IF burst_cnt_q # 0 /\ wf THEN Dec(burst_cnt_q) ELSE burst_cnt_q
    BY <1>d DEF WriteAt, Bus, Widget, acc, wf
  <2>1. CASE AwFire(dev)
    <3>1. a = 0 /\ f = 0 /\ Req.len = n - 1 /\ acc /\ (wf <=> dev = "both")
      BY <1>0, <1>a, <1>c, <1>f, <1>r, <2>1
    <3>2. (n - 1 + 1) % 256 = n
      <4>1. n - 1 + 1 = n
        OBVIOUS
      <4> QED BY <4>1, Counts
    <3> QED BY <2>0, <2>1, <3>1, <3>2
  <2>2. CASE ~AwFire(dev) /\ wf
    <3>1. a # 0 /\ f \in 0 .. n - 1
      BY <1>0, <1>a, <1>f, <2>2
    <3>2. Dec(n - f) = n - f - 1
      <4>1. n - f \in 1 .. 255
        BY <3>1
      <4> QED BY <3>1, <4>1, Counts
    <3>3. f1 = f + 1 /\ a1 # 0
      BY <1>0, <2>2, <3>1
    <3> QED BY <2>0, <2>2, <3>1, <3>2, <3>3
  <2>3. CASE ~AwFire(dev) /\ ~wf
    <3>1. ~acc
      BY <1>0, <1>a, <1>c, <1>f, <2>3
    <3> QED BY <2>0, <2>3, <3>1
  <2> QED BY <2>1, <2>2, <2>3
<1>5. buf_q' = IF f1 < a1 THEN [valid |-> TRUE, last |-> n = 1, word |-> <<v, 0>>] ELSE NoBuf
  <2>0. /\ buf_q = (IF f < a THEN [valid |-> TRUE, last |-> n = 1, word |-> <<v, 0>>] ELSE NoBuf)
        /\ buf_q' = IF AwFire(dev) /\ WValid /\ ~wf
                    THEN [valid |-> TRUE, last |-> WLast, word |-> WData]
                    ELSE IF dev = "both" THEN NoBuf ELSE buf_q
    BY <1>d DEF WriteAt, Bus, Widget, Buffer, acc, wf
  <2>1. CASE AwFire(dev) /\ ~wf
    <3>1. a = 0 /\ f = 0 /\ WValid /\ acc
      BY <1>0, <1>a, <1>c, <1>f, <1>w, <2>1
    <3>2. WLast = (n = 1) /\ WData = <<v, 0>>
      BY <1>w, <3>1
    <3> QED BY <2>0, <2>1, <3>1, <3>2
  <2>2. CASE ~(AwFire(dev) /\ ~wf)
    <3>1. f1 < a1 => f < a /\ dev # "both"
      BY <1>0, <1>a, <1>c, <1>f, <2>2
    <3>2. ~(f1 < a1) => dev = "both" \/ ~(f < a)
      BY <1>0, <1>a, <1>c, <1>f, <2>2
    <3> QED BY <2>0, <2>2, <3>1, <3>2
  <2> QED BY <2>1, <2>2
<1>6. (awvalid_inhibit_q' <=> a1 > 0 /\ f1 < n) /\ ~wvalid_inhibit_q'
  <2>0. /\ awvalid_inhibit_q <=> a > 0 /\ f < n
        /\ awvalid_inhibit_q' <=> \/ AwFire(dev) /\ (Req.len # 0 \/ (WValid /\ ~wf))
                                  \/ awvalid_inhibit_q /\ ~(wf /\ WLast)
        /\ wvalid_inhibit_q' <=> \/ wf /\ AwValid /\ ~AwFire(dev)
                                 \/ wvalid_inhibit_q /\ ~AwFire(dev)
        /\ ~wvalid_inhibit_q
    BY <1>d DEF WriteAt, Bus, Widget, acc, wf
  <2>1. ~wvalid_inhibit_q'
    BY <1>a, <1>f, <1>w, <2>0
  <2>2. CASE AwFire(dev)
    <3>1. a = 0 /\ f = 0 /\ Req.len = n - 1 /\ acc /\ WValid /\ a1 = 1 /\ f1 = IF wf THEN 1 ELSE 0
      BY <1>0, <1>a, <1>c, <1>f, <1>r, <1>w, <2>2
    <3> QED BY <2>0, <2>1, <2>2, <3>1
  <2>3. CASE ~AwFire(dev) /\ wf
    <3>1. a > 0 /\ f < n /\ (WLast <=> f1 = n) /\ a1 > 0 /\ f1 <= n
      BY <1>0, <1>a, <1>f, <1>w, <2>3
    <3> QED BY <1>0, <1>1, <2>0, <2>1, <2>3, <3>1
  <2>4. CASE ~AwFire(dev) /\ ~wf
    <3>1. a1 = a /\ f1 = f
      BY <1>0, <1>a, <1>c, <1>f, <2>4
    <3> QED BY <2>0, <2>1, <2>4, <3>1
  <2> QED BY <2>2, <2>3, <2>4
<1>7. resp_outstanding_q' = IF a1 = n THEN 1 ELSE 0
  <2>0. resp_outstanding_q = (IF a = n THEN 1 ELSE 0) /\ ~RspLast
    BY <1>w DEF WriteAt, RspLast, NoRsp
  <2>1. resp_outstanding_q' = IF (ReqLast \/ IsRead) /\ acc THEN resp_outstanding_q + 1 ELSE resp_outstanding_q
    BY <1>d, <2>0 DEF Bus, Axi, acc, wf
  <2> QED BY <1>0, <1>c, <1>w, <2>0, <2>1
<1>8. Opened(dev) = IF a1 = 0 THEN <<>> ELSE <<OpenWrite(l, n, f)>>
  <2>1. txns = IF a = 0 THEN <<>> ELSE <<OpenWrite(l, n, f)>>
    <3>1. rsp # [op |-> "wr", place |-> <<l, 0>>, word |-> <<Initial, 0>>]
      BY <1>w DEF NoRsp
    <3> QED BY <3>1 DEF WriteAt
  <2>2. CASE AwFire(dev)
    <3>1. a = 0 /\ f = 0 /\ acc /\ a < s
      BY <1>0, <1>a, <1>c, <2>2
    <3>2. Req.op = "wr" /\ Req.place = <<l, 0>> /\ Req.len = n - 1
      BY <1>r, <3>1
    <3>3. Opened(dev) = Append(<<>>, Transaction("wr", <<l, 0>>, n - 1, 0, FALSE))
      BY <2>1, <2>2, <3>1, <3>2 DEF Opened, Push, Transaction
    <3>4. OpenWrite(l, n, 0) = Transaction("wr", <<l, 0>>, n - 1, 0, FALSE)
      <4>1. (0 = n) = FALSE
        OBVIOUS
      <4> QED BY <4>1 DEF OpenWrite
    <3>5. Append(<<>>, OpenWrite(l, n, 0)) = <<OpenWrite(l, n, 0)>>
      OBVIOUS
    <3>6. Opened(dev) = <<OpenWrite(l, n, 0)>>
      BY <3>3, <3>4, <3>5
    <3>7. a1 # 0
      BY <3>1
    <3> QED BY <3>1, <3>6, <3>7
  <2>3. CASE ~AwFire(dev)
    <3>1. Opened(dev) = txns
      BY <1>a, <2>3 DEF Opened, Push
    <3>2. a1 = 0 <=> a = 0
      BY <1>0, <1>a, <1>c, <2>3
    <3> QED BY <2>1, <3>1, <3>2
  <2> QED BY <2>2, <2>3
<1>9. CASE ~wf
  <2>1. f1 = f /\ ~WFire(dev)
    BY <1>9 DEF wf
  <2>2. memory' = memory /\ Respond(Opened(dev), respond)
    BY <1>d, <2>1 DEF Bus, Slave
  <2>3. \/ rsp' = NoRsp /\ txns' = IF a1 = 0 THEN <<>> ELSE <<OpenWrite(l, n, f1)>>
        \/ f1 = n /\ txns' = <<>> /\ rsp' = [op |-> "wr", place |-> <<l, 0>>, word |-> <<Initial, 0>>]
    <3>1. CASE a1 = 0
      BY <1>8, <2>2, <3>1 DEF Respond
    <3>2. CASE a1 # 0
      BY <1>d, <1>8, <2>1, <2>2, <3>2, WriteAnswer
    <3> QED BY <3>1, <3>2
  <2>4. \A k \in 0 .. f1 - 1 : memory'[<<l, k>>] = <<v, k>>
    BY <2>1, <2>2 DEF WriteAt
  <2>5. WriteAt(l, n, v, s1, a1, f1)'
    BY <1>1, <1>2, <1>3, <1>4, <1>5, <1>6, <1>7, <2>3, <2>4 DEF WriteAt
  <2>6. a1 \in 0 .. n /\ f1 \in 0 .. n
    BY <1>1
  <2>7. Storing(l, n, v, sent)'
    BY <1>s, <2>5, <2>6 DEF Storing
  <2> QED BY <2>2, <2>7
<1>10. CASE wf
  <2> DEFINE t == OpenWrite(l, n, f)
  <2>1. f1 = f + 1 /\ WFire(dev) /\ WValid /\ f \in 0 .. n - 1 /\ a1 # 0
    BY <1>0, <1>1, <1>f, <1>w, <1>10 DEF wf
  <2>2. Opened(dev) = <<t>>
    BY <1>8, <2>1
  <2>3. /\ t \in [op : {"wr"}, place : {<<l, 0>>}, len : {n - 1}, beat : Nat, closed : BOOLEAN]
        /\ t.op = "wr" /\ t.place = <<l, 0>> /\ t.len = n - 1 /\ t.beat = f /\ ~t.closed
    <3>1. (f = n) = FALSE
      BY <2>1
    <3>2. t = Transaction("wr", <<l, 0>>, n - 1, f, FALSE)
      BY <3>1 DEF OpenWrite
    <3> QED BY <2>1, <3>2 DEF Transaction
  <2> DEFINE c == [t EXCEPT !.beat = @ + 1, !.closed = WLast]
  <2>4. c = OpenWrite(l, n, f1)
    <3>1. PICK w \in BOOLEAN : w = WLast /\ w = (f1 = n)
      BY <1>w, <2>1
    <3> HIDE DEF t
    <3> DEFINE u == [t EXCEPT !.beat = @ + 1]
    <3>2. u \in [op : {"wr"}, place : {<<l, 0>>}, len : {n - 1}, beat : Nat, closed : BOOLEAN]
          /\ u.op = "wr" /\ u.place = <<l, 0>> /\ u.len = n - 1 /\ u.beat = f1
      BY <2>1, <2>3
    <3>3. c = [u EXCEPT !.closed = w]
      BY <3>1
    <3> HIDE DEF u
    <3>4. [u EXCEPT !.closed = w] = Transaction(u.op, u.place, u.len, u.beat, w)
      BY <1>d, <3>2 DEF Transaction
    <3> QED BY <3>1, <3>2, <3>3, <3>4 DEF OpenWrite
  <2>5. Last(<<t>>) = t /\ Len(<<t>>) = 1 /\ Writing(<<t>>) /\ BeatPlace(t) = <<l, f>>
    <3>1. Last(<<t>>) = t /\ Len(<<t>>) = 1 /\ <<t>> # <<>>
      BY DEF Last
    <3>2. t.place[1] = l /\ t.place[2] = 0 /\ 0 + f = f
      BY <2>1, <2>3
    <3> HIDE DEF t
    <3> QED BY <2>3, <3>1, <3>2 DEF Writing, BeatPlace
  <2> HIDE DEF t
  <2>6. [<<t>> EXCEPT ![1] = c] = <<c>>
    OBVIOUS
  <2>7. memory' = [memory EXCEPT ![<<l, f>>] = <<v, f>>]
    BY <1>d, <1>w, <2>1, <2>2, <2>5 DEF Bus, Slave
  <2>8. Respond(<<c>>, respond)
    BY <1>d, <2>1, <2>2, <2>5, <2>6 DEF Bus, Slave
  <2> HIDE DEF c
  <2>9. \/ rsp' = NoRsp /\ txns' = IF a1 = 0 THEN <<>> ELSE <<OpenWrite(l, n, f1)>>
        \/ f1 = n /\ txns' = <<>> /\ rsp' = [op |-> "wr", place |-> <<l, 0>>, word |-> <<Initial, 0>>]
    BY <1>d, <2>1, <2>4, <2>8, WriteAnswer
  <2>10. <<l, f>> \in Place
    BY <1>d, <2>1
  <2>11. \A k \in 0 .. f1 - 1 : memory'[<<l, k>>] = <<v, k>>
    <3> SUFFICES ASSUME NEW k \in 0 .. f1 - 1 PROVE memory'[<<l, k>>] = <<v, k>>
      OBVIOUS
    <3>1. CASE k = f
      BY <1>d, <2>7, <2>10, <3>1
    <3>2. CASE k # f
      <4>1. k \in 0 .. f - 1 /\ <<l, k>> # <<l, f>> /\ <<l, k>> \in Place
        BY <1>d, <2>1, <3>2
      <4>2. memory[<<l, k>>] = <<v, k>>
        BY <4>1 DEF WriteAt
      <4> QED BY <1>d, <2>7, <4>1, <4>2
    <3> QED BY <3>1, <3>2
  <2>12. WriteAt(l, n, v, s1, a1, f1)'
    BY <1>1, <1>2, <1>3, <1>4, <1>5, <1>6, <1>7, <2>9, <2>11 DEF WriteAt
  <2>13. \A p \in Place : p[1] # l => memory'[p] = memory[p]
    BY <2>7
  <2>14. a1 \in 0 .. n /\ f1 \in 0 .. n
    BY <1>1
  <2>15. Storing(l, n, v, sent)'
    BY <1>s, <2>12, <2>14 DEF Storing
  <2> QED BY <2>13, <2>15
<1> QED BY <1>9, <1>10

\* The answer to a write frees the bus.
LEMMA WriteEnds ==
    ASSUME NEW S, axi_req \in Seq(S), NEW l, NEW n, NEW v, NEW s, n \in 1 .. 255,
           Storing(l, n, v, s), BusAck
    PROVE  /\ s = n /\ Free /\ \A k \in 0 .. n - 1 : memory[<<l, k>>] = <<v, k>>
           /\ rsp.place[1] = l /\ rsp.op = "wr"
<1> PICK a, f : WriteAt(l, n, v, s, a, f)
  BY DEF Storing
<1>1. f = n /\ txns = <<>> /\ rsp = [op |-> "wr", place |-> <<l, 0>>, word |-> <<Initial, 0>>]
  BY DEF WriteAt, BusAck, NoRsp
<1>2. s = n /\ a = n
  BY <1>1 DEF WriteAt
<1>3. axi_req = <<>>
  BY <1>2 DEF WriteAt
<1>4. NoWrite /\ resp_outstanding_q = 1
  BY <1>1, <1>2 DEF WriteAt, NoWrite
<1>5. RspLast /\ rsp.place[1] = l /\ rsp.op = "wr"
  BY <1>1 DEF RspLast
<1>6. \A k \in 0 .. n - 1 : memory[<<l, k>>] = <<v, k>>
  BY <1>1 DEF WriteAt
<1> QED BY <1>1, <1>2, <1>3, <1>4, <1>5, <1>6 DEF Free

-----------------------------------------------------------------------------
(* The invariant.                                                            *)
\* What is in the queue, and what is owed; the word of the device.
Requests == [op : {"rd", "wr"}, len : 0 .. 255, place : Place, word : Word]
Hits     == {[r EXCEPT !.kind = "hit"] : r \in Offers}
Answers  == [tag : Tags, words : Seq(Word)]
Dev      == <<Device, 0>>

\* The core's record.
CoreOK ==
    core \in [state : {"LOOKUP", "EVICT", "EVICT_WAIT", "REFILL", "READ"},
              req : Offers \cup {Idle} \cup Hits, rd : BOOLEAN, sent : 0 .. NumWords, words : Seq(Word)]

\* Memory is what the requests leave, but for line l.
SameBut(l) == \A p \in Place : p[1] # l => memory[p] = shadow[p]
\* The words of the refill so far.
Got == \A k \in 1 .. Len(core.words) : core.words[k] = memory[<<core.req.line, k - 1>>]

Kind == core.req.kind

\* Where the core is with its request, and the bus with the core's.
Looking  == core.state = "LOOKUP" /\ Kind = "hit" /\ Quiet /\ memory = shadow
            /\ owed[1].words \in {<<>>, core.words}
Missing  == core.state = "LOOKUP" /\ Kind = "refill" /\ Quiet /\ memory = shadow /\ core.words = <<>>
Leaving  == core.state = "LOOKUP" /\ Kind \in {"swap", "writeback"} /\ Quiet /\ core.sent = 0
            /\ core.words = <<>>
Evicting == core.state = "EVICT" /\ Kind \in {"swap", "writeback"} /\ core.words = <<>>
            /\ core.sent < NumWords
            /\ Storing(core.req.victim, NumWords, core.req.value, core.sent)
Evicted  == core.state = "EVICT_WAIT" /\ Kind \in {"swap", "writeback"} /\ core.words = <<>>
            /\ Storing(core.req.victim, NumWords, core.req.value, NumWords)
Refilling == core.state = "REFILL" /\ Kind \in {"refill", "swap"} /\ memory = shadow
             /\ Reading(core.req.line, NumWords, Len(core.words)) /\ Got
Refilled == core.state = "READ" /\ Kind \in {"refill", "swap"} /\ memory = shadow /\ Quiet
            /\ Len(core.words) = NumWords /\ Got

\* The request of the core, and what it owes for it.
CoreOwes ==
    /\ ~core.rd /\ Len(owed) = 1 /\ owed[1].tag = core.req.tag
    /\ core.req.line \in Lines
    /\ Kind \in {"swap", "writeback"} =>
          /\ core.req \in Offers
          /\ SameBut(core.req.victim)
          /\ \A k \in Words : shadow[<<core.req.victim, k>>] = <<core.req.value, k>>
    /\ Kind = "writeback" => owed[1].words = <<>>
    /\ Kind \in {"refill", "swap"} => core.req \in Offers /\ owed[1].words = LineOf(shadow, core.req.line)

\* The muxes and the bridge while a request of the core is under way.
CoreHolds ==
    /\ pending_q = 1 /\ cache_access_q /\ select_q
    /\ unc_req = <<>> /\ unc_resp = <<>> /\ ~request_pending_q /\ ~dropped_q

\* The core has a request, and is the user of the outport.
CoreSide ==
    /\ CoreHolds /\ CoreOwes
    /\ Looking \/ Missing \/ Leaving \/ Evicting \/ Evicted \/ Refilling \/ Refilled

\* The word of the device after a request, and what is owed for the request.
DeviceAfter(q, now) == IF q.kind = "store" THEN <<q.value, 0>> ELSE now
WordsFor(q, now) == IF q.kind = "load" THEN <<now>> ELSE <<>>

\* Requests q are queued behind done others: the answers o hold what they see, one after
\* the other, from the word now to the word end.
Behind(q, o, done, now, end) ==
    /\ Len(q) + done = Len(o)
    /\ \/ q = <<>> /\ end = now
       \/ Len(q) = 1 /\ o[done + 1].words = WordsFor(q[1], now) /\ end = DeviceAfter(q[1], now)
       \/ /\ Len(q) = 2 /\ o[done + 1].words = WordsFor(q[1], now)
          /\ o[done + 2].words = WordsFor(q[2], DeviceAfter(q[1], now))
          /\ end = DeviceAfter(q[2], DeviceAfter(q[1], now))

\* Each answer is for the tag in the same place.
TagsMatch(o, t) == Len(t) = Len(o) /\ \A k \in 1 .. Len(o) : o[k].tag = t[k]

Done == IF request_pending_q THEN 1 ELSE 0     \* of the requests of owed

\* What the bus does for the bridge, whose oldest answer is w; now is the word of the
\* device when it is done.
OnBus(now, w) ==
    \/ /\ Quiet /\ now = memory[Dev]
       /\ IF request_pending_q THEN dropped_q /\ w = <<>> ELSE ~dropped_q
    \/ /\ request_pending_q /\ ~dropped_q
       /\ Reading(Device, 1, 0) /\ now = memory[Dev] /\ w = <<now>>
    \/ /\ request_pending_q /\ ~dropped_q /\ w = <<>>
       /\ \E v \in Value : now = <<v, 0>> /\ Storing(Device, 1, v, 1)

\* What the bridge takes: a word of the device, or a request that it drops.
Singles == {r \in Offers : r.kind \in {"load", "store", "drop"}}

\* The bridge is the user of the outport, or nobody is.
UncSide ==
    /\ unc_req \in Seq(Singles)
    /\ pending_q = Len(owed) /\ pending_q <= 2
    /\ pending_q # 0 => ~cache_access_q /\ ~select_q
    /\ core = Fresh(Idle)
    /\ TagsMatch(owed, unc_resp)
    /\ SameBut(Device)
    /\ \E now \in Word : OnBus(now, owed[1].words) /\ Behind(unc_req, owed, Done, now, shadow[Dev])

\* The inductive invariant.
Inv == TypeOK /\ CoreOK /\ owed \in Seq(Answers) /\ (CoreSide \/ UncSide)

-----------------------------------------------------------------------------
(* Types.                                                                    *)
\* What the requests are made of.
LEMMA OfferTypes ==
    ASSUME NEW r \in Offers
    PROVE  /\ r \in Offer /\ r.kind \in Kinds /\ r.line \in Lines \cup {Device} /\ r.victim \in Lines
           /\ r.value \in Value /\ r.tag \in Tags
           /\ r.kind \in {"hit", "refill", "swap", "writeback"} => r.line \in Lines
           /\ r.kind \in {"load", "store", "drop"} => r.line = Device
           /\ Cached(r) /\ r.kind # "idle" =>
                r.kind \in {"hit", "refill", "swap", "writeback"} /\ r.line \in Lines
           /\ ~Cached(r) /\ r.kind # "idle" => r.kind \in {"load", "store", "drop"} /\ r.line = Device
<1>1. r \in Offer /\ Device \notin Lines
  BY InputAssumption
<1>2. /\ r.kind \in {"hit", "refill", "swap", "writeback"} => r.line \in Lines
      /\ r.kind \in {"load", "store", "drop"} => r.line = Device
  BY InputAssumption
<1>3. r.kind \in Kinds /\ r.line \in Lines \cup {Device} /\ r.victim \in Lines
      /\ r.value \in Value /\ r.tag \in Tags
  BY <1>1 DEF Offer
<1> QED BY <1>1, <1>2, <1>3 DEF Cached, Kinds

\* The beats of a request that goes out have an address and a word.
LEMMA WireTypes ==
    ASSUME TypeOK
    PROVE  /\ axi_req \in Seq(Requests)
           /\ IsWrite \/ IsRead => Req \in Requests /\ axi_req # <<>>
           /\ WValid => WData \in Word
           /\ WLast \in BOOLEAN
<1>1. axi_req \in Seq(Requests)
  BY DEF TypeOK, Requests
<1>2. IsWrite \/ IsRead => Req \in Requests /\ axi_req # <<>>
  BY <1>1 DEF IsWrite, IsRead, CanIssue, Req
<1>3. buf_q \in {NoBuf} \cup [valid : {TRUE}, last : BOOLEAN, word : Word]
  BY DEF TypeOK
<1>4. CASE buf_q.valid
  <2>1. buf_q.last \in BOOLEAN /\ buf_q.word \in Word
    <3>1. ~NoBuf.valid
      BY DEF NoBuf
    <3>2. buf_q \in [valid : {TRUE}, last : BOOLEAN, word : Word]
      BY <1>3, <1>4, <3>1
    <3> QED BY <3>2
  <2> QED BY <1>1, <1>2, <1>4, <2>1 DEF WData, WLast
<1>5. CASE ~buf_q.valid
  <2>1. WValid => WData \in Word
    BY <1>2, <1>5 DEF WValid, WData, Requests
  <2> QED BY <1>1, <1>2, <1>5, <2>1 DEF WLast
<1> QED BY <1>4, <1>5

\* A queue of two that loses d and takes one more when it was not full.
LEMMA Room ==
    ASSUME NEW z \in Nat, z <= 2, NEW d \in 0 .. 1
    PROVE  z - d <= 2 /\ (z # 2 => (z - d) + 1 <= 2)
OBVIOUS

\* The registers of the bus keep their types, whatever is asked.
LEMMA BusTypes ==
    ASSUME TypeOK, NEW r, NEW dev \in Devs, NEW respond \in BOOLEAN, Bus(r, dev, respond),
           Pmem(r) # NoPmem => Pmem(r) \in Requests,
           \A t : Writing(Opened(dev)) /\ t = Last(Opened(dev)) => BeatPlace(t) \in Place
    PROVE  /\ axi_req' \in Seq(Requests) /\ Len(axi_req') <= 2
           /\ req_cnt_q' \in 0 .. 255 /\ burst_cnt_q' \in 0 .. 255
           /\ {awvalid_inhibit_q', wvalid_inhibit_q'} \subseteq BOOLEAN
           /\ buf_q' \in {NoBuf} \cup [valid : {TRUE}, last : BOOLEAN, word : Word]
           /\ memory' \in [Place -> Word]
<1>1. AxiAccept(dev) => axi_req # <<>>
  BY WireTypes DEF AxiAccept, AwFire, ArFire, WFire, AwValid, ArValid, WValid
<1>2. axi_req \in Seq(Requests)
  BY WireTypes
<1>3. Axi(r, dev)
  BY DEF Bus
<1>4. axi_req' \in Seq(Requests) /\ Len(axi_req') <= 2
  <2> PICK d \in 0 .. 1 : d = IF AxiAccept(dev) THEN 1 ELSE 0
    OBVIOUS
  <2>1. /\ axi_req' \in Seq(Requests)
        /\ Len(axi_req') = IF Pmem(r) # NoPmem /\ PmemAccept THEN (Len(axi_req) - d) + 1
                              ELSE Len(axi_req) - d
    BY <1>1, <1>2, <1>3, QueueStep
  <2>2. Len(axi_req) <= 2 /\ Len(axi_req) \in Nat
    <3>1. Len(axi_req) <= 2
      BY DEF TypeOK
    <3> QED BY <1>2, <3>1
  <2>3. PmemAccept => Len(axi_req) # 2
    BY DEF PmemAccept
  <2>4. Len(axi_req) - d <= 2 /\ (Len(axi_req) # 2 => (Len(axi_req) - d) + 1 <= 2)
    BY <2>2, Room
  <2> QED BY <2>1, <2>3, <2>4
<1>5. \A n \in 0 .. 255 : Dec(n) \in 0 .. 255 /\ (n + 1) % 256 \in 0 .. 255
  <2> SUFFICES ASSUME NEW n \in 0 .. 255 PROVE Dec(n) \in 0 .. 255 /\ (n + 1) % 256 \in 0 .. 255
    OBVIOUS
  <2> QED BY DEF Dec
<1>6. AxiAccept(dev) => Req.len \in 0 .. 255
  BY WireTypes DEF AxiAccept, AwFire, ArFire, WFire, AwValid, ArValid, WValid, Requests
<1>7. req_cnt_q \in 0 .. 255 /\ burst_cnt_q \in 0 .. 255 /\ AwFire(dev) \in BOOLEAN
  BY DEF TypeOK, AwFire
<1>8. req_cnt_q' \in 0 .. 255
  BY <1>3, <1>5, <1>6, <1>7 DEF Axi
<1>9. burst_cnt_q' \in 0 .. 255
  <2>1. AwFire(dev) => Req.len \in 0 .. 255
    BY <1>6 DEF AxiAccept
  <2>2. burst_cnt_q' =
          IF AwFire(dev) THEN IF dev # "both" /\ ~wvalid_inhibit_q THEN (Req.len + 1) % 256 ELSE Req.len
          ELSE IF burst_cnt_q # 0 /\ WFire(dev) THEN Dec(burst_cnt_q) ELSE burst_cnt_q
    BY DEF Bus, Widget
  <2>3. CASE AwFire(dev)
    BY <1>5, <2>1, <2>2, <2>3
  <2>4. CASE ~AwFire(dev)
    BY <1>5, <1>7, <2>2, <2>4
  <2> QED BY <2>3, <2>4
<1>10. {awvalid_inhibit_q', wvalid_inhibit_q'} \subseteq BOOLEAN
  <2>1. awvalid_inhibit_q' \in BOOLEAN
    BY DEF Bus, Widget
  <2>2. wvalid_inhibit_q' \in BOOLEAN
    BY DEF Bus, Widget
  <2> QED BY <2>1, <2>2
<1>11. buf_q' \in {NoBuf} \cup [valid : {TRUE}, last : BOOLEAN, word : Word]
  <2>1. buf_q \in {NoBuf} \cup [valid : {TRUE}, last : BOOLEAN, word : Word]
    BY DEF TypeOK
  <2>2. WValid => [valid |-> TRUE, last |-> WLast, word |-> WData]
                    \in [valid : {TRUE}, last : BOOLEAN, word : Word]
    BY WireTypes
  <2> QED BY <2>1, <2>2 DEF Bus, Widget, Buffer
<1>12. memory' \in [Place -> Word]
  <2>1. memory \in [Place -> Word]
    BY DEF TypeOK
  <2>2. CASE WFire(dev) /\ Writing(Opened(dev))
    <3>1. WData \in Word
      BY <2>2, WireTypes DEF WFire
    <3> PICK t : t = Last(Opened(dev))
      OBVIOUS
    <3>2. BeatPlace(t) \in Place
      BY <2>2
    <3>3. memory' = [memory EXCEPT ![BeatPlace(t)] = WData]
      BY <2>2 DEF Bus, Slave
    <3> QED BY <2>1, <3>1, <3>2, <3>3
  <2>3. CASE ~(WFire(dev) /\ Writing(Opened(dev)))
    BY <2>1, <2>3 DEF Bus, Slave
  <2> QED BY <2>2, <2>3
<1> QED BY <1>4, <1>8, <1>9, <1>10, <1>11, <1>12

\* What is owed, and memory as requests leave it.
LEMMA HistoryTypes ==
    ASSUME TypeOK, owed \in Seq(Answers), NEW r \in Offers, NEW slow, History(r, slow)
    PROVE  shadow' \in [Place -> Word] /\ owed' \in Seq(Answers) /\ After(r) \in [Place -> Word]
           /\ Answer(r) \in Answers
<1>1. After(r) \in [Place -> Word]
  <2>1. r.value \in Value /\ shadow \in [Place -> Word]
    BY OfferTypes DEF TypeOK
  <2>2. 0 \in Words
    BY SizeAssumption DEF Words
  <2>3. ASSUME NEW p \in Place PROVE p[2] \in Words
    BY <2>2 DEF Place
  <2> QED BY <2>1, <2>2, <2>3 DEF After, Word
<1>2. Answer(r) \in Answers
  <2>1. r.tag \in Tags /\ r.kind \in Kinds
    BY OfferTypes
  <2>2. CASE r.kind = "load"
    <3>1. Dev \in Place
      BY DEF Place, Dev
    <3>2. shadow[<<Device, 0>>] \in Word
      BY <3>1 DEF TypeOK, Dev
    <3>3. Answer(r) = [tag |-> r.tag, words |-> <<shadow[<<Device, 0>>]>>]
      BY <2>2 DEF Answer
    <3> QED BY <2>1, <3>2, <3>3 DEF Answers
  <2>3. CASE r.kind \in {"refill", "swap"}
    <3>1. r.line \in Lines
      BY <2>3, OfferTypes
    <3>2. ASSUME NEW k \in 1 .. NumWords PROVE <<r.line, k - 1>> \in Place
      BY <3>1, SizeAssumption DEF Place, Words
    <3>3. LineOf(After(r), r.line) \in [1 .. NumWords -> Word]
      BY <1>1, <3>2 DEF LineOf
    <3>4. LineOf(After(r), r.line) \in Seq(Word)
      <4>1. NumWords \in Nat
        BY SizeAssumption
      <4> QED BY <3>3, <4>1
    <3>5. Answer(r) = [tag |-> r.tag, words |-> LineOf(After(r), r.line)]
      BY <2>3 DEF Answer
    <3> QED BY <2>1, <3>4, <3>5 DEF Answers
  <2>4. CASE r.kind \notin {"load", "refill", "swap"}
    <3>1. Answer(r) = [tag |-> r.tag, words |-> <<>>]
      BY <2>4 DEF Answer
    <3> QED BY <2>1, <3>1 DEF Answers
  <2> QED BY <2>2, <2>3, <2>4
<1>3. Pop(owed, MemAck) \in Seq(Answers)
  BY DEF Pop
<1>4. CASE Taken(r, slow)
  <2>1. shadow' = After(r) /\ owed' = Append(Pop(owed, MemAck), Answer(r))
    BY <1>4 DEF History
  <2> QED BY <1>1, <1>2, <1>3, <2>1
<1>5. CASE ~Taken(r, slow)
  <2>1. shadow' = shadow /\ owed' = Pop(owed, MemAck)
    BY <1>5 DEF History
  <2> QED BY <1>1, <1>2, <1>3, <2>1 DEF TypeOK
<1> QED BY <1>4, <1>5

-----------------------------------------------------------------------------
(* The core's side.                                                          *)
\* While the core has a request the bridge is idle, and the outport is the core's.
LEMMA CoreFrame ==
    ASSUME TypeOK, CoreHolds, NEW r \in Offers, NEW slow \in BOOLEAN, Mux(r, slow), Uncached(r, slow)
    PROVE  /\ Select(r) /\ (CoreBusAck <=> BusAck) /\ Pmem(r) = CorePmem /\ (MemAck <=> CoreAck)
           /\ Taken(r, slow) => Cached(r)
           /\ pending_q' = IF Taken(r, slow) <=> CoreAck THEN 1 ELSE IF CoreAck THEN 0 ELSE 2
           /\ cache_access_q' /\ select_q'
           /\ unc_req' = <<>> /\ unc_resp' = <<>> /\ ~request_pending_q' /\ ~dropped_q'
<1>1. Busy /\ Select(r) /\ (CoreBusAck <=> BusAck) /\ Pmem(r) = CorePmem /\ (MemAck <=> CoreAck) /\ ~UncAck
  BY DEF CoreHolds, Busy, Select, CoreBusAck, Pmem, MemAck, UncAck
<1>2. Taken(r, slow) => Cached(r)
  BY <1>1 DEF Taken, Hold, CoreHolds
<1>3. ~UncDrop /\ UncPmem = NoPmem /\ ~UncComplete(r)
  BY DEF CoreHolds, UncDrop, UncGo, UncPmem, UncComplete
<1>4. unc_req' = <<>> /\ unc_resp' = <<>> /\ ~request_pending_q' /\ ~dropped_q'
  BY <1>1, <1>2, <1>3 DEF Uncached, RequestPending, Push, Pop, CoreHolds
<1>5. pending_q' = IF Taken(r, slow) <=> CoreAck THEN 1 ELSE IF CoreAck THEN 0 ELSE 2
  <2>1. pending_q' = IF Taken(r, slow) = MemAck THEN 1 ELSE IF MemAck THEN (1 + 31) % 32 ELSE (1 + 1) % 32
    BY DEF Mux, CoreHolds
  <2>2. (1 + 31) % 32 = 0 /\ (1 + 1) % 32 = 2
    OBVIOUS
  <2>3. (Taken(r, slow) = MemAck) <=> (Taken(r, slow) <=> CoreAck)
    BY <1>1 DEF Taken, MemAck, CoreAck, UncAck
  <2> QED BY <1>1, <2>1, <2>2, <2>3
<1>6. cache_access_q' /\ select_q'
  <2>1. cache_access_q' = IF Taken(r, slow) THEN Cached(r) ELSE cache_access_q
    BY DEF Mux
  <2>2. select_q' = Select(r)
    BY DEF Mux
  <2> QED BY <1>1, <1>2, <2>1, <2>2 DEF CoreHolds
<1> QED BY <1>1, <1>2, <1>4, <1>5, <1>6

\* Two memories that agree on each word are one.
LEMMA SameMemory ==
    ASSUME TypeOK, NEW l \in Lines, NEW v, SameBut(l), \A k \in Words : shadow[<<l, k>>] = <<v, k>>,
           \A k \in Words : memory[<<l, k>>] = <<v, k>>
    PROVE  memory = shadow
<1>1. ASSUME NEW p \in Place PROVE memory[p] = shadow[p]
  <2>1. CASE p[1] = l
    <3>1. p = <<l, p[2]>> /\ p[2] \in Words
      BY <2>1, InputAssumption DEF Place
    <3>2. memory[<<l, p[2]>>] = shadow[<<l, p[2]>>]
      BY <3>1
    <3> QED BY <3>1, <3>2
  <2>2. CASE p[1] # l
    BY <2>2 DEF SameBut
  <2> QED BY <2>1, <2>2
<1> QED BY <1>1 DEF TypeOK

\* A request the core takes while the bus is quiet.
LEMMA CoreTakes ==
    ASSUME TypeOK, owed \in Seq(Answers), NEW r \in Offers, Cached(r), r.kind # "idle", memory = shadow,
           core' = Fresh(r), CoreHolds', shadow' = After(r), memory' = memory, Quiet',
           owed' = <<Answer(r)>>
    PROVE  CoreSide' /\ CoreOK'
<1>1. /\ r.kind \in {"hit", "refill", "swap", "writeback"} /\ r.line \in Lines /\ r.victim \in Lines
      /\ r.value \in Value
  BY OfferTypes
<1>2. core'.state = "LOOKUP" /\ core'.req = r /\ ~core'.rd /\ core'.sent = 0 /\ core'.words = <<>>
  BY DEF Fresh
<1>3. Len(owed') = 1 /\ owed'[1] = Answer(r)
  OBVIOUS
<1>4. owed'[1].tag = core'.req.tag
  BY <1>2, <1>3 DEF Answer
<1>5. r.kind \in {"hit", "refill"} => shadow' = memory'
  <2> SUFFICES ASSUME r.kind \in {"hit", "refill"} PROVE After(r) = shadow
    OBVIOUS
  <2>1. shadow \in [Place -> Word]
    BY DEF TypeOK
  <2> QED BY <2>1 DEF After
<1>6. /\ r.kind \in {"hit", "writeback"} => owed'[1].words = <<>>
      /\ r.kind \in {"refill", "swap"} => owed'[1].words = LineOf(shadow', r.line)
  <2>1. CASE r.kind \in {"hit", "writeback"}
    <3>1. Answer(r) = [tag |-> r.tag, words |-> <<>>]
      BY <2>1 DEF Answer
    <3> QED BY <1>3, <2>1, <3>1
  <2>2. CASE r.kind \in {"refill", "swap"}
    <3>1. Answer(r) = [tag |-> r.tag, words |-> LineOf(After(r), r.line)]
      BY <2>2 DEF Answer
    <3> QED BY <1>3, <2>2, <3>1
  <2> QED BY <1>1, <2>1, <2>2
<1>7. ASSUME r.kind \in {"swap", "writeback"}
      PROVE  /\ \A p \in Place : p[1] # r.victim => memory'[p] = shadow'[p]
             /\ \A k \in Words : shadow'[<<r.victim, k>>] = <<r.value, k>>
  <2>1. \A p \in Place : p[1] # r.victim => memory'[p] = shadow'[p]
    BY <1>7 DEF After
  <2>2. ASSUME NEW k \in Words PROVE shadow'[<<r.victim, k>>] = <<r.value, k>>
    <3>1. <<r.victim, k>> \in Place /\ <<r.victim, k>>[1] = r.victim /\ <<r.victim, k>>[2] = k
      BY <1>1 DEF Place
    <3> QED BY <1>7, <3>1 DEF After
  <2> QED BY <2>1, <2>2
<1>8. CoreOwes'
  BY <1>1, <1>2, <1>3, <1>4, <1>6, <1>7 DEF CoreOwes, Kind, SameBut
<1>9. Looking' \/ Missing' \/ Leaving'
  BY <1>1, <1>2, <1>5, <1>6 DEF Looking, Missing, Leaving, Kind
<1>10. CoreOK'
  <2>1. <<>> \in Seq(Word) /\ 0 \in 0 .. NumWords
    BY SizeAssumption
  <2> QED BY <2>1 DEF CoreOK, Fresh
<1> QED BY <1>8, <1>9, <1>10 DEF CoreSide

\* A cycle with legal inputs.
Step(r, slow, dev, respond) ==
    /\ r \in Offers /\ slow \in BOOLEAN /\ dev \in Devs /\ respond \in BOOLEAN
    /\ Cycle(r, slow, dev, respond)

\* Until it answers, the core takes nothing, and nothing else changes but its burst.
LEMMA CoreWaits ==
    ASSUME Inv, CoreSide, ~Looking, NEW r, NEW slow, NEW dev, NEW respond, Step(r, slow, dev, respond)
    PROVE  /\ CoreHolds' /\ owed' = owed /\ shadow' = shadow
           /\ (CoreBusAck <=> BusAck) /\ Pmem(r) = CorePmem /\ Bus(r, dev, respond)
           /\ (CorePmemAccept(r) <=> PmemAccept)
           /\ Core(r, slow)
<1>1. TypeOK /\ CoreHolds /\ r \in Offers /\ slow \in BOOLEAN /\ Mux(r, slow) /\ Uncached(r, slow)
      /\ History(r, slow) /\ Core(r, slow) /\ Bus(r, dev, respond)
  BY DEF Inv, CoreSide, Step, Cycle, Bus
<1>2. core.state = "LOOKUP" => core.req.kind \notin {"hit", "idle"}
  BY DEF CoreSide, Missing, Leaving, Evicting, Evicted, Refilling, Refilled, Kind
<1>3. /\ Select(r) /\ (CoreBusAck <=> BusAck) /\ Pmem(r) = CorePmem /\ (MemAck <=> CoreAck)
      /\ Taken(r, slow) => Cached(r)
      /\ pending_q' = IF Taken(r, slow) <=> CoreAck THEN 1 ELSE IF CoreAck THEN 0 ELSE 2
      /\ cache_access_q' /\ select_q'
      /\ unc_req' = <<>> /\ unc_resp' = <<>> /\ ~request_pending_q' /\ ~dropped_q'
  BY <1>1, CoreFrame
<1>4. ~CoreAck /\ ~Taken(r, slow)
  BY <1>2, <1>3 DEF CoreAck, Taken, CoreAccept
<1>5. CoreHolds'
  BY <1>3, <1>4 DEF CoreHolds
<1>6. owed' = owed /\ shadow' = shadow
  BY <1>1, <1>3, <1>4 DEF History, Pop
<1> QED BY <1>1, <1>2, <1>3, <1>5, <1>6 DEF CorePmemAccept

\* Nothing is left of a queue of one.
LEMMA TailOfOne ==
    ASSUME NEW S, NEW q \in Seq(S), Len(q) = 1
    PROVE  Tail(q) = <<>>
<1>1. Tail(q) \in Seq(S) /\ Len(Tail(q)) = 0
  OBVIOUS
<1> DEFINE t == Tail(q)
<1>2. t \in Seq(S) /\ Len(t) = 0
  BY <1>1
<1> HIDE DEF t
<1>3. t = <<>>
  BY <1>2
<1> QED BY <1>3 DEF t

\* The core answers, and takes the next request or is idle.
LEMMA LookingStep ==
    ASSUME Inv, CoreSide, Looking, NEW r, NEW slow, NEW dev, NEW respond, Step(r, slow, dev, respond)
    PROVE  CoreOK' /\ (CoreSide' \/ UncSide')
<1>1. TypeOK /\ CoreHolds /\ r \in Offers /\ slow \in BOOLEAN /\ Mux(r, slow) /\ Uncached(r, slow)
      /\ History(r, slow) /\ Core(r, slow) /\ Bus(r, dev, respond) /\ owed \in Seq(Answers)
      /\ dev \in Devs /\ respond \in BOOLEAN
  BY DEF Inv, CoreSide, Step, Cycle, Bus
<1>2. /\ Select(r) /\ (CoreBusAck <=> BusAck) /\ Pmem(r) = CorePmem /\ (MemAck <=> CoreAck)
      /\ Taken(r, slow) => Cached(r)
      /\ pending_q' = IF Taken(r, slow) <=> CoreAck THEN 1 ELSE IF CoreAck THEN 0 ELSE 2
      /\ cache_access_q' /\ select_q'
      /\ unc_req' = <<>> /\ unc_resp' = <<>> /\ ~request_pending_q' /\ ~dropped_q'
  BY <1>1, CoreFrame
<1>3. core.state = "LOOKUP" /\ core.req.kind = "hit" /\ ~core.rd /\ CoreAck
  BY DEF Looking, Kind, CoreAck, CoreSide, CoreOwes
<1>4. ~RefillRequest /\ Pmem(r) = NoPmem
  BY <1>2, <1>3 DEF RefillRequest, CorePmem
<1>5. core' = Fresh(IF Taken(r, slow) /\ Cached(r) THEN r ELSE Idle)
  BY <1>1, <1>3, <1>4 DEF Core, CoreLookup, CoreMiss, CoreEvict, CoreEvictWait, CoreRefill, CoreRead
<1>6. memory' = memory /\ Quiet'
  <2>1. Free
    BY DEF Looking, Quiet, Free
  <2> QED BY <1>1, <1>4, <2>1, FreeStep DEF Quiet
<1>7. memory = shadow /\ Len(owed) = 1 /\ owed # <<>>
  BY DEF Looking, CoreSide, CoreOwes
<1>8. Pop(owed, MemAck) = <<>>
  <2>2. Tail(owed) = <<>>
    BY <1>1, <1>7, TailOfOne
  <2> QED BY <1>2, <1>3, <1>7, <2>2 DEF Pop
<1>9. CASE Taken(r, slow)
  <2>1. Cached(r) /\ r.kind # "idle" /\ core' = Fresh(r)
    BY <1>2, <1>5, <1>9 DEF Taken
  <2>2. shadow' = After(r) /\ owed' = <<Answer(r)>>
    <3>1. owed' = Append(<<>>, Answer(r))
      BY <1>1, <1>8, <1>9 DEF History
    <3> QED BY <1>1, <1>9, <3>1 DEF History
  <2>3. CoreHolds'
    BY <1>2, <1>3, <1>9 DEF CoreHolds
  <2> QED BY <1>1, <1>6, <1>7, <2>1, <2>2, <2>3, CoreTakes
<1>10. CASE ~Taken(r, slow)
  <2>1. core' = Fresh(Idle)
    BY <1>5, <1>10
  <2>2. shadow' = shadow /\ owed' = <<>> /\ pending_q' = 0
    BY <1>1, <1>2, <1>3, <1>8, <1>10 DEF History
  <2>3. CoreOK'
    <3>1. <<>> \in Seq(Word) /\ 0 \in 0 .. NumWords
      BY SizeAssumption
    <3> QED BY <2>1, <3>1 DEF CoreOK, Fresh
  <2>4. Dev \in Place /\ memory[Dev] \in Word
    BY <1>1 DEF TypeOK, Place, Dev
  <2>5. OnBus(memory[Dev], owed[1].words)'
    BY <1>2, <1>6 DEF OnBus, Dev
  <2>6. Behind(unc_req', owed', Done', memory'[Dev], shadow'[Dev])
    BY <1>2, <1>6, <1>7, <2>2 DEF Behind, Done
  <2>7. SameBut(Device)'
    BY <1>6, <1>7, <2>2 DEF SameBut
  <2>8. UncSide'
    BY <1>2, <1>6, <2>1, <2>2, <2>4, <2>5, <2>6, <2>7 DEF UncSide, Dev, TagsMatch
  <2> QED BY <2>3, <2>8
<1> QED BY <1>9, <1>10

\* The read of a refill.
RefillReq(l, w) == [op |-> "rd", len |-> NumWords - 1, place |-> <<l, 0>>, word |-> w]

\* The refill goes out.
LEMMA RefillGoes ==
    ASSUME TypeOK, Free, NEW r, NEW dev \in Devs, NEW respond \in BOOLEAN, Bus(r, dev, respond),
           NEW l, NEW w, Pmem(r) = RefillReq(l, w)
    PROVE  memory' = memory /\ Reading(l, NumWords, 0)'
<1>1. Pmem(r) # NoPmem
  BY DEF NoPmem, RefillReq
<1>2. /\ memory' = memory /\ txns' = <<>> /\ rsp' = NoRsp /\ resp_outstanding_q' = 0 /\ NoWrite'
      /\ axi_req' = <<Pmem(r)>>
  BY <1>1, FreeStep
<1>3. Len(axi_req') = 1 /\ axi_req'[1] = Pmem(r)
  BY <1>2
<1>4. /\ axi_req'[1].op = "rd" /\ axi_req'[1].place = <<l, 0>> /\ axi_req'[1].len = NumWords - 1
  BY <1>3 DEF RefillReq
<1>5. 0 \in 0 .. NumWords - 1
  BY SizeAssumption
<1> QED BY <1>2, <1>3, <1>4, <1>5 DEF Reading

\* The core in its refill.
LEMMA Refills ==
    ASSUME CoreOK, NEW ws \in Seq(Word), NEW st \in {"REFILL", "READ"},
           core' = [core EXCEPT !.state = st, !.rd = FALSE, !.words = ws]
    PROVE  CoreOK' /\ core'.state = st /\ core'.req = core.req /\ ~core'.rd /\ core'.words = ws
BY DEF CoreOK

\* The request for a refill goes out.
LEMMA MissingStep ==
    ASSUME Inv, CoreSide, Missing, NEW r, NEW slow, NEW dev, NEW respond, Step(r, slow, dev, respond)
    PROVE  CoreOK' /\ CoreSide'
<1>1. TypeOK /\ CoreOK /\ CoreOwes /\ dev \in Devs /\ respond \in BOOLEAN
  BY DEF Inv, CoreSide, Step
<1>2. core.state = "LOOKUP" /\ core.req.kind = "refill" /\ core.words = <<>> /\ memory = shadow /\ Quiet
  BY DEF Missing, Kind
<1>3. /\ CoreHolds' /\ owed' = owed /\ shadow' = shadow
      /\ (CoreBusAck <=> BusAck) /\ Pmem(r) = CorePmem /\ Bus(r, dev, respond)
      /\ (CorePmemAccept(r) <=> PmemAccept) /\ Core(r, slow)
  <2>1. ~Looking
    BY <1>2 DEF Looking, Kind
  <2> QED BY <2>1, CoreWaits
<1>4. RefillRequest /\ PmemAccept /\ Free
  BY <1>2 DEF RefillRequest, PmemAccept, Quiet, Free
<1>5. Pmem(r) = RefillReq(core.req.line, <<core.req.value, 0>>)
  BY <1>3, <1>4 DEF CorePmem, RefillReq
<1> PICK l \in Lines : l = core.req.line
  BY <1>1 DEF CoreOwes
<1>6. memory' = memory /\ Reading(l, NumWords, 0)'
  <2> PICK w : w = <<core.req.value, 0>>
    OBVIOUS
  <2> QED BY <1>1, <1>3, <1>4, <1>5, RefillGoes
<1>7. core' = [core EXCEPT !.state = "REFILL", !.rd = FALSE, !.words = <<>>]
  BY <1>2, <1>3, <1>4 DEF Core, CoreLookup, CoreMiss, CoreEvict, CoreEvictWait, CoreRefill, CoreRead, Push
<1>8. /\ CoreOK' /\ core'.state = "REFILL" /\ core'.req = core.req /\ ~core'.rd /\ core'.words = <<>>
  <2>1. <<>> \in Seq(Word)
    OBVIOUS
  <2> QED BY <1>1, <1>7, <2>1, Refills
<1>9. CoreOwes'
  BY <1>1, <1>2, <1>3, <1>8 DEF CoreOwes, Kind
<1>10. Refilling'
  <2>1. Len(core'.words) = 0 /\ core'.req.line = l
    BY <1>8
  <2> QED BY <1>2, <1>3, <1>6, <1>8, <2>1 DEF Refilling, Got, Kind
<1> QED BY <1>3, <1>8, <1>9, <1>10 DEF CoreSide

\* A write that has not begun.
LEMMA QuietWriting ==
    ASSUME Quiet', NEW l, NEW n \in 1 .. 255, NEW v
    PROVE  Storing(l, n, v, 0)'
<1>1. WriteAt(l, n, v, 0, 0, 0)'
  BY DEF Quiet, NoWrite, WriteAt
<1>2. 0 \in 0 .. n
  OBVIOUS
<1> QED BY <1>1, <1>2 DEF Storing

\* The core starts on a line it has to write back.
LEMMA LeavingStep ==
    ASSUME Inv, CoreSide, Leaving, NEW r, NEW slow, NEW dev, NEW respond, Step(r, slow, dev, respond)
    PROVE  CoreOK' /\ CoreSide'
<1>1. TypeOK /\ CoreOK /\ CoreOwes /\ dev \in Devs /\ respond \in BOOLEAN
  BY DEF Inv, CoreSide, Step
<1>2. core.state = "LOOKUP" /\ core.req.kind \in {"swap", "writeback"} /\ core.words = <<>> /\ Quiet
      /\ core.sent = 0
  BY DEF Leaving, Kind
<1>3. /\ CoreHolds' /\ owed' = owed /\ shadow' = shadow
      /\ (CoreBusAck <=> BusAck) /\ Pmem(r) = CorePmem /\ Bus(r, dev, respond) /\ Core(r, slow)
  <2>1. ~Looking
    BY <1>2 DEF Looking, Kind
  <2> QED BY <2>1, CoreWaits
<1>4. ~RefillRequest /\ Pmem(r) = NoPmem /\ Free
  BY <1>1, <1>2, <1>3 DEF RefillRequest, CorePmem, Quiet, Free, CoreOwes
<1>5. memory' = memory /\ Quiet'
  BY <1>1, <1>3, <1>4, FreeStep DEF Quiet
<1>6. core' = [core EXCEPT !.state = "EVICT"]
  BY <1>2, <1>3, <1>4 DEF Core, CoreLookup, CoreMiss, CoreEvict, CoreEvictWait, CoreRefill, CoreRead
<1>7. /\ CoreOK' /\ core'.state = "EVICT" /\ core'.req = core.req /\ ~core'.rd
      /\ core'.words = <<>> /\ core'.sent = 0
  BY <1>1, <1>2, <1>6 DEF CoreOK, CoreOwes
<1>8. CoreOwes'
  BY <1>1, <1>2, <1>3, <1>5, <1>7 DEF CoreOwes, Kind, SameBut
<1>9. Evicting'
  <2>1. NumWords \in 1 .. 255 /\ 0 < NumWords
    BY SizeAssumption
  <2> PICK l, v : l = core.req.victim /\ v = core.req.value
    OBVIOUS
  <2>2. Storing(l, NumWords, v, 0)'
    BY <1>5, <2>1, QuietWriting
  <2> QED BY <1>2, <1>7, <2>1, <2>2 DEF Evicting, Kind
<1> QED BY <1>3, <1>7, <1>8, <1>9 DEF CoreSide

\* A beat goes out each time the outport takes one.
LEMMA EvictingStep ==
    ASSUME Inv, CoreSide, Evicting, NEW r, NEW slow, NEW dev, NEW respond, Step(r, slow, dev, respond)
    PROVE  CoreOK' /\ CoreSide'
<1>1. TypeOK /\ CoreOK /\ CoreOwes /\ dev \in Devs /\ respond \in BOOLEAN
  BY DEF Inv, CoreSide, Step
<1>2. core.state = "EVICT" /\ core.req.kind \in {"swap", "writeback"} /\ core.words = <<>>
      /\ core.sent < NumWords
  BY DEF Evicting, Kind
<1>3. /\ CoreHolds' /\ owed' = owed /\ shadow' = shadow
      /\ (CoreBusAck <=> BusAck) /\ Pmem(r) = CorePmem /\ Bus(r, dev, respond)
      /\ (CorePmemAccept(r) <=> PmemAccept) /\ Core(r, slow)
  <2>1. ~Looking
    BY <1>2 DEF Looking, Kind
  <2> QED BY <2>1, CoreWaits
<1>4. ~RefillRequest
  BY <1>1, <1>2 DEF RefillRequest, CoreOwes
<1> PICK l, v, s : l = core.req.victim /\ v = core.req.value /\ s = core.sent
  OBVIOUS
<1>15. l \in Lines /\ v \in Value /\ s \in 0 .. NumWords - 1
  <2>1. core.req \in Offers
    BY <1>1, <1>2 DEF CoreOwes, Kind
  <2>2. core.req.victim \in Lines /\ core.req.value \in Value
    BY <2>1, OfferTypes
  <2>3. core.sent \in 0 .. NumWords - 1
    BY <1>1, <1>2, SizeAssumption DEF CoreOK
  <2> QED BY <2>2, <2>3
<1>5. Pmem(r) = WriteReq(l, NumWords, v, s) /\ Pmem(r) # NoPmem /\ Pmem(r) \in Requests
  <2>1. Pmem(r) = WriteReq(l, NumWords, v, s)
    BY <1>2, <1>3, <1>4 DEF CorePmem, WriteReq
  <2>2. WriteReq(l, NumWords, v, s) \in Requests
    <3>1. <<l, s>> \in Place /\ <<v, s>> \in Word
      BY <1>15 DEF Place, Word, Words
    <3>2. (IF s = 0 THEN NumWords - 1 ELSE 0) \in 0 .. 255
      BY SizeAssumption
    <3> QED BY <3>1, <3>2 DEF WriteReq, Requests
  <2>3. WriteReq(l, NumWords, v, s) # NoPmem
    BY DEF WriteReq, NoPmem
  <2> QED BY <2>1, <2>2, <2>3
<1>6. NumWords \in 1 .. 255 /\ axi_req \in Seq(Requests) /\ memory \in [Place -> Word]
      /\ \A k \in 0 .. NumWords - 1 : <<l, k>> \in Place
  BY <1>1, <1>15, SizeAssumption DEF TypeOK, Requests, Place, Words
<1> PICK n : n = NumWords
  OBVIOUS
<1>14. Storing(l, n, v, s)
  BY DEF Evicting
<1>7. ~BusAck
  <2>1. ASSUME BusAck PROVE s = n
    BY <1>6, <1>14, <2>1, WriteEnds
  <2> QED BY <1>6, <1>15, <2>1
<1> PICK push \in BOOLEAN : push <=> PmemAccept
  BY DEF PmemAccept
<1> PICK s1 : s1 = IF push THEN s + 1 ELSE s
  OBVIOUS
<1>16. s1 \in 0 .. NumWords
  BY <1>6, <1>15
<1>8. Storing(l, NumWords, v, s1)' /\ \A p \in Place : p[1] # l => memory'[p] = memory[p]
  <2>1. s1 = IF Pmem(r) # NoPmem /\ PmemAccept THEN s + 1 ELSE s
    BY <1>5
  <2>2. s < n
    BY <1>6, <1>15
  <2>3. Pmem(r) # NoPmem => s < n /\ Pmem(r) = WriteReq(l, n, v, s) /\ Pmem(r) \in Requests
    BY <1>5, <2>2
  <2>4. WriteCycle(Requests, l, n, v, s, s1, r, dev, respond)
    BY <1>1, <1>3, <1>6, <2>1, <2>3 DEF WriteCycle
  <2>5. axi_req \in Seq(Requests) /\ n \in 1 .. 255
    BY <1>6
  <2>6. Storing(l, n, v, s1)' /\ \A p \in Place : p[1] # l => memory'[p] = memory[p]
    BY <1>7, <1>14, <2>4, <2>5, WriteStep
  <2> QED BY <2>6
<1>10. core' = IF ~push THEN core
               ELSE [core EXCEPT !.sent = @ + 1,
                                 !.state = IF core.sent = NumWords - 1 THEN "EVICT_WAIT" ELSE @]
  BY <1>2, <1>3, <1>4 DEF Core, CoreLookup, CoreMiss, CoreEvict, CoreEvictWait, CoreRefill, CoreRead
<1>11. /\ CoreOK' /\ core'.state = (IF s1 = NumWords THEN "EVICT_WAIT" ELSE "EVICT")
       /\ core'.req = core.req /\ ~core'.rd /\ core'.words = <<>> /\ core'.sent = s1
  <2>1. CASE push
    <3>1. s1 = s + 1 /\ (s1 = NumWords <=> core.sent = NumWords - 1) /\ core.sent + 1 = s1
      BY <1>6, <1>15, <2>1
    <3>2. core' = [core EXCEPT !.sent = s1, !.state = IF s1 = NumWords THEN "EVICT_WAIT" ELSE "EVICT"]
      BY <1>2, <1>10, <2>1, <3>1
    <3>3. ~core.rd /\ core.words = <<>>
      BY <1>1, <1>2 DEF CoreOwes
    <3> DEFINE st == IF s1 = NumWords THEN "EVICT_WAIT" ELSE "EVICT"
    <3>4. st \in {"EVICT_WAIT", "EVICT"}
      OBVIOUS
    <3> HIDE DEF st
    <3>5. core' = [core EXCEPT !.sent = s1, !.state = st]
      BY <3>2 DEF st
    <3>6. /\ CoreOK' /\ core'.state = st /\ core'.req = core.req /\ ~core'.rd
          /\ core'.words = <<>> /\ core'.sent = s1
      BY <1>1, <1>16, <3>3, <3>4, <3>5 DEF CoreOK
    <3> QED BY <3>6 DEF st
  <2>2. CASE ~push
    <3>1. s1 # NumWords /\ core' = core /\ s1 = core.sent
      BY <1>6, <1>10, <1>15, <2>2
    <3> QED BY <1>1, <1>2, <3>1 DEF CoreOK, CoreOwes
  <2> QED BY <2>1, <2>2
<1>12. CoreOwes'
  <2>1. \A p \in Place : p[1] # l => memory'[p] = shadow'[p]
    BY <1>1, <1>2, <1>3, <1>8 DEF CoreOwes, Kind, SameBut
  <2> QED BY <1>1, <1>2, <1>3, <1>11, <2>1 DEF CoreOwes, Kind, SameBut
<1>13. Evicting' \/ Evicted'
  <2>1. s1 # NumWords => s1 < NumWords
    BY <1>6, <1>16
  <2> QED BY <1>2, <1>8, <1>11, <2>1 DEF Evicting, Evicted, Kind
<1> QED BY <1>3, <1>11, <1>12, <1>13 DEF CoreSide

\* A request that is done is answered as a hit.
LEMMA AnsweredAsHit ==
    ASSUME CoreOK, core.req \in Offers, ~core.rd,
           core' = [core EXCEPT !.state = "LOOKUP", !.req.kind = "hit"]
    PROVE  /\ CoreOK' /\ core'.state = "LOOKUP" /\ ~core'.rd /\ core'.words = core.words
           /\ core'.req.kind = "hit" /\ core'.req.tag = core.req.tag /\ core'.req.line = core.req.line
<1> PICK q \in Offers : q = core.req
  OBVIOUS
<1> DEFINE h == [q EXCEPT !.kind = "hit"]
<1>1. h \in Hits
  BY DEF Hits
<1>2. h.kind = "hit" /\ h.tag = q.tag /\ h.line = q.line
  <2>1. q \in Offer
    BY OfferTypes
  <2> QED BY <2>1 DEF Offer
<1>3. core' = [core EXCEPT !.state = "LOOKUP", !.req = h]
  BY DEF CoreOK
<1> HIDE DEF h
<1>4. CoreOK' /\ core'.state = "LOOKUP" /\ core'.req = h /\ core'.rd = core.rd /\ core'.words = core.words
  BY <1>1, <1>3 DEF CoreOK
<1> QED BY <1>2, <1>4

\* The write back waits for its answer; a swap goes on with the refill, a write back is done.
LEMMA EvictedStep ==
    ASSUME Inv, CoreSide, Evicted, NEW r, NEW slow, NEW dev, NEW respond, Step(r, slow, dev, respond)
    PROVE  CoreOK' /\ CoreSide'
<1>1. TypeOK /\ CoreOK /\ CoreOwes /\ dev \in Devs /\ respond \in BOOLEAN
  BY DEF Inv, CoreSide, Step
<1>2. core.state = "EVICT_WAIT" /\ core.req.kind \in {"swap", "writeback"} /\ core.words = <<>>
  BY DEF Evicted, Kind
<1>3. /\ CoreHolds' /\ owed' = owed /\ shadow' = shadow
      /\ (CoreBusAck <=> BusAck) /\ Pmem(r) = CorePmem /\ Bus(r, dev, respond)
      /\ (CorePmemAccept(r) <=> PmemAccept) /\ Core(r, slow)
  <2>1. ~Looking
    BY <1>2 DEF Looking, Kind
  <2> QED BY <2>1, CoreWaits
<1> PICK l, v, n : l = core.req.victim /\ v = core.req.value /\ n = NumWords
  OBVIOUS
<1>4. core.req \in Offers /\ l \in Lines /\ v \in Value
  <2>1. core.req \in Offers
    BY <1>1, <1>2 DEF CoreOwes, Kind
  <2> QED BY <2>1, OfferTypes
<1>5. n \in 1 .. 255 /\ axi_req \in Seq(Requests) /\ memory \in [Place -> Word]
      /\ \A k \in 0 .. n - 1 : <<l, k>> \in Place
  BY <1>1, <1>4, SizeAssumption DEF TypeOK, Requests, Place, Words
<1>6. Storing(l, n, v, n)
  BY DEF Evicted
<1>7. RefillRequest <=> BusAck /\ core.req.kind = "swap"
  BY <1>1, <1>2, <1>3 DEF RefillRequest, CoreOwes
<1>8. CASE ~BusAck
  <2>1. Pmem(r) = NoPmem
    BY <1>2, <1>3, <1>7, <1>8 DEF CorePmem
  <2>2. WriteCycle(Requests, l, n, v, n, n, r, dev, respond)
    BY <1>1, <1>3, <1>5, <2>1 DEF WriteCycle
  <2>3. axi_req \in Seq(Requests) /\ n \in 1 .. 255
    BY <1>5
  <2>4. Storing(l, n, v, n)' /\ \A p \in Place : p[1] # l => memory'[p] = memory[p]
    BY <1>6, <1>8, <2>2, <2>3, WriteStep
  <2>5. core' = core
    BY <1>2, <1>3, <1>7, <1>8 DEF Core, CoreLookup, CoreMiss, CoreEvict, CoreEvictWait, CoreRefill, CoreRead
  <2>6. CoreOwes'
    <3>1. \A p \in Place : p[1] # l => memory'[p] = shadow'[p]
      BY <1>1, <1>2, <1>3, <2>4 DEF CoreOwes, Kind, SameBut
    <3> QED BY <1>1, <1>2, <1>3, <2>5, <3>1 DEF CoreOwes, Kind, SameBut
  <2>7. Evicted'
    BY <1>2, <2>4, <2>5 DEF Evicted, Kind
  <2> QED BY <1>1, <1>3, <2>5, <2>6, <2>7 DEF CoreSide, CoreOK
<1>9. CASE BusAck
  <2>1. Free /\ \A k \in 0 .. n - 1 : memory[<<l, k>>] = <<v, k>>
    BY <1>5, <1>6, <1>9, WriteEnds
  <2>2. memory = shadow
    <3>1. SameBut(l) /\ \A k \in Words : shadow[<<l, k>>] = <<v, k>>
      BY <1>1, <1>2 DEF CoreOwes, Kind
    <3>2. \A k \in Words : memory[<<l, k>>] = <<v, k>>
      BY <2>1 DEF Words
    <3> QED BY <1>1, <1>4, <3>1, <3>2, SameMemory
  <2>3. CASE core.req.kind = "swap"
    <3>1. RefillRequest /\ PmemAccept
      BY <1>7, <1>9, <2>1, <2>3 DEF Free, PmemAccept
    <3>2. Pmem(r) = RefillReq(core.req.line, <<core.req.value, 0>>)
      BY <1>3, <3>1 DEF CorePmem, RefillReq
    <3> PICK j \in Lines : j = core.req.line
      BY <1>1 DEF CoreOwes
    <3>3. memory' = memory /\ Reading(j, NumWords, 0)'
      <4> PICK w : w = <<core.req.value, 0>>
        OBVIOUS
      <4>1. Pmem(r) = RefillReq(j, w)
        BY <3>2
      <4>2. TypeOK /\ dev \in Devs /\ respond \in BOOLEAN /\ Bus(r, dev, respond) /\ Free
        BY <1>1, <1>3, <2>1
      <4> QED BY <4>1, <4>2, RefillGoes
    <3>4. core' = [core EXCEPT !.state = "REFILL", !.rd = FALSE, !.words = <<>>]
      BY <1>2, <1>3, <3>1 DEF Core, CoreLookup, CoreMiss, CoreEvict, CoreEvictWait, CoreRefill, CoreRead, Push
    <3>5. CoreOK' /\ core'.state = "REFILL" /\ core'.req = core.req /\ ~core'.rd /\ core'.words = <<>>
      <4>1. <<>> \in Seq(Word)
        OBVIOUS
      <4> QED BY <1>1, <3>4, <4>1, Refills
    <3>6. CoreOwes'
      BY <1>1, <1>3, <2>3, <3>3, <3>5 DEF CoreOwes, Kind, SameBut
    <3>7. Refilling'
      <4>1. Len(core'.words) = 0 /\ core'.req.line = j
        BY <3>5
      <4> QED BY <1>3, <2>2, <2>3, <3>3, <3>5, <4>1 DEF Refilling, Got, Kind
    <3> QED BY <1>3, <3>5, <3>6, <3>7 DEF CoreSide
  <2>4. CASE core.req.kind = "writeback"
    <3>1. ~RefillRequest /\ Pmem(r) = NoPmem
      BY <1>2, <1>3, <1>7, <2>4 DEF CorePmem
    <3>2. memory' = memory /\ Quiet'
      BY <1>1, <1>3, <2>1, <3>1, FreeStep DEF Quiet
    <3>3. core' = [core EXCEPT !.state = "LOOKUP", !.req.kind = "hit"]
      BY <1>2, <1>3, <1>9, <3>1 DEF Core, CoreLookup, CoreMiss, CoreEvict, CoreEvictWait, CoreRefill, CoreRead
    <3>4. /\ CoreOK' /\ core'.state = "LOOKUP" /\ ~core'.rd /\ core'.words = <<>>
          /\ core'.req.kind = "hit" /\ core'.req.tag = core.req.tag /\ core'.req.line = core.req.line
      <4>1. ~core.rd
        BY <1>1 DEF CoreOwes
      <4> QED BY <1>1, <1>2, <1>4, <3>3, <4>1, AnsweredAsHit
    <3>5. CoreOwes'
      BY <1>1, <1>3, <3>4 DEF CoreOwes, Kind
    <3>6. Looking'
      BY <1>1, <1>3, <2>2, <2>4, <3>2, <3>4 DEF CoreOwes, Looking, Kind
    <3> QED BY <1>3, <3>4, <3>5, <3>6 DEF CoreSide
  <2> QED BY <1>2, <2>3, <2>4
<1> QED BY <1>8, <1>9

\* A word of the refill arrives, or the core waits for it.
LEMMA RefillingStep ==
    ASSUME Inv, CoreSide, Refilling, NEW r, NEW slow, NEW dev, NEW respond, Step(r, slow, dev, respond)
    PROVE  CoreOK' /\ CoreSide'
<1>1. TypeOK /\ CoreOK /\ CoreOwes /\ dev \in Devs /\ respond \in BOOLEAN
  BY DEF Inv, CoreSide, Step
<1>2. core.state = "REFILL" /\ core.req.kind \in {"refill", "swap"} /\ memory = shadow /\ ~core.rd
  BY <1>1 DEF Refilling, Kind, CoreOwes
<1>3. /\ CoreHolds' /\ owed' = owed /\ shadow' = shadow
      /\ (CoreBusAck <=> BusAck) /\ Pmem(r) = CorePmem /\ Bus(r, dev, respond) /\ Core(r, slow)
  <2>1. ~Looking
    BY <1>2 DEF Looking, Kind
  <2> QED BY <2>1, CoreWaits
<1>4. ~RefillRequest /\ Pmem(r) = NoPmem
  BY <1>2, <1>3 DEF RefillRequest, CorePmem
<1> PICK l, n, got : l = core.req.line /\ n = NumWords /\ got = Len(core.words)
  OBVIOUS
<1>5. l \in Lines /\ n \in Nat \ {0} /\ axi_req \in Seq(Requests) /\ memory \in [Place -> Word]
      /\ core.words \in Seq(Word) /\ got \in Nat
  <2>1. l \in Lines /\ n \in Nat \ {0}
    BY <1>1, SizeAssumption DEF CoreOwes
  <2>2. axi_req \in Seq(Requests) /\ memory \in [Place -> Word] /\ core.words \in Seq(Word)
    BY <1>1 DEF TypeOK, Requests
  <2>3. got \in Nat
    BY <2>2
  <2> QED BY <2>1, <2>2, <2>3
<1>6. Reading(l, n, got) /\ got \in 0 .. n - 1
  BY DEF Refilling, Reading
<1>7. core' = [core EXCEPT !.state = IF BusAck /\ got = n - 1 THEN "READ" ELSE "REFILL",
                           !.rd = FALSE,
                           !.words = IF BusAck THEN Append(core.words, rsp.word) ELSE core.words]
  <2>1. CoreRefill(r)
    BY <1>2, <1>3, <1>4 DEF Core, CoreLookup, CoreMiss, CoreEvict, CoreEvictWait, CoreRead
  <2>2. core' = [core EXCEPT
                    !.state = IF (core.state = "REFILL" /\ CoreBusAck) /\ Len(core.words) = NumWords - 1
                              THEN "READ" ELSE "REFILL",
                    !.rd = RefillRequest /\ ~CorePmemAccept(r),
                    !.words = Push(core.words, core.state = "REFILL" /\ CoreBusAck, rsp.word)]
    BY <2>1 DEF CoreRefill
  <2>3. (RefillRequest /\ ~CorePmemAccept(r)) = FALSE
    BY <1>4
  <2>4. Push(core.words, core.state = "REFILL" /\ CoreBusAck, rsp.word)
            = IF BusAck THEN Append(core.words, rsp.word) ELSE core.words
    BY <1>2, <1>3 DEF Push
  <2>5. (IF (core.state = "REFILL" /\ CoreBusAck) /\ Len(core.words) = NumWords - 1 THEN "READ" ELSE "REFILL")
            = IF BusAck /\ got = n - 1 THEN "READ" ELSE "REFILL"
    BY <1>2, <1>3
  <2> QED BY <2>2, <2>3, <2>4, <2>5
<1>8. BusAck => rsp.word = memory[<<l, got>>] /\ rsp.word \in Word /\ (got = n - 1 => Free)
  <2> SUFFICES ASSUME BusAck PROVE rsp.word = memory[<<l, got>>] /\ rsp.word \in Word /\ (got = n - 1 => Free)
    OBVIOUS
  <2>1. rsp.word = memory[<<l, got>>] /\ (got = n - 1 => Free)
    BY <1>5, <1>6, ReadEnds
  <2>2. <<l, got>> \in Place
    BY <1>5, <1>6 DEF Place, Words
  <2> QED BY <1>5, <2>1, <2>2
<1>9. CASE ~BusAck
  <2>1. memory' = memory /\ Reading(l, n, got)'
    <3>1. ~(BusAck /\ got = n - 1)
      BY <1>9
    <3> QED BY <1>1, <1>3, <1>4, <1>5, <1>6, <1>9, <3>1, ReadStep
  <2>2. CoreOK' /\ core'.state = "REFILL" /\ core'.req = core.req /\ ~core'.rd /\ core'.words = core.words
    BY <1>1, <1>5, <1>7, <1>9, Refills
  <2>3. CoreOwes'
    BY <1>1, <1>2, <1>3, <2>1, <2>2 DEF CoreOwes, Kind, SameBut
  <2>4. Got'
    BY <2>1, <2>2 DEF Refilling, Got
  <2>5. Refilling'
    BY <1>2, <1>3, <2>1, <2>2, <2>4 DEF Refilling, Kind
  <2> QED BY <1>3, <2>2, <2>3, <2>5 DEF CoreSide
<1>10. CASE BusAck
  <2> DEFINE ws == Append(core.words, rsp.word)
  <2>1. ws \in Seq(Word) /\ Len(ws) = got + 1 /\ \A k \in 1 .. got + 1 : ws[k] = memory[<<l, k - 1>>]
    <3>1. ws \in Seq(Word) /\ Len(ws) = got + 1 /\ \A k \in 1 .. got : ws[k] = core.words[k]
      BY <1>5, <1>8, <1>10
    <3>2. ws[got + 1] = rsp.word
      BY <1>5
    <3>3. ASSUME NEW k \in 1 .. got + 1 PROVE ws[k] = memory[<<l, k - 1>>]
      <4>1. CASE k = got + 1
        <5>1. k - 1 = got
          BY <1>5, <4>1
        <5> QED BY <1>8, <1>10, <3>2, <4>1, <5>1
      <4>2. CASE k # got + 1
        <5>1. k \in 1 .. got
          BY <1>5, <4>2
        <5>2. core.words[k] = memory[<<l, k - 1>>]
          BY <5>1 DEF Refilling, Got
        <5> QED BY <3>1, <5>1, <5>2
      <4> QED BY <4>1, <4>2
    <3> QED BY <3>1, <3>3
  <2>2. core' = [core EXCEPT !.state = IF got = n - 1 THEN "READ" ELSE "REFILL", !.rd = FALSE, !.words = ws]
    BY <1>7, <1>10
  <2> HIDE DEF ws
  <2>3. CASE got = n - 1
    <3>1. memory' = memory /\ Quiet'
      BY <1>1, <1>3, <1>4, <1>8, <1>10, <2>3, FreeStep DEF Quiet
    <3>2. CoreOK' /\ core'.state = "READ" /\ core'.req = core.req /\ ~core'.rd /\ core'.words = ws
      BY <1>1, <2>1, <2>2, <2>3, Refills
    <3>3. CoreOwes'
      BY <1>1, <1>2, <1>3, <3>1, <3>2 DEF CoreOwes, Kind, SameBut
    <3>4. Len(core'.words) = NumWords
      BY <1>5, <2>1, <2>3, <3>2
    <3>5. Got'
      BY <2>1, <3>1, <3>2 DEF Got
    <3>6. Refilled'
      BY <1>2, <1>3, <3>1, <3>2, <3>4, <3>5 DEF Refilled, Kind
    <3> QED BY <1>3, <3>2, <3>3, <3>6 DEF CoreSide
  <2>4. CASE got # n - 1
    <3>1. memory' = memory /\ Reading(l, n, got + 1)'
      <4>1. ~(BusAck /\ got = n - 1)
        BY <2>4
      <4> QED BY <1>1, <1>3, <1>4, <1>5, <1>6, <1>10, <4>1, ReadStep
    <3>2. CoreOK' /\ core'.state = "REFILL" /\ core'.req = core.req /\ ~core'.rd /\ core'.words = ws
      BY <1>1, <2>1, <2>2, <2>4, Refills
    <3>3. CoreOwes'
      BY <1>1, <1>2, <1>3, <3>1, <3>2 DEF CoreOwes, Kind, SameBut
    <3>4. Len(core'.words) = got + 1
      BY <2>1, <3>2
    <3>5. Got'
      BY <2>1, <3>1, <3>2 DEF Got
    <3>6. Refilling'
      BY <1>2, <1>3, <3>1, <3>2, <3>4, <3>5 DEF Refilling, Kind
    <3> QED BY <1>3, <3>2, <3>3, <3>6 DEF CoreSide
  <2> QED BY <2>3, <2>4
<1> QED BY <1>9, <1>10

\* The words of the refill go up.
LEMMA RefilledStep ==
    ASSUME Inv, CoreSide, Refilled, NEW r, NEW slow, NEW dev, NEW respond, Step(r, slow, dev, respond)
    PROVE  CoreOK' /\ CoreSide'
<1>1. TypeOK /\ CoreOK /\ CoreOwes /\ dev \in Devs /\ respond \in BOOLEAN
  BY DEF Inv, CoreSide, Step
<1>2. core.state = "READ" /\ core.req.kind \in {"refill", "swap"} /\ memory = shadow /\ ~core.rd /\ Quiet
      /\ Len(core.words) = NumWords /\ Got
  BY <1>1 DEF Refilled, Kind, CoreOwes
<1>3. /\ CoreHolds' /\ owed' = owed /\ shadow' = shadow
      /\ (CoreBusAck <=> BusAck) /\ Pmem(r) = CorePmem /\ Bus(r, dev, respond) /\ Core(r, slow)
  <2>1. ~Looking
    BY <1>2 DEF Looking, Kind
  <2> QED BY <2>1, CoreWaits
<1>4. ~RefillRequest /\ Pmem(r) = NoPmem /\ Free
  BY <1>2, <1>3 DEF RefillRequest, CorePmem, Quiet, Free
<1>5. memory' = memory /\ Quiet'
  BY <1>1, <1>3, <1>4, FreeStep DEF Quiet
<1>6. core' = [core EXCEPT !.state = "LOOKUP", !.req.kind = "hit"]
  BY <1>2, <1>3, <1>4 DEF Core, CoreLookup, CoreMiss, CoreEvict, CoreEvictWait, CoreRefill, CoreRead
<1>7. core.req \in Offers /\ owed[1].words = LineOf(shadow, core.req.line)
  BY <1>1, <1>2 DEF CoreOwes, Kind
<1>8. /\ CoreOK' /\ core'.state = "LOOKUP" /\ ~core'.rd /\ core'.words = core.words
      /\ core'.req.kind = "hit" /\ core'.req.tag = core.req.tag /\ core'.req.line = core.req.line
  BY <1>1, <1>2, <1>6, <1>7, AnsweredAsHit
<1>9. owed[1].words = core.words
  <2>1. core.words \in Seq(Word)
    BY <1>1 DEF CoreOK
  <2>2. NumWords \in Nat
    BY SizeAssumption
  <2>3. core.words = [k \in 1 .. NumWords |-> core.words[k]]
    BY <1>2, <2>1, <2>2
  <2>4. \A k \in 1 .. NumWords : core.words[k] = shadow[<<core.req.line, k - 1>>]
    BY <1>2 DEF Got
  <2>5. LineOf(shadow, core.req.line) = [k \in 1 .. NumWords |-> core.words[k]]
    BY <2>4 DEF LineOf
  <2> QED BY <1>7, <2>3, <2>5
<1>10. CoreOwes'
  BY <1>1, <1>3, <1>8 DEF CoreOwes, Kind
<1>11. Looking'
  BY <1>2, <1>3, <1>5, <1>8, <1>9 DEF Looking, Kind
<1> QED BY <1>3, <1>8, <1>10, <1>11 DEF CoreSide

\* A cycle of the core's side.
LEMMA CoreSideStep ==
    ASSUME Inv, CoreSide, NEW r, NEW slow, NEW dev, NEW respond, Step(r, slow, dev, respond)
    PROVE  CoreOK' /\ (CoreSide' \/ UncSide')
<1>1. Looking \/ Missing \/ Leaving \/ Evicting \/ Evicted \/ Refilling \/ Refilled
  BY DEF CoreSide
<1>2. CASE Looking
  BY <1>2, LookingStep
<1>3. CASE Missing
  BY <1>3, MissingStep
<1>4. CASE Leaving
  BY <1>4, LeavingStep
<1>5. CASE Evicting
  BY <1>5, EvictingStep
<1>6. CASE Evicted
  BY <1>6, EvictedStep
<1>7. CASE Refilling
  BY <1>7, RefillingStep
<1>8. CASE Refilled
  BY <1>8, RefilledStep
<1> QED BY <1>1, <1>2, <1>3, <1>4, <1>5, <1>6, <1>7, <1>8

-----------------------------------------------------------------------------
(* The bridge's side.                                                        *)
\* The oldest request of the queue goes on.
LEMMA BehindPop ==
    ASSUME NEW q \in Seq(Offers), NEW o \in Seq(Answers), NEW now, NEW end,
           Behind(q, o, 0, now, end), q # <<>>
    PROVE  o[1].words = WordsFor(q[1], now) /\ Behind(Tail(q), o, 1, DeviceAfter(q[1], now), end) /\ o # <<>>
<1>1. Len(q) + 0 = Len(o) /\ (Len(q) = 1 \/ Len(q) = 2) /\ 0 + 1 = 1 /\ 0 + 2 = 2 /\ 1 + 1 = 2
  BY DEF Behind
<1>2. CASE Len(q) = 1
  <2>1. Tail(q) = <<>>
    BY <1>2, TailOfOne
  <2>2. o[1].words = WordsFor(q[1], now) /\ end = DeviceAfter(q[1], now)
    BY <1>1, <1>2 DEF Behind
  <2>3. Len(<<>>) + 1 = Len(o) /\ o # <<>>
    BY <1>1, <1>2
  <2> QED BY <2>1, <2>2, <2>3 DEF Behind
<1>3. CASE Len(q) = 2
  <2>1. Tail(q) \in Seq(Offers) /\ Len(Tail(q)) = 1 /\ Tail(q)[1] = q[2]
    <3>1. /\ Tail(q) \in Seq(Offers) /\ Len(Tail(q)) = Len(q) - 1
          /\ \A k \in 1 .. Len(q) - 1 : Tail(q)[k] = q[k + 1]
      OBVIOUS
    <3>2. 1 \in 1 .. Len(q) - 1 /\ 1 + 1 = 2 /\ Len(q) - 1 = 1
      BY <1>3
    <3>3. Tail(q)[1] = q[1 + 1]
      BY <3>1, <3>2
    <3> QED BY <3>1, <3>2, <3>3
  <2>2. o[1].words = WordsFor(q[1], now) /\ o[2].words = WordsFor(q[2], DeviceAfter(q[1], now))
        /\ end = DeviceAfter(q[2], DeviceAfter(q[1], now))
    BY <1>1, <1>3 DEF Behind
  <2>3. Len(Tail(q)) + 1 = Len(o) /\ o # <<>>
    <3>1. Len(o) = 2
      BY <1>1, <1>3
    <3> QED BY <2>1, <3>1
  <2> DEFINE t == Tail(q)
  <2>4. Len(t) = 1 /\ t[1] = q[2] /\ Len(t) + 1 = Len(o)
    BY <2>1, <2>3
  <2> HIDE DEF t
  <2>5. /\ o[1 + 1].words = WordsFor(t[1], DeviceAfter(q[1], now))
        /\ end = DeviceAfter(t[1], DeviceAfter(q[1], now))
    BY <1>1, <2>2, <2>4
  <2>6. Behind(t, o, 1, DeviceAfter(q[1], now), end)
    BY <2>4, <2>5 DEF Behind
  <2> QED BY <2>2, <2>3, <2>6 DEF t
<1> QED BY <1>1, <1>2, <1>3

\* The oldest answer leaves.
LEMMA BehindAck ==
    ASSUME NEW q \in Seq(Offers), NEW o \in Seq(Answers), NEW now, NEW end,
           Behind(q, o, 1, now, end)
    PROVE  Behind(q, Tail(o), 0, now, end) /\ o # <<>>
<1>1. Len(q) + 1 = Len(o) /\ Len(q) \in Nat /\ 0 + 1 = 1 /\ 0 + 2 = 2 /\ 1 + 1 = 2 /\ 1 + 2 = 3
  BY DEF Behind
<1>2. o # <<>> /\ Tail(o) \in Seq(Answers) /\ Len(Tail(o)) = Len(o) - 1
      /\ \A k \in 1 .. Len(o) - 1 : Tail(o)[k] = o[k + 1]
  BY <1>1
<1> DEFINE t == Tail(o)
<1>3. Len(q) + 0 = Len(t) /\ (Len(q) > 0 => t[1] = o[2]) /\ (Len(q) > 1 => t[2] = o[3])
  BY <1>1, <1>2
<1> HIDE DEF t
<1>4. Behind(q, t, 0, now, end)
  BY <1>1, <1>3 DEF Behind
<1> QED BY <1>2, <1>4 DEF t

\* A request enters the queue.
LEMMA BehindPush ==
    ASSUME NEW q \in Seq(Offers), NEW o \in Seq(Answers), NEW done, done \in 0 .. 1, NEW now, NEW end,
           Behind(q, o, done, now, end), Len(q) <= 1,
           NEW x \in Offers, NEW a \in Answers, a.words = WordsFor(x, end)
    PROVE  Behind(Append(q, x), Append(o, a), done, now, DeviceAfter(x, end))
<1>1. Len(q) + done = Len(o) /\ (Len(q) = 0 \/ Len(q) = 1)
  BY DEF Behind
<1> DEFINE p == Append(q, x)
           b == Append(o, a)
<1>2. /\ Len(p) = Len(q) + 1 /\ p[Len(q) + 1] = x /\ \A k \in 1 .. Len(q) : p[k] = q[k]
  OBVIOUS
<1>3. /\ Len(b) = Len(o) + 1 /\ b[Len(o) + 1] = a /\ \A k \in 1 .. Len(o) : b[k] = o[k]
  OBVIOUS
<1> HIDE DEF p, b
<1>4. CASE Len(q) = 0
  <2>1. q = <<>> /\ end = now
    BY <1>4 DEF Behind
  <2>2. Len(p) = 1 /\ p[1] = x /\ b[done + 1] = a /\ Len(p) + done = Len(b)
    BY <1>1, <1>2, <1>3, <1>4
  <2>3. Behind(p, b, done, now, DeviceAfter(x, end))
    BY <2>1, <2>2 DEF Behind
  <2> QED BY <2>3 DEF p, b
<1>5. CASE Len(q) = 1
  <2>1. o[done + 1].words = WordsFor(q[1], now) /\ end = DeviceAfter(q[1], now)
    <3>1. q # <<>>
      <4>1. Len(q) # 0
        BY <1>5
      <4> QED BY <4>1
    <3>2. ~(Len(q) = 2)
      BY <1>5
    <3> QED BY <3>1, <3>2 DEF Behind
  <2>2. Len(p) = 2 /\ p[1] = q[1] /\ p[2] = x /\ b[done + 2] = a /\ b[done + 1] = o[done + 1]
        /\ Len(p) + done = Len(b)
    <3>1. Len(o) = done + 1 /\ Len(o) + 1 = done + 2
      BY <1>1, <1>5
    <3> QED BY <1>1, <1>2, <1>3, <1>5, <3>1
  <2>3. Behind(p, b, done, now, DeviceAfter(x, end))
    BY <2>1, <2>2 DEF Behind
  <2> QED BY <2>3 DEF p, b
<1> QED BY <1>1, <1>4, <1>5

\* A tag leaves with its answer.
LEMMA TagsPop ==
    ASSUME NEW o \in Seq(Answers), NEW t \in Seq(Tags), TagsMatch(o, t), o # <<>>
    PROVE  TagsMatch(Tail(o), Tail(t)) /\ t # <<>>
<1>1. Len(t) = Len(o) /\ Len(o) # 0 /\ t # <<>>
  BY DEF TagsMatch
<1>2. /\ Len(Tail(o)) = Len(o) - 1 /\ \A k \in 1 .. Len(o) - 1 : Tail(o)[k] = o[k + 1]
      /\ Len(Tail(t)) = Len(o) - 1 /\ \A k \in 1 .. Len(o) - 1 : Tail(t)[k] = t[k + 1]
  BY <1>1
<1>3. ASSUME NEW k \in 1 .. Len(o) - 1 PROVE Tail(o)[k].tag = Tail(t)[k]
  <2>1. k + 1 \in 1 .. Len(o)
    BY <1>1
  <2>2. o[k + 1].tag = t[k + 1]
    BY <2>1 DEF TagsMatch
  <2> QED BY <1>2, <2>2
<1> QED BY <1>1, <1>2, <1>3 DEF TagsMatch

\* A tag enters with its answer.
LEMMA TagsPush ==
    ASSUME NEW o \in Seq(Answers), NEW t \in Seq(Tags), TagsMatch(o, t),
           NEW a \in Answers, NEW g \in Tags, a.tag = g
    PROVE  TagsMatch(Append(o, a), Append(t, g))
<1>1. Len(t) = Len(o)
  BY DEF TagsMatch
<1>2. /\ Len(Append(o, a)) = Len(o) + 1 /\ Append(o, a)[Len(o) + 1] = a
      /\ \A k \in 1 .. Len(o) : Append(o, a)[k] = o[k]
  OBVIOUS
<1>3. /\ Len(Append(t, g)) = Len(o) + 1 /\ Append(t, g)[Len(o) + 1] = g
      /\ \A k \in 1 .. Len(o) : Append(t, g)[k] = t[k]
  BY <1>1
<1>4. ASSUME NEW k \in 1 .. Len(o) + 1 PROVE Append(o, a)[k].tag = Append(t, g)[k]
  <2>1. CASE k = Len(o) + 1
    BY <1>2, <1>3, <2>1
  <2>2. CASE k # Len(o) + 1
    <3>1. k \in 1 .. Len(o)
      BY <2>2
    <3>2. o[k].tag = t[k]
      BY <3>1 DEF TagsMatch
    <3> QED BY <1>2, <1>3, <3>1, <3>2
  <2> QED BY <2>1, <2>2
<1> QED BY <1>2, <1>3, <1>4 DEF TagsMatch

\* What is owed for a request the bridge takes.
LEMMA UncAnswer ==
    ASSUME TypeOK, NEW r \in Offers, ~Cached(r), r.kind # "idle"
    PROVE  /\ Answer(r).words = WordsFor(r, shadow[Dev]) /\ Answer(r).tag = r.tag
           /\ After(r)[Dev] = DeviceAfter(r, shadow[Dev])
           /\ \A p \in Place : p[1] # Device => After(r)[p] = shadow[p]
<1>1. r.kind \in {"load", "store", "drop"}
  BY OfferTypes
<1>2. Answer(r).words = WordsFor(r, shadow[Dev]) /\ Answer(r).tag = r.tag
  <2>1. CASE r.kind = "load"
    <3>1. Answer(r) = [tag |-> r.tag, words |-> <<shadow[<<Device, 0>>]>>]
      BY <2>1 DEF Answer
    <3> QED BY <2>1, <3>1 DEF WordsFor, Dev
  <2>2. CASE r.kind # "load"
    <3>1. Answer(r) = [tag |-> r.tag, words |-> <<>>]
      BY <1>1, <2>2 DEF Answer
    <3> QED BY <2>2, <3>1 DEF WordsFor
  <2> QED BY <2>1, <2>2
<1>3. Dev \in Place /\ Dev = <<Device, 0>>
  BY DEF Place, Dev
<1>4. After(r)[Dev] = DeviceAfter(r, shadow[Dev])
  BY <1>1, <1>3 DEF After, DeviceAfter
<1>5. \A p \in Place : p[1] # Device => After(r)[p] = shadow[p]
  BY <1>1 DEF After
<1> QED BY <1>2, <1>4, <1>5

\* The bridge's two queues and the answers owed, when one more request is taken or not.
LEMMA BridgeTakes ==
    ASSUME TypeOK, NEW r \in Offers, NEW taken,
           taken => ~Cached(r) /\ r.kind # "idle",
           NEW q \in Seq(Offers), q \in Seq(Singles), NEW o \in Seq(Answers), NEW t \in Seq(Tags),
           NEW done, done \in 0 .. 1,
           NEW now, Behind(q, o, done, now, shadow[Dev]), TagsMatch(o, t), taken => Len(q) <= 1,
           unc_req' = IF taken THEN Append(q, r) ELSE q,
           unc_resp' = IF taken THEN Append(t, r.tag) ELSE t,
           owed' = IF taken THEN Append(o, Answer(r)) ELSE o, Answer(r) \in Answers,
           shadow' = IF taken THEN After(r) ELSE shadow
    PROVE  /\ Behind(unc_req', owed', done, now, shadow'[Dev]) /\ TagsMatch(owed', unc_resp')
           /\ unc_req' \in Seq(Singles)
           /\ Len(owed') = IF taken THEN Len(o) + 1 ELSE Len(o)
           /\ o # <<>> => owed'[1] = o[1]
           /\ \A p \in Place : p[1] # Device => shadow'[p] = shadow[p]
<1>1. CASE taken
  <2> PICK end, end1 : end = shadow[Dev] /\ end1 = DeviceAfter(r, end)
    OBVIOUS
  <2>1. /\ Answer(r).words = WordsFor(r, end) /\ Answer(r).tag = r.tag /\ After(r)[Dev] = end1
        /\ \A p \in Place : p[1] # Device => After(r)[p] = shadow[p]
    BY <1>1, UncAnswer
  <2> PICK a : a = Answer(r)
    OBVIOUS
  <2>2. a \in Answers /\ a.words = WordsFor(r, end) /\ a.tag = r.tag /\ Len(q) <= 1
    BY <1>1, <2>1
  <2>3. Behind(q, o, done, now, end)
    OBVIOUS
  <2>4. Behind(Append(q, r), Append(o, a), done, now, end1)
    BY <2>2, <2>3, BehindPush
  <2>5. r.tag \in Tags
    BY OfferTypes
  <2>6. TagsMatch(Append(o, a), Append(t, r.tag))
    BY <2>2, <2>5, TagsPush
  <2>7. Len(Append(o, a)) = Len(o) + 1 /\ (o # <<>> => Append(o, a)[1] = o[1])
    BY <2>2
  <2>8. shadow'[Dev] = end1
    BY <1>1, <2>1
  <2>9. Append(q, r) \in Seq(Singles)
    <3>1. r \in Singles
      BY <1>1, OfferTypes DEF Singles
    <3> QED BY <3>1
  <2> QED BY <1>1, <2>1, <2>4, <2>6, <2>7, <2>8, <2>9
<1>2. CASE ~taken
  BY <1>2
<1> QED BY <1>1, <1>2

\* Nothing is due: nothing is under way on either side.
LEMMA IdleState ==
    ASSUME Inv, UncSide, pending_q = 0
    PROVE  /\ owed = <<>> /\ unc_req = <<>> /\ unc_resp = <<>> /\ ~request_pending_q
           /\ Quiet /\ ~dropped_q /\ ~BusAck /\ ~UncAck /\ ~MemAck /\ shadow[Dev] = memory[Dev]
<1>1. TypeOK /\ owed \in Seq(Answers)
  BY DEF Inv
<1> PICK now \in Word : OnBus(now, owed[1].words) /\ Behind(unc_req, owed, Done, now, shadow[Dev])
  BY DEF UncSide
<1>2. owed = <<>> /\ unc_req = <<>> /\ unc_resp = <<>> /\ ~request_pending_q
  <2>1. Len(owed) = 0 /\ Len(unc_req) + Done = 0 /\ Len(unc_resp) = 0
    BY DEF UncSide, Behind, TagsMatch
  <2>2. unc_req \in Seq(Offers) /\ unc_resp \in Seq(Tags) /\ Done \in 0 .. 1
    BY <1>1 DEF TypeOK, Done
  <2>3. owed = <<>> /\ unc_resp = <<>>
    BY <1>1, <2>1, <2>2
  <2>4. Len(unc_req) = 0 /\ Done = 0
    BY <2>1, <2>2
  <2>5. unc_req = <<>>
    BY <2>2, <2>4
  <2>6. ~request_pending_q
    BY <2>4 DEF Done
  <2> QED BY <2>3, <2>5, <2>6
<1>3. Quiet /\ ~dropped_q /\ now = memory[Dev] /\ shadow[Dev] = now
  <2>1. Quiet /\ ~dropped_q /\ now = memory[Dev]
    BY <1>2 DEF OnBus
  <2>2. Len(<<>>) # 1 /\ Len(<<>>) # 2
    OBVIOUS
  <2>3. shadow[Dev] = now
    BY <1>2, <2>2 DEF Behind
  <2> QED BY <2>1, <2>3
<1>4. ~BusAck
  BY <1>3 DEF Quiet, BusAck, NoRsp
<1>5. core.req.kind = "idle"
  BY DEF UncSide, Fresh, Idle
<1>6. ~UncAck /\ ~MemAck
  BY <1>3, <1>4, <1>5 DEF UncAck, MemAck, CoreAck
<1> QED BY <1>2, <1>3, <1>4, <1>6

\* A cycle in which nothing is under way on either side.
LEMMA IdleStep ==
    ASSUME Inv, UncSide, pending_q = 0, NEW r, NEW slow, NEW dev, NEW respond, Step(r, slow, dev, respond)
    PROVE  CoreOK' /\ (CoreSide' \/ UncSide')
<1>1. TypeOK /\ owed \in Seq(Answers) /\ r \in Offers /\ slow \in BOOLEAN /\ Mux(r, slow) /\ Uncached(r, slow)
      /\ History(r, slow) /\ Core(r, slow) /\ Bus(r, dev, respond) /\ dev \in Devs /\ respond \in BOOLEAN
  BY DEF Inv, Step, Cycle, Bus
<1>2. owed = <<>> /\ unc_req = <<>> /\ unc_resp = <<>> /\ ~request_pending_q
  BY IdleState
<1> PICK now : now = memory[Dev]
  OBVIOUS
<1>3. Quiet /\ ~dropped_q /\ now = memory[Dev] /\ shadow[Dev] = now /\ ~UncAck /\ ~MemAck /\ now \in Word
  <2>1. Dev \in Place
    BY DEF Place, Dev
  <2>2. memory[Dev] \in Word
    BY <1>1, <2>1 DEF TypeOK
  <2>3. Quiet /\ ~dropped_q /\ ~UncAck /\ ~MemAck /\ shadow[Dev] = memory[Dev]
    BY IdleState
  <2> QED BY <2>2, <2>3
<1>4. memory = shadow
  <2>1. memory \in [Place -> Word] /\ shadow \in [Place -> Word] /\ Device \notin Lines
    BY <1>1, InputAssumption DEF TypeOK
  <2>2. ASSUME NEW p \in Place PROVE memory[p] = shadow[p]
    <3>1. CASE p[1] = Device
      <4>1. p = Dev
        BY <2>1, <3>1 DEF Place, Dev
      <4> QED BY <1>3, <4>1
    <3>2. CASE p[1] # Device
      BY <3>2 DEF UncSide, SameBut
    <3> QED BY <3>1, <3>2
  <2> QED BY <2>1, <2>2
<1>5. core = Fresh(Idle) /\ core.state = "LOOKUP" /\ core.req.kind = "idle" /\ ~core.rd
  BY DEF UncSide, Fresh, Idle
<1>6. /\ ~UncAck /\ ~MemAck /\ ~UncGo /\ ~UncDrop /\ UncPmem = NoPmem /\ CorePmem = NoPmem
      /\ ~UncComplete(r) /\ Pmem(r) = NoPmem /\ ~RefillRequest
  <2>2. ~UncAck /\ ~MemAck
    BY <1>3
  <2>3. ~UncGo /\ ~UncDrop /\ UncPmem = NoPmem /\ ~UncComplete(r)
    BY <1>2 DEF UncGo, UncDrop, UncPmem, UncComplete
  <2>4. ~RefillRequest /\ CorePmem = NoPmem
    BY <1>5 DEF RefillRequest, CorePmem
  <2> QED BY <2>2, <2>3, <2>4 DEF Pmem
<1>7. memory' = memory /\ Quiet'
  <2>1. Free
    BY <1>3 DEF Quiet, Free
  <2> QED BY <1>1, <1>6, <2>1, FreeStep DEF Quiet
<1>8. core' = Fresh(IF Taken(r, slow) /\ Cached(r) THEN r ELSE Idle)
  BY <1>1, <1>5, <1>6 DEF Core, CoreLookup, CoreMiss, CoreEvict, CoreEvictWait, CoreRefill, CoreRead
<1>9. ~request_pending_q' /\ ~dropped_q'
  BY <1>1, <1>2, <1>6 DEF Uncached, RequestPending
<1>10. /\ unc_req' = IF Taken(r, slow) /\ ~Cached(r) THEN Append(<<>>, r) ELSE <<>>
       /\ unc_resp' = IF Taken(r, slow) /\ ~Cached(r) THEN Append(<<>>, r.tag) ELSE <<>>
  BY <1>1, <1>2, <1>6 DEF Uncached, Push, Pop
<1>11. /\ owed' = IF Taken(r, slow) THEN Append(<<>>, Answer(r)) ELSE <<>>
       /\ shadow' = IF Taken(r, slow) THEN After(r) ELSE shadow
  BY <1>1, <1>2, <1>6 DEF History, Pop
<1>12. /\ pending_q' = (IF Taken(r, slow) THEN 1 ELSE 0)
       /\ Taken(r, slow) => (cache_access_q' <=> Cached(r)) /\ (select_q' <=> Cached(r)) /\ r.kind # "idle"
  <2>1. ~Busy /\ (0 + 1) % 32 = 1
    BY DEF Busy
  <2>2. pending_q' = (IF Taken(r, slow) THEN 1 ELSE 0)
    <3>1. (Taken(r, slow) = MemAck) <=> ~Taken(r, slow)
      BY <1>6 DEF Taken, MemAck, CoreAck, UncAck
    <3> QED BY <1>1, <1>6, <2>1, <3>1 DEF Mux
  <2>3. Taken(r, slow) => (cache_access_q' <=> Cached(r)) /\ (select_q' <=> Cached(r)) /\ r.kind # "idle"
    BY <1>1, <2>1 DEF Mux, Select, Taken
  <2> QED BY <2>2, <2>3
<1>13. CASE Taken(r, slow) /\ Cached(r)
  <2>1. CoreHolds'
    BY <1>9, <1>10, <1>12, <1>13 DEF CoreHolds
  <2>2. owed' = <<Answer(r)>> /\ shadow' = After(r) /\ core' = Fresh(r) /\ r.kind # "idle"
    BY <1>8, <1>11, <1>12, <1>13
  <2> QED BY <1>1, <1>4, <1>7, <1>13, <2>1, <2>2, CoreTakes
<1>14. CASE ~(Taken(r, slow) /\ Cached(r))
  <2> PICK taken \in BOOLEAN : taken <=> Taken(r, slow)
    BY DEF Taken
  <2>1. taken => ~Cached(r) /\ r.kind # "idle"
    BY <1>12, <1>14
  <2> DEFINE q == <<>>
  <2>2. /\ q \in Seq(Offers) /\ q \in Seq(Singles) /\ q \in Seq(Answers) /\ q \in Seq(Tags)
        /\ Len(q) <= 1 /\ Len(q) = 0
    OBVIOUS
  <2>3. Behind(q, q, 0, now, shadow[Dev]) /\ TagsMatch(q, q)
    BY <1>3 DEF Behind, TagsMatch
  <2>4. /\ unc_req' = IF taken THEN Append(q, r) ELSE q
        /\ unc_resp' = IF taken THEN Append(q, r.tag) ELSE q
        /\ owed' = IF taken THEN Append(q, Answer(r)) ELSE q
        /\ shadow' = IF taken THEN After(r) ELSE shadow
    BY <1>10, <1>11, <2>1
  <2>5. Answer(r) \in Answers
    BY <1>1, HistoryTypes
  <2> HIDE DEF q
  <2> PICK z : z = 0
    OBVIOUS
  <2>7. z \in 0 .. 1 /\ Behind(q, q, z, now, shadow[Dev])
    BY <2>3
  <2>8. /\ Behind(unc_req', owed', z, now, shadow'[Dev]) /\ TagsMatch(owed', unc_resp')
        /\ unc_req' \in Seq(Singles)
        /\ Len(owed') = IF taken THEN Len(q) + 1 ELSE Len(q)
        /\ \A p \in Place : p[1] # Device => shadow'[p] = shadow[p]
    BY <1>1, <2>1, <2>2, <2>3, <2>4, <2>5, <2>7, BridgeTakes
  <2>9. pending_q' = Len(owed') /\ pending_q' <= 2
    <3>1. pending_q' = IF taken THEN 1 ELSE 0
      BY <1>12
    <3> QED BY <2>2, <2>8, <3>1
  <2>10. pending_q' # 0 => ~cache_access_q' /\ ~select_q'
    BY <1>12, <2>1
  <2>11. core' = Fresh(Idle)
    BY <1>8, <1>14
  <2>12. SameBut(Device)'
    BY <1>4, <1>7, <2>8 DEF SameBut
  <2>13. Done' = 0
    BY <1>9 DEF Done
  <2>15. UncSide'
    <3>1. OnBus(now, owed[1].words)'
      BY <1>3, <1>7, <1>9 DEF OnBus
    <3>2. Behind(unc_req', owed', Done', now, shadow'[Dev])
      BY <2>8, <2>13
    <3> QED BY <1>3, <2>8, <2>9, <2>10, <2>11, <2>12, <3>1, <3>2 DEF UncSide
  <2>16. CoreOK'
    <3>1. <<>> \in Seq(Word) /\ 0 \in 0 .. NumWords
      BY SizeAssumption
    <3> QED BY <2>11, <3>1 DEF CoreOK, Fresh
  <2> QED BY <2>15, <2>16
<1> QED BY <1>13, <1>14

\* The wires while the bridge has requests: the outport is its own, the core is idle.
LEMMA BridgeFrame ==
    ASSUME Inv, UncSide, pending_q # 0, NEW r, NEW slow, NEW dev, NEW respond, Step(r, slow, dev, respond)
    PROVE  /\ Pmem(r) = UncPmem /\ (UncAck <=> dropped_q \/ BusAck) /\ (MemAck <=> UncAck)
           /\ (UncComplete(r) <=> UncGo /\ (UncDrop \/ PmemAccept))
           /\ Taken(r, slow) => ~Cached(r) /\ r.kind # "idle" /\ UncAccept
           /\ core' = Fresh(Idle) /\ ~cache_access_q' /\ ~select_q'
<1>1. r \in Offers /\ slow \in BOOLEAN /\ Mux(r, slow) /\ Uncached(r, slow) /\ Core(r, slow)
      /\ ~cache_access_q /\ ~select_q /\ core = Fresh(Idle) /\ TypeOK
  BY DEF Inv, Step, Cycle, UncSide
<1>2. Busy /\ ~Select(r) /\ (Hold(r) <=> Cached(r))
  BY <1>1 DEF Busy, Select, Hold, Cached, TypeOK
<1>3. Pmem(r) = UncPmem /\ (UncAck <=> dropped_q \/ BusAck) /\ (MemAck <=> UncAck)
  BY <1>1, <1>2 DEF Pmem, UncAck, MemAck
<1>4. Taken(r, slow) => ~Cached(r) /\ r.kind # "idle" /\ UncAccept
  BY <1>2 DEF Taken
<1>5. core.state = "LOOKUP" /\ core.req.kind = "idle" /\ ~core.rd
  BY <1>1 DEF Fresh, Idle
<1>6. core' = Fresh(Idle)
  <2>1. ~RefillRequest
    BY <1>5 DEF RefillRequest
  <2> QED BY <1>1, <1>4, <1>5, <2>1
          DEF Core, CoreLookup, CoreMiss, CoreEvict, CoreEvictWait, CoreRefill, CoreRead
<1>7. UncComplete(r) <=> UncGo /\ (UncDrop \/ PmemAccept)
  <2>1. UncPmem # NoPmem <=> UncGo /\ ~UncDrop
    BY DEF UncPmem, NoPmem
  <2>2. UncDrop => UncGo
    BY DEF UncDrop
  <2> QED BY <1>2, <2>1, <2>2 DEF UncComplete
<1>8. ~cache_access_q' /\ ~select_q'
  BY <1>1, <1>2, <1>4 DEF Mux
<1> QED BY <1>3, <1>4, <1>6, <1>7, <1>8

\* The queue and the answers before the cycle, the oldest answer of w.
LEMMA BridgeState ==
    ASSUME Inv, UncSide, pending_q # 0, NEW now, OnBus(now, owed[1].words),
           Behind(unc_req, owed, Done, now, shadow[Dev])
    PROVE  /\ unc_req = <<>> => request_pending_q
           /\ dropped_q \/ BusAck => /\ request_pending_q /\ Free /\ now = memory[Dev]
                                     /\ owed[1].words = <<>> \/ owed[1].words = <<rsp.word>>
                                     /\ BusAck => rsp.place[1] = Device
           /\ ~request_pending_q => Free /\ now = memory[Dev] /\ ~dropped_q /\ ~BusAck
<1>1. TypeOK /\ owed \in Seq(Answers) /\ Len(owed) # 0 /\ axi_req \in Seq(Requests)
  <2>1. TypeOK /\ owed \in Seq(Answers) /\ Len(owed) # 0
    BY DEF Inv, UncSide
  <2> QED BY <2>1, WireTypes
<1>2. unc_req = <<>> => request_pending_q
  <2>1. Len(<<>>) = 0 /\ 0 + 0 = 0
    OBVIOUS
  <2> QED BY <1>1, <2>1 DEF Behind, Done
<1>3. ~request_pending_q => Free /\ now = memory[Dev] /\ ~dropped_q /\ ~BusAck
  BY DEF OnBus, Quiet, Free, BusAck, NoRsp
<1>4. CASE dropped_q
  <2>1. Quiet /\ now = memory[Dev] /\ request_pending_q /\ owed[1].words = <<>>
    BY <1>4 DEF OnBus
  <2>2. Free /\ ~BusAck
    BY <2>1 DEF Quiet, Free, BusAck, NoRsp
  <2> QED BY <1>2, <1>3, <2>1, <2>2
<1>5. CASE ~dropped_q /\ BusAck
  <2>1. ~Quiet
    BY <1>5 DEF Quiet, BusAck, NoRsp
  <2>2. CASE Reading(Device, 1, 0) /\ now = memory[Dev] /\ owed[1].words = <<now>> /\ request_pending_q
    <3> PICK l, n, got : l = Device /\ n = 1 /\ got = 0
      OBVIOUS
    <3>1. n \in Nat \ {0} /\ got = n - 1
      OBVIOUS
    <3>2. Reading(l, n, got)
      BY <2>2
    <3>3. /\ rsp.word = memory[<<l, got>>] /\ rsp.place[1] = l /\ (got = n - 1 => Free)
      BY <1>5, <3>1, <3>2, ReadEnds
    <3>4. rsp.word = now
      BY <2>2, <3>3 DEF Dev
    <3> QED BY <1>2, <1>3, <2>2, <3>1, <3>3, <3>4
  <2>3. CASE /\ request_pending_q /\ owed[1].words = <<>>
             /\ \E v \in Value : now = <<v, 0>> /\ Storing(Device, 1, v, 1)
    <3> PICK v : now = <<v, 0>> /\ Storing(Device, 1, v, 1)
      BY <2>3
    <3> PICK l, n, s : l = Device /\ n = 1 /\ s = 1
      OBVIOUS
    <3>1. n \in 1 .. 255 /\ 0 \in 0 .. n - 1
      OBVIOUS
    <3>2. Storing(l, n, v, s)
      OBVIOUS
    <3>3. Free /\ (\A k \in 0 .. n - 1 : memory[<<l, k>>] = <<v, k>>) /\ rsp.place[1] = l
      BY <1>1, <1>5, <3>1, <3>2, WriteEnds
    <3>4. now = memory[Dev]
      BY <3>1, <3>3 DEF Dev
    <3> QED BY <1>2, <1>3, <2>3, <3>3, <3>4
  <2> QED BY <2>1, <2>2, <2>3 DEF OnBus
<1> QED BY <1>2, <1>3, <1>4, <1>5

\* The oldest request is on the bus still.
LEMMA BridgeWaits ==
    ASSUME Inv, UncSide, pending_q # 0, NEW now, OnBus(now, owed[1].words), request_pending_q, ~dropped_q,
           ~BusAck, NEW r, NEW dev, NEW respond, dev \in Devs, respond \in BOOLEAN,
           Bus(r, dev, respond), Pmem(r) = NoPmem, request_pending_q', ~dropped_q'
    PROVE  /\ \A w : w = owed[1].words => OnBus(now, w)'
           /\ \A p \in Place : p[1] # Device => memory'[p] = memory[p]
<1>1. TypeOK /\ axi_req \in Seq(Requests) /\ memory \in [Place -> Word]
  <2>1. TypeOK
    BY DEF Inv
  <2> QED BY <2>1, WireTypes DEF TypeOK
<1>2. CASE Reading(Device, 1, 0) /\ now = memory[Dev] /\ owed[1].words = <<now>>
  <2> PICK l, n, got : l = Device /\ n = 1 /\ got = 0
    OBVIOUS
  <2>1. n \in Nat \ {0}
    OBVIOUS
  <2>2. Reading(l, n, got)
    BY <1>2
  <2>3. memory' = memory /\ Reading(l, n, got)'
    BY <1>1, <2>1, <2>2, ReadStep
  <2> QED BY <1>2, <2>3 DEF OnBus
<1>3. CASE \E v \in Value : now = <<v, 0>> /\ Storing(Device, 1, v, 1) /\ owed[1].words = <<>>
  <2> PICK v \in Value : now = <<v, 0>> /\ Storing(Device, 1, v, 1)
    BY <1>3
  <2> PICK l, n, s : l = Device /\ n = 1 /\ s = 1
    OBVIOUS
  <2>1. n \in 1 .. 255
    OBVIOUS
  <2>2. Storing(l, n, v, s)
    OBVIOUS
  <2>3. \A k \in 0 .. n - 1 : <<l, k>> \in Place
    BY DEF Place
  <2>4. WriteCycle(Requests, l, n, v, s, s, r, dev, respond)
    BY <1>1, <2>3 DEF WriteCycle
  <2>5. Storing(l, n, v, s)' /\ \A p \in Place : p[1] # l => memory'[p] = memory[p]
    BY <1>1, <2>1, <2>2, <2>4, WriteStep
  <2> QED BY <1>3, <2>5 DEF OnBus
<1> QED BY <1>2, <1>3 DEF OnBus

\* The oldest request goes on, when the bus is free: a drop is done, a load or a store
\* is on the bus.
LEMMA BridgeGoes ==
    ASSUME TypeOK, Free, NEW r, NEW dev, NEW respond, dev \in Devs, respond \in BOOLEAN,
           Bus(r, dev, respond), Pmem(r) = UncPmem, UncGo, NEW h, h = unc_req[1], h \in Offers, ~Cached(h),
           h.kind # "idle", request_pending_q', dropped_q' <=> UncDrop
    PROVE  /\ \A now : now = memory[Dev] => OnBus(DeviceAfter(h, now), WordsFor(h, now))'
           /\ memory' = memory
<1>1. Head(unc_req) = h
  OBVIOUS
<1>2. /\ memory' = memory /\ txns' = <<>> /\ rsp' = NoRsp /\ resp_outstanding_q' = 0 /\ NoWrite'
      /\ axi_req' = IF Pmem(r) = NoPmem THEN <<>> ELSE <<Pmem(r)>>
  BY FreeStep
<1>3. h.kind \in {"load", "store", "drop"} /\ h.value \in Value
  BY OfferTypes
<1>4. UncDrop <=> h.kind = "drop"
  BY <1>1 DEF UncDrop
<1>5. CASE h.kind = "drop"
  <2>1. Pmem(r) = NoPmem
    BY <1>4, <1>5 DEF UncPmem
  <2>2. Quiet'
    BY <1>2, <2>1 DEF Quiet
  <2>3. \A now : DeviceAfter(h, now) = now /\ WordsFor(h, now) = <<>>
    BY <1>5 DEF DeviceAfter, WordsFor
  <2> QED BY <1>2, <1>4, <1>5, <2>2, <2>3 DEF OnBus
<1>6. CASE h.kind = "load"
  <2> DEFINE q == [op |-> "rd", len |-> 0, place |-> <<Device, 0>>, word |-> <<h.value, 0>>]
  <2>1. Pmem(r) = q /\ q # NoPmem
    BY <1>1, <1>4, <1>6 DEF UncPmem, NoPmem
  <2>2. axi_req' = <<q>> /\ q.op = "rd" /\ q.len = 1 - 1 /\ q.place = <<Device, 0>>
    BY <1>2, <2>1
  <2> HIDE DEF q
  <2>3. Len(axi_req') = 1 /\ axi_req'[1] = q /\ 0 \in 0 .. 1 - 1
    BY <2>2
  <2>4. Reading(Device, 1, 0)'
    BY <1>2, <2>2, <2>3 DEF Reading
  <2>5. \A now : DeviceAfter(h, now) = now /\ WordsFor(h, now) = <<now>>
    BY <1>6 DEF DeviceAfter, WordsFor
  <2> QED BY <1>2, <1>4, <1>6, <2>4, <2>5 DEF OnBus
<1>7. CASE h.kind = "store"
  <2> DEFINE q == [op |-> "wr", len |-> 0, place |-> <<Device, 0>>, word |-> <<h.value, 0>>]
  <2>1. Pmem(r) = q /\ q # NoPmem
    BY <1>1, <1>4, <1>7 DEF UncPmem, NoPmem
  <2>2. axi_req' = <<q>> /\ q = WriteReq(Device, 1, h.value, 0)
    BY <1>2, <2>1 DEF WriteReq
  <2> HIDE DEF q
  <2>3. Len(axi_req') = 1 - 0 /\ \A i \in 1 .. 1 - 0 : axi_req'[i] = WriteReq(Device, 1, h.value, 0 + i - 1)
    <3>1. axi_req'[1] = WriteReq(Device, 1, h.value, 0 + 1 - 1)
      BY <2>2
    <3> QED BY <2>2, <3>1
  <2>4. WriteAt(Device, 1, h.value, 1, 0, 0)'
    BY <1>2, <2>3 DEF WriteAt, NoWrite
  <2>5. Storing(Device, 1, h.value, 1)'
    BY <2>4 DEF Storing
  <2>6. \A now : DeviceAfter(h, now) = <<h.value, 0>> /\ WordsFor(h, now) = <<>>
    BY <1>7 DEF DeviceAfter, WordsFor
  <2> QED BY <1>2, <1>3, <1>4, <1>7, <2>5, <2>6 DEF OnBus
<1> QED BY <1>2, <1>3, <1>5, <1>6, <1>7

\* What is left of the queue and of the answers when the bridge has moved, before another
\* request is taken.
BridgeLeft(q, o, t, done, now) ==
    /\ q \in Seq(Offers) /\ q \in Seq(Singles) /\ o \in Seq(Answers) /\ t \in Seq(Tags)
    /\ done \in 0 .. 1 /\ now \in Word
    /\ q = Pop(unc_req, UncGo) /\ o = Pop(owed, UncAck) /\ t = Pop(unc_resp, UncAck)
    /\ Behind(q, o, done, now, shadow[Dev]) /\ TagsMatch(o, t)

\* The bridge's flags after a cycle.
LEMMA BridgeFlags ==
    ASSUME Inv, UncSide, pending_q # 0, NEW r, NEW slow, NEW dev, NEW respond, Step(r, slow, dev, respond),
           NEW now, OnBus(now, owed[1].words), Behind(unc_req, owed, Done, now, shadow[Dev])
    PROVE  /\ UncGo => Free /\ now = memory[Dev] /\ unc_req # <<>> /\ (request_pending_q => UncAck)
           /\ UncAck => request_pending_q /\ Free /\ now = memory[Dev]
           /\ UncComplete(r) <=> UncGo
           /\ request_pending_q' <=> UncGo \/ ~UncAck
           /\ dropped_q' <=> UncDrop
           /\ ~UncGo /\ UncAck => unc_req = <<>>
           /\ ~UncGo /\ ~UncAck => request_pending_q /\ ~dropped_q /\ ~BusAck
<1>1. /\ unc_req = <<>> => request_pending_q
      /\ dropped_q \/ BusAck => request_pending_q /\ Free /\ now = memory[Dev]
      /\ ~request_pending_q => Free /\ now = memory[Dev] /\ ~dropped_q /\ ~BusAck
  BY BridgeState
<1>2. /\ UncAck <=> dropped_q \/ BusAck
      /\ UncComplete(r) <=> UncGo /\ (UncDrop \/ PmemAccept)
  BY BridgeFrame
<1>3. UncGo <=> unc_req # <<>> /\ (request_pending_q => UncAck)
  BY DEF UncGo, InProgress
<1>4. UncGo => Free /\ now = memory[Dev]
  BY <1>1, <1>2, <1>3
<1>5. Free => PmemAccept
  BY DEF Free, PmemAccept
<1>6. UncComplete(r) <=> UncGo
  BY <1>2, <1>4, <1>5
<1>7. /\ request_pending_q' <=> UncComplete(r) \/ (request_pending_q /\ ~UncAck)
      /\ dropped_q' <=> UncDrop
  BY DEF Step, Cycle, Uncached, RequestPending
<1>8. ~UncGo /\ ~UncAck => request_pending_q
  BY <1>1, <1>3
<1> QED BY <1>1, <1>2, <1>3, <1>4, <1>6, <1>7, <1>8

\* One cycle of the bridge: the oldest request is answered or not, the next goes on or not.
LEMMA BridgeMoves ==
    ASSUME Inv, UncSide, pending_q # 0, NEW r, NEW slow, NEW dev, NEW respond, Step(r, slow, dev, respond)
    PROVE  \E q, o, t, done, now :
              /\ BridgeLeft(q, o, t, done, now) /\ done = Done'
              /\ \A w : (o # <<>> => w = o[1].words) => OnBus(now, w)'
              /\ \A p \in Place : p[1] # Device => memory'[p] = memory[p]
<1>1. /\ TypeOK /\ owed \in Seq(Answers) /\ unc_req \in Seq(Offers) /\ unc_resp \in Seq(Tags)
      /\ unc_req \in Seq(Singles) /\ TagsMatch(owed, unc_resp)
      /\ dev \in Devs /\ respond \in BOOLEAN /\ Bus(r, dev, respond)
  BY DEF Inv, UncSide, Step, Cycle, Bus, TypeOK
<1> PICK now \in Word : OnBus(now, owed[1].words) /\ Behind(unc_req, owed, Done, now, shadow[Dev])
  BY DEF UncSide
<1>2. /\ UncGo => Free /\ now = memory[Dev] /\ unc_req # <<>> /\ (request_pending_q => UncAck)
      /\ UncAck => request_pending_q /\ Free /\ now = memory[Dev]
      /\ UncComplete(r) <=> UncGo
      /\ request_pending_q' <=> UncGo \/ ~UncAck
      /\ dropped_q' <=> UncDrop
      /\ ~UncGo /\ UncAck => unc_req = <<>>
      /\ ~UncGo /\ ~UncAck => request_pending_q /\ ~dropped_q /\ ~BusAck
  BY BridgeFlags
<1>3. Pmem(r) = UncPmem
  BY BridgeFrame
<1>4. ~UncGo => Pmem(r) = NoPmem /\ ~UncDrop
  BY <1>3 DEF UncPmem, UncDrop
<1> PICK end : end = shadow[Dev]
  OBVIOUS
<1>5. CASE ~UncGo /\ ~UncAck
  <2>1. Done = 1 /\ Done' = 1
    BY <1>2, <1>5 DEF Done
  <2>2. owed # <<>>
    <3>1. Len(unc_req) + 1 = Len(owed) /\ Len(unc_req) \in Nat
      BY <1>1, <2>1 DEF Behind
    <3> QED BY <3>1
  <2>3. BridgeLeft(unc_req, owed, unc_resp, 1, now)
    BY <1>1, <1>5, <2>1 DEF BridgeLeft, Pop
  <2>4. /\ \A w : w = owed[1].words => OnBus(now, w)'
        /\ \A p \in Place : p[1] # Device => memory'[p] = memory[p]
    BY <1>1, <1>2, <1>4, <1>5, BridgeWaits
  <2>5. \A w : (owed # <<>> => w = owed[1].words) => OnBus(now, w)'
    BY <2>2, <2>4
  <2> QED BY <2>1, <2>3, <2>4, <2>5
\* The answers left after an acknowledge.
<1>6. ASSUME UncAck
      PROVE  \E o, t : /\ o \in Seq(Answers) /\ t \in Seq(Tags) /\ o = Pop(owed, UncAck)
                       /\ t = Pop(unc_resp, UncAck) /\ TagsMatch(o, t) /\ Behind(unc_req, o, 0, now, end)
  <2>1. Done = 1
    BY <1>2, <1>6 DEF Done
  <2>2. Behind(unc_req, owed, 1, now, end)
    BY <2>1
  <2>3. Behind(unc_req, Tail(owed), 0, now, end) /\ owed # <<>>
    BY <1>1, <2>2, BehindAck
  <2>4. TagsMatch(Tail(owed), Tail(unc_resp)) /\ unc_resp # <<>>
    BY <1>1, <2>3, TagsPop
  <2>5. Tail(owed) \in Seq(Answers) /\ Tail(unc_resp) \in Seq(Tags)
    BY <1>1, <2>3, <2>4
  <2>6. Pop(owed, UncAck) = Tail(owed) /\ Pop(unc_resp, UncAck) = Tail(unc_resp)
    BY <1>6, <2>3, <2>4 DEF Pop
  <2> QED BY <2>3, <2>4, <2>5, <2>6
<1>7. CASE ~UncGo /\ UncAck
  <2> PICK o, t : /\ o \in Seq(Answers) /\ t \in Seq(Tags) /\ o = Pop(owed, UncAck)
                  /\ t = Pop(unc_resp, UncAck) /\ TagsMatch(o, t) /\ Behind(unc_req, o, 0, now, end)
    BY <1>6, <1>7
  <2>1. BridgeLeft(unc_req, o, t, 0, now)
    BY <1>1, <1>7 DEF BridgeLeft, Pop
  <2>2. memory' = memory /\ Quiet'
    BY <1>1, <1>2, <1>4, <1>7, FreeStep DEF Quiet
  <2>3. ~request_pending_q' /\ ~dropped_q' /\ Done' = 0
    BY <1>2, <1>4, <1>7 DEF Done
  <2>4. \A w : OnBus(now, w)'
    BY <1>2, <1>7, <2>2, <2>3 DEF OnBus
  <2> QED BY <2>1, <2>2, <2>3, <2>4
<1>8. CASE UncGo
  <2>1. \E o, t : /\ o \in Seq(Answers) /\ t \in Seq(Tags) /\ o = Pop(owed, UncAck)
                  /\ t = Pop(unc_resp, UncAck) /\ TagsMatch(o, t) /\ Behind(unc_req, o, 0, now, end)
    <3>1. CASE UncAck
      BY <1>6, <3>1
    <3>2. CASE ~UncAck
      <4>1. Done = 0
        BY <1>2, <1>8, <3>2 DEF Done
      <4>2. Behind(unc_req, owed, 0, now, end)
        BY <4>1
      <4> QED BY <1>1, <3>2, <4>2 DEF Pop
    <3> QED BY <3>1, <3>2
  <2> PICK o, t : /\ o \in Seq(Answers) /\ t \in Seq(Tags) /\ o = Pop(owed, UncAck)
                  /\ t = Pop(unc_resp, UncAck) /\ TagsMatch(o, t) /\ Behind(unc_req, o, 0, now, end)
    BY <2>1
  <2> PICK h : h = unc_req[1]
    OBVIOUS
  <2>2. o[1].words = WordsFor(h, now) /\ Behind(Tail(unc_req), o, 1, DeviceAfter(h, now), end) /\ o # <<>>
    BY <1>1, <1>2, <1>8, BehindPop
  <2>3. /\ Tail(unc_req) \in Seq(Offers) /\ Tail(unc_req) \in Seq(Singles)
        /\ Pop(unc_req, UncGo) = Tail(unc_req) /\ h \in Offers
    BY <1>1, <1>2, <1>8 DEF Pop
  <2>4. h.kind # "idle" /\ ~Cached(h)
    <3>1. h \in Singles
      BY <1>1, <1>2, <1>8
    <3> QED BY <3>1, OfferTypes DEF Singles, Cached
  <2>5. DeviceAfter(h, now) \in Word
    <3>1. h.value \in Value /\ 0 \in Words
      BY <2>3, OfferTypes, SizeAssumption DEF Words
    <3> QED BY <3>1 DEF DeviceAfter, Word
  <2>6. BridgeLeft(Tail(unc_req), o, t, 1, DeviceAfter(h, now))
    BY <2>2, <2>3, <2>5 DEF BridgeLeft
  <2>7. request_pending_q' /\ Done' = 1
    BY <1>2, <1>8 DEF Done
  <2>8. OnBus(DeviceAfter(h, now), WordsFor(h, now))' /\ memory' = memory
    BY <1>1, <1>2, <1>3, <1>8, <2>3, <2>4, <2>7, BridgeGoes
  <2> QED BY <2>2, <2>6, <2>7, <2>8
<1> QED BY <1>5, <1>7, <1>8

\* The pending count of dcache_mux, five bits wide.
LEMMA PendingCount ==
    ASSUME NEW n \in Nat, n = 1 \/ n = 2, NEW ack \in BOOLEAN, NEW taken \in BOOLEAN, taken => n = 1,
           NEW m, m = IF taken <=> ack THEN n ELSE IF ack THEN (n + 31) % 32 ELSE (n + 1) % 32
    PROVE  m = (IF ack THEN n - 1 ELSE n) + (IF taken THEN 1 ELSE 0) /\ m \in 0 .. 2
<1>1. (1 + 31) % 32 = 0 /\ (2 + 31) % 32 = 1 /\ (1 + 1) % 32 = 2
  OBVIOUS
<1> QED BY <1>1

\* A cycle of the bridge's side while answers are due.
LEMMA BridgeStep ==
    ASSUME Inv, UncSide, pending_q # 0, NEW r, NEW slow, NEW dev, NEW respond, Step(r, slow, dev, respond)
    PROVE  CoreOK' /\ UncSide'
<1>1. /\ TypeOK /\ owed \in Seq(Answers) /\ unc_req \in Seq(Offers) /\ unc_resp \in Seq(Tags)
      /\ r \in Offers /\ slow \in BOOLEAN /\ Mux(r, slow) /\ Uncached(r, slow) /\ History(r, slow)
      /\ pending_q = Len(owed) /\ Len(unc_resp) = Len(owed) /\ SameBut(Device)
  BY DEF Inv, UncSide, Step, Cycle, TypeOK, TagsMatch
<1>q. PICK q, o, t, done, now :
        /\ BridgeLeft(q, o, t, done, now) /\ done = Done'
        /\ \A w : (o # <<>> => w = o[1].words) => OnBus(now, w)'
        /\ \A p \in Place : p[1] # Device => memory'[p] = memory[p]
  BY BridgeMoves
<1>2. /\ (MemAck <=> UncAck)
      /\ Taken(r, slow) => ~Cached(r) /\ r.kind # "idle" /\ UncAccept
      /\ core' = Fresh(Idle) /\ ~cache_access_q' /\ ~select_q'
  BY BridgeFrame
<1>3. UncComplete(r) <=> UncGo
  <2> PICK now1 \in Word : OnBus(now1, owed[1].words) /\ Behind(unc_req, owed, Done, now1, shadow[Dev])
    BY DEF UncSide
  <2> QED BY BridgeFlags
<1>t. PICK taken \in BOOLEAN : taken <=> Taken(r, slow)
  BY DEF Taken
<1>a. PICK ack \in BOOLEAN : ack <=> UncAck
  BY DEF UncAck
<1>4. /\ q \in Seq(Offers) /\ q \in Seq(Singles) /\ o \in Seq(Answers) /\ t \in Seq(Tags)
      /\ done \in 0 .. 1 /\ now \in Word
      /\ q = Pop(unc_req, UncGo) /\ o = Pop(owed, UncAck) /\ t = Pop(unc_resp, UncAck)
      /\ Behind(q, o, done, now, shadow[Dev]) /\ TagsMatch(o, t)
  BY <1>q DEF BridgeLeft
<1>5. unc_req' = IF taken THEN Append(q, r) ELSE q
  <2>1. Pop(unc_req, UncComplete(r)) = q
    BY <1>3, <1>4 DEF Pop
  <2>2. unc_req' = Push(Pop(unc_req, UncComplete(r)), Taken(r, slow) /\ ~Cached(r), r)
    BY <1>1 DEF Uncached
  <2> QED BY <1>2, <1>t, <2>1, <2>2 DEF Push
<1>6. unc_resp' = IF taken THEN Append(t, r.tag) ELSE t
  <2>1. unc_resp' = Push(Pop(unc_resp, UncAck), Taken(r, slow) /\ ~Cached(r), r.tag)
    BY <1>1 DEF Uncached
  <2> QED BY <1>2, <1>4, <1>t, <2>1 DEF Push
<1>7. /\ owed' = IF taken THEN Append(o, Answer(r)) ELSE o
      /\ shadow' = IF taken THEN After(r) ELSE shadow
  <2>1. Pop(owed, MemAck) = o
    BY <1>2, <1>4 DEF Pop
  <2> QED BY <1>1, <1>t, <2>1 DEF History
<1>8. taken => Len(owed) # 2 /\ Len(unc_req) # 2 /\ ~Cached(r) /\ r.kind # "idle"
  BY <1>1, <1>2, <1>t DEF UncAccept
<1>9. taken => Len(q) <= 1
  <2>1. Len(unc_req) <= 2 /\ Len(unc_req) \in Nat
    BY <1>1 DEF TypeOK
  <2>4. taken => Len(unc_req) <= 1
    <3> PICK z \in Nat : z = Len(unc_req)
      BY <2>1
    <3>1. z <= 2 /\ (taken => z # 2)
      BY <1>8, <2>1
    <3>2. taken => z <= 1
      BY <3>1
    <3> QED BY <3>2
  <2>2. CASE q = unc_req
    BY <2>2, <2>4
  <2>3. CASE unc_req # <<>> /\ q = Tail(unc_req)
    <3>1. Len(q) = Len(unc_req) - 1
      BY <1>1, <2>3
    <3> QED BY <2>1, <3>1
  <2> QED BY <1>4, <2>2, <2>3 DEF Pop
<1>10. Answer(r) \in Answers
  BY <1>1, HistoryTypes
<1>11. /\ Behind(unc_req', owed', done, now, shadow'[Dev]) /\ TagsMatch(owed', unc_resp')
       /\ unc_req' \in Seq(Singles)
       /\ Len(owed') = IF taken THEN Len(o) + 1 ELSE Len(o)
       /\ o # <<>> => owed'[1] = o[1]
       /\ \A p \in Place : p[1] # Device => shadow'[p] = shadow[p]
  BY <1>1, <1>4, <1>5, <1>6, <1>7, <1>8, <1>9, <1>10, BridgeTakes
<1>12. pending_q' = Len(owed') /\ pending_q' <= 2
  <2>n. PICK n \in Nat : n = Len(owed)
    BY <1>1
  <2>m. PICK m : m = pending_q'
    OBVIOUS
  <2>1. pending_q = n /\ (n = 1 \/ n = 2) /\ (taken => n = 1)
    <3>1. n <= 2 /\ n # 0
      BY <1>1, <2>n DEF UncSide
    <3> QED BY <1>1, <1>8, <2>n, <3>1
  <2>2. m = IF taken <=> ack THEN n ELSE IF ack THEN (n + 31) % 32 ELSE (n + 1) % 32
    <3>1. (Taken(r, slow) = MemAck) <=> (taken <=> ack)
      BY <1>2, <1>a, <1>t DEF Taken, MemAck, CoreAck, UncAck
    <3> QED BY <1>1, <1>2, <1>a, <2>m, <2>1, <3>1 DEF Mux
  <2>3. m = (IF ack THEN n - 1 ELSE n) + (IF taken THEN 1 ELSE 0) /\ m \in 0 .. 2
    BY <2>1, <2>2, PendingCount
  <2>4. Len(o) = IF ack THEN n - 1 ELSE n
    <3>1. owed # <<>> /\ Len(owed) = n
      BY <2>n, <2>1
    <3>2. CASE ack
      <4>1. o = Tail(owed)
        BY <1>4, <1>a, <3>1, <3>2 DEF Pop
      <4> QED BY <1>1, <3>1, <3>2, <4>1
    <3>3. CASE ~ack
      BY <1>4, <1>a, <3>1, <3>3 DEF Pop
    <3> QED BY <3>2, <3>3
  <2>5. Len(owed') = m
    <3>1. Len(owed') = (IF ack THEN n - 1 ELSE n) + (IF taken THEN 1 ELSE 0)
      <4>1. CASE taken
        BY <1>11, <2>4, <4>1
      <4>2. CASE ~taken
        <5>1. n - 1 \in Int /\ n \in Int
          OBVIOUS
        <5> QED BY <1>11, <2>4, <4>2, <5>1
      <4> QED BY <4>1, <4>2
    <3> QED BY <2>3, <3>1
  <2> QED BY <2>m, <2>3, <2>5
<1>13. OnBus(now, owed[1].words)'
  <2> PICK w : w = owed'[1].words
    OBVIOUS
  <2>1. OnBus(now, w)'
    BY <1>q, <1>11
  <2> QED BY <2>1 DEF OnBus
<1>14. SameBut(Device)'
  BY <1>1, <1>q, <1>11 DEF SameBut
<1>15. UncSide'
  <2>1. Behind(unc_req', owed', Done', now, shadow'[Dev])
    BY <1>q, <1>11
  <2> QED BY <1>2, <1>4, <1>11, <1>12, <1>13, <1>14, <2>1 DEF UncSide, Dev
<1>16. CoreOK'
  <2>1. <<>> \in Seq(Word) /\ 0 \in 0 .. NumWords
    BY SizeAssumption
  <2> QED BY <1>2, <2>1 DEF CoreOK, Fresh
<1> QED BY <1>15, <1>16

-----------------------------------------------------------------------------
(* The bus, whoever its user is.                                             *)
\* What holds of the bus whatever is under way on it.
BusOK ==
    /\ WholeBursts /\ Len(txns) <= 1
    /\ BusAck /\ txns # <<>> => rsp.op = "rd" /\ ~rsp.last
    /\ \A dev \in Devs :
          \A t : Writing(Opened(dev)) /\ t = Last(Opened(dev)) => BeatPlace(t) \in Place

\* Nothing that takes write data is open.
LEMMA NoneOpen ==
    ASSUME NEW ts, ts = <<>> \/ \E t : ts = <<t>> /\ t.closed
    PROVE  ~Writing(ts) /\ Len(ts) <= 1
<1>1. CASE ts = <<>>
  BY <1>1 DEF Writing
<1>2. CASE \E t : ts = <<t>> /\ t.closed
  <2> PICK t : ts = <<t>> /\ t.closed
    BY <1>2
  <2>1. Last(ts) = t /\ Len(ts) = 1
    BY DEF Last
  <2> QED BY <2>1 DEF Writing
<1> QED BY <1>1, <1>2

\* A bus with nothing under way.
LEMMA QuietBus ==
    ASSUME Quiet
    PROVE  BusOK /\ ~BusAck
<1>1. ~BusAck /\ ~WValid /\ Len(txns) <= 1
  BY DEF Quiet, NoWrite, BusAck, NoRsp, WValid, NoBuf, IsWrite, CanIssue
<1>2. ASSUME NEW dev \in Devs PROVE ~Writing(Opened(dev))
  <2>1. Opened(dev) = <<>>
    BY DEF Opened, Push, AwFire, ArFire, AwValid, ArValid, IsWrite, IsRead, CanIssue, Quiet
  <2> QED BY <2>1, NoneOpen
<1> QED BY <1>1, <1>2 DEF BusOK, WholeBursts

\* A read under way takes no write data, and answers for its line.
LEMMA ReadBus ==
    ASSUME NEW S, axi_req \in Seq(S), NEW l, NEW n \in Nat \ {0}, NEW got, Reading(l, n, got)
    PROVE  BusOK /\ (BusAck => rsp.place[1] = l)
<1>1. ~WValid /\ ~IsWrite
  <2>1. ~IsWrite
    BY DEF Reading, IsWrite, CanIssue, Req
  <2> QED BY <2>1 DEF WValid, Reading, NoWrite, NoBuf
<1>2. txns = <<>> \/ \E t : txns = <<t>> /\ t.closed
  <2>1. \A b : OpenRead(l, n, b).closed
    BY DEF OpenRead, Transaction
  <2> QED BY <2>1 DEF Reading
<1>3. BusAck => rsp.place[1] = l /\ (txns # <<>> => rsp.op = "rd" /\ ~rsp.last)
  <2> SUFFICES ASSUME BusAck PROVE rsp.place[1] = l /\ (txns # <<>> => rsp.op = "rd" /\ ~rsp.last)
    OBVIOUS
  <2>1. rsp = ReadBeat(l, n, got) /\ txns = IF got = n - 1 THEN <<>> ELSE <<OpenRead(l, n, got + 1)>>
    BY DEF Reading, BusAck, NoRsp
  <2>2. rsp.place[1] = l /\ rsp.op = "rd" /\ (rsp.last <=> got = n - 1)
    BY <2>1 DEF ReadBeat
  <2> QED BY <2>1, <2>2
<1>4. ASSUME NEW dev \in Devs PROVE ~Writing(Opened(dev))
  <2>1. CASE ArFire(dev)
    <3>1. txns = <<>> /\ Req.op = "rd"
      BY <2>1 DEF Reading, ArFire, ArValid, IsRead, CanIssue
    <3> DEFINE t == [op |-> Req.op, place |-> Req.place, len |-> Req.len, beat |-> 0, closed |-> Req.op = "rd"]
    <3>2. Opened(dev) = Append(<<>>, t)
      BY <2>1, <3>1, Zenon DEF Opened, Push
    <3>3. t.closed
      BY <3>1
    <3> HIDE DEF t
    <3>4. Opened(dev) = <<t>>
      BY <3>2
    <3> QED BY <3>3, <3>4, NoneOpen
  <2>2. CASE ~ArFire(dev)
    <3>1. Opened(dev) = txns
      BY <1>1, <2>2 DEF Opened, Push, AwFire, AwValid
    <3> QED BY <1>2, <3>1, NoneOpen
  <2> QED BY <2>1, <2>2
<1>5. Len(txns) <= 1
  BY <1>2, NoneOpen
<1> QED BY <1>1, <1>3, <1>4, <1>5 DEF BusOK, WholeBursts

\* A write under way.
LEMMA WriteBus ==
    ASSUME NEW S, axi_req \in Seq(S), NEW l, NEW n, NEW v, NEW s, n \in 1 .. 255, Storing(l, n, v, s),
           \A k \in 0 .. n - 1 : <<l, k>> \in Place
    PROVE  BusOK /\ (BusAck => rsp.place[1] = l)
<1> PICK a, f : WriteAt(l, n, v, s, a, f)
  BY DEF Storing
<1>0. s \in 0 .. n /\ a \in 0 .. s /\ f \in 0 .. a /\ (f = a \/ (f = 0 /\ a = 1))
  BY DEF WriteAt
<1>1. CASE BusAck
  <2>1. f = n /\ txns = <<>> /\ rsp.place[1] = l
    <3>1. f = n /\ txns = <<>> /\ rsp = [op |-> "wr", place |-> <<l, 0>>, word |-> <<Initial, 0>>]
      BY <1>1 DEF WriteAt, BusAck, NoRsp
    <3> QED BY <3>1
  <2>2. axi_req = <<>> /\ ~buf_q.valid
    <3>1. s = n /\ a = n /\ ~(f < a) /\ s - a = 0
      BY <1>0, <2>1
    <3>2. axi_req = <<>>
      BY <3>1 DEF WriteAt
    <3> QED BY <3>1, <3>2 DEF WriteAt, NoBuf
  <2>3. ~WValid
    BY <2>2 DEF WValid, IsWrite, CanIssue
  <2>4. ASSUME NEW dev \in Devs PROVE ~Writing(Opened(dev))
    <3>1. Opened(dev) = <<>>
      BY <2>1, <2>2 DEF Opened, Push, AwFire, ArFire, AwValid, ArValid, IsWrite, IsRead, CanIssue
    <3> QED BY <3>1, NoneOpen
  <2>5. Len(txns) <= 1
    BY <2>1
  <2> QED BY <2>1, <2>3, <2>4, <2>5 DEF BusOK, WholeBursts
<1>2. CASE ~BusAck
  <2>1. /\ a < s => Req = WriteReq(l, n, v, a)
        /\ (AwValid <=> a = 0 /\ a < s) /\ (WValid <=> f < a \/ a < s)
        /\ WValid => WData = <<v, f>> /\ (WLast <=> f = n - 1) /\ WLast \in BOOLEAN
        /\ rsp = NoRsp
    BY <1>2, WriteWires
  <2>o. PICK open : open = OpenWrite(l, n, f)
    OBVIOUS
  <2>2. txns = IF a = 0 THEN <<>> ELSE <<OpenWrite(l, n, f)>>
    <3>1. rsp # [op |-> "wr", place |-> <<l, 0>>, word |-> <<Initial, 0>>]
      BY <2>1 DEF NoRsp
    <3> QED BY <3>1 DEF WriteAt
  <2>3. /\ Len(<<open>>) = 1 /\ Last(<<open>>) = open
        /\ Writing(<<open>>) <=> f # n
        /\ open.beat = f /\ open.len = n - 1
        /\ BeatPlace(open) = <<l, f>>
    <3>1. open.beat = f /\ open.len = n - 1 /\ open.place = <<l, 0>> /\ (open.closed <=> f = n)
      BY <2>o DEF OpenWrite, Transaction
    <3>2. Len(<<open>>) = 1 /\ Last(<<open>>) = open /\ <<open>> # <<>>
      BY DEF Last
    <3>3. Writing(<<open>>) <=> f # n
      BY <3>1, <3>2 DEF Writing
    <3>4. f \in Nat
      BY <1>0
    <3>5. BeatPlace(open) = <<l, f>>
      BY <3>1, <3>4 DEF BeatPlace
    <3> QED BY <3>1, <3>2, <3>3, <3>5
  <2>4. Len(txns) <= 1
    BY <2>2, <2>3, <2>o
  <2>5. WholeBursts
    <3> SUFFICES ASSUME WValid
                 PROVE  IF AwValid THEN WLast = (Req.len = 0)
                        ELSE Writing(txns) /\ WLast = (Last(txns).beat = Last(txns).len)
      BY DEF WholeBursts
    <3>1. CASE AwValid
      <4>1. a = 0 /\ f = 0 /\ Req.len = n - 1
        BY <1>0, <2>1, <3>1 DEF WriteReq
      <4>2. WLast \in BOOLEAN /\ (WLast <=> Req.len = 0)
        BY <2>1, <4>1
      <4> QED BY <3>1, <4>2
    <3>2. CASE ~AwValid
      <4>1. a # 0 /\ f # n
        BY <1>0, <2>1, <3>2
      <4>2. txns = <<open>>
        BY <2>2, <2>o, <4>1
      <4>3. Writing(txns) /\ Last(txns).beat = f /\ Last(txns).len = n - 1
        BY <2>3, <4>1, <4>2
      <4>4. WLast \in BOOLEAN /\ (WLast <=> Last(txns).beat = Last(txns).len)
        BY <2>1, <4>3
      <4> QED BY <3>2, <4>3, <4>4
    <3> QED BY <3>1, <3>2
  <2>6. ASSUME NEW dev \in Devs, NEW t, Writing(Opened(dev)), t = Last(Opened(dev))
        PROVE  BeatPlace(t) \in Place
    <3>1. /\ (AwFire(dev) <=> (a = 0 /\ a < s /\ dev # "nothing")) /\ ~ArFire(dev)
      BY <1>2, WriteFires
    <3>2. Opened(dev) = <<>> \/ Opened(dev) = <<OpenWrite(l, n, f)>>
      <4>1. CASE AwFire(dev)
        <5>1. a = 0 /\ f = 0 /\ txns = <<>> /\ Req.op = "wr" /\ Req.place = <<l, 0>> /\ Req.len = n - 1
          BY <1>0, <2>1, <2>2, <3>1, <4>1 DEF WriteReq
        <5>2. Opened(dev) = Append(<<>>, Transaction("wr", <<l, 0>>, n - 1, 0, FALSE))
          BY <4>1, <5>1 DEF Opened, Push, Transaction
        <5>3. OpenWrite(l, n, 0) = Transaction("wr", <<l, 0>>, n - 1, 0, FALSE)
          <6>1. (0 = n) = FALSE
            OBVIOUS
          <6> QED BY <6>1 DEF OpenWrite
        <5>4. Append(<<>>, OpenWrite(l, n, 0)) = <<OpenWrite(l, n, 0)>>
          OBVIOUS
        <5> QED BY <5>1, <5>2, <5>3, <5>4
      <4>2. CASE ~AwFire(dev)
        <5>1. Opened(dev) = txns
          BY <3>1, <4>2 DEF Opened, Push
        <5> QED BY <2>2, <5>1
      <4> QED BY <4>1, <4>2
    <3>3. Opened(dev) # <<>>
      BY <2>6 DEF Writing
    <3>4. f \in 0 .. n - 1 /\ t = open
      BY <1>0, <2>3, <2>6, <2>o, <3>2, <3>3
    <3> QED BY <2>3, <3>4
  <2> QED BY <1>2, <2>4, <2>5, <2>6 DEF BusOK
<1> QED BY <1>1, <1>2

\* The bus serves the side that is selected.
LEMMA CoreBus ==
    ASSUME Inv, CoreSide
    PROVE  BusOK /\ (BusAck => select_q /\ rsp.place[1] \in Lines)
<1>1. /\ TypeOK /\ CoreOwes /\ CoreHolds /\ axi_req \in Seq(Requests)
      /\ Looking \/ Missing \/ Leaving \/ Evicting \/ Evicted \/ Refilling \/ Refilled
  <2>1. TypeOK /\ CoreOwes /\ CoreHolds
        /\ (Looking \/ Missing \/ Leaving \/ Evicting \/ Evicted \/ Refilling \/ Refilled)
    BY DEF Inv, CoreSide
  <2> QED BY <2>1, WireTypes
<1>2. CASE Looking \/ Missing \/ Leaving \/ Refilled
  BY <1>2, QuietBus DEF Looking, Missing, Leaving, Refilled
<1>3. CASE Evicting \/ Evicted
  <2> PICK l, v, n : l = core.req.victim /\ v = core.req.value /\ n = NumWords
    OBVIOUS
  <2>1. core.req \in Offers
    BY <1>1, <1>3 DEF Evicting, Evicted, CoreOwes, Kind
  <2>2. l \in Lines
    BY <2>1, OfferTypes
  <2>3. n \in 1 .. 255 /\ \A k \in 0 .. n - 1 : <<l, k>> \in Place
    BY <2>2, SizeAssumption DEF Place, Words
  <2> PICK s : Storing(l, n, v, s)
    BY <1>3 DEF Evicting, Evicted
  <2>4. BusOK /\ (BusAck => rsp.place[1] = l)
    BY <1>1, <2>3, WriteBus
  <2> QED BY <1>1, <2>2, <2>4 DEF CoreHolds
<1>4. CASE Refilling
  <2> PICK l, n, got : l = core.req.line /\ n = NumWords /\ got = Len(core.words)
    OBVIOUS
  <2>1. n \in Nat \ {0} /\ Reading(l, n, got) /\ l \in Lines
    BY <1>1, <1>4, SizeAssumption DEF Refilling, CoreOwes
  <2>2. BusOK /\ (BusAck => rsp.place[1] = l)
    BY <1>1, <2>1, ReadBus
  <2> QED BY <1>1, <2>1, <2>2 DEF CoreHolds
<1> QED BY <1>1, <1>2, <1>3, <1>4

\* The same for the bridge: the answer is the device's.
LEMMA UncBus ==
    ASSUME Inv, UncSide
    PROVE  BusOK /\ (BusAck => ~select_q /\ rsp.place[1] = Device)
<1>1. TypeOK /\ axi_req \in Seq(Requests)
  <2>1. TypeOK
    BY DEF Inv
  <2> QED BY <2>1, WireTypes
<1>2. CASE pending_q = 0
  BY <1>2, IdleState, QuietBus
<1>3. CASE pending_q # 0
  <2> PICK now \in Word : OnBus(now, owed[1].words)
    BY DEF UncSide
  <2>1. ~select_q
    BY <1>3 DEF UncSide
  <2>2. CASE Quiet
    BY <2>2, QuietBus
  <2>3. CASE Reading(Device, 1, 0)
    <3> PICK l, n, got : l = Device /\ n = 1 /\ got = 0
      OBVIOUS
    <3>1. n \in Nat \ {0}
      OBVIOUS
    <3>2. Reading(l, n, got)
      BY <2>3
    <3>3. BusOK /\ (BusAck => rsp.place[1] = l)
      BY <1>1, <3>1, <3>2, ReadBus
    <3> QED BY <2>1, <3>3
  <2>4. CASE \E v : Storing(Device, 1, v, 1)
    <3> PICK v : Storing(Device, 1, v, 1)
      BY <2>4
    <3> PICK l, n, s : l = Device /\ n = 1 /\ s = 1
      OBVIOUS
    <3>1. n \in 1 .. 255 /\ Storing(l, n, v, s) /\ \A k \in 0 .. n - 1 : <<l, k>> \in Place
      BY DEF Place
    <3>2. BusOK /\ (BusAck => rsp.place[1] = l)
      BY <1>1, <3>1, WriteBus
    <3> QED BY <2>1, <3>2
  <2> QED BY <2>2, <2>3, <2>4 DEF OnBus
<1> QED BY <1>2, <1>3

\* Whichever side it is.
LEMMA SideBus ==
    ASSUME Inv
    PROVE  BusOK /\ (BusAck => (select_q <=> rsp.place[1] \in Lines))
<1>1. Device \notin Lines /\ (CoreSide \/ UncSide)
  BY InputAssumption DEF Inv
<1> QED BY <1>1, CoreBus, UncBus

\* What the outport asks for is a word of memory.
LEMMA PmemTypes ==
    ASSUME Inv, NEW r
    PROVE  Pmem(r) # NoPmem => Pmem(r) \in Requests
<1>1. TypeOK /\ (CoreSide \/ UncSide)
  BY DEF Inv
<1>2. 0 \in Words /\ NumWords \in Nat /\ NumWords - 1 \in 0 .. 255 /\ 0 \in 0 .. 255
  BY SizeAssumption DEF Words
<1>3. CASE CoreSide
  <2>1. CoreHolds /\ CoreOwes
    BY <1>3 DEF CoreSide
  <2>2. Pmem(r) = CorePmem
    BY <2>1 DEF Pmem, Select, Busy, CoreHolds
  <2>3. CASE RefillRequest
    <3>1. core.req.kind \in {"refill", "swap"} /\ core.req.line \in Lines
      BY <2>1, <2>3 DEF RefillRequest, CoreOwes
    <3>2. core.req \in Offers
      BY <2>1, <3>1 DEF CoreOwes, Kind
    <3>3. core.req.value \in Value
      BY <3>2, OfferTypes
    <3>4. <<core.req.line, 0>> \in Place /\ <<core.req.value, 0>> \in Word
      BY <1>2, <3>1, <3>3 DEF Place, Word
    <3>5. CorePmem = [op |-> "rd", len |-> NumWords - 1, place |-> <<core.req.line, 0>>,
                      word |-> <<core.req.value, 0>>]
      BY <2>3 DEF CorePmem
    <3> QED BY <1>2, <2>2, <3>4, <3>5 DEF Requests
  <2>4. CASE ~RefillRequest /\ core.state = "EVICT"
    <3>1. Evicting
      BY <1>3, <2>4 DEF CoreSide, Looking, Missing, Leaving, Evicted, Refilling, Refilled
    <3>2. core.req \in Offers /\ core.sent < NumWords
      BY <2>1, <3>1 DEF CoreOwes, Kind, Evicting
    <3>3. core.req.victim \in Lines /\ core.req.value \in Value
      BY <3>2, OfferTypes
    <3>4. core.sent \in Words
      BY <1>1, <1>2, <3>2 DEF TypeOK, Words
    <3>5. <<core.req.victim, core.sent>> \in Place /\ <<core.req.value, core.sent>> \in Word
      BY <3>3, <3>4 DEF Place, Word
    <3>6. (IF core.sent = 0 THEN NumWords - 1 ELSE 0) \in 0 .. 255
      BY <1>2
    <3>7. CorePmem = [op |-> "wr", len |-> IF core.sent = 0 THEN NumWords - 1 ELSE 0,
                      place |-> <<core.req.victim, core.sent>>, word |-> <<core.req.value, core.sent>>]
      BY <2>4 DEF CorePmem
    <3> QED BY <2>2, <3>5, <3>6, <3>7 DEF Requests
  <2>5. CASE ~RefillRequest /\ core.state # "EVICT"
    BY <2>2, <2>5 DEF CorePmem
  <2> QED BY <2>3, <2>4, <2>5
<1>4. CASE UncSide
  <2>1. CorePmem = NoPmem
    <3>1. core.state = "LOOKUP" /\ core.req.kind = "idle" /\ ~core.rd
      BY <1>4 DEF UncSide, Fresh, Idle
    <3> QED BY <3>1 DEF CorePmem, RefillRequest
  <2>2. UncPmem # NoPmem => UncPmem \in Requests
    <3> SUFFICES ASSUME UncPmem # NoPmem PROVE UncPmem \in Requests
      OBVIOUS
    <3> PICK h : h = Head(unc_req)
      OBVIOUS
    <3>1. h \in Offers
      <4>1. unc_req \in Seq(Offers) /\ unc_req # <<>>
        BY <1>1 DEF UncPmem, UncGo, TypeOK
      <4> QED BY <4>1
    <3>2. h.value \in Value
      BY <3>1, OfferTypes
    <3>3. <<Device, 0>> \in Place /\ <<h.value, 0>> \in Word
      BY <1>2, <3>2 DEF Place, Word
    <3>4. UncPmem = [op |-> IF h.kind = "load" THEN "rd" ELSE "wr", len |-> 0,
                     place |-> <<Device, 0>>, word |-> <<h.value, 0>>]
      BY DEF UncPmem
    <3> QED BY <1>2, <3>3, <3>4 DEF Requests
  <2> QED BY <2>1, <2>2 DEF Pmem
<1> QED BY <1>1, <1>3, <1>4

-----------------------------------------------------------------------------
(* The invariant holds.                                                      *)
\* The credit for answers, and the queues, after a cycle.
LEMMA SideTypes ==
    ASSUME CoreSide' \/ UncSide', CoreOK', owed' \in Seq(Answers)
    PROVE  /\ pending_q' \in 0 .. 31 /\ resp_outstanding_q' \in 0 .. 2
           /\ Len(unc_req') <= 2 /\ Len(unc_resp') <= 2
<1>1. CASE CoreSide'
  <2>1. CoreHolds' /\ (Looking' \/ Missing' \/ Leaving' \/ Evicting' \/ Evicted' \/ Refilling' \/ Refilled')
    BY <1>1 DEF CoreSide
  <2>2. CASE Looking' \/ Missing' \/ Leaving' \/ Refilled'
    BY <2>1, <2>2 DEF CoreHolds, Looking, Missing, Leaving, Refilled, Quiet
  <2>3. CASE Evicting' \/ Evicted'
    BY <2>1, <2>3 DEF CoreHolds, Evicting, Evicted, Storing, WriteAt
  <2>4. CASE Refilling'
    BY <2>1, <2>4 DEF CoreHolds, Refilling, Reading
  <2> QED BY <2>1, <2>2, <2>3, <2>4
<1>2. CASE UncSide'
  <2> PICK now, w : OnBus(now, w)' /\ Behind(unc_req', owed', Done', now, shadow'[Dev])
    <3>1. \E now : OnBus(now, owed[1].words)' /\ Behind(unc_req', owed', Done', now, shadow'[Dev])
      BY <1>2 DEF UncSide, Dev
    <3> QED BY <3>1
  <2>1. resp_outstanding_q' \in 0 .. 2
    BY DEF OnBus, Quiet, Reading, Storing, WriteAt
  <2>2. Len(unc_req') + Done' = Len(owed') /\ Len(unc_resp') = Len(owed') /\ pending_q' = Len(owed')
        /\ pending_q' <= 2 /\ Len(owed') \in Nat /\ Done' \in 0 .. 1 /\ unc_req' \in Seq(Singles)
    BY <1>2 DEF UncSide, Behind, TagsMatch, Done
  <2>3. Len(unc_req') <= 2
    <3> PICK a, b, d : a = Len(unc_req') /\ b = Len(owed') /\ d = Done'
      OBVIOUS
    <3>1. a \in Nat /\ b \in Nat /\ d \in 0 .. 1 /\ a + d = b /\ b <= 2
      BY <2>2
    <3>2. a <= 2
      BY <3>1
    <3> QED BY <3>2
  <2>4. pending_q' \in 0 .. 31 /\ Len(unc_resp') <= 2
    <3>b. PICK b : b = Len(owed')
      OBVIOUS
    <3>1. b \in Nat /\ b <= 2 /\ pending_q' = b /\ Len(unc_resp') = b
      BY <2>2, <3>b
    <3>2. b \in 0 .. 31
      BY <3>1
    <3> QED BY <3>1, <3>2
  <2> QED BY <2>1, <2>3, <2>4
<1> QED BY <1>1, <1>2

\* A cycle keeps the invariant.
LEMMA CycleInv ==
    ASSUME Inv, NEW r, NEW slow, NEW dev, NEW respond, Step(r, slow, dev, respond)
    PROVE  Inv'
<1>1. /\ TypeOK /\ owed \in Seq(Answers) /\ r \in Offers /\ slow \in BOOLEAN /\ dev \in Devs
      /\ respond \in BOOLEAN /\ Mux(r, slow) /\ Uncached(r, slow) /\ Bus(r, dev, respond) /\ History(r, slow)
      /\ CoreSide \/ UncSide
  BY DEF Inv, Step, Cycle, Bus
<1>2. CoreOK' /\ (CoreSide' \/ UncSide')
  <2>1. CASE CoreSide
    BY <2>1, CoreSideStep
  <2>2. CASE UncSide /\ pending_q = 0
    BY <2>2, IdleStep
  <2>3. CASE UncSide /\ pending_q # 0
    BY <2>3, BridgeStep
  <2> QED BY <1>1, <2>1, <2>2, <2>3
<1>3. shadow' \in [Place -> Word] /\ owed' \in Seq(Answers)
  BY <1>1, HistoryTypes
<1>4. /\ pending_q' \in 0 .. 31 /\ resp_outstanding_q' \in 0 .. 2
      /\ Len(unc_req') <= 2 /\ Len(unc_resp') <= 2
  BY <1>2, <1>3, SideTypes
<1>5. /\ axi_req' \in Seq(Requests) /\ Len(axi_req') <= 2
      /\ req_cnt_q' \in 0 .. 255 /\ burst_cnt_q' \in 0 .. 255
      /\ {awvalid_inhibit_q', wvalid_inhibit_q'} \subseteq BOOLEAN
      /\ buf_q' \in {NoBuf} \cup [valid : {TRUE}, last : BOOLEAN, word : Word]
      /\ memory' \in [Place -> Word]
  <2>1. Pmem(r) # NoPmem => Pmem(r) \in Requests
    BY PmemTypes
  <2>2. \A t : Writing(Opened(dev)) /\ t = Last(Opened(dev)) => BeatPlace(t) \in Place
    BY <1>1, SideBus DEF BusOK
  <2> QED BY <1>1, <2>1, <2>2, BusTypes
<1>6. {cache_access_q', select_q', request_pending_q', dropped_q'} \subseteq BOOLEAN
  <2>1. cache_access_q' \in BOOLEAN
    BY <1>1 DEF Mux, Cached, TypeOK
  <2>2. select_q' \in BOOLEAN
    BY <1>1 DEF Mux, Select, Cached, TypeOK
  <2>3. request_pending_q' \in BOOLEAN
    BY <1>1 DEF Uncached, RequestPending
  <2>4. dropped_q' \in BOOLEAN
    BY <1>1 DEF Uncached, UncDrop
  <2> QED BY <2>1, <2>2, <2>3, <2>4
<1>7. unc_req' \in Seq(Offers) /\ unc_resp' \in Seq(Tags)
  <2>1. unc_req \in Seq(Offers) /\ unc_resp \in Seq(Tags) /\ r.tag \in Tags
    BY <1>1, OfferTypes DEF TypeOK
  <2>2. Pop(unc_req, UncComplete(r)) \in Seq(Offers) /\ Pop(unc_resp, UncAck) \in Seq(Tags)
    BY <2>1 DEF Pop
  <2>3. /\ unc_req' = Push(Pop(unc_req, UncComplete(r)), Taken(r, slow) /\ ~Cached(r), r)
        /\ unc_resp' = Push(Pop(unc_resp, UncAck), Taken(r, slow) /\ ~Cached(r), r.tag)
    BY <1>1 DEF Uncached
  <2> QED BY <1>1, <2>1, <2>2, <2>3 DEF Push
<1>8. /\ core'.state \in {"LOOKUP", "EVICT", "EVICT_WAIT", "REFILL", "READ"}
      /\ core'.req \in Offers \cup {Idle} \cup {[o EXCEPT !.kind = "hit"] : o \in Offers}
      /\ core'.rd \in BOOLEAN /\ core'.sent \in 0 .. NumWords /\ core'.words \in Seq(Word)
  BY <1>2 DEF CoreOK, Hits
<1>9. TypeOK'
  <2>1. {cache_access_q', select_q'} \subseteq BOOLEAN /\ {request_pending_q', dropped_q'} \subseteq BOOLEAN
    BY <1>6
  <2> QED BY <1>3, <1>4, <1>5, <1>7, <1>8, <2>1 DEF TypeOK, Requests
<1> QED BY <1>2, <1>3, <1>9 DEF Inv

\* At the start nothing is under way.
LEMMA InitInv ==
    ASSUME Init
    PROVE  Inv
<1>1. 0 \in Words /\ 0 \in 0 .. NumWords
  BY SizeAssumption DEF Words
<1>2. memory \in [Place -> Word] /\ shadow = memory
  <2>1. ASSUME NEW p \in Place PROVE <<Initial, p[2]>> \in Word
    <3>1. p[2] \in Words
      BY <1>1 DEF Place
    <3> QED BY <3>1, InputAssumption DEF Word
  <2> QED BY <2>1 DEF Init
<1>3. /\ <<>> \in Seq(Offers) /\ <<>> \in Seq(Tags) /\ <<>> \in Seq(Word) /\ <<>> \in Seq(Requests)
      /\ <<>> \in Seq(Answers) /\ <<>> \in Seq(Singles) /\ Len(<<>>) = 0
  OBVIOUS
<1>4. CoreOK
  BY <1>1, <1>3 DEF Init, CoreOK, Fresh
<1>5. TypeOK
  <2>1. /\ core.state = "LOOKUP" /\ core.req = Idle /\ core.rd = FALSE /\ core.sent = 0 /\ core.words = <<>>
    BY DEF Init, Fresh
  <2>2. 0 \in 0 .. 31 /\ 0 <= 2 /\ 0 \in 0 .. 2 /\ 0 \in 0 .. 255
    OBVIOUS
  <2>3. /\ pending_q = 0 /\ cache_access_q = FALSE /\ select_q = FALSE
        /\ unc_req = <<>> /\ unc_resp = <<>> /\ request_pending_q = FALSE /\ dropped_q = FALSE
        /\ axi_req = <<>> /\ resp_outstanding_q = 0 /\ req_cnt_q = 0
        /\ awvalid_inhibit_q = FALSE /\ wvalid_inhibit_q = FALSE /\ burst_cnt_q = 0 /\ buf_q = NoBuf
    BY DEF Init
  <2>4. axi_req \in Seq([op : {"rd", "wr"}, len : 0 .. 255, place : Place, word : Word]) /\ Len(axi_req) <= 2
    BY <1>3, <2>2, <2>3 DEF Requests
  <2>5. unc_req \in Seq(Offers) /\ unc_resp \in Seq(Tags) /\ Len(unc_req) <= 2 /\ Len(unc_resp) <= 2
    BY <1>3, <2>2, <2>3
  <2> QED BY <1>1, <1>2, <1>3, <2>1, <2>2, <2>3, <2>4, <2>5 DEF TypeOK
<1>6. Quiet
  BY DEF Init, Quiet, NoWrite
<1>7. UncSide
  <2>1. Dev \in Place
    BY DEF Place, Dev
  <2>2. OnBus(memory[Dev], owed[1].words)
    BY <1>6 DEF OnBus, Init
  <2>3. Done = 0
    BY DEF Done, Init
  <2>4. Behind(unc_req, owed, Done, memory[Dev], shadow[Dev])
    BY <1>2, <1>3, <2>3 DEF Behind, Init
  <2>5. TagsMatch(owed, unc_resp)
    BY <1>3 DEF TagsMatch, Init
  <2>6. memory[Dev] \in Word
    BY <1>2, <2>1
  <2>7. /\ unc_req = <<>> /\ pending_q = 0 /\ core = Fresh(Idle) /\ owed = <<>>
    BY DEF Init
  <2>8. pending_q = Len(owed) /\ pending_q <= 2 /\ unc_req \in Seq(Singles)
    BY <1>3, <2>7
  <2> QED BY <1>2, <2>2, <2>4, <2>5, <2>6, <2>7, <2>8 DEF UncSide, SameBut
<1>8. owed \in Seq(Answers)
  BY <1>3 DEF Init
<1> QED BY <1>4, <1>5, <1>7, <1>8 DEF Inv

\* A step of the specification keeps the invariant.
LEMMA NextInv ==
    ASSUME Inv, [Next]_vars
    PROVE  Inv'
<1>1. CASE Next
  <2> PICK r \in Offers, slow \in BOOLEAN, respond \in BOOLEAN, dev \in Devs : Cycle(r, slow, dev, respond)
    BY <1>1 DEF Next
  <2>1. Step(r, slow, dev, respond)
    BY DEF Step
  <2> QED BY <2>1, CycleInv
<1>2. CASE UNCHANGED vars
  <2>1. /\ UNCHANGED <<pending_q, cache_access_q, select_q, unc_req, unc_resp, request_pending_q, dropped_q>>
        /\ UNCHANGED <<core, axi_req, resp_outstanding_q, req_cnt_q>>
        /\ UNCHANGED <<awvalid_inhibit_q, wvalid_inhibit_q, burst_cnt_q, buf_q>>
        /\ UNCHANGED <<txns, rsp, memory, owed, shadow>>
    BY <1>2 DEF vars, muxVars, uncVars, axiVars, widgetVars, slaveVars, history
  <2>2. TypeOK' = TypeOK
    BY <2>1 DEF TypeOK
  <2>3. (CoreOK <=> CoreOK') /\ (CoreHolds <=> CoreHolds') /\ (CoreOwes <=> CoreOwes')
    BY <2>1 DEF CoreOK, CoreHolds, CoreOwes, Kind, SameBut
  <2>4. (Quiet <=> Quiet') /\ \A l, n, v, s, a, f : WriteAt(l, n, v, s, a, f) <=> WriteAt(l, n, v, s, a, f)'
    BY <2>1 DEF Quiet, NoWrite, WriteAt
  <2>5. \A l, n, v, s : Storing(l, n, v, s) <=> Storing(l, n, v, s)'
    BY <2>4 DEF Storing
  <2>6. \A l, n, got : Reading(l, n, got) <=> Reading(l, n, got)'
    BY <2>1 DEF Reading, NoWrite, ReadBeat
  <2>7. (Looking <=> Looking') /\ (Missing <=> Missing') /\ (Leaving <=> Leaving') /\ (Refilled <=> Refilled')
    BY <2>1, <2>4 DEF Looking, Missing, Leaving, Refilled, Got, Kind
  <2>8. Evicting <=> Evicting'
    <3> PICK l, v, s : l = core.req.victim /\ v = core.req.value /\ s = core.sent
      OBVIOUS
    <3>1. Storing(l, NumWords, v, s) <=> Storing(l, NumWords, v, s)'
      BY <2>5
    <3> QED BY <2>1, <3>1 DEF Evicting, Kind, Storing, WriteAt
  <2>9. Evicted <=> Evicted'
    BY <2>1, <2>5 DEF Evicted, Kind, Storing, WriteAt
  <2>10. Refilling <=> Refilling'
    BY <2>1, <2>6 DEF Refilling, Got, Kind, Reading, NoWrite, ReadBeat
  <2>11. UncSide <=> UncSide'
    BY <2>1, <2>4 DEF UncSide, SameBut, OnBus, Behind, Done, TagsMatch, Reading, NoWrite, ReadBeat, Quiet,
                      Storing, WriteAt
  <2> QED BY <2>1, <2>2, <2>3, <2>7, <2>8, <2>9, <2>10, <2>11 DEF Inv, CoreSide
<1> QED BY <1>1, <1>2

\* The invariant holds in every state.
LEMMA InvHolds == Spec => []Inv
<1>1. Init => Inv
  BY InitInv
<1>2. Inv /\ [Next]_vars => Inv'
  BY NextInv
<1> QED BY <1>1, <1>2, PTL DEF Spec

\* The registers keep to their widths, and no fifo is filled beyond its two entries.
THEOREM TypeCorrect == Spec => []TypeOK
<1>1. Inv => TypeOK
  BY DEF Inv
<1> QED BY <1>1, InvHolds, PTL

\* What the port answers is what is owed for the oldest request.
LEMMA AnswerOwed ==
    ASSUME Inv
    PROVE  InOrder
<1>1. TypeOK /\ owed \in Seq(Answers) /\ (CoreSide \/ UncSide)
  BY DEF Inv
<1>2. CASE CoreSide
  <2>1. CoreHolds /\ CoreOwes
    BY <1>2 DEF CoreSide
  <2>2. Len(owed) = pending_q /\ owed # <<>> /\ Head(owed) = owed[1]
    <3>1. Len(owed) = 1 /\ pending_q = 1
      BY <2>1 DEF CoreHolds, CoreOwes
    <3>2. owed # <<>>
      <4>1. Len(owed) # 0
        BY <3>1
      <4> QED BY <4>1
    <3> QED BY <1>1, <3>1, <3>2
  <2>3. MemAck => Looking
    <3>1. MemAck => CoreAck
      BY <2>1 DEF MemAck, CoreHolds
    <3>2. CoreAck => Looking
      BY <1>2 DEF CoreAck, CoreSide, Missing, Leaving, Evicting, Evicted, Refilling, Refilled, Kind
    <3> QED BY <3>1, <3>2
  <2>4. MemRespTag = owed[1].tag
    BY <2>1 DEF MemRespTag, CoreHolds, CoreOwes
  <2>5. Looking => owed[1].words = <<>> \/ owed[1].words = MemDataRd
    BY <2>1 DEF Looking, MemDataRd, CoreHolds
  <2> QED BY <2>2, <2>3, <2>4, <2>5 DEF InOrder
<1>3. CASE UncSide /\ pending_q = 0
  <2>1. owed = <<>> /\ ~MemAck
    BY <1>3, IdleState
  <2>2. Len(owed) = pending_q
    BY <1>3 DEF UncSide
  <2> QED BY <2>1, <2>2 DEF InOrder
<1>4. CASE UncSide /\ pending_q # 0
  <2>1. pending_q = Len(owed) /\ ~cache_access_q /\ ~select_q /\ TagsMatch(owed, unc_resp)
    BY <1>4 DEF UncSide
  <2>2. owed # <<>> /\ Head(owed) = owed[1] /\ 1 \in 1 .. Len(owed)
    BY <1>1, <1>4, <2>1
  <2>3. MemRespTag = owed[1].tag
    <3>1. unc_resp # <<>> /\ owed[1].tag = unc_resp[1]
      <4>1. Len(unc_resp) = Len(owed) /\ Len(owed) # 0 /\ owed[1].tag = unc_resp[1]
        BY <1>4, <2>1, <2>2 DEF TagsMatch
      <4> QED BY <4>1
    <3>2. Head(unc_resp) = unc_resp[1]
      BY <1>1, <3>1 DEF TypeOK
    <3> QED BY <2>1, <3>1, <3>2 DEF MemRespTag
  <2> PICK now \in Word : OnBus(now, owed[1].words) /\ Behind(unc_req, owed, Done, now, shadow[Dev])
    BY <1>4 DEF UncSide
  <2>4. dropped_q \/ BusAck => owed[1].words = <<>> \/ owed[1].words = <<rsp.word>>
    BY <1>4, BridgeState
  <2>5. MemAck => dropped_q \/ BusAck
    BY <2>1 DEF MemAck, UncAck
  <2>6. MemDataRd = <<rsp.word>>
    BY <2>1 DEF MemDataRd
  <2> QED BY <2>1, <2>2, <2>3, <2>4, <2>5, <2>6 DEF InOrder
<1> QED BY <1>1, <1>2, <1>3, <1>4

\* No answer is taken for one of another request or of the other side, and loads and refills
\* see every write before them.
THEOREM AnswersInOrder == Spec => []InOrder
<1> QED BY AnswerOwed, InvHolds, PTL

\* Each answer of the slave finds the side selected that asked for it, and no second
\* transaction open with it.
THEOREM AnswersTheIssuer == Spec => []RespondsToIssuer
<1>1. Inv => RespondsToIssuer
  <2> SUFFICES ASSUME Inv PROVE RespondsToIssuer
    OBVIOUS
  <2>1. BusOK /\ (BusAck => (select_q <=> rsp.place[1] \in Lines))
    BY SideBus
  <2>2. select_q \in BOOLEAN
    BY DEF Inv, TypeOK
  <2> QED BY <2>1, <2>2 DEF RespondsToIssuer, BusOK
<1> QED BY <1>1, InvHolds, PTL

\* Each write burst has the beats its address announced, and the last one is marked.
THEOREM BurstsWhole == Spec => []WholeBursts
<1>1. Inv => WholeBursts
  BY SideBus DEF BusOK
<1> QED BY <1>1, InvHolds, PTL
=============================================================================
