------------------------- MODULE DcacheCore_refines -------------------------
(* The data cache core implements the memory port of MemPort, for every size *)
(* of the cache, every memory and every request but the invalidate, which    *)
(* drops words by design (dcache_core.v 273).  A word lives in the way that  *)
(* owns its line, else in memory; a request is served in the cycle it gets   *)
(* its response, and every other step changes nothing a requester can see.   *)
EXTENDS DcacheCore_proofs, MCDcacheTame

USE SizeAssumption, InputAssumption

\* What the requester sees of a state, the refinement mapping of MP.
Store == [a \in Addr |-> Word(a)]
Req   == IF mem_m.op = "none" THEN [op |-> "none"] ELSE mem_m
Resp  == IF ~MemAck THEN [valid |-> FALSE]
         ELSE IF mem_m.op = "rd" THEN [valid |-> TRUE, data |-> DataOut]
         ELSE [valid |-> TRUE]

\* The request is carried out, as the requester sees it.
Served(r) ==
    \/ r.op = "rd" /\ Resp' = [valid |-> TRUE, data |-> Store[r.addr]] /\ Store' = Store
    \/ r.op = "wr" /\ Resp' = [valid |-> TRUE] /\ Store' = [Store EXCEPT ![r.addr] = r.data]
    \/ r.op \notin {"rd", "wr", "none"} /\ Resp' = [valid |-> TRUE] /\ Store' = Store

\* The word at a is being written by the request in the buffer.
Writing(a) == MemAck /\ mem_m.op = "wr" /\ mem_m.addr = a

\* The word of the way that owns a, else of memory.
Found(a) ==
    IF Owns(0, a) THEN data_ram[0][CellOf(a)]
    ELSE IF Owns(1, a) THEN data_ram[1][CellOf(a)]
    ELSE memory[a]

\* A step that changes neither words, request nor response stutters.
LEMMA Stutters ==
    ASSUME Store' = Store, Req' = Req, Resp' = Resp
    PROVE  UNCHANGED MP!vars
BY DEF MP!vars, Store, Req, Resp

\* A step that only takes a request is a step of the port.
LEMMA Takes ==
    ASSUME Store' = Store, Req.op = "none" \/ Resp.valid, Resp' = [valid |-> FALSE],
           Req' = [op |-> "none"] \/ Req' \in Requests
    PROVE  MP!Next
<1>1. MP!Free
  BY DEF MP!Free, Req, Resp
<1>2. ASSUME NEW r, Req' = r PROVE MP!Take(r)
  BY <1>1, <1>2 DEF MP!Take, MP!Quiet, Store, Req, Resp
<1> QED BY <1>2 DEF MP!Next, MP!Idle

\* What is served is served as the port serves it.
LEMMA ServedForm ==
    ASSUME NEW r, Served(r)
    PROVE  MP!Serve(r)
<1>1. CASE r.op = "rd"
  BY <1>1 DEF Served, MP!Serve, MP!Answer, Store, Resp
<1>2. CASE r.op = "wr"
  BY <1>2 DEF Served, MP!Serve, MP!Done, Store, Resp
<1>3. CASE r.op \notin {"rd", "wr", "none"}
  BY <1>3 DEF Served, MP!Serve, MP!Done, Store, Resp
<1> QED BY <1>1, <1>2, <1>3 DEF Served

\* A step that serves the request in the buffer is a step of the port.
LEMMA Responds ==
    ASSUME Req.op # "none", ~Resp.valid, Req' = Req, Served(Req)
    PROVE  MP!Next
<1>1. MP!Serve(Req)
  BY ServedForm
<1> QED BY <1>1 DEF MP!Next, MP!Respond, Req, Resp

\* So is one that takes a request and serves it at once.
LEMMA TakesAndServes ==
    ASSUME Req.op = "none" \/ Resp.valid, Req' \in Requests, Served(Req')
    PROVE  MP!Next
<1>1. PICK r \in Requests : Req' = r
  OBVIOUS
<1>2. MP!Serve(r)
  BY <1>1, ServedForm
<1>3. MP!TakeAndServe(r)
  BY <1>1, <1>2 DEF MP!TakeAndServe, MP!Free, Req, Resp
<1> QED BY <1>3 DEF MP!Next

\* The word at an address, in these words.
LEMMA WordForm ==
    ASSUME NEW a
    PROVE  Word(a) = IF Writing(a) THEN mem_m.data ELSE Found(a)
BY DEF Word, Writing, Found

\* The way that owns a line is the only one.
LEMMA OneOwner ==
    ASSUME UniqueResidency, NEW a \in Addr, NEW w \in Ways, Owns(w, a)
    PROVE  /\ \A v \in Ways : Owns(v, a) => v = w
           /\ Found(a) = data_ram[w][CellOf(a)]
BY DEF UniqueResidency, Owns, Found, Ways, Addr

\* The same of the next state.
LEMMA OneOwnerNext ==
    ASSUME UniqueResidency', NEW a \in Addr, NEW w \in Ways, Owns(w, a)'
    PROVE  Found(a)' = data_ram'[w][CellOf(a)]
BY DEF UniqueResidency, Owns, Found, Ways, Addr, CellOf

\* A word stays where its line keeps its owner and its contents.
LEMMA FoundKept ==
    ASSUME NEW a \in Addr,
           \A w \in Ways : Owns(w, a)' <=> Owns(w, a),
           \A w \in Ways : Owns(w, a) => data_ram'[w][CellOf(a)] = data_ram[w][CellOf(a)],
           (\A w \in Ways : ~Owns(w, a)) => memory'[a] = memory[a]
    PROVE  Found(a)' = Found(a)
BY DEF Found, Ways, CellOf

\* A line that goes takes no word with it if memory has its words.
LEMMA FoundDropped ==
    ASSUME UniqueResidency, NEW a \in Addr, UNCHANGED <<data_ram, memory>>,
           \A w \in Ways : Owns(w, a)' => Owns(w, a),
           \A w \in Ways : Owns(w, a) => Owns(w, a)' \/ data_ram[w][CellOf(a)] = memory[a]
    PROVE  Found(a)' = Found(a)
<1>1. CASE \A w \in Ways : Owns(w, a)' <=> Owns(w, a)
  BY <1>1, FoundKept
<1>2. CASE \E w \in Ways : Owns(w, a) /\ ~Owns(w, a)'
  <2>1. PICK w \in Ways : Owns(w, a) /\ ~Owns(w, a)'
    BY <1>2
  <2>2. /\ \A v \in Ways : Owns(v, a) => v = w
        /\ Found(a) = data_ram[w][CellOf(a)]
    BY <2>1, OneOwner
  <2>3. \A v \in Ways : ~Owns(v, a)'
    BY <2>1, <2>2
  <2>4. Found(a)' = memory[a]
    BY <2>3 DEF Found, Ways
  <2> QED BY <2>1, <2>2, <2>4
<1> QED BY <1>1, <1>2

\* An owned clean line has the words of memory.
LEMMA CleanWord ==
    ASSUME CleanMatchesMemory, NEW w \in Ways, NEW a \in Addr, Owns(w, a), ~tag_ram[w][a.set].dirty
    PROVE  data_ram[w][CellOf(a)] = memory[a]
<1> DEFINE l == [tag |-> a.tag, set |-> a.set]
<1>1. l \in Line /\ l.set = a.set /\ l.tag = a.tag /\ a = AddrAt(l, a.word) /\ a.word \in Words
  BY DEF Line, Addr, AddrAt
<1> HIDE DEF l
<1>2. Clean(w, l) /\ state_q # "RESET"
  BY <1>1 DEF Clean, Owns
<1> QED BY <1>1, <1>2, CleanForm DEF InMemory, CellOf

\* The same of the next state.
LEMMA CleanWordNext ==
    ASSUME CleanMatchesMemory', NEW w \in Ways, NEW a \in Addr, Owns(w, a)', ~tag_ram'[w][a.set].dirty
    PROVE  data_ram'[w][CellOf(a)] = memory'[a]
<1> DEFINE l == [tag |-> a.tag, set |-> a.set]
<1>1. l \in Line /\ l.set = a.set /\ l.tag = a.tag /\ a = AddrAt(l, a.word) /\ a.word \in Words
  BY DEF Line, Addr, AddrAt
<1> HIDE DEF l
<1>2. Clean(w, l)' /\ state_q' # "RESET"
  BY <1>1 DEF Clean, Owns
<1>3. InMemory(w, l)'
  BY <1>1, <1>2 DEF CleanMatchesMemory, Clean, InMemory
<1> QED BY <1>1, <1>3 DEF InMemory, CellOf, AddrAt

\* The types a step starts from.
LEMMA StepTypes ==
    ASSUME DataInductive
    PROVE  /\ TypeOK /\ TagsRead /\ OpInState /\ WayInState /\ UniqueResidency /\ CleanMatchesMemory
           /\ tag_ram \in [Ways -> [Sets -> Entry]] /\ data_ram \in [Ways -> [Cell -> Data]]
           /\ memory \in [Addr -> Data] /\ mem_m \in Request /\ mem_m.addr \in Addr
           /\ mem_m.addr.set \in Sets /\ CellOf(mem_m.addr) \in Cell /\ replace_way_q \in Ways
           /\ flush_addr_q \in Sets
           /\ \A a \in Addr : CellOf(a) \in Cell /\ a.set \in Sets
BY WorkTypes DEF DataInductive, Inductive, TypeOK, Addr, Cell, CellOf

\* Addresses are their parts.
LEMMA SameAddr ==
    ASSUME NEW a \in Addr, NEW b \in Addr, a.tag = b.tag, a.set = b.set, a.word = b.word
    PROVE  a = b
BY DEF Addr

\* A step within a request that moves no word stutters.
LEMMA Internal ==
    ASSUME mem_m' = mem_m, ~MemAck, ~MemAck', \A a \in Addr : Found(a)' = Found(a)
    PROVE  UNCHANGED MP!vars
<1>1. Store' = Store
  BY DEF Store, Word, Found
<1>2. Req' = Req /\ Resp' = Resp
  BY DEF Req, Resp
<1> QED BY <1>1, <1>2, Stutters

\* Commit of the write in the buffer: the RAMs have what the port had served.
LEMMA CommitFound ==
    ASSUME DataInductive, UniqueResidency', CommitWrite, state_q = "LOOKUP", ~Miss,
           state_q' \notin {"RESET", "REFILL"}, memory' = memory, NEW a \in Addr
    PROVE  Found(a)' = Word(a)
<1> DEFINE ways == {w \in Ways : mem_m.op = "wr" /\ Hit(w)}
<1>t. /\ TypeOK /\ TagsRead /\ UniqueResidency
      /\ tag_ram \in [Ways -> [Sets -> Entry]] /\ data_ram \in [Ways -> [Cell -> Data]]
      /\ mem_m.addr \in Addr /\ mem_m.addr.set \in Sets /\ CellOf(mem_m.addr) \in Cell
      /\ CellOf(a) \in Cell /\ a.set \in Sets
  BY StepTypes
<1>1. WriteTags(ways, mem_m.addr.set, Fresh(TRUE)) /\ WriteData(ways, CellOf(mem_m.addr), mem_m.data)
  BY DEF CommitWrite
<1>2. \A w \in ways : tag_out[w] = tag_ram[w][mem_m.addr.set]
  BY <1>t DEF TagsRead, TagsAt, IsAccess
<1>3. \A w \in Ways : tag_ram'[w][a.set] = tag_ram[w][a.set]
            \/ (w \in ways /\ a.set = mem_m.addr.set /\ tag_ram'[w][a.set] = Fresh(TRUE))
  BY <1>t, <1>1 DEF WriteTags
<1>4. \A w \in Ways : Owns(w, a)' <=> Owns(w, a)
  BY <1>2, <1>3 DEF Owns, Holds, Filling, Fresh, Hit
<1>5. CASE Writing(a)
  <2>1. PICK w \in Ways : Hit(w)
    BY <1>5 DEF Writing, MemAck, HitAny
  <2>2. w \in ways /\ a = mem_m.addr
    BY <1>5, <2>1 DEF Writing
  <2>3. Owns(w, a)
    BY <1>2, <2>1, <2>2 DEF Owns, Hit, Holds, Filling
  <2> HIDE DEF ways
  <2>4. data_ram'[w][CellOf(a)] = mem_m.data
    BY <1>t, <1>1, <2>2 DEF WriteData
  <2> QED BY <1>4, <1>5, <2>3, <2>4, OneOwnerNext, WordForm
<1>6. CASE ~Writing(a)
  <2>1. ASSUME NEW w \in Ways, Owns(w, a) PROVE data_ram'[w][CellOf(a)] = data_ram[w][CellOf(a)]
    <3>1. ~(w \in ways /\ CellOf(a) = CellOf(mem_m.addr))
      <4>1. SUFFICES ASSUME w \in ways, a.set = mem_m.addr.set, a.word = mem_m.addr.word PROVE FALSE
        BY DEF CellOf
      <4>2. a.tag = mem_m.addr.tag
        BY <1>2, <2>1, <4>1 DEF Owns, Holds, Hit
      <4>3. a = mem_m.addr
        BY <1>t, <4>1, <4>2, SameAddr
      <4>4. HitAny
        BY <4>1 DEF HitAny
      <4> QED BY <1>6, <4>1, <4>3, <4>4 DEF Writing, MemAck, IsAccess
    <3> HIDE DEF ways
    <3> QED BY <1>t, <1>1, <3>1 DEF WriteData
  <2>2. Found(a)' = Found(a)
    BY <1>4, <2>1, FoundKept
  <2> QED BY <1>6, <2>2, WordForm
<1> QED BY <1>5, <1>6

\* STATE_LOOKUP: the response of the request in the buffer ends, the next
\* request is taken, and served at once if it hits.
LEMMA LookupStep ==
    ASSUME DataInductive, DataInductive', NEW r \in Inputs, Lookup(r)
    PROVE  MP!Next
<1>t. /\ TypeOK /\ UniqueResidency /\ UniqueResidency' /\ TagsRead' /\ r \in Request
      /\ tag_ram \in [Ways -> [Sets -> Entry]] /\ data_ram \in [Ways -> [Cell -> Data]]
      /\ mem_m.addr \in Addr /\ mem_m.addr.set \in Sets /\ CellOf(mem_m.addr) \in Cell
  BY StepTypes, ConstantTypes DEF DataInductive, Inductive
<1>1. /\ state_q = "LOOKUP" /\ ~Miss /\ CommitWrite /\ mem_m' = r /\ memory' = memory
      /\ state_q' = AfterAccept(r.op)
  BY DEF Lookup, busVars
<1>2. state_q' \notin {"RESET", "REFILL"}
  BY <1>1 DEF AfterAccept
<1>3. \A a \in Addr : Found(a)' = Word(a)
  BY <1>t, <1>1, <1>2, CommitFound
<1>free. Req.op = "none" \/ Resp.valid
  BY <1>t, <1>1 DEF Req, Resp, MemAck, Miss, IsAccess, TypeOK, Request, Ops
<1>req. IF r.op = "none" THEN Req' = [op |-> "none"] ELSE Req' = r /\ r \in Requests
  BY <1>1 DEF Req, Inputs, NoReq
<1>4. CASE ~MemAck'
  <2>1. Store' = Store
    BY <1>3, <1>4 DEF Store, Word, Found
  <2>2. Resp' = [valid |-> FALSE]
    BY <1>4 DEF Resp
  <2> QED BY <1>free, <1>req, <2>1, <2>2, Takes
<1>5. CASE MemAck'
  <2>1. state_q' = "LOOKUP" /\ r.op \in {"rd", "wr"} /\ HitAny'
    BY <1>t, <1>1, <1>5 DEF MemAck, AfterAccept, IsAccess
  <2>2. r.addr \in Addr /\ r.addr.set \in Sets /\ r.addr.word \in Words /\ CellOf(r.addr) \in Cell
    BY <1>t DEF Request, Addr, CellOf, Cell
  <2>3. CASE r.op = "wr"
    <3>1. \A a \in Addr : Word(a)' = IF a = r.addr THEN r.data ELSE Word(a)
      BY <1>1, <1>3, <1>5, <2>3 DEF Word, Found
    <3>2. Store' = [Store EXCEPT ![r.addr] = r.data]
      BY <2>2, <3>1 DEF Store
    <3>3. Resp' = [valid |-> TRUE]
      BY <1>1, <1>5, <2>3 DEF Resp
    <3> QED BY <1>free, <1>req, <2>3, <3>2, <3>3, TakesAndServes DEF Served
  <2>4. CASE r.op = "rd"
    <3>1. Store' = Store
      BY <1>1, <1>3, <2>4 DEF Store, Word, Found
    <3>2. tag_out' = [w \in Ways |-> tag_ram'[w][r.addr.set]]
      BY <1>1, <2>1 DEF Lookup, ReadTags
    <3>3. data_out' = [w \in Ways |-> data_ram[w][CellOf(r.addr)]]
      BY <2>4 DEF Lookup, ReadData
    <3>4. PICK w \in Ways : Hit(w)' /\ DataOut' = data_out'[w]
      BY <2>1 DEF HitAny, DataOut, Ways
    <3>5. Owns(w, r.addr)'
      BY <1>1, <2>1, <3>2, <3>4 DEF Owns, Holds, Filling, Hit
    <3>6. Found(r.addr)' = data_ram'[w][CellOf(r.addr)]
      BY <1>t, <2>2, <3>5, OneOwnerNext
    <3>7. data_ram'[w][CellOf(r.addr)] = data_ram[w][CellOf(r.addr)]
      <4> DEFINE ways == {v \in Ways : mem_m.op = "wr" /\ Hit(v)}
      <4>1. WriteTags(ways, mem_m.addr.set, Fresh(TRUE)) /\ WriteData(ways, CellOf(mem_m.addr), mem_m.data)
        BY <1>1 DEF CommitWrite
      <4>2. ~(w \in ways /\ CellOf(r.addr) = CellOf(mem_m.addr))
        <5>1. SUFFICES ASSUME w \in ways, CellOf(r.addr) = CellOf(mem_m.addr) PROVE FALSE
          OBVIOUS
        <5>2. r.addr.set = mem_m.addr.set /\ r.addr.word = mem_m.addr.word
          BY <5>1 DEF CellOf
        <5>3. tag_ram'[w][r.addr.set] = Fresh(TRUE)
          BY <1>t, <4>1, <5>1, <5>2 DEF WriteTags
        <5>4. r.addr.tag = mem_m.addr.tag
          BY <3>5, <5>3 DEF Owns, Holds, Fresh
        <5>5. r.addr = mem_m.addr
          BY <1>t, <2>2, <5>2, <5>4, SameAddr
        <5> QED BY <2>4, <5>1, <5>5 DEF Lookup, ReadAfterWrite
      <4> HIDE DEF ways
      <4> QED BY <1>t, <2>2, <4>1, <4>2 DEF WriteData
    <3>8. DataOut' = Store[r.addr]
      BY <1>3, <2>2, <3>3, <3>4, <3>6, <3>7 DEF Store
    <3>9. Resp' = [valid |-> TRUE, data |-> Store[r.addr]]
      BY <1>1, <1>5, <2>4, <3>8 DEF Resp
    <3> QED BY <1>free, <1>req, <2>4, <3>1, <3>9, TakesAndServes DEF Served
  <2> QED BY <2>1, <2>3, <2>4
<1> QED BY <1>4, <1>5

\* STATE_LOOKUP, a read that has to wait is not taken yet.
LEMMA HoldStep ==
    ASSUME DataInductive, DataInductive', NEW r \in Inputs, LookupHold(r)
    PROVE  MP!Next
<1>t. TypeOK /\ UniqueResidency'
  BY StepTypes DEF DataInductive, Inductive
<1>1. /\ state_q = "LOOKUP" /\ ~Miss /\ CommitWrite /\ mem_m' = NoReq /\ memory' = memory
      /\ state_q' = "LOOKUP"
  BY DEF LookupHold, busVars
<1>2. \A a \in Addr : Found(a)' = Word(a)
  BY <1>t, <1>1, CommitFound
<1>3. ~MemAck' /\ Req' = [op |-> "none"]
  BY <1>1 DEF MemAck, IsAccess, NoReq, Req
<1>4. Store' = Store /\ Resp' = [valid |-> FALSE]
  BY <1>2, <1>3 DEF Store, Word, Found, Resp
<1>5. Req.op = "none" \/ Resp.valid
  BY <1>t, <1>1 DEF Req, Resp, MemAck, Miss, IsAccess, TypeOK, Request, Ops
<1> QED BY <1>3, <1>4, <1>5, Takes

\* Only a lookup has a response.
LEMMA NoResponse ==
    /\ state_q # "LOOKUP" \/ Miss => ~MemAck
    /\ (state_q # "LOOKUP" \/ Miss)' => ~MemAck'
BY DEF MemAck, Miss, IsAccess

\* The states that neither write a RAM nor move a burst leave every word.
LEMMA NothingWritten ==
    ASSUME UNCHANGED <<tag_ram, data_ram, memory, mem_m, replace_way_q>>,
           state_q # "RESET", state_q' # "RESET", state_q' = "REFILL" <=> state_q = "REFILL",
           NEW a \in Addr
    PROVE  Found(a)' = Found(a)
BY FoundKept DEF Owns, Filling

\* STATE_WRITEBACK may turn to the other way, of which nothing depends.
LEMMA NothingWrittenAnyWay ==
    ASSUME UNCHANGED <<tag_ram, data_ram, memory, mem_m>>,
           state_q \notin {"RESET", "REFILL"}, state_q' \notin {"RESET", "REFILL"},
           NEW a \in Addr
    PROVE  Found(a)' = Found(a)
BY FoundKept DEF Owns, Filling

\* STATE_RESET holds no line, and leaves none.
LEMMA ResetStep ==
    ASSUME DataInductive, Reset
    PROVE  UNCHANGED MP!vars
<1>t. tag_ram \in [Ways -> [Sets -> Entry]] /\ flush_addr_q \in Sets /\ OpInState
  BY StepTypes
<1>1. state_q = "RESET" /\ mem_m' = mem_m /\ memory' = memory /\ mem_m.op = "none"
  BY <1>t DEF Reset, OpInState, busVars
<1>2. ASSUME NEW a \in Addr PROVE Found(a)' = Found(a)
  <2>1. \A w \in Ways : ~Owns(w, a)
    BY <1>1 DEF Owns
  <2>2. \A w \in Ways : ~Owns(w, a)'
    <3>1. CASE flush_last_q
      <4>1. \A w \in Ways : ~tag_ram'[w][a.set].valid
        BY <1>t, <1>1, <3>1, <1>2 DEF Reset, WriteTags, NoEntry, DataInductive, Inductive, Cleared, Addr
      <4> QED BY <4>1 DEF Owns, Holds
    <3>2. CASE ~flush_last_q
      BY <3>2 DEF Reset, Owns
    <3> QED BY <3>1, <3>2
  <2> QED BY <1>1, <2>1, <2>2, FoundKept
<1>3. ~MemAck /\ ~MemAck'
  BY <1>1 DEF MemAck, IsAccess
<1> QED BY <1>1, <1>2, <1>3, Internal

\* STATE_LOOKUP, a clean line makes room: memory has its words.
LEMMA MissRefillStep ==
    ASSUME DataInductive, NEW acc \in BOOLEAN, MissRefill(acc)
    PROVE  UNCHANGED MP!vars
<1>t. /\ UniqueResidency /\ CleanMatchesMemory /\ TagsRead /\ replace_way_q \in Ways
  BY StepTypes
<1>1. /\ state_q = "LOOKUP" /\ Miss /\ ~EvictWay /\ state_q' = "REFILL"
      /\ UNCHANGED <<mem_m, memory, tag_ram, data_ram, replace_way_q>>
  BY DEF MissRefill, RequestRefill, ramVars
<1>2. tag_out = TagsAt(mem_m.addr.set) /\ ~Dirty(replace_way_q)
  BY <1>t, <1>1 DEF TagsRead, Miss, EvictWay
<1>3. ASSUME NEW a \in Addr PROVE Found(a)' = Found(a)
  <2>1. \A w \in Ways : Owns(w, a)' => Owns(w, a)
    BY <1>1 DEF Owns, Filling
  <2>2. ASSUME NEW w \in Ways, Owns(w, a), ~Owns(w, a)' PROVE data_ram[w][CellOf(a)] = memory[a]
    <3>1. w = replace_way_q /\ a.set = mem_m.addr.set
      BY <1>1, <2>2 DEF Owns, Filling
    <3>2. ~tag_ram[w][a.set].dirty
      BY <1>t, <1>2, <2>2, <3>1 DEF Dirty, TagsAt, Owns, Holds
    <3> QED BY <1>t, <2>2, <3>2, CleanWord
  <2> QED BY <1>t, <1>1, <2>1, <2>2, FoundDropped
<1>4. ~MemAck /\ ~MemAck'
  BY <1>1, NoResponse
<1> QED BY <1>1, <1>3, <1>4, Internal

\* STATE_REFILL, a word arrives: the way answers for none of them until the
\* last has come, and then has what memory has.
LEMMA RefillBeatStep ==
    ASSUME DataInductive, DataInductive', RefillBeat
    PROVE  UNCHANGED MP!vars
<1>t. /\ TypeOK /\ UniqueResidency' /\ CleanMatchesMemory' /\ replace_way_q \in Ways
      /\ tag_ram \in [Ways -> [Sets -> Entry]] /\ data_ram \in [Ways -> [Cell -> Data]]
      /\ mem_m.addr.set \in Sets
  BY StepTypes DEF DataInductive, Inductive
<1>1. /\ state_q = "REFILL" /\ port.op = "rd" /\ UNCHANGED <<mem_m, memory, replace_way_q>>
      /\ state_q' \in {"REFILL", "READ", "WRITE"}
  BY DEF RefillBeat
<1>2. data_write_addr_q = <<mem_m.addr.set, port.beat>>
  BY <1>1 DEF DataInductive, Inductive, BurstInStep
<1>3. ASSUME NEW a \in Addr PROVE Found(a)' = Found(a)
  <2>t. CellOf(a) \in Cell /\ a.set \in Sets
    BY StepTypes
  <2>1. ASSUME NEW w \in Ways, ~(w = replace_way_q /\ a.set = mem_m.addr.set)
        PROVE  /\ Owns(w, a)' <=> Owns(w, a)
               /\ data_ram'[w][CellOf(a)] = data_ram[w][CellOf(a)]
    <3>1. tag_ram'[w][a.set] = tag_ram[w][a.set]
      BY <1>t, <2>t, <2>1 DEF RefillBeat, WriteTags
    <3>2. data_ram'[w][CellOf(a)] = data_ram[w][CellOf(a)]
      BY <1>t, <1>2, <2>t, <2>1 DEF RefillBeat, WriteData, CellOf
    <3> QED BY <1>1, <2>1, <3>1, <3>2 DEF Owns, Filling
  <2>2. CASE ~Owns(replace_way_q, a)' \/ a.set # mem_m.addr.set
    <3>1. a.set = mem_m.addr.set => ~Owns(replace_way_q, a)
      BY <1>1 DEF Owns, Filling
    <3>2. \A w \in Ways : Owns(w, a)' <=> Owns(w, a)
      BY <1>1, <2>1, <2>2, <3>1
    <3>3. \A w \in Ways : Owns(w, a) => data_ram'[w][CellOf(a)] = data_ram[w][CellOf(a)]
      BY <2>1, <3>1
    <3> QED BY <1>1, <3>2, <3>3, FoundKept
  <2>3. CASE Owns(replace_way_q, a)' /\ a.set = mem_m.addr.set
    <3>1. tag_ram'[replace_way_q][a.set] = Fresh(FALSE)
      <4>1. PmemLast
        BY <1>1, <2>3 DEF RefillBeat, Owns, Filling
      <4> QED BY <1>t, <2>3, <4>1 DEF RefillBeat, WriteTags
    <3>2. data_ram'[replace_way_q][CellOf(a)] = memory'[a]
      BY <1>t, <1>1, <2>3, <3>1, CleanWordNext DEF Fresh
    <3>3. Found(a)' = data_ram'[replace_way_q][CellOf(a)]
      BY <1>t, <1>1, <2>3, OneOwnerNext
    <3>4. \A w \in Ways : ~Owns(w, a)
      <4>1. SUFFICES ASSUME NEW w \in Ways, Owns(w, a) PROVE FALSE
        OBVIOUS
      <4>2. w # replace_way_q
        BY <1>1, <2>3, <4>1 DEF Owns, Filling
      <4>3. Owns(w, a)'
        BY <2>1, <4>1, <4>2
      <4> QED BY <1>t, <1>1, <2>3, <4>2, <4>3 DEF UniqueResidency, Owns, Ways, Addr
    <3>5. Found(a) = memory[a]
      BY <3>4 DEF Found, Ways
    <3> QED BY <1>1, <3>2, <3>3, <3>5
  <2> QED BY <2>2, <2>3
<1>4. ~MemAck /\ ~MemAck'
  BY <1>1, NoResponse
<1> QED BY <1>1, <1>3, <1>4, Internal

\* STATE_EVICT: memory changes where the way still answers for it.
LEMMA EvictBeatStep ==
    ASSUME DataInductive, EvictBeat
    PROVE  UNCHANGED MP!vars
<1>t. /\ TypeOK /\ TagsRead /\ WayInState /\ UniqueResidency /\ memory \in [Addr -> Data]
      /\ replace_way_q \in Ways
  BY StepTypes
<1>1. /\ state_q = "EVICT" /\ UNCHANGED <<mem_m, replace_way_q, tag_ram, data_ram>>
      /\ state_q' \in {"EVICT", "EVICT_WAIT"}
  BY DEF EvictBeat, ramVars
<1>2. PmemWr => port'.line = EvictLine
  BY <1>t, <1>1 DEF EvictBeat, DataInductive, Inductive, BurstInStep, TypeOK
<1>3. ASSUME NEW a \in Addr, memory'[a] # memory[a] PROVE Owns(replace_way_q, a)
  <2>1. PmemWr /\ a = AddrAt(EvictLine, port'.beat - 1)
    BY <1>t, <1>2, <1>3 DEF EvictBeat, busVars
  <2>2. a.tag = EvictLine.tag /\ a.set = EvictSet
    BY <1>t, <2>1, WorkTypes DEF AddrAt
  <2> QED BY <1>t, <1>1, <2>2, EvictOwned DEF Owns, Filling
<1>4. ASSUME NEW a \in Addr PROVE Found(a)' = Found(a)
  <2>1. \A w \in Ways : Owns(w, a)' <=> Owns(w, a)
    BY <1>1 DEF Owns, Filling
  <2> QED BY <1>t, <1>1, <1>3, <2>1, FoundKept
<1>5. ~MemAck /\ ~MemAck'
  BY <1>1, NoResponse
<1> QED BY <1>1, <1>4, <1>5, Internal

\* The line an evict is done with has its words in memory.
LEMMA EvictedWord ==
    ASSUME DataInductive, state_q = "EVICT_WAIT", NEW a \in Addr,
           Owns(replace_way_q, a), a.set = EvictSet
    PROVE  data_ram[replace_way_q][CellOf(a)] = memory[a]
<1>t. TypeOK /\ TagsRead /\ WayInState /\ UniqueResidency
  BY StepTypes
<1>1. a.tag = EvictLine.tag
  BY <1>t, EvictOwned DEF Owns, Holds
<1>2. a = AddrAt(EvictLine, a.word) /\ a.word \in Words
  BY <1>1, WorkTypes, <1>t DEF AddrAt, Addr
<1>3. Sent = NumWords
  BY DEF DataInductive, Inductive, BurstInStep, Sent
<1>4. a.word < Sent
  BY <1>2, <1>3 DEF Words
<1> QED BY <1>2, <1>4 DEF DataInductive, BurstData, CellOf

\* STATE_EVICT_WAIT: the victim, or the line flushed, goes.
LEMMA EvictDropStep ==
    ASSUME DataInductive, EvictFlushed \/ \E acc \in BOOLEAN : EvictRefill(acc)
    PROVE  UNCHANGED MP!vars
<1>t. /\ TypeOK /\ UniqueResidency /\ tag_ram \in [Ways -> [Sets -> Entry]] /\ replace_way_q \in Ways
      /\ mem_m.addr.set \in Sets /\ flush_addr_q \in Sets
  BY StepTypes
<1>1. /\ state_q = "EVICT_WAIT" /\ UNCHANGED <<mem_m, memory, data_ram>>
      /\ state_q' \in {"FLUSH_ADDR", "REFILL"}
      /\ state_q' = "REFILL" => UNCHANGED replace_way_q /\ ~flushing_q
  BY DEF EvictFlushed, EvictRefill, EvictAcked
<1>2. ASSUME NEW w \in Ways, NEW s \in Sets, ~(w = replace_way_q /\ s = EvictSet)
      PROVE  tag_ram'[w][s] = tag_ram[w][s]
  BY <1>t, <1>2 DEF EvictFlushed, EvictRefill, WriteTags, EvictSet
<1>3. \A a \in Addr, w \in Ways : w = replace_way_q /\ a.set = EvictSet => ~Owns(w, a)'
  <2>1. CASE EvictFlushed
    BY <1>t, <2>1 DEF EvictFlushed, WriteTags, NoEntry, Owns, Holds, EvictSet, Addr
  <2>2. CASE \E acc \in BOOLEAN : EvictRefill(acc)
    BY <2>2 DEF EvictRefill, Owns, Filling, EvictSet
  <2> QED BY <2>1, <2>2
<1>4. ASSUME NEW a \in Addr PROVE Found(a)' = Found(a)
  <2>1. ASSUME NEW w \in Ways, ~(w = replace_way_q /\ a.set = EvictSet)
        PROVE  Owns(w, a)' <=> Owns(w, a)
    <3>1. tag_ram'[w][a.set] = tag_ram[w][a.set]
      BY <1>2, <2>1 DEF Addr
    <3>2. ~Filling(w, a.set) /\ ~Filling(w, a.set)'
      BY <1>1, <2>1 DEF Filling, EvictSet
    <3> QED BY <1>1, <3>1, <3>2 DEF Owns
  <2>2. \A w \in Ways : Owns(w, a)' => Owns(w, a)
    BY <1>3, <2>1
  <2>3. \A w \in Ways : Owns(w, a) => Owns(w, a)' \/ data_ram[w][CellOf(a)] = memory[a]
    BY <1>1, <2>1, EvictedWord
  <2> QED BY <1>t, <1>1, <2>2, <2>3, FoundDropped
<1>5. ~MemAck /\ ~MemAck'
  BY <1>1, NoResponse
<1> QED BY <1>1, <1>4, <1>5, Internal

\* STATE_FLUSH: neither way of the set is dirty, and both go; at the end of
\* the walk the flush is answered.
LEMMA FlushCleanStep ==
    ASSUME DataInductive, FlushClean
    PROVE  [MP!Next]_(MP!vars)
<1>t. /\ TypeOK /\ TagsRead /\ OpInState /\ UniqueResidency /\ CleanMatchesMemory
      /\ tag_ram \in [Ways -> [Sets -> Entry]] /\ flush_addr_q \in Sets
  BY StepTypes
<1>1. /\ state_q = "FLUSH" /\ UNCHANGED <<mem_m, memory, data_ram>>
      /\ state_q' \in {"LOOKUP", "FLUSH_ADDR"} /\ mem_m.op = "flush"
  BY <1>t DEF FlushClean, busVars, OpInState
<1>2. \A w \in Ways : ~(tag_ram[w][flush_addr_q].valid /\ tag_ram[w][flush_addr_q].dirty)
  BY <1>t, <1>1 DEF FlushClean, DirtyAny, Dirty, TagsRead, TagsAt
<1>3. ASSUME NEW a \in Addr PROVE Found(a)' = Found(a)
  <2>1. \A w \in Ways : tag_ram'[w][a.set] = IF a.set = flush_addr_q THEN NoEntry ELSE tag_ram[w][a.set]
    BY <1>t, <1>3 DEF FlushClean, WriteTags, Addr
  <2>2. \A w \in Ways : Owns(w, a)' => Owns(w, a)
    BY <1>1, <2>1 DEF Owns, Holds, Filling, NoEntry
  <2>3. ASSUME NEW w \in Ways, Owns(w, a), ~Owns(w, a)' PROVE data_ram[w][CellOf(a)] = memory[a]
    <3>1. a.set = flush_addr_q
      BY <1>1, <2>1, <2>3 DEF Owns, Filling
    <3>2. ~tag_ram[w][a.set].dirty
      BY <1>2, <2>3, <3>1 DEF Owns, Holds
    <3> QED BY <1>t, <2>3, <3>2, CleanWord
  <2> QED BY <1>t, <1>1, <2>2, <2>3, FoundDropped
<1>4. Store' = Store
  BY <1>1, <1>3 DEF Store, Word, Found
<1>5. ~MemAck /\ Req' = Req /\ Req = mem_m /\ mem_m.op = "flush"
  BY <1>1 DEF Req, MemAck
<1>6. CASE MemAck'
  <2>1. Resp' = [valid |-> TRUE] /\ ~Resp.valid
    BY <1>1, <1>5, <1>6 DEF Resp
  <2> QED BY <1>4, <1>5, <2>1, Responds DEF Served
<1>7. CASE ~MemAck'
  BY <1>1, <1>3, <1>5, <1>7, Internal
<1> QED BY <1>6, <1>7

\* STATE_EVICT_WAIT: a line written back stays where it is, and the write
\* back is answered.
LEMMA WrittenBackStep ==
    ASSUME DataInductive, EvictWrittenBack
    PROVE  MP!Next
<1>t. /\ TypeOK /\ TagsRead /\ OpInState /\ WayInState
      /\ tag_ram \in [Ways -> [Sets -> Entry]] /\ replace_way_q \in Ways /\ mem_m.addr.set \in Sets
  BY StepTypes
<1>1. /\ state_q = "EVICT_WAIT" /\ UNCHANGED <<mem_m, memory, data_ram>>
      /\ state_q' = "LOOKUP" /\ mem_m.op = "wb" /\ ~flushing_q
  BY <1>t DEF EvictWrittenBack, EvictAcked, OpInState
<1>2. tag_out[replace_way_q] = tag_ram[replace_way_q][mem_m.addr.set] /\ Hit(replace_way_q)
  BY <1>t, <1>1 DEF TagsRead, TagsAt, EvictSet, WayInState
<1>3. ASSUME NEW a \in Addr PROVE Found(a)' = Found(a)
  <2>1. \A w \in Ways : tag_ram'[w][a.set] = tag_ram[w][a.set]
            \/ (w = replace_way_q /\ a.set = mem_m.addr.set /\ tag_ram'[w][a.set] = Fresh(FALSE))
    BY <1>t DEF EvictWrittenBack, WriteTags, Addr
  <2>2. \A w \in Ways : Owns(w, a)' <=> Owns(w, a)
    BY <1>1, <1>2, <2>1 DEF Owns, Holds, Filling, Fresh, Hit
  <2> QED BY <1>1, <2>2, FoundKept
<1>4. ~MemAck /\ MemAck'
  BY <1>1 DEF MemAck
<1>5. Store' = Store
  BY <1>1, <1>3 DEF Store, Word, Found
<1>6. Req' = Req /\ Req = mem_m /\ Resp' = [valid |-> TRUE] /\ ~Resp.valid
  BY <1>1, <1>4 DEF Req, Resp
<1> QED BY <1>1, <1>5, <1>6, Responds DEF Served

\* STATE_WRITEBACK: there is nothing to write back, or the evict begins.
LEMMA WritebackStep ==
    ASSUME DataInductive, Writeback
    PROVE  [MP!Next]_(MP!vars)
<1>1. /\ state_q = "WRITEBACK" /\ UNCHANGED <<mem_m, memory, data_ram, tag_ram>>
      /\ state_q' \in {"LOOKUP", "EVICT"} /\ mem_m.op = "wb"
  BY StepTypes DEF Writeback, RequestEvict, OpInState, ramVars, busVars
<1>2. \A a \in Addr : Found(a)' = Found(a)
  BY <1>1, NothingWrittenAnyWay
<1>3. Store' = Store
  BY <1>1, <1>2 DEF Store, Word, Found
<1>4. ~MemAck /\ Req' = Req /\ Req = mem_m
  BY <1>1 DEF Req, MemAck
<1>5. CASE MemAck'
  <2>1. Resp' = [valid |-> TRUE] /\ ~Resp.valid
    BY <1>1, <1>4, <1>5 DEF Resp
  <2> QED BY <1>1, <1>3, <1>4, <2>1, Responds DEF Served
<1>6. CASE ~MemAck'
  BY <1>1, <1>2, <1>4, <1>6, Internal
<1> QED BY <1>5, <1>6

\* STATE_READ: the refilled line is read, and is the one that is looked up.
LEMMA ReadDoneStep ==
    ASSUME DataInductive, DataInductive', ReadDone
    PROVE  [MP!Next]_(MP!vars)
<1>t. /\ TypeOK /\ OpInState /\ UniqueResidency' /\ mem_m.addr \in Addr
  BY StepTypes DEF DataInductive, Inductive
<1>1. /\ state_q = "READ" /\ UNCHANGED <<mem_m, memory, data_ram, tag_ram>>
      /\ state_q' = "LOOKUP" /\ mem_m.op = "rd"
  BY <1>t DEF ReadDone, OpInState, ramVars, busVars
<1>2. \A a \in Addr : Found(a)' = Found(a)
  BY <1>1, NothingWrittenAnyWay
<1>3. Store' = Store
  BY <1>1, <1>2 DEF Store, Word, Found
<1>4. ~MemAck /\ Req' = Req /\ Req = mem_m
  BY <1>1 DEF Req, MemAck
<1>5. CASE MemAck'
  <2>1. PICK w \in Ways : Hit(w)' /\ DataOut' = data_out'[w]
    BY <1>1, <1>5 DEF MemAck, HitAny, DataOut, Ways
  <2>2. /\ tag_out' = [v \in Ways |-> tag_ram'[v][mem_m.addr.set]]
        /\ data_out' = [v \in Ways |-> data_ram[v][CellOf(mem_m.addr)]]
    BY DEF ReadDone, ReadTags, ReadData
  <2>3. Owns(w, mem_m.addr)'
    BY <1>1, <2>1, <2>2 DEF Owns, Holds, Filling, Hit
  <2>4. Found(mem_m.addr)' = data_ram[w][CellOf(mem_m.addr)]
    <3>1. PICK a \in Addr : a = mem_m.addr
      BY <1>t
    <3> QED BY <1>t, <1>1, <2>3, <3>1, OneOwnerNext DEF Owns, Found, CellOf, Filling
  <2>5. DataOut' = Store[mem_m.addr]
    BY <1>t, <1>1, <1>2, <2>1, <2>2, <2>4 DEF Store, Word, Found
  <2>6. Resp' = [valid |-> TRUE, data |-> Store[mem_m.addr]] /\ ~Resp.valid
    BY <1>1, <1>4, <1>5, <2>5 DEF Resp
  <2> QED BY <1>1, <1>3, <1>4, <2>6, Responds DEF Served
<1>6. CASE ~MemAck'
  BY <1>1, <1>2, <1>4, <1>6, Internal
<1> QED BY <1>5, <1>6

\* STATE_WRITE: the word goes into the refilled line, and the write is answered.
LEMMA WriteDoneStep ==
    ASSUME DataInductive, DataInductive', WriteDone
    PROVE  MP!Next
<1>t. /\ TypeOK /\ TagsRead /\ OpInState /\ WayInState /\ UniqueResidency /\ UniqueResidency'
      /\ tag_ram \in [Ways -> [Sets -> Entry]] /\ data_ram \in [Ways -> [Cell -> Data]]
      /\ mem_m.addr \in Addr /\ mem_m.addr.set \in Sets /\ replace_way_q \in Ways
      /\ CellOf(mem_m.addr) \in Cell
  BY StepTypes DEF DataInductive, Inductive
<1> DEFINE ways == {w \in Ways : Hit(w)}
<1>1. /\ state_q = "WRITE" /\ UNCHANGED <<mem_m, memory>>
      /\ state_q' = "LOOKUP" /\ mem_m.op = "wr"
      /\ WriteTags({replace_way_q}, mem_m.addr.set, Fresh(TRUE))
      /\ WriteData(ways, CellOf(mem_m.addr), mem_m.data)
      /\ ReadTags(mem_m.addr.set)
  BY <1>t DEF WriteDone, OpInState, busVars
<1>2. tag_out = TagsAt(mem_m.addr.set) /\ Hit(replace_way_q)
  BY <1>t, <1>1 DEF TagsRead, WayInState
<1>3. ways = {replace_way_q}
  <2>1. mem_m.addr.tag \in Tags
    BY <1>t, WorkTypes
  <2>2. \A w \in Ways : Hit(w) => w = replace_way_q
    BY <1>t, <1>1, <1>2, <2>1 DEF UniqueResidency, Hit, Holds, TagsAt, Ways
  <2> QED BY <1>t, <1>2, <2>2
<1> HIDE DEF ways
<1>4. ASSUME NEW a \in Addr, NEW w \in Ways PROVE Owns(w, a)' <=> Owns(w, a)
  <2>1. tag_ram'[w][a.set] = tag_ram[w][a.set]
            \/ (w = replace_way_q /\ a.set = mem_m.addr.set /\ tag_ram'[w][a.set] = Fresh(TRUE))
    BY <1>t, <1>1, <1>4 DEF WriteTags, Addr
  <2> QED BY <1>1, <1>2, <2>1 DEF Owns, Holds, Filling, Fresh, Hit, TagsAt
<1>5. MemAck' /\ ~MemAck
  <2>1. tag_out'[replace_way_q] = Fresh(TRUE)
    BY <1>t, <1>1 DEF WriteTags, ReadTags
  <2> QED BY <1>t, <1>1, <2>1 DEF MemAck, IsAccess, HitAny, Hit, Fresh
<1>6. ASSUME NEW a \in Addr PROVE Word(a)' = IF a = mem_m.addr THEN mem_m.data ELSE Word(a)
  <2>1. CASE a = mem_m.addr
    BY <1>1, <1>5, <2>1 DEF Word
  <2>2. CASE a # mem_m.addr
    <3>1. ASSUME NEW w \in Ways, Owns(w, a) PROVE data_ram'[w][CellOf(a)] = data_ram[w][CellOf(a)]
      <4>1. ~(w \in ways /\ CellOf(a) = CellOf(mem_m.addr))
        <5>1. SUFFICES ASSUME w = replace_way_q, a.set = mem_m.addr.set, a.word = mem_m.addr.word
                       PROVE  FALSE
          BY <1>3 DEF CellOf
        <5>2. a.tag = mem_m.addr.tag
          BY <1>2, <3>1, <5>1 DEF Owns, Holds, Hit, TagsAt
        <5> QED BY <1>t, <2>2, <5>1, <5>2, SameAddr
      <4>2. CellOf(a) \in Cell
        BY StepTypes
      <4> QED BY <1>t, <1>1, <4>1, <4>2 DEF WriteData
    <3>2. Found(a)' = Found(a)
      BY <1>1, <1>4, <3>1, FoundKept
    <3> QED BY <1>1, <1>5, <2>2, <3>2 DEF Word, Found
  <2> QED BY <2>1, <2>2
<1>7. Store' = [Store EXCEPT ![mem_m.addr] = mem_m.data]
  BY <1>t, <1>6 DEF Store
<1>8. Req' = Req /\ Req = mem_m /\ Resp' = [valid |-> TRUE] /\ ~Resp.valid
  BY <1>1, <1>5 DEF Req, Resp
<1> QED BY <1>1, <1>7, <1>8, Responds DEF Served

\* Every step but an invalidate is a step of the memory port, or none.
LEMMA PortStep ==
    ASSUME DataInductive, DataInductive', [Next]_vars, ~Invalidate
    PROVE  [MP!Next]_(MP!vars)
<1>same. ASSUME UNCHANGED <<tag_ram, data_ram, memory, mem_m, replace_way_q>>,
                state_q # "RESET", state_q' # "RESET",
                state_q' = "REFILL" <=> state_q = "REFILL", ~MemAck, ~MemAck'
         PROVE  UNCHANGED MP!vars
  BY <1>same, NothingWritten, Internal
<1>1. ASSUME NEW r \in Inputs, Lookup(r) \/ LookupHold(r) PROVE MP!Next
  BY <1>1, LookupStep, HoldStep
<1>2. CASE MissEvict
  BY <1>2, <1>same, NoResponse DEF MissEvict, RequestEvict, ramVars, busVars
<1>3. CASE RefillAccept
  BY <1>3, <1>same, NoResponse DEF RefillAccept, RequestRefill, ramVars
<1>4. CASE EvictStall
  BY <1>4, <1>same, NoResponse DEF EvictStall, ramVars, busVars
<1>5. CASE FlushAddr
  BY <1>5, <1>same, NoResponse DEF FlushAddr, ramVars, busVars
<1>6. CASE FlushEvict
  BY <1>6, <1>same, NoResponse DEF FlushEvict, RequestEvict, ramVars, busVars
<1>7. CASE FlushNextWay
  <2>1. state_q = "FLUSH" /\ state_q' = "FLUSH" /\ UNCHANGED <<tag_ram, data_ram, memory, mem_m>>
    BY <1>7 DEF FlushNextWay, ramVars, busVars
  <2> QED BY <2>1, NothingWrittenAnyWay, NoResponse, Internal
<1>8. CASE Reset
  BY <1>8, ResetStep
<1>9. CASE \E acc \in BOOLEAN : MissRefill(acc) \/ EvictRefill(acc)
  BY <1>9, MissRefillStep, EvictDropStep
<1>10. CASE RefillBeat
  BY <1>10, RefillBeatStep
<1>11. CASE ReadDone \/ WriteDone
  BY <1>11, ReadDoneStep, WriteDoneStep
<1>12. CASE EvictBeat
  BY <1>12, EvictBeatStep
<1>13. CASE EvictWrittenBack \/ EvictFlushed
  BY <1>13, WrittenBackStep, EvictDropStep
<1>14. CASE Writeback
  BY <1>14, WritebackStep
<1>15. CASE FlushClean
  BY <1>15, FlushCleanStep
<1>16. CASE UNCHANGED vars
  BY <1>16, Stutters DEF vars, ramVars, flushVars, pmemVars, busVars, Store, Req, Resp, Word, Owns, Filling,
     MemAck, IsAccess, HitAny, Hit, DataOut
<1> QED
  BY <1>1, <1>2, <1>3, <1>4, <1>5, <1>6, <1>7, <1>8, <1>9, <1>10, <1>11, <1>12, <1>13, <1>14,
     <1>15, <1>16 DEF Next

\* At power up the words are those of memory, and nothing is asked.
LEMMA PortInit == Init => MP!Init
<1> SUFFICES ASSUME Init PROVE MP!Init
  OBVIOUS
<1>1. \A a \in Addr : Word(a) = MemInit[a]
  BY DEF Init, Word, MemAck, Owns
<1>2. [a \in Addr |-> Word(a)] = MemInit
  BY <1>1
<1> QED BY <1>2 DEF Init, MP!Init, MP!Idle, MP!Quiet, NoReq, MemAck

\* Whatever is asked of dcache_core.v, every cycle but the one of
\* STATE_INVALIDATE is a step of the port of a plain memory: a read returns
\* the word last written, and no refill, eviction or flush changes a word.
THEOREM TransparentButInvalidate ==
    Spec => MP!Init /\ [][~Invalidate => [MP!Next]_(MP!vars)]_vars
<1>1. DataInductive /\ DataInductive' /\ [Next]_vars => [~Invalidate => [MP!Next]_(MP!vars)]_vars
  BY PortStep
<1> QED BY <1>1, PortInit, DataInductiveAlways, PTL DEF Spec

\* A requester that reads, writes, writes back and flushes sees a memory, for
\* every size and contents of the cache: Transparent, without invalidates.
THEOREM CoherentTransparent ==
    ASSUME \A r \in Requests : r.op # "inval"
    PROVE  Spec => Transparent
<1> DEFINE Tame == mem_m.op # "inval"
<1>1. Init => Tame
  BY DEF Init, NoReq
<1>2. DataInductive /\ Tame /\ [Next]_vars => Tame'
  <2> SUFFICES ASSUME DataInductive, Tame, [Next]_vars, mem_m' # mem_m PROVE Tame'
    OBVIOUS
  <2>1. PICK r \in Inputs : Lookup(r) \/ LookupHold(r)
    BY DEF Next, vars, Reset, MissRefill, EvictRefill, MissEvict, RefillAccept, RefillBeat, ReadDone,
           WriteDone, EvictStall, EvictBeat, EvictWrittenBack, EvictFlushed, Writeback, Invalidate,
           FlushAddr, FlushClean, FlushEvict, FlushNextWay
  <2> QED BY <2>1 DEF Lookup, LookupHold, Inputs, NoReq
<1>3. DataInductive /\ DataInductive' /\ Tame /\ [Next]_vars => [MP!Next]_(MP!vars)
  <2> SUFFICES ASSUME DataInductive, DataInductive', Tame, [Next]_vars PROVE [MP!Next]_(MP!vars)
    OBVIOUS
  <2>1. ~Invalidate
    BY StepTypes DEF Invalidate, OpInState
  <2> QED BY <2>1, PortStep
<1> HIDE DEF Tame
<1> QED BY <1>1, <1>2, <1>3, PortInit, DataInductiveAlways, PTL DEF Spec, Transparent, MP!Spec

\* To a tame requester TamePort is MP, to any other it is a port nobody uses.
LEMMA TameMapping ==
    /\ tame => /\ MP!Init => TamePort!Init
               /\ tame' /\ [MP!Next]_(MP!vars) => [TamePort!Next]_(TamePort!vars)
    /\ ~tame => /\ TamePort!Init
                /\ ~tame' => UNCHANGED TamePort!vars
<1> DEFINE req   == IF tame /\ mem_m.op # "none" THEN mem_m ELSE [op |-> "none"]
           store == IF tame THEN Store ELSE MemInit
           resp  == IF ~tame \/ ~MemAck THEN [valid |-> FALSE]
                    ELSE IF mem_m.op = "rd" THEN [valid |-> TRUE, data |-> DataOut]
                    ELSE [valid |-> TRUE]
<1>1. tame => req = Req /\ store = Store /\ resp = Resp
  BY DEF Req, Resp
<1>2. tame' => req' = Req' /\ store' = Store' /\ resp' = Resp'
  BY DEF Req, Resp
<1>3. tame => (MP!Init => TamePort!Init)
  BY DEF MP!Init, TamePort!Init, MP!Idle, TamePort!Idle, MP!Quiet, TamePort!Quiet
<1>4. ASSUME tame, tame', UNCHANGED MP!vars PROVE UNCHANGED TamePort!vars
  BY <1>4 DEF MP!vars, TamePort!vars
<1>5. ASSUME tame, tame', MP!Next PROVE TamePort!Next
  <2>1. ASSUME NEW r, MP!Serve(r) PROVE TamePort!Serve(r)
    BY <1>5, <2>1 DEF MP!Serve, TamePort!Serve, MP!Answer, TamePort!Answer, MP!Done, TamePort!Done,
                     MP!Quiet, TamePort!Quiet
  <2>2. ASSUME NEW r, MP!Take(r) PROVE TamePort!Take(r)
    BY <1>5, <2>2 DEF MP!Take, TamePort!Take, MP!Free, TamePort!Free, MP!Quiet, TamePort!Quiet
  <2>3. ASSUME NEW r, MP!TakeAndServe(r) PROVE TamePort!TakeAndServe(r)
    BY <1>5, <2>1, <2>3 DEF MP!TakeAndServe, TamePort!TakeAndServe, MP!Free, TamePort!Free
  <2>4. MP!Respond => TamePort!Respond
    BY <1>5, <2>1 DEF MP!Respond, TamePort!Respond
  <2> QED BY <1>5, <2>2, <2>3, <2>4 DEF MP!Next, TamePort!Next, MP!Idle, TamePort!Idle
<1>6. ~tame => TamePort!Init
  BY DEF TamePort!Init, TamePort!Idle, TamePort!Quiet
<1>7. ASSUME ~tame, ~tame' PROVE UNCHANGED TamePort!vars
  BY <1>7 DEF TamePort!vars
<1> QED BY <1>3, <1>4, <1>5, <1>6, <1>7

\* The requesters of the run: to the tame one, which reads, writes and
\* flushes, dcache_core.v is a memory, whatever the sizes of the cache.
THEOREM TameTransparent == MCSpec => TransparentIfTame
<1> DEFINE NoInval == tame => mem_m.op # "inval"
<1>1. MCInit => DataInductive /\ NoInval /\ TamePort!Init
  BY InitData, PortInit, TameMapping DEF MCInit, Init, NoReq
<1>2. DataInductive /\ NoInval /\ [MCNext]_<<vars, tame>> => NoInval' /\ [Next]_vars
  <2> SUFFICES ASSUME DataInductive, NoInval, [MCNext]_<<vars, tame>> PROVE NoInval' /\ [Next]_vars
    OBVIOUS
  <2>1. tame' = tame /\ [Next]_vars
    BY DEF MCNext
  <2>2. \A r \in CoherentRequests : r.op # "inval"
    BY DEF CoherentRequests, Rd, Wr, Op
  <2>3. tame => mem_m'.op # "inval"
    BY <2>2 DEF MCNext, vars
  <2> QED BY <2>1, <2>3
<1>3. DataInductive /\ [Next]_vars => DataInductive'
  BY DataStep
<1>4. DataInductive /\ DataInductive' /\ NoInval /\ [Next]_vars /\ tame' = tame
          => [TamePort!Next]_(TamePort!vars)
  <2> SUFFICES ASSUME DataInductive, DataInductive', NoInval, [Next]_vars, tame' = tame
               PROVE  [TamePort!Next]_(TamePort!vars)
    OBVIOUS
  <2>1. CASE tame
    <3>1. ~Invalidate
      BY <2>1, StepTypes DEF Invalidate, OpInState
    <3> QED BY <2>1, <3>1, PortStep, TameMapping
  <2>2. CASE ~tame
    BY <2>2, TameMapping
  <2> QED BY <2>1, <2>2
<1>5. [MCNext]_<<vars, tame>> => tame' = tame
  BY DEF MCNext
<1> HIDE DEF NoInval
<1> QED BY <1>1, <1>2, <1>3, <1>4, <1>5, PTL DEF MCSpec, TransparentIfTame, TamePort!Spec
=============================================================================
