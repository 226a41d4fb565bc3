------------------------------ MODULE Frontend ------------------------------
(* From memory to the issue stage: the instruction cache (icache.v), the     *)
(* fetch unit (biriscv_fetch.v), the decode buffer and the queue behind it   *)
(* (biriscv_decode.v), and of the issue stage (biriscv_issue.v) what it      *)
(* takes from the queue.  A step is one clock cycle of all of them.          *)
(*                                                                           *)
(* The core runs in machine mode, so the MMU between fetch and the cache     *)
(* passes requests and answers on.  An address counts words of four bytes, a *)
(* pair is what one fetch returns.  A word of code is its address and the    *)
(* version of what is there, so a word from a wrong place shows, and a stale *)
(* one.  The predictor (biriscv_npc.v) guesses anything it may have learnt.  *)
EXTENDS Naturals, Sequences

CONSTANTS
    NumTags, NumSets, LinePairs,  \* code has NumTags lines for each set
    Branch,       \* the targets of the instruction at each address, if it is a branch
    Fences,       \* the addresses that hold a fence.i
    Traps,        \* where traps and returns lead
    ResetVector,
    Patched,      \* the address of a word that a store may change
    PowerUp       \* what the tag RAMs may hold before reset

Ways  == 0 .. 1
Sets  == 0 .. NumSets - 1
NumPairs == NumTags * NumSets * LinePairs
Pairs == 0 .. NumPairs - 1
Pc    == 0 .. 2 * NumPairs - 1
Invalid == NumTags              \* a tag entry without its valid bit
TagEntry == 0 .. NumTags
Word  == Pc \X (0 .. 1)
NoWord == <<>>                  \* a cell nobody has written, an output nobody looks at
Cell  == (Word \cup {NoWord}) \X (Word \cup {NoWord})
NoCell == <<NoWord, NoWord>>
Row   == Sets \X (0 .. LinePairs - 1)    \* the address of a data RAM
Entry == [pair : Pairs, words : Cell, v0 : BOOLEAN, v1 : BOOLEAN, next : Pc]
None  == [valid |-> FALSE]

ASSUME SizeAssumption == NumTags \in Nat \ {0} /\ NumSets \in Nat \ {0} /\ LinePairs \in Nat \ {0}
ASSUME InputAssumption ==
    /\ Branch \in [Pc -> SUBSET Pc] /\ Fences \subseteq Pc /\ Traps \subseteq Pc
    /\ ResetVector \in Pc /\ Patched \in Pc
    /\ \A f \in Fences : Branch[f] = {}
    /\ PowerUp \subseteq [Ways -> [Sets -> TagEntry]]

VARIABLES
    \* icache.v
    state_q, lookup_valid_q, lookup_addr_q,
    tags, data, tag_out, data_out,    \* the RAMs and their outputs
    flush_addr_q, replace_way_q,
    refill_word_idx_q, refill_lower_q, data_write_addr_q,
    \* biriscv_fetch.v
    active_q, branch_q, branch_pc_q, icache_fetch_q,
    pc_f_q, branch_d_q, pc_d_q,
    pred_d_q,         \* the lower word is predicted to branch
    skid,             \* skid_buffer_q, None if not valid
    next_d,           \* history: where fetch goes after pc_d_q
    \* biriscv_decode.v
    buffer,           \* fetch_buffer_q
    fifo,
    \* the core
    pc_x_q,           \* the next instruction to issue
    csr,              \* a fence.i: "pulse" in E1, "pending" until its branch; "reset"
    version,          \* what memory holds at Patched
    flushed,          \* history: what it held when the cache last heeded a fence.i
    fenced            \* history: what it held when a fence.i was last completed

cacheVars == <<state_q, lookup_valid_q, lookup_addr_q, tags, data, tag_out, data_out, flush_addr_q,
               replace_way_q, refill_word_idx_q, refill_lower_q, data_write_addr_q>>
fetchVars == <<active_q, branch_q, branch_pc_q, icache_fetch_q, pc_f_q, branch_d_q, pc_d_q, pred_d_q,
               skid, next_d>>
coreVars  == <<pc_x_q, csr, version, flushed, fenced>>
vars == <<cacheVars, fetchVars, buffer, fifo, coreVars>>

PairOf(a) == a \div 2
SetOf(p)  == (p \div LinePairs) % NumSets
TagOf(p)  == p \div (LinePairs * NumSets)
RowOf(p)  == <<SetOf(p), p % LinePairs>>
Plus(a, n) == (a + n) % (2 * NumPairs)
CodeAt(a) == <<a, IF a = Patched THEN version ELSE 0>>

-----------------------------------------------------------------------------
(* The instruction cache *)

\* Mutation: only one way is compared.
Hit_OneWay(w) == w = 0 /\ tag_out[w] = TagOf(lookup_addr_q)
Hit(w) == tag_out[w] = TagOf(lookup_addr_q)
HitAny == \E w \in Ways : Hit(w)

IcacheValid  == state_q = "LOOKUP" /\ lookup_valid_q /\ HitAny
Miss         == state_q = "LOOKUP" /\ lookup_valid_q /\ ~HitAny
IcacheAccept == state_q = "LOOKUP" /\ ~Miss
IcacheInst   == data_out[IF Hit(0) THEN 0 ELSE 1]

\* The fence.i in E1 asks for a flush, for this one cycle.
FlushReq == csr = "pulse"

LastBeat(beat) == beat /\ refill_word_idx_q = 2 * LinePairs - 1

\* Mutation: the walk of a flush leaves the last line out.
FlushEnds_Early == flush_addr_q + 2 >= NumSets
FlushEnds == flush_addr_q = NumSets - 1

NextState(beat) ==
    CASE state_q = "FLUSH"    -> IF FlushEnds THEN "LOOKUP" ELSE "FLUSH"
      [] state_q = "LOOKUP"   -> IF Miss THEN "REFILL" ELSE IF FlushReq THEN "FLUSH" ELSE "LOOKUP"
      [] state_q = "REFILL"   -> IF LastBeat(beat) THEN "RELOOKUP" ELSE "REFILL"
      [] state_q = "RELOOKUP" -> "LOOKUP"

\* The RAMs are read first: a read in the cycle of a write returns what was there before.
TagAddr == CASE state_q = "FLUSH" -> flush_addr_q
             [] state_q \in {"REFILL", "RELOOKUP"} -> SetOf(lookup_addr_q)
             [] OTHER -> SetOf(PairOf(pc_f_q))
DataAddr == IF state_q = "RELOOKUP" THEN RowOf(lookup_addr_q) ELSE RowOf(PairOf(pc_f_q))

TagRams(beat) ==
    tags' = IF state_q = "FLUSH"
            THEN [w \in Ways |-> [tags[w] EXCEPT ![flush_addr_q] = Invalid]]
            ELSE IF state_q = "REFILL" /\ LastBeat(beat)
            THEN [tags EXCEPT ![replace_way_q][TagAddr] = TagOf(lookup_addr_q)]
            ELSE tags

\* The word that memory sends with the next beat of the line.
BeatWord == CodeAt(2 * LinePairs * (lookup_addr_q \div LinePairs) + refill_word_idx_q)

\* A cell is written with every beat; the second one completes it.
DataRams(beat) ==
    data' = IF state_q = "REFILL" /\ beat /\ refill_word_idx_q % 2 = 1
            THEN [data EXCEPT ![replace_way_q][data_write_addr_q] = <<refill_lower_q, BeatWord>>]
            ELSE data

NextRow(row) == <<row[1], (row[2] + 1) % LinePairs>>

Refill(beat) ==
    LET beats == state_q = "REFILL" /\ beat
    IN  /\ refill_word_idx_q' = IF beats THEN (refill_word_idx_q + 1) % (2 * LinePairs) ELSE refill_word_idx_q
        /\ refill_lower_q' = IF ~beats THEN refill_lower_q
                             ELSE IF refill_word_idx_q % 2 = 0 THEN BeatWord ELSE NoWord
        /\ data_write_addr_q' = IF Miss THEN <<SetOf(lookup_addr_q), 0>>
                                ELSE IF beats /\ refill_word_idx_q % 2 = 1 THEN NextRow(data_write_addr_q)
                                ELSE data_write_addr_q
        /\ replace_way_q' = IF beats /\ LastBeat(beat) THEN 1 - replace_way_q ELSE replace_way_q

\* One cycle of the cache; taken says that it accepts a request for the pair at
\* pc_f_q.  An output is kept only for a lookup that will look at it.
Icache(taken, beat) ==
    /\ state_q' = NextState(beat)
    /\ lookup_valid_q' = IF taken THEN TRUE ELSE IF IcacheValid THEN FALSE ELSE lookup_valid_q
    /\ lookup_addr_q' = IF taken THEN PairOf(pc_f_q) ELSE lookup_addr_q
    /\ flush_addr_q' = IF state_q = "FLUSH" THEN (flush_addr_q + 1) % NumSets ELSE 0
    /\ TagRams(beat) /\ DataRams(beat) /\ Refill(beat)
    /\ IF state_q' = "LOOKUP" /\ lookup_valid_q'
       THEN /\ tag_out' = [w \in Ways |-> tags[w][TagAddr]]
            /\ data_out' = [w \in Ways |-> data[w][DataAddr]]
       ELSE /\ tag_out' = [w \in Ways |-> Invalid]
            /\ data_out' = [w \in Ways |-> NoCell]

-----------------------------------------------------------------------------
(* The fetch unit *)

\* Mutation: the queue is taken to have room when it is full.
FetchAccept_Full == Len(fifo) <= 2
FetchAccept == Len(fifo) < 2     \* accept_o of fetch_fifo
Busy    == icache_fetch_q /\ ~IcacheValid
Stall   == ~FetchAccept \/ Busy \/ ~IcacheAccept
Taken   == active_q /\ FetchAccept /\ ~Busy /\ IcacheAccept

\* What the predictor may say of a fetch at a: where it goes on, and whether the
\* lower of the two words is the one that branches.
\* Mutation: the lower word is named even when the fetch starts behind it.
MayBranchLow_Any(a) == TRUE
MayBranchLow(a) == a % 2 = 0
Guesses(a) ==
    LET low == 2 * PairOf(a)
    IN  {[next |-> Plus(low, 2), low |-> FALSE]}
        \cup {[next |-> t, low |-> TRUE] : t \in IF MayBranchLow(a) THEN Branch[low] ELSE {}}
        \cup {[next |-> t, low |-> FALSE] : t \in Branch[low + 1]}

\* An answer to a fetch from before a branch is dropped.
Drop == branch_q \/ branch_d_q
FetchValid == (IcacheValid \/ skid # None) /\ ~Drop
FetchOut ==
    IF skid # None THEN skid
    ELSE [pair |-> PairOf(pc_d_q), words |-> IcacheInst, v0 |-> TRUE, v1 |-> ~pred_d_q, next |-> next_d]

\* Mutation: an answer that is refused is not kept if the cache would take a request.
Refused_Stalled == FetchValid /\ ~FetchAccept /\ ~IcacheAccept
Refused == FetchValid /\ ~FetchAccept

\* One cycle; request says that the core branches to target.
Fetch(request, target, guess) ==
    /\ branch_q' = IF request THEN TRUE ELSE IF Taken THEN FALSE ELSE branch_q
    /\ branch_pc_q' = IF request THEN target ELSE IF Taken THEN 0 ELSE branch_pc_q
    /\ active_q' = (active_q \/ (branch_q /\ ~Stall))
    /\ icache_fetch_q' = IF Taken THEN TRUE ELSE IF IcacheValid THEN FALSE ELSE icache_fetch_q
    /\ pc_f_q' = IF Stall THEN pc_f_q ELSE IF branch_q THEN branch_pc_q ELSE guess.next
    /\ branch_d_q' = IF Stall THEN branch_d_q ELSE branch_q
    /\ pc_d_q' = IF Taken THEN pc_f_q ELSE pc_d_q
    /\ next_d' = IF Taken THEN guess.next ELSE next_d
    /\ pred_d_q' = IF Taken THEN guess.low ELSE IF IcacheValid THEN FALSE ELSE pred_d_q
    /\ skid' = IF Refused THEN FetchOut ELSE None

-----------------------------------------------------------------------------
(* The decode buffer, the queue and what the issue stage takes from it *)

\* The words of the head that are left when those in "pops" are taken.
Left(q, pops) ==
    LET h == [q[1] EXCEPT !.v0 = @ /\ 0 \notin pops, !.v1 = @ /\ 1 \notin pops]
    IN  IF q = <<>> THEN q
        ELSE IF h.v0 \/ h.v1 THEN <<h>> \o Tail(q) ELSE Tail(q)

Decode(request, pops) ==
    /\ buffer' = IF request THEN None
                 ELSE IF buffer = None \/ FetchAccept THEN IF FetchValid THEN FetchOut ELSE None
                 ELSE buffer
    /\ fifo' = IF request THEN <<>>
               ELSE IF buffer # None /\ FetchAccept THEN Append(Left(fifo, pops), buffer)
               ELSE Left(fifo, pops)

Valid(i) == fifo # <<>> /\ (IF i = 0 THEN fifo[1].v0 ELSE fifo[1].v1)
Wanted(i) == Valid(i) /\ 2 * fifo[1].pair + i = pc_x_q
Slot0 == Wanted(0)
Slot1 == ~Slot0 /\ Wanted(1)
\* Neither word is the expected one.
Mispredicted == (Valid(0) \/ Valid(1)) /\ ~Slot0 /\ ~Slot1

\* Mutation: a CSR instruction under way does not hold up the next one.
CanIssue_Always == csr # "reset"
CanIssue == csr = "none"

\* A store may change the word while no fence is under way.
Store ==
    /\ version' \in IF csr = "none" THEN {version, 1} ELSE {version}
    /\ flushed' = IF FlushReq /\ IcacheAccept THEN version ELSE flushed

Cycle(request, target, pops, beat) ==
    /\ \E guess \in Guesses(pc_f_q) : Fetch(request, target, guess)
    /\ Icache(Taken, beat) /\ Decode(request, pops) /\ Store

\* A trap, a return, the end of a fence.i or of reset: the branch of the CSR unit.
CsrBranch(beat) ==
    \E t \in CASE csr = "reset"   -> {ResetVector}
               [] csr = "pending" -> Traps \cup {pc_x_q}
               [] OTHER           -> Traps :
        /\ Cycle(TRUE, t, {}, beat)
        /\ pc_x_q' = t /\ csr' = "none"
        /\ fenced' = IF csr = "pending" /\ t = pc_x_q THEN version ELSE fenced

CsrNext == IF csr = "pulse" THEN "pending" ELSE csr

\* The queue does not hold what comes next: fetch is sent for it.
Mispredict(beat) ==
    /\ Mispredicted
    /\ Cycle(TRUE, pc_x_q, {}, beat)
    /\ csr' = CsrNext /\ UNCHANGED <<pc_x_q, fenced>>

\* One instruction is issued, or two; a branch may be taken.
IssueOne(beat) ==
    /\ CanIssue /\ (Slot0 \/ Slot1)
    /\ Cycle(FALSE, 0, IF Slot0 THEN {0} ELSE {0, 1}, beat)
    /\ pc_x_q' \in {Plus(pc_x_q, 1)} \cup Branch[pc_x_q]
    /\ csr' = IF pc_x_q \in Fences THEN "pulse" ELSE csr
    /\ UNCHANGED fenced
IssueTwo(beat) ==
    /\ CanIssue /\ Slot0 /\ Valid(1)
    /\ Branch[pc_x_q] = {} /\ {pc_x_q, Plus(pc_x_q, 1)} \cap Fences = {}
    /\ Cycle(FALSE, 0, {0, 1}, beat)
    /\ pc_x_q' \in {Plus(pc_x_q, 2)} \cup Branch[Plus(pc_x_q, 1)]
    /\ UNCHANGED <<csr, fenced>>
Issue(beat) == IssueOne(beat) \/ IssueTwo(beat)

\* Nothing is issued; a lower word behind which the code goes on is taken off.
Hold(beat) ==
    /\ csr # "reset" /\ ~Mispredicted
    /\ Cycle(FALSE, 0, IF Slot1 THEN {0} ELSE {}, beat)
    /\ csr' = CsrNext /\ UNCHANGED <<pc_x_q, fenced>>

-----------------------------------------------------------------------------
\* Reset: the cache walks its tags, the core asks for the reset vector.
Init ==
    /\ state_q = "FLUSH" /\ lookup_valid_q = FALSE /\ lookup_addr_q = 0
    /\ tags \in PowerUp /\ data = [w \in Ways |-> [r \in Row |-> NoCell]]
    /\ tag_out = [w \in Ways |-> Invalid] /\ data_out = [w \in Ways |-> NoCell]
    /\ flush_addr_q = 0 /\ replace_way_q = 0
    /\ refill_word_idx_q = 0 /\ refill_lower_q = NoWord /\ data_write_addr_q = <<0, 0>>
    /\ active_q = FALSE /\ branch_q = FALSE /\ branch_pc_q = 0 /\ icache_fetch_q = FALSE
    /\ pc_f_q = 0 /\ branch_d_q = FALSE /\ pc_d_q = 0 /\ pred_d_q = FALSE
    /\ skid = None /\ next_d = 0
    /\ buffer = None /\ fifo = <<>>
    /\ pc_x_q = 0 /\ csr = "reset"
    /\ version = 0 /\ flushed = 0 /\ fenced = 0

Step(beat) == CsrBranch(beat) \/ Mispredict(beat) \/ Issue(beat) \/ Hold(beat)
Next == \E beat \in BOOLEAN : Step(beat)

Spec == Init /\ [][Next]_vars

\* The clock runs, memory sends the beats of a burst, what can be issued is
\* not held up for ever, and a fence.i reaches write back.
FairSpec ==
    /\ Spec
    /\ WF_vars(Next)
    /\ WF_vars(state_q = "REFILL" /\ Step(TRUE))
    /\ WF_vars(\E beat \in BOOLEAN : Issue(beat))
    /\ WF_vars(csr = "pending" /\ \E beat \in BOOLEAN : CsrBranch(beat))

-----------------------------------------------------------------------------
TypeOK ==
    /\ state_q \in {"FLUSH", "LOOKUP", "REFILL", "RELOOKUP"}
    /\ lookup_valid_q \in BOOLEAN /\ lookup_addr_q \in Pairs
    /\ tags \in [Ways -> [Sets -> TagEntry]] /\ data \in [Ways -> [Row -> Cell]]
    /\ tag_out \in [Ways -> TagEntry] /\ data_out \in [Ways -> Cell]
    /\ flush_addr_q \in Sets /\ replace_way_q \in Ways
    /\ refill_word_idx_q \in 0 .. 2 * LinePairs - 1 /\ refill_lower_q \in Word \cup {NoWord}
    /\ data_write_addr_q \in Row
    /\ {active_q, branch_q, icache_fetch_q, branch_d_q, pred_d_q} \subseteq BOOLEAN
    /\ {branch_pc_q, pc_f_q, pc_d_q, next_d, pc_x_q} \subseteq Pc
    /\ skid \in Entry \cup {None} /\ buffer \in Entry \cup {None}
    /\ fifo \in Seq(Entry) /\ Len(fifo) <= 2
    /\ csr \in {"none", "pulse", "pending", "reset"}
    /\ {version, flushed, fenced} \subseteq 0 .. 1

\* The word the issue stage may take.
Offered(i) == CanIssue /\ (IF i = 0 THEN Slot0 ELSE Slot1 \/ (Slot0 /\ Valid(1)))
OfferedWord(i) == fifo[1].words[i + 1]
Stale(i, since) == Offered(i) /\ \E v \in 0 .. since - 1 : OfferedWord(i) = <<Patched, v>>

\* What is issued as the instruction at an address is the code of that address
\* (biriscv_issue.v:241-247 compares addresses only): whatever refills, branches,
\* flushes and refusals came between the fetch and its answer.
IssuesCode ==
    \A i \in 0 .. 1 : Offered(i) =>
        OfferedWord(i) # NoWord /\ OfferedWord(i)[1] = 2 * fifo[1].pair + i

\* A fence.i that finds the cache in its lookup state (icache.v:456) keeps its
\* word: nothing older than it is issued after it, out of the cache, a lookup
\* under way, or a buffer.
FreshAfterFlush == \A i \in 0 .. 1 : ~Stale(i, flushed)

\* "Invalidate a line / flush cache" (icache.v:455): after any fence.i that has
\* completed no instruction is issued that is older than it.
FenceFlushes == \A i \in 0 .. 1 : ~Stale(i, fenced)

\* No line is in both ways, or they would be replaced, and hit, at odds
\* (icache.v:420-426).
OneCopy ==
    state_q # "FLUSH" => \A s \in Sets : tags[0][s] = tags[1][s] => tags[0][s] = Invalid

\* What waits in front of the issue stage, oldest first, is one run of the path
\* the predictor chose: nothing in it is lost when the queue is full, the cache stalls or a
\* branch comes in (biriscv_fetch.v:274-296).  A pair may be there twice (see the README).
Waiting == fifo \o (IF buffer = None THEN <<>> ELSE <<buffer>>) \o (IF skid = None \/ Drop THEN <<>> ELSE <<skid>>)
PathKept ==
    \A k \in 1 .. Len(Waiting) - 1 :
        \/ Waiting[k + 1].pair = PairOf(Waiting[k].next)
        \/ Waiting[k + 1] = Waiting[k]
        \/ k = 1 /\ [Waiting[2] EXCEPT !.v0 = Waiting[1].v0, !.v1 = Waiting[1].v1] = Waiting[1]

\* An instruction is issued again and again, unless traps keep coming: a wrong
\* prediction costs one refetch, and no prediction keeps the wanted word from
\* being delivered for ever.
Progress == []<><<\E beat \in BOOLEAN : Issue(beat) \/ CsrBranch(beat)>>_vars
=============================================================================
