-------------------------- MODULE Frontend_proofs --------------------------
(* Proofs about instruction delivery, for every size of the cache, every     *)
(* code, every place of a fence.i, every trap and reset vector and every     *)
(* contents of the tag RAMs at power up: the invariants of Frontend.         *)
(*                                                                           *)
(* A tag entry, once the walk of a flush is over, names a line whose words   *)
(* are in the data RAM (Filled), unless a refill is putting them there       *)
(* (Filling).  A lookup reads the RAMs as they are, or its answer will be    *)
(* dropped (Trusted): only then may a flush have come in between.  So every  *)
(* word in the buffers behind the cache is the code of its address and not   *)
(* older than the last flush (Queued).                                       *)
(*                                                                           *)
(* The run of the path needs an invariant of its own, Control and Run: where *)
(* fetch is, whenever it is not on its way to a branch, is where the newest  *)
(* waiting entry goes on.                                                    *)
EXTENDS Frontend, TLAPS

\* p and q are pairs of one line of the cache.
SameLine(p, q) == SetOf(p) = SetOf(q) /\ TagOf(p) = TagOf(q)

\* What a quotient and its remainder are.
LEMMA Division ==
    ASSUME NEW a \in Nat, NEW d \in Nat \ {0}
    PROVE  /\ a \div d \in Nat /\ a % d \in Nat /\ a % d < d
           /\ a = d * (a \div d) + (a % d)
OBVIOUS

\* A quotient is known by what it leaves.
LEMMA Quotient ==
    ASSUME NEW a \in Nat, NEW d \in Nat \ {0}, NEW q \in Nat, NEW r \in Nat, r < d, a = d * q + r
    PROVE  a \div d = q /\ a % d = r
<1>1. a = d * (a \div d) + (a % d) /\ a \div d \in Nat /\ a % d \in Nat /\ a % d < d
  BY Division
<1>2. ~(a \div d < q)
  <2> SUFFICES ASSUME a \div d < q PROVE FALSE
    OBVIOUS
  <2>1. d * (a \div d + 1) <= d * q
    BY <1>1
  <2> QED BY <1>1, <2>1
<1>3. ~(a \div d > q)
  <2> SUFFICES ASSUME q < a \div d PROVE FALSE
    BY <1>1
  <2>1. d * (q + 1) <= d * (a \div d)
    BY <1>1
  <2> QED BY <1>1, <2>1
<1> QED BY <1>1, <1>2, <1>3

\* The quotient of a number below n times d is below n.
LEMMA QuotientBound ==
    ASSUME NEW a \in Nat, NEW d \in Nat \ {0}, NEW n \in Nat, a < n * d
    PROVE  a \div d < n
<1>1. a = d * (a \div d) + (a % d) /\ a \div d \in Nat /\ a % d \in Nat /\ a % d < d
  BY Division
<1> SUFFICES ASSUME n <= a \div d PROVE FALSE
  BY <1>1
<1>2. d * n <= d * (a \div d)
  BY <1>1
<1> QED BY <1>1, <1>2

\* The pairs of the code are those of its lines, counted in either order.
LEMMA Sizes ==
    /\ NumPairs \in Nat \ {0} /\ LinePairs * NumSets \in Nat \ {0} /\ NumTags * NumSets \in Nat
    /\ NumPairs = NumTags * (LinePairs * NumSets)
    /\ NumPairs = (NumTags * NumSets) * LinePairs
<1>1. NumTags * NumSets \in Nat \ {0} /\ LinePairs * NumSets \in Nat \ {0}
  BY SizeAssumption
<1>2. (NumTags * NumSets) * LinePairs \in Nat \ {0}
  BY <1>1, SizeAssumption
<1>3. (NumTags * NumSets) * LinePairs = NumTags * (LinePairs * NumSets)
  BY SizeAssumption
<1> QED BY <1>1, <1>2, <1>3 DEF NumPairs

\* Sets, tags and rows of a pair are in range.
LEMMA PartsType ==
    ASSUME NEW p \in Pairs
    PROVE  SetOf(p) \in Sets /\ TagOf(p) \in 0 .. NumTags - 1 /\ p % LinePairs \in 0 .. LinePairs - 1
           /\ RowOf(p) \in Row
<1>1. p \in Nat /\ p < NumPairs
  BY Sizes DEF Pairs
<1>2. p \div LinePairs \in Nat /\ p % LinePairs \in 0 .. LinePairs - 1
  BY <1>1, Division, SizeAssumption
<1>3. SetOf(p) \in Sets
  BY <1>2, Division, SizeAssumption DEF SetOf, Sets
<1>4. p \div (LinePairs * NumSets) \in Nat
  BY <1>1, Sizes, Division
<1>5. p \div (LinePairs * NumSets) < NumTags
  BY <1>1, Sizes, QuotientBound, SizeAssumption
<1>6. TagOf(p) \in 0 .. NumTags - 1
  BY <1>4, <1>5, SizeAssumption DEF TagOf
<1> QED BY <1>2, <1>3, <1>6 DEF RowOf, Row

\* The pair of an address is one of the code.
LEMMA PairOfType ==
    ASSUME NEW a \in Pc
    PROVE  PairOf(a) \in Pairs
BY Sizes DEF Pc, Pairs, PairOf

\* The address after the last one is the first one.
LEMMA PlusType ==
    ASSUME NEW a \in Pc, NEW n \in 0 .. 2
    PROVE  Plus(a, n) \in Pc
BY Sizes DEF Pc, Plus

\* The pairs of a line differ in their place in it only.
LEMMA LinePlace ==
    ASSUME NEW p \in Pairs, NEW q \in Pairs, SameLine(p, q)
    PROVE  p \div LinePairs = q \div LinePairs /\ p = LinePairs * (q \div LinePairs) + (p % LinePairs)
<1> DEFINE x == p \div LinePairs
           y == q \div LinePairs
<1>1. p \in Nat /\ q \in Nat
  BY Sizes DEF Pairs
<1>2. x \in Nat /\ y \in Nat /\ p % LinePairs \in Nat /\ q % LinePairs \in Nat
      /\ p % LinePairs < LinePairs /\ q % LinePairs < LinePairs
      /\ p = LinePairs * x + (p % LinePairs) /\ q = LinePairs * y + (q % LinePairs)
  BY <1>1, Division, SizeAssumption
<1>3. ASSUME NEW n \in Nat PROVE n \div (LinePairs * NumSets) = (n \div LinePairs) \div NumSets
  <2> DEFINE u == n \div LinePairs
             v == u \div NumSets
             r == LinePairs * (u % NumSets) + (n % LinePairs)
  <2>1. u \in Nat /\ n % LinePairs \in Nat /\ n % LinePairs < LinePairs /\ n = LinePairs * u + (n % LinePairs)
    BY Division, SizeAssumption
  <2>2. v \in Nat /\ u % NumSets \in Nat /\ u % NumSets < NumSets /\ u = NumSets * v + (u % NumSets)
    BY <2>1, Division, SizeAssumption
  <2> HIDE DEF u, v
  <2>3. LinePairs * ((u % NumSets) + 1) <= LinePairs * NumSets
    BY <2>2, SizeAssumption
  <2>4. r \in Nat /\ r < LinePairs * NumSets
    BY <2>1, <2>2, <2>3, SizeAssumption
  <2>5. LinePairs * (NumSets * v + (u % NumSets)) = (LinePairs * NumSets) * v + LinePairs * (u % NumSets)
    BY <2>2, SizeAssumption
  <2>6. n = (LinePairs * NumSets) * v + r
    BY <2>1, <2>2, <2>5, SizeAssumption
  <2>7. n \div (LinePairs * NumSets) = v
    BY <2>2, <2>4, <2>6, Quotient, Sizes
  <2> QED BY <2>7 DEF u, v
<1>4. x \div NumSets = y \div NumSets /\ x % NumSets = y % NumSets
  BY <1>1, <1>3 DEF SameLine, SetOf, TagOf
<1> HIDE DEF x, y
<1>5. x = NumSets * (x \div NumSets) + (x % NumSets) /\ y = NumSets * (y \div NumSets) + (y % NumSets)
  BY <1>2, Division, SizeAssumption
<1>6. x = y
  BY <1>4, <1>5
<1> QED BY <1>2, <1>6 DEF x, y

\* Two pairs with a row and a tag in common are one.
LEMMA RowPlace ==
    ASSUME NEW p \in Pairs, NEW q \in Pairs, RowOf(p) = RowOf(q), TagOf(p) = TagOf(q)
    PROVE  p = q
<1>1. SameLine(p, q) /\ p % LinePairs = q % LinePairs
  BY DEF RowOf, SameLine
<1>2. SameLine(q, q)
  BY DEF SameLine
<1> QED BY <1>1, <1>2, LinePlace

\* The words of a burst are those of its line.
LEMMA BurstType ==
    ASSUME NEW l \in Pairs, NEW k \in 0 .. 2 * LinePairs - 1
    PROVE  2 * LinePairs * (l \div LinePairs) + k \in Pc
<1>1. l \in Nat /\ l < (NumTags * NumSets) * LinePairs
  BY Sizes DEF Pairs
<1>2. l \div LinePairs \in Nat /\ l \div LinePairs < NumTags * NumSets
  BY <1>1, Sizes, Division, QuotientBound, SizeAssumption
<1> DEFINE x == l \div LinePairs
           y == NumTags * NumSets
<1>3. x \in Nat /\ y \in Nat /\ x + 1 <= y /\ NumPairs = y * LinePairs
  BY <1>2, Sizes
<1> HIDE DEF x, y
<1>4. (x + 1) * LinePairs <= y * LinePairs
  BY <1>3, SizeAssumption
<1>5. 2 * LinePairs * x + k \in Nat /\ 2 * LinePairs * x + k < 2 * (y * LinePairs)
  BY <1>3, <1>4, SizeAssumption
<1> QED BY <1>3, <1>5, Sizes DEF Pc, x
-----------------------------------------------------------------------------
\* A step moves the cache, the fetch unit and the queue, and the CSR
\* instruction on its way.
Flow(request, pops) ==
    /\ request => pops = {}
    /\ pops # {} => fifo # <<>>
    /\ csr' = "pending" => csr \in {"pulse", "pending"}
    /\ csr \in {"pulse", "pending"} => csr' = "pending" \/ request
    /\ pc_x_q' \in Pc /\ csr' \in {"none", "pulse", "pending", "reset"} /\ fenced' \in 0 .. 1

\* The actions of the specification differ in what they ask of a cycle only.
LEMMA StepIsCycle ==
    ASSUME TypeOK, Next
    PROVE  \E request, beat \in BOOLEAN, target \in Pc, pops \in SUBSET (0 .. 1) :
              Cycle(request, target, pops, beat) /\ Flow(request, pops)
<1>0. PICK beat \in BOOLEAN : Step(beat)
  BY DEF Next
<1>t. /\ pc_x_q \in Pc /\ csr \in {"none", "pulse", "pending", "reset"}
      /\ fenced \in 0 .. 1 /\ version \in 0 .. 1 /\ 0 \in Pc /\ Plus(pc_x_q, 1) \in Pc /\ Plus(pc_x_q, 2) \in Pc
  BY Sizes, PlusType DEF TypeOK, Pc
<1>1. CASE CsrBranch(beat)
  <2>1. PICK t \in Pc : Cycle(TRUE, t, {}, beat) /\ pc_x_q' = t /\ csr' = "none"
                        /\ fenced' = IF csr = "pending" /\ t = pc_x_q THEN version ELSE fenced
    BY <1>1, <1>t, InputAssumption DEF CsrBranch
  <2>2. Flow(TRUE, {})
    BY <2>1, <1>t DEF Flow
  <2> QED BY <2>1, <2>2
<1>2. CASE Mispredict(beat)
  <2>1. Cycle(TRUE, pc_x_q, {}, beat) /\ csr' = CsrNext /\ UNCHANGED <<pc_x_q, fenced>>
    BY <1>2 DEF Mispredict
  <2>2. Flow(TRUE, {})
    BY <2>1, <1>t DEF Flow, CsrNext
  <2> QED BY <2>1, <2>2, <1>t
<1>3. CASE IssueOne(beat)
  <2> DEFINE pops == IF Slot0 THEN {0} ELSE {0, 1}
  <2>a. Cycle(FALSE, 0, pops, beat)
    BY <1>3, Zenon DEF IssueOne
  <2>b. pops \in SUBSET (0 .. 1)
    OBVIOUS
  <2>1. pops \in SUBSET (0 .. 1) /\ Cycle(FALSE, 0, pops, beat)
    BY <2>a, <2>b, Zenon
  <2> HIDE DEF pops
  <2>2. fifo # <<>> /\ csr = "none"
    BY <1>3 DEF IssueOne, CanIssue, Slot0, Slot1, Wanted, Valid
  <2>3. pc_x_q' \in Pc /\ csr' \in {"none", "pulse"} /\ fenced' = fenced
    <3>1. Branch[pc_x_q] \subseteq Pc
      BY <1>t, InputAssumption
    <3>2. pc_x_q' \in Pc
      BY <1>3, <1>t, <3>1 DEF IssueOne
    <3>3. csr' \in {"none", "pulse"}
      BY <1>3, <2>2 DEF IssueOne
    <3>4. fenced' = fenced
      BY <1>3 DEF IssueOne
    <3> QED BY <3>2, <3>3, <3>4
  <2>4. Flow(FALSE, pops)
    BY <2>2, <2>3, <1>t DEF Flow
  <2> QED BY <2>1, <2>4, <1>t
<1>4. CASE IssueTwo(beat)
  <2>1. Cycle(FALSE, 0, {0, 1}, beat)
    BY <1>4 DEF IssueTwo
  <2>2. fifo # <<>> /\ csr = "none"
    BY <1>4 DEF IssueTwo, CanIssue, Slot0, Wanted, Valid
  <2>3. pc_x_q' \in Pc /\ csr' = csr /\ fenced' = fenced
    BY <1>4, <1>t, <2>2, InputAssumption DEF IssueTwo
  <2>4. Flow(FALSE, {0, 1})
    BY <2>2, <2>3, <1>t DEF Flow
  <2>5. {0, 1} \in SUBSET (0 .. 1)
    OBVIOUS
  <2> QED BY <2>1, <2>4, <2>5, <1>t
<1>5. CASE Hold(beat)
  <2> DEFINE pops == IF Slot1 THEN {0} ELSE {}
  <2>a. Cycle(FALSE, 0, pops, beat)
    BY <1>5, Zenon DEF Hold
  <2>b. pops \in SUBSET (0 .. 1) /\ (pops # {} => Slot1)
    OBVIOUS
  <2>1. pops \in SUBSET (0 .. 1) /\ Cycle(FALSE, 0, pops, beat) /\ (pops # {} => Slot1)
    BY <2>a, <2>b, Zenon
  <2> HIDE DEF pops
  <2>2. pops # {} => fifo # <<>>
    BY <2>1 DEF Slot1, Wanted, Valid
  <2>3. pc_x_q' = pc_x_q /\ csr' = CsrNext /\ fenced' = fenced
    BY <1>5 DEF Hold
  <2>4. Flow(FALSE, pops)
    BY <2>2, <2>3, <1>t DEF Flow, CsrNext
  <2> QED BY <2>1, <2>4, <1>t
<1> QED BY <1>0, <1>1, <1>2, <1>3, <1>4, <1>5 DEF Step, Issue

-----------------------------------------------------------------------------
\* What memory holds at an address is a word.
LEMMA WordType ==
    ASSUME TypeOK, NEW a \in Pc
    PROVE  CodeAt(a) \in Word
BY DEF TypeOK, CodeAt, Word

\* Every beat of a refill brings a word of the code.
LEMMA BeatType ==
    ASSUME TypeOK
    PROVE  BeatWord \in Word
<1>1. lookup_addr_q \in Pairs /\ refill_word_idx_q \in 0 .. 2 * LinePairs - 1
  BY DEF TypeOK
<1> QED BY <1>1, BurstType, WordType DEF BeatWord

\* The predictor leads to an address of the code.
LEMMA GuessType ==
    ASSUME TypeOK, NEW guess \in Guesses(pc_f_q)
    PROVE  guess.next \in Pc /\ guess.low \in BOOLEAN
<1> DEFINE low == 2 * PairOf(pc_f_q)
<1>1. low \in Pc /\ low + 1 \in Pc
  <2>1. PairOf(pc_f_q) \in 0 .. NumPairs - 1 /\ NumPairs \in Nat
    BY PairOfType, Sizes DEF TypeOK, Pairs
  <2> QED BY <2>1 DEF Pc
<1>2. Branch[low] \subseteq Pc /\ Branch[low + 1] \subseteq Pc /\ Plus(low, 2) \in Pc
  BY <1>1, InputAssumption, PlusType
<1>3. guess = [next |-> Plus(low, 2), low |-> FALSE]
      \/ (\E t \in Branch[low] : guess = [next |-> t, low |-> TRUE])
      \/ (\E t \in Branch[low + 1] : guess = [next |-> t, low |-> FALSE])
  BY DEF Guesses
<1> HIDE DEF low
<1>4. CASE guess = [next |-> Plus(low, 2), low |-> FALSE]
  BY <1>2, <1>4
<1>5. CASE \E t \in Branch[low] : guess = [next |-> t, low |-> TRUE]
  BY <1>2, <1>5
<1>6. CASE \E t \in Branch[low + 1] : guess = [next |-> t, low |-> FALSE]
  BY <1>2, <1>6
<1> QED BY <1>3, <1>4, <1>5, <1>6

\* What is left of the queue: all of it, its head with words taken off, or its tail.
LEMMA LeftForm ==
    ASSUME NEW q \in Seq(Entry), NEW pops \in SUBSET (0 .. 1)
    PROVE  /\ Left(q, pops) \in Seq(Entry)
           /\ q = <<>> => Left(q, pops) = <<>>
           /\ q # <<>> =>
                \/ Left(q, pops) = Tail(q)
                \/ \E h \in Entry : /\ Left(q, pops) = <<h>> \o Tail(q)
                                    /\ h.pair = q[1].pair /\ h.words = q[1].words /\ h.next = q[1].next
                                    /\ h = [q[1] EXCEPT !.v0 = h.v0, !.v1 = h.v1]
<1>1. CASE q = <<>>
  BY <1>1 DEF Left
<1>2. CASE q # <<>>
  <2> DEFINE h == [q[1] EXCEPT !.v0 = @ /\ 0 \notin pops, !.v1 = @ /\ 1 \notin pops]
  <2>1. q[1] \in Entry /\ Tail(q) \in Seq(Entry)
    BY <1>2
  <2>2. h \in Entry
    BY <2>1 DEF Entry
  <2>3. /\ h.pair = q[1].pair /\ h.words = q[1].words /\ h.next = q[1].next
        /\ h = [q[1] EXCEPT !.v0 = h.v0, !.v1 = h.v1]
    BY <2>1 DEF Entry
  <2>4. Left(q, pops) = IF h.v0 \/ h.v1 THEN <<h>> \o Tail(q) ELSE Tail(q)
    BY <1>2 DEF Left
  <2>5. <<h>> \o Tail(q) \in Seq(Entry)
    BY <2>1, <2>2
  <2> QED BY <1>2, <2>1, <2>2, <2>3, <2>4, <2>5
<1> QED BY <1>1, <1>2

\* What the fetch unit offers is an entry of the queue.
LEMMA FetchOutType ==
    ASSUME TypeOK
    PROVE  FetchOut \in Entry
<1>1. CASE skid # None
  BY <1>1 DEF TypeOK, FetchOut
<1>2. CASE skid = None
  <2>1. PairOf(pc_d_q) \in Pairs /\ next_d \in Pc /\ pred_d_q \in BOOLEAN
    BY PairOfType DEF TypeOK
  <2>2. IcacheInst \in Cell
    BY DEF TypeOK, IcacheInst, Ways
  <2>3. (~pred_d_q) \in BOOLEAN /\ TRUE \in BOOLEAN
    BY <2>1
  <2>4. [pair |-> PairOf(pc_d_q), words |-> IcacheInst,
         v0 |-> TRUE, v1 |-> ~pred_d_q, next |-> next_d] \in Entry
    BY <2>1, <2>2, <2>3 DEF Entry
  <2> QED BY <1>2, <2>4 DEF FetchOut
<1> QED BY <1>1, <1>2

\* A cycle keeps the types.
LEMMA TypeStep ==
    ASSUME TypeOK, NEW request \in BOOLEAN, NEW beat \in BOOLEAN, NEW target \in Pc,
           NEW pops \in SUBSET (0 .. 1), Cycle(request, target, pops, beat), Flow(request, pops)
    PROVE  TypeOK'
<1>1. PICK guess \in Guesses(pc_f_q) : Fetch(request, target, guess)
  BY DEF Cycle
<1>2. guess.next \in Pc /\ guess.low \in BOOLEAN
  BY GuessType
<1>3. Icache(Taken, beat) /\ Decode(request, pops) /\ Store
  BY DEF Cycle
<1>p. /\ PairOf(pc_f_q) \in Pairs /\ lookup_addr_q \in Pairs /\ 0 \in Pc
      /\ SetOf(lookup_addr_q) \in Sets /\ SetOf(PairOf(pc_f_q)) \in Sets
      /\ TagOf(lookup_addr_q) \in TagEntry /\ RowOf(lookup_addr_q) \in Row /\ RowOf(PairOf(pc_f_q)) \in Row
  <2>1. PairOf(pc_f_q) \in Pairs /\ lookup_addr_q \in Pairs
    BY PairOfType DEF TypeOK
  <2>2. \A p \in Pairs : SetOf(p) \in Sets /\ TagOf(p) \in TagEntry /\ RowOf(p) \in Row
    BY PartsType, SizeAssumption DEF TagEntry
  <2>3. 0 \in Pc
    BY Sizes DEF Pc
  <2> QED BY <2>1, <2>2, <2>3
<1>4. state_q' \in {"FLUSH", "LOOKUP", "REFILL", "RELOOKUP"}
  BY <1>3 DEF TypeOK, Icache, NextState
<1>5. lookup_valid_q' \in BOOLEAN /\ lookup_addr_q' \in Pairs
  BY <1>3, <1>p DEF TypeOK, Icache
<1>6. TagAddr \in Sets /\ DataAddr \in Row
  BY <1>p DEF TypeOK, TagAddr, DataAddr
<1>7. tags' \in [Ways -> [Sets -> TagEntry]]
  <2>1. Invalid \in TagEntry
    BY SizeAssumption DEF Invalid, TagEntry
  <2>2. TagRams(beat)
    BY <1>3 DEF Icache
  <2> QED BY <2>1, <2>2, <1>6, <1>p DEF TypeOK, TagRams
<1>8. data' \in [Ways -> [Row -> Cell]]
  <2>1. DataRams(beat)
    BY <1>3 DEF Icache
  <2>2. <<refill_lower_q, BeatWord>> \in Cell
    BY BeatType DEF TypeOK, Cell
  <2> QED BY <2>1, <2>2 DEF TypeOK, DataRams
<1>9. tag_out' \in [Ways -> TagEntry] /\ data_out' \in [Ways -> Cell]
  <2>1. Invalid \in TagEntry /\ NoCell \in Cell
    BY SizeAssumption DEF Invalid, TagEntry, NoCell, Cell
  <2> QED BY <2>1, <1>3, <1>6 DEF TypeOK, Icache
<1>10. flush_addr_q' \in Sets
  <2>1. flush_addr_q \in Nat /\ (flush_addr_q + 1) % NumSets \in Sets /\ 0 \in Sets
    BY SizeAssumption DEF TypeOK, Sets
  <2> QED BY <2>1, <1>3 DEF Icache
<1>11. replace_way_q' \in Ways /\ refill_word_idx_q' \in 0 .. 2 * LinePairs - 1
       /\ refill_lower_q' \in Word \cup {NoWord} /\ data_write_addr_q' \in Row
  <2>1. Refill(beat)
    BY <1>3 DEF Icache
  <2>2. 1 - replace_way_q \in Ways
    BY DEF TypeOK, Ways
  <2>3. (refill_word_idx_q + 1) % (2 * LinePairs) \in 0 .. 2 * LinePairs - 1
    BY SizeAssumption DEF TypeOK
  <2>4. NextRow(data_write_addr_q) \in Row
    BY SizeAssumption DEF TypeOK, NextRow, Row
  <2>5. <<SetOf(lookup_addr_q), 0>> \in Row
    BY <1>p, SizeAssumption DEF Row
  <2>6. replace_way_q' \in Ways
    BY <2>1, <2>2 DEF TypeOK, Refill
  <2>7. refill_word_idx_q' \in 0 .. 2 * LinePairs - 1
    BY <2>1, <2>3 DEF TypeOK, Refill
  <2>8. refill_lower_q' \in Word \cup {NoWord}
    BY <2>1, BeatType DEF TypeOK, Refill
  <2>9. data_write_addr_q' \in Row
    BY <2>1, <2>4, <2>5 DEF TypeOK, Refill
  <2> QED BY <2>6, <2>7, <2>8, <2>9
<1>12. {active_q, branch_q, icache_fetch_q, branch_d_q, pred_d_q}' \subseteq BOOLEAN
  <2>1. active_q' \in BOOLEAN /\ branch_q' \in BOOLEAN /\ icache_fetch_q' \in BOOLEAN /\ branch_d_q' \in BOOLEAN
    BY <1>1 DEF TypeOK, Fetch
  <2>2. pred_d_q' \in BOOLEAN
    BY <1>1, <1>2 DEF TypeOK, Fetch
  <2> QED BY <2>1, <2>2
<1>13. {branch_pc_q, pc_f_q, pc_d_q, next_d, pc_x_q}' \subseteq Pc
  <2>1. branch_pc_q' \in Pc /\ pc_f_q' \in Pc /\ pc_d_q' \in Pc /\ next_d' \in Pc
    BY <1>1, <1>2, <1>p DEF TypeOK, Fetch
  <2>2. pc_x_q' \in Pc
    BY DEF Flow
  <2> QED BY <2>1, <2>2
<1>14. skid' \in Entry \cup {None}
  BY <1>1, FetchOutType DEF TypeOK, Fetch
<1>15. buffer' \in Entry \cup {None}
  BY <1>3, FetchOutType DEF TypeOK, Decode
<1>16. fifo' \in Seq(Entry) /\ Len(fifo') <= 2
  <2>1. fifo \in Seq(Entry) /\ Len(fifo) <= 2
    BY DEF TypeOK
  <2>2. Left(fifo, pops) \in Seq(Entry) /\ Len(Left(fifo, pops)) <= Len(fifo)
    <3>0. /\ Left(fifo, pops) \in Seq(Entry)
          /\ fifo = <<>> => Left(fifo, pops) = <<>>
          /\ fifo # <<>> => \/ Left(fifo, pops) = Tail(fifo)
                            \/ \E h \in Entry : Left(fifo, pops) = <<h>> \o Tail(fifo)
      BY <2>1, LeftForm, Zenon
    <3>1. CASE fifo = <<>>
      BY <3>1, <3>0, <2>1
    <3>2. CASE fifo # <<>>
      <4>1. Tail(fifo) \in Seq(Entry) /\ Len(Tail(fifo)) = Len(fifo) - 1
        BY <2>1, <3>2
      <4>2. \A h \in Entry : Len(<<h>> \o Tail(fifo)) = Len(fifo)
        BY <2>1, <4>1
      <4>3. Len(fifo) \in Nat
        BY <2>1
      <4>4. Left(fifo, pops) = Tail(fifo) => Len(Left(fifo, pops)) <= Len(fifo)
        BY <4>1, <4>3
      <4>5. ASSUME NEW h \in Entry, Left(fifo, pops) = <<h>> \o Tail(fifo)
            PROVE  Len(Left(fifo, pops)) <= Len(fifo)
        BY <4>2, <4>3, <4>5
      <4> QED BY <3>2, <4>4, <4>5, <3>0
    <3> QED BY <3>1, <3>2
  <2>3. buffer # None /\ FetchAccept => Append(Left(fifo, pops), buffer) \in Seq(Entry)
                                        /\ Len(Append(Left(fifo, pops), buffer)) <= 2
    BY <2>1, <2>2 DEF TypeOK, FetchAccept
  <2> QED BY <2>1, <2>2, <2>3, <1>3 DEF Decode
<1>17. csr' \in {"none", "pulse", "pending", "reset"}
  BY DEF Flow
<1>18. {version, flushed, fenced}' \subseteq 0 .. 1
  <2>1. version' \in 0 .. 1 /\ flushed' \in 0 .. 1
    BY <1>3 DEF TypeOK, Store
  <2>2. fenced' \in 0 .. 1
    BY DEF Flow
  <2> QED BY <2>1, <2>2
<1> QED BY <1>4, <1>5, <1>7, <1>8, <1>9, <1>10, <1>11, <1>12, <1>13, <1>14, <1>15, <1>16, <1>17, <1>18
        DEF TypeOK

\* Reset leaves the types right.
LEMMA TypeInit == Init => TypeOK
<1> SUFFICES ASSUME Init PROVE TypeOK
  OBVIOUS
<1>1. 0 \in Pairs /\ 0 \in Pc /\ 0 \in Sets /\ 0 \in Ways /\ <<0, 0>> \in Row /\ 0 \in 0 .. 2 * LinePairs - 1
  BY Sizes, SizeAssumption DEF Pairs, Pc, Sets, Ways, Row
<1>2. Invalid \in TagEntry /\ NoCell \in Cell
  BY SizeAssumption DEF Invalid, TagEntry, NoCell, Cell
<1>3. tags \in [Ways -> [Sets -> TagEntry]]
  BY InputAssumption DEF Init
<1>4. data \in [Ways -> [Row -> Cell]] /\ tag_out \in [Ways -> TagEntry] /\ data_out \in [Ways -> Cell]
  BY <1>2 DEF Init
<1>5. /\ state_q \in {"FLUSH", "LOOKUP", "REFILL", "RELOOKUP"}
      /\ lookup_valid_q \in BOOLEAN /\ lookup_addr_q \in Pairs
      /\ flush_addr_q \in Sets /\ replace_way_q \in Ways
      /\ refill_word_idx_q \in 0 .. 2 * LinePairs - 1 /\ refill_lower_q \in Word \cup {NoWord}
      /\ data_write_addr_q \in Row
  BY <1>1 DEF Init
<1>6. /\ {active_q, branch_q, icache_fetch_q, branch_d_q, pred_d_q} \subseteq BOOLEAN
      /\ {branch_pc_q, pc_f_q, pc_d_q, next_d, pc_x_q} \subseteq Pc
      /\ skid \in Entry \cup {None} /\ buffer \in Entry \cup {None}
      /\ csr \in {"none", "pulse", "pending", "reset"}
      /\ {version, flushed, fenced} \subseteq 0 .. 1
  BY <1>1 DEF Init
<1>7. fifo \in Seq(Entry) /\ Len(fifo) <= 2
  BY DEF Init
<1> QED BY <1>3, <1>4, <1>5, <1>6, <1>7 DEF TypeOK

-----------------------------------------------------------------------------
\* A word is the code of address a, and not older than version v at Patched.
Good(word, a, v) == word \in Word /\ word[1] = a /\ (a = Patched => word[2] >= v)
GoodCell(cell, p, v) == Good(cell[1], 2 * p, v) /\ Good(cell[2], 2 * p + 1, v)
GoodEntry(e) == GoodCell(e.words, e.pair, flushed)

\* What is fetched now will not be issued: a fence.i or a branch is on its way.
Discard == csr = "pending" \/ Drop

\* Fetch and cache agree on the lookup under way.
Lookups ==
    /\ lookup_valid_q = icache_fetch_q
    /\ lookup_addr_q = PairOf(pc_d_q)
    /\ state_q = "REFILL" => lookup_valid_q
    /\ ~active_q => ~lookup_valid_q
    /\ flushed <= version

\* The walk of a flush clears the sets in order, and starts again at the first.
Walk ==
    /\ state_q = "FLUSH" => \A w \in Ways, s \in Sets : s < flush_addr_q => tags[w][s] = Invalid
    /\ state_q # "FLUSH" => flush_addr_q = 0

\* A line that is fetched is in neither way.
Missing ==
    /\ state_q = "REFILL" => \A w \in Ways : tags[w][SetOf(lookup_addr_q)] # TagOf(lookup_addr_q)
    /\ state_q = "LOOKUP" /\ lookup_valid_q =>
          \A w \in Ways : tags[w][SetOf(lookup_addr_q)] \in {tag_out[w], Invalid}

\* A valid line has its words.
Filled ==
    state_q # "FLUSH" =>
        \A w \in Ways, p \in Pairs :
            /\ tags[w][SetOf(p)] = TagOf(p)
            /\ ~(state_q = "REFILL" /\ w = replace_way_q /\ SetOf(p) = SetOf(lookup_addr_q))
            => GoodCell(data[w][RowOf(p)], p, flushed)

\* So has the part of a line a refill has fetched.
Filling ==
    /\ state_q # "REFILL" => refill_word_idx_q = 0
    /\ state_q = "REFILL" =>
        /\ data_write_addr_q = <<SetOf(lookup_addr_q), refill_word_idx_q \div 2>>
        /\ \A p \in Pairs :
            /\ SameLine(p, lookup_addr_q) /\ p % LinePairs < refill_word_idx_q \div 2
            => GoodCell(data[replace_way_q][RowOf(p)], p, flushed)
        /\ refill_word_idx_q % 2 = 1 =>
            Good(refill_lower_q,
                 2 * LinePairs * (lookup_addr_q \div LinePairs) + refill_word_idx_q - 1, flushed)

\* A lookup whose answer counts sees the RAMs as they are.
Trusted ==
    lookup_valid_q /\ ~Discard =>
        /\ state_q # "FLUSH"
        /\ state_q = "LOOKUP" => \A w \in Ways :
              tag_out[w] = tags[w][SetOf(lookup_addr_q)] /\ data_out[w] = data[w][RowOf(lookup_addr_q)]

\* The words that wait to be issued are good, unless a branch is sure to come that
\* takes them back.
Queued ==
    /\ csr # "pending" => /\ \A k \in 1 .. Len(fifo) : GoodEntry(fifo[k])
                          /\ buffer # None => GoodEntry(buffer)
    /\ ~Discard /\ skid # None => GoodEntry(skid)

\* The inductive invariant.
Inductive == TypeOK /\ Lookups /\ Walk /\ Missing /\ OneCopy /\ Filled /\ Filling /\ Trusted /\ Queued

-----------------------------------------------------------------------------
\* A cycle of the cache in each of its states.
LEMMA FlushCycle ==
    ASSUME TypeOK, state_q = "FLUSH", NEW beat, Icache(Taken, beat)
    PROVE  /\ ~Taken /\ ~IcacheValid /\ ~Miss
           /\ state_q' = IF FlushEnds THEN "LOOKUP" ELSE "FLUSH"
           /\ \A w \in Ways, s \in Sets : tags'[w][s] = IF s = flush_addr_q THEN Invalid ELSE tags[w][s]
           /\ flush_addr_q' = IF FlushEnds THEN 0 ELSE flush_addr_q + 1
           /\ UNCHANGED <<lookup_valid_q, lookup_addr_q, data, refill_word_idx_q, replace_way_q>>
           /\ state_q' = "LOOKUP" /\ lookup_valid_q =>
                  \A w \in Ways : tag_out'[w] = tags[w][flush_addr_q]
<1>1. ~Taken /\ ~IcacheValid /\ ~Miss
  BY DEF Taken, IcacheAccept, IcacheValid, Miss
<1>2. state_q' = IF FlushEnds THEN "LOOKUP" ELSE "FLUSH"
  BY DEF Icache, NextState
<1>3. \A w \in Ways, s \in Sets : tags'[w][s] = IF s = flush_addr_q THEN Invalid ELSE tags[w][s]
  BY DEF Icache, TagRams, TypeOK
<1>4. flush_addr_q' = IF FlushEnds THEN 0 ELSE flush_addr_q + 1
  <2>1. flush_addr_q \in 0 .. NumSets - 1 /\ flush_addr_q' = (flush_addr_q + 1) % NumSets
    BY DEF Icache, TypeOK, Sets
  <2> QED BY <2>1, SizeAssumption DEF FlushEnds
<1>5. UNCHANGED <<lookup_valid_q, lookup_addr_q, data, refill_word_idx_q, replace_way_q>>
  BY <1>1 DEF Icache, DataRams, Refill
<1>6. state_q' = "LOOKUP" /\ lookup_valid_q => \A w \in Ways : tag_out'[w] = tags[w][flush_addr_q]
  BY <1>5 DEF Icache, TagAddr
<1> QED BY <1>1, <1>2, <1>3, <1>4, <1>5, <1>6

\* A hit ends a lookup, a miss starts a refill, a flush is heeded only without a miss.
LEMMA LookupCycle ==
    ASSUME TypeOK, state_q = "LOOKUP", NEW beat, Icache(Taken, beat)
    PROVE  /\ state_q' = IF Miss THEN "REFILL" ELSE IF FlushReq THEN "FLUSH" ELSE "LOOKUP"
           /\ Miss => ~Taken /\ ~IcacheValid /\ lookup_valid_q
           /\ IcacheValid => lookup_valid_q
           /\ ~Miss /\ ~IcacheValid => ~lookup_valid_q
           /\ lookup_valid_q' = (Taken \/ Miss)
           /\ lookup_addr_q' = IF Taken THEN PairOf(pc_f_q) ELSE lookup_addr_q
           /\ flush_addr_q' = 0
           /\ Miss => data_write_addr_q' = <<SetOf(lookup_addr_q), 0>>
           /\ UNCHANGED <<tags, data, refill_word_idx_q, replace_way_q>>
           /\ state_q' = "LOOKUP" /\ Taken =>
                  \A w \in Ways : /\ tag_out'[w] = tags[w][SetOf(PairOf(pc_f_q))]
                                  /\ data_out'[w] = data[w][RowOf(PairOf(pc_f_q))]
<1>1. /\ Miss => ~Taken /\ ~IcacheValid /\ lookup_valid_q
      /\ IcacheValid => lookup_valid_q
      /\ ~Miss /\ ~IcacheValid => ~lookup_valid_q
  BY DEF Taken, IcacheAccept, IcacheValid, Miss
<1>2. state_q' = IF Miss THEN "REFILL" ELSE IF FlushReq THEN "FLUSH" ELSE "LOOKUP"
  BY DEF Icache, NextState
<1>3. lookup_valid_q' = (Taken \/ Miss)
  BY <1>1 DEF Icache, TypeOK
<1>4. lookup_addr_q' = (IF Taken THEN PairOf(pc_f_q) ELSE lookup_addr_q) /\ flush_addr_q' = 0
  BY DEF Icache
<1>5. UNCHANGED <<tags, data, refill_word_idx_q, replace_way_q>>
  BY DEF Icache, TagRams, DataRams, Refill
<1>6. Miss => data_write_addr_q' = <<SetOf(lookup_addr_q), 0>>
  BY DEF Icache, Refill
<1>7. state_q' = "LOOKUP" /\ Taken =>
          \A w \in Ways : /\ tag_out'[w] = tags[w][SetOf(PairOf(pc_f_q))]
                          /\ data_out'[w] = data[w][RowOf(PairOf(pc_f_q))]
  BY DEF Icache, TagAddr, DataAddr
<1> QED BY <1>1, <1>2, <1>3, <1>4, <1>5, <1>6, <1>7

\* During a refill nothing moves without a beat.
LEMMA RefillCycle ==
    ASSUME TypeOK, state_q = "REFILL", NEW beat \in BOOLEAN, Icache(Taken, beat)
    PROVE  /\ ~Taken /\ ~IcacheValid /\ ~Miss
           /\ state_q' = IF LastBeat(beat) THEN "RELOOKUP" ELSE "REFILL"
           /\ UNCHANGED <<lookup_valid_q, lookup_addr_q>> /\ flush_addr_q' = 0
           /\ LastBeat(beat) =>
                /\ \A w \in Ways, s \in Sets :
                      tags'[w][s] = IF w = replace_way_q /\ s = SetOf(lookup_addr_q)
                                    THEN TagOf(lookup_addr_q) ELSE tags[w][s]
                /\ refill_word_idx_q' = 0
           /\ ~LastBeat(beat) => UNCHANGED <<tags, replace_way_q>>
           /\ ~beat => UNCHANGED <<data, refill_word_idx_q, refill_lower_q, data_write_addr_q>>
           /\ beat /\ ~LastBeat(beat) => refill_word_idx_q' = refill_word_idx_q + 1
           /\ beat /\ refill_word_idx_q % 2 = 0 =>
                data' = data /\ refill_lower_q' = BeatWord /\ data_write_addr_q' = data_write_addr_q
           /\ beat /\ refill_word_idx_q % 2 = 1 =>
                /\ \A w \in Ways, r \in Row :
                      data'[w][r] = IF w = replace_way_q /\ r = data_write_addr_q
                                    THEN <<refill_lower_q, BeatWord>> ELSE data[w][r]
                /\ data_write_addr_q' = NextRow(data_write_addr_q)
<1>1. ~Taken /\ ~IcacheValid /\ ~Miss
  BY DEF Taken, IcacheAccept, IcacheValid, Miss
<1>2. state_q' = IF LastBeat(beat) THEN "RELOOKUP" ELSE "REFILL"
  BY DEF Icache, NextState
<1>3. UNCHANGED <<lookup_valid_q, lookup_addr_q>> /\ flush_addr_q' = 0
  BY <1>1 DEF Icache
<1>4. LastBeat(beat) => \A w \in Ways, s \in Sets :
          tags'[w][s] = IF w = replace_way_q /\ s = SetOf(lookup_addr_q)
                        THEN TagOf(lookup_addr_q) ELSE tags[w][s]
  <2>1. LastBeat(beat) => tags' = [tags EXCEPT ![replace_way_q][SetOf(lookup_addr_q)] = TagOf(lookup_addr_q)]
    BY DEF Icache, TagRams, TagAddr
  <2> QED BY <2>1 DEF TypeOK
<1>5. ~LastBeat(beat) => UNCHANGED <<tags, replace_way_q>>
  BY DEF Icache, TagRams, Refill
<1>6. ~beat => UNCHANGED <<data, refill_word_idx_q, refill_lower_q, data_write_addr_q>>
  BY <1>1 DEF Icache, DataRams, Refill
<1>7. refill_word_idx_q \in 0 .. 2 * LinePairs - 1 /\ 2 * LinePairs \in Nat \ {0}
  BY SizeAssumption DEF TypeOK
<1>8. beat => refill_word_idx_q' = (refill_word_idx_q + 1) % (2 * LinePairs)
  BY DEF Icache, Refill
<1>9. LastBeat(beat) => refill_word_idx_q' = 0
  BY <1>7, <1>8 DEF LastBeat
<1>10. beat /\ ~LastBeat(beat) => refill_word_idx_q' = refill_word_idx_q + 1
  BY <1>7, <1>8 DEF LastBeat
<1>11. beat /\ refill_word_idx_q % 2 = 0 =>
           data' = data /\ refill_lower_q' = BeatWord /\ data_write_addr_q' = data_write_addr_q
  BY <1>1 DEF Icache, DataRams, Refill
<1>12. beat /\ refill_word_idx_q % 2 = 1 => data_write_addr_q' = NextRow(data_write_addr_q)
  BY <1>1 DEF Icache, Refill
<1>13. beat /\ refill_word_idx_q % 2 = 1 => \A w \in Ways, r \in Row :
           data'[w][r] = IF w = replace_way_q /\ r = data_write_addr_q
                         THEN <<refill_lower_q, BeatWord>> ELSE data[w][r]
  <2>1. beat /\ refill_word_idx_q % 2 = 1 =>
            data' = [data EXCEPT ![replace_way_q][data_write_addr_q] = <<refill_lower_q, BeatWord>>]
    BY DEF Icache, DataRams
  <2> QED BY <2>1 DEF TypeOK
<1> QED BY <1>1, <1>2, <1>3, <1>4, <1>5, <1>6, <1>9, <1>10, <1>11, <1>12, <1>13

\* After a refill the RAMs are read again for the lookup that missed.
LEMMA RelookupCycle ==
    ASSUME TypeOK, state_q = "RELOOKUP", NEW beat, Icache(Taken, beat)
    PROVE  /\ ~Taken /\ ~IcacheValid /\ ~Miss
           /\ state_q' = "LOOKUP" /\ flush_addr_q' = 0
           /\ UNCHANGED <<lookup_valid_q, lookup_addr_q, tags, data, refill_word_idx_q, replace_way_q>>
           /\ lookup_valid_q =>
                  \A w \in Ways : /\ tag_out'[w] = tags[w][SetOf(lookup_addr_q)]
                                  /\ data_out'[w] = data[w][RowOf(lookup_addr_q)]
<1>1. ~Taken /\ ~IcacheValid /\ ~Miss
  BY DEF Taken, IcacheAccept, IcacheValid, Miss
<1>2. state_q' = "LOOKUP" /\ flush_addr_q' = 0
  BY DEF Icache, NextState
<1>3. UNCHANGED <<lookup_valid_q, lookup_addr_q, tags, data, refill_word_idx_q, replace_way_q>>
  BY <1>1 DEF Icache, TagRams, DataRams, Refill
<1>4. lookup_valid_q => \A w \in Ways : /\ tag_out'[w] = tags[w][SetOf(lookup_addr_q)]
                                        /\ data_out'[w] = data[w][RowOf(lookup_addr_q)]
  BY <1>2, <1>3 DEF Icache, TagAddr, DataAddr
<1> QED BY <1>1, <1>2, <1>3, <1>4

-----------------------------------------------------------------------------
\* Fetch and cache go on agreeing on the lookup under way.
LEMMA LookupsStep ==
    ASSUME TypeOK, Lookups, NEW request \in BOOLEAN, NEW beat \in BOOLEAN, NEW target,
           NEW pops, Cycle(request, target, pops, beat)
    PROVE  Lookups'
<1>1. PICK guess \in Guesses(pc_f_q) : Fetch(request, target, guess)
  BY DEF Cycle
<1>2. Icache(Taken, beat) /\ Store
  BY DEF Cycle
<1>3. lookup_valid_q' = icache_fetch_q'
  BY <1>1, <1>2 DEF Lookups, Icache, Fetch
<1>4. lookup_addr_q' = PairOf(pc_d_q')
  BY <1>1, <1>2 DEF Lookups, Icache, Fetch
<1>5. state_q' = "REFILL" => lookup_valid_q'
  <2>1. state_q \in {"FLUSH", "LOOKUP", "REFILL", "RELOOKUP"}
    BY DEF TypeOK
  <2> QED BY <1>2, <2>1, FlushCycle, LookupCycle, RefillCycle, RelookupCycle DEF Lookups
<1>6. ~active_q' => ~lookup_valid_q'
  BY <1>1, <1>2 DEF Lookups, Icache, Fetch, Taken, TypeOK
<1>7. flushed' <= version'
  BY <1>2 DEF Lookups, Store, TypeOK
<1> QED BY <1>3, <1>4, <1>5, <1>6, <1>7 DEF Lookups

\* The walk of a flush clears one set a cycle.
LEMMA WalkStep ==
    ASSUME TypeOK, Walk, NEW beat \in BOOLEAN, Icache(Taken, beat)
    PROVE  Walk'
<1>t. flush_addr_q \in 0 .. NumSets - 1 /\ NumSets \in Nat \ {0}
  BY SizeAssumption DEF TypeOK, Sets
<1>1. CASE state_q = "FLUSH"
  <2>1. state_q' # "FLUSH" => flush_addr_q' = 0
    BY <1>1, FlushCycle
  <2>2. ASSUME state_q' = "FLUSH", NEW w \in Ways, NEW s \in Sets, s < flush_addr_q'
        PROVE  tags'[w][s] = Invalid
    <3>1. flush_addr_q' = flush_addr_q + 1
      BY <1>1, <2>2, FlushCycle
    <3>2. s = flush_addr_q \/ s < flush_addr_q
      BY <3>1, <2>2, <1>t DEF Sets
    <3>3. s < flush_addr_q => tags[w][s] = Invalid
      BY <1>1 DEF Walk
    <3>4. tags'[w][s] = IF s = flush_addr_q THEN Invalid ELSE tags[w][s]
      BY <1>1, FlushCycle
    <3> QED BY <3>2, <3>3, <3>4
  <2> QED BY <2>1, <2>2 DEF Walk
<1>2. CASE state_q # "FLUSH"
  <2>1. flush_addr_q' = 0
    BY <1>2 DEF Icache
  <2>2. \A s \in Sets : ~(s < 0)
    BY DEF Sets
  <2> QED BY <2>1, <2>2 DEF Walk
<1> QED BY <1>1, <1>2

\* The walk leaves nothing valid.
LEMMA WalkEnds ==
    ASSUME TypeOK, Walk, state_q = "FLUSH", NEW beat, Icache(Taken, beat), state_q' # "FLUSH",
           NEW w \in Ways, NEW s \in Sets
    PROVE  tags'[w][s] = Invalid
<1>1. flush_addr_q = NumSets - 1
  BY FlushCycle DEF FlushEnds
<1>2. s = flush_addr_q \/ s < flush_addr_q
  BY <1>1, SizeAssumption DEF Sets
<1>3. s < flush_addr_q => tags[w][s] = Invalid
  BY DEF Walk
<1>4. tags'[w][s] = IF s = flush_addr_q THEN Invalid ELSE tags[w][s]
  BY FlushCycle
<1> QED BY <1>2, <1>3, <1>4

\* A line is fetched only after the tags of both ways were found different.
LEMMA MissingStep ==
    ASSUME TypeOK, TypeOK', Lookups, Walk, Missing, NEW beat \in BOOLEAN, Icache(Taken, beat)
    PROVE  Missing'
<1>t. SetOf(lookup_addr_q) \in Sets /\ SetOf(lookup_addr_q') \in Sets
  BY PartsType DEF TypeOK
<1>1. CASE state_q = "FLUSH"
  <2>1. state_q' # "REFILL"
    BY <1>1, FlushCycle
  <2>2. state_q' = "LOOKUP" => \A w \in Ways : tags'[w][SetOf(lookup_addr_q')] = Invalid
    BY <1>1, <1>t, WalkEnds
  <2> QED BY <2>1, <2>2 DEF Missing
<1>2. CASE state_q = "LOOKUP"
  <2>1. ASSUME state_q' = "REFILL", NEW w \in Ways PROVE tags'[w][SetOf(lookup_addr_q')] # TagOf(lookup_addr_q')
    <3>1. Miss /\ tags' = tags /\ lookup_addr_q' = lookup_addr_q /\ lookup_valid_q
      BY <1>2, <2>1, LookupCycle
    <3>2. tags[w][SetOf(lookup_addr_q)] \in {tag_out[w], Invalid}
      BY <1>2, <3>1 DEF Missing
    <3>3. tag_out[w] # TagOf(lookup_addr_q)
      BY <3>1 DEF Miss, HitAny, Hit
    <3>4. TagOf(lookup_addr_q) # Invalid
      BY PartsType, SizeAssumption DEF TypeOK, Invalid
    <3> QED BY <3>1, <3>2, <3>3, <3>4
  <2>2. ASSUME state_q' = "LOOKUP", lookup_valid_q', NEW w \in Ways
        PROVE  tags'[w][SetOf(lookup_addr_q')] = tag_out'[w]
    <3>1. Taken /\ tags' = tags /\ lookup_addr_q' = PairOf(pc_f_q)
      BY <1>2, <2>2, LookupCycle
    <3> QED BY <1>2, <2>2, <3>1, LookupCycle
  <2> QED BY <2>1, <2>2 DEF Missing
<1>3. CASE state_q = "REFILL"
  <2>1. state_q' # "LOOKUP"
    BY <1>3, RefillCycle
  <2>2. state_q' = "REFILL" => tags' = tags /\ lookup_addr_q' = lookup_addr_q
    BY <1>3, RefillCycle
  <2> QED BY <1>3, <2>1, <2>2 DEF Missing
<1>4. CASE state_q = "RELOOKUP"
  <2>1. /\ state_q' = "LOOKUP" /\ tags' = tags
        /\ lookup_addr_q' = lookup_addr_q /\ lookup_valid_q' = lookup_valid_q
    BY <1>4, RelookupCycle
  <2>2. lookup_valid_q => \A w \in Ways : tag_out'[w] = tags[w][SetOf(lookup_addr_q)]
    BY <1>4, RelookupCycle
  <2> QED BY <2>1, <2>2 DEF Missing
<1> QED BY <1>1, <1>2, <1>3, <1>4 DEF TypeOK

\* A refill writes the tag of a line that neither way has.
LEMMA OneCopyStep ==
    ASSUME TypeOK, Walk, Missing, OneCopy, NEW beat \in BOOLEAN, Icache(Taken, beat)
    PROVE  OneCopy'
<1> SUFFICES ASSUME state_q' # "FLUSH", NEW s \in Sets, tags'[0][s] = tags'[1][s] PROVE tags'[0][s] = Invalid
  BY DEF OneCopy
<1>w. 0 \in Ways /\ 1 \in Ways /\ Ways = {0, 1}
  BY DEF Ways
<1>1. CASE state_q = "FLUSH"
  BY <1>1, <1>w, WalkEnds
<1>2. CASE state_q # "FLUSH" /\ tags' = tags
  BY <1>2 DEF OneCopy
<1>3. CASE state_q # "FLUSH" /\ tags' # tags
  <2>1. state_q = "REFILL" /\ LastBeat(beat)
    BY <1>3, LookupCycle, RefillCycle, RelookupCycle DEF TypeOK
  <2>2. \A w \in Ways : tags'[w][s] = IF w = replace_way_q /\ s = SetOf(lookup_addr_q)
                                      THEN TagOf(lookup_addr_q) ELSE tags[w][s]
    BY <2>1, RefillCycle
  <2>3. replace_way_q \in {0, 1}
    BY DEF TypeOK, Ways
  <2>4. CASE s = SetOf(lookup_addr_q)
    <3>1. tags[0][s] # TagOf(lookup_addr_q) /\ tags[1][s] # TagOf(lookup_addr_q)
      BY <2>1, <2>4, <1>w DEF Missing
    <3> QED BY <3>1, <2>2, <2>3, <2>4, <1>w
  <2>5. CASE s # SetOf(lookup_addr_q)
    BY <2>1, <2>2, <2>5, <1>w DEF OneCopy
  <2> QED BY <2>4, <2>5
<1> QED BY <1>1, <1>2, <1>3

-----------------------------------------------------------------------------
\* Only a flush that is heeded makes the words of the cache old.
LEMMA FlushedKept ==
    ASSUME TypeOK, NEW beat, Icache(Taken, beat), Store, state_q' # "FLUSH" \/ ~FlushReq
    PROVE  flushed' = flushed
<1>1. FlushReq /\ IcacheAccept => state_q = "LOOKUP" /\ ~Miss
  BY DEF IcacheAccept
<1>2. FlushReq /\ IcacheAccept => state_q' = "FLUSH"
  BY <1>1, LookupCycle
<1> QED BY <1>2 DEF Store

\* What memory sends is the code, as new as any flush.
LEMMA CodeGood ==
    ASSUME TypeOK, Lookups, NEW a \in Pc
    PROVE  Good(CodeAt(a), a, flushed)
<1>1. CodeAt(a) \in Word
  BY WordType
<1> QED BY <1>1 DEF CodeAt, Good, Lookups

\* The second word of a pair completes it.
LEMMA BeatGood ==
    ASSUME TypeOK, Lookups, Filling, state_q = "REFILL", refill_word_idx_q % 2 = 1,
           NEW p \in Pairs, SameLine(p, lookup_addr_q), p % LinePairs = refill_word_idx_q \div 2
    PROVE  GoodCell(<<refill_lower_q, BeatWord>>, p, flushed)
<1> DEFINE base == LinePairs * (lookup_addr_q \div LinePairs)
           first == 2 * LinePairs * (lookup_addr_q \div LinePairs)
<1>1. lookup_addr_q \in Pairs /\ refill_word_idx_q \in 0 .. 2 * LinePairs - 1
  BY DEF TypeOK
<1>2. p = base + (p % LinePairs)
  BY <1>1, LinePlace
<1>3. lookup_addr_q \div LinePairs \in Nat
  BY <1>1, Sizes, Division, SizeAssumption DEF Pairs
<1>4. base \in Nat /\ first = 2 * base
  BY <1>3, SizeAssumption
<1>5. p % LinePairs \in Nat /\ refill_word_idx_q \in Nat /\ refill_word_idx_q = 2 * (p % LinePairs) + 1
  <2>1. p % LinePairs \in 0 .. LinePairs - 1
    BY PartsType
  <2>2. refill_word_idx_q \in Nat
    BY <1>1, SizeAssumption
  <2>3. refill_word_idx_q = 2 * (refill_word_idx_q \div 2) + 1
    BY <2>2
  <2> QED BY <2>1, <2>2, <2>3
<1>6. Good(refill_lower_q, first + refill_word_idx_q - 1, flushed)
  BY DEF Filling
<1>7. Good(BeatWord, first + refill_word_idx_q, flushed)
  BY <1>1, BurstType, CodeGood DEF BeatWord
<1> HIDE DEF base, first
<1>8. first + refill_word_idx_q - 1 = 2 * p /\ first + refill_word_idx_q = 2 * p + 1
  BY <1>2, <1>4, <1>5
<1> QED BY <1>6, <1>7, <1>8 DEF GoodCell

\* A line is valid with its words: the last beat of its refill makes it so.
LEMMA FilledStep ==
    ASSUME TypeOK, Lookups, Walk, Filled, Filling, NEW beat \in BOOLEAN, Icache(Taken, beat), Store
    PROVE  Filled'
<1> SUFFICES ASSUME state_q' # "FLUSH", NEW w \in Ways, NEW p \in Pairs, tags'[w][SetOf(p)] = TagOf(p),
                    ~(state_q' = "REFILL" /\ w = replace_way_q' /\ SetOf(p) = SetOf(lookup_addr_q'))
             PROVE  GoodCell(data'[w][RowOf(p)], p, flushed')
  BY DEF Filled
<1>f. flushed' = flushed
  BY FlushedKept
<1>t. SetOf(p) \in Sets /\ TagOf(p) # Invalid /\ RowOf(p) \in Row
  BY PartsType, SizeAssumption DEF Invalid
<1>1. CASE state_q = "FLUSH"
  BY <1>1, <1>t, WalkEnds
<1>2. CASE state_q \in {"LOOKUP", "RELOOKUP"}
  <2>1. tags' = tags /\ data' = data
    BY <1>2, LookupCycle, RelookupCycle
  <2> QED BY <1>2, <1>f, <2>1 DEF Filled
<1>3. CASE state_q = "REFILL"
  <2>1. data_write_addr_q = <<SetOf(lookup_addr_q), refill_word_idx_q \div 2>>
    BY <1>3 DEF Filling
  <2>2. CASE ~(w = replace_way_q /\ SetOf(p) = SetOf(lookup_addr_q))
    <3>1. tags'[w][SetOf(p)] = tags[w][SetOf(p)]
      BY <1>3, <2>2, <1>t, RefillCycle
    <3>2. ~(w = replace_way_q /\ RowOf(p) = data_write_addr_q)
      BY <2>1, <2>2 DEF RowOf
    <3>3. refill_word_idx_q % 2 = 0 \/ refill_word_idx_q % 2 = 1
      BY DEF TypeOK
    <3>4. data'[w][RowOf(p)] = data[w][RowOf(p)]
      BY <1>3, <3>2, <3>3, <1>t, RefillCycle
    <3> QED BY <1>3, <1>f, <2>2, <3>1, <3>4 DEF Filled
  <2>3. CASE w = replace_way_q /\ SetOf(p) = SetOf(lookup_addr_q)
    <3>1. LastBeat(beat)
      BY <1>3, <2>3, RefillCycle
    <3>2. tags'[w][SetOf(p)] = TagOf(lookup_addr_q)
      BY <1>3, <1>t, <2>3, <3>1, RefillCycle
    <3>3. SameLine(p, lookup_addr_q)
      BY <2>3, <3>2 DEF SameLine
    <3>4. beat /\ refill_word_idx_q = 2 * LinePairs - 1
      BY <3>1 DEF LastBeat
    <3>5. refill_word_idx_q \div 2 = LinePairs - 1 /\ refill_word_idx_q % 2 = 1
      BY <3>4, SizeAssumption
    <3>6. data'[w][RowOf(p)] = IF RowOf(p) = data_write_addr_q THEN <<refill_lower_q, BeatWord>>
                               ELSE data[w][RowOf(p)]
      BY <1>3, <1>t, <2>3, <3>4, <3>5, RefillCycle
    <3>7. RowOf(p) = <<SetOf(lookup_addr_q), p % LinePairs>>
      BY <2>3 DEF RowOf
    <3>8. p % LinePairs \in 0 .. LinePairs - 1
      BY PartsType
    <3>9. CASE p % LinePairs = LinePairs - 1
      <4>1. GoodCell(<<refill_lower_q, BeatWord>>, p, flushed)
        BY <1>3, <3>3, <3>5, <3>9, BeatGood
      <4>2. RowOf(p) = data_write_addr_q
        BY <2>1, <3>5, <3>7, <3>9
      <4> QED BY <1>f, <4>1, <4>2, <3>6
    <3>10. CASE p % LinePairs < LinePairs - 1
      <4>1. GoodCell(data[replace_way_q][RowOf(p)], p, flushed)
        BY <1>3, <3>3, <3>5, <3>10 DEF Filling
      <4>2. RowOf(p) # data_write_addr_q
        BY <2>1, <3>5, <3>7, <3>8, <3>10, SizeAssumption
      <4> QED BY <1>f, <2>3, <4>1, <4>2, <3>6
    <3> QED BY <3>8, <3>9, <3>10, SizeAssumption
  <2> QED BY <2>2, <2>3
<1> QED BY <1>1, <1>2, <1>3 DEF TypeOK

\* Each pair of beats adds a pair to the line that is fetched.
LEMMA FillingStep ==
    ASSUME TypeOK, TypeOK', Lookups, Filling, NEW beat \in BOOLEAN, Icache(Taken, beat), Store
    PROVE  Filling'
<1>t. refill_word_idx_q \in 0 .. 2 * LinePairs - 1 /\ replace_way_q \in Ways /\ lookup_addr_q \in Pairs
      /\ state_q \in {"FLUSH", "LOOKUP", "REFILL", "RELOOKUP"} /\ LinePairs \in Nat \ {0}
  BY SizeAssumption DEF TypeOK
<1>1. CASE state_q # "REFILL"
  <2>1. refill_word_idx_q' = 0
    BY <1>1, <1>t, FlushCycle, LookupCycle, RelookupCycle DEF Filling
  <2>2. state_q' = "REFILL" =>
            data_write_addr_q' = <<SetOf(lookup_addr_q), 0>> /\ lookup_addr_q' = lookup_addr_q
    BY <1>1, <1>t, FlushCycle, LookupCycle, RelookupCycle
  <2>3. 0 \div 2 = 0 /\ 0 % 2 = 0
    OBVIOUS
  <2>4. \A p \in Pairs : ~(p % LinePairs < 0)
    BY PartsType, SizeAssumption
  <2> QED BY <2>1, <2>2, <2>3, <2>4 DEF Filling
<1>2. CASE state_q = "REFILL" /\ state_q' # "REFILL"
  <2>1. LastBeat(beat)
    BY <1>2, RefillCycle
  <2> QED BY <1>2, <2>1, RefillCycle DEF Filling
<1>3. CASE state_q = "REFILL" /\ state_q' = "REFILL"
  <2>1. /\ ~LastBeat(beat) /\ lookup_addr_q' = lookup_addr_q
        /\ replace_way_q' = replace_way_q /\ flushed' = flushed
    BY <1>3, RefillCycle, FlushedKept
  <2>2. data_write_addr_q = <<SetOf(lookup_addr_q), refill_word_idx_q \div 2>>
    BY <1>3 DEF Filling
  <2>3. CASE ~beat
    <3>1. UNCHANGED <<data, refill_word_idx_q, refill_lower_q, data_write_addr_q>>
      BY <1>3, <2>3, RefillCycle
    <3> QED BY <1>3, <2>1, <3>1 DEF Filling
  <2>4. CASE beat /\ refill_word_idx_q % 2 = 0
    <3>1. /\ data' = data /\ refill_lower_q' = BeatWord /\ data_write_addr_q' = data_write_addr_q
          /\ refill_word_idx_q' = refill_word_idx_q + 1
      BY <1>3, <2>1, <2>4, RefillCycle
    <3>2. refill_word_idx_q' \div 2 = refill_word_idx_q \div 2 /\ refill_word_idx_q' - 1 = refill_word_idx_q
      BY <1>t, <2>4, <3>1
    <3>3. Good(BeatWord, 2 * LinePairs * (lookup_addr_q \div LinePairs) + refill_word_idx_q, flushed)
      BY <1>t, BurstType, CodeGood DEF BeatWord
    <3>4. 2 * LinePairs * (lookup_addr_q \div LinePairs) + refill_word_idx_q' - 1
          = 2 * LinePairs * (lookup_addr_q \div LinePairs) + refill_word_idx_q
      <4>1. lookup_addr_q \div LinePairs \in Nat
        BY <1>t, Sizes, Division DEF Pairs
      <4>2. 2 * LinePairs * (lookup_addr_q \div LinePairs) \in Nat
        BY <4>1, <1>t
      <4> QED BY <4>2, <3>1, <1>t
    <3> QED BY <1>3, <2>1, <2>2, <3>1, <3>2, <3>3, <3>4 DEF Filling
  <2>5. CASE beat /\ refill_word_idx_q % 2 = 1
    <3>1. /\ data_write_addr_q' = NextRow(data_write_addr_q)
          /\ refill_word_idx_q' = refill_word_idx_q + 1
      BY <1>3, <2>1, <2>5, RefillCycle
    <3>2. refill_word_idx_q' \div 2 = (refill_word_idx_q \div 2) + 1 /\ refill_word_idx_q' % 2 = 0
      BY <1>t, <2>5, <3>1
    <3>3. (refill_word_idx_q \div 2) + 1 \in 0 .. LinePairs - 1
      <4>1. refill_word_idx_q # 2 * LinePairs - 1
        BY <2>1, <2>5 DEF LastBeat
      <4> QED BY <4>1, <1>t, <2>5
    <3>4. data_write_addr_q' = <<SetOf(lookup_addr_q), refill_word_idx_q' \div 2>>
      <4>1. ((refill_word_idx_q \div 2) + 1) % LinePairs = (refill_word_idx_q \div 2) + 1
        BY <3>3, <1>t
      <4> QED BY <2>2, <3>1, <3>2, <4>1 DEF NextRow
    <3>5. ASSUME NEW p \in Pairs, SameLine(p, lookup_addr_q), p % LinePairs < refill_word_idx_q' \div 2
          PROVE  GoodCell(data'[replace_way_q][RowOf(p)], p, flushed)
      <4>1. RowOf(p) \in Row /\ p % LinePairs \in Nat /\ RowOf(p) = <<SetOf(lookup_addr_q), p % LinePairs>>
        BY <3>5, PartsType DEF RowOf, SameLine
      <4>2. data'[replace_way_q][RowOf(p)] = IF RowOf(p) = data_write_addr_q THEN <<refill_lower_q, BeatWord>>
                                             ELSE data[replace_way_q][RowOf(p)]
        BY <1>3, <1>t, <2>5, <4>1, RefillCycle
      <4>3. CASE p % LinePairs = refill_word_idx_q \div 2
        <5>1. GoodCell(<<refill_lower_q, BeatWord>>, p, flushed)
          BY <1>3, <2>5, <3>5, <4>3, BeatGood
        <5> QED BY <2>2, <4>1, <4>2, <4>3, <5>1
      <4>4. CASE p % LinePairs < refill_word_idx_q \div 2
        <5>1. GoodCell(data[replace_way_q][RowOf(p)], p, flushed)
          BY <1>3, <3>5, <4>4 DEF Filling
        <5>2. RowOf(p) # data_write_addr_q
          BY <2>2, <4>1, <4>4, <1>t
        <5> QED BY <4>2, <5>1, <5>2
      <4>5. refill_word_idx_q \div 2 \in Nat
        BY <1>t
      <4> QED BY <3>2, <3>5, <4>1, <4>3, <4>4, <4>5
    <3> QED BY <1>3, <2>1, <3>2, <3>4, <3>5 DEF Filling
  <2>6. refill_word_idx_q % 2 = 0 \/ refill_word_idx_q % 2 = 1
    BY <1>t
  <2> QED BY <2>3, <2>4, <2>5, <2>6
<1> QED BY <1>1, <1>2, <1>3

-----------------------------------------------------------------------------
\* When what is fetched begins to count, the answers to what was fetched
\* before have been dropped.
LEMMA DiscardEnds ==
    ASSUME TypeOK, Lookups, NEW request \in BOOLEAN, NEW beat \in BOOLEAN, NEW target,
           NEW pops, Cycle(request, target, pops, beat), Flow(request, pops), ~Discard'
    PROVE  /\ ~request /\ ~FlushReq /\ csr # "pending" /\ ~branch_q
           /\ lookup_valid_q' /\ ~Taken => ~Discard
           /\ skid' # None => ~Discard
<1>1. PICK guess \in Guesses(pc_f_q) : Fetch(request, target, guess)
  BY DEF Cycle
<1>2. csr' # "pending" /\ ~branch_q' /\ ~branch_d_q'
  BY DEF Discard, Drop
<1>3. ~request /\ ~FlushReq /\ csr # "pending"
  BY <1>1, <1>2 DEF Fetch, Flow, FlushReq
<1>4. Taken => ~Stall
  BY DEF Taken, Stall
<1>5. ~branch_q
  <2> SUFFICES ASSUME branch_q PROVE FALSE
    OBVIOUS
  <2>1. Taken
    BY <1>1, <1>2, <1>3 DEF Fetch
  <2>2. branch_d_q' = branch_q
    BY <1>1, <1>4, <2>1 DEF Fetch
  <2> QED BY <1>2, <2>2
<1>6. branch_d_q => ~Stall
  BY <1>1, <1>2 DEF Fetch
<1>7. ~Stall /\ active_q => Taken
  BY DEF Stall, Taken
<1>8. lookup_valid_q' /\ ~Taken => active_q
  BY <1>1 DEF Cycle, Icache, Lookups
<1>9. skid' # None => ~Drop
  BY <1>1 DEF Fetch, Refused, FetchValid
<1> QED BY <1>3, <1>5, <1>6, <1>7, <1>8, <1>9 DEF Discard, Drop

\* A cycle that changes the RAMs either leaves a lookup looking again or drops its answer.
LEMMA TrustedStep ==
    ASSUME TypeOK, Lookups, Trusted, NEW request \in BOOLEAN, NEW beat \in BOOLEAN, NEW target,
           NEW pops, Cycle(request, target, pops, beat), Flow(request, pops)
    PROVE  Trusted'
<1> SUFFICES ASSUME lookup_valid_q', ~Discard'
             PROVE  /\ state_q' # "FLUSH"
                    /\ state_q' = "LOOKUP" => \A w \in Ways :
                          /\ tag_out'[w] = tags'[w][SetOf(lookup_addr_q')]
                          /\ data_out'[w] = data'[w][RowOf(lookup_addr_q')]
  BY DEF Trusted
<1>1. Icache(Taken, beat) /\ ~FlushReq
  BY DiscardEnds DEF Cycle
<1>2. CASE Taken
  <2>1. state_q = "LOOKUP"
    BY <1>2 DEF Taken, IcacheAccept
  <2>2. ~Miss
    BY <1>2 DEF Taken, IcacheAccept
  <2> QED BY <1>1, <1>2, <2>1, <2>2, LookupCycle
<1>3. CASE ~Taken
  <2>1. ~Discard
    BY <1>3, DiscardEnds
  <2>2. lookup_valid_q
    BY <1>1, <1>3 DEF Icache
  <2>3. state_q # "FLUSH"
    BY <2>1, <2>2 DEF Trusted
  <2>4. CASE state_q = "LOOKUP"
    BY <1>1, <1>3, <2>4, LookupCycle
  <2>5. CASE state_q = "REFILL"
    BY <1>1, <2>5, RefillCycle
  <2>6. CASE state_q = "RELOOKUP"
    BY <1>1, <2>2, <2>6, RelookupCycle
  <2> QED BY <2>3, <2>4, <2>5, <2>6 DEF TypeOK
<1> QED BY <1>2, <1>3

\* What the fetch unit delivers is the code of its address.
LEMMA FetchOutGood ==
    ASSUME TypeOK, Lookups, Filled, Trusted, Queued, FetchValid, csr # "pending"
    PROVE  GoodEntry(FetchOut)
<1>1. ~Discard
  BY DEF FetchValid, Discard
<1>2. CASE skid # None
  BY <1>1, <1>2 DEF Queued, FetchOut
<1>3. CASE skid = None
  <2>1. state_q = "LOOKUP" /\ lookup_valid_q /\ HitAny
    BY <1>3 DEF FetchValid, IcacheValid
  <2> DEFINE w == IF Hit(0) THEN 0 ELSE 1
  <2>2. w \in Ways /\ Hit(w)
    BY <2>1 DEF HitAny, Ways
  <2> HIDE DEF w
  <2>3. tags[w][SetOf(lookup_addr_q)] = TagOf(lookup_addr_q) /\ data_out[w] = data[w][RowOf(lookup_addr_q)]
    BY <1>1, <2>1, <2>2 DEF Trusted, Hit
  <2>4. GoodCell(data[w][RowOf(lookup_addr_q)], lookup_addr_q, flushed)
    BY <2>1, <2>2, <2>3 DEF Filled, TypeOK
  <2>5. IcacheInst = data_out[w]
    BY DEF IcacheInst, w
  <2>6. FetchOut.words = IcacheInst /\ FetchOut.pair = lookup_addr_q
    BY <1>3 DEF FetchOut, Lookups
  <2> QED BY <2>3, <2>4, <2>5, <2>6 DEF GoodEntry
<1> QED BY <1>2, <1>3

\* What is left of a queue of good words is good.
LEMMA LeftGood ==
    ASSUME TypeOK, \A k \in 1 .. Len(fifo) : GoodEntry(fifo[k]), NEW pops \in SUBSET (0 .. 1)
    PROVE  \A k \in 1 .. Len(Left(fifo, pops)) : GoodEntry(Left(fifo, pops)[k])
<1>1. fifo \in Seq(Entry)
  BY DEF TypeOK
<1>2. CASE fifo = <<>>
  BY <1>1, <1>2, LeftForm
<1>3. CASE fifo # <<>>
  <2>1. Tail(fifo) \in Seq(Entry) /\ Len(Tail(fifo)) = Len(fifo) - 1 /\ Len(fifo) \in Nat
        /\ \A k \in 1 .. Len(Tail(fifo)) : Tail(fifo)[k] = fifo[k + 1]
    BY <1>1, <1>3
  <2>2. CASE Left(fifo, pops) = Tail(fifo)
    BY <2>1, <2>2
  <2>3. ASSUME NEW h \in Entry, Left(fifo, pops) = <<h>> \o Tail(fifo),
               h.pair = fifo[1].pair, h.words = fifo[1].words
        PROVE  \A k \in 1 .. Len(Left(fifo, pops)) : GoodEntry(Left(fifo, pops)[k])
    <3>1. Len(<<h>> \o Tail(fifo)) = Len(fifo)
          /\ \A k \in 1 .. Len(fifo) : (<<h>> \o Tail(fifo))[k] = IF k = 1 THEN h ELSE fifo[k]
      BY <1>1, <2>1
    <3>2. 1 \in 1 .. Len(fifo)
      BY <1>1, <1>3
    <3>3. GoodEntry(h)
      BY <2>3, <3>2 DEF GoodEntry
    <3> QED BY <2>3, <3>1, <3>3
  <2> QED BY <1>1, <1>3, <2>2, <2>3, LeftForm
<1> QED BY <1>2, <1>3

\* The buffers take in good words only, and are emptied when words become old.
LEMMA QueuedStep ==
    ASSUME TypeOK, TypeOK', Lookups, Filled, Trusted, Queued, NEW request \in BOOLEAN, NEW beat \in BOOLEAN,
           NEW target, NEW pops \in SUBSET (0 .. 1), Cycle(request, target, pops, beat), Flow(request, pops)
    PROVE  Queued'
<1>1. PICK guess \in Guesses(pc_f_q) : Fetch(request, target, guess)
  BY DEF Cycle
<1>2. Icache(Taken, beat) /\ Decode(request, pops) /\ Store
  BY DEF Cycle
<1>3. ASSUME csr' # "pending", request
      PROVE  fifo' = <<>> /\ buffer' = None
  BY <1>2, <1>3 DEF Decode
<1>4. ASSUME csr' # "pending", ~request
      PROVE  /\ \A k \in 1 .. Len(fifo') : GoodCell(fifo'[k].words, fifo'[k].pair, flushed')
             /\ buffer' # None => GoodCell(buffer'.words, buffer'.pair, flushed')
  <2>1. csr # "pending" /\ ~FlushReq
    BY <1>4 DEF Flow, FlushReq
  <2>2. flushed' = flushed
    BY <1>2, <2>1, FlushedKept
  <2>3. FetchValid => GoodEntry(FetchOut)
    BY <2>1, FetchOutGood
  <2>4. /\ \A k \in 1 .. Len(fifo) : GoodEntry(fifo[k])
        /\ buffer # None => GoodEntry(buffer)
    BY <2>1 DEF Queued
  <2>5. \A k \in 1 .. Len(Left(fifo, pops)) : GoodEntry(Left(fifo, pops)[k])
    BY <2>4, LeftGood
  <2>6. buffer' # None => GoodEntry(buffer')
    BY <1>2, <1>4, <2>3, <2>4 DEF Decode
  <2>7. Left(fifo, pops) \in Seq(Entry)
    BY LeftForm DEF TypeOK
  <2>8. ASSUME NEW k \in 1 .. Len(fifo') PROVE GoodEntry(fifo'[k])
    <3>1. CASE fifo' = Left(fifo, pops)
      BY <2>5, <2>8, <3>1
    <3>2. CASE buffer # None /\ fifo' = Append(Left(fifo, pops), buffer)
      BY <2>4, <2>5, <2>7, <2>8, <3>2
    <3> QED BY <1>2, <1>4, <3>1, <3>2 DEF Decode
  <2> QED BY <2>2, <2>6, <2>8 DEF GoodEntry
<1>5. ASSUME ~Discard', skid' # None
      PROVE  GoodCell(skid'.words, skid'.pair, flushed')
  <2>1. csr # "pending" /\ ~FlushReq
    BY <1>5, DiscardEnds
  <2>2. flushed' = flushed
    BY <1>2, <2>1, FlushedKept
  <2>3. FetchValid /\ skid' = FetchOut
    BY <1>1, <1>5 DEF Fetch, Refused
  <2> QED BY <2>1, <2>2, <2>3, FetchOutGood DEF GoodEntry
<1>6. csr' # "pending" =>
          /\ \A k \in 1 .. Len(fifo') : GoodCell(fifo'[k].words, fifo'[k].pair, flushed')
          /\ buffer' # None => GoodCell(buffer'.words, buffer'.pair, flushed')
  BY <1>3, <1>4
<1> QED BY <1>5, <1>6 DEF Queued, GoodEntry

-----------------------------------------------------------------------------
\* Reset establishes the inductive invariant.
LEMMA InductiveInit == Init => Inductive
<1> SUFFICES ASSUME Init PROVE Inductive
  OBVIOUS
<1>1. TypeOK
  BY TypeInit
<1>2. PairOf(0) = 0
  BY DEF PairOf
<1>3. \A s \in Sets : ~(s < 0)
  BY DEF Sets
<1>4. Lookups
  <2>1. lookup_addr_q = PairOf(pc_d_q)
    BY <1>2 DEF Init
  <2>2. flushed <= version
    BY DEF Init
  <2> QED BY <2>1, <2>2 DEF Init, Lookups
<1> QED BY <1>1, <1>3, <1>4
        DEF Init, Inductive, Walk, Missing, OneCopy, Filled, Filling, Trusted, Queued, Discard

\* Every cycle keeps the inductive invariant.
LEMMA InductiveStep == Inductive /\ [Next]_vars => Inductive'
<1> SUFFICES ASSUME Inductive, [Next]_vars PROVE Inductive'
  OBVIOUS
<1>1. CASE Next
  <2> USE DEF Inductive
  <2>1. PICK request \in BOOLEAN, beat \in BOOLEAN, target \in Pc, pops \in SUBSET (0 .. 1) :
            Cycle(request, target, pops, beat) /\ Flow(request, pops)
    BY <1>1, StepIsCycle
  <2>2. Icache(Taken, beat) /\ Store
    BY <2>1 DEF Cycle
  <2>3. TypeOK'
    BY <2>1, TypeStep
  <2>4. Lookups' /\ Walk' /\ Missing' /\ OneCopy'
    BY <2>1, <2>2, <2>3, LookupsStep, WalkStep, MissingStep, OneCopyStep
  <2>5. Filled' /\ Filling'
    BY <2>2, <2>3, FilledStep, FillingStep
  <2>6. Trusted' /\ Queued'
    BY <2>1, <2>3, TrustedStep, QueuedStep
  <2> QED BY <2>3, <2>4, <2>5, <2>6
<1>2. CASE UNCHANGED vars
  BY <1>2 DEF Inductive, TypeOK, Lookups, Walk, Missing, OneCopy, Filled, Filling, Trusted, Queued,
              Discard, Drop, GoodEntry, vars, cacheVars, fetchVars, coreVars
<1> QED BY <1>1, <1>2

\* The inductive invariant holds in every state.
LEMMA InductiveAlways == Spec => []Inductive
BY InductiveInit, InductiveStep, PTL DEF Spec

\* The type invariant: no counter, address or buffer leaves its range, and the
\* queue never has more than its two entries (biriscv_decode.v, fetch_fifo).
THEOREM TypeCorrect == Spec => []TypeOK
<1>1. Inductive => TypeOK
  BY DEF Inductive
<1> QED BY <1>1, InductiveAlways, PTL

\* No line of memory is ever in both ways, whatever is refilled and flushed, and
\* whatever the tag RAMs held at power up (icache.v:420-426).
THEOREM LinesUnique == Spec => []OneCopy
<1>1. Inductive => OneCopy
  BY DEF Inductive
<1> QED BY <1>1, InductiveAlways, PTL

\* What is offered to the issue stage is good.
LEMMA OfferedGood ==
    ASSUME Inductive, NEW i \in 0 .. 1, Offered(i)
    PROVE  Good(OfferedWord(i), 2 * fifo[1].pair + i, flushed)
<1>1. fifo # <<>> /\ csr # "pending"
  BY DEF Offered, CanIssue, Slot0, Slot1, Wanted, Valid
<1>2. fifo \in Seq(Entry) /\ 1 \in 1 .. Len(fifo)
  BY <1>1 DEF Inductive, TypeOK
<1>3. GoodEntry(fifo[1])
  BY <1>1, <1>2 DEF Inductive, Queued
<1>4. fifo[1].pair \in Nat
  <2>1. fifo[1] \in Entry
    BY <1>2
  <2>2. fifo[1].pair \in 0 .. NumPairs - 1
    BY <2>1 DEF Entry, Pairs
  <2> QED BY <2>2, Sizes
<1> QED BY <1>3, <1>4 DEF GoodEntry, GoodCell, OfferedWord

\* An unwritten cell is no word of the code.
LEMMA NoWordApart ==
    ASSUME NEW w \in Word
    PROVE  w # NoWord
<1>1. w = <<w[1], w[2]>>
  BY DEF Word
<1>2. Len(<<w[1], w[2]>>) = 2 /\ Len(NoWord) = 0
  BY DEF NoWord
<1> QED BY <1>1, <1>2

\* What is issued as the instruction at an address is the code of that address:
\* biriscv_issue.v:241-247 compares addresses only, and relies on cache, fetch
\* unit and queue to keep each word with its address.
THEOREM CodeIssued == Spec => []IssuesCode
<1>1. Inductive => IssuesCode
  <2> SUFFICES ASSUME Inductive, NEW i \in 0 .. 1, Offered(i)
               PROVE  OfferedWord(i) # NoWord /\ OfferedWord(i)[1] = 2 * fifo[1].pair + i
    BY DEF IssuesCode
  <2>1. Good(OfferedWord(i), 2 * fifo[1].pair + i, flushed)
    BY OfferedGood
  <2>2. OfferedWord(i) \in Word => OfferedWord(i) # NoWord
    BY NoWordApart
  <2> QED BY <2>1, <2>2 DEF Good
<1> QED BY <1>1, InductiveAlways, PTL

\* After a fence.i the cache has heeded (icache.v:456) no word older than it is
\* issued, out of the cache, a lookup under way, the skid buffer, or the queue.
THEOREM NothingStale == Spec => []FreshAfterFlush
<1>1. Inductive => FreshAfterFlush
  <2> SUFFICES ASSUME Inductive, NEW i \in 0 .. 1, Offered(i), NEW v \in 0 .. flushed - 1,
                      OfferedWord(i) = <<Patched, v>>
               PROVE  FALSE
    BY DEF FreshAfterFlush, Stale
  <2>1. Good(<<Patched, v>>, 2 * fifo[1].pair + i, flushed)
    BY OfferedGood
  <2>2. v >= flushed
    BY <2>1 DEF Good
  <2> QED BY <2>2 DEF Inductive, TypeOK
<1> QED BY <1>1, InductiveAlways, PTL

-----------------------------------------------------------------------------
\* Entry after entry, s is one run of the path (an entry may be there twice).
Linked(s) ==
    \A k \in 1 .. Len(s) - 1 :
        \/ s[k + 1].pair = PairOf(s[k].next)
        \/ s[k + 1] = s[k]
        \/ k = 1 /\ [s[2] EXCEPT !.v0 = s[1].v0, !.v1 = s[1].v1] = s[1]

\* Two entries that differ in the words taken off them only.
SamePair(d, e) == d.pair = e.pair /\ d.words = e.words /\ d.next = e.next

\* Entries that agree but for their words taken off.
LEMMA EntryFlags ==
    ASSUME NEW d \in Entry, NEW e \in Entry
    PROVE  [e EXCEPT !.v0 = d.v0, !.v1 = d.v1] = d <=> SamePair(d, e)
BY DEF Entry, SamePair

\* t is left of s: its head is gone, or has words taken off.
Leaves(s, t) ==
    \/ t = s
    \/ Len(t) = Len(s) - 1 /\ \A k \in 1 .. Len(t) : t[k] = s[k + 1]
    \/ s # <<>> /\ Len(t) = Len(s) /\ SamePair(t[1], s[1]) /\ \A k \in 2 .. Len(t) : t[k] = s[k]

\* Taking words off the queue takes them off all that waits.
LEMMA LeavesQueue ==
    ASSUME NEW q \in Seq(Entry), NEW r \in Seq(Entry), NEW pops \in SUBSET (0 .. 1)
    PROVE  Leaves(q \o r, Left(q, pops) \o r)
<1>1. CASE q = <<>>
  BY <1>1, LeftForm DEF Leaves
<1>2. CASE q # <<>>
  <2>1. Tail(q) \in Seq(Entry) /\ Len(Tail(q)) = Len(q) - 1 /\ Len(q) \in Nat \ {0} /\ Len(r) \in Nat
        /\ \A k \in 1 .. Len(Tail(q)) : Tail(q)[k] = q[k + 1]
    BY <1>2
  <2>2. Len(q \o r) = Len(q) + Len(r) /\ q \o r # <<>>
        /\ \A k \in 1 .. Len(q) + Len(r) : (q \o r)[k] = IF k <= Len(q) THEN q[k] ELSE r[k - Len(q)]
    BY <2>1
  <2>3. CASE Left(q, pops) = Tail(q)
    <3>1. Len(Tail(q) \o r) = Len(q) - 1 + Len(r)
          /\ \A k \in 1 .. Len(q) - 1 + Len(r) :
                (Tail(q) \o r)[k] = IF k <= Len(q) - 1 THEN q[k + 1] ELSE r[k - (Len(q) - 1)]
      BY <2>1
    <3>2. \A k \in 1 .. Len(q) - 1 + Len(r) : (Tail(q) \o r)[k] = (q \o r)[k + 1]
      BY <2>1, <2>2, <3>1
    <3> QED BY <2>1, <2>2, <2>3, <3>1, <3>2 DEF Leaves
  <2>4. ASSUME NEW h \in Entry, Left(q, pops) = <<h>> \o Tail(q), SamePair(h, q[1])
        PROVE  Leaves(q \o r, Left(q, pops) \o r)
    <3> DEFINE l == <<h>> \o Tail(q)
    <3>1. l \in Seq(Entry) /\ Len(l) = Len(q) /\ \A k \in 1 .. Len(q) : l[k] = IF k = 1 THEN h ELSE q[k]
      BY <2>1
    <3> HIDE DEF l
    <3>2. Len(l \o r) = Len(q) + Len(r)
          /\ \A k \in 1 .. Len(q) + Len(r) : (l \o r)[k] = IF k <= Len(q) THEN l[k] ELSE r[k - Len(q)]
      BY <2>1, <3>1
    <3>3. (l \o r)[1] = h /\ (q \o r)[1] = q[1]
      BY <2>1, <2>2, <3>1, <3>2
    <3>4. \A k \in 2 .. Len(q) + Len(r) : (l \o r)[k] = (q \o r)[k]
      BY <2>1, <2>2, <3>1, <3>2
    <3>5. Leaves(q \o r, l \o r)
      BY <2>2, <2>4, <3>2, <3>3, <3>4 DEF Leaves
    <3> QED BY <2>4, <3>5 DEF l
  <2>5. \/ Left(q, pops) = Tail(q)
        \/ \E h \in Entry : Left(q, pops) = <<h>> \o Tail(q) /\ SamePair(h, q[1])
    BY <1>2, LeftForm DEF SamePair
  <2> QED BY <2>3, <2>4, <2>5
<1> QED BY <1>1, <1>2

\* What is left of a run of the path is a run of the path.
LEMMA LeavesLinked ==
    ASSUME NEW s \in Seq(Entry), NEW t \in Seq(Entry), Leaves(s, t), Linked(s)
    PROVE  Linked(t)
<1>l. Len(s) \in Nat /\ Len(t) \in Nat
  OBVIOUS
<1>1. CASE Len(t) = Len(s) - 1 /\ \A k \in 1 .. Len(t) : t[k] = s[k + 1]
  <2> SUFFICES ASSUME NEW k \in 1 .. Len(t) - 1
               PROVE  t[k + 1].pair = PairOf(t[k].next) \/ t[k + 1] = t[k]
    BY DEF Linked
  <2>1. t[k] = s[k + 1] /\ t[k + 1] = s[(k + 1) + 1] /\ k + 1 \in 1 .. Len(s) - 1 /\ k + 1 # 1
    BY <1>1, <1>l
  <2> QED BY <2>1 DEF Linked
<1>2. CASE s # <<>> /\ Len(t) = Len(s) /\ SamePair(t[1], s[1]) /\ \A k \in 2 .. Len(t) : t[k] = s[k]
  <2> SUFFICES ASSUME NEW k \in 1 .. Len(t) - 1
               PROVE  \/ t[k + 1].pair = PairOf(t[k].next)
                      \/ t[k + 1] = t[k]
                      \/ k = 1 /\ [t[2] EXCEPT !.v0 = t[1].v0, !.v1 = t[1].v1] = t[1]
    BY DEF Linked
  <2>1. t[k + 1] = s[k + 1] /\ k \in 1 .. Len(s) - 1
    BY <1>2, <1>l
  <2>2. CASE k # 1
    <3>1. t[k] = s[k]
      BY <1>2, <1>l, <2>2
    <3> QED BY <2>1, <2>2, <3>1 DEF Linked
  <2>3. CASE k = 1
    <3>1. s[1] \in Entry /\ s[2] \in Entry /\ t[1] \in Entry /\ t[2] = s[2]
      BY <1>2, <1>l, <2>1, <2>3
    <3>2. CASE s[2].pair = PairOf(s[1].next)
      BY <1>2, <2>1, <2>3, <3>2 DEF SamePair
    <3>3. CASE s[2] = s[1]
      <4>1. SamePair(t[1], t[2])
        BY <1>2, <3>1, <3>3 DEF SamePair
      <4> QED BY <2>3, <3>1, <4>1, EntryFlags
    <3>4. CASE [s[2] EXCEPT !.v0 = s[1].v0, !.v1 = s[1].v1] = s[1]
      <4>1. SamePair(s[1], s[2])
        BY <3>1, <3>4, EntryFlags
      <4>2. SamePair(t[1], t[2])
        BY <1>2, <3>1, <4>1 DEF SamePair
      <4> QED BY <2>3, <3>1, <4>2, EntryFlags
    <3> QED BY <2>1, <2>3, <3>2, <3>3, <3>4 DEF Linked
  <2> QED BY <2>2, <2>3
<1> QED BY <1>1, <1>2 DEF Leaves

\* The last entry that is left is the last there was.
LEMMA LeavesLast ==
    ASSUME NEW s \in Seq(Entry), NEW t \in Seq(Entry), Leaves(s, t), t # <<>>
    PROVE  s # <<>> /\ t[Len(t)].next = s[Len(s)].next
<1>l. Len(s) \in Nat /\ Len(t) \in Nat \ {0}
  OBVIOUS
<1>1. CASE Len(t) = Len(s) - 1 /\ \A k \in 1 .. Len(t) : t[k] = s[k + 1]
  <2>1. t[Len(t)] = s[Len(s)] /\ s # <<>>
    BY <1>1, <1>l
  <2> QED BY <2>1
<1>2. CASE s # <<>> /\ Len(t) = Len(s) /\ SamePair(t[1], s[1]) /\ \A k \in 2 .. Len(t) : t[k] = s[k]
  <2>1. CASE Len(t) = 1
    BY <1>2, <2>1 DEF SamePair
  <2>2. CASE Len(t) # 1
    <3>1. t[Len(t)] = s[Len(s)]
      BY <1>2, <1>l, <2>2
    <3> QED BY <1>2, <3>1
  <2> QED BY <2>1, <2>2
<1> QED BY <1>1, <1>2 DEF Leaves

\* A run goes on with an entry where its last one leads.
LEMMA LinkedAppend ==
    ASSUME NEW t \in Seq(Entry), Linked(t), NEW e \in Entry,
           t # <<>> => e.pair = PairOf(t[Len(t)].next) \/ e = t[Len(t)]
    PROVE  Linked(Append(t, e))
<1> DEFINE u == Append(t, e)
<1>1. Len(u) = Len(t) + 1 /\ Len(t) \in Nat /\ Len(u) - 1 = Len(t)
      /\ (\A k \in 1 .. Len(t) : u[k] = t[k]) /\ u[Len(t) + 1] = e
  OBVIOUS
<1> HIDE DEF u
<1> SUFFICES Linked(u)
  BY DEF u
<1> SUFFICES ASSUME NEW k \in 1 .. Len(t)
             PROVE  \/ u[k + 1].pair = PairOf(u[k].next)
                    \/ u[k + 1] = u[k]
                    \/ k = 1 /\ [u[2] EXCEPT !.v0 = u[1].v0, !.v1 = u[1].v1] = u[1]
  BY <1>1 DEF Linked
<1>2. CASE k = Len(t)
  BY <1>1, <1>2
<1>3. CASE k # Len(t)
  <2>1. k \in 1 .. Len(t) - 1 /\ u[k] = t[k] /\ u[k + 1] = t[k + 1] /\ (k = 1 => u[2] = t[2] /\ u[1] = t[1])
    <3>0. Len(t) \in Nat
      BY <1>1
    <3>1. k \in 1 .. Len(t) /\ k + 1 \in 1 .. Len(t) /\ k \in 1 .. Len(t) - 1
      BY <3>0, <1>3
    <3>2. u[k] = t[k] /\ u[k + 1] = t[k + 1]
      BY <1>1, <3>1
    <3>3. k = 1 => u[2] = t[2] /\ u[1] = t[1]
      BY <3>2
    <3> QED BY <3>1, <3>2, <3>3
  <2> QED BY <2>1 DEF Linked
<1> QED BY <1>2, <1>3

\* Which buffers may be full and which fetches under way together.
Control ==
    /\ Drop => fifo = <<>> /\ buffer = None
    /\ skid # None => ~icache_fetch_q
    /\ skid # None /\ ~Drop => buffer # None
    /\ ~active_q => fifo = <<>> /\ buffer = None /\ skid = None /\ ~branch_d_q
    /\ ~Drop /\ icache_fetch_q => next_d = pc_f_q

\* What waits is one run of the path, which goes on where fetch is, unless fetch
\* is on its way to a branch.
Run ==
    /\ Linked(Waiting)
    /\ ~Drop /\ Waiting # <<>> =>
          Waiting[Len(Waiting)].next = IF icache_fetch_q THEN pc_d_q ELSE pc_f_q

\* An entry is told apart from an empty buffer.
LEMMA EntryIsSome ==
    ASSUME NEW e \in Entry
    PROVE  e # None
<1>1. DOMAIN e = {"pair", "words", "v0", "v1", "next"}
  BY DEF Entry
<1>2. DOMAIN None = {"valid"}
  BY DEF None
<1>3. "pair" \in DOMAIN e /\ "pair" \notin DOMAIN None
  BY <1>1, <1>2
<1> QED BY <1>3

\* What a cycle of the fetch unit does to a fetch under way.
LEMMA FetchCycle ==
    ASSUME TypeOK, Lookups, NEW request \in BOOLEAN, NEW target, NEW guess, Fetch(request, target, guess)
    PROVE  /\ Taken => ~Stall /\ active_q /\ (icache_fetch_q => IcacheValid)
           /\ ~Taken => Stall \/ ~active_q
           /\ icache_fetch_q /\ ~IcacheValid => Stall /\ ~Taken
           /\ IcacheValid => icache_fetch_q
           /\ icache_fetch_q => active_q
           /\ icache_fetch_q' = (Taken \/ (icache_fetch_q /\ ~IcacheValid))
           /\ Drop' = (request \/ IF Stall THEN Drop ELSE branch_q \/ (branch_q /\ ~Taken))
<1>1. Taken => ~Stall /\ active_q /\ (icache_fetch_q => IcacheValid)
  BY DEF Taken, Stall, Busy
<1>2. ~Taken => Stall \/ ~active_q
  BY DEF Taken, Stall
<1>3. icache_fetch_q /\ ~IcacheValid => Stall /\ ~Taken
  BY DEF Taken, Stall, Busy
<1>4. (IcacheValid => icache_fetch_q) /\ (icache_fetch_q => active_q)
  BY DEF IcacheValid, Lookups
<1>5. icache_fetch_q' = (Taken \/ (icache_fetch_q /\ ~IcacheValid))
  BY DEF Fetch, TypeOK
<1>6. Drop' = (request \/ IF Stall THEN Drop ELSE branch_q \/ (branch_q /\ ~Taken))
  BY <1>1 DEF Fetch, Drop, TypeOK
<1> QED BY <1>1, <1>2, <1>3, <1>4, <1>5, <1>6

\* A cycle keeps the control of fetch and buffers.
LEMMA ControlStep ==
    ASSUME TypeOK, Lookups, Control, NEW request \in BOOLEAN, NEW beat \in BOOLEAN, NEW target,
           NEW pops \in SUBSET (0 .. 1), Cycle(request, target, pops, beat)
    PROVE  Control'
<1>1. PICK guess \in Guesses(pc_f_q) : Fetch(request, target, guess)
  BY DEF Cycle
<1>2. Decode(request, pops)
  BY DEF Cycle
<1>3. ~active_q => ~lookup_valid_q /\ ~IcacheValid
  BY DEF Lookups, IcacheValid
<1>4. fifo = <<>> => Left(fifo, pops) = <<>>
  BY DEF Left
<1>5. FetchOut # None
  BY FetchOutType, EntryIsSome
<1>6. ASSUME Drop' PROVE fifo' = <<>> /\ buffer' = None
  <2>1. CASE request
    BY <1>2, <2>1 DEF Decode
  <2>2. CASE ~request
    <3>1. Drop
      BY <1>1, <1>6, <2>2, FetchCycle DEF Drop
    <3>2. fifo = <<>> /\ buffer = None /\ ~FetchValid
      BY <3>1 DEF Control, FetchValid
    <3> QED BY <1>2, <1>4, <2>2, <3>2 DEF Decode
  <2> QED BY <2>1, <2>2
<1>7. ASSUME skid' # None PROVE ~icache_fetch_q' /\ (~Drop' => buffer' # None)
  <2>1. FetchValid /\ ~FetchAccept /\ skid' = FetchOut
    BY <1>1, <1>7 DEF Fetch, Refused
  <2>2. ~Taken
    BY <2>1 DEF Taken
  <2>3. IcacheValid \/ ~icache_fetch_q
    BY <2>1 DEF FetchValid, Control
  <2>4. ~icache_fetch_q'
    BY <1>1, <2>2, <2>3, FetchCycle
  <2>5. ~Drop' => ~request
    BY <1>1, FetchCycle
  <2>6. ~Drop' => buffer' # None
    BY <1>2, <1>5, <2>1, <2>5 DEF Decode
  <2> QED BY <2>4, <2>6
<1>8. ASSUME ~active_q' PROVE fifo' = <<>> /\ buffer' = None /\ skid' = None /\ ~branch_d_q'
  <2>1. ~active_q /\ (branch_q => Stall)
    BY <1>1, <1>8 DEF Fetch
  <2>2. fifo = <<>> /\ buffer = None /\ skid = None /\ ~branch_d_q /\ ~FetchValid
    BY <2>1, <1>3 DEF Control, FetchValid
  <2>3. skid' = None /\ ~branch_d_q'
    BY <1>1, <2>1, <2>2 DEF Fetch, Refused
  <2> QED BY <1>2, <1>4, <2>2, <2>3 DEF Decode
<1>9. ASSUME ~Drop', icache_fetch_q' PROVE next_d' = pc_f_q'
  <2>1. CASE Taken
    <3>1. ~Stall /\ ~branch_q
      BY <1>1, <1>9, <2>1, FetchCycle
    <3> QED BY <1>1, <2>1, <3>1 DEF Fetch
  <2>2. CASE ~Taken
    <3>1. icache_fetch_q /\ ~IcacheValid /\ Stall
      BY <1>1, <1>9, <2>2, FetchCycle
    <3>2. ~Drop
      BY <1>1, <1>9, <3>1, FetchCycle
    <3> QED BY <1>1, <2>2, <3>1, <3>2 DEF Fetch, Control
  <2> QED BY <2>1, <2>2
<1> QED BY <1>6, <1>7, <1>8, <1>9 DEF Control

\* A queue with what the buffers add to it.
With(q) ==
    IF buffer = None THEN q
    ELSE IF skid = None THEN Append(q, buffer)
    ELSE Append(Append(q, buffer), skid)

\* A queue and one or two buffers behind it.
LEMMA Concats ==
    ASSUME NEW q \in Seq(Entry), NEW d \in Entry, NEW e \in Entry
    PROVE  /\ q \o <<>> = q /\ q \o <<d>> = Append(q, d)
           /\ q \o <<d, e>> = Append(Append(q, d), e)
           /\ Append(q, d) \in Seq(Entry) /\ Append(Append(q, d), e) \in Seq(Entry)
<1>1. q \o <<>> = q /\ q \o <<d>> = Append(q, d)
  OBVIOUS
<1>2. Append(q, d) \in Seq(Entry) /\ Append(Append(q, d), e) \in Seq(Entry)
  OBVIOUS
<1>3. q \o <<d, e>> = Append(Append(q, d), e)
  OBVIOUS
<1> QED BY <1>1, <1>2, <1>3

\* The last of a queue is what was appended.
LEMMA AppendLast ==
    ASSUME NEW q \in Seq(Entry), NEW e \in Entry
    PROVE  Append(q, e) \in Seq(Entry) /\ Append(q, e) # <<>> /\ Append(q, e)[Len(Append(q, e))] = e
<1>1. Append(q, e) \in Seq(Entry) /\ Len(Append(q, e)) = Len(q) + 1 /\ Len(q) \in Nat
      /\ Append(q, e)[Len(q) + 1] = e
  OBVIOUS
<1>2. Append(q, e) # <<>>
  BY <1>1
<1> QED BY <1>1, <1>2

\* What waits is the queue with what the buffers add.
LEMMA WaitingForm ==
    ASSUME TypeOK, ~Drop, skid # None => buffer # None
    PROVE  Waiting = With(fifo)
<1>1. fifo \in Seq(Entry)
  BY DEF TypeOK
<1>2. CASE buffer = None
  BY <1>1, <1>2 DEF Waiting, With
<1>3. CASE buffer # None /\ skid = None
  <2>1. buffer \in Entry
    BY <1>3 DEF TypeOK
  <2>2. Waiting = (fifo \o <<buffer>>) \o <<>>
    BY <1>3 DEF Waiting
  <2> QED BY <1>1, <1>3, <2>1, <2>2, Concats DEF With
<1>4. CASE buffer # None /\ skid # None
  <2>1. buffer \in Entry /\ skid \in Entry
    BY <1>4 DEF TypeOK
  <2>2. Waiting = (fifo \o <<buffer>>) \o <<skid>>
    BY <1>4 DEF Waiting
  <2> QED BY <1>1, <1>4, <2>1, <2>2, Concats DEF With
<1> QED BY <1>2, <1>3, <1>4

\* The same of the next state.
LEMMA WaitingFormNext ==
    ASSUME TypeOK', ~Drop', skid' # None => buffer' # None
    PROVE  (Waiting = With(fifo))'
<1>1. fifo' \in Seq(Entry)
  BY DEF TypeOK
<1>2. CASE buffer' = None
  BY <1>1, <1>2 DEF Waiting, With
<1>3. CASE buffer' # None /\ skid' = None
  <2>1. buffer' \in Entry
    BY <1>3 DEF TypeOK
  <2>2. Waiting' = (fifo' \o <<buffer'>>) \o <<>>
    BY <1>3 DEF Waiting
  <2> QED BY <1>1, <1>3, <2>1, <2>2, Concats DEF With
<1>4. CASE buffer' # None /\ skid' # None
  <2>1. buffer' \in Entry /\ skid' \in Entry
    BY <1>4 DEF TypeOK
  <2>2. Waiting' = (fifo' \o <<buffer'>>) \o <<skid'>>
    BY <1>4 DEF Waiting
  <2> QED BY <1>1, <1>4, <2>1, <2>2, Concats DEF With
<1> QED BY <1>2, <1>3, <1>4

\* Words are taken off the head of what waits.
LEMMA WithLeft ==
    ASSUME TypeOK, skid # None => buffer # None, NEW pops \in SUBSET (0 .. 1)
    PROVE  /\ With(fifo) \in Seq(Entry) /\ With(Left(fifo, pops)) \in Seq(Entry)
           /\ Leaves(With(fifo), With(Left(fifo, pops)))
<1>1. fifo \in Seq(Entry) /\ Left(fifo, pops) \in Seq(Entry)
  BY LeftForm DEF TypeOK
<1> DEFINE r == IF buffer = None THEN <<>> ELSE IF skid = None THEN <<buffer>> ELSE <<buffer, skid>>
<1>2. r \in Seq(Entry)
  BY DEF TypeOK
<1>3. ASSUME NEW q \in Seq(Entry) PROVE With(q) = q \o r /\ With(q) \in Seq(Entry)
  <2>1. CASE buffer = None
    BY <2>1 DEF With
  <2>2. CASE buffer # None /\ skid = None
    <3>1. buffer \in Entry
      BY <2>2 DEF TypeOK
    <3> QED BY <2>2, <3>1, Concats DEF With
  <2>3. CASE buffer # None /\ skid # None
    <3>1. buffer \in Entry /\ skid \in Entry
      BY <2>3 DEF TypeOK
    <3> QED BY <2>3, <3>1, Concats DEF With
  <2> QED BY <2>1, <2>2, <2>3
<1> HIDE DEF r
<1> QED BY <1>1, <1>2, <1>3, LeavesQueue

\* A cycle keeps what waits one run of the path, and fetch where it goes on.
LEMMA RunStep ==
    ASSUME TypeOK, TypeOK', Lookups, Control, Control', Run, NEW request \in BOOLEAN, NEW beat \in BOOLEAN,
           NEW target, NEW pops \in SUBSET (0 .. 1), Cycle(request, target, pops, beat)
    PROVE  Run'
<1>1. PICK guess \in Guesses(pc_f_q) : Fetch(request, target, guess)
  BY DEF Cycle
<1>2. Decode(request, pops)
  BY DEF Cycle
<1>e. Linked(<<>>)
  BY DEF Linked
<1>3. CASE Drop'
  <2>1. Waiting' = <<>>
    BY <1>3 DEF Waiting, Control
  <2> QED BY <1>3, <1>e, <2>1 DEF Run
<1>4. CASE ~Drop' /\ Drop
  <2>1. ~request /\ fifo = <<>> /\ buffer = None /\ ~FetchValid
    BY <1>1, <1>4, FetchCycle DEF Control, FetchValid
  <2>2. fifo' = <<>> /\ buffer' = None /\ skid' = None
    BY <1>1, <1>2, <2>1 DEF Fetch, Refused, Decode, Left
  <2>3. Waiting' = <<>>
    BY <2>2 DEF Waiting
  <2> QED BY <1>e, <2>3 DEF Run
<1>5. CASE ~Drop' /\ ~Drop
  <2> DEFINE l == Left(fifo, pops)
             t == With(l)
  <2>1. ~request /\ (skid # None => buffer # None) /\ (skid' # None => buffer' # None)
    BY <1>1, <1>5, FetchCycle DEF Control
  <2>2. Waiting = With(fifo)
    BY <1>5, <2>1, WaitingForm
  <2>3. With(fifo) \in Seq(Entry) /\ t \in Seq(Entry) /\ Leaves(With(fifo), t) /\ l \in Seq(Entry)
    BY <2>1, WithLeft, LeftForm DEF TypeOK
  <2>4. Linked(t)
    BY <2>2, <2>3, LeavesLinked DEF Run
  <2>5. t # <<>> => Waiting # <<>> /\ t[Len(t)].next = IF icache_fetch_q THEN pc_d_q ELSE pc_f_q
    BY <1>5, <2>2, <2>3, LeavesLast DEF Run
  <2>6. FetchOut \in Entry /\ FetchOut # None
    BY FetchOutType, EntryIsSome
  <2>7. /\ buffer' = IF buffer = None \/ FetchAccept THEN IF FetchValid THEN FetchOut ELSE None ELSE buffer
        /\ fifo' = IF buffer # None /\ FetchAccept THEN Append(l, buffer) ELSE l
        /\ skid' = IF FetchValid /\ ~FetchAccept THEN FetchOut ELSE None
    BY <1>1, <1>2, <2>1 DEF Fetch, Refused, Decode
  <2>8. Waiting' = IF buffer' = None THEN fifo'
                   ELSE IF skid' = None THEN Append(fifo', buffer') ELSE Append(Append(fifo', buffer'), skid')
    <3>1. (Waiting = With(fifo))'
      BY <1>5, <2>1, WaitingFormNext
    <3> QED BY <3>1 DEF With
  <2> HIDE DEF l
  <2>9. CASE skid = None /\ FetchValid
    <3>1. IcacheValid /\ icache_fetch_q
      BY <1>1, <2>9, FetchCycle DEF FetchValid
    <3>2. FetchOut.pair = PairOf(pc_d_q) /\ FetchOut.next = pc_f_q
      BY <1>5, <2>9, <3>1 DEF FetchOut, Control
    <3>3. t = IF buffer = None THEN l ELSE Append(l, buffer)
      BY <2>9 DEF With
    <3>4. Linked(Append(t, FetchOut)) /\ Append(t, FetchOut) \in Seq(Entry)
          /\ Append(t, FetchOut) # <<>> /\ Append(t, FetchOut)[Len(Append(t, FetchOut))] = FetchOut
      <4> HIDE DEF t
      <4>1. Linked(Append(t, FetchOut))
        BY <2>3, <2>4, <2>5, <2>6, <3>1, <3>2, LinkedAppend
      <4>2. Append(t, FetchOut) \in Seq(Entry) /\ Append(t, FetchOut) # <<>>
            /\ Append(t, FetchOut)[Len(Append(t, FetchOut))] = FetchOut
        BY <2>3, <2>6, AppendLast
      <4> QED BY <4>1, <4>2
    <3>5. Waiting' \in {Append(t, FetchOut), Append(Append(t, FetchOut), FetchOut)}
      BY <2>6, <2>7, <2>8, <2>9, <3>3
    <3> HIDE DEF t
    <3>6. Linked(Waiting') /\ Waiting'[Len(Waiting')] = FetchOut
      <4>1. CASE Waiting' = Append(t, FetchOut)
        BY <3>4, <4>1
      <4>2. CASE Waiting' = Append(Append(t, FetchOut), FetchOut)
        <5> DEFINE u == Append(t, FetchOut)
        <5>1. Linked(u) /\ u \in Seq(Entry) /\ u[Len(u)] = FetchOut
          BY <3>4
        <5> HIDE DEF u
        <5>2. Linked(Append(u, FetchOut)) /\ Append(u, FetchOut)[Len(Append(u, FetchOut))] = FetchOut
          BY <5>1, <2>6, LinkedAppend
        <5> QED BY <4>2, <5>2 DEF u
      <4> QED BY <3>5, <4>1, <4>2
    <3>7. pc_f_q = IF icache_fetch_q' THEN pc_d_q' ELSE pc_f_q'
      BY <1>1, <3>1, FetchCycle DEF Fetch
    <3> QED BY <3>2, <3>6, <3>7 DEF Run
  <2>10. CASE skid # None \/ ~FetchValid
    <3>1. ~IcacheValid
      BY <1>1, <1>5, <2>10, FetchCycle DEF FetchValid, Control
    <3>2. Waiting' = t
      <4>1. CASE skid # None
        <5>1. FetchValid /\ FetchOut = skid /\ buffer # None
          BY <1>5, <2>1, <4>1 DEF FetchValid, FetchOut
        <5> QED BY <2>7, <2>8, <4>1, <5>1 DEF With
      <4>2. CASE skid = None
        BY <2>7, <2>8, <2>10, <4>2 DEF With
      <4> QED BY <4>1, <4>2
    <3> HIDE DEF t
    <3>3. ASSUME t # <<>> PROVE t[Len(t)].next = IF icache_fetch_q' THEN pc_d_q' ELSE pc_f_q'
      <4>1. CASE icache_fetch_q
        BY <1>1, <2>5, <3>1, <3>3, <4>1, FetchCycle DEF Fetch
      <4>2. CASE ~icache_fetch_q
        <5>1. active_q
          BY <2>2, <2>5, <3>3 DEF Control, With
        <5> QED BY <1>1, <2>5, <3>1, <3>3, <4>2, <5>1, FetchCycle DEF Fetch
      <4> QED BY <4>1, <4>2
    <3> QED BY <2>4, <3>2, <3>3 DEF Run
  <2> QED BY <2>9, <2>10
<1> QED BY <1>3, <1>4, <1>5

\* Nothing waits at reset.
LEMMA PathInit == Init => Control /\ Run
<1> SUFFICES ASSUME Init PROVE Control /\ Run
  OBVIOUS
<1>1. Waiting = <<>>
  BY DEF Init, Waiting
<1>2. Linked(<<>>)
  BY DEF Linked
<1>3. Run
  BY <1>1, <1>2 DEF Run
<1>4. Control
  BY DEF Init, Control, Drop
<1> QED BY <1>3, <1>4

\* Every step keeps the control of fetch and the run of the path.
LEMMA PathStep == TypeOK /\ TypeOK' /\ Lookups /\ Control /\ Run /\ [Next]_vars => Control' /\ Run'
<1> SUFFICES ASSUME TypeOK, TypeOK', Lookups, Control, Run, [Next]_vars PROVE Control' /\ Run'
  OBVIOUS
<1>1. CASE Next
  <2>1. PICK request \in BOOLEAN, beat \in BOOLEAN, target \in Pc, pops \in SUBSET (0 .. 1) :
            Cycle(request, target, pops, beat)
    BY <1>1, StepIsCycle
  <2>2. Control'
    BY <2>1, ControlStep
  <2> QED BY <2>1, <2>2, RunStep
<1>2. CASE UNCHANGED vars
  BY <1>2 DEF Control, Run, Waiting, Drop, vars, fetchVars, coreVars
<1> QED BY <1>1, <1>2

\* What waits in front of the issue stage is one run of the path the predictor
\* chose: a full queue, a stall of the cache and a branch lose nothing of it
\* (biriscv_fetch.v:274-296).
THEOREM PathIsKept == Spec => []PathKept
<1>1. Run => PathKept
  BY DEF Run, Linked, PathKept
<1>2. Inductive /\ Inductive' => TypeOK /\ TypeOK' /\ Lookups
  BY DEF Inductive
<1> QED BY <1>1, <1>2, PathInit, PathStep, InductiveAlways, PTL DEF Spec
=============================================================================
