------------------------- MODULE DcacheCore_proofs --------------------------
(* Proofs about the data cache core for every size, every set of requests    *)
(* and every contents of the RAMs at power up.  Where a line is: the         *)
(* registers keep their types, the burst counters stay in step, and no line  *)
(* is ever in two ways.  And, on those invariants, what is in it, and in the *)
(* bursts between it and memory: a clean line has its words in memory, a     *)
(* flush leaves no line, a write back leaves the line clean.                 *)
EXTENDS DcacheCore, TLAPS

USE SizeAssumption, InputAssumption

\* Counting lines and cells: the next one exists, and is the one after.
LEMMA NextLineType ==
    ASSUME NEW s \in Sets
    PROVE  /\ (s + 1) % NumSets \in Sets
           /\ s = NumSets - 1 => (s + 1) % NumSets = 0
           /\ s # NumSets - 1 => (s + 1) % NumSets = s + 1
BY DEF Sets

LEMMA NextCellType ==
    ASSUME NEW c \in Cell
    PROVE  NextCell(c) \in Cell
BY NextLineType DEF NextCell, Cell, Words

\* The RAM ports keep the types of the RAMs and of their outputs.
LEMMA WriteTagsType ==
    ASSUME tag_ram \in [Ways -> [Sets -> Entry]],
           NEW ways, NEW s, NEW e \in Entry, WriteTags(ways, s, e)
    PROVE  tag_ram' \in [Ways -> [Sets -> Entry]]
BY DEF WriteTags

LEMMA WriteDataType ==
    ASSUME data_ram \in [Ways -> [Cell -> Data]],
           NEW ways, NEW c, NEW v \in Data, WriteData(ways, c, v)
    PROVE  data_ram' \in [Ways -> [Cell -> Data]]
BY DEF WriteData

LEMMA ReadTagsType ==
    ASSUME tag_ram' \in [Ways -> [Sets -> Entry]], NEW s \in Sets, ReadTags(s)
    PROVE  tag_out' \in [Ways -> Entry]
BY DEF ReadTags

LEMMA ReadDataType ==
    ASSUME data_ram \in [Ways -> [Cell -> Data]], NEW c \in Cell, ReadData(c)
    PROVE  data_out' \in [Ways -> Data]
BY DEF ReadData

LEMMA ReadNothingType ==
    ASSUME ReadNothing
    PROVE  data_out' \in [Ways -> Data]
BY DEF ReadNothing, JunkOut, Data

LEMMA ConstantTypes ==
    /\ NoReq \in Request
    /\ NoEntry \in Entry
    /\ JunkOut \in [Ways -> Data]
    /\ NoBeat \in [valid : BOOLEAN, data : Data]
    /\ IdlePort \in [op : {"idle", "rd", "wr"}, line : Line, beat : 0 .. NumWords]
    /\ 0 \in Sets
    /\ Inputs \subseteq Request
    /\ \A s \in Sets : Base(s) \in Cell
BY DEF NoReq, Request, Ops, ZeroAddr, Addr, Tags, Sets, Words, NoEntry, Entry, JunkOut, Data, NoBeat,
       IdlePort, Line, Inputs, Base, Cell

\* Every step keeps the types.  BurstInStep bounds the beats of a burst.
LEMMA TypePreserved ==
    ASSUME TypeOK, BurstInStep, [Next]_vars
    PROVE  TypeOK'
<1> USE ConstantTypes
<1>fresh. \A d \in BOOLEAN : Fresh(d) \in Entry
  BY DEF Fresh, TypeOK, Entry, Request, Addr
<1>addr. mem_m.addr \in Addr /\ mem_m.addr.set \in Sets /\ CellOf(mem_m.addr) \in Cell /\ mem_m.data \in Data
  BY DEF TypeOK, Request, Addr, CellOf, Cell, Data
<1>1. CASE Reset
  <2>1. tag_ram' \in [Ways -> [Sets -> Entry]]
    BY <1>1, WriteTagsType DEF Reset, TypeOK
  <2>2. tag_out' \in [Ways -> Entry]
    BY <1>1, <1>addr, <2>1, ReadTagsType DEF Reset
  <2>3. flush_addr_q' \in Sets
    BY <1>1, NextLineType DEF Reset, NextLine, TypeOK
  <2> QED BY <1>1, <2>1, <2>2, <2>3, ReadNothingType
          DEF Reset, TrackLastLine, TypeOK, States, pmemVars, busVars
<1>2. ASSUME NEW r \in Inputs, Lookup(r) PROVE TypeOK'
  <2>1. tag_ram' \in [Ways -> [Sets -> Entry]]
    BY <1>2, <1>fresh, WriteTagsType DEF Lookup, CommitWrite, TypeOK
  <2>2. data_ram' \in [Ways -> [Cell -> Data]]
    BY <1>2, <1>addr, WriteDataType DEF Lookup, CommitWrite, TypeOK
  <2>3. r \in Request /\ r.addr.set \in Sets /\ CellOf(r.addr) \in Cell
    BY DEF Request, Addr, CellOf, Cell
  <2>4. tag_out' \in [Ways -> Entry]
    BY <1>2, <1>addr, <2>1, <2>3, ReadTagsType DEF Lookup
  <2>5. data_out' \in [Ways -> Data]
    BY <1>2, <2>3, ReadDataType, ReadNothingType DEF Lookup, TypeOK
  <2>6. state_q' \in States
    BY <1>2 DEF Lookup, AfterAccept, States
  <2> QED BY <1>2, <2>1, <2>2, <2>3, <2>4, <2>5, <2>6
          DEF Lookup, EndWalk, TypeOK, pmemVars, busVars, Ways
<1>3. ASSUME NEW r \in Inputs, LookupHold(r) PROVE TypeOK'
  <2>1. tag_ram' \in [Ways -> [Sets -> Entry]]
    BY <1>3, <1>fresh, WriteTagsType DEF LookupHold, CommitWrite, TypeOK
  <2>2. data_ram' \in [Ways -> [Cell -> Data]]
    BY <1>3, <1>addr, WriteDataType DEF LookupHold, CommitWrite, TypeOK
  <2>3. tag_out' \in [Ways -> Entry]
    BY <1>3, <2>1, ReadTagsType DEF LookupHold, Request, Addr
  <2> QED BY <1>3, <2>1, <2>2, <2>3, ReadNothingType
          DEF LookupHold, EndWalk, TypeOK, pmemVars, busVars
<1>reads. ASSUME NEW s \in Sets, UNCHANGED tag_ram, ReadTags(s) PROVE tag_out' \in [Ways -> Entry]
  BY <1>reads, ReadTagsType DEF TypeOK
<1>refill. ASSUME NEW acc \in BOOLEAN, RequestRefill(acc)
           PROVE  /\ pmem_rd_q' \in BOOLEAN /\ pmem_len_q' \in 0 .. 255
                  /\ port' \in [op : {"idle", "rd", "wr"}, line : Line, beat : 0 .. NumWords]
  BY <1>refill, <1>addr DEF RequestRefill, TypeOK, Line, Addr
<1>evict. ASSUME NEW s \in Sets, RequestEvict(s)
          PROVE  /\ state_q' \in States /\ pmem_wr0_q' \in BOOLEAN /\ pmem_len_q' \in 0 .. 255
                 /\ data_write_addr_q' \in Cell /\ data_out' \in [Ways -> Data]
  BY <1>evict, NextCellType, ReadDataType DEF RequestEvict, States, TypeOK
<1>down. LenDown => pmem_len_q' \in 0 .. 255
  BY DEF LenDown, TypeOK
<1>set. EvictSet \in Sets /\ EvictLine \in Line
  BY <1>addr DEF EvictSet, EvictLine, TypeOK, Line, Entry
<1>4. ASSUME NEW acc \in BOOLEAN, MissRefill(acc) PROVE TypeOK'
  <2>1. tag_out' \in [Ways -> Entry]
    BY <1>4, <1>addr, <1>reads DEF MissRefill, ramVars
  <2> QED BY <1>4, <2>1, <1>refill, <1>addr, ReadNothingType
          DEF MissRefill, EndWalk, TypeOK, States, RequestRefill, ramVars, busVars
<1>5. CASE MissEvict
  <2>1. tag_out' \in [Ways -> Entry]
    BY <1>5, <1>addr, <1>reads DEF MissEvict, ramVars
  <2> QED BY <1>5, <2>1, <1>evict, <1>addr
          DEF MissEvict, RequestEvict, EndWalk, TypeOK, ramVars, busVars
<1>6. CASE RefillAccept
  <2>1. tag_out' \in [Ways -> Entry]
    BY <1>6, <1>addr, <1>reads DEF RefillAccept, ramVars
  <2> QED BY <1>6, <2>1, <1>refill, ReadNothingType
          DEF RefillAccept, RequestRefill, TypeOK, ramVars, flushVars, busVars
<1>7. CASE RefillBeat
  <2>1. port.beat \in Words /\ AddrAt(port.line, port.beat) \in Addr
    BY <1>7 DEF RefillBeat, BurstInStep, TypeOK, Words, AddrAt, Addr, Line, Cell
  <2>2. tag_ram' \in [Ways -> [Sets -> Entry]]
    BY <1>7, <1>fresh, WriteTagsType DEF RefillBeat, TypeOK
  <2>3. data_ram' \in [Ways -> [Cell -> Data]]
    BY <1>7, <2>1, WriteDataType DEF RefillBeat, TypeOK
  <2>4. tag_out' \in [Ways -> Entry]
    BY <1>7, <2>2, <1>addr, ReadTagsType DEF RefillBeat
  <2>5. port' \in [op : {"idle", "rd", "wr"}, line : Line, beat : 0 .. NumWords]
    BY <1>7, <2>1 DEF RefillBeat, TypeOK, Words
  <2>6. data_write_addr_q' \in Cell /\ state_q' \in States
    BY <1>7, NextCellType DEF RefillBeat, TypeOK, States
  <2> QED BY <1>7, <2>2, <2>3, <2>4, <2>5, <2>6, <1>down, ReadNothingType
          DEF RefillBeat, TypeOK, flushVars
<1>8. CASE ReadDone
  <2>1. tag_out' \in [Ways -> Entry] /\ data_out' \in [Ways -> Data]
    BY <1>8, <1>addr, <1>reads, ReadDataType DEF ReadDone, ramVars, TypeOK
  <2> QED BY <1>8, <2>1 DEF ReadDone, TypeOK, States, Ways, ramVars, flushVars, pmemVars, busVars
<1>9. CASE WriteDone
  <2>1. tag_ram' \in [Ways -> [Sets -> Entry]] /\ data_ram' \in [Ways -> [Cell -> Data]]
    BY <1>9, <1>fresh, <1>addr, WriteTagsType, WriteDataType DEF WriteDone, TypeOK
  <2>2. tag_out' \in [Ways -> Entry]
    BY <1>9, <2>1, <1>addr, ReadTagsType DEF WriteDone
  <2> QED BY <1>9, <2>1, <2>2, ReadNothingType
          DEF WriteDone, TypeOK, States, Ways, flushVars, pmemVars, busVars
<1>10. CASE EvictStall
  <2>1. tag_out' \in [Ways -> Entry] /\ data_out' \in [Ways -> Data]
    BY <1>10, <1>set, <1>reads, ReadDataType DEF EvictStall, ramVars, TypeOK
  <2>2. pmem_wr_q' \in [valid : BOOLEAN, data : Data]
    BY <1>10 DEF EvictStall, TypeOK, PmemWriteData
  <2> QED BY <1>10, <2>1, <2>2 DEF EvictStall, TypeOK, ramVars, flushVars, busVars
<1>11. CASE EvictBeat
  <2>1. tag_out' \in [Ways -> Entry]
    BY <1>11, <1>set, <1>reads DEF EvictBeat, ramVars
  <2>2. data_out' \in [Ways -> Data]
    BY <1>11, ReadDataType, ReadNothingType DEF EvictBeat, TypeOK
  <2>3. PmemWriteData \in Data
    BY DEF PmemWriteData, TypeOK
  <2>4. port' \in [op : {"idle", "rd", "wr"}, line : Line, beat : 0 .. NumWords]
    <3>1. CASE pmem_wr0_q
      BY <1>11, <1>set, <3>1 DEF EvictBeat, TypeOK, busVars
    <3>2. CASE ~pmem_wr0_q
      <4>0. port.beat + pmem_len_q = NumWords - 1
        BY <1>11, <3>2 DEF EvictBeat, BurstInStep
      <4>1. port.beat + 1 \in 0 .. NumWords
        BY <4>0 DEF TypeOK
      <4>2. port' = port \/ port' = [port EXCEPT !.beat = @ + 1]
        BY <1>11, <3>2 DEF EvictBeat, busVars
      <4> QED BY <4>1, <4>2 DEF TypeOK
    <3> QED BY <3>1, <3>2
  <2>5. memory' \in [Addr -> Data]
    BY <1>11, <2>3 DEF EvictBeat, TypeOK, busVars
  <2>6. data_write_addr_q' \in Cell /\ state_q' \in States
    BY <1>11, NextCellType DEF EvictBeat, TypeOK, States
  <2> QED BY <1>11, <2>1, <2>2, <2>4, <2>5, <2>6, <1>down
          DEF EvictBeat, TypeOK, ramVars, flushVars
<1>12. CASE EvictWrittenBack
  <2>1. tag_ram' \in [Ways -> [Sets -> Entry]]
    BY <1>12, <1>fresh, WriteTagsType DEF EvictWrittenBack, TypeOK
  <2>2. tag_out' \in [Ways -> Entry]
    BY <1>12, <2>1, <1>addr, ReadTagsType DEF EvictWrittenBack
  <2> QED BY <1>12, <2>1, <2>2, ReadNothingType
          DEF EvictWrittenBack, TypeOK, States, flushVars, pmemVars
<1>13. CASE EvictFlushed
  <2>1. tag_ram' \in [Ways -> [Sets -> Entry]]
    BY <1>13, WriteTagsType DEF EvictFlushed, TypeOK
  <2>2. tag_out' \in [Ways -> Entry]
    BY <1>13, <2>1, ReadTagsType DEF EvictFlushed, TypeOK
  <2> QED BY <1>13, <2>1, <2>2, ReadNothingType
          DEF EvictFlushed, TypeOK, States, Ways, flushVars, pmemVars
<1>14. ASSUME NEW acc \in BOOLEAN, EvictRefill(acc) PROVE TypeOK'
  <2>1. tag_ram' \in [Ways -> [Sets -> Entry]]
    BY <1>14, <1>fresh, WriteTagsType DEF EvictRefill, TypeOK
  <2>2. tag_out' \in [Ways -> Entry]
    BY <1>14, <2>1, <1>addr, ReadTagsType DEF EvictRefill
  <2>3. port' \in [op : {"idle", "rd", "wr"}, line : Line, beat : 0 .. NumWords]
    BY <1>14, <1>addr DEF EvictRefill, Line, Addr
  <2> QED BY <1>14, <2>1, <2>2, <2>3, <1>addr, ReadNothingType
          DEF EvictRefill, TypeOK, States, flushVars
<1>15. CASE Writeback
  <2>1. tag_out' \in [Ways -> Entry]
    BY <1>15, <1>addr, <1>reads DEF Writeback, ramVars
  <2>2. replace_way_q' \in Ways
    BY <1>15 DEF Writeback, Ways, TypeOK
  <2>3. CASE \E w \in Ways : Hit(w) /\ tag_out[w].dirty
    BY <1>15, <2>1, <2>2, <2>3, <1>addr, <1>evict
    DEF Writeback, RequestEvict, TypeOK, ramVars, flushVars, busVars
  <2>4. CASE ~\E w \in Ways : Hit(w) /\ tag_out[w].dirty
    BY <1>15, <2>1, <2>2, <2>4, ReadNothingType
    DEF Writeback, TypeOK, States, ramVars, flushVars, pmemVars, busVars
  <2> QED BY <2>3, <2>4
<1>16. CASE Invalidate
  <2>1. [Fresh(FALSE) EXCEPT !.valid = FALSE] \in Entry
    BY DEF Fresh, TypeOK, Entry, Request, Addr
  <2>2. tag_ram' \in [Ways -> [Sets -> Entry]]
    BY <1>16, <2>1, WriteTagsType DEF Invalidate, TypeOK
  <2>3. tag_out' \in [Ways -> Entry]
    BY <1>16, <2>2, <1>addr, ReadTagsType DEF Invalidate
  <2> QED BY <1>16, <2>2, <2>3, ReadNothingType
          DEF Invalidate, TypeOK, States, flushVars, pmemVars, busVars
<1>17. CASE FlushAddr
  <2>1. tag_out' \in [Ways -> Entry]
    BY <1>17, <1>reads DEF FlushAddr, ramVars, TypeOK
  <2> QED BY <1>17, <2>1, ReadNothingType
          DEF FlushAddr, TrackLastLine, TypeOK, States, ramVars, pmemVars, busVars
<1>18. CASE FlushClean
  <2>1. tag_ram' \in [Ways -> [Sets -> Entry]]
    BY <1>18, WriteTagsType DEF FlushClean, TypeOK
  <2>2. tag_out' \in [Ways -> Entry]
    BY <1>18, <2>1, ReadTagsType DEF FlushClean, TypeOK
  <2>3. flush_addr_q' \in Sets
    BY <1>18, NextLineType DEF FlushClean, NextLine, TypeOK
  <2> QED BY <1>18, <2>1, <2>2, <2>3, ReadNothingType
          DEF FlushClean, TypeOK, States, Ways, pmemVars, busVars
<1>19. CASE FlushEvict
  <2>1. tag_out' \in [Ways -> Entry]
    BY <1>19, <1>reads DEF FlushEvict, ramVars, TypeOK
  <2> QED BY <1>19, <2>1, <1>evict
          DEF FlushEvict, RequestEvict, TypeOK, ramVars, flushVars, busVars
<1>20. CASE FlushNextWay
  <2>1. tag_out' \in [Ways -> Entry]
    BY <1>20, <1>reads DEF FlushNextWay, ramVars, TypeOK
  <2> QED BY <1>20, <2>1, ReadNothingType
          DEF FlushNextWay, TypeOK, Ways, ramVars, flushVars, pmemVars, busVars
<1>21. CASE UNCHANGED vars
  BY <1>21 DEF vars, TypeOK, ramVars, flushVars, pmemVars, busVars
<1> QED
  BY <1>1, <1>2, <1>3, <1>4, <1>5, <1>6, <1>7, <1>8, <1>9, <1>10, <1>11, <1>12, <1>13, <1>14,
     <1>15, <1>16, <1>17, <1>18, <1>19, <1>20, <1>21 DEF Next

\* The tag outputs follow the set the next state works on.
LEMMA TagsReadPreserved ==
    ASSUME TypeOK, OpInState, TagsRead, [Next]_vars
    PROVE  TagsRead'
<1>1. CASE Reset
  BY <1>1 DEF Reset, TagsRead, TagsAt, ReadTags
<1>2. ASSUME NEW r \in Inputs, Lookup(r) PROVE TagsRead'
  BY <1>2 DEF Lookup, TagsRead, TagsAt, ReadTags, AfterAccept
<1>3. ASSUME NEW r \in Inputs, LookupHold(r) PROVE TagsRead'
  BY <1>3 DEF LookupHold, TagsRead, IsAccess, NoReq
<1>4. ASSUME NEW acc \in BOOLEAN, MissRefill(acc) PROVE TagsRead'
  BY <1>4 DEF MissRefill, TagsRead, TagsAt, ReadTags
<1>5. CASE MissEvict
  BY <1>5 DEF MissEvict, TagsRead, TagsAt, ReadTags, EvictSet, OpInState, RequestEvict
<1>6. CASE RefillAccept
  BY <1>6 DEF RefillAccept, TagsRead, TagsAt, ReadTags
<1>7. CASE RefillBeat
  BY <1>7 DEF RefillBeat, TagsRead, TagsAt, ReadTags
<1>8. CASE ReadDone
  BY <1>8 DEF ReadDone, TagsRead, TagsAt, ReadTags
<1>9. CASE WriteDone
  BY <1>9 DEF WriteDone, TagsRead, TagsAt, ReadTags
<1>10. CASE EvictStall
  BY <1>10 DEF EvictStall, TagsRead, TagsAt, ReadTags, EvictSet, flushVars
<1>11. CASE EvictBeat
  BY <1>11 DEF EvictBeat, TagsRead, TagsAt, ReadTags, EvictSet, flushVars
<1>12. CASE EvictWrittenBack
  BY <1>12 DEF EvictWrittenBack, TagsRead, TagsAt, ReadTags
<1>13. CASE EvictFlushed
  BY <1>13 DEF EvictFlushed, TagsRead
<1>14. ASSUME NEW acc \in BOOLEAN, EvictRefill(acc) PROVE TagsRead'
  BY <1>14 DEF EvictRefill, TagsRead, TagsAt, ReadTags
<1>15. CASE Writeback
  BY <1>15 DEF Writeback, TagsRead, TagsAt, ReadTags, EvictSet, OpInState, RequestEvict, flushVars
<1>16. CASE Invalidate
  BY <1>16 DEF Invalidate, TagsRead, TagsAt, ReadTags
<1>17. CASE FlushAddr
  BY <1>17 DEF FlushAddr, TagsRead, TagsAt, ReadTags
<1>18. CASE FlushClean
  BY <1>18 DEF FlushClean, TagsRead, IsAccess, OpInState
<1>19. CASE FlushEvict
  BY <1>19 DEF FlushEvict, TagsRead, TagsAt, ReadTags, EvictSet, OpInState, RequestEvict, flushVars
<1>20. CASE FlushNextWay
  BY <1>20 DEF FlushNextWay, TagsRead, TagsAt, ReadTags, flushVars
<1>21. CASE UNCHANGED vars
  BY <1>21 DEF vars, ramVars, flushVars, TagsRead, TagsAt, IsAccess, EvictSet
<1> QED
  BY <1>1, <1>2, <1>3, <1>4, <1>5, <1>6, <1>7, <1>8, <1>9, <1>10, <1>11, <1>12,
     <1>13, <1>14, <1>15, <1>16, <1>17, <1>18, <1>19, <1>20, <1>21 DEF Next

\* The operation in the buffer fits the state.
LEMMA OpInStatePreserved ==
    ASSUME TypeOK, OpInState, TagsRead, WayInState, [Next]_vars
    PROVE  OpInState'
<1>1. CASE Reset
  BY <1>1 DEF Reset, OpInState
<1>2. ASSUME NEW r \in Inputs, Lookup(r) PROVE OpInState'
  BY <1>2, ConstantTypes DEF Lookup, OpInState, AfterAccept
<1>3. ASSUME NEW r \in Inputs, LookupHold(r) PROVE OpInState'
  BY <1>3 DEF LookupHold, OpInState
<1>4. ASSUME NEW acc \in BOOLEAN, MissRefill(acc) PROVE OpInState'
  BY <1>4 DEF MissRefill, OpInState, Miss, IsAccess
<1>5. CASE MissEvict
  BY <1>5 DEF MissEvict, OpInState, RequestEvict, Miss, IsAccess
<1>6. CASE RefillAccept
  BY <1>6 DEF RefillAccept, OpInState, flushVars
<1>7. CASE RefillBeat
  BY <1>7 DEF RefillBeat, OpInState, flushVars
<1>8. CASE ReadDone
  BY <1>8 DEF ReadDone, OpInState, flushVars
<1>9. CASE WriteDone
  BY <1>9 DEF WriteDone, OpInState, flushVars
<1>10. CASE EvictStall
  BY <1>10 DEF EvictStall, OpInState, flushVars
<1>11. CASE EvictBeat
  BY <1>11 DEF EvictBeat, OpInState, flushVars
<1>12. CASE EvictWrittenBack
  BY <1>12 DEF EvictWrittenBack, OpInState, flushVars
<1>13. CASE EvictFlushed
  BY <1>13 DEF EvictFlushed, OpInState, flushVars
<1>14. ASSUME NEW acc \in BOOLEAN, EvictRefill(acc) PROVE OpInState'
  BY <1>14 DEF EvictRefill, EvictAcked, OpInState, flushVars
<1>15. CASE Writeback
  BY <1>15 DEF Writeback, OpInState, RequestEvict, flushVars
<1>16. CASE Invalidate
  BY <1>16 DEF Invalidate, OpInState, flushVars
<1>17. CASE FlushAddr
  BY <1>17 DEF FlushAddr, OpInState
<1>18. CASE FlushClean
  BY <1>18 DEF FlushClean, OpInState
<1>19. CASE FlushEvict
  BY <1>19 DEF FlushEvict, OpInState, RequestEvict, flushVars
<1>20. CASE FlushNextWay
  BY <1>20 DEF FlushNextWay, OpInState, flushVars
<1>21. CASE UNCHANGED vars
  BY <1>21 DEF vars, flushVars, OpInState
<1> QED
  BY <1>1, <1>2, <1>3, <1>4, <1>5, <1>6, <1>7, <1>8, <1>9, <1>10, <1>11, <1>12,
     <1>13, <1>14, <1>15, <1>16, <1>17, <1>18, <1>19, <1>20, <1>21 DEF Next

\* The reset walk clears the lines in order.
LEMMA ClearedPreserved ==
    ASSUME TypeOK, Cleared, [Next]_vars
    PROVE  Cleared'
<1>1. CASE Reset
  <2>1. \A s \in Sets : s < flush_addr_q' \/ flush_last_q' => s < flush_addr_q \/ flush_last_q \/ s = flush_addr_q
    BY <1>1, NextLineType DEF Reset, NextLine, TrackLastLine, TypeOK, Sets
  <2> QED BY <1>1, <2>1 DEF Reset, Cleared, WriteTags, NoEntry, TypeOK, Ways
<1>2. ASSUME NEW r \in Inputs, Lookup(r) PROVE Cleared'
  BY <1>2 DEF Lookup, Cleared, AfterAccept
<1>3. ASSUME NEW r \in Inputs, LookupHold(r) PROVE Cleared'
  BY <1>3 DEF LookupHold, Cleared
<1>4. ASSUME NEW acc \in BOOLEAN, MissRefill(acc) PROVE Cleared'
  BY <1>4 DEF MissRefill, Cleared
<1>5. CASE MissEvict
  BY <1>5 DEF MissEvict, Cleared, RequestEvict
<1>6. CASE RefillAccept
  BY <1>6 DEF RefillAccept, Cleared
<1>7. CASE RefillBeat
  BY <1>7 DEF RefillBeat, Cleared
<1>8. CASE ReadDone
  BY <1>8 DEF ReadDone, Cleared
<1>9. CASE WriteDone
  BY <1>9 DEF WriteDone, Cleared
<1>10. CASE EvictStall
  BY <1>10 DEF EvictStall, Cleared
<1>11. CASE EvictBeat
  BY <1>11 DEF EvictBeat, Cleared
<1>12. CASE EvictWrittenBack
  BY <1>12 DEF EvictWrittenBack, Cleared
<1>13. CASE EvictFlushed
  BY <1>13 DEF EvictFlushed, Cleared
<1>14. ASSUME NEW acc \in BOOLEAN, EvictRefill(acc) PROVE Cleared'
  BY <1>14 DEF EvictRefill, Cleared
<1>15. CASE Writeback
  BY <1>15 DEF Writeback, Cleared, RequestEvict
<1>16. CASE Invalidate
  BY <1>16 DEF Invalidate, Cleared
<1>17. CASE FlushAddr
  BY <1>17 DEF FlushAddr, Cleared
<1>18. CASE FlushClean
  BY <1>18 DEF FlushClean, Cleared
<1>19. CASE FlushEvict
  BY <1>19 DEF FlushEvict, Cleared, RequestEvict
<1>20. CASE FlushNextWay
  BY <1>20 DEF FlushNextWay, Cleared
<1>21. CASE UNCHANGED vars
  BY <1>21 DEF vars, ramVars, flushVars, Cleared
<1> QED
  BY <1>1, <1>2, <1>3, <1>4, <1>5, <1>6, <1>7, <1>8, <1>9, <1>10, <1>11, <1>12,
     <1>13, <1>14, <1>15, <1>16, <1>17, <1>18, <1>19, <1>20, <1>21 DEF Next

\* The way a refill or an evict works on is the right one.
LEMMA WayInStatePreserved ==
    ASSUME TypeOK, OpInState, TagsRead, WayInState, [Next]_vars
    PROVE  WayInState'
<1>1. CASE Reset
  BY <1>1 DEF Reset, WayInState
<1>2. ASSUME NEW r \in Inputs, Lookup(r) PROVE WayInState'
  BY <1>2 DEF Lookup, WayInState, AfterAccept
<1>3. ASSUME NEW r \in Inputs, LookupHold(r) PROVE WayInState'
  BY <1>3 DEF LookupHold, WayInState
<1>4. ASSUME NEW acc \in BOOLEAN, MissRefill(acc) PROVE WayInState'
  BY <1>4 DEF MissRefill, WayInState, TagsRead, TagsAt, HitAny, Hit, Miss, ReadTags, ramVars
<1>5. CASE MissEvict
  BY <1>5 DEF MissEvict, WayInState, TagsRead, TagsAt, EvictWay, HitAny, Hit, Dirty, Miss, IsAccess, RequestEvict, ReadTags, ramVars
<1>6. CASE RefillAccept
  BY <1>6 DEF RefillAccept, WayInState, TagsRead, TagsAt, Hit, ReadTags, ramVars
<1>7. CASE RefillBeat
  <2>1. CASE PmemLast
    <3>1. tag_out'[replace_way_q'] = Fresh(FALSE)
      BY <1>7, <2>1 DEF RefillBeat, WriteTags, ReadTags, TypeOK, Request, Addr
    <3> QED BY <1>7, <2>1, <3>1 DEF RefillBeat, WayInState, Hit, Fresh
  <2>2. CASE ~PmemLast
    <3>1. tag_out' = tag_out
      BY <1>7, <2>2 DEF RefillBeat, WriteTags, ReadTags, TagsRead, TagsAt
    <3> QED BY <1>7, <2>2, <3>1 DEF RefillBeat, WayInState, Hit
  <2> QED BY <2>1, <2>2
<1>8. CASE ReadDone
  BY <1>8 DEF ReadDone, WayInState
<1>9. CASE WriteDone
  BY <1>9 DEF WriteDone, WayInState
<1>10. CASE EvictStall
  BY <1>10 DEF EvictStall, WayInState, TagsRead, TagsAt, EvictWay, HitAny, Hit, Dirty, ReadTags, ramVars, flushVars
<1>11. CASE EvictBeat
  BY <1>11 DEF EvictBeat, WayInState, TagsRead, TagsAt, EvictWay, HitAny, Hit, Dirty, ReadTags, ramVars, flushVars
<1>12. CASE EvictWrittenBack
  BY <1>12 DEF EvictWrittenBack, WayInState
<1>13. CASE EvictFlushed
  BY <1>13 DEF EvictFlushed, WayInState
<1>14. ASSUME NEW acc \in BOOLEAN, EvictRefill(acc) PROVE WayInState'
  <2>1. \A w \in Ways : w # replace_way_q => tag_out'[w] = tag_out[w]
    BY <1>14 DEF EvictRefill, EvictAcked, WriteTags, ReadTags, TagsRead, TagsAt, EvictSet
  <2>2. EvictWay /\ ~flushing_q
    BY <1>14 DEF EvictRefill, EvictAcked, WayInState
  <2> QED BY <1>14, <2>1, <2>2 DEF EvictRefill, WayInState, EvictWay, HitAny, Hit
<1>15. CASE Writeback
  <2>1. tag_out' = tag_out
    BY <1>15 DEF Writeback, TagsRead, TagsAt, ReadTags, ramVars
  <2>2. mem_m' = mem_m /\ mem_m.op = "wb"
    BY <1>15 DEF Writeback, OpInState
  <2>3. CASE \E w \in Ways : Hit(w) /\ tag_out[w].dirty
    <3>1. Hit(replace_way_q')
      BY <1>15, <2>3 DEF Writeback, Ways
    <3> QED BY <1>15, <2>1, <2>2, <2>3, <3>1 DEF Writeback, RequestEvict, WayInState, Hit
  <2>4. CASE ~\E w \in Ways : Hit(w) /\ tag_out[w].dirty
    BY <1>15, <2>4 DEF Writeback, WayInState
  <2> QED BY <2>3, <2>4
<1>16. CASE Invalidate
  BY <1>16 DEF Invalidate, WayInState
<1>17. CASE FlushAddr
  BY <1>17 DEF FlushAddr, WayInState
<1>18. CASE FlushClean
  BY <1>18 DEF FlushClean, WayInState
<1>19. CASE FlushEvict
  BY <1>19 DEF FlushEvict, WayInState, TagsRead, TagsAt, OpInState, EvictWay, Dirty, RequestEvict, ReadTags, ramVars, flushVars
<1>20. CASE FlushNextWay
  BY <1>20 DEF FlushNextWay, WayInState
<1>21. CASE UNCHANGED vars
  BY <1>21 DEF vars, flushVars, WayInState, EvictWay, HitAny, Hit, Dirty
<1> QED
  BY <1>1, <1>2, <1>3, <1>4, <1>5, <1>6, <1>7, <1>8, <1>9, <1>10, <1>11, <1>12,
     <1>13, <1>14, <1>15, <1>16, <1>17, <1>18, <1>19, <1>20, <1>21 DEF Next

\* No step brings a line into a second way.
LEMMA UniqueResidencyPreserved ==
    ASSUME TypeOK, OpInState, TagsRead, WayInState, Cleared, UniqueResidency, [Next]_vars
    PROVE  UniqueResidency'
<1>shrink. ASSUME state_q # "RESET",
                  \A w \in Ways, s \in Sets, t \in Tags :
                      Holds(tag_ram'[w][s], t) => Holds(tag_ram[w][s], t)
           PROVE  UniqueResidency'
  BY <1>shrink DEF UniqueResidency, Ways
<1>same. ASSUME state_q # "RESET", UNCHANGED tag_ram PROVE UniqueResidency'
  BY <1>same DEF UniqueResidency
<1>clear. ASSUME NEW ways \in SUBSET Ways, NEW s \in Sets, NEW e \in Entry, ~e.valid,
                 state_q # "RESET", WriteTags(ways, s, e)
          PROVE  UniqueResidency'
  BY <1>clear, <1>shrink DEF WriteTags, Holds, TypeOK
<1>keep. ASSUME NEW ways \in SUBSET Ways, NEW d \in BOOLEAN, state_q # "RESET",
                tag_out = TagsAt(mem_m.addr.set), \A w \in ways : Hit(w),
                WriteTags(ways, mem_m.addr.set, Fresh(d))
         PROVE  UniqueResidency'
  BY <1>keep, <1>shrink DEF WriteTags, Holds, Hit, Fresh, TagsAt, TypeOK
<1>fill. ASSUME NEW d \in BOOLEAN, state_q # "RESET",
                tag_out = TagsAt(mem_m.addr.set),
                \A w \in Ways : Hit(w) => w = replace_way_q,
                WriteTags({replace_way_q}, mem_m.addr.set, Fresh(d))
         PROVE  UniqueResidency'
  BY <1>fill DEF UniqueResidency, WriteTags, Holds, Hit, Fresh, TagsAt, TypeOK, Ways
<1>set. mem_m.addr.set \in Sets /\ flush_addr_q \in Sets
  BY DEF TypeOK, Request, Addr
<1>no. NoEntry \in Entry /\ ~NoEntry.valid
  BY ConstantTypes DEF NoEntry
<1>commit. ASSUME state_q = "LOOKUP", CommitWrite PROVE UniqueResidency'
  <2> DEFINE ways == {w \in Ways : mem_m.op = "wr" /\ Hit(w)}
  <2>1. CASE mem_m.op = "wr"
    <3>1. tag_out = TagsAt(mem_m.addr.set)
      BY <1>commit, <2>1 DEF TagsRead, IsAccess
    <3>2. WriteTags(ways, mem_m.addr.set, Fresh(TRUE))
      BY <1>commit DEF CommitWrite
    <3>3. ways \in SUBSET Ways /\ \A w \in ways : Hit(w)
      OBVIOUS
    <3> HIDE DEF ways
    <3> QED BY <1>commit, <1>keep, <3>1, <3>2, <3>3
  <2>2. CASE mem_m.op # "wr"
    <3>1. \A w \in Ways : tag_ram'[w] = tag_ram[w]
      BY <1>commit, <2>2 DEF CommitWrite, WriteTags
    <3> QED BY <1>commit, <1>shrink, <3>1
  <2> QED BY <2>1, <2>2
<1>1. CASE Reset
  <2>1. CASE flush_last_q
    BY <1>1, <2>1 DEF Reset, Cleared, UniqueResidency, WriteTags, NoEntry, Holds, Ways, TypeOK
  <2>2. CASE ~flush_last_q
    BY <1>1, <2>2 DEF Reset, UniqueResidency
  <2> QED BY <2>1, <2>2
<1>2. ASSUME NEW r \in Inputs, Lookup(r) \/ LookupHold(r) PROVE UniqueResidency'
  BY <1>2, <1>commit DEF Lookup, LookupHold
<1>3. ASSUME NEW acc \in BOOLEAN, MissRefill(acc) PROVE UniqueResidency'
  BY <1>3, <1>same DEF MissRefill, ramVars
<1>4. ASSUME NEW acc \in BOOLEAN, EvictRefill(acc) PROVE UniqueResidency'
  <2>1. EvictWay /\ ~flushing_q
    BY <1>4 DEF EvictRefill, EvictAcked, WayInState
  <2>2. tag_out = TagsAt(mem_m.addr.set)
    BY <1>4, <2>1 DEF EvictRefill, EvictAcked, TagsRead, EvictSet
  <2> QED BY <1>4, <2>1, <2>2, <1>fill DEF EvictRefill, EvictAcked, EvictWay, HitAny
<1>5. CASE RefillBeat
  <2>1. CASE PmemLast
    BY <1>5, <2>1, <1>fill DEF RefillBeat, TagsRead, WayInState
  <2>2. CASE ~PmemLast
    BY <1>5, <2>2, <1>same DEF RefillBeat, WriteTags, TypeOK
  <2> QED BY <2>1, <2>2
<1>6. CASE WriteDone
  <2>1. tag_out = TagsAt(mem_m.addr.set) /\ Hit(replace_way_q) /\ state_q # "RESET"
    BY <1>6 DEF WriteDone, TagsRead, WayInState
  <2>2. WriteTags({replace_way_q}, mem_m.addr.set, Fresh(TRUE)) /\ {replace_way_q} \in SUBSET Ways
    BY <1>6 DEF WriteDone, TypeOK
  <2> QED BY <2>1, <2>2, <1>keep
<1>7. CASE EvictWrittenBack
  <2>1. ~flushing_q /\ Hit(replace_way_q)
    BY <1>7 DEF EvictWrittenBack, EvictAcked, OpInState, WayInState
  <2>2. tag_out = TagsAt(mem_m.addr.set)
    BY <1>7, <2>1 DEF EvictWrittenBack, EvictAcked, TagsRead, EvictSet
  <2>3. WriteTags({replace_way_q}, mem_m.addr.set, Fresh(FALSE)) /\ {replace_way_q} \in SUBSET Ways
    BY <1>7 DEF EvictWrittenBack, TypeOK
  <2> QED BY <1>7, <2>1, <2>2, <2>3, <1>keep DEF EvictWrittenBack, EvictAcked
<1>8. CASE EvictFlushed
  BY <1>8, <1>clear, <1>no, <1>set DEF EvictFlushed, EvictAcked, TypeOK
<1>9. CASE Invalidate
  <2>1. [Fresh(FALSE) EXCEPT !.valid = FALSE] \in Entry
    BY DEF Fresh, TypeOK, Entry, Request, Addr
  <2>2. ~[Fresh(FALSE) EXCEPT !.valid = FALSE].valid
    BY DEF Fresh
  <2> DEFINE ways == {w \in Ways : Hit(w)}
             e    == [Fresh(FALSE) EXCEPT !.valid = FALSE]
  <2>3. WriteTags(ways, mem_m.addr.set, e) /\ state_q # "RESET"
    BY <1>9 DEF Invalidate
  <2>4. ways \in SUBSET Ways
    OBVIOUS
  <2> HIDE DEF ways, e
  <2> QED BY <2>1, <2>2, <2>3, <2>4, <1>clear, <1>set DEF e
<1>10. CASE FlushClean
  BY <1>10, <1>clear, <1>no, <1>set DEF FlushClean
<1>11. CASE \/ MissEvict \/ RefillAccept \/ ReadDone \/ EvictStall \/ EvictBeat \/ Writeback
            \/ FlushAddr \/ FlushEvict \/ FlushNextWay
  BY <1>11, <1>same DEF MissEvict, RefillAccept, ReadDone, EvictStall, EvictBeat, Writeback,
                       FlushAddr, FlushEvict, FlushNextWay, ramVars
<1>12. CASE UNCHANGED vars
  BY <1>12 DEF vars, ramVars, UniqueResidency
<1> QED
  BY <1>1, <1>2, <1>3, <1>4, <1>5, <1>6, <1>7, <1>8, <1>9, <1>10, <1>11, <1>12 DEF Next

\* The counters follow the burst, beat by beat.
LEMMA BurstPreserved ==
    ASSUME TypeOK, BurstInStep, TagsRead, OpInState, WayInState, [Next]_vars
    PROVE  BurstInStep'
<1> DEFINE Bursts == {"REFILL", "EVICT", "EVICT_WAIT"}
<1>idle. state_q \notin Bursts => port.op = "idle" /\ ~pmem_rd_q /\ ~pmem_wr0_q
  BY DEF BurstInStep, TypeOK
<1>set. mem_m.addr.set \in Sets /\ flush_addr_q \in Sets /\ EvictSet \in Sets
  BY DEF TypeOK, Request, Addr, EvictSet
<1>quiet. ASSUME state_q' \notin Bursts, port'.op = "idle", ~pmem_rd_q', ~pmem_wr0_q'
          PROVE  BurstInStep'
  BY <1>quiet DEF BurstInStep
<1>start. ASSUME NEW s \in Sets, RequestEvict(s), s = EvictSet', state_q \notin Bursts
          PROVE  BurstInStep'
  <2>1. port' = port /\ port.op = "idle" /\ ~pmem_rd_q' /\ pmem_wr0_q' /\ state_q' = "EVICT"
    BY <1>start, <1>idle DEF RequestEvict, busVars
  <2>2. pmem_len_q' = NumWords - 1 /\ data_write_addr_q' = NextCell(<<s, 0>>)
    BY <1>start DEF RequestEvict, Base
  <2> QED BY <1>start, <2>1, <2>2 DEF BurstInStep
<1>refill. ASSUME NEW acc \in BOOLEAN, state_q' = "REFILL", UNCHANGED mem_m, ~pmem_wr0_q',
                  data_write_addr_q' = Base(mem_m.addr.set),
                  pmem_rd_q' = ~acc,
                  acc => /\ pmem_len_q' = NumWords - 1
                         /\ port' = [op |-> "rd", beat |-> 0,
                                     line |-> [tag |-> mem_m.addr.tag, set |-> mem_m.addr.set]],
                  ~acc => port'.op = "idle"
           PROVE  BurstInStep'
  <2>1. CASE acc
    <3>1. /\ port'.op = "rd" /\ port'.beat = 0
          /\ port'.line = [tag |-> mem_m.addr.tag, set |-> mem_m.addr.set]
          /\ pmem_len_q' = NumWords - 1
      BY <1>refill, <2>1
    <3>3. ~pmem_rd_q'
      BY <1>refill, <2>1, Zenon
    <3>2. data_write_addr_q' = <<port'.line.set, port'.beat>> /\ mem_m' = mem_m
      BY <1>refill, <3>1 DEF Base
    <3> QED BY <1>refill, <3>1, <3>2, <3>3 DEF BurstInStep
  <2>2. CASE ~acc
    BY <1>refill, <2>2 DEF BurstInStep
  <2> QED BY <2>1, <2>2
<1>1. CASE Reset
  BY <1>1, <1>idle, <1>quiet DEF Reset, pmemVars, busVars
<1>2. ASSUME NEW r \in Inputs, Lookup(r) PROVE BurstInStep'
  BY <1>2, <1>idle, <1>quiet DEF Lookup, AfterAccept, pmemVars, busVars
<1>3. ASSUME NEW r \in Inputs, LookupHold(r) PROVE BurstInStep'
  BY <1>3, <1>idle, <1>quiet DEF LookupHold, pmemVars, busVars
<1>4. ASSUME NEW acc \in BOOLEAN, MissRefill(acc) PROVE BurstInStep'
  BY <1>4, <1>idle, <1>refill DEF MissRefill, RequestRefill
<1>5. CASE MissEvict
  <2>1. mem_m.addr.set = EvictSet' /\ state_q \notin Bursts
    BY <1>5 DEF MissEvict, EvictSet, OpInState
  <2> QED BY <1>5, <2>1, <1>set, <1>start DEF MissEvict
<1>6. CASE RefillAccept
  <2>1. data_write_addr_q' = Base(mem_m.addr.set) /\ ~pmem_wr0_q'
    BY <1>6 DEF RefillAccept, RequestRefill, BurstInStep
  <2> QED BY <1>6, <2>1, <1>refill DEF RefillAccept, RequestRefill
<1>7. CASE RefillBeat
  <2>1. /\ port.line = [tag |-> mem_m.addr.tag, set |-> mem_m.addr.set]
        /\ port.beat + pmem_len_q = NumWords - 1
        /\ data_write_addr_q = <<port.line.set, port.beat>>
        /\ ~pmem_rd_q' /\ ~pmem_wr0_q' /\ UNCHANGED mem_m
    BY <1>7 DEF RefillBeat, BurstInStep
  <2>2. CASE PmemLast
    <3>1. port' = IdlePort /\ state_q' \in {"READ", "WRITE"}
      BY <1>7, <2>1, <2>2 DEF RefillBeat, PmemLast, TypeOK
    <3> QED BY <2>1, <3>1, <1>quiet DEF IdlePort
  <2>3. CASE ~PmemLast
    <3>1. port.beat # NumWords - 1 /\ pmem_len_q' = pmem_len_q - 1
      BY <1>7, <2>1, <2>3 DEF RefillBeat, LenDown, PmemLast, TypeOK
    <3>2. /\ port' = [port EXCEPT !.beat = @ + 1]
          /\ state_q' = "REFILL"
          /\ data_write_addr_q' = <<port.line.set, port.beat + 1>>
      BY <1>7, <2>1, <2>3, <3>1 DEF RefillBeat, NextCell
    <3>3. port'.op = "rd" /\ port'.line = port.line /\ port'.beat = port.beat + 1
      BY <1>7, <3>2 DEF RefillBeat, TypeOK
    <3>4. port'.beat + pmem_len_q' = NumWords - 1
      BY <2>1, <3>1, <3>3 DEF TypeOK
    <3> QED BY <2>1, <3>2, <3>3, <3>4 DEF BurstInStep
  <2> QED BY <2>2, <2>3
<1>8. CASE ReadDone
  BY <1>8, <1>idle, <1>quiet DEF ReadDone, pmemVars, busVars
<1>9. CASE WriteDone
  BY <1>9, <1>idle, <1>quiet DEF WriteDone, pmemVars, busVars
<1>evict. ASSUME state_q = "EVICT", UNCHANGED <<mem_m, replace_way_q, flushVars, ramVars>>,
                 ReadTags(EvictSet)
          PROVE  EvictSet' = EvictSet /\ EvictLine' = EvictLine
  <2>1. tag_out' = tag_out
    BY <1>evict DEF TagsRead, TagsAt, ReadTags, ramVars
  <2> QED BY <1>evict, <2>1 DEF EvictSet, EvictLine, flushVars
<1>10. CASE EvictStall
  <2>1. EvictSet' = EvictSet /\ EvictLine' = EvictLine
    BY <1>10, <1>evict DEF EvictStall
  <2> QED BY <1>10, <2>1 DEF EvictStall, BurstInStep, busVars
<1>11. CASE EvictBeat
  <2> DEFINE sent == IF pmem_wr0_q THEN 0 ELSE port.beat
  <2>1. EvictSet' = EvictSet /\ EvictLine' = EvictLine
    BY <1>11, <1>evict DEF EvictBeat
  <2>2. PmemWr
    BY <1>11 DEF EvictBeat, WayInState, PmemWr
  <2>3. /\ sent \in Nat /\ sent + pmem_len_q = NumWords - 1
        /\ data_write_addr_q = NextCell(<<EvictSet, sent>>)
        /\ ~pmem_wr0_q => port.op = "wr" /\ port.line = EvictLine
    BY <1>11 DEF EvictBeat, BurstInStep, TypeOK
  <2>4. port'.op = "wr" /\ port'.line = EvictLine /\ port'.beat = sent + 1
    BY <1>11, <2>2, <2>3 DEF EvictBeat, TypeOK
  <2>5. ~pmem_rd_q' /\ ~pmem_wr0_q'
    BY <1>11 DEF EvictBeat, BurstInStep
  <2>6. CASE PmemLast
    <3>1. state_q' = "EVICT_WAIT" /\ port'.beat = NumWords
      BY <1>11, <2>3, <2>4, <2>6 DEF EvictBeat, PmemLast, TypeOK
    <3> QED BY <2>4, <2>5, <3>1 DEF BurstInStep
  <2>7. CASE ~PmemLast
    <3>1. sent # NumWords - 1 /\ pmem_len_q' = pmem_len_q - 1
      BY <1>11, <2>3, <2>7 DEF EvictBeat, LenDown, PmemLast, TypeOK
    <3>2. data_write_addr_q' = NextCell(<<EvictSet, sent + 1>>) /\ state_q' = "EVICT"
      BY <1>11, <2>3, <2>7, <3>1 DEF EvictBeat, NextCell
    <3>3. port'.beat + pmem_len_q' = NumWords - 1
      BY <2>3, <2>4, <3>1 DEF TypeOK
    <3> QED BY <2>1, <2>4, <2>5, <3>2, <3>3 DEF BurstInStep
  <2> QED BY <2>6, <2>7
<1>acked. ASSUME EvictAcked, state_q' \notin Bursts, port' = IdlePort, UNCHANGED pmemVars
          PROVE  BurstInStep'
  <2>1. ~pmem_rd_q /\ ~pmem_wr0_q
    BY <1>acked DEF EvictAcked, BurstInStep
  <2> QED BY <1>acked, <2>1, <1>quiet DEF pmemVars, IdlePort
<1>12. CASE EvictWrittenBack \/ EvictFlushed
  <2>1. CASE EvictWrittenBack
    BY <2>1, <1>acked DEF EvictWrittenBack
  <2>2. CASE EvictFlushed
    BY <2>2, <1>acked DEF EvictFlushed
  <2> QED BY <1>12, <2>1, <2>2
<1>13. ASSUME NEW acc \in BOOLEAN, EvictRefill(acc) PROVE BurstInStep'
  <2>1. ~pmem_wr0_q'
    BY <1>13 DEF EvictRefill, EvictAcked, BurstInStep
  <2> QED BY <1>13, <2>1, <1>refill DEF EvictRefill, IdlePort
<1>14. CASE Writeback
  <2>1. state_q \notin Bursts /\ mem_m.addr.set = EvictSet'
    BY <1>14 DEF Writeback, OpInState, EvictSet, flushVars
  <2>2. CASE \E w \in Ways : Hit(w) /\ tag_out[w].dirty
    BY <1>14, <2>1, <2>2, <1>set, <1>start DEF Writeback
  <2>3. CASE ~\E w \in Ways : Hit(w) /\ tag_out[w].dirty
    BY <1>14, <2>1, <2>3, <1>idle, <1>quiet DEF Writeback, pmemVars, busVars
  <2> QED BY <2>2, <2>3
<1>15. CASE Invalidate
  BY <1>15, <1>idle, <1>quiet DEF Invalidate, pmemVars, busVars
<1>16. CASE FlushAddr \/ FlushClean \/ FlushNextWay
  <2>1. state_q \notin Bursts /\ state_q' \notin Bursts /\ UNCHANGED <<pmemVars, busVars>>
    BY <1>16 DEF FlushAddr, FlushClean, FlushNextWay
  <2> QED BY <2>1, <1>idle, <1>quiet DEF pmemVars, busVars
<1>17. CASE FlushEvict
  <2>1. flush_addr_q = EvictSet' /\ state_q \notin Bursts
    BY <1>17 DEF FlushEvict, EvictSet, OpInState, flushVars
  <2> QED BY <1>17, <2>1, <1>set, <1>start DEF FlushEvict
<1>18. CASE UNCHANGED vars
  BY <1>18 DEF vars, flushVars, pmemVars, busVars, BurstInStep, EvictSet, EvictLine
<1> QED
  BY <1>1, <1>2, <1>3, <1>4, <1>5, <1>6, <1>7, <1>8, <1>9, <1>10, <1>11, <1>12,
     <1>13, <1>14, <1>15, <1>16, <1>17, <1>18 DEF Next

\* The inductive invariant holds at power up, whatever the tag RAMs hold.
LEMMA InitInductive == Init => Inductive
<1> SUFFICES ASSUME Init PROVE Inductive
  OBVIOUS
<1>1. TypeOK
  <2>1. tag_ram \in [Ways -> [Sets -> Entry]] /\ memory \in [Addr -> Data]
    BY DEF Init, Data
  <2>2. \A c \in Cell : Junk \in Data
    BY DEF Data
  <2>3. /\ tag_out \in [Ways -> Entry] /\ data_ram \in [Ways -> [Cell -> Data]]
        /\ flush_addr_q \in Sets /\ data_write_addr_q \in Cell
    BY <2>2, ConstantTypes DEF Init
  <2>4. state_q \in States /\ mem_m \in Request /\ data_out \in [Ways -> Data] /\ replace_way_q \in Ways
    BY ConstantTypes DEF Init, States, Ways
  <2>5. /\ pmem_len_q \in 0 .. 255 /\ pmem_wr_q \in [valid : BOOLEAN, data : Data]
        /\ port \in [op : {"idle", "rd", "wr"}, line : Line, beat : 0 .. NumWords]
    BY ConstantTypes DEF Init
  <2>6. /\ flushing_q \in BOOLEAN /\ flush_last_q \in BOOLEAN
        /\ pmem_rd_q \in BOOLEAN /\ pmem_wr0_q \in BOOLEAN
    BY DEF Init
  <2> QED BY <2>1, <2>3, <2>4, <2>5, <2>6 DEF TypeOK
<1>2. BurstInStep /\ TagsRead /\ OpInState /\ WayInState
  BY DEF Init, BurstInStep, TagsRead, OpInState, WayInState, IdlePort, NoReq, IsAccess
<1>3. Cleared /\ UniqueResidency
  BY DEF Init, Cleared, UniqueResidency, Sets
<1> QED BY <1>1, <1>2, <1>3 DEF Inductive

LEMMA InductiveAlways == Spec => []Inductive
<1>1. Inductive /\ [Next]_vars => Inductive'
  BY TypePreserved, BurstPreserved, TagsReadPreserved, OpInStatePreserved, WayInStatePreserved,
     ClearedPreserved, UniqueResidencyPreserved DEF Inductive
<1> QED BY <1>1, InitInductive, PTL DEF Spec

\* The registers and RAMs of dcache_core.v keep values of their widths,
\* whatever the sizes of the cache and the requests it is given.
THEOREM TypeCorrect == Spec => []TypeOK
<1>1. Inductive => TypeOK
  BY DEF Inductive
<1> QED BY <1>1, InductiveAlways, PTL

\* No line is ever in both ways, so the hit of a lookup is the line's one copy.
THEOREM OneCopy == Spec => []UniqueResidency
<1>1. Inductive => UniqueResidency
  BY DEF Inductive
<1> QED BY <1>1, InductiveAlways, PTL

\* The beat counter and the data RAM address follow every burst, for any
\* number of words of a line that the 8-bit length can express.
THEOREM BurstsInStep == Spec => []BurstInStep
<1>1. Inductive => BurstInStep
  BY DEF Inductive
<1> QED BY <1>1, InductiveAlways, PTL

-----------------------------------------------------------------------------
(* What is in a line.                                                         *)

\* Way w has the words of line l as memory has them.
InMemory(w, l) == \A k \in Words : data_ram[w][<<l.set, k>>] = memory[AddrAt(l, k)]

\* Way w holds line l, not dirty, and is not being filled.
Clean(w, l) ==
    /\ Holds(tag_ram[w][l.set], l.tag)
    /\ ~tag_ram[w][l.set].dirty
    /\ ~Filling(w, l.set)

\* The words of a write burst the bus has taken.
Sent == IF pmem_wr0_q THEN 0 ELSE port.beat

\* The words of a burst that are done are the same on both sides, and the one
\* an evict offers, skid buffer or RAM output, is the next of the line.
BurstData ==
    /\ port.op = "rd" =>
          \A k \in Words : k < port.beat =>
              data_ram[replace_way_q][<<port.line.set, k>>] = memory[AddrAt(port.line, k)]
    /\ state_q \in {"EVICT", "EVICT_WAIT"} =>
          \A k \in Words : k < Sent =>
              memory[AddrAt(EvictLine, k)] = data_ram[replace_way_q][<<EvictSet, k>>]
    /\ state_q = "EVICT" => PmemWriteData = data_ram[replace_way_q][<<EvictSet, Sent>>]
    /\ state_q # "EVICT" => ~pmem_wr_q.valid

\* A flush leaves no line behind it, and knows the last set when it is there.
FlushWalk ==
    flushing_q =>
        /\ \A w \in Ways, s \in Sets : s < flush_addr_q => ~tag_ram[w][s].valid
        /\ flush_last_q => flush_addr_q = NumSets - 1
        /\ state_q # "FLUSH_ADDR" /\ flush_addr_q = NumSets - 1 => flush_last_q

\* When a write back is answered no way holds its line dirty.
WbClean ==
    state_q = "LOOKUP" /\ mem_m.op = "wb" =>
        \A w \in Ways : Holds(tag_ram[w][mem_m.addr.set], mem_m.addr.tag) =>
                            ~tag_ram[w][mem_m.addr.set].dirty

DataInductive == Inductive /\ CleanMatchesMemory /\ BurstData /\ FlushWalk /\ FlushedOut /\ WbClean

\* CleanMatchesMemory in these words.
LEMMA CleanForm ==
    CleanMatchesMemory <=>
        (state_q # "RESET" => \A w \in Ways, l \in Line : Clean(w, l) => InMemory(w, l))
BY DEF CleanMatchesMemory, Clean, InMemory

\* What a RAM port writes, entry by entry.
LEMMA TagsWritten ==
    ASSUME TypeOK, NEW ways, NEW s \in Sets, NEW e, WriteTags(ways, s, e),
           NEW w \in Ways, NEW t \in Sets
    PROVE  /\ w \in ways /\ t = s => tag_ram'[w][t] = e
           /\ ~(w \in ways /\ t = s) => tag_ram'[w][t] = tag_ram[w][t]
BY DEF TypeOK, WriteTags

\* The same for a data RAM.
LEMMA DataWritten ==
    ASSUME TypeOK, NEW ways, NEW c \in Cell, NEW v, WriteData(ways, c, v),
           NEW w \in Ways, NEW d \in Cell
    PROVE  /\ w \in ways /\ d = c => data_ram'[w][d] = v
           /\ ~(w \in ways /\ d = c) => data_ram'[w][d] = data_ram[w][d]
BY DEF TypeOK, WriteData

\* The sets and lines a state works on, in their types.
LEMMA WorkTypes ==
    ASSUME TypeOK
    PROVE  /\ mem_m.addr \in Addr /\ mem_m.addr.set \in Sets /\ mem_m.addr.tag \in Tags
           /\ mem_m.addr.word \in Words /\ CellOf(mem_m.addr) \in Cell
           /\ EvictSet \in Sets /\ EvictLine \in Line /\ EvictLine.set = EvictSet
           /\ flush_addr_q \in Sets /\ replace_way_q \in Ways
BY DEF TypeOK, Request, Addr, CellOf, Cell, EvictSet, EvictLine, Line, Entry

\* The line on its way out is in the way at work, and in no other.
LEMMA EvictOwned ==
    ASSUME TypeOK, TagsRead, WayInState, UniqueResidency, state_q \in {"EVICT", "EVICT_WAIT"}
    PROVE  /\ Holds(tag_ram[replace_way_q][EvictSet], EvictLine.tag)
           /\ \A w \in Ways : Holds(tag_ram[w][EvictSet], EvictLine.tag) => w = replace_way_q
           /\ mem_m.op = "wb" \/ tag_ram[replace_way_q][EvictSet].dirty
<1>1. tag_out[replace_way_q] = tag_ram[replace_way_q][EvictSet]
  BY WorkTypes DEF TagsRead, TagsAt
<1>2. tag_out[replace_way_q].valid /\ (mem_m.op = "wb" \/ tag_out[replace_way_q].dirty)
  BY DEF WayInState, Hit, EvictWay, Dirty
<1>3. Holds(tag_ram[replace_way_q][EvictSet], EvictLine.tag)
  BY <1>1, <1>2 DEF Holds, EvictLine
<1>4. EvictLine.tag \in Tags /\ EvictSet \in Sets /\ replace_way_q \in Ways
  BY WorkTypes DEF Line
<1>5. \A w \in Ways : Holds(tag_ram[w][EvictSet], EvictLine.tag) => w = replace_way_q
  BY <1>3, <1>4 DEF UniqueResidency, Ways
<1> QED BY <1>1, <1>2, <1>3, <1>5

\* A write that hits leaves the ways it writes dirty, and every other line as it is.
LEMMA CommitFrame ==
    ASSUME TypeOK, CommitWrite, NEW w \in Ways, NEW l \in Line
    PROVE  \/ tag_ram'[w][l.set] = Fresh(TRUE)
           \/ /\ tag_ram'[w][l.set] = tag_ram[w][l.set]
              /\ \A k \in Words : data_ram'[w][<<l.set, k>>] = data_ram[w][<<l.set, k>>]
<1> DEFINE ways == {v \in Ways : mem_m.op = "wr" /\ Hit(v)}
<1>1. WriteTags(ways, mem_m.addr.set, Fresh(TRUE)) /\ WriteData(ways, CellOf(mem_m.addr), mem_m.data)
  BY DEF CommitWrite
<1> HIDE DEF ways
<1>2. l.set \in Sets
  BY DEF Line
<1>ram. tag_ram \in [Ways -> [Sets -> Entry]]
  BY DEF TypeOK
<1>3. tag_ram'[w][l.set] = IF w \in ways /\ l.set = mem_m.addr.set THEN Fresh(TRUE) ELSE tag_ram[w][l.set]
  BY <1>1, <1>2, <1>ram DEF WriteTags
<1>4. ASSUME NEW k \in Words
      PROVE  data_ram'[w][<<l.set, k>>] =
                 IF w \in ways /\ <<l.set, k>> = CellOf(mem_m.addr) THEN mem_m.data
                 ELSE data_ram[w][<<l.set, k>>]
  BY <1>1, <1>2, WorkTypes, DataWritten DEF Cell
<1> QED BY <1>3, <1>4 DEF CellOf

\* A line is clean after a step only if memory has its words.
LEMMA CleanPreserved ==
    ASSUME Inductive, CleanMatchesMemory, BurstData, [Next]_vars
    PROVE  CleanMatchesMemory'
<1>1. SUFFICES ASSUME state_q' # "RESET", NEW w \in Ways, NEW l \in Line, Clean(w, l)'
               PROVE  InMemory(w, l)'
  BY DEF CleanMatchesMemory, Clean, InMemory
<1> USE <1>1
<1>type. TypeOK /\ l.set \in Sets /\ l.tag \in Tags /\ \A k \in Words : <<l.set, k>> \in Cell
  BY DEF Inductive, Line, Cell
<1>ram. tag_ram \in [Ways -> [Sets -> Entry]] /\ data_ram \in [Ways -> [Cell -> Data]]
  BY <1>type DEF TypeOK
<1>work. /\ mem_m.addr.set \in Sets /\ EvictSet \in Sets /\ EvictLine \in Line /\ flush_addr_q \in Sets
         /\ EvictLine.set = EvictSet /\ replace_way_q \in Ways /\ CellOf(mem_m.addr) \in Cell
  BY <1>type, WorkTypes
<1>same. ASSUME state_q # "RESET", Clean(w, l), UNCHANGED memory,
                \A k \in Words : data_ram'[w][<<l.set, k>>] = data_ram[w][<<l.set, k>>]
         PROVE  InMemory(w, l)'
  <2>1. InMemory(w, l)
    BY <1>same, CleanForm
  <2> QED BY <1>same, <2>1 DEF InMemory
<1>still. ASSUME state_q \notin {"RESET", "REFILL"}, UNCHANGED <<tag_ram, data_ram, memory>>
          PROVE  InMemory(w, l)'
  <2>1. Clean(w, l)
    BY <1>still DEF Clean, Filling
  <2> QED BY <1>still, <2>1, <1>same
<1>tags. ASSUME NEW ways, NEW s \in Sets, NEW e, ~e.valid, WriteTags(ways, s, e),
                state_q \notin {"RESET", "REFILL"}, UNCHANGED <<data_ram, memory>>
         PROVE  InMemory(w, l)'
  <2>1. tag_ram'[w][l.set] = IF w \in ways /\ l.set = s THEN e ELSE tag_ram[w][l.set]
    BY <1>tags, <1>type, TagsWritten
  <2>2. Clean(w, l)
    BY <1>tags, <2>1 DEF Clean, Filling, Holds
  <2> QED BY <1>tags, <2>2, <1>same
<1>no. ~NoEntry.valid /\ NoEntry \in Entry
  BY ConstantTypes DEF NoEntry
<1>commit. ASSUME state_q = "LOOKUP", CommitWrite, UNCHANGED memory PROVE InMemory(w, l)'
  <2>1. tag_ram'[w][l.set] # Fresh(TRUE)
    BY DEF Clean, Fresh
  <2>2. /\ tag_ram'[w][l.set] = tag_ram[w][l.set]
        /\ \A k \in Words : data_ram'[w][<<l.set, k>>] = data_ram[w][<<l.set, k>>]
    BY <1>commit, <1>type, <2>1, CommitFrame
  <2>3. Clean(w, l)
    BY <1>commit, <2>2 DEF Clean, Filling
  <2> QED BY <1>commit, <2>2, <2>3, <1>same
<1>2. CASE Reset
  <2>1. flush_last_q /\ state_q = "RESET" /\ \A v \in Ways, s \in Sets : ~tag_ram[v][s].valid
    BY <1>2 DEF Reset, Inductive, Cleared
  <2>2. tag_ram'[w][l.set] = IF l.set = flush_addr_q THEN NoEntry ELSE tag_ram[w][l.set]
    BY <1>2, <1>type, <1>work, <1>ram DEF Reset, WriteTags
  <2> QED BY <2>1, <2>2, <1>no, <1>type DEF Clean, Holds
<1>3. ASSUME NEW r \in Inputs, Lookup(r) \/ LookupHold(r) PROVE InMemory(w, l)'
  BY <1>3, <1>commit DEF Lookup, LookupHold, busVars
<1>4. ASSUME NEW acc \in BOOLEAN, MissRefill(acc) PROVE InMemory(w, l)'
  BY <1>4, <1>still DEF MissRefill, RequestRefill, ramVars
<1>5. CASE MissEvict \/ FlushEvict
  BY <1>5, <1>still DEF MissEvict, FlushEvict, RequestEvict, ramVars, busVars
<1>6. CASE RefillAccept
  <2>1. Clean(w, l)
    BY <1>6 DEF RefillAccept, Clean, Filling, ramVars
  <2> QED BY <1>6, <2>1, <1>same DEF RefillAccept, RequestRefill, ramVars
<1>7. CASE RefillBeat
  <2>1. /\ port.line = [tag |-> mem_m.addr.tag, set |-> mem_m.addr.set]
        /\ port.beat + pmem_len_q = NumWords - 1
        /\ data_write_addr_q = <<mem_m.addr.set, port.beat>>
        /\ \A k \in Words : k < port.beat =>
              data_ram[replace_way_q][<<mem_m.addr.set, k>>] = memory[AddrAt(port.line, k)]
        /\ state_q = "REFILL" /\ UNCHANGED <<memory, mem_m, replace_way_q>>
    BY <1>7 DEF RefillBeat, Inductive, BurstInStep, BurstData
  <2>2. port.beat \in Nat /\ pmem_len_q \in Nat /\ data_write_addr_q \in Cell
    BY <1>type DEF TypeOK
  <2>3. \A k \in Words : data_ram'[w][<<l.set, k>>] =
            IF w = replace_way_q /\ l.set = mem_m.addr.set /\ k = port.beat
            THEN memory[AddrAt(port.line, port.beat)] ELSE data_ram[w][<<l.set, k>>]
    <3>1. WriteData({replace_way_q}, data_write_addr_q, memory[AddrAt(port.line, port.beat)])
      BY <1>7 DEF RefillBeat
    <3>2. ASSUME NEW k \in Words
          PROVE  /\ w \in {replace_way_q} /\ <<l.set, k>> = data_write_addr_q =>
                       data_ram'[w][<<l.set, k>>] = memory[AddrAt(port.line, port.beat)]
                 /\ ~(w \in {replace_way_q} /\ <<l.set, k>> = data_write_addr_q) =>
                       data_ram'[w][<<l.set, k>>] = data_ram[w][<<l.set, k>>]
      BY <1>type, <1>ram, <2>2, <3>1 DEF WriteData
    <3> QED BY <2>1, <3>2
  <2>4. tag_ram'[w][l.set] = IF PmemLast /\ w = replace_way_q /\ l.set = mem_m.addr.set
                             THEN Fresh(FALSE) ELSE tag_ram[w][l.set]
    <3>1. CASE PmemLast
      BY <1>7, <1>type, <1>work, <3>1, <1>ram DEF RefillBeat, WriteTags
    <3>2. CASE ~PmemLast
      BY <1>7, <1>type, <1>work, <3>2, <1>ram DEF RefillBeat, WriteTags
    <3> QED BY <3>1, <3>2
  <2>5. CASE w = replace_way_q /\ l.set = mem_m.addr.set
    <3>1. PmemLast
      BY <1>7, <2>1, <2>5 DEF RefillBeat, Clean, Filling
    <3>2. l = port.line
      BY <2>1, <2>4, <2>5, <3>1 DEF Clean, Holds, Fresh, Line
    <3>3. port.beat = NumWords - 1
      BY <2>1, <2>2, <3>1 DEF PmemLast
    <3>4. \A k \in Words : k < port.beat \/ k = port.beat
      BY <2>2, <3>3 DEF Words
    <3> QED BY <2>1, <2>3, <2>5, <3>2, <3>4 DEF InMemory
  <2>6. CASE ~(w = replace_way_q /\ l.set = mem_m.addr.set)
    <3>1. Clean(w, l)
      BY <2>4, <2>6 DEF Clean, Filling
    <3> QED BY <2>1, <2>3, <2>6, <3>1, <1>same
  <2> QED BY <2>5, <2>6
<1>8. CASE ReadDone
  BY <1>8, <1>still DEF ReadDone, ramVars, busVars
<1>9. CASE WriteDone
  <2>1. /\ state_q = "WRITE" /\ Hit(replace_way_q) /\ tag_out = TagsAt(mem_m.addr.set)
        /\ UNCHANGED memory
    BY <1>9 DEF WriteDone, Inductive, WayInState, TagsRead, busVars
  <2>2. \A v \in Ways : Hit(v) => v = replace_way_q
    BY <2>1, <1>work, WorkTypes, <1>type DEF Inductive, UniqueResidency, Hit, Holds, TagsAt, Ways
  <2>3. tag_ram'[w][l.set] = IF w = replace_way_q /\ l.set = mem_m.addr.set
                             THEN Fresh(TRUE) ELSE tag_ram[w][l.set]
    BY <1>9, <1>type, <1>work, <1>ram DEF WriteDone, WriteTags
  <2>4. ~(w = replace_way_q /\ l.set = mem_m.addr.set)
    BY <2>3 DEF Clean, Fresh
  <2> DEFINE ways == {v \in Ways : Hit(v)}
  <2>5. w \in ways => w = replace_way_q
    BY <2>2
  <2>6. WriteData(ways, CellOf(mem_m.addr), mem_m.data)
    BY <1>9 DEF WriteDone
  <2> HIDE DEF ways
  <2>7. \A k \in Words : data_ram'[w][<<l.set, k>>] = data_ram[w][<<l.set, k>>]
    BY <1>type, <1>work, <2>4, <2>5, <2>6, DataWritten DEF CellOf
  <2>8. Clean(w, l)
    BY <2>1, <2>3, <2>4 DEF Clean, Filling
  <2> QED BY <2>1, <2>7, <2>8, <1>same
<1>10. CASE EvictStall
  BY <1>10, <1>still DEF EvictStall, ramVars, busVars
<1>owned. state_q \in {"EVICT", "EVICT_WAIT"} =>
              /\ Holds(tag_ram[replace_way_q][EvictSet], EvictLine.tag)
              /\ \A v \in Ways : Holds(tag_ram[v][EvictSet], EvictLine.tag) => v = replace_way_q
  BY EvictOwned DEF Inductive
<1>11. CASE EvictBeat
  <2>1. state_q = "EVICT" /\ UNCHANGED <<tag_ram, data_ram>>
    BY <1>11 DEF EvictBeat, ramVars
  <2>2. Clean(w, l)
    BY <2>1 DEF Clean, Filling
  <2>3. InMemory(w, l)
    BY <2>1, <2>2, CleanForm
  <2>4. PmemWriteData = data_ram[replace_way_q][<<EvictSet, Sent>>] /\ Sent \in Nat
    BY <2>1, <1>type DEF BurstData, Sent, TypeOK
  <2>5. memory' = memory \/ memory' = [memory EXCEPT ![AddrAt(EvictLine, Sent)] = PmemWriteData]
    <3>1. CASE PmemWr
      <4>1. port'.line = EvictLine /\ port'.beat - 1 = Sent
        BY <1>11, <3>1, <2>4, <1>type DEF EvictBeat, Inductive, BurstInStep, Sent, TypeOK
      <4> QED BY <1>11, <3>1, <4>1 DEF EvictBeat
    <3>2. CASE ~PmemWr
      BY <1>11, <3>2 DEF EvictBeat, busVars
    <3> QED BY <3>1, <3>2
  <2>6. SUFFICES ASSUME NEW k \in Words
                 PROVE  data_ram[w][<<l.set, k>>] = memory'[AddrAt(l, k)]
    BY <2>1 DEF InMemory
  <2>7. AddrAt(l, k) \in Addr
    BY <1>type DEF AddrAt, Addr
  <2>8. CASE AddrAt(l, k) = AddrAt(EvictLine, Sent)
    <3>1. l.tag = EvictLine.tag /\ l.set = EvictSet /\ k = Sent
      BY <2>8, <1>work DEF AddrAt
    <3>2. w = replace_way_q
      BY <2>1, <2>2, <3>1, <1>owned DEF Clean
    <3>3. memory'[AddrAt(l, k)] = memory[AddrAt(l, k)] \/ memory'[AddrAt(l, k)] = PmemWriteData
      BY <2>5, <2>7, <1>type DEF TypeOK
    <3> QED BY <2>3, <2>4, <3>1, <3>2, <3>3 DEF InMemory
  <2>9. CASE AddrAt(l, k) # AddrAt(EvictLine, Sent)
    <3>1. memory'[AddrAt(l, k)] = memory[AddrAt(l, k)]
      BY <2>5, <2>7, <2>9, <1>type DEF TypeOK
    <3> QED BY <2>3, <3>1 DEF InMemory
  <2> QED BY <2>8, <2>9
<1>12. CASE EvictWrittenBack
  <2>1. /\ state_q = "EVICT_WAIT" /\ mem_m.op = "wb" /\ ~flushing_q /\ EvictSet = mem_m.addr.set
        /\ UNCHANGED <<data_ram, memory>>
    BY <1>12 DEF EvictWrittenBack, EvictAcked, Inductive, OpInState, EvictSet
  <2>2. tag_ram'[w][l.set] = IF w = replace_way_q /\ l.set = mem_m.addr.set
                             THEN Fresh(FALSE) ELSE tag_ram[w][l.set]
    BY <1>12, <1>type, <1>work, <1>ram DEF EvictWrittenBack, WriteTags
  <2>3. CASE w = replace_way_q /\ l.set = mem_m.addr.set
    <3>1. EvictLine.tag = mem_m.addr.tag
      BY <2>1 DEF Inductive, WayInState, Hit, EvictLine
    <3>2. l = EvictLine
      BY <2>1, <2>2, <2>3, <3>1, <1>work DEF Clean, Holds, Fresh, Line
    <3>3. Sent = NumWords
      BY <2>1 DEF Inductive, BurstInStep, Sent
    <3>4. \A k \in Words : memory[AddrAt(EvictLine, k)] = data_ram[replace_way_q][<<EvictSet, k>>]
      <4>1. \A k \in Words : k < Sent
        BY <3>3 DEF Words
      <4> QED BY <2>1, <4>1 DEF BurstData
    <3> QED BY <2>1, <2>3, <3>2, <3>4 DEF InMemory
  <2>4. CASE ~(w = replace_way_q /\ l.set = mem_m.addr.set)
    <3>1. Clean(w, l)
      BY <2>1, <2>2, <2>4 DEF Clean, Filling
    <3> QED BY <2>1, <3>1, <1>same
  <2> QED BY <2>3, <2>4
<1>13. CASE EvictFlushed
  BY <1>13, <1>no, <1>work, <1>tags DEF EvictFlushed, EvictAcked
<1>14. ASSUME NEW acc \in BOOLEAN, EvictRefill(acc) PROVE InMemory(w, l)'
  <2>1. state_q = "EVICT_WAIT" /\ UNCHANGED <<data_ram, memory, mem_m, replace_way_q>> /\ state_q' = "REFILL"
    BY <1>14 DEF EvictRefill, EvictAcked
  <2>2. tag_ram'[w][l.set] = IF w = replace_way_q /\ l.set = mem_m.addr.set
                             THEN Fresh(FALSE) ELSE tag_ram[w][l.set]
    BY <1>14, <1>type, <1>work, <1>ram DEF EvictRefill, WriteTags
  <2>3. Clean(w, l)
    BY <2>1, <2>2 DEF Clean, Filling
  <2> QED BY <2>1, <2>3, <1>same
<1>15. CASE Writeback
  BY <1>15, <1>still DEF Writeback, RequestEvict, ramVars, busVars
<1>16. CASE Invalidate
  <2>1. ~[Fresh(FALSE) EXCEPT !.valid = FALSE].valid
    BY DEF Fresh
  <2> QED BY <1>16, <2>1, <1>work, <1>tags DEF Invalidate, busVars
<1>17. CASE FlushAddr \/ FlushNextWay
  BY <1>17, <1>still DEF FlushAddr, FlushNextWay, ramVars, busVars
<1>18. CASE FlushClean
  BY <1>18, <1>no, <1>work, <1>tags DEF FlushClean, busVars
<1>19. CASE UNCHANGED vars
  BY <1>19, <1>same DEF vars, ramVars, busVars, Clean, Filling
<1> QED
  BY <1>2, <1>3, <1>4, <1>5, <1>6, <1>7, <1>8, <1>9, <1>10, <1>11, <1>12,
     <1>13, <1>14, <1>15, <1>16, <1>17, <1>18, <1>19 DEF Next

\* The burst and the line it moves stay the same word by word.
LEMMA BurstDataPreserved ==
    ASSUME Inductive, BurstData, [Next]_vars
    PROVE  BurstData'
<1> DEFINE Bursts == {"REFILL", "EVICT", "EVICT_WAIT"}
<1>type. TypeOK /\ replace_way_q \in Ways /\ data_ram \in [Ways -> [Cell -> Data]]
  BY WorkTypes DEF Inductive, TypeOK
<1>burst. BurstInStep
  BY DEF Inductive
<1>idle. state_q \notin Bursts => port.op = "idle" /\ ~pmem_rd_q /\ ~pmem_wr0_q
  BY <1>burst, <1>type DEF BurstInStep, TypeOK
<1>quiet. ASSUME state_q' \notin Bursts, port'.op = "idle", ~pmem_wr_q'.valid PROVE BurstData'
  BY <1>quiet DEF BurstData
<1>skid. state_q # "EVICT" => ~pmem_wr_q.valid
  BY DEF BurstData
<1>start. ASSUME NEW s \in Sets, RequestEvict(s), s = EvictSet', UNCHANGED data_ram,
                 replace_way_q' \in Ways, state_q \notin Bursts
          PROVE  BurstData'
  <2>1. Sent' = 0 /\ port'.op = "idle" /\ state_q' = "EVICT" /\ ~pmem_wr_q'.valid
    BY <1>start, <1>idle, <1>skid DEF RequestEvict, Sent, busVars
  <2>2. PmemWriteData' = data_ram'[replace_way_q'][<<EvictSet', 0>>]
    BY <1>start, <2>1 DEF RequestEvict, ReadData, Base, PmemWriteData
  <2>3. \A k \in Words : ~(k < 0)
    BY DEF Words
  <2> QED BY <2>1, <2>2, <2>3 DEF BurstData
<1>refill. ASSUME state_q' = "REFILL", state_q # "EVICT", pmem_wr_q' = pmem_wr_q,
                  port'.op = "rd" => port'.beat = 0
           PROVE  BurstData'
  <2>1. \A k \in Words : ~(k < 0)
    BY DEF Words
  <2> QED BY <1>refill, <2>1, <1>skid DEF BurstData
<1>1. CASE Reset
  BY <1>1, <1>idle, <1>skid, <1>quiet DEF Reset, pmemVars, busVars
<1>2. ASSUME NEW r \in Inputs, Lookup(r) PROVE BurstData'
  BY <1>2, <1>idle, <1>skid, <1>quiet DEF Lookup, AfterAccept, pmemVars, busVars
<1>3. ASSUME NEW r \in Inputs, LookupHold(r) PROVE BurstData'
  BY <1>3, <1>idle, <1>skid, <1>quiet DEF LookupHold, pmemVars, busVars
<1>4. ASSUME NEW acc \in BOOLEAN, MissRefill(acc) PROVE BurstData'
  BY <1>4, <1>idle, <1>refill DEF MissRefill, RequestRefill
<1>5. CASE MissEvict
  <2>1. mem_m.addr.set = EvictSet' /\ mem_m.addr.set \in Sets /\ state_q \notin Bursts
    BY <1>5, <1>type, WorkTypes DEF MissEvict, EvictSet, Inductive, OpInState
  <2> QED BY <1>5, <2>1, <1>type, <1>start DEF MissEvict, ramVars
<1>6. CASE RefillAccept
  BY <1>6, <1>refill DEF RefillAccept, RequestRefill
<1>7. CASE RefillBeat
  <2>1. CASE PmemLast
    <3>1. port' = IdlePort /\ state_q' \in {"READ", "WRITE"}
      BY <1>7, <2>1, <1>burst, <1>type DEF RefillBeat, PmemLast, BurstInStep, TypeOK
    <3>2. ~pmem_wr_q'.valid
      BY <1>7, <1>skid DEF RefillBeat
    <3> QED BY <3>1, <3>2, <1>quiet DEF IdlePort
  <2>2. CASE ~PmemLast
    <3>1. /\ port.line = [tag |-> mem_m.addr.tag, set |-> mem_m.addr.set]
          /\ data_write_addr_q = <<port.line.set, port.beat>>
          /\ port.beat \in Nat
      BY <1>7, <1>burst, <1>type DEF RefillBeat, BurstInStep, TypeOK
    <3>2. /\ port'.op = "rd" => port'.line = port.line /\ port'.beat = port.beat + 1
          /\ state_q' = "REFILL" /\ ~pmem_wr_q'.valid
      BY <1>7, <2>2, <1>skid, <1>type DEF RefillBeat, IdlePort, TypeOK
    <3>3. WriteData({replace_way_q}, data_write_addr_q, memory[AddrAt(port.line, port.beat)])
      BY <1>7 DEF RefillBeat
    <3>4. port.line.set \in Sets
      BY <3>1, <1>type, WorkTypes
    <3>5. ASSUME NEW k \in Words, k < port.beat + 1
          PROVE  data_ram'[replace_way_q][<<port.line.set, k>>] = memory[AddrAt(port.line, k)]
      <4>1. <<port.line.set, k>> \in Cell
        BY <3>4 DEF Cell
      <4>2. CASE k = port.beat
        BY <3>1, <3>3, <4>1, <4>2, <1>type DEF WriteData
      <4>3. CASE k # port.beat
        <5>1. k < port.beat
          BY <3>1, <3>5, <4>3 DEF Words
        <5>2. data_ram[replace_way_q][<<port.line.set, k>>] = memory[AddrAt(port.line, k)]
          BY <1>7, <5>1 DEF RefillBeat, BurstData
        <5>3. data_ram'[replace_way_q][<<port.line.set, k>>] = data_ram[replace_way_q][<<port.line.set, k>>]
          BY <3>1, <3>3, <4>1, <4>3, <1>type DEF WriteData
        <5> QED BY <5>2, <5>3
      <4> QED BY <4>2, <4>3
    <3>6. UNCHANGED <<replace_way_q, memory>>
      BY <1>7 DEF RefillBeat
    <3> QED BY <3>2, <3>5, <3>6 DEF BurstData, AddrAt
  <2> QED BY <2>1, <2>2
<1>8. CASE ReadDone
  BY <1>8, <1>idle, <1>skid, <1>quiet DEF ReadDone, pmemVars, busVars
<1>9. CASE WriteDone
  BY <1>9, <1>idle, <1>skid, <1>quiet DEF WriteDone, pmemVars, busVars
<1>evict. ASSUME state_q = "EVICT", UNCHANGED <<mem_m, replace_way_q, flushVars, ramVars>>,
                 ReadTags(EvictSet)
          PROVE  EvictSet' = EvictSet /\ EvictLine' = EvictLine
  <2>1. tag_out' = tag_out
    BY <1>evict DEF Inductive, TagsRead, TagsAt, ReadTags, ramVars
  <2> QED BY <1>evict, <2>1 DEF EvictSet, EvictLine, flushVars
<1>wr. state_q = "EVICT" => PmemWr
  BY DEF Inductive, WayInState, PmemWr
<1>10. CASE EvictStall
  <2>1. EvictSet' = EvictSet /\ EvictLine' = EvictLine
    BY <1>10, <1>evict DEF EvictStall
  <2>2. /\ state_q = "EVICT" /\ state_q' = "EVICT" /\ Sent' = Sent /\ port' = port
        /\ UNCHANGED <<data_ram, replace_way_q, memory>>
    BY <1>10 DEF EvictStall, Sent, ramVars, busVars
  <2>3. PmemWriteData' = PmemWriteData
    BY <1>10, <2>2, <1>wr DEF EvictStall, PmemWriteData
  <2> QED BY <2>1, <2>2, <2>3 DEF BurstData, AddrAt
<1>11. CASE EvictBeat
  <2>1. EvictSet' = EvictSet /\ EvictLine' = EvictLine
    BY <1>11, <1>evict DEF EvictBeat
  <2>2. /\ state_q = "EVICT" /\ UNCHANGED <<data_ram, replace_way_q>> /\ ~pmem_wr_q'.valid /\ ~pmem_wr0_q'
    BY <1>11 DEF EvictBeat, ramVars, NoBeat
  <2>3. /\ Sent \in Nat /\ Sent + pmem_len_q = NumWords - 1
        /\ data_write_addr_q = NextCell(<<EvictSet, Sent>>)
        /\ ~pmem_wr0_q => port.op = "wr" /\ port.line = EvictLine
    BY <2>2, <1>burst, <1>type DEF BurstInStep, Sent, TypeOK
  <2>4. port'.op = "wr" /\ port'.line = EvictLine /\ port'.beat = Sent + 1
    BY <1>11, <2>2, <2>3, <1>wr, <1>type DEF EvictBeat, Sent, TypeOK
  <2>5. Sent' = Sent + 1
    BY <2>2, <2>4 DEF Sent
  <2>6. memory' = [memory EXCEPT ![AddrAt(EvictLine, Sent)] = PmemWriteData]
    <3>1. port'.beat - 1 = Sent
      BY <2>3, <2>4
    <3> QED BY <1>11, <2>2, <2>4, <3>1, <1>wr DEF EvictBeat
  <2>7. PmemWriteData = data_ram[replace_way_q][<<EvictSet, Sent>>]
    BY <2>2 DEF BurstData
  <2>8. ASSUME NEW k \in Words, k < Sent + 1
        PROVE  memory'[AddrAt(EvictLine, k)] = data_ram[replace_way_q][<<EvictSet, k>>]
    <3>1. AddrAt(EvictLine, k) \in Addr /\ memory \in [Addr -> Data]
      BY <1>type, WorkTypes DEF AddrAt, Addr, Line, TypeOK
    <3>2. CASE k = Sent
      BY <2>6, <2>7, <3>1, <3>2
    <3>3. CASE k # Sent
      <4>1. k < Sent
        BY <2>3, <2>8, <3>3 DEF Words
      <4>2. memory[AddrAt(EvictLine, k)] = data_ram[replace_way_q][<<EvictSet, k>>]
        BY <2>2, <4>1 DEF BurstData
      <4>3. AddrAt(EvictLine, k) # AddrAt(EvictLine, Sent)
        BY <3>3 DEF AddrAt
      <4> QED BY <2>6, <3>1, <4>2, <4>3
    <3> QED BY <3>2, <3>3
  <2>9. state_q' = "EVICT" => PmemWriteData' = data_ram'[replace_way_q'][<<EvictSet', Sent'>>]
    <3>1. SUFFICES ASSUME ~PmemLast
                   PROVE  PmemWriteData' = data_ram'[replace_way_q'][<<EvictSet', Sent'>>]
      BY <1>11 DEF EvictBeat
    <3>2. Sent # NumWords - 1
      BY <2>3, <3>1, <1>type DEF PmemLast, TypeOK
    <3>3. data_write_addr_q = <<EvictSet, Sent + 1>>
      BY <2>3, <3>2 DEF NextCell
    <3>4. PmemWriteData' = data_ram[replace_way_q][data_write_addr_q]
      BY <1>11, <2>2, <3>1, <1>type DEF EvictBeat, ReadData, PmemWriteData
    <3> QED BY <2>1, <2>2, <2>5, <3>3, <3>4
  <2>10. state_q' \in {"EVICT", "EVICT_WAIT"}
    BY <1>11 DEF EvictBeat
  <2> QED BY <2>1, <2>2, <2>4, <2>5, <2>8, <2>9, <2>10 DEF BurstData, AddrAt
<1>12. CASE EvictWrittenBack \/ EvictFlushed
  <2>1. state_q' \in {"LOOKUP", "FLUSH_ADDR"} /\ port' = IdlePort /\ state_q = "EVICT_WAIT"
    BY <1>12 DEF EvictWrittenBack, EvictFlushed, EvictAcked
  <2>2. pmem_wr_q' = pmem_wr_q
    BY <1>12 DEF EvictWrittenBack, EvictFlushed, pmemVars
  <2> QED BY <2>1, <2>2, <1>skid, <1>quiet DEF IdlePort
<1>13. ASSUME NEW acc \in BOOLEAN, EvictRefill(acc) PROVE BurstData'
  BY <1>13, <1>refill DEF EvictRefill, EvictAcked, IdlePort
<1>14. CASE Writeback
  <2>1. state_q \notin Bursts /\ mem_m.addr.set = EvictSet' /\ mem_m.addr.set \in Sets
    BY <1>14, <1>type, WorkTypes DEF Writeback, Inductive, OpInState, EvictSet, flushVars
  <2>2. CASE \E w \in Ways : Hit(w) /\ tag_out[w].dirty
    <3>1. replace_way_q' \in Ways
      BY <1>14, <1>type DEF Writeback, Ways
    <3> QED BY <1>14, <2>1, <2>2, <3>1, <1>start DEF Writeback, ramVars
  <2>3. CASE ~\E w \in Ways : Hit(w) /\ tag_out[w].dirty
    BY <1>14, <2>1, <2>3, <1>idle, <1>skid, <1>quiet DEF Writeback, pmemVars, busVars
  <2> QED BY <2>2, <2>3
<1>15. CASE Invalidate
  BY <1>15, <1>idle, <1>skid, <1>quiet DEF Invalidate, pmemVars, busVars
<1>16. CASE FlushAddr \/ FlushClean \/ FlushNextWay
  <2>1. state_q \notin Bursts /\ state_q' \notin Bursts /\ UNCHANGED <<pmemVars, busVars>>
    BY <1>16 DEF FlushAddr, FlushClean, FlushNextWay
  <2> QED BY <2>1, <1>idle, <1>skid, <1>quiet DEF pmemVars, busVars
<1>17. CASE FlushEvict
  <2>1. flush_addr_q = EvictSet' /\ flush_addr_q \in Sets /\ state_q \notin Bursts
    BY <1>17, <1>type, WorkTypes DEF FlushEvict, EvictSet, Inductive, OpInState, flushVars
  <2> QED BY <1>17, <2>1, <1>type, <1>start DEF FlushEvict, ramVars
<1>18. CASE UNCHANGED vars
  BY <1>18 DEF vars, ramVars, flushVars, pmemVars, busVars, BurstData, Sent, EvictSet,
                EvictLine, PmemWriteData, AddrAt
<1> QED
  BY <1>1, <1>2, <1>3, <1>4, <1>5, <1>6, <1>7, <1>8, <1>9, <1>10, <1>11, <1>12,
     <1>13, <1>14, <1>15, <1>16, <1>17, <1>18 DEF Next

\* The walk of a flush clears the sets in order, and sees the end of it.
LEMMA FlushWalkPreserved ==
    ASSUME Inductive, FlushWalk, [Next]_vars
    PROVE  FlushWalk'
<1>type. TypeOK /\ flush_addr_q \in Sets /\ NoEntry \in Entry /\ tag_ram \in [Ways -> [Sets -> Entry]]
  BY WorkTypes, ConstantTypes DEF Inductive, TypeOK
<1>op. OpInState
  BY DEF Inductive
<1>off. ~flushing_q' => FlushWalk'
  BY DEF FlushWalk
<1>keep. ASSUME UNCHANGED <<flushing_q, flush_addr_q, flush_last_q>>, UNCHANGED tag_ram,
                state_q = "FLUSH_ADDR" => state_q' = "FLUSH_ADDR"
         PROVE  FlushWalk'
  BY <1>keep DEF FlushWalk
<1>1. ASSUME NEW r \in Inputs, Lookup(r) PROVE FlushWalk'
  BY <1>1, <1>type DEF Lookup, EndWalk, AfterAccept, FlushWalk, Sets
<1>2. CASE \/ Reset \/ \E r \in Inputs : LookupHold(r)
           \/ \E acc \in BOOLEAN : MissRefill(acc) \/ EvictRefill(acc)
           \/ MissEvict \/ RefillAccept \/ RefillBeat \/ ReadDone \/ WriteDone
           \/ EvictWrittenBack \/ Writeback \/ Invalidate
  <2>1. flushing_q' = flushing_q
    BY <1>2 DEF Reset, LookupHold, MissRefill, EvictRefill, MissEvict, RefillAccept, RefillBeat, ReadDone,
                WriteDone, EvictWrittenBack, Writeback, Invalidate, flushVars
  <2>2. ~flushing_q
    <3>1. state_q \in {"RESET", "LOOKUP", "REFILL", "READ", "WRITE", "WRITEBACK", "INVALIDATE"}
          \/ mem_m.op = "wb" \/ ~flushing_q
      BY <1>2 DEF Reset, LookupHold, MissRefill, EvictRefill, MissEvict, RefillAccept, RefillBeat, ReadDone,
                  WriteDone, EvictWrittenBack, Writeback, Invalidate
    <3> QED BY <3>1, <1>op DEF OpInState
  <2> QED BY <2>1, <2>2, <1>off
<1>3. CASE EvictStall \/ EvictBeat \/ FlushEvict \/ FlushNextWay
  <2>1. state_q # "FLUSH_ADDR" /\ state_q' # "FLUSH_ADDR"
    BY <1>3 DEF EvictStall, EvictBeat, FlushEvict, FlushNextWay, RequestEvict
  <2> QED BY <1>3, <2>1, <1>keep DEF EvictStall, EvictBeat, FlushEvict, FlushNextWay, flushVars, ramVars
<1>4. CASE EvictFlushed
  <2>1. state_q' = "FLUSH_ADDR" /\ UNCHANGED <<flushing_q, flush_addr_q, flush_last_q>> /\ flushing_q
    BY <1>4 DEF EvictFlushed, flushVars
  <2>2. \A w \in Ways, s \in Sets : tag_ram'[w][s] = NoEntry \/ tag_ram'[w][s] = tag_ram[w][s]
    BY <1>4, <1>type DEF EvictFlushed, WriteTags
  <2> QED BY <2>1, <2>2 DEF FlushWalk, NoEntry
<1>5. CASE FlushAddr
  BY <1>5, <1>op, <1>type DEF FlushAddr, TrackLastLine, FlushWalk, OpInState, ramVars, TypeOK
<1>6. CASE FlushClean
  <2>1. CASE flush_last_q
    BY <1>6, <2>1, <1>off DEF FlushClean
  <2>2. CASE ~flush_last_q
    <3>1. flushing_q /\ state_q = "FLUSH" /\ UNCHANGED <<flushing_q, flush_last_q>>
      BY <1>6, <2>2, <1>op DEF FlushClean, OpInState
    <3>2. flush_addr_q # NumSets - 1
      BY <2>2, <3>1 DEF FlushWalk
    <3>3. flush_addr_q' = flush_addr_q + 1
      BY <1>6, <2>2, <3>2, <1>type, NextLineType DEF FlushClean, NextLine
    <3>4. ASSUME NEW w \in Ways, NEW s \in Sets, s < flush_addr_q'
          PROVE  ~tag_ram'[w][s].valid
      <4>1. s < flush_addr_q \/ s = flush_addr_q
        BY <3>3, <3>4, <1>type DEF Sets
      <4>2. tag_ram'[w][s] = NoEntry \/ (s # flush_addr_q /\ tag_ram'[w][s] = tag_ram[w][s])
        BY <1>6, <1>type DEF FlushClean, WriteTags
      <4> QED BY <3>1, <4>1, <4>2 DEF FlushWalk, NoEntry
    <3> QED BY <1>6, <2>2, <3>1, <3>4 DEF FlushClean, FlushWalk
  <2> QED BY <2>1, <2>2
<1>7. CASE UNCHANGED vars
  BY <1>7, <1>keep DEF vars, flushVars, ramVars
<1> QED BY <1>1, <1>2, <1>3, <1>4, <1>5, <1>6, <1>7 DEF Next

\* A flush is answered when the walk has been past every set.
LEMMA FlushedOutPreserved ==
    ASSUME Inductive, FlushWalk, FlushedOut, [Next]_vars
    PROVE  FlushedOut'
<1>type. TypeOK /\ flush_addr_q \in Sets /\ NoEntry \in Entry /\ tag_ram \in [Ways -> [Sets -> Entry]]
  BY WorkTypes, ConstantTypes DEF Inductive, TypeOK
<1>op. OpInState
  BY DEF Inductive
<1>1. CASE FlushClean
  <2>1. SUFFICES ASSUME flush_last_q, NEW w \in Ways, NEW s \in Sets PROVE ~tag_ram'[w][s].valid
    BY <1>1 DEF FlushClean, FlushedOut
  <2>2. s < flush_addr_q \/ s = flush_addr_q
    BY <1>1, <2>1, <1>op, <1>type DEF FlushClean, OpInState, FlushWalk, Sets
  <2>3. tag_ram'[w][s] = NoEntry \/ (s # flush_addr_q /\ tag_ram'[w][s] = tag_ram[w][s])
    BY <1>1, <1>type DEF FlushClean, WriteTags
  <2> QED BY <1>1, <2>2, <2>3, <1>op DEF FlushClean, OpInState, FlushWalk, NoEntry
<1>2. CASE \/ Reset
           \/ \E acc \in BOOLEAN : MissRefill(acc) \/ EvictRefill(acc)
           \/ MissEvict \/ RefillAccept \/ RefillBeat \/ ReadDone \/ WriteDone
           \/ EvictStall \/ EvictBeat \/ EvictWrittenBack \/ EvictFlushed \/ Writeback
           \/ FlushAddr \/ FlushEvict \/ FlushNextWay
  BY <1>2, <1>op DEF Reset, MissRefill, EvictRefill, EvictAcked, MissEvict, RefillAccept, RefillBeat, ReadDone,
     WriteDone, EvictStall, EvictBeat, EvictWrittenBack, EvictFlushed, Writeback, FlushAddr,
     FlushEvict, FlushNextWay, RequestEvict, OpInState, FlushedOut
<1>3. ASSUME NEW r \in Inputs, Lookup(r) \/ LookupHold(r) PROVE FlushedOut'
  BY <1>3 DEF Lookup, LookupHold, AfterAccept, FlushedOut, NoReq
<1>4. CASE Invalidate
  BY <1>4, <1>op DEF Invalidate, OpInState, FlushedOut
<1>5. CASE UNCHANGED vars
  BY <1>5 DEF vars, ramVars, FlushedOut
<1> QED BY <1>1, <1>2, <1>3, <1>4, <1>5 DEF Next

\* A write back ends with the line clean: it was not dirty, or has been evicted.
LEMMA WbCleanPreserved ==
    ASSUME Inductive, WbClean, [Next]_vars
    PROVE  WbClean'
<1>type. TypeOK /\ mem_m.addr.set \in Sets /\ replace_way_q \in Ways /\ tag_ram \in [Ways -> [Sets -> Entry]]
  BY WorkTypes DEF Inductive, TypeOK
<1>op. OpInState
  BY DEF Inductive
<1>off. state_q' # "LOOKUP" \/ mem_m'.op # "wb" => WbClean'
  BY DEF WbClean
<1>1. ASSUME NEW r \in Inputs, Lookup(r) \/ LookupHold(r) PROVE WbClean'
  BY <1>1, <1>off DEF Lookup, LookupHold, AfterAccept, NoReq
<1>2. CASE \/ Reset \/ Invalidate \/ ReadDone \/ WriteDone \/ FlushClean
  BY <1>2, <1>op, <1>off DEF Reset, Invalidate, ReadDone, WriteDone, FlushClean, OpInState
<1>3. CASE \/ \E acc \in BOOLEAN : MissRefill(acc) \/ EvictRefill(acc)
           \/ MissEvict \/ RefillAccept \/ RefillBeat \/ EvictStall \/ EvictBeat \/ EvictFlushed
           \/ FlushAddr \/ FlushEvict \/ FlushNextWay
  <2>1. state_q' # "LOOKUP"
    BY <1>3 DEF MissRefill, EvictRefill, MissEvict, RefillAccept, RefillBeat, EvictStall, EvictBeat,
                EvictFlushed, FlushAddr, FlushEvict, FlushNextWay, RequestEvict
  <2> QED BY <2>1, <1>off
<1>4. CASE EvictWrittenBack
  <2>1. /\ state_q = "EVICT_WAIT" /\ mem_m' = mem_m
        /\ EvictSet = mem_m.addr.set /\ EvictLine.tag = mem_m.addr.tag
    BY <1>4 DEF EvictWrittenBack, EvictAcked, Inductive, OpInState, WayInState, Hit, EvictSet, EvictLine
  <2>2. \A w \in Ways : Holds(tag_ram[w][mem_m.addr.set], mem_m.addr.tag) => w = replace_way_q
    BY <2>1, EvictOwned DEF Inductive
  <2>3. \A w \in Ways : tag_ram'[w][mem_m.addr.set] =
            IF w = replace_way_q THEN Fresh(FALSE) ELSE tag_ram[w][mem_m.addr.set]
    BY <1>4, <1>type DEF EvictWrittenBack, WriteTags
  <2> QED BY <2>1, <2>2, <2>3 DEF WbClean, Fresh
<1>5. CASE Writeback
  <2>1. CASE \E w \in Ways : Hit(w) /\ tag_out[w].dirty
    BY <1>5, <2>1, <1>off DEF Writeback, RequestEvict
  <2>2. CASE ~\E w \in Ways : Hit(w) /\ tag_out[w].dirty
    BY <1>5, <2>2, <1>type DEF Writeback, Inductive, TagsRead, TagsAt, Hit, Holds, WbClean, ramVars
  <2> QED BY <2>1, <2>2
<1>6. CASE UNCHANGED vars
  BY <1>6 DEF vars, ramVars, WbClean
<1> QED BY <1>1, <1>2, <1>3, <1>4, <1>5, <1>6 DEF Next

\* At power up no line is held.
LEMMA InitData == Init => DataInductive
<1> SUFFICES ASSUME Init PROVE DataInductive
  OBVIOUS
<1>1. Inductive
  BY InitInductive
<1>2. CleanMatchesMemory /\ FlushWalk /\ FlushedOut /\ WbClean
  BY DEF Init, CleanMatchesMemory, FlushWalk, FlushedOut, WbClean
<1>3. BurstData
  BY DEF Init, BurstData, IdlePort, NoBeat
<1> QED BY <1>1, <1>2, <1>3 DEF DataInductive

\* Every step keeps the invariant.
LEMMA DataStep == DataInductive /\ [Next]_vars => DataInductive'
<1>1. Inductive /\ [Next]_vars => Inductive'
  BY TypePreserved, BurstPreserved, TagsReadPreserved, OpInStatePreserved, WayInStatePreserved,
     ClearedPreserved, UniqueResidencyPreserved DEF Inductive
<1> QED BY <1>1, CleanPreserved, BurstDataPreserved, FlushWalkPreserved, FlushedOutPreserved,
           WbCleanPreserved DEF DataInductive

\* It holds of every behaviour.
LEMMA DataInductiveAlways == Spec => []DataInductive
BY DataStep, InitData, PTL DEF Spec

\* A line of dcache_core.v that is not dirty has its words in memory, over
\* refills, stalled bursts and evictions: it can be dropped at any time.
THEOREM CleanLinesMatch == Spec => []CleanMatchesMemory
<1>1. DataInductive => CleanMatchesMemory
  BY DEF DataInductive
<1> QED BY <1>1, DataInductiveAlways, PTL

\* When a flush is answered (STATE_FLUSH, dcache_core.v 684-699) no way holds
\* a line, whatever was dirty when it began.
THEOREM FlushLeavesNothing == Spec => []FlushedOut
<1>1. DataInductive => FlushedOut
  BY DEF DataInductive
<1> QED BY <1>1, DataInductiveAlways, PTL

\* When a write back is answered memory has the words of the line
\* (STATE_WRITEBACK and the evict it starts).
THEOREM WriteBackReaches == Spec => []WrittenBack
<1>1. DataInductive => WrittenBack
  <2> SUFFICES ASSUME DataInductive, state_q = "LOOKUP", mem_m.op = "wb", NEW k \in Words
               PROVE  memory[[mem_m.addr EXCEPT !.word = k]] = Word([mem_m.addr EXCEPT !.word = k])
    BY DEF WrittenBack
  <2> DEFINE a == [mem_m.addr EXCEPT !.word = k]
             l == [tag |-> mem_m.addr.tag, set |-> mem_m.addr.set]
  <2>1. l \in Line /\ a = AddrAt(l, k) /\ a.tag = l.tag /\ a.set = l.set /\ a.word = k
    BY WorkTypes DEF DataInductive, Inductive, Line, Addr, AddrAt
  <2> HIDE DEF a, l
  <2>2. ASSUME NEW w \in Ways, Owns(w, a) PROVE data_ram[w][CellOf(a)] = memory[a]
    <3>1. Clean(w, l)
      BY <2>1, <2>2 DEF DataInductive, WbClean, Clean, Owns, l
    <3>2. InMemory(w, l)
      BY <2>1, <3>1, CleanForm DEF DataInductive
    <3> QED BY <2>1, <3>2 DEF InMemory, CellOf
  <2>3. memory[a] = Word(a)
    BY <2>2 DEF Word, Ways
  <2> QED BY <2>3 DEF a
<1> QED BY <1>1, DataInductiveAlways, PTL
=============================================================================
