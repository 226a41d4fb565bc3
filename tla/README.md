# QRISC-V996 in TLA+

A verification development for the RV32IMA SoC of this repository: TLA+ models of its
control logic, TLC configurations that check them on small instances, and theorems about
them that TLAPS proves for every value of the constants. Source paths below are those of
the repository.

## 1. Inventory

| Part | State it keeps | Operations | Hard behaviour | What makes it correct |
|---|---|---|---|---|
| **Data cache core** `src/dcache/dcache_core.v`, tag and data RAMs | controller state, request buffer, two tag and two data RAMs and their output registers, replacement way, flush walk, burst counters, write skid buffer | read, write, write back, invalidate, flush; refill and eviction bursts | RAM latencies, bursts that stall, a tag made valid before its words, maintenance between accesses | every read returns the word last written; no line in two ways; clean lines equal memory; maintenance does what it says; every request is answered |
| **CSRs, interrupts, traps** `src/core/biriscv_csr.v`, `biriscv_csr_regfile.v`, `biriscv_issue.v`, `biriscv_pipe_ctrl.v` | the CSRs, the arrival buffer of mip, launch and squash registers, stages E1, E2, WB | CSR access, trap, return, interrupt launch, timer compare | an interrupt is launched three or more cycles before it traps; mip is read, modified and written over cycles in which bits arrive | traps only where allowed and with their cause; no pending bit lost; one trap at a time; no access outlives the privilege it was checked with |
| **Data cache bus path** `src/dcache/dcache.v`, `dcache_mux.v`, `dcache_if_pmem.v`, `dcache_pmem_mux.v`, `dcache_axi.v`, `dcache_axi_axi.v` | request and response queues, credit, beat counters, AXI holding flags | cached bursts, uncached accesses, switching between them | address and data accepted apart, responses outstanding at a switch | responses in request order to the side that asked; queues never overflow; no request lost |
| **Load store unit** `src/core/biriscv_lsu.v` | the request in flight, a two deep queue of what it was | load, store, cache maintenance | faults, stalls, squashes with a request outstanding | one completion per request, with its own alignment |
| **MMU** `src/core/biriscv_mmu.v` | one entry ITLB and DTLB, walker | translate, walk, sfence | sfence, privilege and satp changes while walking | a translation is one the tables gave since the last sfence |
| **Instruction cache, fetch, decode queue** `src/icache/`, `biriscv_fetch.v`, `biriscv_npc.v`, `biriscv_frontend.v`, `biriscv_decode.v` | controller state, line buffers, branch buffer, skid buffer, two entry fifo | fetch, refill, branch, fence.i, flush | a branch while a fetch is outstanding; fence.i during a refill | the instructions delivered are those of the path, once each; after fence.i none is older |
| **AXI interconnect** `src/soc/axi4_arb.v`, `axi4_lite_tap.v`, `axi4_retime.v` | grant, last grant, outstanding counters, id registers, fifos | route requests and responses of two masters to memory and five peripherals | bursts that must not interleave, back pressure on either channel | a response goes to its request; no master starves |
| **Interrupt controller, UART and their driver** `src/soc/irq_ctrl.v`, `uart_lite.v`, `build-os/kernel-patches/irq-xilinx-intc.c`, the sender in `tb/tb_soc/tb_soc.v` | pending and enable bits, one byte each way, busy | mask, acknowledge, unmask, receive, send | one cycle interrupt pulses against acknowledge | no interrupt and no byte is lost; the sender never waits for ever |
| **Firmware** `bootloader/` | the reservation of LR/SC, trap frames | SBI calls, emulation of atomics, timer forwarding | traps between LR and SC, deadlines that have passed | a store conditional succeeds only if nothing came between; a set timer fires |
| **Divider** `src/core/biriscv_divider.v` | remainder, divisor, quotient, mask | division step | signs, zero, overflow | equals the definition of DIV and REM |
| Datapath, wiring, `src/tcm`, gpio, spi, gui, sdk, scripts, images | | | | not to be modelled, see section 8 |

How they interact: fetch and the load store unit reach their caches through the MMU, whose
walker shares the data port. Both caches are AXI masters of the interconnect, which has the
memory and the peripherals behind it. Peripheral interrupt lines meet in `irq_ctrl`, whose
output is `ext_intr_i` of the CSR file; the CSR file raises an interrupt into the issue
stage, and the branch of a trap comes back from the pipeline through it to fetch. The firmware
runs in machine mode, forwards the timer to the supervisor and delegates the rest.

All hazards, each at its line, are in `PROJECT.json`.

## 2. Plan

In this order, the most consequential behaviour first.

1. `MemPort`, `DcacheCore`: the cache core and the promise of its port. **Done; invariants and
   refinement proved.**
2. `CsrTrap`: interrupts and traps. **Done, proved.**
3. `DcacheBus`: from the core's outport and the uncached port to AXI. **Done, proved**, with a
   history of the answers owed as its abstract specification.
4. `ByteStream`, `SerialIrq`: UART, interrupt controller, driver, firmware console and sender,
   composed; two refinements of a byte stream, with liveness. **Done; types and the safety of both
   refinements proved.**
5. `Rv32`, `Hart`, `Firmware`: the firmware with the trap logic of the core, against the hart it
   pretends to be; a refinement. **Done; invariants and refinement proved.**
6. `Frontend`: instruction cache, fetch, decode queue and the selection of the issue stage.
   **Done, proved.**
7. `LsuMmu`: the load store unit and the MMU, with the port the walker shares. **Done, proved.**
8. `Interconnect`, `Divider`. To come. The first would replace `Slave` of `DcacheBus`, and cover the register
   of `axi4_lite_tap.v:253`.

Proofs done: every safety property of every module that a run checks, and the refinements of 1, 4 (its
safety part) and 5; section 6 says how. What is left to TLC is liveness.

## 3. Modules

| Module | What it is |
|---|---|
| `MemPort` | abstract: a store of words that answers one request at a time |
| `DcacheCore` | the cache core, its invariants, its refinement of `MemPort` |
| `DcacheCore_proofs` | proofs: where a line is, and what is in it and in memory |
| `DcacheCore_refines` | proofs: the core implements `MemPort` |
| `MCDcacheCore` | requests for it |
| `MCDcacheTame` | the same requests from two kinds of requester, a tame one and any |
| `CsrTrap` | interrupts, traps and the pipeline between issue and write back |
| `CsrTrap_proofs` | proofs of its invariants |
| `MCCsrTrap` | programs for it |
| `DcacheBus` | the way from the data port through both sides of the cache to AXI |
| `DcacheBus_proofs` | proofs of its invariants |
| `MCDcacheBus` | an instance of it |
| `Rv32` | words, memory, instructions and page mappings, shared by the next two |
| `Hart` | abstract: what a supervisor is promised by the firmware |
| `Firmware` | the firmware and the trap logic under it; its refinement of `Hart` |
| `Firmware_proofs` | proofs of its invariants, and that it implements `Hart` |
| `MCFirmware` | programs for it |
| `MCReservation` | an instance of it with a history of interrupts |
| `ByteStream` | abstract: bytes that come out in the order they went in, each once, all in the end |
| `SerialIrq` | UART, interrupt controller, kernel driver, polled console and sender; two refinements of `ByteStream` |
| `SerialIrq_proofs` | proofs of its types, and of the safety of both refinements |
| `MCSerialIrq` | an instance of it |
| `Frontend` | instruction cache, fetch, decode queue, selection of the issue stage |
| `Frontend_proofs` | proofs of its invariants |
| `MCFrontend` | a program for it |
| `LsuMmu` | load store unit, MMU, and the port to the data cache they share |
| `LsuMmu_proofs` | proofs of its types and of its answers |
| `MCLsuMmu` | a kernel and a user program for it |

**DcacheCore.** A step is one clock cycle of the controller. The variables are the registers
under their own names (`mem_m` is the buffer `mem_*_m_q`), the operators are the wires, and there is
an action for each way a state can be left or kept: `Lookup` (hits, maintenance accepted),
`LookupHold` (the read after write stall), `MissRefill`, `MissEvict`, `RefillAccept`, `RefillBeat`,
`ReadDone`, `WriteDone`, `EvictStall`, `EvictBeat`, the four ends of `STATE_EVICT_WAIT`,
`Writeback`, `Invalidate`, and the flush walk. A tag RAM is write first, a data RAM read first,
both with one cycle of latency; an output the controller must not look at is `Junk`, and so are
cells nobody wrote, so that a use of either shows up as a wrong answer. `memory` and `port` stand
for everything behind the outport: beats are taken or not, arrive later, and a write burst is
acknowledged once. A cycle in which nothing can happen (waiting for a beat) is a stutter.
Abstractions: whole words are written (a byte strobe only selects bits of the data), the RAM
address is a pair of line and word, and the bus returns no error.

**CsrTrap.** A step is one clock cycle: `Clock` moves the stages, the launch register, mip, the timer
and the line, and exactly one of `InterruptTrap`, `ExceptionReturn`, `ExceptionTrap`, `Commit`
says what write back does to the other CSRs. The inputs of a cycle are the instruction at the head of
the fetch queue (any of the program for the current mode, or none), whether it can go, and what
memory answers an access in E2. Abstractions: there are no addresses; `ebreak` stands with
the invalid instructions and uret and hret are left out; a write of satp and the flush it asks for
are left out; a divide does not stall; only slot a exists, since it is the only one that takes
CSR instructions, and faults of fetch are left out; read only CSRs are left out; the compare of `mcycle` with
`mtimecmp` is ahead, now or past. The initial `branch_q` stands for the branch to the reset
vector. The external line falls only when the driver has served the device, by a store with the
interrupt off. Software never gives MPP the
value 2, which is no mode and which the register file does not refuse (`LegalMpp`; `main.c:80` writes 1,
a trap writes the mode it comes from).
`program` is one of `Programs`, chosen at the start; the program of a mode is a set, so
software is anything built from it.

**DcacheBus.** A step is one clock cycle, in which every block moves: `Mux` (`dcache_mux`, and the delayed
selector of `dcache_pmem_mux`), `Uncached` (`dcache_if_pmem` with its two fifos), `Core`, `Axi` (the
request fifo, beat counter and response credit of `dcache_axi`), `Widget` (the channel flags of `dcache_axi_axi`),
`Slave`, and `History`, which changes nothing the others read. The inputs of a cycle are the request on the
lines, which may change as long as it is not taken, whether the core refuses it (`slow`: a read of the word it is
writing), what the slave takes and whether it answers. `Core` is `dcache_core` as the bus sees it: a request says itself
whether it hits, refills, writes back or does both, and its bursts follow the states of the core with their timing; the inside is
`DcacheCore`. A read or write on the outport is a record and a line in memory a sequence of words
that know their place. Abstractions: byte strobes, ids and errors are passed through and left out, and a cached
read is answered with the whole line it fetched. The slave is external: it may hold up address and data apart,
but takes no beat before the address of its burst. Here that is so: the peripherals raise awready and wready
together (`irq_ctrl.v:103`), and in front of memory `axi4_retime` has a queue for addresses that cannot be full
while one transaction is open. `dcache_axi_axi` pops its request when either half is taken (line 183), so with another
slave an address could be lost. A dropped request (maintenance sent to the uncached bridge) is among the inputs since
the bridge handles it, although the MMU sends all maintenance to the cached side.

**Firmware.** A step is what the machine does between two points another actor could see: an
instruction of the program, a trap, a handler. Machine mode cannot be interrupted, so a handler is
one step, except where it touches what changes under it: the timer call is `SetMtimecmp`, `SetMie`,
`ClearSip`, the timer interrupt `RaiseStip`, `ClearMie`, `ClearMip`, with ticks of the comparator in
between. Handlers are operators on the state `isr_vector` saved (`Entry`), under the names they have
in `emulation.c`; `Return` is the way back through `mret`, `Exit` the end of the machine. `Native`,
`Delegated`, `Undelegated`, the interrupts and `sret` are what `biriscv_csr_regfile.v` does to the
registers a trap changes. Faults under MPRV are those of the mode that trapped: with fault catching
on, they continue at the label that `mtvec` holds. `seen` says whether the load that fetches the
instruction again sees the same word, another (the code has been changed, the instruction cache not
flushed) or a fault (a page that may be executed and not read). `Hart` describes the same programs on
a hart that needs no firmware. `ImplementsHart` shows that supervisor and user cannot tell the two apart:
registers, memory, trap registers, status and faults change as there, in one step. Two things of the firmware are written into
`Hart` because they are its interface: a misaligned access whose instruction is not what it was is
reported to the supervisor as it came, and a fault of a read-modify-write is the fault of its load
if the load has one, where a hart of its own would report a store fault. Pages are mapped for
nobody, for everyone to read or use, or for the supervisor; the first two assume SUM, which Linux
sets around its accesses of user memory.

**SerialIrq.** A step is one clock cycle of the UART, the controller, the GPIO interrupt and the sender
(`Clock`), with at most one register access of the processor. The processor is as slow as it likes between
accesses; two accesses are at least two cycles apart since the bus waits for a response. `thread` and `isr`
are where the program and the interrupt handler are, the actions between them the accesses of `serial.c` and
`sbi.c`, of `irq-xilinx-intc.c`, and of the kernel's uartlite driver and interrupt flow handlers (outside the
repository: `external` in the map; modelled from the registers they use and from
`irq_set_chip_and_handler_name` in the driver). `console` says which of the two consoles of the device tree is
used. The firmware hands over its banner as a string, a console call one character. A byte on the line is a
unit: the frame has a counted tail, from the stop sample of the receiver to the end of the sender's frame,
because their order decides whether the sender sees the byte that it is waiting for; before that its length is
anything finite. A written strobe is seen one cycle later (`last`).

**Frontend.** A step is one clock cycle of the instruction cache (`Icache`), the fetch unit
(`Fetch`), the decode buffer and queue (`Decode`), and of the issue stage, which branches
(`CsrBranch`, `Mispredict`), takes one instruction or two (`IssueOne`, `IssueTwo`) or none (`Hold`).
The branches of the execution units change `pc_x_q` only, and the queue is found out by comparing
addresses in the next cycle: that is the code's whole recovery from a misprediction. A word of code
is its address and a version, so a word that is delivered under a wrong address, or is stale, is
seen. The predictor is any guess made of the branches the code has, which contains what its tables
can hold; the return stack is among the guesses if its top is a target of the branch. Abstractions:
machine mode, so the MMU passes requests on; the cycles in which the issue stage is squashed or an
interrupt is taken are `Hold` and end with `CsrBranch`; the word a fence.i is about is stored before
it is issued and not while it is under way; a fence.i that is dropped by an exception of an older
instruction is `CsrBranch` to a trap.

Two things the code does that one would not expect, both harmless. When the queue fills up just as
an answer arrives, the pair goes into the decode buffer and into the skid buffer; it is delivered
twice, and the issue stage takes the second one for a misprediction and fetches again
(`PathKept` allows the pair twice and nothing else). And the tag RAM is read first: a lookup accepted as a
flush begins or ends may see an old tag and deliver the words of another line; nothing is issued
from it, because the fence.i that flushes holds up the issue until its branch clears the queue
(`IssuesCode`, and its mutant without that hold).

**LsuMmu.** A step is one clock cycle: `Lsu` (request register, response tracking and `fifo`), `Sticky` (the
held requests and fault registers of the MMU), the walker (`WalkStart`, `WalkSecond`, `WalkEnd`,
`WalkUpdate`, `WalkWait`), `Tlbs`, `Mux`, `Memory`, and a step of the pipeline and of the fetch unit. The
inputs of a cycle are whether the data cache answers (`ans`) and takes what is offered (`ready`), whether the
fetch unit asks (`rd`) and its cache takes that (`iready`), and what is issued. An address is a page: the offset,
byte lanes and data are left out, so that "which frame" and "which fault" remain. The page tables are in
memory: a store to a cell of them changes it when it is answered, which is the order the software can
count on. `Steps` says when the issue stage lets an access, a CSR instruction or a trap through; the rest
of the pipeline is `CsrTrap`. `satp` off is privilege "M". A CSR instruction may write any root to satp. `History` remembers what the tables have given for
each page since the last flush (`gave`), the accesses that are owed an answer (`owed`), and what the
oldest of them may be answered when it gets to E2 (`due`); nothing else reads it.

## 4. What the runs show

| Run | Properties | Result |
|---|---|---|
| `cache` | `TypeOK`, `BurstInStep`, `UniqueResidency`, `CleanMatchesMemory`, `FlushedOut`, `WrittenBack`, `TransparentIfTame`, `Answered` | holds: the core implements `MemPort` |
| `invalidate` | `InvalidateDrops` | violated: finding 1 |
| `traps` | `TypeOK`, `PrivilegeKept`, `TrapAllowed`, `CsrCommits`, `Flushed`, `PendingKept` | holds |
| `cause` | `CauseKnown` | violated: finding 2 |
| `level` | `LevelFollows` | violated: finding 3 |
| `bus` | `TypeOK`, `InOrder`, `RespondsToIssuer`, `WholeBursts`, `Answered` | holds |
| `firmware` | `TypeOK`, `VectorRestored`, `Expected`, `TimerUnmasked`, `ImplementsHart`, `TimerDelivered` | holds: the firmware implements `Hart` |
| `firmware_reservation` | `PairedStore` | violated: finding 4 |
| `serial` | `TypeOK`, `KernelReads`, `LineCarries`, `InputConsumed`, `LevelServed`, `InterruptsEnd` | holds: both directions implement `ByteStream` |
| `frontend` | `TypeOK`, `IssuesCode`, `FreshAfterFlush`, `OneCopy`, `PathKept`, `Progress` | holds |
| `fence` | `FenceFlushes` | violated: finding 5 |
| `translation` | `TypeOK`, `Answers`, `Served` | holds |

`cache` has two requesters, chosen at the start: one that is tame and reads, writes and flushes, and one that
does everything, write backs and invalidates included. `TransparentIfTame` is `Transparent` of the first; to the second the cache is no memory,
since an invalidate may drop a dirty line by design. The other properties are checked of both. Each property of a passing run has a mutant of the model (section `mutants` of
`PROJECT.json`): a plausible slip in the code, such as a dropped inhibition or a late counter, that
breaks it.

**Bounds.** The cache has two lines of two words per way: the flush walk then has a first and a last
line, a burst a first and a last beat, and the carry of the burst address wraps into the other line
and past the end. Three tags compete for the two ways of set 0, so that evictions,
replacement of either way and refills behind an eviction all occur; a second set exists for the tags
that are read stale. Every memory word starts with its own value, so a word from a wrong place is
seen. `pmem_len_q` keeps its eight bits. The CSR programs bound the instructions and not the
number of them: any sequence of the set, with any stalls, is run. The bus has two lines of four words, so that a
burst overfills the two entry queue and stalls the core, a device word, two tags and two values; every
offer may follow every other.

The firmware has bytes of one bit and words of four, in four pages of one word: an access has four
lanes, can cross into a page that is mapped otherwise, wraps at the end of the address space, and has a
sign bit. Each program is a set of instructions that may come in any order and number; only the
traps that are emulated are bounded (`MaxTraps`, two, so that what the first leaves behind meets
the second). Three program counters tell "next", "same" and the trap vector apart. The serial link carries three
different keys and three characters, one of them printed before the boot, so that the single
byte buffers overflow if they can. The GPIO line is raised twice (`MaxEvents`) after the boot: the second time
anywhere in the handling of the first, the cycle in which its request is cleared and the unmask that ends
the handler included, or after it. A third meets nothing the second does not: one that is served leaves the
controller, the line and the handler as they were. A controller that noticed the level only when it rises (the
mutant of `LevelServed`) passes with one event. A bit has the 24 cycles of the test bench, and the tail of a
frame is counted exactly. The front end has sixteen words of code: two lines
for each of two sets, so that the walk of a flush has a first and a last set and the ways compete,
lines of two pairs, so that a refill has a first and a last pair, branches forwards, backwards and
into the middle of a pair from either word of one, and one word that changes once.

`LsuMmu` has five pages: two the kernel is fetched from, a superpage through which it reaches the tables, and
a user's code and data; two roots that share the tables of the kernel, so that a switch of satp changes
what the user sees; and a frame that answers with a bus error. Three programs share the run, since
together they would not fit: `data` maps and remaps the page kernel and user access, `fetch` unmaps and
maps the page fetched ahead, `switch` changes satp. Each is a set of accesses in any order and number,
with any delay of the caches. `Window` (two) bounds the accesses issued for one fetch, as a pair of
instructions does.

## 5. Fairness

Six modules state liveness. The fairness of `DcacheCore` is weak fairness of each group of
controller actions: the controller is clocked, so a step that is enabled is taken, except that
a beat may wait for the bus; fairness of `RefillBeat`, `EvictBeat` and the acknowledge says that what is
behind the outport (an AXI path without a way to refuse for ever) takes and answers every
burst in the end. Nothing is assumed of the requester. `EvictStall` has no fairness.

`DcacheBus` has one fair action, `Ready`: a cycle in which the slave takes what it is offered and
answers what it has, and the core refuses nothing, comes again and again. What is offered in it is not said.
The slaves justify it: each is ready again after its last response, and the refusal of a read lasts one cycle.

`Firmware`: the comparator goes on (`Tick` is a clock), every visit of the firmware ends (its loops
run over the bytes of an access, or wait for room in the UART, which `serial` shows comes), and a
machine timer interrupt that is possible again and again is taken: the hart does not execute for
ever without a cycle between two visits in which it is enabled. Nothing is assumed of the program.

`SerialIrq`: the clock runs, code that has begun goes on, the hvc0 console is polled (a kernel thread
with a timer does), a pending interrupt is taken if interrupts are open again and again (strong
fairness: the handler itself closes them), a byte takes a finite time on either line, and the sender
comes to look at its file. The last three are progress of clocked counters, stated as `[]<>`.
`Delivery` of `ByteStream` says that again and again nothing is on its way. At most `MaxLength` bytes are ever
handed over and they come out in order, so this is the same as: each byte that is handed over comes out.

`Frontend`: the clock runs, memory sends the beats of a burst, what can be issued all the time is
issued (stalls of the pipeline end), and a fence.i that waits reaches write back.

`LsuMmu`: a cycle in which the caches take what they are offered and answer what they have, and the fetch
unit asks, comes again and again (`[]<><<Ready>>_vars`). `DcacheCore`, `DcacheBus` and `Frontend` show their
side of it. `Ready` in this form is a cycle that changes something: a machine in which nothing moves at all is
assumed away, a livelock and one side that waits for ever are not. `WF_vars(Ready)` in its place assumes
nothing of that; TLC finds no error under it either, but takes much longer, so the run keeps the
cheaper form. Which of the two sides of the MMU is offered in such a cycle is not said, so the walker and
the load store unit have to make way for each other.

## 6. What is proved

All of it holds for every value of the constants that satisfies the assumptions the modules name; a
TLC run evaluates each of them on its instance. Every invariant below was checked with TLC on an
instance before it was proved.

**The cache core: where a line is** (`DcacheCore_proofs`; `NumSets >= 2`, `NumWords` in 2..256, any
tags, requests, contents of the tag RAMs before reset and initial memory). `TypeCorrect`, `OneCopy`
(`UniqueResidency`), `BurstsInStep` (`BurstInStep`). `UniqueResidency` is not inductive. Whether a refill
makes a second copy of a line depends on `Hit`, which looks at the output registers of the tag RAMs,
not at the RAMs. So `Inductive` adds `TagsRead` (in the states that look at them the outputs are
the entries of the set at work), `OpInState` (which operations each state can be in), `WayInState`
(during a refill no other way matches the line, during an eviction the selected way is the one
to go) and `Cleared` (the reset walk leaves nothing valid behind it; before reset the RAMs may hold two
copies). `BurstInStep` is needed for the type of the counters: `NextCell` stays in range,
`pmem_len_q` does not run below zero before the last beat.

**What is in it** (the second part of `DcacheCore_proofs`, same assumptions). `CleanLinesMatch` (`CleanMatchesMemory`),
`FlushLeavesNothing` (`FlushedOut`), `WriteBackReaches` (`WrittenBack`). That a line is clean and equals memory
depends on each beat of the burst that made it so. `DataInductive` adds `BurstData` (the beats that
are done are the same on both sides, and the word an eviction offers, from the RAM or from the skid
buffer, is the next of the line), `FlushWalk` (no set behind the flush address is valid, and
`flush_last_q` is set in the last one) and `WbClean` (when a write back is answered no way holds
its line dirty).

**The cache is a memory** (`DcacheCore_refines`). A word lives in the way that owns its line, else in
memory (`Store`). Each action but `Invalidate` is shown to be a step of `MemPort` or to change nothing a
requester sees: only the cycle of the response serves a request, refills and evictions move a word without
changing it. `TransparentButInvalidate` says so for any requester; `CoherentTransparent` is
`Spec => Transparent` for requesters that do not invalidate; `TameTransparent` is the property of the
run. `Invalidate` is left out because it drops a dirty line, as it is meant to.

**Traps** (`CsrTrap_proofs`; software keeps MPP legal, any delegation). `TypeCorrect`, `StagesFlushed`,
`InterruptsAllowed` (`TrapAllowed`), `PrivilegeAtWrite` (`PrivilegeKept`), `CsrResultArrives`
(`CsrCommits`), `ArrivalsKept` (`PendingKept`). What was decided at issue is used in write back, so
`Inductive` follows it through the stages: `OneAtATime` (`csr_pending_q` covers a CSR instruction from issue
to write back, nothing is behind it), `Squashing` (an exception in write back has nothing behind it),
`Results` and `InStages` (what E1, E2 and WB carry was computed in this mode, and has each bit of mip
that came meanwhile accounted for), `Launched` (as long as an interrupt is under way, its level is enabled: nothing
that could disable it can be in front of it) and `Buffered`. `MppLegal` is the only use of the
assumption about software: with the reserved value, mret would leave the core in no mode.

**The bus path** (`DcacheBus_proofs`; lines of 2 to 255 words, any lines, tags, values and requests).
`TypeCorrect`, `AnswersInOrder` (`InOrder`), `AnswersTheIssuer` (`RespondsToIssuer`), `BurstsWhole`
(`WholeBursts`). The argument is that the outport has one user at a time and that there is one thing
under way at most: none (`Quiet`), a read of which some words have come (`Reading`), or a write of
which the outport has taken s words, the channels a and the slave f (`WriteAt`). All
counts, inhibit flags and the credit follow from those. `Inv` then says who the user is: on the core's side
(`CoreSide`) each state of the core goes with one state of the bus, and memory is what the
requests leave but for the line that is being written; on the bridge's side (`UncSide`) the queued
requests see, one after the other, the word of the device that the one before leaves (`Behind`).
With lines of 256 words the eight bit `burst_cnt_q` of `dcache_axi` would wrap, hence 255; the code has
eight.

**The firmware** (`Firmware_proofs`; any programs over the instructions, registers that include zero
and a0, any budget of traps). `TypeCorrect`, `VectorIsRestored` (`VectorRestored`), `TrapsExpected` (`Expected`),
`TimerMaskedWhilePending` (`TimerUnmasked`). A handler works on a copy of the state, so lemmas first say
what each access and each emulation makes of such a copy, whichever byte faults. `Inv` adds `Booted` (the table
and the delegation at each point of the boot), `Timers` (what mtie and stip are between the steps of the
two timer handlers) and `Trapped` (mpp is the mode of the program; the trap is one its instruction raises).

**The firmware is a hart** (the last part of `Firmware_proofs`). Each step is one of `Hart` or invisible:
handler by handler, an emulation makes of registers, memory and trap registers what the hart does.
`FirmwareImplementsHart` is `Spec /\ []FrameSuffices => ImplementsHart`; the hypothesis names where it is
not so: an emulated instruction that takes or leaves its operand in the slot of sp, which has the
firmware's own (`boot.S:47`), an LR with x0 for its address, whose slot nothing clears, and a writable page at
address 0, which stands for no reservation. `SupportedImplementsHart`
discharges it for programs that avoid them (`Supported`, which compilers' code does), and
`ProgramsSupported` of `MCFirmware` checks that those of the run do.

**The front end** (`Frontend_proofs`; any geometry, code, places of fences, vectors and contents of the tag RAMs
at power up). `TypeCorrect`, `LinesUnique` (`OneCopy`), `CodeIssued` (`IssuesCode`), `NothingStale`
(`FreshAfterFlush`), `PathIsKept` (`PathKept`). A tag entry, once the walk of a flush is over, names a line whose
words are in the data RAM (`Filled`), unless a refill is putting them there (`Filling`, beat by beat). A
lookup that reads the RAMs as they were is one whose answer will be dropped, or taken back by the
branch of a fence (`Trusted`, `Discard`). So every word that waits behind the cache is the code of
its address and no older than the last flush (`Queued`). `PathKept` has an invariant of its
own: `Control` (which buffers can be full together) and `Run` (where fetch is, unless it is on its way to a
branch, is where the newest waiting entry goes on). The arithmetic of pairs, sets, tags and rows has lemmas
at the start.

**Loads, stores, fetches and the walker** (`LsuMmu_proofs`; any pages, frames, tables, programs, and any delay
of the caches). `TypeCorrect` is for all software. Its invariant, `Shape`, says what waits for what. `Waits`:
an access is in the request register until it is accepted and then in the queue of the load store unit until
it is answered, by the cache, by a fault or as a misaligned one, so the queue has one entry at most and no
response comes that nothing waits for. `Walks`: the walker has one read under way, asked for or on the port,
of the cell in `pte_addr_q`, and whoever it walks for stands still. `Pipe`: a CSR instruction is alone, and
what is fetched is for the privilege that will execute it.

`AnswersAllowed` (`Answers`) is not inductive on that: an answer comes from an entry that was read cycles
before, while stores changed the tables and flushes emptied the TLBs. `Sound` follows the entry. `Given`: what
a valid TLB holds is among what the tables have given for its page since the last flush, and in the cycles
before satp changes there is one such answer for each page, the DTLB is empty and the ITLB has nothing but the
pages satp is written from. `Roots`: a walk follows the tables of satp, with a pointer that is still there;
only the first read for a fetch may go to the tables of the last satp, and then the page is one all roots map
alike. `Promised`: what the oldest access may be answered contains what its registers are about to say.
`Contents`: memory holds only what the program stores. The theorem has a hypothesis, `Orderly`, and the reason
was found with TLC: the walker reads two entries one after the other, and its fetches go on while satp is
written. If a pointer to a second level table is replaced between the two reads, the leaf of the old table is
installed after the flush that was to drop it; if two roots map the page differently that satp is written
from, a fetch fills the TLB from the old one. Kernels free a table after the flush and map themselves alike
everywhere; `ProgramsOrderly` of `MCLsuMmu` checks that the programs of the run are orderly.

**The console** (`SerialIrq_proofs`; any text of different characters, any banner, number `BitDiv`
of cycles per bit of the sender, triggers of the lines and interrupts of the GPIO pin; a frame is its counted tail). `TypeCorrect` (`TypeOK`), and the safety halves of the two refinements,
`CharactersTyped` (`Typed!Order`, of `KernelReads`) and `CharactersPrinted` (`Printed!Order`, of
`LineCarries`): each step of the machine is a step of the byte stream or leaves it alone. Neither side has a
queue: the UART holds one character each way, and drops or overwrites another. So `Inv` says where the one on
its way is and who may touch it. `Arrives`: it is fetched, in a frame whose stop bit has not been sampled, or
in the receive register, and the sender fetches no other until it has gone. That rests on the sender's own
signals: a frame that goes on after the sample keeps `awaiting`. `Leaves`: it is in the write strobe, in the
shift register or on the line. `Control`: the code about to write has seen the UART empty, the code about to
read has seen a character, and only its own access changes that, whatever interrupt comes between: the polls
are in machine mode and the driver's handler does not nest. The 28 actions are first shown to be a cycle with
a permitted access (`Step`), and the invariant is then kept by any such cycle. The order holds for every
choice of triggers; with the wrong one (the mutant of `LineCarries`) characters stay behind, which is
liveness.

Only model-checked: every liveness property (`Answered` of both cache modules, `InputConsumed`, `LevelServed`,
`InterruptsEnd`, `TimerDelivered`, `Progress`, `Served`, and `Delivery` in `KernelReads` and `LineCarries`),
since fairness and ENABLED are out of the prover's reach; and the five properties the violation runs refute.

No module declares a RECURSIVE operator, so none is out of the prover's reach for that.

## 7. Findings

1. `dcache_core.v:238`: an invalidate accepted right after a request to another set compares its tag with the
   tags of that set. The line stays valid although the comment in line 273 says it is dropped.
2. `biriscv_csr_regfile.v:310`: the level of an interrupt trap is a register of an earlier cycle, its
   cause is encoded from this cycle's interrupts. If the machine timer becomes pending just
   then, the supervisor is entered with the scause of an older trap.
3. `biriscv_csr_regfile.v:151`: the buffering of mip arrivals opens for any instruction of slot a whose bits 31..20 are
   the number of mip or sip. After an `addi` or a load with that immediate, SEIP sticks although the comment in
   line 472 says it follows the line.
4. `bootloader/main.c:53`: the reservation of LR is dropped when the firmware sees an interrupt, and it sees
   only its own timer. Interrupts that are delegated go past it, so a store conditional succeeds although
   the comment in `emulation.c:401` says interrupts clear the reservation.
5. `icache.v:456`: the request of fence.i lasts one cycle and is looked at only in `STATE_LOOKUP`. If the
   cache is in a refill, or finds a miss, in that cycle, nothing is flushed; the register that should hold the
   request (`biriscv_fetch.v:179`) waits for a signal that is constant. The fence.i completes all the same.

Seen while modelling, and not the subject of a run:

- `boot.S:47` saves x2 after `csrrw` has exchanged it: the slot of x2 in the frame is the address of
  the frame. A misaligned store of sp, or an atomic with it as the operand, uses that; compilers emit neither.
  The programs of `MCFirmware` use sp as no source.
- The machine timer fires when `mcycle` equals the deadline, once: a deadline that is past when it is
  written, or written in the cycle the old one matches, waits until the counter wraps. `SET_TIMER`
  leaves a pending machine timer bit pending, so an old deadline may be delivered once more (early, and harmless).
- The UART's completion interrupt is a pulse of one cycle, so the device tree must mark its line as
  edge triggered (`xlnx,kind-of-intr`), as the mutant of `LineCarries` shows.
- The sender of the test bench would wait for ever if the receiver stored a byte before the frame
  ended and the software read it within that tail; with a bit of 24 cycles the frame ends first. From
  about 28 cycles on it would not; the slower rates of the FPGA build run without this sender.
- A bus error in a refill leaves the line valid in both caches; the error is reported once.
- The walk for a fetch is done twice for a page that is new: the entry is made valid only if the address it
  replaces is that of the request (`biriscv_mmu.v:281`), which it is the second time.
- That second walk also covers a store to a leaf and an sfence.vma between the reads of the first. A
  root entry in use that is changed between its read and that of the leaf is another matter: the old leaf
  is installed after the flush. The programs of the run change leaves, and a root entry that was absent.
- The TLBs are flushed a cycle after a write of satp is issued, two cycles before satp changes. A fetch
  in between may fill the ITLB from the old root. Linux maps the kernel alike in all of them, as the
  programs here do.
- Faults are cached like translations (a TLB hits "even on page fault"): after a page is mapped, an access
  that faulted before needs an sfence.vma, which the privileged architecture allows and Linux does.
- `lsu_addr_w` follows the address of a load or a store only (`biriscv_mmu.v:157-165`): a write back or an
  invalidate of a line goes to the page and line of the last access, and with translation on it is not
  accepted while that page misses in the DTLB. Nothing in the repository uses these instructions.

## 8. Not modelled

- To come: interconnect, divider. `Frontend` and `Firmware` do not include `LsuMmu`: they use the MMU as a
  transparent path (`Frontend`), or by what it reports (`ReadFault`, `WriteFault` in `Firmware`).
- Of `LsuMmu`: byte lanes, sign extension and data; cache maintenance; bus errors of the walker's own
  reads, which on the second level are not looked at (`biriscv_mmu.v:250`); MPRV, SUM and MXR do not change
  during a run.
- The datapath (ALU, multiplier, register file, decoder tables, bypasses), which is combinational
  functions of single instructions; the tables of the predictor, replaced by any guess.
- Of modelled parts: bus errors; the invalidation of a line in the instruction cache (its request is
  constant 0); the interrupt enable bit of the UART, which gates nothing; the chained interrupt
  handler (the same loop, for a nested controller) and the failures of the device tree in the
  driver, and its big endian accessors, which `TypeOK` of `SerialIrq` shows are never chosen; the copy of an image
  from flash, which the embedded one does not need; the hexadecimal print before a stop; the stubs
  of the C library; the sender's delay, which holds it until the boot.
- External, modelled from their use: the kernel's uartlite driver and interrupt core, the handler of
  the GPIO line, memory.
- Wiring; the tightly coupled memory variant, which the SoC does not instantiate; gpio other than its
  interrupt, timer and spi; scripts, images and the SDK, none of which keeps state the machine uses.

## 9. Running

`tlc -config MCDcacheTame_cache.cfg MCDcacheTame` and likewise for the other configurations (up to
three and a half minutes each). `tlapm DcacheCore_proofs.tla`, and likewise `DcacheCore_refines`,
`CsrTrap_proofs`, `DcacheBus_proofs`, `Firmware_proofs`, `Frontend_proofs`, `LsuMmu_proofs` and `SerialIrq_proofs`
(up to five minutes each, from nothing). `DcacheCore_refines` does not prove again what
`DcacheCore_proofs` has proved.
