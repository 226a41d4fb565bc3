------------------------------ MODULE SerialIrq ------------------------------
(***************************************************************************)
(* The console of the machine, from the file of keystrokes of the test     *)
(* bench to the program that reads them, and from the program that prints  *)
(* to the line: the sender of tb_soc.v, the UART (uart_lite.v), the        *)
(* interrupt controller (irq_ctrl.v) with the UART on line 1 and the GPIO  *)
(* block on line 3, the kernel's driver of the controller                  *)
(* (irq-xilinx-intc.c), and both ways the software uses the UART: polled,  *)
(* by the firmware on behalf of the hvc0 console (serial.c, sbi.c), or     *)
(* from interrupts, by the kernel's uartlite driver (ttyUL0).              *)
(*                                                                         *)
(* A step is one clock cycle of all the hardware, with at most one access  *)
(* of the processor to a register.  The processor is as slow as it likes   *)
(* between accesses; the two accesses of a row are a cycle apart, for the  *)
(* bus waits for the response (see DcacheBus).  A register that is written *)
(* takes the value one cycle later where the code has a strobe register;   *)
(* last, the access of the cycle before, stands for all those strobes.     *)
(***************************************************************************)
EXTENDS Integers, Sequences, SequencesExt

CONSTANTS Input,      \* the characters of the +INPUT file
          Output,     \* the characters the software prints
          Banner,     \* how many of them the firmware prints before it boots
          BitDiv,     \* clock cycles of a bit on the line
          IntrMask,   \* xlnx,kind-of-intr: the lines that are edge triggered
          MaxEvents   \* bound: edges of the GPIO pin

ASSUME SerialAssumption ==
    /\ Input \in Seq(ToSet(Input)) /\ Output \in Seq(ToSet(Output))
    /\ Banner \in 1 .. Len(Output)
    /\ BitDiv \in Nat \ {0}
    /\ MaxEvents \in Nat
    /\ \A i, j \in DOMAIN Input : Input[i] = Input[j] => i = j
    /\ \A i, j \in DOMAIN Output : Output[i] = Output[j] => i = j

VARIABLES
  last,         \* the access the peripherals took in the cycle before
  uart,         \* [ready, data, busy, shift, complete, intr]
  enable,       \* irq_enable_q
  pending,      \* irq_pending_q
  master,       \* irq_mer_me_q
  intr,         \* intr_q of the controller: the external interrupt
  gpio,         \* [raw, intr, events]
  in_pos,       \* characters fetched from the file
  tx_pending,   \* a character is fetched and its frame not begun
  pos,          \* cycle of the frame on the line, Off when there is none
  awaiting,     \* awaiting_recv: a frame is sent and its receipt not seen
  console,      \* "hvc0" or "ttyUL0": the console= of the device tree
  thread,       \* where the program is
  isr,          \* where the interrupt handler is, "off" when it is not running
  hwirq,        \* the line it is at
  room,         \* the UART status it has read said that TX is not full
  written,      \* characters the program has printed
  started,      \* of those, characters written to the TX register
  received,     \* characters the software has read
  line          \* characters that have left on the line

hardware == <<last, uart, enable, pending, master, intr, gpio>>
sender   == <<in_pos, tx_pending, pos, awaiting>>
handler  == <<isr, hwirq, room>>
streams  == <<written, started, received>>
vars == <<hardware, sender, console, thread, handler, streams, line>>

UartLine == 1        \* soc.v: interrupt1_i
GpioLine == 3        \* soc.v: interrupt3_i
Lines == 0 .. 3
Requests == {"uart_request", "gpio_request"}
Unmasks  == {"uart_unmask", "gpio_unmask"}
BootSteps == {"serial_init", "intc_ier", "intc_iar", "intc_mer", "intc_check",
              "big_endian", "uart_rst", "uart_ie"} \cup Requests \cup Unmasks
NoLine == -1         \* the vector when no line is pending
Off == -1            \* pos: no frame on the line

-----------------------------------------------------------------------------
(* Accesses of the processor to the registers.                             *)

NoAccess == [op |-> "none", reg |-> "none", data |-> {}]
Read(r) == [op |-> "read", reg |-> r, data |-> {}]
Write(r, d) == [op |-> "write", reg |-> r, data |-> d]

Reads(a, r) == a.op = "read" /\ a.reg = r
Writes(a, r) == a.op = "write" /\ a.reg = r

\* The bus takes an access when the one before has had its response.
BusFree == last.op = "none"

-----------------------------------------------------------------------------
(* UART.                                                                   *)

\* What a read of the status register says.
TxFull == uart.busy
RxValid == uart.ready

\* The cycle of a frame whose edge stores the byte: three cycles to see the
\* start bit, half a bit to its middle, and nine bits of BitDiv + 1 cycles.
StopSample_ExactBits(b) == 3 + b \div 2 + 9 * b
StopSample(b) == 3 + b \div 2 + 9 * (b + 1)

\* The byte of a frame arrives; else a read, or a reset, empties the register.
Receiver(a) ==
    IF pos = StopSample(BitDiv)
    THEN [ready |-> TRUE, data |-> Input[in_pos]]
    ELSE [ready |-> uart.ready /\ ~ (\/ Reads(a, "RX")
                                     \/ /\ Writes(last, "CONTROL")
                                        /\ "RST_RX" \in last.data),
          data  |-> uart.data]

\* The shift register sends its byte for as long as it takes (done is the last
\* cycle of the stop bit); a byte written while it does is dropped.
Transmitter(done) ==
    IF uart.busy
    THEN [busy |-> ~ done, shift |-> uart.shift, complete |-> done]
    ELSE IF Writes(last, "TX")
         THEN [busy |-> TRUE, shift |-> CHOOSE b \in last.data : TRUE, complete |-> FALSE]
         ELSE [busy |-> FALSE, shift |-> uart.shift, complete |-> FALSE]

UartIntr == uart.complete \/ uart.ready

Uart(a) ==
    \E done \in BOOLEAN :
        /\ done => uart.busy
        /\ LET rx == Receiver(a)
               tx == Transmitter(done)
           IN  uart' = [ready |-> rx.ready, data |-> rx.data, busy |-> tx.busy,
                        shift |-> tx.shift, complete |-> tx.complete, intr |-> UartIntr]
        /\ line' = IF done THEN Append(line, uart.shift) ELSE line

-----------------------------------------------------------------------------
(* GPIO: a pin in edge mode, its interrupt unmasked.                       *)

Gpio(event) ==
    gpio' = [raw    |-> (gpio.raw /\ ~ Writes(last, "GPIO_INT_CLR")) \/ event,
             intr   |-> gpio.raw,
             events |-> IF event THEN gpio.events + 1 ELSE gpio.events]

-----------------------------------------------------------------------------
(* Interrupt controller.                                                   *)

InputLines == {l \in Lines : \/ l = UartLine /\ uart.intr
                             \/ l = GpioLine /\ gpio.intr}

Acked == IF Writes(last, "IAR") THEN last.data ELSE {}

IrqPending_RisingEdge ==
    {l \in Lines : \/ l = UartLine /\ uart.intr
                   \/ l = GpioLine /\ gpio.raw /\ ~ gpio.intr}
        \cup (pending \ Acked)

\* A line that is high stays pending whatever is acknowledged.
IrqPending == InputLines \cup (pending \ Acked)

IrqEnable ==
    CASE Writes(last, "IER") -> last.data
      [] Writes(last, "SIE") -> enable \cup last.data
      [] Writes(last, "CIE") -> enable \ last.data
      [] OTHER -> enable

IrqController(a) ==
    /\ pending' = IrqPending
    /\ enable' = IrqEnable
    /\ master' = IF Writes(a, "MER") THEN "ME" \in a.data ELSE master
    /\ intr' = (master /\ pending \cap enable # {})

\* The vector register: the lowest line that is pending and enabled.
Vector == IF pending \cap enable = {} THEN NoLine
          ELSE CHOOSE l \in pending \cap enable : \A k \in pending \cap enable : l <= k

-----------------------------------------------------------------------------
(* The sender of the test bench.                                           *)

\* The first cycle after the ten bits of a frame.
FrameEnd(b) == 10 * b

Sending == pos \in 0 .. FrameEnd(BitDiv) - 1

\* Only the last cycles of a frame are counted: before them a frame takes
\* its time and nothing else can tell how far it is.
TailBegin == IF StopSample(BitDiv) < FrameEnd(BitDiv) - 1
             THEN StopSample(BitDiv) ELSE FrameEnd(BitDiv) - 1
TailEnd == IF StopSample(BitDiv) < FrameEnd(BitDiv) - 1
           THEN FrameEnd(BitDiv) - 1 ELSE StopSample(BitDiv)

\* The sender is held back (+INPUT_DELAY) until the software has started.
Booted == thread \notin BootSteps /\ started >= Banner

\* A character is fetched only when the one before has been received and read.
MayFetch_NoFlowControl == ~ Sending /\ ~ tx_pending /\ in_pos < Len(Input)
MayFetch == /\ ~ Sending /\ ~ tx_pending
            /\ ~ awaiting /\ ~ uart.ready
            /\ in_pos < Len(Input)

Fetch == IF MayFetch /\ Booted
         THEN \/ in_pos' = in_pos + 1 /\ tx_pending' = TRUE
              \/ UNCHANGED <<in_pos, tx_pending>>
         ELSE in_pos' = in_pos /\ tx_pending' = (tx_pending /\ pos # Off)

Frame == CASE pos = Off -> pos' = (IF tx_pending THEN 0 ELSE Off)
           [] pos = 0 -> pos' \in {0, TailBegin}
           [] pos \in TailBegin .. TailEnd - 1 -> pos' = pos + 1
           [] pos = TailEnd -> pos' = Off

Sender ==
    /\ Fetch
    /\ Frame
    /\ awaiting' = (pos = FrameEnd(BitDiv) - 1 \/ (awaiting /\ ~ uart.ready))

\* One clock cycle of everything but the software, with the access a.
Clock(a) ==
    /\ a.op # "none" => BusFree
    /\ last' = a
    /\ Uart(a)
    /\ IrqController(a)
    /\ Sender
    /\ \E event \in BOOLEAN :
          /\ event => Booted /\ gpio.events < MaxEvents
          /\ Gpio(event)

-----------------------------------------------------------------------------
(* Software: each step is a cycle with its access, or without one.         *)

\* The program is at step t, and the handler is not running.
At(t) == isr = "off" /\ thread = t
Goto(t) == thread' = t

\* The processor does something else, or waits for the bus.
Wait == Clock(NoAccess) /\ UNCHANGED <<console, thread, handler, streams>>

(* Firmware: serial.c, polled. *)

SerialInit ==
    /\ At("serial_init")
    /\ Clock(Write("CONTROL", {"RST_RX", "RST_TX", "IE"}))
    /\ written' = Banner
    /\ Goto("poll_tx")
    /\ UNCHANGED <<console, handler, started, received>>

PutcharPoll ==
    /\ At("poll_tx")
    /\ Clock(Read("STATUS"))
    /\ Goto(IF TxFull THEN "poll_tx" ELSE "put")
    /\ UNCHANGED <<console, handler, streams>>

\* The string goes on while it has characters; the banner ends in the boot of
\* the kernel, a console call in a return to it.
PutcharWrite ==
    /\ At("put")
    /\ Clock(Write("TX", {Output[started + 1]}))
    /\ started' = started + 1
    /\ Goto(CASE started + 1 < written -> "poll_tx"
              [] started + 1 = Banner -> "intc_ier"
              [] OTHER -> "idle")
    /\ UNCHANGED <<console, handler, written, received>>

\* SBI_CONSOLE_GETCHAR asks serial_haschar, and serial_getchar asks it again.
Haschar ==
    \E t \in {"haschar", "getchar"} :
        /\ At(t)
        /\ Clock(Read("STATUS"))
        /\ Goto(CASE ~ RxValid -> "idle"
                  [] RxValid /\ t = "haschar" -> "getchar"
                  [] RxValid /\ t = "getchar" -> "rx")
        /\ UNCHANGED <<console, handler, streams>>

GetcharRead ==
    /\ At("rx")
    /\ Clock(Read("RX"))
    /\ received' = Append(received, uart.data)
    /\ Goto("idle")
    /\ UNCHANGED <<console, handler, written, started>>

(* Kernel, hvc0: SBI calls of the console. *)

ConsolePut ==
    /\ At("idle") /\ console = "hvc0" /\ written < Len(Output)
    /\ Clock(NoAccess)
    /\ written' = written + 1
    /\ Goto("poll_tx")
    /\ UNCHANGED <<console, handler, started, received>>

ConsoleGet ==
    /\ At("idle") /\ console = "hvc0"
    /\ Clock(NoAccess)
    /\ Goto("haschar")
    /\ UNCHANGED <<console, handler, streams>>

(* Kernel: xilinx_intc_of_init. *)

DisableAll == /\ At("intc_ier")
              /\ Clock(Write("IER", {}))
              /\ Goto("intc_iar")
              /\ UNCHANGED <<console, handler, streams>>

AckAll == /\ At("intc_iar")
          /\ Clock(Write("IAR", Lines))
          /\ Goto("intc_mer")
          /\ UNCHANGED <<console, handler, streams>>

MasterBits_HieOnly == {"HIE"}
MasterBits == {"ME", "HIE"}

MasterEnable == /\ At("intc_mer")
                /\ Clock(Write("MER", MasterBits))
                /\ Goto("intc_check")
                /\ UNCHANGED <<console, handler, streams>>

\* A controller that does not read back the bits is taken to be big endian;
\* nothing is modelled of what follows, for this one does.
CheckMaster == /\ At("intc_check")
               /\ Clock(Read("MER"))
               /\ Goto(CASE ~ master -> "big_endian"
                         [] master /\ console = "ttyUL0" -> "uart_request"
                         [] master /\ console = "hvc0" -> "gpio_request")
               /\ UNCHANGED <<console, handler, streams>>

\* xintc_map: a line is edge or level triggered as the device tree says.
LevelType_Always(l) == TRUE
LevelType(l) == l \notin IntrMask

\* intc_enable_or_unmask: a level is acknowledged first, then enabled.
Unmask(l) == IF LevelType(l) THEN "unmask_ack" ELSE "unmask"
Enable(l) == Write("SIE", {l})

\* request_irq ends in the unmask of the line.
RequestIrq ==
    \E r \in Requests :
        LET l == IF r = "uart_request" THEN UartLine ELSE GpioLine
        IN  /\ At(r)
            /\ Clock(NoAccess)
            /\ hwirq' = l
            /\ isr' = Unmask(l)
            /\ Goto(IF r = "uart_request" THEN "uart_unmask" ELSE "gpio_unmask")
            /\ UNCHANGED <<console, room, streams>>

(* Kernel, ttyUL0: the uartlite driver outside its handler. *)

UartReset == /\ At("uart_rst")
             /\ Clock(Write("CONTROL", {"RST_RX", "RST_TX"}))
             /\ Goto("uart_ie")
             /\ UNCHANGED <<console, handler, streams>>

UartEnable == /\ At("uart_ie")
              /\ Clock(Write("CONTROL", {"IE"}))
              /\ Goto("gpio_request")
              /\ UNCHANGED <<console, handler, streams>>

\* A character is put into the driver's buffer and the transmitter started.
UartWrite ==
    /\ At("idle") /\ console = "ttyUL0" /\ written < Len(Output)
    /\ Clock(NoAccess)
    /\ written' = written + 1
    /\ Goto("start_status")
    /\ UNCHANGED <<console, handler, started, received>>

StartStatus ==
    /\ At("start_status")
    /\ Clock(Read("STATUS"))
    /\ Goto(IF ~ TxFull /\ started < written THEN "start_tx" ELSE "idle")
    /\ UNCHANGED <<console, handler, streams>>

StartTx ==
    /\ At("start_tx")
    /\ Clock(Write("TX", {Output[started + 1]}))
    /\ started' = started + 1
    /\ Goto("idle")
    /\ UNCHANGED <<console, handler, written, received>>

(* Kernel: the interrupt. *)

\* Interrupts are off in a console call, which is in machine mode, and in the
\* driver, which holds a lock.
Interruptible == isr = "off" /\ thread \in {"idle", "uart_rst", "uart_ie", "gpio_request"}

TakeInterrupt ==
    /\ intr /\ Interruptible
    /\ Clock(NoAccess)
    /\ isr' = "ivr"
    /\ UNCHANGED <<console, thread, hwirq, room, streams>>

\* The domain is linear: a line is its own interrupt, and no line is none.
xintc_get_irq == Vector

\* xil_intc_handle_irq: one line after the other until there is none.
NextIrq ==
    LET irq == xintc_get_irq
    IN  /\ isr = "ivr"
        /\ Clock(Read("IVR"))
        /\ hwirq' = irq
        /\ isr' = CASE irq = NoLine -> "off"
                    [] irq # NoLine /\ LevelType(irq) -> "mask"
                    [] irq # NoLine /\ ~ LevelType(irq) -> "ack"
        /\ UNCHANGED <<console, thread, room, streams>>

Handler(l) == IF l = UartLine THEN "uart_status" ELSE "gpio_clr"

\* handle_level_irq unmasks what it masked; handle_edge_irq has nothing left.
Handled(l) == IF LevelType(l) THEN Unmask(l) ELSE "ivr"

\* The accesses of the chip: intc_mask_ack, intc_ack, intc_enable_or_unmask.
AckedLine_Shifted == {hwirq + 1}
AckedLine == {hwirq}

IntcMask == /\ isr = "mask"
            /\ Clock(Write("CIE", {hwirq}))
            /\ isr' = "mask_ack"
            /\ UNCHANGED <<console, thread, hwirq, room, streams>>

IntcAck == /\ isr \in {"mask_ack", "ack"}
           /\ Clock(Write("IAR", AckedLine))
           /\ isr' = Handler(hwirq)
           /\ UNCHANGED <<console, thread, hwirq, room, streams>>

IntcUnmaskAck == /\ isr = "unmask_ack"
                 /\ Clock(Write("IAR", {hwirq}))
                 /\ isr' = "unmask"
                 /\ UNCHANGED <<console, thread, hwirq, room, streams>>

IntcUnmask == /\ isr = "unmask"
              /\ Clock(Enable(hwirq))
              /\ hwirq' = NoLine
              /\ isr' = IF thread \in Unmasks THEN "off" ELSE "ivr"
              /\ Goto(CASE thread = "uart_unmask" -> "uart_rst"
                        [] thread = "gpio_unmask" -> "idle"
                        [] OTHER -> thread)
              /\ UNCHANGED <<console, room, streams>>

(* Kernel: the handler of the uartlite driver, and of the GPIO line. *)

UartStatus ==
    LET transmit == ~ TxFull /\ started < written
    IN  /\ isr = "uart_status"
        /\ Clock(Read("STATUS"))
        /\ room' = transmit
        /\ isr' = CASE RxValid -> "uart_rx"
                    [] ~ RxValid /\ transmit -> "uart_tx"
                    [] OTHER -> Handled(hwirq)
        /\ UNCHANGED <<console, thread, hwirq, streams>>

UartRx == /\ isr = "uart_rx"
          /\ Clock(Read("RX"))
          /\ received' = Append(received, uart.data)
          /\ isr' = IF room THEN "uart_tx" ELSE "uart_status"
          /\ UNCHANGED <<console, thread, hwirq, room, written, started>>

UartTx == /\ isr = "uart_tx"
          /\ Clock(Write("TX", {Output[started + 1]}))
          /\ started' = started + 1
          /\ room' = FALSE
          /\ isr' = "uart_status"
          /\ UNCHANGED <<console, thread, hwirq, written, received>>

GpioClear == /\ isr = "gpio_clr"
             /\ Clock(Write("GPIO_INT_CLR", {GpioLine}))
             /\ isr' = Handled(hwirq)
             /\ UNCHANGED <<console, thread, hwirq, room, streams>>

-----------------------------------------------------------------------------
Init ==
    /\ last = NoAccess
    /\ uart = [ready |-> FALSE, data |-> 0, busy |-> FALSE, shift |-> 0,
               complete |-> FALSE, intr |-> FALSE]
    /\ enable = {} /\ pending = {} /\ master = FALSE /\ intr = FALSE
    /\ gpio = [raw |-> FALSE, intr |-> FALSE, events |-> 0]
    /\ in_pos = 0 /\ tx_pending = FALSE /\ pos = Off /\ awaiting = FALSE
    /\ console \in {"hvc0", "ttyUL0"}
    /\ thread = "serial_init" /\ isr = "off" /\ hwirq = NoLine /\ room = FALSE
    /\ written = 0 /\ started = 0 /\ received = <<>> /\ line = <<>>

Firmware == SerialInit \/ PutcharPoll \/ PutcharWrite \/ Haschar \/ GetcharRead
IntcInit == DisableAll \/ AckAll \/ MasterEnable \/ CheckMaster
Intc == NextIrq \/ IntcMask \/ IntcAck \/ IntcUnmaskAck \/ IntcUnmask
Driver == \/ RequestIrq \/ UartReset \/ UartEnable \/ StartStatus \/ StartTx
          \/ UartStatus \/ UartRx \/ UartTx \/ GpioClear

Next == \/ Wait \/ Firmware \/ IntcInit \/ Intc \/ Driver
        \/ ConsolePut \/ ConsoleGet \/ UartWrite \/ TakeInterrupt

Spec == Init /\ [][Next]_vars

\* The clock runs and code that has begun goes on; hvc0 is polled; an interrupt that is there
\* again and again is taken; a byte takes a finite time on either line; and the
\* sender comes to look at its file.
Fairness ==
    /\ WF_vars(Next)
    /\ WF_vars(Firmware \/ IntcInit \/ Intc \/ Driver)
    /\ WF_vars(ConsoleGet)
    /\ SF_vars(TakeInterrupt)
    /\ []<>(~ uart.busy)
    /\ []<>(pos # 0)
    /\ []<>(~ MayFetch)

FairSpec == Spec /\ Fairness

-----------------------------------------------------------------------------
(* Properties.                                                             *)

Prefix(s, n) == SubSeq(s, 1, n)

\* Every register, counter and program counter stays in its range: among them,
\* the master enable reads back as written, so the driver never takes the
\* controller for a big endian one (irq-xilinx-intc.c:225).
TypeOK ==
    /\ last.op \in {"none", "read", "write"}
    /\ uart.data \in ToSet(Input) \cup {0} /\ uart.shift \in ToSet(Output) \cup {0}
    /\ {uart.ready, uart.busy, uart.complete, uart.intr} \subseteq BOOLEAN
    /\ enable \subseteq {UartLine, GpioLine} /\ pending \subseteq {UartLine, GpioLine}
    /\ {master, intr, gpio.raw, gpio.intr, tx_pending, awaiting, room} \subseteq BOOLEAN
    /\ in_pos \in 0 .. Len(Input) /\ pos \in {Off, 0} \cup TailBegin .. TailEnd
    /\ thread \in (BootSteps \ {"big_endian"}) \cup
                   {"idle", "poll_tx", "put", "haschar", "getchar", "rx", "start_status", "start_tx"}
    /\ isr \in {"off", "ivr", "mask", "mask_ack", "ack", "unmask_ack", "unmask",
                "uart_status", "uart_rx", "uart_tx", "gpio_clr"}
    /\ hwirq \in {NoLine, UartLine, GpioLine}
    /\ 0 <= started /\ started <= written /\ written <= Len(Output)

\* The characters the sender takes from its file reach the program that reads
\* the console, each once and in order, however rarely it looks (tb_soc.v:154),
\* polled or from interrupts.
Typed == INSTANCE ByteStream WITH
             Bytes <- ToSet(Input), MaxLength <- Len(Input),
             source <- Prefix(Input, in_pos), sink <- received
KernelReads == Typed!Spec

\* The characters the firmware and the kernel print leave on the line, each
\* once and in order, although the UART holds one byte and drops a second
\* (uart_lite.v:509), and the pulse that asks for the next lasts one cycle.
Printed == INSTANCE ByteStream WITH
               Bytes <- ToSet(Output), MaxLength <- Len(Output),
               source <- Prefix(Output, written), sink <- line
LineCarries == Printed!Spec

\* The whole file is typed and read in the end: the sender, which watches the
\* receiver with signals of its own, never waits for a receipt it has missed
\* (tb_soc.v:152).
InputConsumed == <>(received = Input)

\* The GPIO line, level triggered at the controller, is served every time it is
\* raised, also when that is in the cycle its last request is cleared, or while
\* the driver is unmasking it (irq-xilinx-intc.c:73).
LevelServed == gpio.intr ~> ~ gpio.intr

\* Once there is nothing more to do the handler is left for good: no request
\* that has been served stays pending (irq_ctrl.v:385, irq-xilinx-intc.c:165).
InterruptsEnd == <>[](isr = "off")
=============================================================================
