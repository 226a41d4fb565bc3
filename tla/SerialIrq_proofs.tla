--------------------------- MODULE SerialIrq_proofs ---------------------------
(***************************************************************************)
(* The console of SerialIrq carries characters in order, whatever the text *)
(* that is typed and printed, the bit rate, the triggers of the lines and  *)
(* the interrupts of the GPIO pin: its registers keep their types, and     *)
(* both its streams implement the safety part of ByteStream.               *)
(*                                                                         *)
(* The argument.  Neither side of the console has a queue: the UART holds  *)
(* one character each way and drops a second.  So the invariant says where *)
(* the character on its way is, and who may touch it.  Arrives: a          *)
(* character taken from the file is in flight (asked for, or in a frame    *)
(* whose stop bit has not been sampled), or in the receive register, or    *)
(* has been read; never two of them.  Leaves: a character given to the UART*)
(* is in the write strobe, in the shift register, or on the line; never    *)
(* two of them.  Control: the software that is about to write to the UART  *)
(* has seen it empty, and the one that is about to read has seen a         *)
(* character, and nothing but its own access can change that.              *)
(*                                                                         *)
(* A step is a cycle of the hardware, Clock(a), together with what the     *)
(* software does, Does(a); every action is shown to be one (StepOfNext),   *)
(* and a step keeps the invariant (InvKept).                               *)
(***************************************************************************)
EXTENDS SerialIrq, TLAPS

\* The steps of the threads and of the handlers at an interrupt line.
Threads == (BootSteps \ {"big_endian"}) \cup
           {"idle", "poll_tx", "put", "haschar", "getchar", "rx", "start_status", "start_tx"}
AtLine  == {"mask", "mask_ack", "ack", "unmask_ack", "unmask",
            "uart_status", "uart_rx", "uart_tx", "gpio_clr"}

\* A byte is on its way into the shift register; the software is about to write
\* one, and to read one.
Asked    == Writes(last, "TX")
Sends    == thread \in {"put", "start_tx"} \/ isr = "uart_tx" \/ (isr = "uart_rx" /\ room)
Receives == thread = "rx" \/ isr = "uart_rx"

\* Where the software is, and what it knows of the UART and the controller.
Control ==
    /\ console \in {"hvc0", "ttyUL0"} /\ thread \in Threads /\ isr \in {"off", "ivr"} \cup AtLine
    /\ hwirq \in {NoLine, UartLine, GpioLine} /\ room \in BOOLEAN
    /\ started \in Nat /\ written \in Nat /\ started <= written /\ written <= Len(Output)
    /\ thread = "serial_init" => started = 0 /\ written = 0
    /\ thread # "serial_init" => written >= Banner
    /\ thread = "poll_tx" \/ Sends => started < written
    /\ thread \notin {"serial_init", "poll_tx", "put"} => started >= Banner
    /\ isr # "off" => thread \in {"idle", "uart_rst", "uart_ie", "gpio_request"} \cup Unmasks
    /\ isr \in AtLine => hwirq # NoLine
    /\ thread = "intc_check" => master
    /\ Receives => uart.ready
    /\ Sends => ~ uart.busy /\ ~ Asked

\* A character is on its way from the file to the receive register.
InFlight == tx_pending \/ pos \in 0 .. StopSample(BitDiv)

\* Where the characters of the file are: before the boot nothing is sent; one at
\* a time is in flight or in the register, and the rest has been read.
Arrives ==
    /\ ~ Booted => in_pos = 0 /\ ~ tx_pending /\ pos = Off /\ ~ uart.ready
    /\ Writes(last, "CONTROL") /\ "RST_RX" \in last.data => ~ Booted
    /\ tx_pending => pos = Off
    /\ pos >= FrameEnd(BitDiv) => awaiting
    /\ InFlight => in_pos > 0 /\ ~ uart.ready
    /\ uart.ready => in_pos > 0 /\ uart.data = Input[in_pos]
    /\ received = Prefix(Input, IF InFlight \/ uart.ready THEN in_pos - 1 ELSE in_pos)

\* Where the characters printed are: the last one written to the UART is in the
\* strobe or the shift register, or on the line with the others.
Leaves ==
    /\ uart.busy \/ Asked => started > 0
    /\ uart.busy => uart.shift = Output[started] /\ ~ Asked
    /\ Asked => last.data = {Output[started]}
    /\ line = Prefix(Output, IF uart.busy \/ Asked THEN started - 1 ELSE started)

\* Only the two lines in use are enabled.
Strobes ==
    /\ last.op \in {"none", "read", "write"}
    /\ Writes(last, "IER") => last.data = {}
    /\ Writes(last, "SIE") => last.data \subseteq {UartLine, GpioLine}

\* The registers of the hardware.
Registers ==
    /\ uart.data \in ToSet(Input) \cup {0} /\ uart.shift \in ToSet(Output) \cup {0}
    /\ uart.ready \in BOOLEAN /\ uart.busy \in BOOLEAN
    /\ uart.complete \in BOOLEAN /\ uart.intr \in BOOLEAN
    /\ enable \subseteq {UartLine, GpioLine} /\ pending \subseteq {UartLine, GpioLine}
    /\ master \in BOOLEAN /\ intr \in BOOLEAN /\ gpio.raw \in BOOLEAN /\ gpio.intr \in BOOLEAN
    /\ in_pos \in 0 .. Len(Input) /\ pos \in {Off, 0} \cup TailBegin .. TailEnd
    /\ tx_pending \in BOOLEAN /\ awaiting \in BOOLEAN

Inv == Control /\ Arrives /\ Leaves /\ Strobes /\ Registers

-----------------------------------------------------------------------------
(* The steps.                                                                *)

\* What a cycle does to what the software knows of the hardware.
Ticks(a) ==
    /\ a.op # "none" => last.op = "none"
    /\ last' = a
    /\ uart.ready /\ ~ Reads(a, "RX") => uart'.ready
    /\ ~ uart.busy /\ ~ Asked => ~ uart'.busy
    /\ master' = IF Writes(a, "MER") THEN "ME" \in a.data ELSE master

\* What a step of the software does to what the hardware and the streams hold.
Does(a) ==
    /\ a.op \in {"none", "read", "write"}
    /\ IF Reads(a, "RX") THEN uart.ready /\ received' = Append(received, uart.data)
       ELSE received' = received
    /\ IF Writes(a, "TX") THEN Sends /\ a.data = {Output[started + 1]} /\ started' = started + 1
       ELSE started' = started
    /\ written <= written'
    /\ Booted => Booted'
    /\ Writes(a, "CONTROL") /\ "RST_RX" \in a.data => ~ Booted'
    /\ Writes(a, "IER") => a.data = {}
    /\ Writes(a, "SIE") => a.data \subseteq {UartLine, GpioLine}
    /\ Writes(a, "MER") => "ME" \in a.data

Step(a) == Clock(a) /\ Does(a) /\ Control'

\* A cycle keeps what the software has seen.
LEMMA ClockTicks ==
    ASSUME Inv, NEW a, Clock(a)
    PROVE  Ticks(a)
<1>1. (a.op # "none" => last.op = "none") /\ last' = a /\ Uart(a) /\ IrqController(a)
  BY DEF Clock, BusFree
<1>2. PICK done \in BOOLEAN :
         /\ done => uart.busy
         /\ uart' = [ready |-> Receiver(a).ready, data |-> Receiver(a).data,
                     busy |-> Transmitter(done).busy, shift |-> Transmitter(done).shift,
                     complete |-> Transmitter(done).complete, intr |-> UartIntr]
  BY <1>1 DEF Uart
<1>3. uart'.ready = Receiver(a).ready /\ uart'.busy = Transmitter(done).busy
  BY <1>2
<1>4. uart.ready /\ ~ Reads(a, "RX") => uart'.ready
  BY <1>3 DEF Receiver, Inv, Arrives
<1>5. ~ uart.busy /\ ~ Asked => ~ uart'.busy
  BY <1>3 DEF Transmitter, Asked
<1>6. master' = IF Writes(a, "MER") THEN "ME" \in a.data ELSE master
  BY <1>1 DEF IrqController
<1> QED BY <1>1, <1>4, <1>5, <1>6 DEF Ticks

\* What the vector register may read.
LEMMA VectorLine ==
    ASSUME Inv
    PROVE  Vector \in {NoLine, UartLine, GpioLine}
BY DEF Inv, Registers, Vector

USE DEF At, Goto, Booted, BootSteps, Requests, Unmasks, Threads, AtLine, Sends, Receives, Asked,
        Reads, Writes, Read, Write, NoAccess, handler, streams, UartLine, GpioLine, NoLine

\* The firmware prints something, and all of it is in Output.
LEMMA BannerFits ==
    Len(Output) \in Nat /\ Banner \in Nat /\ 1 <= Banner /\ Banner <= Len(Output)
BY SerialAssumption

\* The processor is elsewhere.
LEMMA WaitStep ==
    ASSUME Inv, Wait
    PROVE  \E a : Step(a)
<1> DEFINE a == NoAccess
<1>1. Clock(a)
  BY DEF Wait
<1>2. Ticks(a)
  BY <1>1, ClockTicks
<1>3. Does(a)
  BY DEF Wait, Does, Inv, Control
<1>4. Control'
  BY <1>2 DEF Wait, Ticks, Inv, Control
<1> QED BY <1>1, <1>3, <1>4 DEF Step

\* The firmware resets the UART and begins its banner.
LEMMA SerialInitStep ==
    ASSUME Inv, SerialInit
    PROVE  \E a : Step(a)
<1> DEFINE a == Write("CONTROL", {"RST_RX", "RST_TX", "IE"})
<1>1. Clock(a)
  BY DEF SerialInit
<1>2. Ticks(a)
  BY <1>1, ClockTicks
<1>3. Does(a)
  BY BannerFits DEF SerialInit, Does, Inv, Control
<1>4. Control'
  BY BannerFits, <1>2 DEF SerialInit, Ticks, Inv, Control
<1> QED BY <1>1, <1>3, <1>4 DEF Step

\* The firmware polls for room.
LEMMA PutcharPollStep ==
    ASSUME Inv, PutcharPoll
    PROVE  \E a : Step(a)
<1> DEFINE a == Read("STATUS")
<1>1. Clock(a)
  BY DEF PutcharPoll
<1>2. Ticks(a)
  BY <1>1, ClockTicks
<1>3. Does(a)
  BY DEF PutcharPoll, Does, Inv, Control, TxFull
<1>4. Control'
  BY <1>2 DEF PutcharPoll, Ticks, Inv, Control, TxFull
<1> QED BY <1>1, <1>3, <1>4 DEF Step

\* The firmware writes a character.
LEMMA PutcharWriteStep ==
    ASSUME Inv, PutcharWrite
    PROVE  \E a : Step(a)
<1> DEFINE a == Write("TX", {Output[started + 1]})
<1>1. Clock(a)
  BY DEF PutcharWrite
<1>2. Ticks(a)
  BY <1>1, ClockTicks
<1>3. Does(a)
  BY BannerFits DEF PutcharWrite, Does, Inv, Control
<1>4. Control'
  BY BannerFits, <1>2 DEF PutcharWrite, Ticks, Inv, Control
<1> QED BY <1>1, <1>3, <1>4 DEF Step

\* The firmware asks whether there is a character, and asks again.
LEMMA HascharStep ==
    ASSUME Inv, Haschar
    PROVE  \E a : Step(a)
<1> DEFINE a == Read("STATUS")
<1>1. Clock(a)
  BY DEF Haschar
<1>2. Ticks(a)
  BY <1>1, ClockTicks
<1>3. Does(a)
  BY DEF Haschar, Does, Inv, Control, RxValid
<1>4. Control'
  BY <1>2 DEF Haschar, Ticks, Inv, Control, RxValid
<1> QED BY <1>1, <1>3, <1>4 DEF Step

\* The firmware reads a character.
LEMMA GetcharReadStep ==
    ASSUME Inv, GetcharRead
    PROVE  \E a : Step(a)
<1> DEFINE a == Read("RX")
<1>1. Clock(a)
  BY DEF GetcharRead
<1>2. Ticks(a)
  BY <1>1, ClockTicks
<1>3. Does(a)
  BY DEF GetcharRead, Does, Inv, Control
<1>4. Control'
  BY <1>2 DEF GetcharRead, Ticks, Inv, Control
<1> QED BY <1>1, <1>3, <1>4 DEF Step

\* The kernel prints through a console call.
LEMMA ConsolePutStep ==
    ASSUME Inv, ConsolePut
    PROVE  \E a : Step(a)
<1> DEFINE a == NoAccess
<1>1. Clock(a)
  BY DEF ConsolePut
<1>2. Ticks(a)
  BY <1>1, ClockTicks
<1>3. Does(a)
  BY BannerFits DEF ConsolePut, Does, Inv, Control
<1>4. Control'
  BY BannerFits, <1>2 DEF ConsolePut, Ticks, Inv, Control
<1> QED BY <1>1, <1>3, <1>4 DEF Step

\* The kernel polls through a console call.
LEMMA ConsoleGetStep ==
    ASSUME Inv, ConsoleGet
    PROVE  \E a : Step(a)
<1> DEFINE a == NoAccess
<1>1. Clock(a)
  BY DEF ConsoleGet
<1>2. Ticks(a)
  BY <1>1, ClockTicks
<1>3. Does(a)
  BY DEF ConsoleGet, Does, Inv, Control
<1>4. Control'
  BY <1>2 DEF ConsoleGet, Ticks, Inv, Control
<1> QED BY <1>1, <1>3, <1>4 DEF Step

\* The driver of the controller disables all lines,
LEMMA DisableAllStep ==
    ASSUME Inv, DisableAll
    PROVE  \E a : Step(a)
<1> DEFINE a == Write("IER", {})
<1>1. Clock(a)
  BY DEF DisableAll
<1>2. Ticks(a)
  BY <1>1, ClockTicks
<1>3. Does(a)
  BY DEF DisableAll, Does, Inv, Control
<1>4. Control'
  BY <1>2 DEF DisableAll, Ticks, Inv, Control
<1> QED BY <1>1, <1>3, <1>4 DEF Step

\* acknowledges them,
LEMMA AckAllStep ==
    ASSUME Inv, AckAll
    PROVE  \E a : Step(a)
<1> DEFINE a == Write("IAR", Lines)
<1>1. Clock(a)
  BY DEF AckAll
<1>2. Ticks(a)
  BY <1>1, ClockTicks
<1>3. Does(a)
  BY DEF AckAll, Does, Inv, Control
<1>4. Control'
  BY <1>2 DEF AckAll, Ticks, Inv, Control
<1> QED BY <1>1, <1>3, <1>4 DEF Step

\* enables the controller,
LEMMA MasterEnableStep ==
    ASSUME Inv, MasterEnable
    PROVE  \E a : Step(a)
<1> DEFINE a == Write("MER", MasterBits)
<1>1. Clock(a)
  BY DEF MasterEnable
<1>2. Ticks(a)
  BY <1>1, ClockTicks
<1>3. Does(a)
  BY DEF MasterEnable, Does, Inv, Control, MasterBits
<1>4. Control'
  BY <1>2 DEF MasterEnable, Ticks, Inv, Control, MasterBits
<1> QED BY <1>1, <1>3, <1>4 DEF Step

\* and reads back that it has.
LEMMA CheckMasterStep ==
    ASSUME Inv, CheckMaster
    PROVE  \E a : Step(a)
<1> DEFINE a == Read("MER")
<1>1. Clock(a)
  BY DEF CheckMaster
<1>2. Ticks(a)
  BY <1>1, ClockTicks
<1>3. Does(a)
  BY DEF CheckMaster, Does, Inv, Control
<1>4. Control'
  BY <1>2 DEF CheckMaster, Ticks, Inv, Control
<1> QED BY <1>1, <1>3, <1>4 DEF Step

\* A driver requests its line.
LEMMA RequestIrqStep ==
    ASSUME Inv, RequestIrq
    PROVE  \E a : Step(a)
<1> DEFINE a == NoAccess
<1>1. Clock(a)
  BY DEF RequestIrq
<1>2. Ticks(a)
  BY <1>1, ClockTicks
<1>3. Does(a)
  BY DEF RequestIrq, Does, Inv, Control, Unmask
<1>4. Control'
  BY <1>2 DEF RequestIrq, Ticks, Inv, Control, Unmask
<1> QED BY <1>1, <1>3, <1>4 DEF Step

\* The uartlite driver empties the UART,
LEMMA UartResetStep ==
    ASSUME Inv, UartReset
    PROVE  \E a : Step(a)
<1> DEFINE a == Write("CONTROL", {"RST_RX", "RST_TX"})
<1>1. Clock(a)
  BY DEF UartReset
<1>2. Ticks(a)
  BY <1>1, ClockTicks
<1>3. Does(a)
  BY DEF UartReset, Does, Inv, Control
<1>4. Control'
  BY <1>2 DEF UartReset, Ticks, Inv, Control
<1> QED BY <1>1, <1>3, <1>4 DEF Step

\* and enables its interrupt.
LEMMA UartEnableStep ==
    ASSUME Inv, UartEnable
    PROVE  \E a : Step(a)
<1> DEFINE a == Write("CONTROL", {"IE"})
<1>1. Clock(a)
  BY DEF UartEnable
<1>2. Ticks(a)
  BY <1>1, ClockTicks
<1>3. Does(a)
  BY DEF UartEnable, Does, Inv, Control
<1>4. Control'
  BY <1>2 DEF UartEnable, Ticks, Inv, Control
<1> QED BY <1>1, <1>3, <1>4 DEF Step

\* A character is put into the buffer of the driver.
LEMMA UartWriteStep ==
    ASSUME Inv, UartWrite
    PROVE  \E a : Step(a)
<1> DEFINE a == NoAccess
<1>1. Clock(a)
  BY DEF UartWrite
<1>2. Ticks(a)
  BY <1>1, ClockTicks
<1>3. Does(a)
  BY BannerFits DEF UartWrite, Does, Inv, Control
<1>4. Control'
  BY BannerFits, <1>2 DEF UartWrite, Ticks, Inv, Control
<1> QED BY <1>1, <1>3, <1>4 DEF Step

\* The driver looks for room,
LEMMA StartStatusStep ==
    ASSUME Inv, StartStatus
    PROVE  \E a : Step(a)
<1> DEFINE a == Read("STATUS")
<1>1. Clock(a)
  BY DEF StartStatus
<1>2. Ticks(a)
  BY <1>1, ClockTicks
<1>3. Does(a)
  BY DEF StartStatus, Does, Inv, Control, TxFull
<1>4. Control'
  BY <1>2 DEF StartStatus, Ticks, Inv, Control, TxFull
<1> QED BY <1>1, <1>3, <1>4 DEF Step

\* and starts the transmitter.
LEMMA StartTxStep ==
    ASSUME Inv, StartTx
    PROVE  \E a : Step(a)
<1> DEFINE a == Write("TX", {Output[started + 1]})
<1>1. Clock(a)
  BY DEF StartTx
<1>2. Ticks(a)
  BY <1>1, ClockTicks
<1>3. Does(a)
  BY BannerFits DEF StartTx, Does, Inv, Control
<1>4. Control'
  BY BannerFits, <1>2 DEF StartTx, Ticks, Inv, Control
<1> QED BY <1>1, <1>3, <1>4 DEF Step

\* The interrupt is taken.
LEMMA TakeInterruptStep ==
    ASSUME Inv, TakeInterrupt
    PROVE  \E a : Step(a)
<1> DEFINE a == NoAccess
<1>1. Clock(a)
  BY DEF TakeInterrupt
<1>2. Ticks(a)
  BY <1>1, ClockTicks
<1>3. Does(a)
  BY DEF TakeInterrupt, Does, Inv, Control, Interruptible
<1>4. Control'
  BY <1>2 DEF TakeInterrupt, Ticks, Inv, Control, Interruptible
<1> QED BY <1>1, <1>3, <1>4 DEF Step

\* The handler asks for the next line,
LEMMA NextIrqStep ==
    ASSUME Inv, NextIrq
    PROVE  \E a : Step(a)
<1> DEFINE a == Read("IVR")
<1>0. Vector \in {NoLine, UartLine, GpioLine}
  BY VectorLine
<1>1. Clock(a)
  BY DEF NextIrq
<1>2. Ticks(a)
  BY <1>1, ClockTicks
<1>3. Does(a)
  BY <1>0 DEF NextIrq, Does, Inv, Control, xintc_get_irq, LevelType
<1>4. Control'
  BY <1>0, <1>2 DEF NextIrq, Ticks, Inv, Control, xintc_get_irq, LevelType
<1> QED BY <1>1, <1>3, <1>4 DEF Step

\* masks it,
LEMMA IntcMaskStep ==
    ASSUME Inv, IntcMask
    PROVE  \E a : Step(a)
<1> DEFINE a == Write("CIE", {hwirq})
<1>1. Clock(a)
  BY DEF IntcMask
<1>2. Ticks(a)
  BY <1>1, ClockTicks
<1>3. Does(a)
  BY DEF IntcMask, Does, Inv, Control
<1>4. Control'
  BY <1>2 DEF IntcMask, Ticks, Inv, Control
<1> QED BY <1>1, <1>3, <1>4 DEF Step

\* acknowledges it,
LEMMA IntcAckStep ==
    ASSUME Inv, IntcAck
    PROVE  \E a : Step(a)
<1> DEFINE a == Write("IAR", AckedLine)
<1>1. Clock(a)
  BY DEF IntcAck
<1>2. Ticks(a)
  BY <1>1, ClockTicks
<1>3. Does(a)
  BY DEF IntcAck, Does, Inv, Control, Handler
<1>4. Control'
  BY <1>2 DEF IntcAck, Ticks, Inv, Control, Handler
<1> QED BY <1>1, <1>3, <1>4 DEF Step

\* and before it unmasks a level acknowledges it,
LEMMA IntcUnmaskAckStep ==
    ASSUME Inv, IntcUnmaskAck
    PROVE  \E a : Step(a)
<1> DEFINE a == Write("IAR", {hwirq})
<1>1. Clock(a)
  BY DEF IntcUnmaskAck
<1>2. Ticks(a)
  BY <1>1, ClockTicks
<1>3. Does(a)
  BY DEF IntcUnmaskAck, Does, Inv, Control
<1>4. Control'
  BY <1>2 DEF IntcUnmaskAck, Ticks, Inv, Control
<1> QED BY <1>1, <1>3, <1>4 DEF Step

\* and then unmasks it.
LEMMA IntcUnmaskStep ==
    ASSUME Inv, IntcUnmask
    PROVE  \E a : Step(a)
<1> DEFINE a == Enable(hwirq)
<1>1. Clock(a)
  BY DEF IntcUnmask
<1>2. Ticks(a)
  BY <1>1, ClockTicks
<1>3. Does(a)
  BY DEF IntcUnmask, Does, Inv, Control, Enable
<1>4. Control'
  BY <1>2 DEF IntcUnmask, Ticks, Inv, Control, Enable
<1> QED BY <1>1, <1>3, <1>4 DEF Step

\* The handler of the UART reads its status,
LEMMA UartStatusStep ==
    ASSUME Inv, UartStatus
    PROVE  \E a : Step(a)
<1> DEFINE a == Read("STATUS")
<1>1. Clock(a)
  BY DEF UartStatus
<1>2. Ticks(a)
  BY <1>1, ClockTicks
<1>3. Does(a)
  BY DEF UartStatus, Does, Inv, Control, TxFull, RxValid, Handled, Unmask
<1>4. Control'
  BY <1>2 DEF UartStatus, Ticks, Inv, Control, TxFull, RxValid, Handled, Unmask
<1> QED BY <1>1, <1>3, <1>4 DEF Step

\* reads a character,
LEMMA UartRxStep ==
    ASSUME Inv, UartRx
    PROVE  \E a : Step(a)
<1> DEFINE a == Read("RX")
<1>1. Clock(a)
  BY DEF UartRx
<1>2. Ticks(a)
  BY <1>1, ClockTicks
<1>3. Does(a)
  BY DEF UartRx, Does, Inv, Control
<1>4. Control'
  BY <1>2 DEF UartRx, Ticks, Inv, Control
<1> QED BY <1>1, <1>3, <1>4 DEF Step

\* writes one.
LEMMA UartTxStep ==
    ASSUME Inv, UartTx
    PROVE  \E a : Step(a)
<1> DEFINE a == Write("TX", {Output[started + 1]})
<1>1. Clock(a)
  BY DEF UartTx
<1>2. Ticks(a)
  BY <1>1, ClockTicks
<1>3. Does(a)
  BY BannerFits DEF UartTx, Does, Inv, Control
<1>4. started < written /\ started' = started + 1 /\ written' = written
  BY DEF UartTx, Inv, Control, Sends, streams
<1>5. started' \in Nat /\ started' <= written' /\ started <= started'
  BY <1>4 DEF Inv, Control
<1>6. /\ console' = console /\ thread' = thread /\ hwirq' = hwirq /\ room' = FALSE /\ isr' = "uart_status"
      /\ isr = "uart_tx" /\ master' = master
  BY <1>2 DEF UartTx, Ticks, Write, Writes
<1>7. started >= Banner => started' >= Banner
  BY BannerFits, <1>5 DEF Inv, Control
<1>8. thread \in {"idle", "uart_rst", "uart_ie", "gpio_request"} \cup Unmasks
  BY <1>6 DEF Inv, Control
<1>9. ~ Sends' /\ ~ Receives'
  BY <1>6, <1>8 DEF Sends, Receives, Unmasks
<1>10. Control'
  BY <1>4, <1>5, <1>6, <1>7, <1>8, <1>9 DEF Inv, Control, AtLine, Unmasks
<1> QED BY <1>1, <1>3, <1>10 DEF Step

\* The handler of the GPIO line clears its request.
LEMMA GpioClearStep ==
    ASSUME Inv, GpioClear
    PROVE  \E a : Step(a)
<1> DEFINE a == Write("GPIO_INT_CLR", {GpioLine})
<1>1. Clock(a)
  BY DEF GpioClear
<1>2. Ticks(a)
  BY <1>1, ClockTicks
<1>3. Does(a)
  BY DEF GpioClear, Does, Inv, Control, Handled, Unmask
<1>4. Control'
  BY <1>2 DEF GpioClear, Ticks, Inv, Control, Handled, Unmask
<1> QED BY <1>1, <1>3, <1>4 DEF Step

HIDE DEF At, Goto, Booted, BootSteps, Requests, Unmasks, Threads, AtLine, Sends, Receives, Asked,
         Reads, Writes, Read, Write, NoAccess, handler, streams, UartLine, GpioLine, NoLine

\* Every step is a cycle with an access of the software, or without one.
LEMMA StepOfNext ==
    ASSUME Inv, Next
    PROVE  \E a : Step(a)
<1>1. CASE Firmware
  BY <1>1, SerialInitStep, PutcharPollStep, PutcharWriteStep, HascharStep, GetcharReadStep DEF Firmware
<1>2. CASE IntcInit
  BY <1>2, DisableAllStep, AckAllStep, MasterEnableStep, CheckMasterStep DEF IntcInit
<1>3. CASE Intc
  BY <1>3, NextIrqStep, IntcMaskStep, IntcAckStep, IntcUnmaskAckStep, IntcUnmaskStep DEF Intc
<1>4. CASE Driver
  BY <1>4, RequestIrqStep, UartResetStep, UartEnableStep, StartStatusStep, StartTxStep,
     UartStatusStep, UartRxStep, UartTxStep, GpioClearStep DEF Driver
<1>5. CASE Wait \/ ConsolePut \/ ConsoleGet \/ UartWrite \/ TakeInterrupt
  BY <1>5, WaitStep, ConsolePutStep, ConsoleGetStep, UartWriteStep, TakeInterruptStep
<1> QED BY <1>1, <1>2, <1>3, <1>4, <1>5 DEF Next

-----------------------------------------------------------------------------
(* Sequences and their first elements.                                       *)

\* The first n elements of a sequence.
LEMMA PrefixIs ==
    ASSUME NEW S, NEW s \in Seq(S), NEW n \in 0 .. Len(s)
    PROVE  /\ Prefix(s, n) \in Seq(S) /\ Len(Prefix(s, n)) = n
           /\ \A i \in 1 .. n : Prefix(s, n)[i] = s[i]
BY DEF Prefix

\* Two sequences with the same elements are the same.
LEMMA SameElements ==
    ASSUME NEW S, NEW s \in Seq(S), NEW t \in Seq(S), Len(s) = Len(t),
           \A i \in 1 .. Len(s) : s[i] = t[i]
    PROVE  s = t
OBVIOUS

\* One element more.
LEMMA PrefixAppend ==
    ASSUME NEW S, NEW s \in Seq(S), NEW n \in 1 .. Len(s)
    PROVE  Prefix(s, n) = Append(Prefix(s, n - 1), s[n])
<1>1. n - 1 \in 0 .. Len(s) /\ n \in 0 .. Len(s)
  OBVIOUS
<1>2. /\ Prefix(s, n) \in Seq(S) /\ Len(Prefix(s, n)) = n
      /\ \A i \in 1 .. n : Prefix(s, n)[i] = s[i]
  BY <1>1, PrefixIs
<1>3. /\ Prefix(s, n - 1) \in Seq(S) /\ Len(Prefix(s, n - 1)) = n - 1
      /\ \A i \in 1 .. n - 1 : Prefix(s, n - 1)[i] = s[i]
  BY <1>1, PrefixIs
<1>4. s[n] \in S
  OBVIOUS
<1>5. Append(Prefix(s, n - 1), s[n]) \in Seq(S) /\ Len(Append(Prefix(s, n - 1), s[n])) = n
  BY <1>3, <1>4
<1>6. \A i \in 1 .. n : Prefix(s, n)[i] = Append(Prefix(s, n - 1), s[n])[i]
  BY <1>2, <1>3, <1>4
<1> QED BY <1>2, <1>5, <1>6, SameElements

\* No element.
LEMMA PrefixEmpty ==
    ASSUME NEW S, NEW s \in Seq(S)
    PROVE  Prefix(s, 0) = <<>>
BY DEF Prefix

\* The shorter of two prefixes is a prefix of the longer one.
LEMMA PrefixOfPrefix ==
    ASSUME NEW S, NEW s \in Seq(S), NEW n \in 0 .. Len(s), NEW m \in 0 .. n
    PROVE  SubSeq(Prefix(s, n), 1, m) = Prefix(s, m)
<1>1. m \in 0 .. Len(s)
  OBVIOUS
<1>2. /\ Prefix(s, n) \in Seq(S) /\ Len(Prefix(s, n)) = n
      /\ \A i \in 1 .. n : Prefix(s, n)[i] = s[i]
  BY PrefixIs
<1>3. /\ Prefix(s, m) \in Seq(S) /\ Len(Prefix(s, m)) = m
      /\ \A i \in 1 .. m : Prefix(s, m)[i] = s[i]
  BY <1>1, PrefixIs
<1> DEFINE t == Prefix(s, n)
<1>4. /\ Prefix(t, m) \in Seq(S) /\ Len(Prefix(t, m)) = m
      /\ \A i \in 1 .. m : Prefix(t, m)[i] = t[i]
  BY <1>2, PrefixIs
<1>5. \A i \in 1 .. m : Prefix(t, m)[i] = Prefix(s, m)[i]
  BY <1>2, <1>3, <1>4
<1>6. Prefix(t, m) = Prefix(s, m)
  BY <1>3, <1>4, <1>5, SameElements
<1> QED BY <1>6 DEF Prefix

\* The characters of the file, and the characters printed, are sequences.
LEMMA Texts == Input \in Seq(ToSet(Input)) /\ Output \in Seq(ToSet(Output))
BY SerialAssumption

-----------------------------------------------------------------------------
(* The frame.                                                                *)

\* Where the last cycles of a frame begin and end.
LEMMA FrameTail ==
    /\ StopSample(BitDiv) \in Nat /\ FrameEnd(BitDiv) \in Nat
    /\ TailBegin \in Nat /\ TailEnd \in Nat
    /\ 0 < TailBegin /\ TailBegin <= StopSample(BitDiv) /\ TailBegin < FrameEnd(BitDiv)
    /\ StopSample(BitDiv) <= TailEnd /\ FrameEnd(BitDiv) - 1 <= TailEnd
    /\ TailEnd \in {StopSample(BitDiv), FrameEnd(BitDiv) - 1}
<1>1. BitDiv \in Nat /\ BitDiv > 0
  BY SerialAssumption
<1>2. BitDiv \div 2 \in Nat
  BY <1>1
<1>3. StopSample(BitDiv) \in Nat /\ StopSample(BitDiv) > 0
  BY <1>1, <1>2 DEF StopSample
<1>4. FrameEnd(BitDiv) \in Nat /\ FrameEnd(BitDiv) > 1
  BY <1>1 DEF FrameEnd
<1> QED BY <1>3, <1>4 DEF TailBegin, TailEnd

\* A cycle of the sender, when there is no interrupted frame: a character is
\* fetched, or a frame goes on.
Fetches == /\ pos = Off /\ ~ tx_pending /\ ~ uart.ready /\ Booted /\ in_pos < Len(Input)
           /\ in_pos' = in_pos + 1 /\ tx_pending' = TRUE /\ pos' = Off
Goes    == /\ in_pos' = in_pos /\ tx_pending' = FALSE
           /\ \/ pos = Off /\ pos' = IF tx_pending THEN 0 ELSE Off
              \/ pos = 0 /\ pos' \in {0, TailBegin}
              \/ pos \in TailBegin .. TailEnd - 1 /\ pos' = pos + 1
              \/ pos = TailEnd /\ pos' = Off

\* The sender fetches no character as long as one is on its way.
LEMMA SenderMoves ==
    ASSUME Inv, NEW a, Clock(a)
    PROVE  Fetches \/ Goes
<1>1. Fetch /\ Frame
  BY DEF Clock, Sender
<1>2. /\ pos \in {Off, 0} \cup TailBegin .. TailEnd /\ tx_pending \in BOOLEAN
      /\ pos >= FrameEnd(BitDiv) => awaiting
      /\ tx_pending => pos = Off
  BY DEF Inv, Registers, Arrives
<1>3. pos \in Int /\ (pos = Off \/ pos >= 0)
  BY <1>2, FrameTail DEF Off
<1>4. MayFetch => pos = Off
  BY <1>2, <1>3, FrameTail DEF MayFetch, Sending
<1>5. CASE MayFetch /\ Booted /\ in_pos' = in_pos + 1 /\ tx_pending' = TRUE
  <2>1. pos = Off /\ ~ tx_pending /\ ~ uart.ready /\ in_pos < Len(Input)
    BY <1>4, <1>5 DEF MayFetch
  <2>2. pos' = Off
    <3>1. pos = Off /\ pos' = IF tx_pending THEN 0 ELSE Off
      <4>1. pos = Off
        BY <2>1
      <4>2. pos # 0 /\ ~ (pos \in TailBegin .. TailEnd - 1) /\ pos # TailEnd
        BY <4>1, FrameTail DEF Off
      <4>3. pos' = (IF tx_pending THEN 0 ELSE Off)
        BY <1>1, <4>1, <4>2, Zenon DEF Frame
      <4> QED BY <4>1, <4>3
    <3> QED BY <2>1, <3>1
  <2> QED BY <1>5, <2>1, <2>2 DEF Fetches
<1>6. CASE in_pos' = in_pos /\ tx_pending' = FALSE
  <2>1. \/ pos = Off /\ pos' = IF tx_pending THEN 0 ELSE Off
        \/ pos = 0 /\ pos' \in {0, TailBegin}
        \/ pos \in TailBegin .. TailEnd - 1 /\ pos' = pos + 1
        \/ pos = TailEnd /\ pos' = Off
    <3>1. pos \in {Off, 0, TailEnd} \cup TailBegin .. TailEnd - 1
      BY <1>2, FrameTail
    <3>2. CASE pos = Off
      BY <1>1, <3>2 DEF Frame
    <3>3. CASE pos = 0
      BY <1>1, <3>3, FrameTail DEF Frame, Off
    <3>4. CASE pos \in TailBegin .. TailEnd - 1
      BY <1>1, <3>4, FrameTail DEF Frame, Off
    <3>5. CASE pos = TailEnd
      BY <1>1, <3>5, FrameTail DEF Frame, Off
    <3> QED BY <3>1, <3>2, <3>3, <3>4, <3>5
  <2> QED BY <1>6, <2>1 DEF Goes
<1>7. \/ MayFetch /\ Booted /\ in_pos' = in_pos + 1 /\ tx_pending' = TRUE
      \/ in_pos' = in_pos /\ tx_pending' = FALSE
  <2>1. CASE MayFetch /\ Booted
    <3>1. ~ tx_pending
      BY <2>1 DEF MayFetch
    <3>2. tx_pending = FALSE
      BY <1>2, <3>1
    <3> QED BY <1>1, <2>1, <3>2 DEF Fetch
  <2>2. CASE ~ (MayFetch /\ Booted)
    BY <1>1, <1>2, <2>2 DEF Fetch
  <2> QED BY <2>1, <2>2
<1> QED BY <1>5, <1>6, <1>7

\* What the receive register does in a cycle.
LEMMA ReceiverMoves ==
    ASSUME Inv, NEW a, Clock(a)
    PROVE  IF pos = StopSample(BitDiv)
           THEN uart'.ready = TRUE /\ uart'.data = Input[in_pos]
           ELSE uart'.ready = (uart.ready /\ ~ Reads(a, "RX")) /\ uart'.data = uart.data
<1>1. uart'.ready = Receiver(a).ready /\ uart'.data = Receiver(a).data
  BY DEF Clock, Uart
<1>2. ~ uart.ready \/ ~ (Writes(last, "CONTROL") /\ "RST_RX" \in last.data)
  BY DEF Inv, Arrives
<1> QED BY <1>1, <1>2, Zenon DEF Receiver, Inv, Registers



\* A cycle takes at most one character from the file, and delivers at most one.
LEMMA Flies ==
    ASSUME Inv, NEW a, Clock(a), Does(a)
    PROVE  /\ tx_pending' => pos' = Off
           /\ pos' >= FrameEnd(BitDiv) => awaiting'
           /\ InFlight' => in_pos' > 0 /\ ~ uart'.ready
           /\ uart'.ready => in_pos' > 0 /\ uart'.data = Input[in_pos']
           /\ \/ /\ in_pos' = in_pos + 1 /\ in_pos < Len(Input) /\ ~ Reads(a, "RX") /\ Booted
                 /\ ~ InFlight /\ ~ uart.ready /\ InFlight'
              \/ /\ in_pos' = in_pos /\ Reads(a, "RX") /\ ~ InFlight /\ uart.ready
                 /\ ~ InFlight' /\ ~ uart'.ready
              \/ /\ in_pos' = in_pos /\ ~ Reads(a, "RX")
                 /\ (InFlight \/ uart.ready) <=> (InFlight' \/ uart'.ready)
<1> DEFINE SS == StopSample(BitDiv)
           FE == FrameEnd(BitDiv)
<1>1. Fetches \/ Goes
  BY SenderMoves
<1>2. IF pos = SS
      THEN uart'.ready = TRUE /\ uart'.data = Input[in_pos]
      ELSE uart'.ready = (uart.ready /\ ~ Reads(a, "RX")) /\ uart'.data = uart.data
  BY ReceiverMoves
<1>3. /\ tx_pending => pos = Off
      /\ pos >= FE => awaiting
      /\ tx_pending \/ pos \in 0 .. SS => in_pos > 0 /\ ~ uart.ready
      /\ uart.ready => in_pos > 0 /\ uart.data = Input[in_pos]
      /\ in_pos \in 0 .. Len(Input) /\ pos \in {Off, 0} \cup TailBegin .. TailEnd
      /\ tx_pending \in BOOLEAN /\ awaiting \in BOOLEAN /\ uart.ready \in BOOLEAN
  BY DEF Inv, Arrives, InFlight, Registers
<1>4. Reads(a, "RX") => uart.ready
  BY DEF Does
<1>5. awaiting' <=> pos = FE - 1 \/ (awaiting /\ ~ uart.ready)
  BY DEF Clock, Sender
<1>6. SS \in Nat /\ FE \in Nat /\ TailBegin \in Nat /\ TailEnd \in Nat
  BY FrameTail
<1>7. /\ 0 < TailBegin /\ TailBegin <= SS /\ TailBegin < FE /\ SS <= TailEnd /\ FE - 1 <= TailEnd
      /\ TailEnd = SS \/ TailEnd = FE - 1
  BY FrameTail
<1> HIDE DEF SS, FE
<1>8. CASE Fetches
  <2>1. /\ in_pos' = in_pos + 1 /\ in_pos < Len(Input) /\ tx_pending' /\ pos' = Off /\ pos = Off
        /\ ~ uart.ready /\ ~ tx_pending /\ Booted
    BY <1>8 DEF Fetches
  <2>2. ~ (pos = SS) /\ ~ (pos \in 0 .. SS) /\ ~ (pos' >= FE)
    BY <2>1, <1>6, <1>7 DEF Off
  <2>3. ~ uart'.ready /\ ~ Reads(a, "RX")
    BY <2>1, <2>2, <1>2, <1>4
  <2>4. in_pos' > 0
    BY <2>1, <1>3
  <2>5. ~ InFlight /\ InFlight'
    BY <2>1, <2>2 DEF InFlight, SS
  <2> QED BY <2>1, <2>2, <2>3, <2>4, <2>5 DEF FE
<1>9. CASE Goes
  <2>1. in_pos' = in_pos /\ ~ tx_pending'
    BY <1>9 DEF Goes
  <2>2. pos' >= FE => awaiting'
    <3>1. pos' >= FE => pos = FE - 1 \/ (pos >= FE /\ pos \in 0 .. SS - 1)
      BY <1>3, <1>6, <1>7, <1>9 DEF Goes, Off
    <3>2. pos \in 0 .. SS - 1 => pos \in 0 .. SS
      BY <1>6
    <3> QED BY <3>1, <3>2, <1>3, <1>5
  <2>3. pos' \in 0 .. SS <=> (tx_pending \/ pos \in 0 .. SS - 1)
    BY <1>3, <1>6, <1>7, <1>9 DEF Goes, Off
  <2>4. InFlight <=> (tx_pending \/ pos \in 0 .. SS - 1 \/ pos = SS)
    BY <1>3, <1>6 DEF InFlight, SS
  <2>5. InFlight' <=> (tx_pending \/ pos \in 0 .. SS - 1)
    BY <2>1, <2>3 DEF InFlight, SS
  <2>6. uart'.ready <=> pos = SS \/ (uart.ready /\ ~ Reads(a, "RX"))
    BY <1>2, <1>3
  <2>7. InFlight => in_pos > 0 /\ ~ uart.ready
    BY DEF Inv, Arrives
  <2>8. pos = SS => ~ tx_pending /\ ~ (pos \in 0 .. SS - 1)
    BY <1>3, <1>6 DEF Off
  <2>9. InFlight' => in_pos' > 0 /\ ~ uart'.ready
    BY <2>1, <2>4, <2>5, <2>6, <2>7, <2>8
  <2>10. uart'.ready => in_pos' > 0 /\ uart'.data = Input[in_pos']
    BY <2>1, <2>4, <2>6, <2>7, <1>2, <1>3
  <2>11. CASE Reads(a, "RX")
    BY <2>1, <2>2, <2>4, <2>5, <2>6, <2>7, <2>9, <2>10, <2>11, <1>4 DEF FE
  <2>12. CASE ~ Reads(a, "RX")
    BY <2>1, <2>2, <2>4, <2>5, <2>6, <2>7, <2>9, <2>10, <2>12 DEF FE
  <2> QED BY <2>11, <2>12
<1> QED BY <1>1, <1>8, <1>9

\* A step of the software keeps the count of the characters of the file.
LEMMA ArrivesKept ==
    ASSUME Inv, NEW a, Step(a)
    PROVE  /\ Arrives' /\ in_pos' \in 0 .. Len(Input) /\ in_pos <= in_pos'
           /\ \/ received' = received
              \/ Len(received) < in_pos /\ received' = Append(received, Input[Len(received) + 1])
<1>1. Clock(a) /\ Does(a) /\ last' = a
  BY DEF Step, Clock
<1>2. /\ tx_pending' => pos' = Off
      /\ pos' >= FrameEnd(BitDiv) => awaiting'
      /\ InFlight' => in_pos' > 0 /\ ~ uart'.ready
      /\ uart'.ready => in_pos' > 0 /\ uart'.data = Input[in_pos']
  BY <1>1, Flies
<1>3. \/ /\ in_pos' = in_pos + 1 /\ in_pos < Len(Input) /\ ~ Reads(a, "RX") /\ Booted
         /\ ~ InFlight /\ ~ uart.ready /\ InFlight'
      \/ /\ in_pos' = in_pos /\ Reads(a, "RX") /\ ~ InFlight /\ uart.ready
         /\ ~ InFlight' /\ ~ uart'.ready
      \/ /\ in_pos' = in_pos /\ ~ Reads(a, "RX")
         /\ (InFlight \/ uart.ready) <=> (InFlight' \/ uart'.ready)
  BY <1>1, Flies
<1>4. in_pos \in 0 .. Len(Input)
  BY DEF Inv, Registers
<1>5. received = Prefix(Input, IF InFlight \/ uart.ready THEN in_pos - 1 ELSE in_pos)
  BY DEF Inv, Arrives
<1>6. uart.ready => in_pos > 0 /\ uart.data = Input[in_pos]
  BY DEF Inv, Arrives
<1>7. Input \in Seq(ToSet(Input))
  BY Texts
<1>8. in_pos' \in 0 .. Len(Input) /\ in_pos <= in_pos'
  BY <1>3, <1>4, <1>7
<1>9. received' = Prefix(Input, IF InFlight' \/ uart'.ready THEN in_pos' - 1 ELSE in_pos')
  <2>1. CASE ~ Reads(a, "RX")
    <3>1. received' = received
      BY <1>1, <2>1 DEF Does
    <3> QED BY <3>1, <1>3, <1>4, <1>5, <2>1
  <2>2. CASE Reads(a, "RX")
    <3>1. received' = Append(received, uart.data)
      BY <1>1, <2>2 DEF Does
    <3>2. received = Prefix(Input, in_pos - 1) /\ uart.data = Input[in_pos] /\ in_pos \in 1 .. Len(Input)
      BY <1>3, <1>4, <1>5, <1>6, <2>2
    <3>3. Prefix(Input, in_pos) = Append(Prefix(Input, in_pos - 1), Input[in_pos])
      BY <1>7, <3>2, PrefixAppend
    <3> QED BY <3>1, <3>2, <3>3, <1>3, <2>2
  <2> QED BY <2>1, <2>2
<1>10. \/ received' = received
       \/ Len(received) < in_pos /\ received' = Append(received, Input[Len(received) + 1])
  <2>1. CASE Reads(a, "RX")
    <3>1. received' = Append(received, uart.data)
      BY <1>1, <2>1 DEF Does
    <3>2. received = Prefix(Input, in_pos - 1) /\ uart.data = Input[in_pos] /\ in_pos \in 1 .. Len(Input)
      BY <1>3, <1>4, <1>5, <1>6, <2>1
    <3>3. in_pos - 1 \in 0 .. Len(Input)
      BY <3>2
    <3>4. Len(received) = in_pos - 1
      BY <1>7, <3>2, <3>3, PrefixIs
    <3> QED BY <3>1, <3>2, <3>4
  <2>2. CASE ~ Reads(a, "RX")
    BY <1>1, <2>2 DEF Does
  <2> QED BY <2>1, <2>2
<1>11. Writes(a, "CONTROL") /\ "RST_RX" \in a.data => ~ Booted'
  BY <1>1 DEF Does
<1>12. ~ Booted' => in_pos' = 0 /\ ~ tx_pending' /\ pos' = Off /\ ~ uart'.ready
  <2> SUFFICES ASSUME ~ Booted' PROVE in_pos' = 0 /\ ~ tx_pending' /\ pos' = Off /\ ~ uart'.ready
    OBVIOUS
  <2>1. ~ Booted
    BY <1>1 DEF Does
  <2>2. in_pos = 0 /\ ~ tx_pending /\ pos = Off /\ ~ uart.ready
    BY <2>1 DEF Inv, Arrives
  <2>3. Goes
    BY <1>1, <2>1, SenderMoves DEF Fetches
  <2>4. in_pos' = 0 /\ ~ tx_pending' /\ pos' = Off
    BY <2>2, <2>3, FrameTail DEF Goes, Off
  <2> QED BY <2>4, <1>2
<1>13. Arrives'
  BY <1>1, <1>2, <1>9, <1>11, <1>12 DEF Arrives, Writes
<1> QED BY <1>8, <1>10, <1>13

\* What the transmitter does in a cycle.
LEMMA TransmitterMoves ==
    ASSUME NEW a, Clock(a)
    PROVE  \E done \in BOOLEAN :
             /\ done => uart.busy
             /\ uart'.busy = (IF uart.busy THEN ~ done ELSE IF Asked THEN TRUE ELSE FALSE)
             /\ uart'.shift = IF ~ uart.busy /\ Asked THEN CHOOSE b \in last.data : TRUE ELSE uart.shift
             /\ line' = IF done THEN Append(line, uart.shift) ELSE line
<1>1. PICK done \in BOOLEAN :
         /\ done => uart.busy
         /\ uart' = [ready |-> Receiver(a).ready, data |-> Receiver(a).data,
                     busy |-> Transmitter(done).busy, shift |-> Transmitter(done).shift,
                     complete |-> Transmitter(done).complete, intr |-> UartIntr]
         /\ line' = IF done THEN Append(line, uart.shift) ELSE line
  BY DEF Clock, Uart
<1>2. uart'.busy = Transmitter(done).busy /\ uart'.shift = Transmitter(done).shift
  BY <1>1
<1>3. uart'.busy = (IF uart.busy THEN ~ done ELSE IF Asked THEN TRUE ELSE FALSE)
  <2>1. CASE uart.busy
    BY <1>2, <2>1 DEF Transmitter
  <2>2. CASE ~ uart.busy /\ Asked
    BY <1>2, <2>2, Zenon DEF Transmitter, Asked
  <2>3. CASE ~ uart.busy /\ ~ Asked
    BY <1>2, <2>3, Zenon DEF Transmitter, Asked
  <2> QED BY <2>1, <2>2, <2>3
<1>4. uart'.shift = IF ~ uart.busy /\ Asked THEN CHOOSE b \in last.data : TRUE ELSE uart.shift
  <2>1. CASE uart.busy
    BY <1>2, <2>1 DEF Transmitter
  <2>2. CASE ~ uart.busy /\ Asked
    BY <1>2, <2>2 DEF Transmitter, Asked
  <2>3. CASE ~ uart.busy /\ ~ Asked
    BY <1>2, <2>3 DEF Transmitter, Asked
  <2> QED BY <2>1, <2>2, <2>3
<1> QED BY <1>1, <1>3, <1>4

\* A step of the software keeps the characters that have left those that were
\* printed, one or none being on its way.
LEMMA LeavesKept ==
    ASSUME Inv, NEW a, Step(a)
    PROVE  /\ Leaves'
           /\ \/ line' = line
              \/ Len(line) < started /\ line' = Append(line, Output[Len(line) + 1])
           /\ uart'.shift \in ToSet(Output) \cup {0} /\ uart'.busy \in BOOLEAN
<1>1. Clock(a) /\ Does(a) /\ last' = a /\ (a.op # "none" => last.op = "none")
  BY DEF Step, Clock, BusFree
<1>2. PICK done \in BOOLEAN :
         /\ done => uart.busy
         /\ uart'.busy = (IF uart.busy THEN ~ done ELSE IF Asked THEN TRUE ELSE FALSE)
         /\ uart'.shift = IF ~ uart.busy /\ Asked THEN CHOOSE b \in last.data : TRUE ELSE uart.shift
         /\ line' = IF done THEN Append(line, uart.shift) ELSE line
  BY <1>1, TransmitterMoves
<1>3. /\ uart.busy \/ Asked => started > 0
      /\ uart.busy => uart.shift = Output[started] /\ ~ Asked
      /\ Asked => last.data = {Output[started]}
      /\ line = Prefix(Output, IF uart.busy \/ Asked THEN started - 1 ELSE started)
  BY DEF Inv, Leaves
<1>4. /\ started \in Nat /\ started <= Len(Output) /\ uart.busy \in BOOLEAN
      /\ uart.shift \in ToSet(Output) \cup {0} /\ Output \in Seq(ToSet(Output))
  BY Texts DEF Inv, Control, Registers
<1>5. Sends => ~ uart.busy /\ ~ Asked /\ started < written /\ written <= Len(Output)
  BY DEF Inv, Control
<1>6. Asked' <=> Writes(a, "TX")
  BY <1>1 DEF Asked, Writes
<1>7. IF Writes(a, "TX") THEN Sends /\ a.data = {Output[started + 1]} /\ started' = started + 1
      ELSE started' = started
  BY <1>1 DEF Does
<1>8. ~ Asked \/ ~ Writes(a, "TX")
  BY <1>1 DEF Asked, Writes
<1>9. CASE uart.busy
  <2>1. ~ Asked /\ ~ Writes(a, "TX") /\ started' = started /\ started \in 1 .. Len(Output)
    BY <1>3, <1>4, <1>5, <1>7, <1>9
  <2>2. line = Prefix(Output, started - 1) /\ uart.shift = Output[started] /\ uart'.shift = uart.shift
    BY <1>2, <1>3, <1>9
  <2>3. CASE done
    <3>1. uart'.busy = FALSE /\ line' = Append(line, uart.shift)
      BY <1>2, <1>9, <2>3
    <3>2. line' = Prefix(Output, started')
      BY <1>4, <2>1, <2>2, <3>1, PrefixAppend
    <3>3. Leaves'
      BY <1>6, <2>1, <3>1, <3>2 DEF Leaves
    <3>4. started - 1 \in 0 .. Len(Output)
      BY <2>1
    <3>5. Len(line) = started - 1
      BY <1>4, <2>2, <3>4, PrefixIs
    <3>6. Len(line) < started /\ line' = Append(line, Output[Len(line) + 1])
      BY <2>1, <2>2, <3>1, <3>5
    <3> QED BY <1>4, <2>2, <3>1, <3>3, <3>6
  <2>4. CASE ~ done
    <3>1. uart'.busy = TRUE /\ line' = line
      BY <1>2, <1>9, <2>4
    <3>2. Leaves'
      BY <1>3, <1>6, <1>9, <2>1, <2>2, <3>1 DEF Leaves
    <3> QED BY <1>4, <2>2, <3>1, <3>2
  <2> QED BY <2>3, <2>4
<1>10. CASE ~ uart.busy /\ Asked
  <2>1. ~ Writes(a, "TX") /\ started' = started /\ started \in 1 .. Len(Output)
    BY <1>3, <1>4, <1>7, <1>8, <1>10
  <2>2. uart'.busy = TRUE /\ line' = line /\ uart'.shift = CHOOSE b \in last.data : TRUE
    BY <1>2, <1>10
  <2>3. uart'.shift = Output[started]
    BY <1>3, <1>10, <2>2
  <2>4. Leaves'
    BY <1>3, <1>6, <1>10, <2>1, <2>2, <2>3 DEF Leaves
  <2>5. Output[started] \in ToSet(Output)
    BY <1>4, <2>1
  <2> QED BY <2>2, <2>3, <2>4, <2>5
<1>11. CASE ~ uart.busy /\ ~ Asked
  <2>1. uart'.busy = FALSE /\ line' = line /\ uart'.shift = uart.shift
    BY <1>2, <1>11 DEF Asked
  <2>2. line = Prefix(Output, started)
    BY <1>3, <1>11
  <2>3. CASE Writes(a, "TX")
    <3>1. started' = started + 1 /\ a.data = {Output[started']}
      BY <1>7, <2>3
    <3>2. Leaves'
      BY <1>1, <1>4, <1>6, <2>1, <2>2, <2>3, <3>1 DEF Leaves
    <3> QED BY <1>4, <2>1, <3>2
  <2>4. CASE ~ Writes(a, "TX")
    <3>1. Leaves'
      BY <1>6, <1>7, <2>1, <2>2, <2>4 DEF Leaves
    <3> QED BY <1>4, <2>1, <3>1
  <2> QED BY <2>3, <2>4
<1> QED BY <1>9, <1>10, <1>11

\* A step of the software writes what the strobes may hold.
LEMMA StrobesKept ==
    ASSUME Inv, NEW a, Step(a)
    PROVE  Strobes'
<1>1. last' = a /\ Does(a)
  BY DEF Step, Clock
<1> QED BY <1>1 DEF Does, Strobes, Writes

\* Every register keeps its type.
LEMMA RegistersKept ==
    ASSUME Inv, NEW a, Step(a)
    PROVE  Registers'
<1>1. Clock(a) /\ Does(a)
  BY DEF Step
<1>2. uart'.shift \in ToSet(Output) \cup {0} /\ uart'.busy \in BOOLEAN
  BY LeavesKept
<1>3. in_pos' \in 0 .. Len(Input)
  BY ArrivesKept
<1>4. uart'.data \in ToSet(Input) \cup {0} /\ uart'.ready \in BOOLEAN
  <2>1. IF pos = StopSample(BitDiv)
        THEN uart'.ready = TRUE /\ uart'.data = Input[in_pos]
        ELSE uart'.ready = (uart.ready /\ ~ Reads(a, "RX")) /\ uart'.data = uart.data
    BY <1>1, ReceiverMoves
  <2>2. CASE pos = StopSample(BitDiv)
    <3>1. in_pos \in 1 .. Len(Input)
      BY <2>2, FrameTail DEF Inv, Registers, Arrives, InFlight
    <3>2. Input[in_pos] \in ToSet(Input)
      BY <3>1, Texts
    <3> QED BY <2>1, <2>2, <3>2
  <2>3. CASE pos # StopSample(BitDiv)
    BY <2>1, <2>3 DEF Inv, Registers
  <2> QED BY <2>2, <2>3
<1>5. uart'.complete \in BOOLEAN /\ uart'.intr \in BOOLEAN
  <2>1. PICK done \in BOOLEAN :
          uart' = [ready |-> Receiver(a).ready, data |-> Receiver(a).data,
                   busy |-> Transmitter(done).busy, shift |-> Transmitter(done).shift,
                   complete |-> Transmitter(done).complete, intr |-> UartIntr]
    BY <1>1 DEF Clock, Uart
  <2>2. uart'.complete = Transmitter(done).complete /\ uart'.intr = UartIntr
    BY <2>1
  <2>3. Transmitter(done).complete \in BOOLEAN
    BY DEF Transmitter
  <2> QED BY <2>2, <2>3 DEF UartIntr
<1>6. /\ pending' = IrqPending /\ enable' = IrqEnable
      /\ master' = IF Writes(a, "MER") THEN "ME" \in a.data ELSE master
      /\ intr' = (master /\ pending \cap enable # {})
  BY <1>1 DEF Clock, IrqController
<1>7. pending' \subseteq {UartLine, GpioLine}
  BY <1>6 DEF IrqPending, InputLines, Inv, Registers
<1>8. enable' \subseteq {UartLine, GpioLine}
  <2>1. /\ enable \subseteq {UartLine, GpioLine}
        /\ Writes(last, "IER") => last.data = {}
        /\ Writes(last, "SIE") => last.data \subseteq {UartLine, GpioLine}
    BY DEF Inv, Registers, Strobes
  <2>2. CASE Writes(last, "IER")
    BY <1>6, <2>1, <2>2 DEF IrqEnable, Writes
  <2>3. CASE Writes(last, "SIE")
    BY <1>6, <2>1, <2>3 DEF IrqEnable, Writes
  <2>4. CASE Writes(last, "CIE")
    BY <1>6, <2>1, <2>4 DEF IrqEnable, Writes
  <2>5. CASE ~ Writes(last, "IER") /\ ~ Writes(last, "SIE") /\ ~ Writes(last, "CIE")
    BY <1>6, <2>1, <2>5 DEF IrqEnable
  <2> QED BY <2>2, <2>3, <2>4, <2>5
<1>9. master' \in BOOLEAN /\ intr' \in BOOLEAN
  <2>1. master' \in BOOLEAN
    <3>1. CASE Writes(a, "MER")
      BY <1>6, <3>1
    <3>2. CASE ~ Writes(a, "MER")
      BY <1>6, <3>2 DEF Inv, Registers
    <3> QED BY <3>1, <3>2
  <2>2. (master /\ pending \cap enable # {}) \in BOOLEAN
    OBVIOUS
  <2> QED BY <1>6, <2>1, <2>2, Zenon
<1>10. gpio'.raw \in BOOLEAN /\ gpio'.intr \in BOOLEAN
  BY <1>1 DEF Clock, Gpio, Inv, Registers
<1>11. pos' \in {Off, 0} \cup TailBegin .. TailEnd /\ tx_pending' \in BOOLEAN
  <2>1. Fetches \/ Goes
    BY <1>1, SenderMoves
  <2>2. CASE Fetches
    BY <2>2 DEF Fetches
  <2>3. CASE Goes
    <3>1. TailBegin <= TailEnd /\ TailBegin \in Nat /\ TailEnd \in Nat
      BY FrameTail
    <3>2. pos' \in {Off, 0, TailBegin} \/ (pos \in TailBegin .. TailEnd - 1 /\ pos' = pos + 1)
      BY <2>3 DEF Goes
    <3>3. pos' \in {Off, 0} \cup TailBegin .. TailEnd
      BY <3>1, <3>2
    <3> QED BY <2>3, <3>3 DEF Goes
  <2> QED BY <2>1, <2>2, <2>3
<1>12. awaiting' \in BOOLEAN
  BY <1>1 DEF Clock, Sender
<1> QED BY <1>2, <1>3, <1>4, <1>5, <1>7, <1>8, <1>9, <1>10, <1>11, <1>12 DEF Registers

-----------------------------------------------------------------------------
(* The theorems.                                                             *)

\* The first state.
LEMMA InvInit ==
    ASSUME Init
    PROVE  Inv
<1>1. Control
  <2>1. thread = "serial_init" /\ isr = "off" /\ hwirq = NoLine /\ room = FALSE /\ started = 0 /\ written = 0
    BY DEF Init
  <2>2. ~ Sends /\ ~ Receives
    BY <2>1 DEF Sends, Receives
  <2>3. thread \in Threads /\ isr \notin AtLine
    BY <2>1 DEF Threads, BootSteps, AtLine
  <2>4. console \in {"hvc0", "ttyUL0"}
    BY DEF Init
  <2>5. /\ started \in Nat /\ written \in Nat /\ started <= written /\ written <= Len(Output)
        /\ thread \notin {"serial_init", "poll_tx", "put"} => started >= Banner
    BY <2>1, BannerFits
  <2>6. /\ hwirq \in {NoLine, UartLine, GpioLine} /\ room \in BOOLEAN /\ isr \in {"off", "ivr"}
        /\ thread # "intc_check" /\ thread # "poll_tx"
    BY <2>1
  <2> QED BY <2>1, <2>2, <2>3, <2>4, <2>5, <2>6 DEF Control
<1>2. ~ Booted
  BY BannerFits DEF Init, Booted, BootSteps
<1>3. Arrives
  <2>1. ~ InFlight /\ ~ (pos >= FrameEnd(BitDiv))
    BY FrameTail DEF Init, InFlight, Off
  <2>2. received = Prefix(Input, 0)
    BY Texts, PrefixEmpty DEF Init
  <2> QED BY <1>2, <2>1, <2>2 DEF Init, Arrives
<1>4. Leaves
  <2>1. line = Prefix(Output, 0)
    BY Texts, PrefixEmpty DEF Init
  <2> QED BY <2>1 DEF Init, Leaves, Asked, Writes, NoAccess
<1>5. Strobes
  BY DEF Init, Strobes, NoAccess, Writes
<1>6. Registers
  <2>1. 0 \in 0 .. Len(Input)
    BY Texts
  <2> QED BY <2>1 DEF Init, Registers
<1> QED BY <1>1, <1>3, <1>4, <1>5, <1>6 DEF Inv

\* A step that changes nothing.
LEMMA InvStutters ==
    ASSUME Inv, UNCHANGED vars
    PROVE  Inv'
<1>1. /\ last' = last /\ uart' = uart /\ enable' = enable /\ pending' = pending /\ master' = master
      /\ intr' = intr /\ gpio' = gpio /\ in_pos' = in_pos /\ tx_pending' = tx_pending /\ pos' = pos
      /\ awaiting' = awaiting /\ console' = console /\ thread' = thread /\ isr' = isr
      /\ hwirq' = hwirq /\ room' = room /\ written' = written /\ started' = started
      /\ received' = received /\ line' = line
  BY DEF vars, hardware, sender, handler, streams
<1>2. Control'
  BY <1>1 DEF Inv, Control, Sends, Receives, Asked
<1>3. Arrives'
  BY <1>1 DEF Inv, Arrives, Booted, InFlight
<1>4. Leaves'
  BY <1>1 DEF Inv, Leaves, Asked
<1>5. Strobes'
  BY <1>1 DEF Inv, Strobes
<1>6. Registers'
  BY <1>1 DEF Inv, Registers
<1> QED BY <1>2, <1>3, <1>4, <1>5, <1>6 DEF Inv

\* The invariant is inductive.
LEMMA InvKept ==
    ASSUME Inv, [Next]_vars
    PROVE  Inv'
<1>1. CASE Next
  <2>1. PICK a : Step(a)
    BY <1>1, StepOfNext
  <2>2. Control'
    BY <2>1 DEF Step
  <2>3. Arrives' /\ Leaves' /\ Strobes' /\ Registers'
    BY <2>1, ArrivesKept, LeavesKept, StrobesKept, RegistersKept
  <2> QED BY <2>2, <2>3 DEF Inv
<1>2. CASE UNCHANGED vars
  BY <1>2, InvStutters
<1> QED BY <1>1, <1>2

\* The invariant holds in every state.
LEMMA InvAlways == Spec => []Inv
<1>1. Init => Inv
  BY InvInit
<1>2. Inv /\ [Next]_vars => Inv'
  BY InvKept
<1> QED BY <1>1, <1>2, PTL DEF Spec

\* The registers, the counters and the program counters stay in their ranges
\* whatever is typed and printed, for every bit rate and every choice of
\* triggers: the driver reads the master enable back as it has written it.
THEOREM TypeCorrect == Spec => []TypeOK
<1>1. Inv => TypeOK
  <2> SUFFICES ASSUME Inv PROVE TypeOK
    OBVIOUS
  <2>1. Control /\ Strobes /\ Registers
    BY DEF Inv
  <2>2. /\ thread \in Threads /\ isr \in {"off", "ivr"} \cup AtLine
        /\ hwirq \in {NoLine, UartLine, GpioLine} /\ room \in BOOLEAN
        /\ 0 <= started /\ started <= written /\ written <= Len(Output)
    BY <2>1 DEF Control
  <2>3. isr \in {"off", "ivr", "mask", "mask_ack", "ack", "unmask_ack", "unmask",
                 "uart_status", "uart_rx", "uart_tx", "gpio_clr"}
    BY <2>2 DEF AtLine
  <2> QED BY <2>1, <2>2, <2>3 DEF TypeOK, Threads, Strobes, Registers
<1> QED BY <1>1, InvAlways, PTL

\* The characters that are typed come out at the program that reads the
\* console, each once and in order, polled or from interrupts: every step of
\* the machine is a step of the byte stream, or leaves it alone.
THEOREM CharactersTyped == Spec => Typed!Order
<1>1. Init => Typed!Init
  BY Texts, PrefixEmpty DEF Init, Typed!Init
<1>2. ASSUME Inv, [Next]_vars PROVE [Typed!Next]_(Typed!stream)
  <2>1. CASE Next
    <3>1. PICK a : Step(a)
      BY <1>2, <2>1, StepOfNext
    <3>2. in_pos \in 0 .. Len(Input) /\ Input \in Seq(ToSet(Input))
      BY <1>2, Texts DEF Inv, Registers
    <3>3. in_pos' \in 0 .. Len(Input) /\ in_pos <= in_pos'
      BY <1>2, <3>1, ArrivesKept
    <3>4. /\ Prefix(Input, in_pos) \in Seq(ToSet(Input)) /\ Len(Prefix(Input, in_pos)) = in_pos
          /\ \A i \in 1 .. in_pos : Prefix(Input, in_pos)[i] = Input[i]
      BY <3>2, PrefixIs
    <3>5. PICK n \in 0 .. Len(Input) : n = in_pos' /\ in_pos <= n
      BY <3>3
    <3>6. /\ Prefix(Input, n) \in Seq(ToSet(Input)) /\ Len(Prefix(Input, n)) = n
          /\ \A i \in 1 .. n : Prefix(Input, n)[i] = Input[i]
      BY <3>2, PrefixIs
    <3>7. in_pos \in 0 .. n
      BY <3>2, <3>5
    <3>8. SubSeq(Prefix(Input, n), 1, in_pos) = Prefix(Input, in_pos)
      BY <3>2, <3>7, PrefixOfPrefix
    <3>9. \A i \in 1 .. n : Prefix(Input, n)[i] \in ToSet(Input)
      BY <3>6
    <3>10. Typed!Accept
      <4>1. Prefix(Input, in_pos)' = Prefix(Input, n)
        BY <3>5 DEF Prefix
      <4>2. Len(Prefix(Input, in_pos)) <= Len(Prefix(Input, n)) /\ Len(Prefix(Input, n)) <= Len(Input)
        BY <3>2, <3>4, <3>5, <3>6
      <4>3. SubSeq(Prefix(Input, n), 1, Len(Prefix(Input, in_pos))) = Prefix(Input, in_pos)
        BY <3>4, <3>8
      <4>4. \A i \in 1 .. Len(Prefix(Input, n)) : Prefix(Input, n)[i] \in ToSet(Input)
        BY <3>6, <3>9
      <4> QED BY <4>1, <4>2, <4>3, <4>4 DEF Typed!Accept
    <3>11. \/ received' = received
           \/ Len(received) < in_pos /\ received' = Append(received, Input[Len(received) + 1])
      BY <1>2, <3>1, ArrivesKept
    <3>12. UNCHANGED received \/ Typed!Deliver
      <4>1. CASE Len(received) < in_pos /\ received' = Append(received, Input[Len(received) + 1])
        <5>1. Len(received) \in Nat
          <6>1. received = Prefix(Input, IF InFlight \/ uart.ready THEN in_pos - 1 ELSE in_pos)
            BY <1>2 DEF Inv, Arrives
          <6>2. InFlight \/ uart.ready => in_pos > 0
            BY <1>2 DEF Inv, Arrives
          <6>3. PICK m \in 0 .. Len(Input) : received = Prefix(Input, m)
            BY <3>2, <6>1, <6>2
          <6> QED BY <3>2, <6>3, PrefixIs
        <5>2. Len(received) + 1 \in 1 .. in_pos
          BY <3>2, <4>1, <5>1
        <5>3. Prefix(Input, in_pos)[Len(received) + 1] = Input[Len(received) + 1]
          BY <3>4, <5>2
        <5> QED BY <3>4, <4>1, <5>3 DEF Typed!Deliver
      <4> QED BY <3>11, <4>1
    <3> QED BY <3>10, <3>12 DEF Typed!Next
  <2>2. CASE UNCHANGED vars
    BY <2>2 DEF vars, sender, streams, Typed!stream, Prefix
  <2> QED BY <1>2, <2>1, <2>2
<1> QED BY <1>1, <1>2, InvAlways, PTL DEF Spec, Typed!Order

\* The characters that are printed leave on the line, each once and in order,
\* although the UART holds one byte and drops a second.
THEOREM CharactersPrinted == Spec => Printed!Order
<1>1. Init => Printed!Init
  BY Texts, PrefixEmpty DEF Init, Printed!Init
<1>2. ASSUME Inv, [Next]_vars PROVE [Printed!Next]_(Printed!stream)
  <2>1. CASE Next
    <3>1. PICK a : Step(a)
      BY <1>2, <2>1, StepOfNext
    <3>2. /\ written \in 0 .. Len(Output) /\ started \in 0 .. written
          /\ Output \in Seq(ToSet(Output))
      BY <1>2, Texts DEF Inv, Control
    <3>3. written' \in 0 .. Len(Output) /\ written <= written'
      BY <3>1, Texts DEF Step, Does, Control
    <3>4. /\ Prefix(Output, written) \in Seq(ToSet(Output)) /\ Len(Prefix(Output, written)) = written
          /\ \A i \in 1 .. written : Prefix(Output, written)[i] = Output[i]
      BY <3>2, PrefixIs
    <3>5. PICK n \in 0 .. Len(Output) : n = written' /\ written <= n
      BY <3>3
    <3>6. /\ Prefix(Output, n) \in Seq(ToSet(Output)) /\ Len(Prefix(Output, n)) = n
          /\ \A i \in 1 .. n : Prefix(Output, n)[i] = Output[i]
      BY <3>2, PrefixIs
    <3>7. written \in 0 .. n
      BY <3>2, <3>5
    <3>8. SubSeq(Prefix(Output, n), 1, written) = Prefix(Output, written)
      BY <3>2, <3>7, PrefixOfPrefix
    <3>9. \A i \in 1 .. n : Prefix(Output, n)[i] \in ToSet(Output)
      BY <3>6
    <3>10. Printed!Accept
      <4>1. Prefix(Output, written)' = Prefix(Output, n)
        BY <3>5 DEF Prefix
      <4>2. Len(Prefix(Output, written)) <= Len(Prefix(Output, n)) /\ Len(Prefix(Output, n)) <= Len(Output)
        BY <3>2, <3>4, <3>5, <3>6
      <4>3. SubSeq(Prefix(Output, n), 1, Len(Prefix(Output, written))) = Prefix(Output, written)
        BY <3>4, <3>8
      <4>4. \A i \in 1 .. Len(Prefix(Output, n)) : Prefix(Output, n)[i] \in ToSet(Output)
        BY <3>6, <3>9
      <4> QED BY <4>1, <4>2, <4>3, <4>4 DEF Printed!Accept
    <3>11. \/ line' = line
           \/ Len(line) < started /\ line' = Append(line, Output[Len(line) + 1])
      BY <1>2, <3>1, LeavesKept
    <3>12. UNCHANGED line \/ Printed!Deliver
      <4>1. CASE Len(line) < started /\ line' = Append(line, Output[Len(line) + 1])
        <5>1. Len(line) \in Nat
          <6>1. line = Prefix(Output, IF uart.busy \/ Asked THEN started - 1 ELSE started)
            BY <1>2 DEF Inv, Leaves
          <6>2. uart.busy \/ Asked => started > 0
            BY <1>2 DEF Inv, Leaves
          <6>3. PICK m \in 0 .. Len(Output) : line = Prefix(Output, m)
            BY <3>2, <6>1, <6>2
          <6> QED BY <3>2, <6>3, PrefixIs
        <5>2. Len(line) + 1 \in 1 .. written /\ Len(line) < written
          BY <3>2, <4>1, <5>1
        <5>3. Prefix(Output, written)[Len(line) + 1] = Output[Len(line) + 1]
          BY <3>4, <5>2
        <5> QED BY <3>4, <4>1, <5>2, <5>3 DEF Printed!Deliver
      <4> QED BY <3>11, <4>1
    <3> QED BY <3>10, <3>12 DEF Printed!Next
  <2>2. CASE UNCHANGED vars
    BY <2>2 DEF vars, streams, Printed!stream, Prefix
  <2> QED BY <1>2, <2>1, <2>2
<1> QED BY <1>1, <1>2, InvAlways, PTL DEF Spec, Printed!Order
===============================================================================
