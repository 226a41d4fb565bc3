----------------------------- MODULE MCReservation ----------------------------
(* An instance of Firmware with the history of its reservations.             *)
EXTENDS MCFirmware

\* A reservation, a store conditional to memory that is mapped, and interrupts.
MCReservedPrograms ==
    {Starting({Op("lr", "a1", "a0", "zero"), Op("sc", "a1", "a0", "a0"), Call("sret")}, 4, 6, "rw")}

VARIABLE disturbed   \* an interrupt was taken since the last LR

HistoryInit == Init /\ disturbed = FALSE
HistoryNext ==
    \/ /\ SupervisorInterrupt \/ MachineTimerInterrupt
       /\ disturbed' = TRUE
    \/ /\ Program \/ Tick \/ Handler
       /\ disturbed' = (disturbed /\ ~(EmulateIllegal /\ instr.op = "lr"))
HistorySpec == HistoryInit /\ [][HistoryNext]_<<vars, disturbed>>

\* "On interrupt, clear load reservation" (emulation.c 401): a store
\* conditional that stores follows its load with no interrupt in between.
PairedStore == [][Handles("trap_invalid_inst") /\ instr.op = "sc" /\ mem' # mem => ~disturbed]_<<vars, disturbed>>
===============================================================================
