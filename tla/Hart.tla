--------------------------------- MODULE Hart ---------------------------------
(* What a supervisor is promised: a hart that executes loads and stores of   *)
(* any alignment and the atomic instructions itself, each in one step, that  *)
(* reports their faults to the supervisor, and that offers the SBI calls.    *)
(* Machine mode is not visible.                                              *)
EXTENDS Rv32

CONSTANTS
    NumPc,   \* program counters, in words; the last is the trap vector stvec
    Regs     \* the registers the program uses

VARIABLES
    code,     \* the instructions the program is made of
    x, pc,    \* registers, program counter
    priv,     \* 0 user, 1 supervisor
    sstatus,  \* sie, spie, spp
    strap,    \* sepc, scause and stval
    mem, attr,   \* memory; how each page is mapped
    reserved,    \* the address LR reserved, or 0
    stip,        \* the timer interrupt of the supervisor is pending
    on           \* the machine runs

hartVars == <<code, x, pc, priv, sstatus, strap, mem, attr, reserved, stip, on>>

Stvec == NumPc - 1
NextPc == (pc + 1) % NumPc
Written(r, v) == IF r = "zero" THEN x ELSE [x EXCEPT ![r] = v]

\* The lanes of an access of n bytes at a that fault.
Failing(kind, n, a) == {i \in 0..(n - 1) : ~Allowed(attr, kind, priv, Plus(a, i))}

\* The result of an atomic operation.
Atomic(op, old, src) ==
    LET bitwise(F(_, _)) == FromBytes([i \in Lane |-> F(Bytes(old)[i], Bytes(src)[i])])
        least(S, Value(_)) == CHOOSE w \in S : \A v \in S : Value(w) <= Value(v)
    IN  CASE op = "amoadd"  -> (old + src) % 16
          [] op = "amoswap" -> src
          [] op = "amoxor"  -> bitwise(LAMBDA b, c : (b + c) % 2)
          [] op = "amoand"  -> bitwise(LAMBDA b, c : b * c)
          [] op = "amoor"   -> bitwise(LAMBDA b, c : IF b + c > 0 THEN 1 ELSE 0)
          [] op = "amomin"  -> least({old, src}, Signed)
          [] op = "amomax"  -> least({old, src}, LAMBDA w : -Signed(w))
          [] op = "amominu" -> least({old, src}, LAMBDA w : w)
          [] op = "amomaxu" -> least({old, src}, LAMBDA w : -w)

-----------------------------------------------------------------------------
\* The program goes on at stvec, as supervisor, with interrupts off.
SupervisorTrap(cause, tval) ==
    /\ strap' = [epc |-> pc, cause |-> cause, tval |-> tval]
    /\ sstatus' = [sie |-> FALSE, spie |-> sstatus.sie, spp |-> priv]
    /\ priv' = 1
    /\ pc' = Stvec
    /\ UNCHANGED <<code, x, attr, stip, on>>

Proceeds ==
    /\ pc' = NextPc
    /\ UNCHANGED <<code, priv, sstatus, strap, attr, on>>

Immediate(i) ==
    /\ i.op = "li"
    /\ x' = Written(i.rd, i.imm)
    /\ Proceeds /\ UNCHANGED <<mem, reserved, stip>>

\* A misaligned access whose instruction cannot be read where it is, or is no
\* longer there, is left to the supervisor.
LeftOver(i, kind, a) ==
    /\ a % Length(i.op) # 0
    /\ \/ /\ i.seen = "fault"
          /\ SupervisorTrap("load_fault", pc)
       \/ /\ i.seen = "other"
          /\ SupervisorTrap(kind, a)
    /\ UNCHANGED <<mem, reserved>>
Known(i, a) == a % Length(i.op) = 0 \/ i.seen = "same"

\* A load of any alignment.
Load(i) ==
    /\ i.op \in LoadOps
    /\ LET a == x[i.rs1]
           failing == Failing("load", Length(i.op), a)
           v == Fetched(mem, Length(i.op), a)
       IN  \/ LeftOver(i, "misaligned_load", a)
           \/ /\ Known(i, a) /\ failing # {}
              /\ SupervisorTrap("load_fault", Plus(a, Least(failing))) /\ UNCHANGED <<mem, reserved>>
           \/ /\ Known(i, a) /\ failing = {}
              /\ x' = Written(i.rd, IF i.op = "lh" /\ v >= 2 THEN v + 12 ELSE v)
              /\ Proceeds /\ UNCHANGED <<mem, reserved, stip>>

\* A store of any alignment; one that faults has stored the bytes before.
Store(i) ==
    /\ i.op \in StoreOps
    /\ LET a == x[i.rs1]
           failing == Failing("store", Length(i.op), a)
       IN  \/ LeftOver(i, "misaligned_store", a)
           \/ /\ Known(i, a) /\ failing # {}
              /\ mem' = Stored(mem, Least(failing), a, x[i.rs2])
              /\ SupervisorTrap("store_fault", Plus(a, Least(failing))) /\ UNCHANGED reserved
           \/ /\ Known(i, a) /\ failing = {}
              /\ mem' = Stored(mem, Length(i.op), a, x[i.rs2])
              /\ Proceeds /\ UNCHANGED <<x, reserved, stip>>

LoadReserved(i) ==
    /\ i.op = "lr"
    /\ LET a == x[i.rs1]
           fault == FaultOf(attr, "load", 4, priv, a)
       IN  IF fault # "none"
           THEN SupervisorTrap(fault, a) /\ UNCHANGED <<mem, reserved>>
           ELSE /\ x' = Written(i.rd, Fetched(mem, 4, a))
                /\ reserved' = a
                /\ Proceeds /\ UNCHANGED <<mem, stip>>

\* A store conditional succeeds exactly if its address is reserved; one that
\* fails leaves the reservation.  Either may report a fault of its address.
StoreConditional(i) ==
    /\ i.op = "sc"
    /\ LET a == x[i.rs1]
           fault == FaultOf(attr, "store", 4, priv, a)
       IN  \/ /\ fault # "none"
              /\ SupervisorTrap(fault, a) /\ UNCHANGED <<mem, reserved>>
           \/ /\ a = reserved /\ a # 0 /\ fault = "none"
              /\ mem' = Stored(mem, 4, a, x[i.rs2])
              /\ x' = Written(i.rd, 0)
              /\ reserved' = 0
              /\ Proceeds /\ UNCHANGED stip
           \/ /\ a # reserved
              /\ x' = Written(i.rd, 1)
              /\ Proceeds /\ UNCHANGED <<mem, reserved, stip>>

\* An atomic operation; a fault is that of its load if the load has one.
ReadModifyWrite(i) ==
    /\ i.op \in AmoOps
    /\ LET a == x[i.rs1]
           old == Fetched(mem, 4, a)
           faults == <<FaultOf(attr, "load", 4, priv, a), FaultOf(attr, "store", 4, priv, a)>>
       IN  IF faults = <<"none", "none">>
           THEN /\ mem' = Stored(mem, 4, a, Atomic(i.op, old, x[i.rs2]))
                /\ x' = Written(i.rd, old)
                /\ Proceeds /\ UNCHANGED <<reserved, stip>>
           ELSE /\ SupervisorTrap(IF faults[1] # "none" THEN faults[1] ELSE faults[2], a)
                /\ UNCHANGED <<mem, reserved>>

-----------------------------------------------------------------------------
\* An environment call: of the supervisor, an SBI call; of the user, a trap.
UserCall(i) ==
    /\ i.op \in Calls /\ priv = 0
    /\ SupervisorTrap("ecall_u", 0) /\ UNCHANGED <<mem, reserved>>

SbiCall(i) ==
    /\ i.op \in {"set_timer", "putchar", "fence", "getchar"} /\ priv = 1
    /\ stip' = IF i.op = "set_timer" THEN FALSE ELSE stip
    /\ IF i.op = "getchar" THEN \E c \in {1, 15} : x' = [x EXCEPT !["a0"] = c] ELSE x' = x
    /\ Proceeds /\ UNCHANGED <<mem, reserved>>

\* Shutdown, an unknown call, or an instruction that does not exist.
Stop(i) ==
    /\ (i.op \in {"shutdown", "unknown"} /\ priv = 1) \/ i.op = "bad" \/ (i.op = "sret" /\ priv = 0)
    /\ on' = FALSE
    /\ UNCHANGED <<code, x, pc, priv, sstatus, strap, mem, attr, reserved, stip>>

SupervisorReturn(i) ==
    /\ i.op = "sret" /\ priv = 1
    /\ pc' = strap.epc
    /\ priv' = sstatus.spp
    /\ sstatus' = [sie |-> sstatus.spie, spie |-> TRUE, spp |-> 0]
    /\ UNCHANGED <<code, x, strap, mem, attr, reserved, stip, on>>

\* The supervisor changes how a page is mapped.
Map(i) ==
    /\ i.op = "map" /\ priv = 1
    /\ attr' = [attr EXCEPT ![i.imm] = "rw"]
    /\ pc' = NextPc
    /\ UNCHANGED <<code, x, priv, sstatus, strap, mem, reserved, stip, on>>

Execute(i) ==
    \/ Immediate(i) \/ Load(i) \/ Store(i) \/ Map(i)
    \/ LoadReserved(i) \/ StoreConditional(i) \/ ReadModifyWrite(i)
    \/ UserCall(i) \/ SbiCall(i) \/ Stop(i) \/ SupervisorReturn(i)

\* An interrupt of the supervisor: its timer, or the interrupt controller.
Interrupt ==
    /\ priv = 0 \/ sstatus.sie
    /\ \/ stip /\ SupervisorTrap("timer", 0)
       \/ SupervisorTrap("external", 0)
    /\ UNCHANGED <<mem, reserved>>

\* The timer rings; the reservation is dropped.
Ring ==
    /\ stip' = TRUE
    /\ reserved' = 0
    /\ UNCHANGED <<code, x, pc, priv, sstatus, strap, mem, attr, on>>

Init ==
    /\ pc = 0 /\ priv = 1
    /\ sstatus = [sie |-> FALSE, spie |-> FALSE, spp |-> 0]
    /\ strap = [epc |-> 0, cause |-> "none", tval |-> 0]
    /\ reserved = 0 /\ stip = FALSE /\ on = TRUE

Next == on /\ (Interrupt \/ Ring \/ \E i \in code : Execute(i))

Spec == Init /\ [][Next]_hartVars
===============================================================================
