--------------------------------- MODULE Rv32 ---------------------------------
(* Words, memory and instructions, as the firmware and its promise see them. *)
(* A byte is one bit, so a word has four bits and an address is one of       *)
(* sixteen bytes in four pages of one word: byte lanes, sign bits, page      *)
(* crossings and the wrap of an address keep their places.                   *)
EXTENDS Integers

Word == 0..15
Lane == 0..3
Page == 0..3

PageOf(a)    == a \div 4
Plus(a, i)   == (a + i) % 16
Bytes(w)     == [i \in Lane |-> (w \div (2 ^ i)) % 2]
FromBytes(b) == b[0] + 2 * b[1] + 4 * b[2] + 8 * b[3]
Signed(w)    == IF w >= 8 THEN w - 16 ELSE w

\* The n bytes of memory m at a, little endian, extended with zeros.
Fetched(m, n, a) == FromBytes([i \in Lane |-> IF i < n THEN m[Plus(a, i)] ELSE 0])

\* Memory m after the lowest n bytes of w are stored at a.
Stored(m, n, a, w) ==
    [b \in Word |-> IF Plus(b, -a) < n THEN Bytes(w)[Plus(b, -a)] ELSE m[b]]

LoadOps  == {"lw", "lh", "lhu"}
StoreOps == {"sw", "sh"}
AmoOps   == {"amoadd", "amoswap", "amoxor", "amoand", "amoor", "amomin", "amomax", "amominu", "amomaxu"}
Calls    == {"set_timer", "getchar", "putchar", "fence", "shutdown", "unknown"}

\* What a load of an instruction that was fetched sees: the same, an other one
\* (the code has changed since), or a fault (it may be executed, not read).
Views == {"same", "other", "fault"}

Length(op) == IF op \in {"lh", "lhu", "sh"} THEN 2 ELSE 4

\* A page is mapped for everyone to read ("ro") or to use ("rw"), for the
\* supervisor alone ("kernel"), or not at all ("none").
Mappings == {"none", "ro", "rw", "kernel"}
Allowed(attr, kind, p, a) ==
    LET how == attr[PageOf(a)]
    IN  how = "rw" \/ (how = "kernel" /\ p >= 1) \/ (how = "ro" /\ kind = "load")

\* The fault of an access of n bytes by privilege p, or "none".
FaultOf(attr, kind, n, p, a) ==
    CASE a % n # 0 -> IF kind = "load" THEN "misaligned_load" ELSE "misaligned_store"
      [] a % n = 0 /\ ~Allowed(attr, kind, p, a) -> IF kind = "load" THEN "load_fault" ELSE "store_fault"
      [] OTHER -> "none"

Faults == {"misaligned_load", "misaligned_store", "load_fault", "store_fault"}

Least(S) == CHOOSE i \in S : \A j \in S : i <= j
===============================================================================
