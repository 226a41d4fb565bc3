----------------------------- MODULE MCDcacheBus -----------------------------
(* The bus path with two cacheable lines of four words and one device word.   *)
EXTENDS DcacheBus

R(kind, line, victim, value, tag) ==
    [kind |-> kind, line |-> line, victim |-> victim, value |-> value, tag |-> tag]

MCLines == {"A", "B"}

\* Each burst the core may need, for either line, and single accesses: the tag
\* is the MMU walker's (2) for some of the cached reads, the bridge sees both.
MCOffers ==
    {R("idle", "A", "A", 0, 1), R("idle", "dev", "A", 0, 1),
     R("hit", "A", "A", 0, 1),
     R("refill", "A", "A", 0, 2), R("refill", "B", "A", 0, 1),
     R("swap", "B", "A", 1, 1), R("swap", "A", "B", 0, 2), R("swap", "A", "B", 1, 1),
     R("writeback", "A", "A", 0, 1),
     R("load", "dev", "A", 0, 1), R("load", "dev", "A", 0, 2),
     R("store", "dev", "A", 1, 1), R("store", "dev", "A", 0, 1),
     R("drop", "dev", "A", 0, 2)}
=============================================================================
