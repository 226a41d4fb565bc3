---------------------------- MODULE MCDcacheTame ----------------------------
(* The requests of both kinds in one run.  What is tame is chosen at the     *)
(* start and constant: a tame requester reads, writes and flushes, and to it *)
(* the cache is a plain memory port.  The other one does everything.         *)
EXTENDS MCDcacheCore

VARIABLE tame

MCInit == Init /\ tame \in BOOLEAN

MCNext ==
    /\ Next
    /\ mem_m'.op # "none" => mem_m' \in (IF tame THEN CoherentRequests ELSE MaintenanceRequests)
    /\ UNCHANGED tame

MCSpec == MCInit /\ [][MCNext]_<<vars, tame>> /\ Fairness

AllRequests == CoherentRequests \cup MaintenanceRequests

TamePort == INSTANCE MemPort WITH
    Init0 <- MemInit,
    store <- IF tame THEN [a \in Addr |-> Word(a)] ELSE MemInit,
    req   <- IF tame /\ mem_m.op # "none" THEN mem_m ELSE [op |-> "none"],
    resp  <- IF ~tame \/ ~MemAck THEN [valid |-> FALSE]
             ELSE IF mem_m.op = "rd" THEN [valid |-> TRUE, data |-> DataOut]
             ELSE [valid |-> TRUE]

\* Transparent for the tame requester: through refills, evictions with
\* stalled beats and flushes every read that dcache_core.v answers returns
\* the word last written.  An invalidate may drop the words of a dirty line by
\* design (line 273), so the other requester is not held to it.
TransparentIfTame == TamePort!Spec
=============================================================================
