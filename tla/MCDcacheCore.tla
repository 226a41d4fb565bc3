---------------------------- MODULE MCDcacheCore ----------------------------
(* The data cache core on a small instance: two lines of two words per way,  *)
(* three lines that compete for set 0 and one in set 1.  Every word of       *)
(* memory starts with a value of its own, so that a word fetched from, or    *)
(* written to, a wrong place shows.                                          *)
EXTENDS DcacheCore

At(t, s, k) == [tag |-> t, set |-> s, word |-> k]
Rd(a)    == [op |-> "rd", addr |-> a, data |-> Junk]
Wr(a, v) == [op |-> "wr", addr |-> a, data |-> v]
Op(o, a) == [op |-> o, addr |-> a, data |-> Junk]

MCMemInit == [a \in Addr |-> 4 * a.tag + 2 * a.set + a.word]
MCValue   == 0 .. 13
MCJunk    == 99

MCIdleAddrs == {At(0, 0, 0), At(0, 1, 0)}

\* Before reset an entry may hold anything: these two ask for an eviction of
\* nonsense if the reset walk misses them.
MCPowerUp == {[valid |-> TRUE, dirty |-> TRUE, tag |-> 0], [valid |-> FALSE, dirty |-> TRUE, tag |-> 1]}

\* Three lines that compete for the two ways of set 0, and one in set 1, with
\* flushes in between.
CoherentRequests ==
    {Rd(At(t, 0, 0)) : t \in Tags}
    \cup {Wr(At(0, 0, 0), 12), Wr(At(0, 0, 0), 13), Wr(At(1, 0, 1), 12), Wr(At(0, 1, 1), 12)}
    \cup {Op("flush", At(0, 0, 0))}

\* Maintenance of every kind, invalidates in either set included, between
\* stores to two lines of set 0 and one of set 1.
MaintenanceRequests ==
    {Rd(At(0, 0, 0)), Wr(At(0, 0, 0), 12), Wr(At(1, 0, 1), 12), Wr(At(0, 1, 1), 12),
     Op("flush", At(0, 0, 0)), Op("wb", At(0, 0, 0)),
     Op("inval", At(0, 0, 0)), Op("inval", At(0, 1, 0))}
=============================================================================
