----------------------------- MODULE ByteStream -----------------------------
(***************************************************************************)
(* What a serial link promises to the two programs at its ends: the bytes  *)
(* the one has handed over come out at the other, each once, in the order  *)
(* they were handed over, and all of them in the end.  SerialIrq is shown  *)
(* to implement it twice: for the characters typed at the console, up to   *)
(* the kernel that reads them, and for the characters a program prints,    *)
(* up to the line.                                                         *)
(***************************************************************************)
EXTENDS Naturals, Sequences

CONSTANTS Bytes,      \* the bytes
          MaxLength   \* the most bytes that are ever handed over

VARIABLES source,     \* the bytes handed over so far
          sink        \* the bytes that have come out so far

stream == <<source, sink>>

Init == source = <<>> /\ sink = <<>>

\* Bytes are handed over, one or a string of them, or none is.
Accept == /\ Len(source) <= Len(source') /\ Len(source') <= MaxLength
          /\ SubSeq(source', 1, Len(source)) = source
          /\ \A i \in 1 .. Len(source') : source'[i] \in Bytes

\* The oldest byte that has not come out comes out.
Deliver == /\ Len(sink) < Len(source)
           /\ sink' = Append(sink, source[Len(sink) + 1])

\* Both ends are in one machine: a byte may enter in the cycle another leaves.
Next == Accept /\ (UNCHANGED sink \/ Deliver)

\* Every byte that has been handed over comes out: there are MaxLength at most,
\* so there is always a later moment at which none of them is on its way.
Delivery == []<>(Len(sink) = Len(source))

\* What has come out is right, and no byte is kept for ever.
Order == Init /\ [][Next]_stream
Spec == Order /\ Delivery
=============================================================================
