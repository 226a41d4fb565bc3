----------------------------- MODULE MCFrontend -----------------------------
(* Sixteen words of code: two lines of two pairs for each of two sets.  The  *)
(* loop runs through both sets and jumps between the tags; the fence.i is in *)
(* front of the line with the word that is changed.                          *)
EXTENDS Frontend, TLC

MCBranch == [a \in Pc |-> CASE a = 6 -> {9} [] a = 10 -> {3} [] OTHER -> {}]
MCFences == {2}
MCTraps  == {8}

\* Before reset the tags may hold anything; these hit unless they are cleared.
MCPowerUp == {[w \in Ways |-> [s \in Sets |-> t]] : t \in {0, Invalid}}
=============================================================================
