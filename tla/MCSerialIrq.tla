----------------------------- MODULE MCSerialIrq -----------------------------
(* Three keys are typed, three characters are printed, the first by the      *)
(* firmware, and the GPIO pin has two edges, so that the second may come     *)
(* anywhere in the handling of the first.  The bits are those of the test    *)
(* bench (tb_soc.v:15), the edge triggered lines those of the device trees   *)
(* (xlnx,kind-of-intr = <0x2>).                                              *)
EXTENDS SerialIrq

Keys == <<1, 2, 3>>
Text == <<1, 2, 3>>
KindOfIntr == {1}
==============================================================================
