----------------------------- MODULE MCOepWire -----------------------------
(* An int of four bits, and numbers on both sides of its bounds: the       *)
(* largest int, one more, the number whose low bits are those of -1        *)
(* (forever), and the one whose low bits are zero (no transaction).        *)
EXTENDS OepWire

MCNumbers == {-1, 0, 1, 7, 8, 15, 16}
=============================================================================
