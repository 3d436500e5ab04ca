----------------------------- MODULE MCOeKernel -----------------------------
(* Instances of OeKernel for TLC.                                          *)
EXTENDS OeKernel

CONSTANTS r, t, i

MCFOREVER == -1
MCTimeout == [g \in Get |-> 1]

(* A read and a take that want the same item.                              *)
MCBoth == {<<r, i>>, <<t, i>>}
=============================================================================
