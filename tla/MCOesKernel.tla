---------------------------- MODULE MCOesKernel ----------------------------
(***************************************************************************)
(* OesKernel for TLC.                                                      *)
(***************************************************************************)
EXTENDS OesKernel, TLC

=============================================================================
