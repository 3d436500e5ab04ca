------------------------ MODULE MCOeThreadDispatcher ------------------------
(* A small pool.                                                           *)
EXTENDS OeThreadDispatcher, TLC

=============================================================================
