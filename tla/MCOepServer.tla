---------------------------- MODULE MCOepServer ----------------------------
(* A client that asks for rollback on disconnect and sends what it likes.  *)
EXTENDS OepServer, TLC

=============================================================================
