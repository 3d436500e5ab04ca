----------------------------- MODULE OecFuture -----------------------------
(***************************************************************************)
(* Futures and countdown latches (corelib/Oec_Future.c and                 *)
(* Oec_CountdownLatch.c), as what each call does to the object under its   *)
(* lock.  A caller that waits is an action whose guard is the condition it *)
(* waits for: every change signals the condition variable, and in this     *)
(* library an object has one thread that waits for it.                     *)
(***************************************************************************)
EXTENDS Integers

(* The value is a null pointer, or an answer that is a result or an error. *)
Value == {"null", "res", "err"}

Future == [done : BOOLEAN, freed : BOOLEAN, value : Value, mem : {"none", "live", "freed"}]

NoFuture == [done |-> FALSE, freed |-> FALSE, value |-> "null", mem |-> "none"]

FutureNew == [NoFuture EXCEPT !.mem = "live"]

(* Mutant: the memory goes at once.                                        *)
FutureFreeAtOnce(f) == [f EXCEPT !.freed = TRUE, !.mem = "freed"]

(* Oec_Future_free: refused, but noted, before the future is set.          *)
FutureFree(f) == [f EXCEPT !.freed = TRUE, !.mem = IF f.done THEN "freed" ELSE @]

(* _future_set.  A future that was freed before is not marked done, so the *)
(* free that was put off is refused again.                                 *)
FutureSet(f, v) ==
  IF f.freed THEN FutureFree(f) ELSE [f EXCEPT !.done = TRUE, !.value = v]

Latch == [count : Int, max_count : Int]

LatchNew == [count |-> 0, max_count |-> 0]

(* _update, by 1 and by -1.                                                *)
LatchIncrement(l) == [count |-> l.count + 1, max_count |-> l.max_count + 1]
LatchDecrement(l) == [l EXCEPT !.count = @ - 1]

=============================================================================
