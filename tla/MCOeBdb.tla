------------------------------ MODULE MCOeBdb ------------------------------
(* Small instances of the store.                                           *)
EXTENDS OeBdb, TLC

CONSTANTS d1, d2, tmpl, wild

(* One payload a template finds, and one no index can hold.                *)
MCData == {d1, d2}
MCUnindexable == {d2}
MCTemplate == {tmpl, wild}
MCMatches == (tmpl :> {d1}) @@ (wild :> {})

One == [lists |-> <<tmpl>>, max |-> 1]
Both == [lists |-> <<tmpl, tmpl>>, max |-> 0]
Any2 == [lists |-> <<tmpl, tmpl>>, max |-> 2]
Wild == [lists |-> <<tmpl, wild>>, max |-> 1]

MCQuery == {One, Both, Any2, Wild}
SmallQuery == {One}
OneData == {d1}
Forever == {FOREVER}
NoCount == {-1}

MCDur == {FOREVER, 1}
MCExpected == {-1, 1}

(* The return code takes part in no step.                                 *)
View == <<now, holder_db, txn_db, ids, reaper_running_flag, pc, call>>

Symmetry == Permutations(Worker) \cup Permutations(Lid) \cup Permutations(Tid)
=============================================================================
