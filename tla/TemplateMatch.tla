--------------------------- MODULE TemplateMatch ----------------------------
(***************************************************************************)
(* Two parts of the system decide whether a template matches an object:    *)
(* the store, with its index of properties (corelib/OeBdb.c), and the      *)
(* matcher, with the fields of the template and of the object              *)
(* (corelib/Oed_Dispatcher.c).  A get waits until the matcher says yes and *)
(* is then answered by the store, so the matcher must say yes whenever the *)
(* store does.                                                             *)
(*                                                                         *)
(* The module takes one template that waits and one object that was put,   *)
(* and walks through the fields of the object as _process does.            *)
(***************************************************************************)
EXTENDS Naturals, Sequences

CONSTANTS
  Field, \* the values of fields
  Wild,  \* "_": the wildcard of a template, and a field that is not indexed
  Tuples, \* tuples, as templates and as objects: sequences of fields
  Maps    \* maps likewise: keys and values in turn

(* The keys of a map are different.                                        *)
ASSUME MatchAssumption ==
  /\ Tuples \subseteq Seq(Field)
  /\ Maps \subseteq Seq(Field)
  /\ \A d \in Maps : /\ Len(d) % 2 = 0
                     /\ \A p, q \in DOMAIN d : p % 2 = 1 /\ q % 2 = 1 /\ d[p] = d[q] => p = q

VARIABLES
  tmpl,     \* the template
  obj,      \* the object
  is_tuple, \* whether both are tuples, or both are maps
  key_idx,  \* the field of the template under which it is filed
  pos,      \* the field of the object that is looked up next
  matched   \* whether the template has been found to match

vars == <<tmpl, obj, is_tuple, key_idx, pos, matched>>

Concrete(d) == {p \in DOMAIN d : d[p] # Wild}

-----------------------------------------------------------------------------
(* The store.                                                              *)

(* A field of a tuple is indexed, and searched, with its place and the     *)
(* length of the tuple.                                                    *)
TupleProps(d) == {<<d[p], p, Len(d)>> : p \in Concrete(d)}

(* A pair of a map is searched as it is, and indexed unless it holds "_".  *)
MapKeys(d) == {<<d[p], d[p + 1]>> : p \in {q \in DOMAIN d : q % 2 = 1}}
MapProps(d) == {<<d[p], d[p + 1]>> : p \in {q \in DOMAIN d : /\ q % 2 = 1
                                                             /\ d[q] # Wild /\ d[q + 1] # Wild}}

(* The join of the cursors: every key of the template leads to the object. *)
TupleFound(t, o) == TupleProps(t) # {} /\ TupleProps(t) \subseteq TupleProps(o)
MapFound(t, o) == MapKeys(t) # {} /\ MapKeys(t) \subseteq MapProps(o)

StoreMatch(t, o, tuple) == IF tuple THEN TupleFound(t, o) ELSE MapFound(t, o)

-----------------------------------------------------------------------------
(* The matcher.                                                            *)

(* Mutant: a field and its fellow in the object are at the same place.     *)
MatchedInPlace(t, kt, o, k) ==
  \A j \in DOMAIN t \ {kt} : j \in DOMAIN o \ {k} /\ t[j] \in {o[j], Wild}

(* Mutant: one field is enough.                                            *)
MatchedAny(t, kt, o, k) ==
  DOMAIN t # {kt} => \E j \in DOMAIN t \ {kt} : \E m \in DOMAIN o \ {k} : t[j] \in {o[m], Wild}

(* _processSet: every other field of the template is a wildcard or found   *)
(* among the other fields of the object.                                   *)
Matched(t, kt, o, k) ==
  \A j \in DOMAIN t \ {kt} : \E m \in DOMAIN o \ {k} : t[j] \in {o[m], Wild}

(* _add_template: which of its fields a template is filed under depends on *)
(* the others in the table; any but a wildcard may be it.                  *)
Filed(t) == Concrete(t)

(* _process, before its first field.  An object without a property cannot  *)
(* be put.                                                                 *)
Init ==
  /\ is_tuple \in BOOLEAN
  /\ tmpl \in (IF is_tuple THEN Tuples ELSE Maps)
  /\ obj \in (IF is_tuple THEN Tuples ELSE Maps)
  /\ is_tuple => Concrete(obj) # {}
  /\ key_idx \in Filed(tmpl)
  /\ pos = 1 /\ matched = FALSE

(* _process, for one field of the object.                                  *)
ProcessField ==
  /\ ~matched /\ pos <= Len(obj)
  /\ pos' = pos + 1
  /\ matched' = (obj[pos] = tmpl[key_idx] /\ Matched(tmpl, key_idx, obj, pos))
  /\ UNCHANGED <<tmpl, obj, is_tuple, key_idx>>

Next == ProcessField

Spec == Init /\ [][Next]_vars

-----------------------------------------------------------------------------
(* Properties.                                                             *)

(* Every variable keeps its type.                                          *)
TypeOK ==
  /\ is_tuple \in BOOLEAN /\ matched \in BOOLEAN
  /\ tmpl \in (IF is_tuple THEN Tuples ELSE Maps)
  /\ obj \in (IF is_tuple THEN Tuples ELSE Maps)
  /\ key_idx \in Concrete(tmpl)
  /\ pos \in 1 .. Len(obj) + 1

(* An object that the store would find wakes the get: when the matcher is  *)
(* through with its fields, the template has matched.                      *)
NoFalseNegative ==
  pos > Len(obj) /\ StoreMatch(tmpl, obj, is_tuple) => matched

(* The rule of Oed_Dispatcher.h: all fields of a template that matches are *)
(* among the fields of the object.                                         *)
MatchIsByRule ==
  matched => \A j \in Concrete(tmpl) : \E m \in DOMAIN obj : obj[m] = tmpl[j]
=============================================================================
