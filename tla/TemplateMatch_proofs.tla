------------------------ MODULE TemplateMatch_proofs ------------------------
(***************************************************************************)
(* The matcher never misses an object that the store would find, and what  *)
(* it matches is matched by its own rule, for every set of fields, tuples  *)
(* and maps.                                                               *)
(*                                                                         *)
(* The argument for the first: where the store matches, every field of the *)
(* template has a place in the object, and different fields have different *)
(* places.  If the place of a field is the one the object was looked up    *)
(* by, the field has the value of the key, and the place of the key serves *)
(* instead.                                                                *)
(***************************************************************************)
EXTENDS TemplateMatch, TLAPS

(* A template of which every field has a place of its own in the object is *)
(* found under any of its fields, at any field of the object.              *)
LEMMA PlacesMatch ==
  ASSUME NEW t, NEW o, NEW kt \in DOMAIN t, NEW k \in DOMAIN o, o[k] = t[kt],
         \A j \in DOMAIN t \ {kt} :
           \/ t[j] = Wild /\ \E m \in DOMAIN o : m # k
           \/ \E m, n \in DOMAIN o : m # n /\ o[m] = t[j] /\ o[n] = t[kt]
  PROVE  Matched(t, kt, o, k)
<1> SUFFICES ASSUME NEW j \in DOMAIN t \ {kt}
             PROVE  \E m \in DOMAIN o \ {k} : t[j] \in {o[m], Wild}
  BY DEF Matched
<1>1. CASE t[j] = Wild /\ \E m \in DOMAIN o : m # k
  BY <1>1
<1>2. CASE \E m, n \in DOMAIN o : m # n /\ o[m] = t[j] /\ o[n] = t[kt]
  <2> PICK m \in DOMAIN o, n \in DOMAIN o : m # n /\ o[m] = t[j] /\ o[n] = t[kt]
    BY <1>2
  <2>1. CASE m # k
    BY <2>1
  <2>2. CASE m = k
    <3>1. n \in DOMAIN o \ {k} /\ o[n] = t[j]
      BY <2>2
    <3> QED
      BY <3>1
  <2> QED
    BY <2>1, <2>2
<1> QED
  BY <1>1, <1>2

(* Where the store matches a tuple, the two have one length and agree at   *)
(* every field that is no wildcard.                                        *)
LEMMA TupleAgrees ==
  ASSUME NEW t \in Seq(Field), NEW o \in Seq(Field), TupleFound(t, o)
  PROVE  Len(t) = Len(o) /\ \A j \in Concrete(t) : j \in DOMAIN o /\ o[j] = t[j]
<1>1. \A j \in Concrete(t) : <<t[j], j, Len(t)>> \in TupleProps(o)
  BY DEF TupleFound, TupleProps
<1>2. \A j \in Concrete(t) : j \in Concrete(o) /\ o[j] = t[j] /\ Len(o) = Len(t)
  BY <1>1 DEF TupleProps
<1>3. PICK j \in Concrete(t) : TRUE
  BY DEF TupleFound, TupleProps
<1>4. Len(t) = Len(o)
  BY <1>2, <1>3
<1>5. \A i \in Concrete(o) : i \in DOMAIN o
  BY DEF Concrete
<1> QED
  BY <1>2, <1>4, <1>5

(* A tuple that the store matches, the matcher matches.                    *)
LEMMA TupleMatched ==
  ASSUME NEW t \in Seq(Field), NEW o \in Seq(Field), TupleFound(t, o),
         NEW kt \in Concrete(t), NEW k \in DOMAIN o, o[k] = t[kt]
  PROVE  Matched(t, kt, o, k)
<1>1. DOMAIN t = DOMAIN o /\ kt \in DOMAIN t
  BY TupleAgrees DEF Concrete
<1>2. ASSUME NEW j \in DOMAIN t \ {kt}
      PROVE  \/ t[j] = Wild /\ \E m \in DOMAIN o : m # k
             \/ \E m, n \in DOMAIN o : m # n /\ o[m] = t[j] /\ o[n] = t[kt]
  <2>1. CASE t[j] = Wild
    <3>1. \E m \in DOMAIN o : m # k
      BY <1>1, <1>2
    <3> QED
      BY <2>1, <3>1
  <2>2. CASE t[j] # Wild
    <3>1. j \in DOMAIN o /\ kt \in DOMAIN o /\ o[j] = t[j] /\ o[kt] = t[kt] /\ j # kt
      BY <2>2, TupleAgrees DEF Concrete
    <3> QED
      BY <3>1
  <2> QED
    BY <2>1, <2>2
<1> QED
  BY <1>1, <1>2, PlacesMatch

-----------------------------------------------------------------------------

(* Where the store matches a map, every pair of the template is a pair of  *)
(* the object.                                                             *)
LEMMA PairsAgree ==
  ASSUME NEW t \in Seq(Field), NEW o \in Seq(Field), Len(o) % 2 = 0,
         MapFound(t, o),
         NEW p \in DOMAIN t, p % 2 = 1
  PROVE  \E q \in DOMAIN o : /\ q % 2 = 1 /\ q + 1 \in DOMAIN o
                             /\ o[q] = t[p] /\ o[q + 1] = t[p + 1]
<1>1. <<t[p], t[p + 1]>> \in MapProps(o)
  BY DEF MapFound, MapKeys
<1>2. PICK q \in DOMAIN o : q % 2 = 1 /\ <<t[p], t[p + 1]>> = <<o[q], o[q + 1]>>
  BY <1>1 DEF MapProps
<1>3. q + 1 \in DOMAIN o
  <2>1. Len(o) \in Nat /\ q \in 1 .. Len(o) /\ DOMAIN o = 1 .. Len(o)
    OBVIOUS
  <2>2. q # Len(o)
    BY <1>2, <2>1
  <2> QED
    BY <2>1, <2>2
<1> QED
  BY <1>2, <1>3

(* The pair in which a field of a map is.                                  *)
Pair(j) == IF j % 2 = 1 THEN j ELSE j - 1

(* A field of a map is the key or the value of its pair.                   *)
LEMMA FieldOfPair ==
  ASSUME NEW t \in Seq(Field), NEW j \in DOMAIN t
  PROVE  Pair(j) \in DOMAIN t /\ Pair(j) % 2 = 1 /\ (j = Pair(j) \/ j = Pair(j) + 1)
<1>1. j \in Nat /\ j >= 1 /\ DOMAIN t = 1 .. Len(t) /\ j <= Len(t) /\ Len(t) \in Nat
  OBVIOUS
<1>2. CASE j % 2 = 1
  BY <1>1, <1>2 DEF Pair
<1>3. CASE j % 2 # 1
  <2>1. j % 2 = 0
    BY <1>1, <1>3
  <2>2. j - 1 \in DOMAIN t /\ (j - 1) % 2 = 1
    BY <1>1, <2>1
  <2> QED
    BY <1>1, <1>3, <2>2 DEF Pair
<1> QED
  BY <1>2, <1>3

(* Two fields of a template that the store matches have different places   *)
(* in the map: two fields of one pair because they are key and value, two  *)
(* of different pairs because their pairs have different keys.             *)
LEMMA MapPlaces ==
  ASSUME NEW t \in Maps, NEW o \in Maps, MapFound(t, o),
         NEW j \in DOMAIN t, NEW i \in DOMAIN t, i # j
  PROVE  \E m, n \in DOMAIN o : m # n /\ o[m] = t[j] /\ o[n] = t[i]
<1>1. t \in Seq(Field) /\ o \in Seq(Field) /\ Len(o) % 2 = 0
  BY MatchAssumption
<1>2. /\ Pair(j) \in DOMAIN t /\ Pair(j) % 2 = 1 /\ (j = Pair(j) \/ j = Pair(j) + 1)
      /\ Pair(i) \in DOMAIN t /\ Pair(i) % 2 = 1 /\ (i = Pair(i) \/ i = Pair(i) + 1)
  BY <1>1, FieldOfPair
<1>3. PICK q \in DOMAIN o : /\ q % 2 = 1 /\ q + 1 \in DOMAIN o
                            /\ o[q] = t[Pair(j)] /\ o[q + 1] = t[Pair(j) + 1]
  BY <1>1, <1>2, PairsAgree
<1>4. PICK r \in DOMAIN o : /\ r % 2 = 1 /\ r + 1 \in DOMAIN o
                            /\ o[r] = t[Pair(i)] /\ o[r + 1] = t[Pair(i) + 1]
  BY <1>1, <1>2, PairsAgree
<1>5. q \in Nat /\ r \in Nat
  BY <1>1
<1>6. CASE Pair(i) = Pair(j)
  <2>1. CASE j = Pair(j)
    <3>1. i = Pair(j) + 1
      BY <1>2, <1>6, <2>1
    <3>2. o[q] = t[j] /\ o[q + 1] = t[i] /\ q # q + 1
      BY <1>3, <1>5, <2>1, <3>1
    <3> QED
      BY <1>3, <3>2
  <2>2. CASE j = Pair(j) + 1
    <3>1. i = Pair(j)
      BY <1>2, <1>6, <2>2
    <3>2. o[q + 1] = t[j] /\ o[q] = t[i] /\ q # q + 1
      BY <1>3, <1>5, <2>2, <3>1
    <3> QED
      BY <1>3, <3>2
  <2> QED
    BY <1>2, <2>1, <2>2
<1>7. CASE Pair(i) # Pair(j)
  <2>1. t[Pair(i)] # t[Pair(j)]
    BY <1>2, <1>7, MatchAssumption
  <2>2. q # r
    BY <1>3, <1>4, <2>1
  <2>3. q # r + 1 /\ r # q + 1
    BY <1>3, <1>4, <1>5
  <2>4. PICK m \in {q, q + 1} : o[m] = t[j]
    BY <1>2, <1>3
  <2>5. PICK n \in {r, r + 1} : o[n] = t[i]
    BY <1>2, <1>4
  <2>6. m # n
    BY <1>5, <2>2, <2>3
  <2> QED
    BY <1>3, <1>4, <2>4, <2>5, <2>6
<1> QED
  BY <1>6, <1>7

(* A map that the store matches, the matcher matches.                      *)
LEMMA MapMatched ==
  ASSUME NEW t \in Maps, NEW o \in Maps, MapFound(t, o),
         NEW kt \in DOMAIN t, NEW k \in DOMAIN o, o[k] = t[kt]
  PROVE  Matched(t, kt, o, k)
<1>1. ASSUME NEW j \in DOMAIN t \ {kt}
      PROVE  \E m, n \in DOMAIN o : m # n /\ o[m] = t[j] /\ o[n] = t[kt]
  <2>1. j \in DOMAIN t /\ kt # j
    OBVIOUS
  <2> QED
    BY <2>1, MapPlaces
<1>2. \A j \in DOMAIN t \ {kt} :
        \/ t[j] = Wild /\ \E m \in DOMAIN o : m # k
        \/ \E m, n \in DOMAIN o : m # n /\ o[m] = t[j] /\ o[n] = t[kt]
  BY <1>1
<1> QED
  BY <1>2, PlacesMatch

(* The key of a template that the store matches is a field of the object,  *)
(* so _process looks it up.                                                *)
LEMMA KeyIsThere ==
  ASSUME NEW t, NEW o, NEW tuple \in BOOLEAN,
         t \in (IF tuple THEN Tuples ELSE Maps), o \in (IF tuple THEN Tuples ELSE Maps),
         StoreMatch(t, o, tuple), NEW kt \in Concrete(t)
  PROVE  \E k \in DOMAIN o : o[k] = t[kt]
<1>1. CASE tuple
  <2>1. t \in Seq(Field) /\ o \in Seq(Field) /\ TupleFound(t, o)
    BY <1>1, MatchAssumption DEF StoreMatch
  <2> QED
    BY <2>1, TupleAgrees
<1>2. CASE ~tuple
  <2>1. t \in Seq(Field) /\ o \in Seq(Field) /\ Len(o) % 2 = 0 /\ MapFound(t, o)
    BY <1>2, MatchAssumption DEF StoreMatch
  <2>2. kt \in DOMAIN t
    BY DEF Concrete
  <2>3. Pair(kt) \in DOMAIN t /\ Pair(kt) % 2 = 1 /\ (kt = Pair(kt) \/ kt = Pair(kt) + 1)
    BY <2>1, <2>2, FieldOfPair
  <2>4. \E q \in DOMAIN o : /\ q % 2 = 1 /\ q + 1 \in DOMAIN o
                            /\ o[q] = t[Pair(kt)] /\ o[q + 1] = t[Pair(kt) + 1]
    BY <2>1, <2>3, PairsAgree
  <2> QED
    BY <2>3, <2>4
<1> QED
  BY <1>1, <1>2

-----------------------------------------------------------------------------

(* The inductive invariant: as long as the template has not matched, no    *)
(* field of the object behind pos was one at which it matches.             *)
Inv ==
  /\ TypeOK
  /\ ~matched => \A k \in 1 .. pos - 1 :
                   ~(obj[k] = tmpl[key_idx] /\ Matched(tmpl, key_idx, obj, k))

(* The template and the object are sequences.                              *)
LEMMA SequencesOK == TypeOK => tmpl \in Seq(Field) /\ obj \in Seq(Field)
BY MatchAssumption DEF TypeOK

(* The inductive invariant holds before the first field.                   *)
LEMMA InitInv == Init => Inv
<1> SUFFICES ASSUME Init PROVE Inv
  OBVIOUS
<1>1. obj \in Seq(Field)
  BY MatchAssumption DEF Init
<1>2. pos \in 1 .. Len(obj) + 1
  BY <1>1 DEF Init
<1>3. TypeOK
  BY <1>2 DEF Init, TypeOK, Filed
<1> QED
  BY <1>3 DEF Init, Inv

(* _process keeps the inductive invariant at every field.                  *)
LEMMA NextInv == Inv /\ [Next]_vars => Inv'
<1> SUFFICES ASSUME Inv, [Next]_vars PROVE Inv'
  OBVIOUS
<1>1. CASE ProcessField
  <2>1. /\ pos \in Nat /\ pos >= 1 /\ Len(obj) \in Nat /\ pos' = pos + 1
        /\ pos' \in 1 .. Len(obj) + 1
    BY <1>1, SequencesOK DEF Inv, TypeOK, ProcessField
  <2>2. tmpl' = tmpl /\ obj' = obj /\ is_tuple' = is_tuple /\ key_idx' = key_idx
    BY <1>1 DEF ProcessField
  <2>3. matched' \in BOOLEAN
    BY <1>1 DEF ProcessField
  <2>4. TypeOK'
    BY <2>1, <2>2, <2>3 DEF Inv, TypeOK
  <2>5. ASSUME ~matched', NEW k \in 1 .. pos' - 1
        PROVE  ~(obj[k] = tmpl[key_idx] /\ Matched(tmpl, key_idx, obj, k))
    <3>1. CASE k = pos
      BY <1>1, <2>5, <3>1 DEF ProcessField
    <3>2. CASE k # pos
      <4>1. k \in 1 .. pos - 1
        BY <2>1, <2>5, <3>2
      <4>2. ~matched
        BY <1>1 DEF ProcessField
      <4> QED
        BY <4>1, <4>2 DEF Inv
    <3> QED
      BY <3>1, <3>2
  <2>6. ~matched' => \A k \in 1 .. pos' - 1 :
                       ~(obj'[k] = tmpl'[key_idx'] /\ Matched(tmpl', key_idx', obj', k))
    BY <2>2, <2>5
  <2> QED
    BY <2>4, <2>6 DEF Inv, Matched
<1>2. CASE UNCHANGED vars
  BY <1>2 DEF vars, Inv, TypeOK, Matched, Concrete
<1> QED
  BY <1>1, <1>2 DEF Next

(* The inductive invariant says what it must: at the end of the fields the *)
(* one that has the key, which is there, was one at which it matches.      *)
LEMMA InvImplies == Inv => NoFalseNegative
<1> SUFFICES ASSUME Inv, pos > Len(obj), StoreMatch(tmpl, obj, is_tuple), ~matched
             PROVE  FALSE
  BY DEF NoFalseNegative, Inv, TypeOK
<1>1. /\ is_tuple \in BOOLEAN /\ key_idx \in Concrete(tmpl) /\ key_idx \in DOMAIN tmpl
      /\ tmpl \in (IF is_tuple THEN Tuples ELSE Maps)
      /\ obj \in (IF is_tuple THEN Tuples ELSE Maps)
  BY DEF Inv, TypeOK, Concrete
<1>2. PICK k \in DOMAIN obj : obj[k] = tmpl[key_idx]
  BY <1>1, KeyIsThere
<1>3. Matched(tmpl, key_idx, obj, k)
  <2>1. CASE is_tuple
    <3>1. tmpl \in Seq(Field) /\ obj \in Seq(Field) /\ TupleFound(tmpl, obj)
      BY <2>1, SequencesOK DEF Inv, StoreMatch
    <3> QED
      BY <1>1, <1>2, <3>1, TupleMatched
  <2>2. CASE ~is_tuple
    <3>1. tmpl \in Maps /\ obj \in Maps /\ MapFound(tmpl, obj)
      BY <1>1, <2>2 DEF StoreMatch
    <3> QED
      BY <1>1, <1>2, <3>1, MapMatched
  <2> QED
    BY <1>1, <2>1, <2>2
<1>4. k \in 1 .. pos - 1
  BY <1>2, SequencesOK DEF Inv, TypeOK
<1> QED
  BY <1>2, <1>3, <1>4 DEF Inv

(* An object the store would find is never missed by _process, whatever    *)
(* the field the template is filed under.                                  *)
THEOREM MatcherMissesNothing == Spec => []NoFalseNegative
<1>1. Init => Inv
  BY InitInv
<1>2. Inv /\ [Next]_vars => Inv'
  BY NextInv
<1>3. Inv => NoFalseNegative
  BY InvImplies
<1> QED
  BY <1>1, <1>2, <1>3, PTL DEF Spec

(* A template that matches at one field of the object finds its key there, *)
(* and each of its other fields somewhere else.                            *)
LEMMA MatchedFields ==
  ASSUME NEW t, NEW o, NEW kt \in DOMAIN t, NEW k \in DOMAIN o, o[k] = t[kt], Matched(t, kt, o, k)
  PROVE  \A j \in Concrete(t) : \E m \in DOMAIN o : o[m] = t[j]
<1> SUFFICES ASSUME NEW j \in DOMAIN t, t[j] # Wild PROVE \E m \in DOMAIN o : o[m] = t[j]
  BY DEF Concrete
<1>1. CASE j = kt
  BY <1>1
<1>2. CASE j # kt
  <2>1. \E m \in DOMAIN o \ {k} : t[j] \in {o[m], Wild}
    BY <1>2 DEF Matched
  <2> QED
    BY <2>1
<1> QED
  BY <1>1, <1>2

(* _process keeps the rule: a match is by the field it has looked up.      *)
LEMMA NextByRule == TypeOK /\ MatchIsByRule /\ [Next]_vars => MatchIsByRule'
<1> SUFFICES ASSUME TypeOK, MatchIsByRule, [Next]_vars PROVE MatchIsByRule'
  OBVIOUS
<1>1. CASE ProcessField
  <2>1. tmpl' = tmpl /\ obj' = obj
    BY <1>1 DEF ProcessField
  <2>2. key_idx \in DOMAIN tmpl /\ pos \in DOMAIN obj
    BY <1>1, SequencesOK DEF TypeOK, Concrete, ProcessField
  <2>3. matched' => \A j \in Concrete(tmpl) : \E m \in DOMAIN obj : obj[m] = tmpl[j]
    BY <1>1, <2>2, MatchedFields DEF ProcessField
  <2> QED
    BY <2>1, <2>3 DEF MatchIsByRule, Concrete
<1>2. CASE UNCHANGED vars
  BY <1>2 DEF vars, MatchIsByRule, Concrete
<1> QED
  BY <1>1, <1>2 DEF Next

(* The rule of Oed_Dispatcher.h: whatever the field a template is filed    *)
(* under and the one it is found by, every field of a template that        *)
(* _process matches is a field of the object.                              *)
THEOREM MatchesAreByRule == Spec => []MatchIsByRule
<1>1. Init => Inv /\ MatchIsByRule
  BY InitInv DEF Init, MatchIsByRule
<1>2. Inv /\ MatchIsByRule /\ [Next]_vars => Inv' /\ MatchIsByRule'
  BY NextInv, NextByRule DEF Inv
<1> QED
  BY <1>1, <1>2, PTL DEF Spec
=============================================================================
