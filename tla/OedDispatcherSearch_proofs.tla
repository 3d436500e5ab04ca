--------------------- MODULE OedDispatcherSearch_proofs ---------------------
(***************************************************************************)
(* Proofs about what the matcher finds and whom it answers, on top of the  *)
(* types and the order of OedDispatcher_proofs.                            *)
(*                                                                         *)
(* A template in the table is filed under one of its own fields (Filed),   *)
(* and the array that _process goes through holds templates filed under    *)
(* the field of the object that it is at (Scanning). From there: a         *)
(* template that matches by the rule is in the array or under a field      *)
(* still to come (Searching), and a template whose handler may still run   *)
(* is of a group that has had no answer (Owing).                           *)
(*                                                                         *)
(* Both need a hypothesis about the templates, which the code does not     *)
(* check and without which the claim is false: Plain for the first, Apart  *)
(* for the second.                                                         *)
(***************************************************************************)
EXTENDS OedDispatcher_proofs

-----------------------------------------------------------------------------
(* Where a template is filed.                                              *)

Key(t) == Field(t, entry[t].key_idx)

(* A template that is registered is in the set of its key and in no other, *)
(* and a timer is one of a template that was registered.                   *)
Filed ==
  /\ \A t \in Sid : entry[t].where = "set" =>
       entry[t].key_idx \in Concrete(t) /\ Key(t) \in DOMAIN items /\ t \in items[Key(t)]
  /\ \A key \in DOMAIN items : \A t \in items[key] : entry[t].where = "set" /\ Key(t) = key
  /\ \A t \in Sid : entry[t].timer => entry[t].where # "new"

(* A step that leaves alone what Filed is about.                           *)
LEMMA SameFiled ==
  ASSUME Table, Filed, items' = items,
         \A t \in Sid : /\ entry'[t].where = entry[t].where /\ entry'[t].key_idx = entry[t].key_idx
                        /\ entry'[t].timer = entry[t].timer
  PROVE  Filed'
<1>1. \A key \in DOMAIN items : items[key] \subseteq Sid
  BY Zenon DEF Table
<1>2. \A t \in Sid : Field(t, entry'[t].key_idx) = Key(t)
  BY Zenon DEF Key
<1>3. \A t \in Sid : entry'[t].where = "set" =>
        /\ entry'[t].key_idx \in Concrete(t) /\ Field(t, entry'[t].key_idx) \in DOMAIN items'
        /\ t \in items'[Field(t, entry'[t].key_idx)]
  BY <1>2, Zenon DEF Filed
<1>4. \A key \in DOMAIN items' : \A t \in items'[key] :
        entry'[t].where = "set" /\ Field(t, entry'[t].key_idx) = key
  BY <1>1, <1>2, Zenon DEF Filed
<1>5. \A t \in Sid : entry'[t].timer => entry'[t].where # "new"
  BY Zenon DEF Filed
<1> QED
  BY <1>3, <1>4, <1>5, Zenon DEF Filed, Key

(* _add_template files a new template.                                     *)
LEMMA AddFiled ==
  ASSUME Table, Filed, NEW t \in Sid, entry[t].where = "new", AddTemplate(t)
  PROVE  Filed'
<1>1. \A m \in Sid \ {t} : entry'[m] = entry[m]
  BY AddedEntry, Zenon
<1>2. entry'[t].where = IF Concrete(t) = {} THEN "loose" ELSE "set"
  BY AddedEntry, Zenon
<1>3. \A key \in DOMAIN items : items[key] \subseteq Sid /\ t \notin items[key]
  <2>1. "new" # "set"
    BY Zenon
  <2> QED
    BY <2>1, Zenon DEF Table, Filed
<1>4. \A m \in Sid : entry'[m].timer => entry'[m].where # "new"
  <2>1. entry'[t].where # "new"
    BY <1>2, Zenon
  <2> QED
    BY <1>1, <2>1, Zenon DEF Filed
<1>5. CASE Concrete(t) = {} /\ items' = items
  <2>1. entry'[t].where # "set"
    BY <1>2, <1>5, Zenon
  <2>2. \A m \in Sid : entry'[m].where = "set" =>
          /\ entry'[m].key_idx \in Concrete(m) /\ Field(m, entry'[m].key_idx) \in DOMAIN items'
          /\ m \in items'[Field(m, entry'[m].key_idx)]
    BY <1>1, <1>5, <2>1, Zenon DEF Filed, Key
  <2>3. \A key \in DOMAIN items' : \A m \in items'[key] :
          entry'[m].where = "set" /\ Field(m, entry'[m].key_idx) = key
    BY <1>1, <1>3, <1>5, Zenon DEF Filed, Key
  <2> QED
    BY <1>4, <2>2, <2>3, Zenon DEF Filed, Key
<1>6. ASSUME NEW k, FiledUnder(t, k) PROVE Filed'
  <2>1. /\ entry'[t].key_idx \in Concrete(t) /\ k = Field(t, entry'[t].key_idx)
        /\ DOMAIN items' = DOMAIN items \cup {k}
        /\ \A f \in DOMAIN items : items'[f] = IF f = k THEN items[f] \cup {t} ELSE items[f]
        /\ k \notin DOMAIN items => items'[k] = {t}
    BY <1>6, Zenon DEF FiledUnder
  <2>2. entry'[t].where = "set"
    BY <1>2, <2>1, Zenon
  <2>3. \A f \in DOMAIN items : items[f] \subseteq items'[f] /\ items'[f] \subseteq items[f] \cup {t}
    BY <2>1, Zenon
  <2>4. t \in items'[k] /\ \A f \in DOMAIN items' : f # k => f \in DOMAIN items /\ items'[f] = items[f]
    BY <2>1, Zenon
  <2>5. ASSUME NEW m \in Sid, entry'[m].where = "set"
        PROVE  /\ entry'[m].key_idx \in Concrete(m) /\ Field(m, entry'[m].key_idx) \in DOMAIN items'
               /\ m \in items'[Field(m, entry'[m].key_idx)]
    <3>1. CASE m = t
      BY <2>1, <2>4, <3>1, Zenon
    <3>2. CASE m # t
      <4>1. /\ entry[m].where = "set" /\ entry'[m].key_idx = entry[m].key_idx
        BY <1>1, <2>5, <3>2, Zenon
      <4>2. entry[m].key_idx \in Concrete(m) /\ Key(m) \in DOMAIN items /\ m \in items[Key(m)]
        BY <4>1, Zenon DEF Filed
      <4>3. Field(m, entry'[m].key_idx) = Key(m)
        BY <4>1, Zenon DEF Key
      <4> QED
        BY <2>1, <2>3, <4>1, <4>2, <4>3, Zenon
    <3> QED
      BY <3>1, <3>2, Zenon
  <2>6. ASSUME NEW f \in DOMAIN items', NEW m \in items'[f]
        PROVE  entry'[m].where = "set" /\ Field(m, entry'[m].key_idx) = f
    <3>1. CASE m = t
      <4>1. f = k
        BY <1>3, <2>4, <2>6, <3>1, Zenon
      <4> QED
        BY <2>1, <2>2, <3>1, <4>1, Zenon
    <3>2. CASE m # t
      <4>1. f \in DOMAIN items /\ m \in items[f]
        <5>1. CASE f \in DOMAIN items
          BY <2>3, <2>6, <3>2, <5>1, Zenon
        <5>2. CASE f \notin DOMAIN items
          BY <2>1, <2>6, <3>2, <5>2, Zenon
        <5> QED
          BY <5>1, <5>2, Zenon
      <4>2. m \in Sid /\ entry[m].where = "set" /\ Key(m) = f
        BY <1>3, <4>1, Zenon DEF Filed
      <4> QED
        BY <1>1, <3>2, <4>2, Zenon DEF Key
    <3> QED
      BY <3>1, <3>2, Zenon
  <2> QED
    BY <1>4, <2>5, <2>6, Zenon DEF Filed, Key
<1> QED
  BY <1>5, <1>6, AddedItems, Zenon

(* _remove_item takes out what it frees, and frees no set that is in use.  *)
LEMMA RemoveFiled ==
  ASSUME Table, Filed, NEW t \in Sid, NEW timeout \in BOOLEAN, NEW extra, Removed(t, timeout, extra)
  PROVE  Filed'
<1>1. /\ \A m \in Sid : entry'[m].where = IF m \in Found(t) THEN "freed" ELSE entry[m].where
      /\ \A m \in Sid : entry'[m].key_idx = entry[m].key_idx
      /\ \A m \in Sid : entry'[m].timer => entry[m].timer /\ m \notin Found(t)
  BY RemovedEntry, Zenon
<1>2. \A m \in Sid : /\ m \in Found(t) => entry'[m].where = "freed"
                     /\ m \notin Found(t) => entry'[m].where = entry[m].where
  BY <1>1, Zenon
<1>3. items' = [key \in {f \in DOMAIN items : ~Emptied(f, Found(t))} |-> items[key] \ Found(t)]
  BY Zenon DEF Removed
<1>4. /\ DOMAIN items' = {f \in DOMAIN items : ~Emptied(f, Found(t))}
      /\ \A f \in DOMAIN items' : items'[f] = items[f] \ Found(t)
  BY <1>3, Zenon
<1>5. \A f : Emptied(f, Found(t)) => items[f] \subseteq Found(t)
  BY Zenon DEF Emptied
<1>6. \A m \in Sid : Field(m, entry'[m].key_idx) = Key(m)
  BY <1>1, Zenon DEF Key
<1>7. "freed" # "set"
  BY Zenon
<1>8. ASSUME NEW m \in Sid, entry'[m].where = "set"
      PROVE  entry'[m].key_idx \in Concrete(m) /\ Key(m) \in DOMAIN items' /\ m \in items'[Key(m)]
  <2>1. m \notin Found(t) /\ entry[m].where = "set"
    BY <1>2, <1>7, <1>8, Zenon
  <2>2. entry[m].key_idx \in Concrete(m) /\ Key(m) \in DOMAIN items /\ m \in items[Key(m)]
    BY <2>1, Zenon DEF Filed
  <2>3. Key(m) \in DOMAIN items'
    BY <1>4, <1>5, <2>1, <2>2, Zenon
  <2> QED
    BY <1>1, <1>4, <2>1, <2>2, <2>3, Zenon
<1>9. ASSUME NEW f \in DOMAIN items', NEW m \in items'[f]
      PROVE  m \in Sid /\ entry'[m].where = "set" /\ Key(m) = f
  <2>1. f \in DOMAIN items /\ m \in items[f] /\ m \notin Found(t)
    BY <1>4, <1>9, Zenon
  <2>2. m \in Sid /\ entry[m].where = "set" /\ Key(m) = f
    BY <2>1, Zenon DEF Filed, Table
  <2> QED
    BY <1>2, <2>1, <2>2, Zenon
<1>10. \A m \in Sid : entry'[m].timer => entry'[m].where # "new"
  BY <1>1, <1>2, Zenon DEF Filed
<1> QED
  BY <1>6, <1>8, <1>9, <1>10, Zenon DEF Filed, Key

(* _free_items leaves every other set as it is.                            *)
LEMMA QuitFiled ==
  ASSUME Table, Filed, DoQuit
  PROVE  Filed' /\ Beyond' = Beyond
<1>1. PICK D \in SUBSET DOMAIN items :
        /\ items' = [key \in DOMAIN items \ D |-> items[key]]
        /\ entry' = [t \in Sid |-> IF \E key \in D : t \in items[key]
                                   THEN [entry[t] EXCEPT !.where = "stale"] ELSE entry[t]]
  BY Zenon DEF DoQuit
<1>2. DOMAIN items' = DOMAIN items \ D /\ \A f \in DOMAIN items' : items'[f] = items[f]
  BY <1>1, Zenon
<1>3. \A m \in Sid : (\E f \in D : m \in items[f]) => entry'[m].where = "stale" /\ entry[m].where = "set"
  <2>1. \A m \in Sid : (\E f \in D : m \in items[f]) => entry'[m].where = "stale"
    BY <1>1, Zenon DEF Table, EntryType
  <2> QED
    BY <2>1, Zenon DEF Filed
<1>4. \A m \in Sid : (~\E f \in D : m \in items[f]) => entry'[m] = entry[m]
  BY <1>1, Zenon
<1>5. \A m \in Sid : entry'[m].key_idx = entry[m].key_idx /\ entry'[m].timer = entry[m].timer
  BY QuitEntry, Zenon
<1>6. \A m \in Sid : Field(m, entry'[m].key_idx) = Key(m)
  BY <1>5, Zenon DEF Key
<1>7. "stale" # "set" /\ "stale" # "new" /\ "set" # "new"
  BY Zenon
<1>8. ASSUME NEW m \in Sid, entry'[m].where = "set"
      PROVE  entry'[m].key_idx \in Concrete(m) /\ Key(m) \in DOMAIN items' /\ m \in items'[Key(m)]
  <2>1. entry[m].where = "set" /\ ~\E f \in D : m \in items[f]
    BY <1>3, <1>4, <1>7, <1>8, Zenon
  <2>2. entry[m].key_idx \in Concrete(m) /\ Key(m) \in DOMAIN items /\ m \in items[Key(m)]
    BY <2>1, Zenon DEF Filed
  <2> QED
    BY <1>2, <1>5, <2>1, <2>2, Zenon
<1>9. ASSUME NEW f \in DOMAIN items', NEW m \in items'[f]
      PROVE  m \in Sid /\ entry'[m].where = "set" /\ Key(m) = f
  <2>1. f \in DOMAIN items \ D /\ m \in items[f]
    BY <1>2, <1>9, Zenon
  <2>2. m \in Sid /\ entry[m].where = "set" /\ Key(m) = f
    BY <2>1, Zenon DEF Filed, Table
  <2>3. ~\E h \in D : m \in items[h]
    BY <2>1, <2>2, Zenon DEF Filed
  <2> QED
    BY <1>4, <2>2, <2>3, Zenon
<1>10. \A m \in Sid : entry'[m].where # "new" <=> entry[m].where # "new"
  BY <1>3, <1>4, <1>7, Zenon
<1>11. \A m \in Sid : entry'[m].timer => entry'[m].where # "new"
  BY <1>5, <1>10, Zenon DEF Filed
<1>12. Filed'
  BY <1>6, <1>8, <1>9, <1>11, Zenon DEF Filed, Key
<1> QED
  BY <1>10, <1>12, Zenon DEF Beyond

-----------------------------------------------------------------------------
(* The search for an object.                                               *)

(* The array _processSet works on is of templates that have, or had, the   *)
(* field it looks at as their key.                                         *)
Scanning ==
  ~crashed /\ loop.at = "process" =>
    /\ loop.object \in Object /\ loop.k \in 0 .. Len(loop.object)
    /\ \A t \in loop.array : /\ t \in Sid /\ loop.k > 0 /\ entry[t].where \in {"set", "freed"}
                             /\ entry[t].key_idx \in Concrete(t) /\ Key(t) = loop.object[loop.k]

(* The array is still the one it was, or part of it.                       *)
LEMMA ScanOn ==
  ASSUME Scanning, ~crashed, loop.at = "process",
         loop'.object = loop.object, loop'.k = loop.k, loop'.array \subseteq loop.array,
         \A t \in Sid : /\ entry'[t].key_idx = entry[t].key_idx
                        /\ entry'[t].where = entry[t].where \/ entry'[t].where = "freed"
  PROVE  Scanning'
<1>1. /\ loop.object \in Object /\ loop.k \in 0 .. Len(loop.object)
      /\ \A t \in loop.array : /\ t \in Sid /\ loop.k > 0 /\ entry[t].where \in {"set", "freed"}
                               /\ entry[t].key_idx \in Concrete(t) /\ Key(t) = loop.object[loop.k]
  BY Zenon DEF Scanning
<1>2. loop'.object \in Object /\ loop'.k \in 0 .. Len(loop'.object)
  BY <1>1, Zenon
<1>3. ASSUME NEW t \in loop'.array
      PROVE  /\ t \in Sid /\ loop'.k > 0 /\ entry'[t].where \in {"set", "freed"}
             /\ entry'[t].key_idx \in Concrete(t) /\ Field(t, entry'[t].key_idx) = loop'.object[loop'.k]
  <2>1. t \in loop.array
    BY <1>3, Zenon
  <2>2. /\ t \in Sid /\ loop.k > 0 /\ entry[t].where \in {"set", "freed"}
        /\ entry[t].key_idx \in Concrete(t) /\ Key(t) = loop.object[loop.k]
    BY <1>1, <2>1, Zenon
  <2> QED
    BY <2>2, Zenon DEF Key
<1> QED
  BY <1>2, <1>3, Zenon DEF Scanning, Key

(* _do_process starts before the first field, with an empty array.         *)
LEMMA ScanStart ==
  ASSUME Inv, DoProcess
  PROVE  Scanning' /\ loop'.object \in Object /\ loop'.k = 0 /\ loop'.array = {}
<1>1. Head(que) \in QueItem /\ Head(que).type = "PROCESS"
  BY DEF DoProcess, QuePop, Inv, QueInv
<1>2. PICK o \in Object : Head(que) = Process(o)
  BY <1>1 DEF QueItem, Reg, Unreg, Process, Execute, Heartbeat, Tquit
<1>3. Head(que).object = o
  BY <1>2 DEF Process
<1>4. loop'.object = o /\ loop'.k = 0 /\ loop'.array = {}
  BY <1>3, Zenon DEF DoProcess, InProcess
<1>5. loop'.object \in Object /\ Len(o) \in Nat
  BY <1>4, DispatcherAssumption, Zenon
<1>6. loop'.k \in 0 .. Len(loop'.object)
  BY <1>4, <1>5
<1> QED
  BY <1>4, <1>5, <1>6, Zenon DEF Scanning

(* _process goes on to the next field.                                     *)
LEMMA FieldStep ==
  ASSUME NextField, loop.k # Len(loop.object)
  PROVE  /\ loop'.object = loop.object /\ loop'.k = loop.k + 1 /\ UNCHANGED <<entry, items, crashed>>
         /\ loop'.array = IF loop.object[loop.k + 1] \in DOMAIN items
                          THEN items[loop.object[loop.k + 1]] ELSE {}
<1>1. InProcess(loop.object, loop.k + 1, IF loop.object[loop.k + 1] \in DOMAIN items
                                         THEN items[loop.object[loop.k + 1]] ELSE {})
  BY Zenon DEF NextField
<1>2. UNCHANGED <<entry, items, crashed>>
  BY Zenon DEF NextField
<1>3. PICK a : a = IF loop.object[loop.k + 1] \in DOMAIN items THEN items[loop.object[loop.k + 1]] ELSE {}
  BY Zenon
<1>4. InProcess(loop.object, loop.k + 1, a)
  BY <1>1, <1>3, Zenon
<1>5. loop'.object = loop.object /\ loop'.k = loop.k + 1 /\ loop'.array = a
  BY <1>4, Zenon DEF InProcess
<1> QED
  BY <1>2, <1>3, <1>5, Zenon

(* The next field: the array is filled from the set of that field, and     *)
(* with it the scan is where it says.                                      *)
LEMMA ScanNext ==
  ASSUME Table, Filed, Scanning, NextField
  PROVE  Scanning'
<1>1. ~crashed /\ loop.at = "process"
  BY Zenon DEF NextField, Running
<1>2. loop.object \in Object /\ loop.k \in 0 .. Len(loop.object)
  BY <1>1, Zenon DEF Scanning
<1>3. CASE loop.k = Len(loop.object)
  <2>1. loop'.at # "process"
    BY <1>3 DEF NextField, Done, Batch
  <2> QED
    BY <2>1, Zenon DEF Scanning
<1>4. CASE loop.k # Len(loop.object)
  <2>1. PICK o \in Object : o = loop.object /\ Len(o) \in Nat
    BY <1>2, DispatcherAssumption, Zenon
  <2>2. PICK k : k = loop.k + 1
    BY Zenon
  <2>3. k \in 0 .. Len(o) /\ k > 0
    BY <1>2, <1>4, <2>1, <2>2
  <2>4. loop'.object = o /\ loop'.k = k /\ entry' = entry
        /\ loop'.array = IF o[k] \in DOMAIN items THEN items[o[k]] ELSE {}
    BY <1>4, <2>1, <2>2, FieldStep, Zenon
  <2>5. ASSUME NEW t \in loop'.array
        PROVE  /\ t \in Sid /\ entry'[t].where \in {"set", "freed"}
               /\ entry'[t].key_idx \in Concrete(t) /\ Field(t, entry'[t].key_idx) = o[k]
    <3>1. o[k] \in DOMAIN items /\ t \in items[o[k]]
      BY <2>4, <2>5, Zenon
    <3>2. t \in Sid /\ entry[t].where = "set" /\ Key(t) = o[k]
      BY <3>1, Zenon DEF Filed, Table
    <3>3. entry[t].key_idx \in Concrete(t)
      BY <3>2, Zenon DEF Filed
    <3> QED
      BY <2>4, <3>2, <3>3, Zenon DEF Key
  <2> QED
    BY <2>3, <2>4, <2>5, Zenon DEF Scanning, Key
<1> QED
  BY <1>3, <1>4, Zenon

(* What a visit does to the search, when it is not the end of it.          *)
LEMMA VisitStep ==
  ASSUME NEW t \in Sid, Visit(t), ~crashed', loop'.at = "process"
  PROVE  /\ ~crashed /\ loop.at = "process" /\ t \in loop.array
         /\ loop'.object = loop.object /\ loop'.k = loop.k /\ loop'.array = loop.array \ {t}
         /\ \/ ~Matched(t) /\ UNCHANGED table
            \/ /\ Matched(t) /\ t[1] \notin Consume
               /\ \E extra \in {0, 1} : Removed(t, FALSE, extra)
<1>1. ~crashed /\ loop.at = "process" /\ t \in loop.array
  BY Zenon DEF Visit, Running
<1>2. CASE ~Matched(t)
  <2>1. InProcess(loop.object, loop.k, loop.array \ {t}) /\ UNCHANGED table
    BY <1>2, Zenon DEF Visit, table
  <2>2. loop'.object = loop.object /\ loop'.k = loop.k /\ loop'.array = loop.array \ {t}
    BY <2>1, Zenon DEF InProcess
  <2> QED
    BY <1>1, <1>2, <2>1, <2>2, Zenon
<1>3. CASE Matched(t)
  <2>1. /\ Remove(t, FALSE, IF entry[t].handlers THEN 1 ELSE 0)
        /\ IF t[1] \in Consume THEN Done ELSE InProcess(loop.object, loop.k, loop.array \ {t})
    BY <1>3, Zenon DEF Visit
  <2>2. t[1] \notin Consume
    <3>1. ~Done
      BY DEF Done, Batch
    <3> QED
      BY <2>1, <3>1, Zenon
  <2>3. InProcess(loop.object, loop.k, loop.array \ {t})
    BY <2>1, <2>2, Zenon
  <2>4. loop'.object = loop.object /\ loop'.k = loop.k /\ loop'.array = loop.array \ {t}
    BY <2>3, Zenon DEF InProcess
  <2>5. PICK x \in {0, 1} : x = IF entry[t].handlers THEN 1 ELSE 0
    BY Zenon
  <2>6. Remove(t, FALSE, x)
    BY <2>1, <2>5, Zenon
  <2>7. Removed(t, FALSE, x)
    BY <2>6, Zenon DEF Remove
  <2> QED
    BY <1>1, <1>3, <2>2, <2>4, <2>5, <2>7, Zenon
<1> QED
  BY <1>2, <1>3, Zenon

(* A visit takes its template out of the array and leaves the rest of the  *)
(* scan as it was, whatever it removes from the table.                     *)
LEMMA ScanVisit ==
  ASSUME Table, Scanning, NEW t \in Sid, Visit(t)
  PROVE  Scanning'
<1>1. CASE crashed' \/ loop'.at # "process"
  BY <1>1, Zenon DEF Scanning
<1>2. CASE ~crashed' /\ loop'.at = "process"
  <2>1. /\ ~crashed /\ loop.at = "process"
        /\ loop'.object = loop.object /\ loop'.k = loop.k /\ loop'.array = loop.array \ {t}
    BY <1>2, VisitStep, Zenon
  <2>2. \A m \in Sid : /\ entry'[m].key_idx = entry[m].key_idx
                       /\ entry'[m].where = entry[m].where \/ entry'[m].where = "freed"
    <3>1. CASE UNCHANGED table
      BY <3>1, Zenon DEF table
    <3>2. ASSUME NEW x, Removed(t, FALSE, x)
          PROVE  \A m \in Sid : /\ entry'[m].key_idx = entry[m].key_idx
                                /\ entry'[m].where = entry[m].where \/ entry'[m].where = "freed"
      <4>1. FALSE \in BOOLEAN
        BY Zenon
      <4>2. \A m \in Sid : entry'[m].key_idx = entry[m].key_idx
        BY <3>2, <4>1, RemovedEntry, Zenon
      <4>3. \A m \in Sid : entry'[m].where = IF m \in Found(t) THEN "freed" ELSE entry[m].where
        BY <3>2, <4>1, RemovedEntry, Zenon
      <4> QED
        BY <4>2, <4>3, Zenon
    <3> QED
      BY <1>2, <3>1, <3>2, VisitStep, Zenon
  <2>3. loop'.array \subseteq loop.array
    BY <2>1, Zenon
  <2> QED
    BY <2>1, <2>2, <2>3, ScanOn, Zenon
<1> QED
  BY <1>1, <1>2, Zenon

(* A step that leaves the loop, the places and the keys of the templates   *)
(* alone leaves the scan as it was.                                        *)
LEMMA ScanSame ==
  ASSUME Scanning, loop' = loop, ~crashed' => ~crashed,
         \A t \in Sid : entry'[t].key_idx = entry[t].key_idx /\ entry'[t].where = entry[t].where
  PROVE  Scanning'
<1>1. CASE crashed' \/ loop'.at # "process"
  BY <1>1, Zenon DEF Scanning
<1>2. CASE ~crashed' /\ loop'.at = "process"
  BY <1>2, ScanOn, Zenon
<1> QED
  BY <1>1, <1>2, Zenon

(* A push says that a template is grouped, and no more.                    *)
LEMMA PushSame ==
  ASSUME Table, Inv, NEW c \in Caller, QuePush(c), NEW t \in Sid
  PROVE  /\ entry'[t].where = entry[t].where /\ entry'[t].key_idx = entry[t].key_idx
         /\ entry'[t].handlers = entry[t].handlers /\ entry'[t].timer = entry[t].timer
         /\ entry[t].grouped => entry'[t].grouped
         /\ Item(c) = Reg(t) => entry'[t].grouped
<1>1. CASE entry' = entry /\ Item(c) # Reg(t)
  BY <1>1, Zenon
<1>2. CASE entry' = entry /\ Item(c) = Reg(t)
  <2>1. Item(c).type = "REG" /\ Item(c).sid = t
    BY <1>2 DEF Reg
  <2>2. entry' = [entry EXCEPT ![t].grouped = TRUE]
    BY <2>1, Zenon DEF QuePush
  <2> QED
    BY <2>2, Zenon DEF Table, EntryType
<1>3. CASE entry' # entry
  <2>1. PICK m \in Sid : Item(c) = Reg(m) /\ entry' = [entry EXCEPT ![m].grouped = TRUE]
    BY <1>3, PushedEntry, Zenon
  <2>2. Item(c) = Reg(t) => t = m
    BY <2>1, RegIsOf, Zenon
  <2>3. entry'[m].grouped = TRUE /\ entry'[m].where = entry[m].where /\ entry'[m].key_idx = entry[m].key_idx
        /\ entry'[m].handlers = entry[m].handlers /\ entry'[m].timer = entry[m].timer
    BY <2>1, Zenon DEF Table, EntryType
  <2>4. t # m => entry'[t] = entry[t]
    BY <2>1, Zenon DEF Table
  <2> QED
    BY <2>2, <2>3, <2>4, Zenon
<1> QED
  BY <1>1, <1>2, <1>3, Zenon

Disp == Inv /\ Table /\ InOrder /\ Filed /\ Scanning

(* It holds when the matcher starts.                                       *)
LEMMA InitDisp == Init => Disp
<1> SUFFICES ASSUME Init PROVE Disp
  BY Zenon
<1>1. Inv /\ Table
  BY InitInv, InitTable, Zenon
<1>2. Regs(que) = {} /\ Line(que)
  BY ShortLine, Zenon DEF Init
<1>3. \A c \in Caller : caller[c] = Idle
  BY Zenon DEF Init
<1>4. Rest(Idle) = <<>> /\ Idle.todo = <<>>
  BY Zenon DEF Rest, Idle
<1>5. \A c \in Caller : Waiting[c] = {} /\ Line(Rest(caller[c])) /\ Whole(caller[c].todo)
  BY <1>3, <1>4, ShortLine, Zenon DEF Waiting
<1>6. \A t \in Sid : entry[t].where = "new" /\ ~entry[t].timer
  BY Zenon DEF Init, NewEntry
<1>7. \A g \in Group : group[g] = "none"
  BY Zenon DEF Init
<1>8. Beyond = {}
  BY <1>6, Zenon DEF Beyond
<1>9. InOrder
  BY <1>2, <1>5, <1>7, <1>8, Zenon DEF InOrder, Stages
<1>10. DOMAIN items = {} /\ loop.at # "process" /\ "new" # "set"
  BY Zenon DEF Init, Poll, Outside
<1> QED
  BY <1>1, <1>6, <1>9, <1>10, Zenon DEF Disp, Filed, Scanning

(* A step of a thread that pushes nothing.                                 *)
LEMMA ThreadDisp ==
  ASSUME Disp, Inv', Table', InOrder', UNCHANGED <<entry, items, loop>>, ~crashed' => ~crashed
  PROVE  Disp'
<1>1. Filed'
  BY SameFiled, Zenon DEF Disp
<1>2. Scanning'
  BY ScanSame, Zenon DEF Disp
<1> QED
  BY <1>1, <1>2, Zenon DEF Disp

(* Every step keeps it all.                                                *)
LEMMA NextDisp ==
  ASSUME Disp, [Next]_vars
  PROVE  Disp'
<1>1. Inv /\ Table /\ InOrder /\ Filed /\ Scanning /\ Inv' /\ Table'
  BY NextInv, NextTable, Zenon DEF Disp
<1>2. ASSUME loop'.at # "process" PROVE Scanning'
  BY <1>2, Zenon DEF Scanning
<1>3. CASE ReadPipe \/ HeartbeatByte \/ Exit
  <2>1. UNCHANGED <<que, caller, group, entry, items>> /\ loop'.at # "process"
    BY <1>3 DEF ReadPipe, HeartbeatByte, Exit, Batch, Poll, Outside
  <2>2. InOrder' /\ Filed'
    <3>1. Beyond' = Beyond /\ Waiting' = Waiting
      BY <2>1, Zenon DEF Beyond, Waiting
    <3> QED
      BY <1>1, <2>1, <3>1, SameFiled, Zenon DEF InOrder
  <2> QED
    BY <1>1, <1>2, <2>1, <2>2, Zenon DEF Disp
<1>4. CASE HeartbeatCb
  <2>1. UNCHANGED <<entry, items>> /\ loop'.at # "process"
    BY <1>4, Zenon DEF HeartbeatCb, Outside
  <2> QED
    BY <1>1, <1>2, <1>4, <2>1, BeatOrder, SameFiled, Zenon DEF Disp
<1>5. Done => loop'.at # "process"
  BY DEF Done, Batch
<1>6. CASE DoReg
  <2>1. PICK t \in Sid : t = Head(que).sid /\ entry[t].where = "new"
    BY <1>1, <1>6, RegisteredSid, RegIsNew, Zenon
  <2>2. AddTemplate(t)
    BY <1>6, <2>1, Zenon DEF DoReg
  <2>3. Done
    BY <1>6, Zenon DEF DoReg
  <2> QED
    BY <1>1, <1>2, <1>5, <1>6, <2>1, <2>2, <2>3, RegOrder, AddFiled, Zenon DEF Disp
<1>7. CASE DoUnreg \/ DoExecute \/ DoHeartbeat
  <2>1. PICK type : QuePop(type) /\ type # "REG"
    <3>1. "UNREG" # "REG" /\ "EXECUTE" # "REG" /\ "HEARTBEAT" # "REG"
      BY Zenon
    <3> QED
      BY <1>7, <3>1, Zenon DEF DoUnreg, DoExecute, DoHeartbeat
  <2>2. UNCHANGED <<group, entry, items>> /\ Done
    BY <1>7, Zenon DEF DoUnreg, DoExecute, DoHeartbeat
  <2>3. Beyond' = Beyond
    BY <2>2, Zenon DEF Beyond
  <2> QED
    BY <1>1, <1>2, <1>5, <2>1, <2>2, <2>3, PopOrder, SameFiled, Zenon DEF Disp
<1>8. CASE DoQuit
  <2>1. QuePop("TQUIT") /\ "TQUIT" # "REG" /\ group' = group /\ Done
    <3>1. "TQUIT" # "REG"
      BY Zenon
    <3> QED
      BY <1>8, <3>1, Zenon DEF DoQuit
  <2>2. Filed' /\ Beyond' = Beyond
    BY <1>1, <1>8, QuitFiled, Zenon
  <2>3. InOrder'
    BY <1>1, <2>1, <2>2, PopOrder, Zenon
  <2> QED
    BY <1>1, <1>2, <1>5, <2>1, <2>2, <2>3, Zenon DEF Disp
<1>9. CASE DoProcess
  <2>1. QuePop("PROCESS") /\ "PROCESS" # "REG" /\ UNCHANGED <<group, entry, items>>
    <3>1. "PROCESS" # "REG"
      BY Zenon
    <3> QED
      BY <1>9, <3>1, Zenon DEF DoProcess
  <2>2. Beyond' = Beyond
    BY <2>1, Zenon DEF Beyond
  <2> QED
    BY <1>1, <1>9, <2>1, <2>2, PopOrder, SameFiled, ScanStart, Zenon DEF Disp
<1>10. CASE NextField
  <2>1. UNCHANGED <<que, caller, group, entry, items>>
    BY <1>10, Zenon DEF NextField
  <2>2. Beyond' = Beyond /\ Waiting' = Waiting
    BY <2>1, Zenon DEF Beyond, Waiting
  <2>3. InOrder'
    BY <1>1, <2>1, <2>2, Zenon DEF InOrder
  <2> QED
    BY <1>1, <1>10, <2>1, <2>3, SameFiled, ScanNext, Zenon DEF Disp
<1>11. ASSUME NEW t \in Sid, Visit(t) \/ TimeoutCb(t) PROVE Disp'
  <2>1. UNCHANGED <<que, caller>>
    BY <1>11, Zenon DEF Visit, TimeoutCb
  <2>2. Scanning'
    <3>1. CASE Visit(t)
      BY <1>1, <3>1, ScanVisit, Zenon
    <3>2. CASE TimeoutCb(t)
      <4>1. loop'.at # "process"
        BY <3>2, Zenon DEF TimeoutCb
      <4> QED
        BY <1>2, <4>1, Zenon
    <3> QED
      BY <1>11, <3>1, <3>2, Zenon
  <2>3. CASE UNCHANGED table
    <3>1. UNCHANGED <<group, entry, items>>
      BY <2>3, Zenon DEF table
    <3>2. Beyond' = Beyond /\ Waiting' = Waiting
      BY <2>1, <3>1, Zenon DEF Beyond, Waiting
    <3>3. InOrder'
      BY <1>1, <2>1, <3>1, <3>2, Zenon DEF InOrder
    <3> QED
      BY <1>1, <2>2, <3>1, <3>3, SameFiled, Zenon DEF Disp
  <2>4. CASE ~(UNCHANGED table)
    <3>1. PICK timeout \in BOOLEAN, extra \in {0, 1} : Removed(t, timeout, extra)
      BY <1>11, <2>4, RemoveSteps, Zenon
    <3>2. entry[t].where # "new"
      <4>1. CASE Visit(t)
        <5>1. t \in loop.array /\ ~crashed /\ loop.at = "process"
          BY <4>1, Zenon DEF Visit, Running
        <5>2. entry[t].where \in {"set", "freed"}
          BY <1>1, <5>1, Zenon DEF Scanning
        <5> QED
          BY <5>2, Zenon
      <4>2. CASE TimeoutCb(t)
        BY <1>1, <4>2, Zenon DEF TimeoutCb, Filed
      <4> QED
        BY <1>11, <4>1, <4>2, Zenon
    <3>3. InOrder'
      BY <1>1, <2>1, <3>1, <3>2, RemoveOrder, Zenon
    <3>4. Filed'
      BY <1>1, <3>1, RemoveFiled, Zenon
    <3> QED
      BY <1>1, <2>2, <3>3, <3>4, Zenon DEF Disp
  <2> QED
    BY <2>3, <2>4, Zenon
<1>12. ASSUME NEW t \in Sid, FreedItemRead(t) PROVE Disp'
  <2>1. UNCHANGED <<que, caller, group, entry, items, loop>> /\ crashed' = TRUE
    BY <1>12, Zenon DEF FreedItemRead
  <2>2. Beyond' = Beyond /\ Waiting' = Waiting
    BY <2>1, Zenon DEF Beyond, Waiting
  <2>3. InOrder'
    BY <1>1, <2>1, <2>2, Zenon DEF InOrder
  <2> QED
    BY <1>1, <2>1, <2>3, ThreadDisp, Zenon
<1>13. ASSUME NEW c \in Caller, QuePush(c) PROVE Disp'
  <2>1. InOrder'
    BY <1>1, <1>13, PushOrder, Zenon
  <2>2. UNCHANGED <<items, loop, crashed>>
    BY <1>13, Zenon DEF QuePush
  <2>3. \A t \in Sid : /\ entry'[t].where = entry[t].where /\ entry'[t].key_idx = entry[t].key_idx
                       /\ entry'[t].timer = entry[t].timer
    BY <1>1, <1>13, PushSame, Zenon
  <2> QED
    BY <1>1, <2>1, <2>2, <2>3, SameFiled, ScanSame, Zenon DEF Disp
<1>14. ASSUME NEW c \in Caller, WriteByte(c) PROVE Disp'
  <2>1. UNCHANGED <<entry, items, loop, crashed>>
    BY <1>14, Zenon DEF WriteByte
  <2> QED
    BY <1>1, <1>14, <2>1, WriteOrder, ThreadDisp, Zenon
<1>15. ASSUME NEW c \in Caller, EndGroup(c) \/ FreedListRead(c) PROVE Disp'
  <2>1. UNCHANGED <<que, group, entry, items, loop>> /\ (crashed' = crashed \/ crashed' = TRUE)
    BY <1>15, Zenon DEF EndGroup, FreedListRead
  <2>2. InOrder'
    <3>1. CASE caller' = caller
      <4>1. Beyond' = Beyond /\ Waiting' = Waiting
        BY <2>1, <3>1, Zenon DEF Beyond, Waiting
      <4> QED
        BY <1>1, <2>1, <3>1, <4>1, Zenon DEF InOrder
    <3>2. CASE caller' # caller
      BY <1>1, <1>15, <3>2, EndOrder, Zenon
    <3> QED
      BY <3>1, <3>2, Zenon
  <2>3. ~crashed' => ~crashed
    BY <2>1, Zenon
  <2> QED
    BY <1>1, <2>1, <2>2, <2>3, ThreadDisp, Zenon
<1>16. ASSUME NEW c \in Caller, Submit(c) \/ Stop(c) PROVE Disp'
  <2>1. PICK x : Call(c, <<x>>) /\ x.type # "REG"
    <3>1. ASSUME NEW o PROVE Process(o).type # "REG" /\ Unreg(o).type # "REG"
      BY Zenon DEF Process, Unreg
    <3>2. Execute.type # "REG" /\ Tquit.type # "REG"
      BY Zenon DEF Execute, Tquit
    <3> QED
      BY <1>16, <3>1, <3>2, Zenon DEF Submit, Stop
  <2>2. group' = group /\ UNCHANGED <<entry, items, loop, crashed>>
    BY <1>16, Zenon DEF Submit, Stop, Call
  <2> QED
    BY <1>1, <2>1, <2>2, CallOrder, ThreadDisp, Zenon
<1>17. ASSUME NEW c \in Caller, NEW g \in Group, RegGroup(c, g) PROVE Disp'
  <2>1. UNCHANGED <<entry, items, loop, crashed>>
    BY <1>17, Zenon DEF RegGroup, Call
  <2> QED
    BY <1>1, <1>17, <2>1, GroupOrder, ThreadDisp, Zenon
<1>18. CASE UNCHANGED vars
  <2>1. UNCHANGED <<que, caller, group, entry, items, loop, crashed>>
    BY <1>18, Zenon DEF vars
  <2>2. Beyond' = Beyond /\ Waiting' = Waiting
    BY <2>1, Zenon DEF Beyond, Waiting
  <2>3. InOrder'
    BY <1>1, <2>1, <2>2, Zenon DEF InOrder
  <2> QED
    BY <1>1, <2>1, <2>3, ThreadDisp, Zenon
<1> QED
  BY <1>3, <1>4, <1>6, <1>7, <1>8, <1>9, <1>10, <1>11, <1>12, <1>13, <1>14, <1>15, <1>16, <1>17, <1>18, Zenon
     DEF Next, Loop, Return

-----------------------------------------------------------------------------
(* The search misses nothing that matches.                                 *)

(* What the search and the rule agree on: no template repeats a field, and *)
(* one with a wildcard meets objects of two fields or more only.  (The key *)
(* is matched by its own field of the object, and that one is not looked   *)
(* at again for the others, be they equal to it or a wildcard.)            *)
Plain ==
  \A t \in Sid : /\ \A i, j \in Concrete(t) : Field(t, i) = Field(t, j) => i = j
                 /\ Index(t) # Concrete(t) => \A o \in Object : Len(o) > 1

(* A template that matches by the rule is in the array, or under a key     *)
(* that is still to come.                                                  *)
Searching ==
  ~crashed /\ loop.at = "process" =>
    \A t \in Sid : entry[t].where = "set" /\ Rule(t, loop.object) =>
      t \in loop.array \/ \E j \in loop.k + 1 .. Len(loop.object) : loop.object[j] = Key(t)

(* What _processSet compares is the rule, for a template in its array.     *)
LEMMA MatchedByRule ==
  ASSUME Plain, Disp, ~crashed, loop.at = "process", NEW t \in loop.array, Rule(t, loop.object)
  PROVE  Matched(t)
<1>1. PICK o \in Object : o = loop.object /\ Len(o) \in Nat /\ DOMAIN o = 1 .. Len(o)
  BY DispatcherAssumption, Zenon DEF Disp, Scanning
<1>2. PICK k : k = loop.k
  BY Zenon
<1>3. PICK x : x = entry[t].key_idx
  BY Zenon
<1>4. t \in Sid /\ k \in 0 .. Len(o) /\ k > 0 /\ x \in Concrete(t) /\ Field(t, x) = o[k]
  BY <1>1, <1>2, <1>3, Zenon DEF Disp, Scanning, Key
<1>5. k \in DOMAIN o
  BY <1>1, <1>4
<1>6. ASSUME NEW j \in Index(t) \ {x} PROVE \E i \in DOMAIN o \ {k} : Field(t, j) \in {o[i], Wild}
  <2>1. CASE Field(t, j) # Wild
    <3>1. j \in Concrete(t)
      BY <1>6, <2>1, Zenon DEF Concrete
    <3>2. PICK i \in DOMAIN o : o[i] = Field(t, j)
      BY <1>1, <3>1, Zenon DEF Rule
    <3>3. i # k
      BY <1>4, <1>6, <3>1, <3>2, Zenon DEF Plain
    <3> QED
      BY <3>2, <3>3, Zenon
  <2>2. CASE Field(t, j) = Wild
    <3>1. Index(t) # Concrete(t)
      BY <1>6, <2>2, Zenon DEF Concrete
    <3>2. Len(o) > 1
      BY <1>4, <3>1, Zenon DEF Plain
    <3>3. \E i \in 1 .. Len(o) : i # k
      <4>1. 1 \in 1 .. Len(o) /\ 2 \in 1 .. Len(o) /\ 1 # 2
        BY <1>1, <3>2
      <4> QED
        BY <4>1, Zenon
    <3> QED
      BY <1>1, <2>2, <3>3, Zenon
  <2> QED
    BY <2>1, <2>2, Zenon
<1> QED
  BY <1>1, <1>2, <1>3, <1>6, Zenon DEF Matched

(* Before the first field nothing has been searched.                       *)
LEMMA SearchStart ==
  ASSUME Disp, DoProcess
  PROVE  Searching'
<1>1. loop'.object \in Object /\ loop'.k = 0 /\ entry' = entry
  BY ScanStart, Zenon DEF Disp, DoProcess
<1>2. PICK o \in Object : o = loop'.object /\ Len(o) \in Nat /\ DOMAIN o = 1 .. Len(o)
  BY <1>1, DispatcherAssumption, Zenon
<1>3. loop'.k + 1 .. Len(o) = DOMAIN o
  BY <1>1, <1>2
<1>4. ASSUME NEW t \in Sid, entry[t].where = "set", Rule(t, o) PROVE \E j \in DOMAIN o : o[j] = Key(t)
  <2>1. entry[t].key_idx \in Concrete(t)
    BY <1>4, Zenon DEF Disp, Filed
  <2> QED
    BY <1>4, <2>1, Zenon DEF Rule, Key
<1>5. \A t \in Sid : Field(t, entry'[t].key_idx) = Key(t)
  BY <1>1, Zenon DEF Key
<1> QED
  BY <1>1, <1>2, <1>3, <1>4, <1>5, Zenon DEF Searching, Key

(* Going on to the next field: the array is empty, so the field before has *)
(* been searched, and the array is now what the next one leads to.         *)
LEMMA SearchNext ==
  ASSUME Disp, Searching, NextField
  PROVE  Searching'
<1>1. ~crashed /\ loop.at = "process" /\ loop.array = {}
  BY Zenon DEF NextField, Running
<1>2. CASE loop.k = Len(loop.object)
  <2>1. loop'.at # "process"
    BY <1>2 DEF NextField, Done, Batch
  <2> QED
    BY <2>1, Zenon DEF Searching
<1>3. CASE loop.k # Len(loop.object)
  <2>1. PICK o \in Object : o = loop.object /\ Len(o) \in Nat
    BY <1>1, DispatcherAssumption, Zenon DEF Disp, Scanning
  <2>2. PICK k : k = loop.k
    BY Zenon
  <2>3. k \in 0 .. Len(o)
    BY <1>1, <2>1, <2>2, Zenon DEF Disp, Scanning
  <2>4. loop'.object = o /\ loop'.k = k + 1 /\ entry' = entry
        /\ loop'.array = IF o[k + 1] \in DOMAIN items THEN items[o[k + 1]] ELSE {}
    BY <1>3, <2>1, <2>2, FieldStep, Zenon
  <2>5. ASSUME NEW t \in Sid, entry[t].where = "set", Rule(t, o)
        PROVE  t \in loop'.array \/ \E j \in k + 1 + 1 .. Len(o) : o[j] = Key(t)
    <3>1. PICK j \in k + 1 .. Len(o) : o[j] = Key(t)
      BY <1>1, <2>1, <2>2, <2>5, Zenon DEF Searching
    <3>2. CASE j = k + 1
      <4>1. Key(t) \in DOMAIN items /\ t \in items[Key(t)] /\ o[k + 1] = Key(t)
        BY <2>5, <3>1, <3>2, Zenon DEF Disp, Filed
      <4> QED
        BY <2>4, <4>1, Zenon
    <3>3. CASE j # k + 1
      <4>1. j \in k + 1 + 1 .. Len(o)
        BY <2>1, <2>3, <3>1, <3>3
      <4> QED
        BY <3>1, <4>1, Zenon
    <3> QED
      BY <3>2, <3>3, Zenon
  <2>6. \A t \in Sid : Field(t, entry'[t].key_idx) = Key(t)
    BY <2>4, Zenon DEF Key
  <2> QED
    BY <2>4, <2>5, <2>6, Zenon DEF Searching, Key
<1> QED
  BY <1>2, <1>3, Zenon

(* A visit: a template that stays in the table did not match, so it is not *)
(* one that the rule would have found.                                     *)
LEMMA SearchVisit ==
  ASSUME Plain, Disp, Searching, NEW t \in Sid, Visit(t)
  PROVE  Searching'
<1>1. CASE crashed' \/ loop'.at # "process"
  BY <1>1, Zenon DEF Searching
<1>2. CASE ~crashed' /\ loop'.at = "process"
  <2>1. /\ ~crashed /\ loop.at = "process" /\ t \in loop.array
        /\ loop'.object = loop.object /\ loop'.k = loop.k /\ loop'.array = loop.array \ {t}
    BY <1>2, VisitStep, Zenon
  <2>2. ASSUME NEW m \in Sid, entry[m].where = "set", Rule(m, loop.object)
        PROVE  m \in loop.array \/ \E j \in loop.k + 1 .. Len(loop.object) : loop.object[j] = Key(m)
    BY <2>1, <2>2, Zenon DEF Searching
  <2>3. CASE ~Matched(t) /\ UNCHANGED table
    <3>1. entry' = entry
      BY <2>3, Zenon DEF table
    <3>2. ~Rule(t, loop.object)
      BY <2>1, <2>3, MatchedByRule, Zenon
    <3> QED
      BY <2>1, <2>2, <3>1, <3>2, Zenon DEF Searching, Key
  <2>4. ASSUME NEW x, Removed(t, FALSE, x) PROVE Searching'
    <3>1. FALSE \in BOOLEAN /\ Table /\ "freed" # "set"
      <4>1. "freed" # "set"
        BY Zenon
      <4> QED
        BY <4>1, Zenon DEF Disp
    <3>2. \A m \in Sid : entry'[m].key_idx = entry[m].key_idx
      BY <2>4, <3>1, RemovedEntry, Zenon
    <3>3. \A m \in Sid : entry'[m].where = IF m \in Found(t) THEN "freed" ELSE entry[m].where
      BY <2>4, <3>1, RemovedEntry, Zenon
    <3>4. \A m \in Sid : entry'[m].where = "set" => entry[m].where = "set" /\ m \notin Found(t)
      BY <3>3, Zenon
    <3>5. entry[t].where = "set" => t \in Found(t)
      BY Zenon DEF Found, Going, Members
    <3>6. \A m \in Sid : Field(m, entry'[m].key_idx) = Key(m)
      BY <3>2, Zenon DEF Key
    <3> QED
      BY <2>1, <2>2, <3>4, <3>5, <3>6, Zenon DEF Searching, Key
  <2> QED
    BY <1>2, <2>3, <2>4, VisitStep, Zenon
<1> QED
  BY <1>1, <1>2, Zenon

(* A step that changes neither the loop nor where a template is filed      *)
(* leaves the search as it was.                                            *)
LEMMA SearchSame ==
  ASSUME Searching, loop' = loop, ~crashed' => ~crashed,
         \A t \in Sid : entry'[t].key_idx = entry[t].key_idx /\ entry'[t].where = entry[t].where
  PROVE  Searching'
<1>1. \A t \in Sid : Field(t, entry'[t].key_idx) = Key(t)
  BY Zenon DEF Key
<1> QED
  BY <1>1, Zenon DEF Searching, Key

(* A step that leaves the search where it is.                              *)
LEMMA SearchCases ==
  ASSUME Disp, [Next]_vars
  PROVE  \/ crashed' \/ loop'.at # "process"
         \/ DoProcess \/ NextField \/ \E t \in Sid : Visit(t)
         \/ /\ loop' = loop /\ (~crashed' => ~crashed)
            /\ \A t \in Sid : entry'[t].key_idx = entry[t].key_idx /\ entry'[t].where = entry[t].where
<1>1. CASE ReadPipe \/ HeartbeatByte \/ Exit \/ HeartbeatCb
  BY <1>1 DEF ReadPipe, HeartbeatByte, Exit, HeartbeatCb, Batch, Poll, Outside
<1>2. CASE DoReg \/ DoUnreg \/ DoExecute \/ DoHeartbeat \/ DoQuit
  <2>1. Done
    BY <1>2, Zenon DEF DoReg, DoUnreg, DoExecute, DoHeartbeat, DoQuit
  <2> QED
    BY <2>1, Zenon DEF Done, Batch
<1>3. ASSUME NEW t \in Sid, TimeoutCb(t) PROVE loop'.at # "process"
  BY <1>3, Zenon DEF TimeoutCb
<1>4. ASSUME NEW t \in Sid, FreedItemRead(t) PROVE crashed'
  BY <1>4, Zenon DEF FreedItemRead
<1>5. ASSUME NEW c \in Caller, QuePush(c)
      PROVE  /\ loop' = loop /\ (~crashed' => ~crashed)
             /\ \A t \in Sid : entry'[t].key_idx = entry[t].key_idx /\ entry'[t].where = entry[t].where
  <2>1. loop' = loop /\ crashed' = crashed
    BY <1>5, Zenon DEF QuePush
  <2> QED
    BY <1>5, <2>1, PushSame, Zenon DEF Disp
<1>6. ASSUME NEW c \in Caller, WriteByte(c) \/ EndGroup(c) \/ FreedListRead(c) \/ Submit(c) \/ Stop(c)
      PROVE  loop' = loop /\ entry' = entry /\ (~crashed' => ~crashed)
  <2>1. loop' = loop /\ entry' = entry /\ (crashed' = crashed \/ crashed' = TRUE)
    BY <1>6, Zenon DEF WriteByte, EndGroup, FreedListRead, Submit, Stop, Call
  <2>2. ~crashed' => ~crashed
    BY <2>1, Zenon
  <2> QED
    BY <2>1, <2>2, Zenon
<1>7. ASSUME NEW c \in Caller, NEW g \in Group, RegGroup(c, g)
      PROVE  loop' = loop /\ entry' = entry /\ crashed' = crashed
  BY <1>7, Zenon DEF RegGroup, Call
<1>8. UNCHANGED vars => loop' = loop /\ entry' = entry /\ crashed' = crashed
  BY Zenon DEF vars
<1> QED
  BY <1>1, <1>2, <1>3, <1>4, <1>5, <1>6, <1>7, <1>8, Zenon DEF Next, Loop, Return

(* Every step keeps the state of the search.                               *)
LEMMA NextSearching ==
  ASSUME Plain, Disp, Searching, [Next]_vars
  PROVE  Searching'
<1>1. CASE crashed' \/ loop'.at # "process"
  BY <1>1, Zenon DEF Searching
<1>2. CASE \/ DoProcess \/ NextField \/ \E t \in Sid : Visit(t)
           \/ /\ loop' = loop /\ (~crashed' => ~crashed)
              /\ \A t \in Sid : entry'[t].key_idx = entry[t].key_idx /\ entry'[t].where = entry[t].where
  BY <1>2, SearchStart, SearchNext, SearchVisit, SearchSame, Zenon
<1> QED
  BY <1>1, <1>2, SearchCases, Zenon

(* A search that ends with its array used up has left nothing.             *)
LEMMA SearchEnds ==
  ASSUME Disp, Searching, [Next]_vars, loop.at = "process", loop.array = {}, loop'.at # "process"
  PROVE  \A t \in Sid : entry[t].where = "set" => ~Rule(t, loop.object)
<1>1. NextField
  <2>1. loop' # loop
    BY Zenon
  <2>2. ~(ReadPipe \/ HeartbeatByte \/ Exit \/ HeartbeatCb)
    BY Zenon DEF ReadPipe, HeartbeatByte, Exit, HeartbeatCb
  <2>3. ~(DoReg \/ DoUnreg \/ DoExecute \/ DoHeartbeat \/ DoQuit \/ DoProcess)
    BY Zenon DEF DoReg, DoUnreg, DoExecute, DoHeartbeat, DoQuit, DoProcess, QuePop
  <2>4. ASSUME NEW t \in Sid PROVE ~(Visit(t) \/ TimeoutCb(t) \/ FreedItemRead(t))
    BY <2>1, Zenon DEF Visit, TimeoutCb, FreedItemRead
  <2>5. ASSUME NEW c \in Caller
        PROVE  ~(Return(c) \/ FreedListRead(c) \/ Submit(c) \/ Stop(c) \/ \E g \in Group : RegGroup(c, g))
    BY <2>1, Zenon DEF Return, QuePush, WriteByte, EndGroup, FreedListRead, Submit, Stop, RegGroup, Call
  <2> QED
    BY <2>1, <2>2, <2>3, <2>4, <2>5, Zenon DEF Next, Loop, vars
<1>2. ~crashed
  BY <1>1, Zenon DEF NextField, Running
<1>3. PICK o \in Object : o = loop.object /\ Len(o) \in Nat
  BY <1>2, DispatcherAssumption, Zenon DEF Disp, Scanning
<1>4. loop.k = Len(o)
  BY <1>1, <1>3 DEF NextField, InProcess
<1>5. loop.k + 1 .. Len(o) = {}
  BY <1>3, <1>4
<1> QED
  BY <1>2, <1>3, <1>5, Zenon DEF Searching

(* _process and _processSet: filing each template under its most unique    *)
(* key, and looking under the keys of the object only, finds every         *)
(* template that matches by the rule of the header, as long as the         *)
(* templates are plain.                                                    *)
THEOREM SearchIsComplete == Plain /\ Spec => NoMatchLeft
<1> SUFFICES ASSUME Plain PROVE Spec => NoMatchLeft
  BY Zenon
<1>1. Init => Disp /\ Searching
  <2>1. Init => Searching
    BY DEF Init, Poll, Outside, Searching
  <2> QED
    BY <2>1, InitDisp, Zenon
<1>2. Disp /\ Searching /\ [Next]_vars => (Disp /\ Searching)'
  BY NextDisp, NextSearching, Zenon
<1>3. Disp /\ Searching /\ [Next]_vars =>
        [(loop.at = "process" /\ loop.array = {} /\ loop'.at # "process") =>
           \A t \in Sid : entry[t].where = "set" => ~Rule(t, loop.object)]_vars
  BY SearchEnds, Zenon
<1> QED
  BY <1>1, <1>2, <1>3, PTL DEF Spec, NoMatchLeft

-----------------------------------------------------------------------------
(* One answer for every group.                                             *)

(* The templates of one group of reads share no field, so that no two of   *)
(* them are in one set.  (When they are, the visit to the first frees the  *)
(* second while the array still names it.)                                 *)
Apart ==
  \A g \in Group \ Consume : \A s, t \in Members(g) :
    s # t => \A i \in Concrete(s), j \in Concrete(t) : Field(s, i) # Field(t, j)

(* Nothing that the array names was freed.                                 *)
Fresh == ~crashed /\ loop.at = "process" => \A t \in loop.array : entry[t].where = "set"

(* A template whose handler may still run is of a group that has had no    *)
(* answer, and that goes as a whole.                                       *)
Owing ==
  /\ \A t \in Sid : entry[t].handlers /\ entry[t].where \in {"new", "set", "stale"} => ran[t[1]] = 0
  /\ \A t \in Sid : entry[t].handlers /\ (entry[t].where \in {"set", "stale"} \/ t \in Regs(que)) =>
       entry[t].grouped
  /\ HandlerRunsOnce

(* A visit frees templates of one group only, and of those none is left in *)
(* the array: they share no field.                                         *)
LEMMA FreshVisit ==
  ASSUME Apart, Disp, Fresh, NEW t \in Sid, Visit(t)
  PROVE  Fresh'
<1>1. CASE crashed' \/ loop'.at # "process"
  BY <1>1, Zenon DEF Fresh
<1>2. CASE ~crashed' /\ loop'.at = "process"
  <2>1. ~crashed /\ loop.at = "process" /\ t \in loop.array /\ loop'.array = loop.array \ {t}
    BY <1>2, VisitStep, Zenon
  <2>2. \A m \in loop.array : /\ m \in Sid /\ entry[m].where = "set"
                              /\ entry[m].key_idx \in Concrete(m) /\ Key(m) = loop.object[loop.k]
    BY <2>1, Zenon DEF Disp, Scanning, Fresh
  <2>3. CASE UNCHANGED table
    <3>1. entry' = entry
      BY <2>3, Zenon DEF table
    <3> QED
      BY <2>1, <2>2, <3>1, Zenon DEF Fresh
  <2>4. ASSUME NEW x, Removed(t, FALSE, x), t[1] \notin Consume PROVE Fresh'
    <3>1. FALSE \in BOOLEAN /\ Table
      BY Zenon DEF Disp
    <3>2. \A m \in Sid : entry'[m].where = IF m \in Found(t) THEN "freed" ELSE entry[m].where
      BY <2>4, <3>1, RemovedEntry, Zenon
    <3>3. ASSUME NEW m \in loop'.array PROVE m \notin Found(t)
      <4>1. m \in loop.array /\ m # t
        BY <2>1, <3>3, Zenon
      <4>2. m \notin Members(t[1])
        <5>1. t[1] \in Group \ Consume /\ t \in Members(t[1])
          BY <2>4, SidPair, Zenon DEF Members
        <5>2. Field(m, entry[m].key_idx) = Field(t, entry[t].key_idx)
          BY <2>1, <2>2, <4>1, Zenon DEF Key
        <5> QED
          BY <2>1, <2>2, <4>1, <5>1, <5>2, Zenon DEF Apart
      <4> QED
        BY <4>1, <4>2, Zenon DEF Found, Going
    <3>4. \A m \in loop'.array : m \in Sid /\ entry[m].where = "set"
      BY <2>1, <2>2, Zenon
    <3>5. \A m \in loop'.array : entry'[m].where = "set"
      BY <3>2, <3>3, <3>4
    <3> QED
      BY <3>5, Zenon DEF Fresh
  <2> QED
    BY <1>2, <2>3, <2>4, VisitStep, Zenon
<1> QED
  BY <1>1, <1>2, Zenon

(* Every step keeps it.                                                    *)
LEMMA NextFresh ==
  ASSUME Apart, Disp, Fresh, [Next]_vars
  PROVE  Fresh'
<1>1. CASE crashed' \/ loop'.at # "process"
  BY <1>1, Zenon DEF Fresh
<1>2. CASE DoProcess
  BY <1>2, ScanStart, Zenon DEF Disp, Fresh
<1>3. CASE NextField
  <2>1. CASE loop.k = Len(loop.object)
    <3>1. loop'.at # "process"
      BY <1>3, <2>1 DEF NextField, Done, Batch
    <3> QED
      BY <1>1, <3>1, Zenon
  <2>2. CASE loop.k # Len(loop.object)
    <3>1. PICK f : f = loop.object[loop.k + 1]
      BY Zenon
    <3>2. entry' = entry /\ loop'.array = IF f \in DOMAIN items THEN items[f] ELSE {}
      BY <1>3, <2>2, <3>1, FieldStep, Zenon
    <3>3. \A m \in loop'.array : f \in DOMAIN items /\ m \in items[f]
      BY <3>2, Zenon
    <3>4. \A m \in loop'.array : entry'[m].where = "set"
      BY <3>2, <3>3, Zenon DEF Disp, Filed
    <3> QED
      BY <3>4, Zenon DEF Fresh
  <2> QED
    BY <2>1, <2>2, Zenon
<1>4. CASE \E t \in Sid : Visit(t)
  BY <1>4, FreshVisit, Zenon
<1>5. CASE /\ loop' = loop /\ (~crashed' => ~crashed)
           /\ \A t \in Sid : entry'[t].key_idx = entry[t].key_idx /\ entry'[t].where = entry[t].where
  <2>1. CASE ~crashed' /\ loop'.at = "process"
    <3>1. \A t \in loop.array : t \in Sid /\ entry[t].where = "set"
      BY <1>5, <2>1, Zenon DEF Disp, Scanning, Fresh
    <3> QED
      BY <1>5, <3>1, Zenon DEF Fresh
  <2> QED
    BY <1>1, <2>1, Zenon
<1> QED
  BY <1>1, <1>2, <1>3, <1>4, <1>5, SearchCases, Zenon

(* How many handlers a timeout runs: of a group, at most that of the first *)
(* template; of a single one, its own.                                     *)
LEMMA TimedOutSet ==
  ASSUME Disp, Owing, NEW t \in Sid, NEW S,
         S = {m \in Found(t) : IF entry[t].grouped THEN KeepsHandler(m) ELSE entry[m].handlers}
  PROVE  /\ Cardinality(S) \in {0, 1}
         /\ Cardinality(S) = 1 => entry[t].grouped /\ ran[t[1]] = 0
<1>1. CASE S = {}
  <2>1. Cardinality(S) = 0
    BY <1>1, FS_EmptySet, Zenon
  <2> QED
    BY <2>1
<1>2. CASE S # {}
  <2>1. PICK m : m \in S
    BY <1>2, Zenon
  <2>2. m \in Going(t) /\ entry[m].where = "set" /\ entry[m].handlers
    BY <2>1, Zenon DEF Found, KeepsHandler
  <2>3. m \in Sid /\ m[1] = t[1]
    BY <2>2, Zenon DEF Going, Members
  <2>4. entry[m].where \in {"new", "set", "stale"} /\ entry[m].where \in {"set", "stale"}
    BY <2>2, Zenon
  <2>5. ran[m[1]] = 0 /\ entry[m].grouped
    BY <2>2, <2>3, <2>4, Zenon DEF Owing
  <2>6. entry[t].grouped
    <3>1. CASE m = t
      BY <2>5, <3>1, Zenon
    <3>2. CASE m # t
      BY <2>2, <3>2, Zenon DEF Going
    <3> QED
      BY <3>1, <3>2, Zenon
  <2>7. \A s \in S : s = First(t)
    <3>1. \A s \in S : s \in Going(t) /\ s[2] = 0
      BY <2>6, Zenon DEF Found, KeepsHandler
    <3>2. \A s \in S : s \in Sid /\ s[1] = t[1]
      BY <3>1, Zenon DEF Going, Members
    <3>3. \A s \in S : s = <<s[1], s[2]>>
      BY <3>2, SidPair, Zenon
    <3> QED
      BY <3>1, <3>2, <3>3, Zenon DEF First
  <2>8. S = {First(t)}
    BY <2>1, <2>7, Zenon
  <2>9. Cardinality(S) = 1
    BY <2>8, FS_Singleton, Zenon
  <2> QED
    BY <2>3, <2>5, <2>6, <2>9, Zenon
<1> QED
  BY <1>1, <1>2, Zenon

(* What counts as an answer when a template is removed: its own handler    *)
(* after a match, or those that timed out.                                 *)
Answers(t, timeout, extra) ==
  IF timeout THEN extra = 0 ELSE entry[t].where = "set" /\ extra = IF entry[t].handlers THEN 1 ELSE 0

(* A removal runs the handlers of one group at most, and no more than one  *)
(* of them.                                                                *)
LEMMA RemovedRan ==
  ASSUME Disp, Owing, NEW t \in Sid, NEW timeout \in BOOLEAN, NEW extra, Answers(t, timeout, extra),
         Removed(t, timeout, extra)
  PROVE  /\ \A g \in Group \ {t[1]} : ran'[g] = ran[g]
         /\ ran'[t[1]] = ran[t[1]] \/ (entry[t].grouped /\ ran[t[1]] = 0 /\ ran'[t[1]] = 1)
<1>1. PICK h : h = [m \in Going(t) |-> IF entry[t].grouped THEN KeepsHandler(m) ELSE entry[m].handlers]
  BY Zenon
<1>2. PICK S : S = {m \in Found(t) : h[m]}
  BY Zenon
<1>3. S = {m \in Found(t) : IF entry[t].grouped THEN KeepsHandler(m) ELSE entry[m].handlers}
  <2>1. \A m \in Found(t) : h[m] = IF entry[t].grouped THEN KeepsHandler(m) ELSE entry[m].handlers
    BY <1>1, Zenon DEF Found
  <2> QED
    BY <1>2, <2>1, Zenon
<1>4. PICK n : n = Cardinality(S)
  BY Zenon
<1>5. n \in {0, 1} /\ (n = 1 => entry[t].grouped /\ ran[t[1]] = 0)
  BY <1>3, <1>4, TimedOutSet, Zenon
<1>6. PICK g \in Group : g = t[1]
  BY SidPair, Zenon
<1>7. ran' = [ran EXCEPT ![g] = @ + extra + IF timeout THEN n ELSE 0]
  BY <1>1, <1>2, <1>4, <1>6, Zenon DEF Removed
<1>8. ran \in [Group -> Nat]
  BY Zenon DEF Disp, Table
<1>9. \A f \in Group \ {g} : ran'[f] = ran[f]
  BY <1>7, <1>8, Zenon
<1>10. CASE timeout
  <2>1. extra = 0
    BY <1>10, Zenon DEF Answers
  <2>2. ran'[g] = ran[g] + 0 + n
    BY <1>7, <1>8, <1>10, <2>1, Zenon
  <2> QED
    BY <1>5, <1>6, <1>8, <1>9, <2>2
<1>11. CASE ~timeout
  <2>1. entry[t].where = "set" /\ extra = IF entry[t].handlers THEN 1 ELSE 0
    BY <1>11, Zenon DEF Answers
  <2>2. entry[t].handlers => entry[t].grouped /\ ran[t[1]] = 0
    <3>1. entry[t].where \in {"new", "set", "stale"} /\ entry[t].where \in {"set", "stale"}
      BY <2>1, Zenon
    <3> QED
      BY <3>1, Zenon DEF Owing
  <2>3. extra \in {0, 1} /\ (extra = 1 => entry[t].handlers)
    BY <2>1
  <2>4. ran'[g] = ran[g] + extra + 0
    BY <1>7, <1>8, <1>11, Zenon
  <2> QED
    BY <1>6, <1>8, <1>9, <2>2, <2>3, <2>4
<1> QED
  BY <1>10, <1>11, Zenon

(* A removal leaves no template of a group that was answered to be.        *)
LEMMA RemovedOwing ==
  ASSUME Disp, Owing, NEW t \in Sid, NEW timeout \in BOOLEAN, NEW extra, Answers(t, timeout, extra),
         Removed(t, timeout, extra), ~Dangling(t), entry[t].where \in {"set", "loose", "stale"}, que' = que
  PROVE  Owing'
<1>1. Table /\ InOrder
  BY Zenon DEF Disp
<1>2. /\ \A m \in Sid : entry'[m].where = IF m \in Found(t) THEN "freed" ELSE entry[m].where
      /\ \A m \in Sid : entry'[m].handlers =>
           entry[m].handlers /\ (m \in Going(t) /\ entry[t].grouped => m[2] = 0)
      /\ \A m \in Sid : entry'[m].grouped = (entry[m].grouped /\ m \notin Going(t))
  BY <1>1, RemovedEntry, Zenon
<1>3. /\ \A g \in Group \ {t[1]} : ran'[g] = ran[g]
      /\ ran'[t[1]] = ran[t[1]] \/ (entry[t].grouped /\ ran[t[1]] = 0 /\ ran'[t[1]] = 1)
  BY RemovedRan, Zenon
<1>4. t \in Beyond /\ t \in Going(t) /\ t[1] \in Group
  <2>1. entry[t].where # "new"
    BY Zenon
  <2> QED
    BY <2>1, SidPair, Zenon DEF Beyond, Going, Members
<1>5. First(t) \in Beyond
  BY <1>1, <1>4, FirstGoesFirst, Zenon
<1>6. ASSUME NEW m \in Sid, m \in Going(t), entry'[m].handlers
      PROVE  m \in Beyond /\ entry'[m].where \notin {"new", "set", "stale"}
  <2>1. m \in Beyond
    <3>1. CASE entry[t].grouped
      <4>1. m[1] = t[1] /\ m[2] = 0 /\ m = <<m[1], m[2]>>
        BY <1>2, <1>6, <3>1, SidPair, Zenon DEF Going, Members
      <4> QED
        BY <1>5, <4>1, Zenon DEF First
    <3>2. CASE ~entry[t].grouped
      BY <1>4, <1>6, <3>2, Zenon DEF Going
    <3> QED
      BY <3>1, <3>2, Zenon
  <2>2. entry[m].where # "new" /\ entry[m].where # "stale"
    BY <1>6, <2>1, Zenon DEF Beyond, Dangling
  <2>3. entry[m].where = "set" => m \in Found(t)
    BY <1>6, Zenon DEF Found
  <2>4. entry'[m].where = IF m \in Found(t) THEN "freed" ELSE entry[m].where
    BY <1>2, Zenon
  <2> QED
    BY <2>1, <2>2, <2>3, <2>4, Zenon
<1>7. \A m \in Beyond : m \notin Regs(que)
  BY <1>1, Zenon DEF InOrder, Stages, Kin
<1>8. \A m \in Sid : m \notin Going(t) =>
        entry'[m].where = entry[m].where /\ (entry'[m].grouped = entry[m].grouped)
  <2>1. \A m \in Sid : entry[m].grouped \in BOOLEAN
    BY <1>1, Zenon DEF Table, EntryType
  <2>2. \A m \in Sid : m \notin Going(t) => m \notin Found(t)
    BY Zenon DEF Found
  <2>3. \A m \in Sid : m \notin Going(t) => entry'[m].where = entry[m].where
    BY <1>2, <2>2, Zenon
  <2> QED
    BY <1>2, <2>1, <2>3, Zenon
<1>9. ASSUME NEW m \in Sid, entry'[m].handlers, entry'[m].where \in {"new", "set", "stale"}
      PROVE  ran'[m[1]] = 0
  <2>1. m \notin Going(t) /\ m[1] \in Group
    BY <1>6, <1>9, SidPair, Zenon
  <2>2. ran[m[1]] = 0
    BY <1>2, <1>8, <1>9, <2>1, Zenon DEF Owing
  <2>3. ran'[m[1]] = ran[m[1]]
    <3>1. CASE m[1] # t[1]
      BY <1>3, <2>1, <3>1, Zenon
    <3>2. CASE m[1] = t[1]
      <4>1. ~entry[t].grouped
        BY <2>1, <3>2, Zenon DEF Going, Members
      <4> QED
        BY <1>3, <3>2, <4>1, Zenon
    <3> QED
      BY <3>1, <3>2, Zenon
  <2> QED
    BY <2>2, <2>3, Zenon
<1>10. ASSUME NEW m \in Sid, entry'[m].handlers, entry'[m].where \in {"set", "stale"} \/ m \in Regs(que')
       PROVE  entry'[m].grouped
  <2>1. m \notin Going(t)
    <3>1. entry'[m].where \in {"set", "stale"} => entry'[m].where \in {"new", "set", "stale"}
      BY Zenon
    <3> QED
      BY <1>6, <1>7, <1>10, <3>1, Zenon
  <2> QED
    BY <1>2, <1>8, <1>10, <2>1, Zenon DEF Owing
<1>11. HandlerRunsOnce'
  <2>1. \A g \in Group : ran[g] <= 1
    BY Zenon DEF Owing, HandlerRunsOnce
  <2>2. \A g \in Group : ran'[g] = ran[g] \/ ran'[g] = 1
    BY <1>3, Zenon
  <2> QED
    BY <2>1, <2>2 DEF HandlerRunsOnce
<1> QED
  BY <1>9, <1>10, <1>11, Zenon DEF Owing

(* The removals of a visit and of a timeout are such answers.              *)
LEMMA RemoveOwing ==
  ASSUME Disp, Fresh, Owing, NEW t \in Sid, Visit(t) \/ TimeoutCb(t), ~(UNCHANGED table)
  PROVE  Owing'
<1>1. que' = que
  BY Zenon DEF Visit, TimeoutCb
<1>2. CASE Visit(t)
  <2>1. entry[t].where = "set"
    BY <1>2, Zenon DEF Visit, Running, Fresh
  <2>2. PICK x : x = IF entry[t].handlers THEN 1 ELSE 0
    BY Zenon
  <2>3. Remove(t, FALSE, IF entry[t].handlers THEN 1 ELSE 0)
    BY <1>2, Zenon DEF Visit, table
  <2>4. Removed(t, FALSE, x) /\ ~Dangling(t)
    BY <2>2, <2>3, Zenon DEF Remove
  <2>5. FALSE \in BOOLEAN /\ Answers(t, FALSE, x) /\ entry[t].where \in {"set", "loose", "stale"}
    BY <2>1, <2>2, Zenon DEF Answers
  <2> QED
    BY <1>1, <2>4, <2>5, RemovedOwing, Zenon
<1>3. CASE TimeoutCb(t)
  <2>1. Removed(t, TRUE, 0) /\ ~Dangling(t) /\ entry[t].timer
    BY <1>3, Zenon DEF TimeoutCb, Remove
  <2>2. entry[t].where # "new" /\ entry[t].where # "freed"
    BY <2>1, Zenon DEF Disp, Filed, Table, TimersAreLive
  <2>3. entry[t].where \in Where
    BY Zenon DEF Disp, Table, EntryType
  <2>4. entry[t].where \in {"set", "loose", "stale"}
    BY <2>2, <2>3, Zenon DEF Where
  <2>5. TRUE \in BOOLEAN /\ Answers(t, TRUE, 0)
    BY Zenon DEF Answers
  <2> QED
    BY <1>1, <2>1, <2>4, <2>5, RemovedOwing, Zenon
<1> QED
  BY <1>2, <1>3, Zenon

(* Steps that leave the templates as they are, and put none in the queue.  *)
LEMMA SameOwing ==
  ASSUME Owing, Regs(que') \subseteq Regs(que), ran' = ran,
         \A t \in Sid : /\ entry'[t].where = entry[t].where
                        /\ entry'[t].handlers = entry[t].handlers /\ entry'[t].grouped = entry[t].grouped
  PROVE  Owing'
BY Zenon DEF Owing, HandlerRunsOnce

(* An item at the end of a queue is the only one it did not have.          *)
LEMMA AppendRegs ==
  ASSUME NEW S, NEW q \in Seq(S), NEW x \in S, NEW t \in Regs(Append(q, x))
  PROVE  t \in Regs(q) \/ x = Reg(t)
<1>1. PICK i \in 1 .. Len(Append(q, x)) : Append(q, x)[i] = Reg(t)
  BY Zenon DEF Regs
<1>2. CASE i \in 1 .. Len(q)
  <2>1. q[i] = Reg(t) /\ t \in Sid
    BY <1>1, <1>2 DEF Regs
  <2> QED
    BY <1>2, <2>1, Zenon DEF Regs
<1>3. CASE i \notin 1 .. Len(q)
  BY <1>1, <1>3
<1> QED
  BY <1>2, <1>3, Zenon

(* A push puts a template into the queue of which the group is as it was.  *)
LEMMA PushOwing ==
  ASSUME Disp, Owing, NEW c \in Caller, QuePush(c)
  PROVE  Owing'
<1>1. Inv /\ Table /\ ran' = ran /\ que' = Append(que, Item(c))
  BY Zenon DEF Disp, QuePush
<1>2. que \in Seq(QueItem) /\ Item(c) \in QueItem
  <2>1. Item(c) \in TodoItem /\ Item(c).type # "END" /\ que \in Seq(QueItem)
    BY <1>1 DEF QuePush, Ready, Item, Inv, QueInv, CallerInv
  <2> QED
    BY <2>1 DEF TodoItem, End
<1>3. \A t \in Regs(que') : t \in Regs(que) \/ Item(c) = Reg(t)
  BY <1>1, <1>2, AppendRegs, Zenon
<1>4. \A t \in Sid : /\ entry'[t].where = entry[t].where /\ entry'[t].handlers = entry[t].handlers
                     /\ entry[t].grouped => entry'[t].grouped
                     /\ Item(c) = Reg(t) => entry'[t].grouped
  BY <1>1, PushSame, Zenon
<1>5. \A t \in Sid : entry'[t].handlers /\ entry'[t].where \in {"new", "set", "stale"} => ran'[t[1]] = 0
  BY <1>1, <1>4, Zenon DEF Owing
<1>6. \A t \in Sid : entry'[t].handlers /\ (entry'[t].where \in {"set", "stale"} \/ t \in Regs(que'))
                     => entry'[t].grouped
  BY <1>3, <1>4, Zenon DEF Owing
<1>7. HandlerRunsOnce'
  BY <1>1, Zenon DEF Owing, HandlerRunsOnce
<1> QED
  BY <1>5, <1>6, <1>7, Zenon DEF Owing

(* A template that _do_reg adds comes with its group.                      *)
LEMMA RegOwing ==
  ASSUME Disp, Owing, DoReg
  PROVE  Owing'
<1>1. Inv /\ Table /\ InOrder
  BY Zenon DEF Disp
<1>2. PICK t \in Sid : t = Head(que).sid /\ entry[t].where = "new" /\ t \in Regs(que)
  BY <1>1, RegisteredSid, RegIsNew, Zenon
<1>3. AddTemplate(t) /\ QuePop("REG")
  BY <1>2, Zenon DEF DoReg
<1>4. /\ ran' = ran /\ \A m \in Sid \ {t} : entry'[m] = entry[m]
      /\ entry'[t].handlers = entry[t].handlers /\ entry'[t].grouped = entry[t].grouped
  BY <1>1, <1>3, AddedEntry, Zenon
<1>5. Regs(que') \subseteq Regs(que)
  BY <1>1, <1>3, PopTakes, Zenon
<1>6. entry[t].where \in {"new", "set", "stale"}
  BY <1>2, Zenon
<1>7. \A m \in Sid : entry'[m].handlers /\ entry'[m].where \in {"new", "set", "stale"} => ran'[m[1]] = 0
  BY <1>4, <1>6, Zenon DEF Owing
<1>8. \A m \in Sid : entry'[m].handlers /\ (entry'[m].where \in {"set", "stale"} \/ m \in Regs(que'))
                     => entry'[m].grouped
  BY <1>2, <1>4, <1>5, Zenon DEF Owing
<1>9. HandlerRunsOnce'
  BY <1>4, Zenon DEF Owing, HandlerRunsOnce
<1> QED
  BY <1>7, <1>8, <1>9, Zenon DEF Owing

(* _do_quit runs no handler.                                               *)
LEMMA QuitOwing ==
  ASSUME Disp, Owing, DoQuit
  PROVE  Owing'
<1>1. Inv /\ Table /\ InOrder /\ QuePop("TQUIT")
  BY Zenon DEF Disp, DoQuit
<1>2. /\ ran' = ran
      /\ \A m \in Sid : entry'[m].where = entry[m].where
                        \/ (entry'[m].where = "stale" /\ \E key \in DOMAIN items : m \in items[key])
      /\ \A m \in Sid : entry'[m].handlers = entry[m].handlers /\ entry'[m].grouped = entry[m].grouped
  BY <1>1, QuitEntry, Zenon
<1>3. \A m \in Sid : entry'[m].where = entry[m].where \/ (entry'[m].where = "stale" /\ entry[m].where = "set")
  BY <1>2, Zenon DEF Disp, Filed
<1>4. Regs(que') \subseteq Regs(que)
  BY <1>1, PopTakes, Zenon
<1>5. \A m \in Sid : /\ entry'[m].where \in {"new", "set", "stale"}
                         => entry[m].where \in {"new", "set", "stale"}
                     /\ entry'[m].where \in {"set", "stale"} => entry[m].where \in {"set", "stale"}
  BY <1>3, Zenon
<1>6. \A m \in Sid : entry'[m].handlers /\ entry'[m].where \in {"new", "set", "stale"} => ran'[m[1]] = 0
  BY <1>2, <1>5, Zenon DEF Owing
<1>7. \A m \in Sid : entry'[m].handlers /\ (entry'[m].where \in {"set", "stale"} \/ m \in Regs(que'))
                     => entry'[m].grouped
  BY <1>2, <1>4, <1>5, Zenon DEF Owing
<1>8. HandlerRunsOnce'
  BY <1>2, Zenon DEF Owing, HandlerRunsOnce
<1> QED
  BY <1>6, <1>7, <1>8, Zenon DEF Owing

(* Every step keeps what is owed.                                          *)
LEMMA NextOwing ==
  ASSUME Disp, Fresh, Owing, [Next]_vars
  PROVE  Owing'
<1>1. Inv /\ Table /\ InOrder
  BY Zenon DEF Disp
<1>2. ASSUME entry' = entry, ran' = ran, Regs(que') \subseteq Regs(que) PROVE Owing'
  BY <1>2, SameOwing, Zenon
<1>3. CASE ReadPipe \/ HeartbeatByte \/ Exit \/ NextField
  BY <1>2, <1>3, Zenon DEF ReadPipe, HeartbeatByte, Exit, NextField
<1>4. CASE HeartbeatCb
  <2>1. que' = Append(que, Heartbeat) /\ entry' = entry /\ ran' = ran
    BY <1>4, Zenon DEF HeartbeatCb
  <2>2. que \in Seq(QueItem) /\ Heartbeat \in QueItem /\ \A t : Heartbeat # Reg(t)
    BY <1>1, Zenon DEF Inv, QueInv, QueItem, Heartbeat, Reg
  <2>3. Regs(que') \subseteq Regs(que)
    BY <2>1, <2>2, AppendRegs, Zenon
  <2> QED
    BY <1>2, <2>1, <2>3, Zenon
<1>5. CASE DoUnreg \/ DoExecute \/ DoHeartbeat \/ DoProcess
  <2>1. entry' = entry /\ ran' = ran /\ \E type : QuePop(type)
    BY <1>5, Zenon DEF DoUnreg, DoExecute, DoHeartbeat, DoProcess
  <2>2. Regs(que') \subseteq Regs(que)
    BY <1>1, <2>1, PopTakes, Zenon
  <2> QED
    BY <1>2, <2>1, <2>2, Zenon
<1>6. CASE DoReg \/ DoQuit
  BY <1>6, RegOwing, QuitOwing, Zenon
<1>7. ASSUME NEW t \in Sid, Visit(t) \/ TimeoutCb(t) PROVE Owing'
  <2>1. CASE UNCHANGED table
    <3>1. entry' = entry /\ ran' = ran /\ que' = que
      BY <1>7, <2>1, Zenon DEF table, Visit, TimeoutCb
    <3> QED
      BY <1>2, <3>1, Zenon
  <2>2. CASE ~(UNCHANGED table)
    BY <1>7, <2>2, RemoveOwing, Zenon
  <2> QED
    BY <2>1, <2>2, Zenon
<1>8. ASSUME NEW t \in Sid, FreedItemRead(t) PROVE Owing'
  BY <1>2, <1>8, Zenon DEF FreedItemRead
<1>9. ASSUME NEW c \in Caller, QuePush(c) PROVE Owing'
  BY <1>9, PushOwing, Zenon
<1>10. ASSUME NEW c \in Caller, WriteByte(c) \/ EndGroup(c) \/ FreedListRead(c) \/ Submit(c) \/ Stop(c)
       PROVE  Owing'
  <2>1. entry' = entry /\ ran' = ran /\ que' = que
    BY <1>10, Zenon DEF WriteByte, EndGroup, FreedListRead, Submit, Stop, Call
  <2> QED
    BY <1>2, <2>1, Zenon
<1>11. ASSUME NEW c \in Caller, NEW g \in Group, RegGroup(c, g) PROVE Owing'
  BY <1>2, <1>11, Zenon DEF RegGroup, Call
<1>12. CASE UNCHANGED vars
  BY <1>2, <1>12, Zenon DEF vars
<1> QED
  BY <1>3, <1>4, <1>5, <1>6, <1>7, <1>8, <1>9, <1>10, <1>11, <1>12, Zenon DEF Next, Loop, Return

(* _remove_group, "don't run 'em twice": one call of reg_group has at most *)
(* one answer, of a match or of a timeout and however the two race, as     *)
(* long as the templates of one read share no field.                       *)
THEOREM AnsweredOnce == Apart /\ Spec => []HandlerRunsOnce
<1> SUFFICES ASSUME Apart PROVE Spec => []HandlerRunsOnce
  BY Zenon
<1>1. Init => Disp /\ Fresh /\ Owing
  <2> SUFFICES ASSUME Init PROVE Disp /\ Fresh /\ Owing
    BY Zenon
  <2>1. Fresh
    BY Zenon DEF Init, Poll, Outside, Fresh
  <2>2. Regs(que) = {}
    BY ShortLine, Zenon DEF Init
  <2>3. \A t \in Sid : entry[t].where = "new" /\ t[1] \in Group
    BY SidPair, Zenon DEF Init, NewEntry
  <2>4. \A g \in Group : ran[g] = 0
    BY Zenon DEF Init
  <2>5. Owing
    BY <2>2, <2>3, <2>4 DEF Owing, HandlerRunsOnce
  <2> QED
    BY <2>1, <2>5, InitDisp, Zenon
<1>2. Disp /\ Fresh /\ Owing /\ [Next]_vars => (Disp /\ Fresh /\ Owing)'
  BY NextDisp, NextFresh, NextOwing, Zenon
<1>3. Owing => HandlerRunsOnce
  BY Zenon DEF Owing
<1> QED
  BY <1>1, <1>2, <1>3, PTL DEF Spec

=============================================================================
