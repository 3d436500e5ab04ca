---------------------------- MODULE OeBdb_proofs ----------------------------
(***************************************************************************)
(* Proofs about the store, for any number of workers, items, transactions, *)
(* queries and durations: what holds in every state, what no step does,    *)
(* and that the store with its calls cut into steps implements the tuple   *)
(* space.                                                                  *)
(***************************************************************************)
EXTENDS OeBdb, TLAPS

(* A leaf is proved by SMT unless it names another prover; the module is   *)
(* long, so the provers are given more time than they need.                *)
USE SMTT(30)

(* The inductive invariant.                                                *)
Inv == TypeOK /\ LockHasOwner /\ CallsConsistent

(* The records the code starts from have the types of holders and calls.   *)
LEMMA Defaults ==
  /\ NoData \in Data
  /\ Absent \in Holder
  /\ NoCall \in Call
  /\ NoTxnRecord \in Txn
<1>1. NoData \in Data
  BY StoreAssumption, Zenon DEF NoData
<1>2. Absent \in Holder
  BY <1>1 DEF Absent, Holder
<1>3. <<>> \in Seq(SUBSET Lid)
  OBVIOUS
<1>4. NoCall \in Call
  BY <1>2, <1>3, Zenon DEF NoCall, Call, NoSnapshot
<1>5. NoTxnRecord \in Txn
  BY DEF NoTxnRecord, Txn
<1> QED
  BY <1>1, <1>2, <1>4, <1>5, Zenon

(* What the search of a query finds, template by template, is a sequence   *)
(* of sets of lease ids.                                                   *)
LEMMA SearchType ==
  ASSUME NEW q, NEW found \in Search(q), q \in [lists : Seq(Template), max : Nat]
  PROVE  found \in Seq(SUBSET Lid) /\ Items(found) \subseteq Lid
<1>1. PICK n \in 1 .. Len(q.lists) : found \in [1 .. n -> SUBSET Lid]
  BY Zenon DEF Search
<1>2. n \in Nat
  OBVIOUS
<1>3. found \in Seq(SUBSET Lid)
  BY <1>1, <1>2
<1>4. Items(found) \subseteq Lid
  BY <1>1, Zenon DEF Items
<1> QED
  BY <1>3, <1>4, Zenon

(* The initial state satisfies the invariant.                              *)
LEMMA InitInv == Init => Inv
<1> SUFFICES ASSUME Init PROVE Inv
  BY Zenon
<1>1. TypeOK
  BY Defaults, Zenon DEF Init, TypeOK, Pc, Code
<1>2. LockHasOwner
  BY Zenon DEF Init, LockHasOwner, Absent
<1>3. CallsConsistent
  <2>1. RecordsHaveIds
    BY Zenon DEF Init, RecordsHaveIds, NoTxnRecord
  <2>2. \A w \in Worker : CallConsistent(w) /\ pc[w] = "idle"
    BY StoreAssumption, Zenon DEF Init, CallConsistent, NoCall
  <2> QED
    BY <2>1, <2>2, Zenon DEF CallsConsistent
<1> QED
  BY <1>1, <1>2, <1>3, Zenon DEF Inv

(* A call in progress stays consistent while other workers step: they do   *)
(* not touch its locals, no transaction is forgotten, and nobody writes    *)
(* under the lease id of a put in progress.                                *)
LEMMA CallUnaffected ==
  ASSUME Inv, NEW v \in Worker,
         pc'[v] = pc[v], call'[v] = call[v], ids \subseteq ids',
         \A t \in Tid : txn_db[t].status # "NONE" => txn_db'[t].status # "NONE",
         pc[v] = "put" => \A l \in call[v].lids : holder_db'[l] = holder_db[l]
  PROVE  CallConsistent(v)'
<1>1. CallConsistent(v)
  BY Zenon DEF Inv, CallsConsistent
<1> QED
  BY <1>1, Zenon DEF CallConsistent

(* The end of a call, and what it leaves alone.                            *)
LEMMA ReturnFacts ==
  ASSUME NEW w \in Worker, NEW code \in Code, TypeOK, Return(w, code)
  PROVE  /\ pc' \in [Worker -> Pc] /\ call' \in [Worker -> Call] /\ ret' \in Code
         /\ pc'[w] = "idle" /\ call'[w] = NoCall /\ CallConsistent(w)'
         /\ \A v \in Worker : v # w => pc'[v] = pc[v] /\ call'[v] = call[v]
<1>1. pc' \in [Worker -> Pc] /\ ret' \in Code
  BY Zenon DEF TypeOK, Return, Pc
<1>2. call' \in [Worker -> Call]
  BY Defaults, Zenon DEF TypeOK, Return
<1>3. pc'[w] = "idle" /\ call'[w] = NoCall
  BY Zenon DEF TypeOK, Return
<1>4. \A v \in Worker : v # w => pc'[v] = pc[v] /\ call'[v] = call[v]
  BY Zenon DEF TypeOK, Return
<1>5. CallConsistent(w)'
  BY <1>3, StoreAssumption DEF CallConsistent, NoCall
<1> QED
  BY <1>1, <1>2, <1>3, <1>4, <1>5, Zenon

(* A step inside a call, and what it leaves alone.                         *)
LEMMA ContinueFacts ==
  ASSUME NEW w \in Worker, NEW label \in Pc, NEW c \in Call, TypeOK, Continue(w, label, c)
  PROVE  /\ pc' \in [Worker -> Pc] /\ call' \in [Worker -> Call] /\ ret' \in Code
         /\ pc'[w] = label /\ call'[w] = c
         /\ \A v \in Worker : v # w => pc'[v] = pc[v] /\ call'[v] = call[v]
<1>1. pc' \in [Worker -> Pc] /\ ret' \in Code
  BY Zenon DEF TypeOK, Continue
<1>2. call' \in [Worker -> Call]
  BY Zenon DEF TypeOK, Continue
<1>3. pc'[w] = label /\ call'[w] = c
  BY Zenon DEF TypeOK, Continue
<1>4. \A v \in Worker : v # w => pc'[v] = pc[v] /\ call'[v] = call[v]
  BY Zenon DEF TypeOK, Continue
<1> QED
  BY <1>1, <1>2, <1>3, <1>4, Zenon

(* The locals of the calls are well typed.                                 *)
LEMMA CallTypes ==
  /\ \A l \in Lid, h \in Holder : PutCall(l, h) \in Call
  /\ \A t \in Tid, q \in Query : GetCall(t, q) \in Call
  /\ \A t \in Tid \cup {NoTxn}, found \in Seq(SUBSET Lid), s \in [Lid -> Holder] :
       TakeCall(t, found, s) \in Call
  /\ \A S \in SUBSET Lid : FireCall(S) \in Call
<1>1. <<>> \in Seq(SUBSET Lid) /\ NoSnapshot \in [Lid -> Holder]
  BY Defaults DEF NoSnapshot
<1>2. \A l \in Lid, h \in Holder : PutCall(l, h) \in Call
  BY <1>1, Zenon DEF PutCall, Call
<1>3. \A t \in Tid, q \in Query : GetCall(t, q) \in Call
  BY <1>1, Defaults, Zenon DEF GetCall, Call
<1>4. \A t \in Tid \cup {NoTxn}, found \in Seq(SUBSET Lid), s \in [Lid -> Holder] :
        TakeCall(t, found, s) \in Call
  BY <1>1, Defaults, Zenon DEF TakeCall, Call
<1>5. \A S \in SUBSET Lid : FireCall(S) \in Call
  BY <1>1, Defaults, Zenon DEF FireCall, Call
<1> QED
  BY <1>2, <1>3, <1>4, <1>5, Zenon

(* What the calls in progress name.                                        *)
LEMMA CallTids ==
  /\ \A t, found, s : TakeCall(t, found, s).tid = t
  /\ \A S : FireCall(S).tid = NoTxn
  /\ \A t, q : GetCall(t, q).tid = t /\ GetCall(t, q).query = q
  /\ NoTxn \notin Tid
BY StoreAssumption, Zenon DEF TakeCall, FireCall, GetCall

(* An id without a record is neither locked nor owned.                     *)
LEMMA AbsentFacts == Absent.lock = "ABSENT" /\ Absent.txn_id = NoTxn
BY Zenon DEF Absent

(* The lease id of a put in progress has no record yet.                    *)
LEMMA PutHasNoRecord ==
  ASSUME Inv, NEW v \in Worker, pc[v] = "put", NEW l \in call[v].lids
  PROVE  l \in Lid /\ holder_db[l] = Absent /\ holder_db[l].lock = "ABSENT"
<1>1. CallConsistent(v)
  BY Zenon DEF Inv, CallsConsistent
<1>2. PICK m \in Lid : call[v].lids = {m} /\ holder_db[m] = Absent
  BY <1>1, Zenon DEF CallConsistent
<1> QED
  BY <1>2, AbsentFacts, Zenon

(* What a step may do to a record without harm to LockHasOwner.            *)
LEMMA LockStep ==
  ASSUME LockHasOwner,
         \A u \in Tid : txn_db[u].status # "NONE" => txn_db'[u].status # "NONE",
         \A l \in Lid :
           \/ holder_db'[l] = holder_db[l] \/ holder_db'[l] = Absent
           \/ holder_db'[l].lock = "UNLOCKED" /\ holder_db'[l].txn_id = NoTxn
           \/ /\ holder_db'[l].lock = "TAKE_LOCK" /\ holder_db'[l].txn_id \in Tid
              /\ txn_db'[holder_db'[l].txn_id].status # "NONE"
  PROVE  LockHasOwner'
<1>1. ASSUME NEW l \in Lid
      PROVE  IF holder_db'[l].lock \in {"WRITE_LOCK", "TAKE_LOCK"}
             THEN holder_db'[l].txn_id \in Tid /\ txn_db'[holder_db'[l].txn_id].status # "NONE"
             ELSE holder_db'[l].txn_id = NoTxn
  <2>1. IF holder_db[l].lock \in {"WRITE_LOCK", "TAKE_LOCK"}
        THEN holder_db[l].txn_id \in Tid /\ txn_db[holder_db[l].txn_id].status # "NONE"
        ELSE holder_db[l].txn_id = NoTxn
    BY Zenon DEF LockHasOwner
  <2>2. CASE holder_db'[l] = holder_db[l]
    BY <2>1, <2>2, Zenon
  <2>3. CASE holder_db'[l] = Absent
    BY <2>3, AbsentFacts, Zenon
  <2>4. CASE holder_db'[l].lock = "UNLOCKED" /\ holder_db'[l].txn_id = NoTxn
    BY <2>4, Zenon
  <2> QED
    BY <2>2, <2>3, <2>4, Zenon
<1> QED
  BY <1>1, Zenon DEF LockHasOwner

(* What every action has to show of the calls in progress: worker w's own  *)
(* is consistent, the others' are untouched and nobody's lease id is       *)
(* written to or taken by another put.                                     *)
LEMMA CallsStep ==
  ASSUME Inv, NEW w \in Worker, RecordsHaveIds', CallConsistent(w)',
         \A v \in Worker : v # w => pc'[v] = pc[v] /\ call'[v] = call[v],
         ids \subseteq ids',
         \A t \in Tid : txn_db[t].status # "NONE" => txn_db'[t].status # "NONE",
         \A v \in Worker : v # w /\ pc[v] = "put" =>
            \A l \in call[v].lids : holder_db'[l] = holder_db[l]
                                    /\ (pc'[w] = "put" => l \notin call'[w].lids)
  PROVE  CallsConsistent'
<1>1. ASSUME NEW v \in Worker PROVE CallConsistent(v)'
  BY <1>1, CallUnaffected, Zenon
<1>2. ASSUME NEW u \in Worker, NEW v \in Worker, pc'[u] = "put", pc'[v] = "put", u # v
      PROVE  call'[u].lids \cap call'[v].lids = {}
  BY <1>2, Zenon DEF Inv, CallsConsistent
<1> QED
  BY <1>1, <1>2, Zenon DEF CallsConsistent

(* An id that has just been handed out belongs to no put in progress.      *)
LEMMA FreshId ==
  ASSUME Inv, NEW l \in Lid, l \notin ids, NEW v \in Worker, pc[v] = "put"
  PROVE  l \notin call[v].lids
BY DEF Inv, CallsConsistent, CallConsistent

(* A put outside a transaction keeps the invariant.                        *)
LEMMA PutInv ==
  ASSUME Inv, NEW w \in Worker, NEW l \in Lid, NEW d \in Dur, NEW x \in Data,
         ApiPut(w, l, d, x)
  PROVE  Inv'
<1>1. NewHolder(NoTxn, d, x) \in Holder
  BY StoreAssumption DEF NewHolder, Holder, Lock, ExpireTime, Inv, TypeOK, FOREVER
<1>2. /\ pc' \in [Worker -> Pc] /\ call' \in [Worker -> Call] /\ ret' \in Code
      /\ pc'[w] # "put" /\ CallConsistent(w)'
      /\ \A v \in Worker : v # w => pc'[v] = pc[v] /\ call'[v] = call[v]
  <2>1. CASE Return(w, "ERR")
    BY <2>1, ReturnFacts, Zenon DEF Inv, Code
  <2>2. CASE Continue(w, "fire", FireCall({l}))
    <3>1. FireCall({l}) \in Call /\ "fire" \in Pc
      BY CallTypes, Zenon DEF Pc
    <3>2. /\ pc'[w] = "fire" /\ call'[w] = FireCall({l})
          /\ pc' \in [Worker -> Pc] /\ call' \in [Worker -> Call] /\ ret' \in Code
          /\ \A v \in Worker : v # w => pc'[v] = pc[v] /\ call'[v] = call[v]
      BY <2>2, <3>1, ContinueFacts, Zenon DEF Inv
    <3>3. CallConsistent(w)'
      <4>1. pc'[w] = "fire" /\ call'[w] = FireCall({l})
        BY <3>2, Zenon
      <4>2. call'[w].tid = NoTxn /\ NoTxn \notin Tid
        BY <4>1, CallTids, Zenon
      <4> QED
        BY <4>1, <4>2, Zenon DEF CallConsistent
    <3> QED
      BY <3>2, <3>3, Zenon
  <2> QED
    BY <2>1, <2>2, Zenon DEF ApiPut
<1>3. TypeOK'
  BY <1>1, <1>2, Zenon DEF Inv, TypeOK, ApiPut
<1>4. LockHasOwner'
  BY DEF Inv, TypeOK, LockHasOwner, ApiPut, NewHolder
<1>5. RecordsHaveIds'
  BY DEF Inv, TypeOK, CallsConsistent, RecordsHaveIds, ApiPut, NewHolder
<1>6. \A v \in Worker : pc[v] = "put" => \A m \in call[v].lids : holder_db'[m] = holder_db[m]
  BY FreshId, Zenon DEF Inv, TypeOK, Call, ApiPut
<1>7. CallsConsistent'
  BY <1>2, <1>5, <1>6, CallsStep, Zenon DEF ApiPut
<1> QED
  BY <1>3, <1>4, <1>7, Zenon DEF Inv

(* So does the first step of a put inside one, which reserves a lease id.  *)
LEMMA PutInTxnInv ==
  ASSUME Inv, NEW w \in Worker, NEW l \in Lid, NEW t \in Tid, NEW d \in Dur, NEW x \in Data,
         ApiPutInTxn(w, l, t, d, x)
  PROVE  Inv'
<1>1. NewHolder(t, d, x) \in Holder
  BY StoreAssumption DEF NewHolder, Holder, Lock, ExpireTime, Inv, TypeOK, FOREVER
<1>2. /\ pc' \in [Worker -> Pc] /\ call' \in [Worker -> Call] /\ ret' \in Code
      /\ pc'[w] = "put" => call'[w].lids = {l}
      /\ CallConsistent(w)'
      /\ \A v \in Worker : v # w => pc'[v] = pc[v] /\ call'[v] = call[v]
  <2>1. CASE Return(w, "INACTIVE_TXN")
    BY <2>1, ReturnFacts, Zenon DEF Inv, Code
  <2>2. CASE TxnIsActive(t) /\ Continue(w, "put", PutCall(l, NewHolder(t, d, x)))
    <3>1. PutCall(l, NewHolder(t, d, x)) \in Call /\ "put" \in Pc
      BY <1>1, CallTypes, Zenon DEF Pc
    <3>2. /\ pc'[w] = "put" /\ call'[w] = PutCall(l, NewHolder(t, d, x))
          /\ pc' \in [Worker -> Pc] /\ call' \in [Worker -> Call] /\ ret' \in Code
          /\ \A v \in Worker : v # w => pc'[v] = pc[v] /\ call'[v] = call[v]
      BY <2>2, <3>1, ContinueFacts, Zenon DEF Inv
    <3>3. l \in ids' /\ holder_db'[l] = Absent /\ txn_db' = txn_db
      BY Zenon DEF Inv, CallsConsistent, RecordsHaveIds, ApiPutInTxn
    <3>4. CallConsistent(w)'
      <4>1. /\ call'[w].tid = NoTxn /\ call'[w].lids = {l}
            /\ call'[w].holder.lock = "WRITE_LOCK" /\ call'[w].holder.txn_id = t
        BY <3>2, StoreAssumption DEF PutCall, NewHolder
      <4>2. NoTxn \notin Tid /\ txn_db'[t].status # "NONE"
        BY <2>2, <3>3, StoreAssumption, Zenon DEF TxnIsActive
      <4>3. pc'[w] = "put"
        BY <3>2, Zenon
      <4> QED
        BY <3>3, <4>1, <4>2, <4>3, Zenon DEF CallConsistent
    <3> QED
      BY <3>2, <3>4 DEF PutCall
  <2> QED
    BY <2>1, <2>2, Zenon DEF ApiPutInTxn
<1>3. TypeOK'
  BY <1>2, Zenon DEF Inv, TypeOK, ApiPutInTxn
<1>4. LockHasOwner'
  BY Zenon DEF Inv, LockHasOwner, ApiPutInTxn
<1>5. RecordsHaveIds'
  BY Zenon DEF Inv, CallsConsistent, RecordsHaveIds, ApiPutInTxn
<1>6. \A v \in Worker : pc[v] = "put" => l \notin call[v].lids
  BY FreshId, Zenon DEF ApiPutInTxn
<1>7. CallsConsistent'
  BY <1>2, <1>5, <1>6, CallsStep, Zenon DEF ApiPutInTxn
<1> QED
  BY <1>3, <1>4, <1>7, Zenon DEF Inv

(* The second step stores under the lease id the put has kept to itself.   *)
LEMMA TryPutInv ==
  ASSUME Inv, NEW w \in Worker, TryPut(w)
  PROVE  Inv'
<1>1. PICK l \in Lid : call[w].lids = {l} /\ l \in ids /\ holder_db[l] = Absent
  BY Zenon DEF Inv, CallsConsistent, CallConsistent, TryPut
<1>2. /\ call[w].holder \in Holder
      /\ call[w].holder.lock = "WRITE_LOCK"
      /\ call[w].holder.txn_id \in Tid
      /\ txn_db[call[w].holder.txn_id].status # "NONE"
  BY Zenon DEF Inv, TypeOK, Call, CallsConsistent, CallConsistent, TryPut
<1>3. /\ pc' \in [Worker -> Pc] /\ call' \in [Worker -> Call] /\ ret' \in Code
      /\ pc'[w] = "idle" /\ CallConsistent(w)'
      /\ \A v \in Worker : v # w => pc'[v] = pc[v] /\ call'[v] = call[v]
  BY ReturnFacts, Zenon DEF Inv, TryPut, Code
<1>4. holder_db' = [m \in Lid |-> IF m = l THEN call[w].holder ELSE holder_db[m]]
  BY <1>1, Zenon DEF TryPut
<1>5. TypeOK'
  BY <1>2, <1>3, <1>4, Zenon DEF Inv, TypeOK, TryPut
<1>6. LockHasOwner'
  BY <1>2, <1>4, Zenon DEF Inv, LockHasOwner, TryPut
<1>7. RecordsHaveIds'
  BY <1>1, <1>2, <1>4, Zenon DEF Inv, CallsConsistent, RecordsHaveIds, TryPut
<1>8. \A v \in Worker : v # w /\ pc[v] = "put" => l \notin call[v].lids
  BY <1>1, Zenon DEF Inv, CallsConsistent, TryPut
<1>9. \A v \in Worker : v # w /\ pc[v] = "put" =>
        \A m \in call[v].lids : holder_db'[m] = holder_db[m]
  BY <1>4, <1>8, Zenon DEF Inv, TypeOK, Call
<1>10. CallsConsistent'
  BY <1>3, <1>7, <1>9, CallsStep, Zenon DEF TryPut
<1> QED
  BY <1>5, <1>6, <1>10, Zenon DEF Inv

(* A step of worker w that leaves the databases alone.                     *)
LEMMA QuietInv ==
  ASSUME Inv, NEW w \in Worker,
         pc' \in [Worker -> Pc], call' \in [Worker -> Call], ret' \in Code,
         pc'[w] # "put", CallConsistent(w)',
         \A v \in Worker : v # w => pc'[v] = pc[v] /\ call'[v] = call[v],
         UNCHANGED <<now, holder_db, txn_db, ids, reaper_running_flag>>
  PROVE  Inv'
<1>1. TypeOK'
  BY Zenon DEF Inv, TypeOK
<1>2. LockHasOwner'
  BY Zenon DEF Inv, LockHasOwner
<1>3. RecordsHaveIds'
  BY Zenon DEF Inv, CallsConsistent, RecordsHaveIds
<1>4. CallsConsistent'
  BY <1>3, CallsStep, Zenon
<1> QED
  BY <1>1, <1>2, <1>4, Zenon DEF Inv

(* A call that only returns keeps the invariant.                           *)
LEMMA ReturnInv ==
  ASSUME Inv, NEW w \in Worker, NEW code \in Code, Return(w, code),
         UNCHANGED <<now, holder_db, txn_db, ids, reaper_running_flag>>
  PROVE  Inv'
<1>1. TypeOK
  BY Zenon DEF Inv
<1>2. /\ pc' \in [Worker -> Pc] /\ call' \in [Worker -> Call] /\ ret' \in Code
      /\ pc'[w] = "idle" /\ CallConsistent(w)'
      /\ \A v \in Worker : v # w => pc'[v] = pc[v] /\ call'[v] = call[v]
  BY <1>1, ReturnFacts, Zenon
<1> QED
  BY <1>2, QuietInv, Zenon

(* The search of a get, for a transaction that has begun or for none,      *)
(* keeps the invariant: what it found and read is the worker's own.        *)
LEMMA ReadSnapshotInv ==
  ASSUME Inv, NEW w \in Worker, NEW q \in Query, NEW take \in BOOLEAN,
         NEW t \in Tid \cup {NoTxn}, t \in Tid => txn_db[t].status # "NONE",
         ReadSnapshot(w, q, take, t),
         UNCHANGED <<now, holder_db, txn_db, ids, reaper_running_flag>>
  PROVE  Inv'
<1> DEFINE Copy(found) ==
      [l \in Lid |-> IF l \in Items(found) THEN holder_db[l] ELSE Absent]
<1>1. PICK found \in Search(q) :
        \/ Continue(w, "take", TakeCall(t, found, Copy(found)))
        \/ Return(w, SearchCode(q, found))
  BY Zenon DEF ReadSnapshot
<1>2. CASE Continue(w, "take", TakeCall(t, found, Copy(found)))
  <2>1. found \in Seq(SUBSET Lid)
    <3>1. q \in [lists : Seq(Template), max : Nat]
      BY StoreAssumption, Zenon
    <3> QED
      BY <3>1, SearchType, Zenon
  <2>2. Copy(found) \in [Lid -> Holder]
    BY Defaults, Zenon DEF Inv, TypeOK
  <2>3. TakeCall(t, found, Copy(found)) \in Call /\ "take" \in Pc /\ TypeOK
    BY <2>1, <2>2, CallTypes, Zenon DEF Pc, Inv
  <2> HIDE DEF Copy
  <2>4. /\ pc'[w] = "take" /\ call'[w] = TakeCall(t, found, Copy(found))
        /\ pc' \in [Worker -> Pc] /\ call' \in [Worker -> Call] /\ ret' \in Code
        /\ \A v \in Worker : v # w => pc'[v] = pc[v] /\ call'[v] = call[v]
    BY <1>2, <2>3, ContinueFacts, Zenon
  <2>5. CallConsistent(w)'
    <3>1. pc'[w] = "take" /\ call'[w] = TakeCall(t, found, Copy(found))
      BY <2>4, Zenon
    <3>2. call'[w].tid = t
      BY <3>1, CallTids
    <3>3. t \in Tid => txn_db'[t].status # "NONE"
      BY Zenon
    <3> QED
      BY <3>1, <3>2, <3>3, Zenon DEF CallConsistent
  <2> QED
    BY <2>4, <2>5, QuietInv, Zenon
<1>3. CASE Return(w, SearchCode(q, found))
  <2>1. SearchCode(q, found) \in Code
    BY Zenon DEF SearchCode, Code
  <2> QED
    BY <1>3, <2>1, ReturnInv, Zenon
<1> QED
  BY <1>1, <1>2, <1>3, Zenon

(* The calls of the get interface up to the search.                        *)
LEMMA GetInv ==
  ASSUME Inv, NEW w \in Worker,
         \/ \E q \in Query, take \in BOOLEAN : ApiGet(w, q, take)
         \/ \E q \in Query, t \in Tid : ApiTakeInTxn(w, q, t)
         \/ TakeInTxnRead(w)
  PROVE  Inv'
<1>1. ASSUME NEW q \in Query, NEW take \in BOOLEAN, ApiGet(w, q, take) PROVE Inv'
  BY <1>1, ReadSnapshotInv, StoreAssumption DEF ApiGet
<1>2. ASSUME NEW q \in Query, NEW t \in Tid, ApiTakeInTxn(w, q, t) PROVE Inv'
  <2>1. CASE Return(w, "INACTIVE_TXN")
    BY <1>2, <2>1, ReturnInv, Zenon DEF ApiTakeInTxn, Code
  <2>2. CASE TxnIsActive(t) /\ Continue(w, "get", GetCall(t, q))
    <3>1. GetCall(t, q) \in Call /\ "get" \in Pc /\ TypeOK
      BY CallTypes, Zenon DEF Pc, Inv
    <3>2. /\ pc'[w] = "get" /\ call'[w] = GetCall(t, q)
          /\ pc' \in [Worker -> Pc] /\ call' \in [Worker -> Call] /\ ret' \in Code
          /\ \A v \in Worker : v # w => pc'[v] = pc[v] /\ call'[v] = call[v]
      BY <2>2, <3>1, ContinueFacts, Zenon
    <3>3. txn_db' = txn_db
      BY <1>2, Zenon DEF ApiTakeInTxn
    <3>4. CallConsistent(w)'
      <4>1. pc'[w] = "get" /\ call'[w].tid = t /\ call'[w].query = q
        <5>1. pc'[w] = "get" /\ call'[w] = GetCall(t, q)
          BY <3>2, Zenon
        <5> QED
          BY <5>1, CallTids
      <4>2. txn_db'[t].status # "NONE"
        BY <2>2, <3>3, Zenon DEF TxnIsActive
      <4> QED
        BY <4>1, <4>2, Zenon DEF CallConsistent
    <3> QED
      BY <1>2, <3>2, <3>4, QuietInv, Zenon DEF ApiTakeInTxn
  <2> QED
    BY <1>2, <2>1, <2>2, Zenon DEF ApiTakeInTxn
<1>3. ASSUME TakeInTxnRead(w) PROVE Inv'
  <2>1. call[w].query \in Query /\ call[w].tid \in Tid
        /\ txn_db[call[w].tid].status # "NONE"
    BY <1>3, Zenon DEF Inv, CallsConsistent, CallConsistent, TakeInTxnRead
  <2> QED
    BY <1>3, <2>1, ReadSnapshotInv, Zenon DEF TakeInTxnRead
<1> QED
  BY <1>1, <1>2, <1>3, Zenon

(* Locking or deleting what a take found keeps the invariant: a put in     *)
(* progress has no record yet, so its item was not found.                  *)
LEMMA FinishTakeInv ==
  ASSUME Inv, NEW w \in Worker, FinishTake(w)
  PROVE  Inv'
<1>1. CASE Return(w, "PLEASE_RETRY") /\ UNCHANGED holder_db
  BY <1>1, ReturnInv, Zenon DEF FinishTake, Code
<1>2. CASE /\ StillThere(call[w]) /\ Return(w, "OK")
           /\ holder_db' = [l \in Lid |->
                IF l \in Items(call[w].found) THEN Taken(call[w], l) ELSE holder_db[l]]
  <2> DEFINE S == Items(call[w].found)
  <2>1. \A l \in S \cap Lid : holder_db[l].lock = "UNLOCKED" /\ call[w].snapshot[l] = holder_db[l]
    BY <1>2, Zenon DEF StillThere, Conflict, DoNotSkip
  <2>2. call[w].tid \in Tid \cup {NoTxn}
        /\ (call[w].tid \in Tid => txn_db[call[w].tid].status # "NONE")
    BY Zenon DEF Inv, TypeOK, Call, CallsConsistent, CallConsistent
  <2>3. \A l \in S \cap Lid :
          /\ Taken(call[w], l) \in Holder
          /\ Taken(call[w], l).lock = "TAKE_LOCK" \/ Taken(call[w], l) = Absent
          /\ Taken(call[w], l).lock = "TAKE_LOCK" =>
                Taken(call[w], l).txn_id \in Tid /\ Taken(call[w], l).txn_id = call[w].tid
    <3>1. ASSUME NEW l \in S \cap Lid, call[w].tid \in Tid
          PROVE  Taken(call[w], l) \in Holder /\ Taken(call[w], l).lock = "TAKE_LOCK"
                 /\ Taken(call[w], l).txn_id = call[w].tid
      <4>1. holder_db[l] \in Holder /\ call[w].snapshot[l] = holder_db[l]
        BY <2>1, Zenon DEF Inv, TypeOK
      <4>2. Relocked(holder_db[l], "TAKE_LOCK", call[w].tid) \in Holder
        BY <3>1, <4>1, Zenon DEF Relocked, Holder, Lock
      <4>3. Relocked(holder_db[l], "TAKE_LOCK", call[w].tid).lock = "TAKE_LOCK"
            /\ Relocked(holder_db[l], "TAKE_LOCK", call[w].tid).txn_id = call[w].tid
        BY <4>1, Zenon DEF Relocked, Holder
      <4>4. call[w].tid # NoTxn
        BY <3>1, StoreAssumption, Zenon
      <4>5. Taken(call[w], l) = Relocked(holder_db[l], "TAKE_LOCK", call[w].tid)
        BY <4>1, <4>4, Zenon DEF Taken
      <4> QED
        BY <4>2, <4>3, <4>5, Zenon
    <3>2. ASSUME NEW l \in S \cap Lid, call[w].tid = NoTxn
          PROVE  Taken(call[w], l) = Absent
      BY <3>2, Zenon DEF Taken
    <3>3. Absent \in Holder /\ Absent.lock # "TAKE_LOCK"
      BY Defaults, Zenon DEF Absent
    <3>4. call[w].tid \in Tid \/ call[w].tid = NoTxn
      BY <2>2, Zenon
    <3> QED
      BY <3>1, <3>2, <3>3, <3>4, Zenon
  <2> HIDE DEF S
  <2>4. holder_db' = [l \in Lid |-> IF l \in S THEN Taken(call[w], l) ELSE holder_db[l]]
    BY <1>2, Zenon DEF S
  <2>5. /\ pc' \in [Worker -> Pc] /\ call' \in [Worker -> Call] /\ ret' \in Code
        /\ pc'[w] = "idle" /\ CallConsistent(w)'
        /\ \A v \in Worker : v # w => pc'[v] = pc[v] /\ call'[v] = call[v]
    BY <1>2, ReturnFacts, Zenon DEF Inv, Code
  <2>6. UNCHANGED <<now, txn_db, ids, reaper_running_flag>>
    BY Zenon DEF FinishTake
  <2>7. TypeOK'
    BY <2>3, <2>4, <2>5, <2>6, Zenon DEF Inv, TypeOK
  <2>8. LockHasOwner'
    <3>1. ASSUME NEW l \in Lid
          PROVE  \/ holder_db'[l] = holder_db[l] \/ holder_db'[l] = Absent
                 \/ /\ holder_db'[l].lock = "TAKE_LOCK" /\ holder_db'[l].txn_id \in Tid
                    /\ txn_db'[holder_db'[l].txn_id].status # "NONE"
      <4>1. CASE l \in S
        <5>1. holder_db'[l] = Taken(call[w], l)
          BY <2>4, <4>1, Zenon
        <5> QED
          BY <2>2, <2>3, <2>6, <4>1, <5>1, Zenon
      <4>2. CASE l \notin S
        BY <2>4, <4>2, Zenon
      <4> QED
        BY <4>1, <4>2, Zenon
    <3>2. LockHasOwner /\ txn_db' = txn_db
      BY <2>6, Zenon DEF Inv
    <3> QED
      BY <3>1, <3>2, LockStep, Zenon
  <2>9. RecordsHaveIds'
    BY <2>1, <2>3, <2>4, <2>6 DEF Inv, CallsConsistent, RecordsHaveIds, Absent
  <2>10. \A v \in Worker : v # w /\ pc[v] = "put" =>
           \A l \in call[v].lids : holder_db'[l] = holder_db[l]
    BY <2>1, <2>4, PutHasNoRecord, Zenon
  <2>11. CallsConsistent'
    BY <2>5, <2>6, <2>9, <2>10, CallsStep, Zenon
  <2> QED
    BY <2>7, <2>8, <2>11, Zenon DEF Inv
<1> QED
  BY <1>1, <1>2, Zenon DEF FinishTake

(* Renewing a lease changes nothing but the lease of a stored item.        *)
LEMMA UpdateLeaseInv ==
  ASSUME Inv, NEW w \in Worker, NEW l \in Lid, NEW d \in Dur, UpdateLease(w, l, d)
  PROVE  Inv'
<1>1. CASE (Return(w, "ITEM_NOTFOUND") \/ Return(w, "ERR")) /\ UNCHANGED holder_db
  BY <1>1, ReturnInv, Zenon DEF UpdateLease, Code
<1>2. CASE /\ holder_db[l].lock # "ABSENT" /\ Return(w, "OK")
           /\ holder_db' = [holder_db EXCEPT ![l].lease_expire_time = now + d]
  <2>1. /\ pc' \in [Worker -> Pc] /\ call' \in [Worker -> Call] /\ ret' \in Code
        /\ pc'[w] = "idle" /\ CallConsistent(w)'
        /\ \A v \in Worker : v # w => pc'[v] = pc[v] /\ call'[v] = call[v]
    BY <1>2, ReturnFacts, Zenon DEF Inv, Code
  <2>2. UNCHANGED <<now, txn_db, ids, reaper_running_flag>>
    BY Zenon DEF UpdateLease
  <2>3. \A m \in Lid : /\ holder_db'[m].lock = holder_db[m].lock
                       /\ holder_db'[m].txn_id = holder_db[m].txn_id
                       /\ m # l => holder_db'[m] = holder_db[m]
    BY <1>2, Zenon DEF Inv, TypeOK, Holder
  <2>4. holder_db' \in [Lid -> Holder]
    <3>1. holder_db[l] \in Holder /\ now + d \in Int
      BY StoreAssumption DEF Inv, TypeOK
    <3>2. [holder_db[l] EXCEPT !.lease_expire_time = now + d] \in Holder
      BY <3>1, Zenon DEF Holder
    <3>3. holder_db' = [holder_db EXCEPT ![l] =
                          [holder_db[l] EXCEPT !.lease_expire_time = now + d]]
      BY <1>2, Zenon DEF Inv, TypeOK
    <3> QED
      BY <3>2, <3>3, Zenon DEF Inv, TypeOK
  <2>5. TypeOK'
    BY <2>1, <2>2, <2>4, Zenon DEF Inv, TypeOK
  <2>6. LockHasOwner'
    BY <2>2, <2>3, Zenon DEF Inv, LockHasOwner
  <2>7. RecordsHaveIds'
    BY <1>2, <2>2, <2>3 DEF Inv, CallsConsistent, RecordsHaveIds, Absent
  <2>8. \A v \in Worker : pc[v] = "put" =>
          \A m \in call[v].lids : holder_db'[m] = holder_db[m]
    BY <1>2, <2>3, PutHasNoRecord, Zenon
  <2>9. CallsConsistent'
    BY <2>1, <2>2, <2>7, <2>8, CallsStep, Zenon
  <2> QED
    BY <2>5, <2>6, <2>9, Zenon DEF Inv
<1> QED
  BY <1>1, <1>2, Zenon DEF UpdateLease

(* The items a step removes were there, so no put in progress owns them.   *)
LEMMA RemoveInv ==
  ASSUME Inv, NEW D \in SUBSET Lid, \A l \in D : holder_db[l].lock # "ABSENT",
         holder_db' = [l \in Lid |-> IF l \in D THEN Absent ELSE holder_db[l]],
         reaper_running_flag' \in BOOLEAN, ret' \in Code,
         UNCHANGED <<now, txn_db, ids, pc, call>>
  PROVE  Inv'
<1>1. TypeOK'
  BY Defaults, Zenon DEF Inv, TypeOK
<1>2. LockHasOwner'
  <2>1. \A l \in Lid : holder_db'[l] = holder_db[l] \/ holder_db'[l] = Absent
    BY Zenon
  <2> QED
    BY <2>1, LockStep, Zenon DEF Inv
<1>3. RecordsHaveIds'
  BY Zenon DEF Inv, CallsConsistent, RecordsHaveIds
<1>4. ASSUME NEW v \in Worker PROVE CallConsistent(v)'
  <2>1. pc[v] = "put" => \A l \in call[v].lids : holder_db'[l] = holder_db[l]
    BY PutHasNoRecord, Zenon
  <2> QED
    BY <2>1, CallUnaffected, Zenon
<1>5. CallsConsistent'
  BY <1>3, <1>4, Zenon DEF Inv, CallsConsistent
<1> QED
  BY <1>1, <1>2, <1>5, Zenon DEF Inv

(* A lease that has run out is of an item that is stored and that nobody   *)
(* owns.                                                                   *)
LEMMA RanOutFacts ==
  ASSUME NEW l \in RanOut
  PROVE  /\ l \in Lid /\ holder_db[l].lock # "ABSENT" /\ holder_db[l].txn_id = NoTxn
         /\ Expired(holder_db[l])
BY Zenon DEF RanOut, ExpireTimeIdx, PropIdx

(* A pass of the reaper deletes nothing but leases that have run out, in   *)
(* whatever order the index has them.                                      *)
LEMMA ReaperDeletes ==
  ASSUME LeaseReaper
  PROVE  /\ ret' \in {"OK", "MORE", "ERR"}
         /\ \/ UNCHANGED holder_db
            \/ \E D \in SUBSET RanOut : holder_db' = Deleted(D)
<1>1. PICK started \in SetReaperRunning(reaper_running_flag, TRUE) :
        \/ ret' = "OK" /\ UNCHANGED holder_db
        \/ \E f \in FirstAtOrAfterNow : \E D \in Reapable(f) :
             holder_db' = Deleted(D) /\ ret' = ReapCode(f, D)
        \/ /\ \E D \in SUBSET RanOut : holder_db' = Deleted(D)
           /\ ret' \in {"OK", "MORE"}
        \/ ret' = "ERR" /\ UNCHANGED holder_db
  BY Zenon DEF LeaseReaper
<1>2. ASSUME NEW f \in FirstAtOrAfterNow, NEW D \in Reapable(f)
      PROVE  D \in SUBSET RanOut /\ ReapCode(f, D) \in {"OK", "MORE"}
  BY Zenon DEF Reapable, ReapCode
<1> QED
  BY <1>1, <1>2, Zenon

(* The reaper's flag is a flag.                                            *)
LEMMA FlagFacts ==
  ASSUME NEW flag \in BOOLEAN, NEW running \in BOOLEAN,
         NEW p \in SetReaperRunning(flag, running)
  PROVE  p[1] \in BOOLEAN
<1>1. CASE flag
  <2>1. PICK r \in BOOLEAN : p = <<TRUE, r>>
    BY <1>1, Zenon DEF SetReaperRunning
  <2> QED
    BY <2>1, Zenon
<1>2. CASE ~flag
  <2>1. p = <<running, TRUE>>
    BY <1>2, Zenon DEF SetReaperRunning
  <2> QED
    BY <2>1, Zenon
<1> QED
  BY <1>1, <1>2, Zenon

(* A run of the reaper keeps the invariant, whatever its flag says.        *)
LEMMA LeaseReaperInv ==
  ASSUME Inv, LeaseReaper
  PROVE  Inv'
<1>1. PICK started \in SetReaperRunning(reaper_running_flag, TRUE) :
        \/ reaper_running_flag' = started[1]
        \/ \E ended \in SetReaperRunning(started[1], FALSE) :
             reaper_running_flag' = ended[1]
  BY Zenon DEF LeaseReaper
<1>2. reaper_running_flag' \in BOOLEAN
  <2>1. started[1] \in BOOLEAN
    BY FlagFacts, Zenon DEF Inv, TypeOK
  <2>2. \A ended \in SetReaperRunning(started[1], FALSE) : ended[1] \in BOOLEAN
    BY <2>1, FlagFacts, Zenon
  <2> QED
    BY <1>1, <2>1, <2>2, Zenon
<1>3. UNCHANGED <<now, txn_db, ids, pc, call>>
  BY Zenon DEF LeaseReaper
<1>4. ret' \in Code
  BY ReaperDeletes, Zenon DEF Code
<1>5. CASE UNCHANGED holder_db
  <2>1. PICK D \in SUBSET Lid : D = {}
    BY Zenon
  <2>2. holder_db' = [l \in Lid |-> IF l \in D THEN Absent ELSE holder_db[l]]
    BY <1>5, <2>1, Zenon DEF Inv, TypeOK
  <2>3. \A l \in D : holder_db[l].lock # "ABSENT"
    BY <2>1, Zenon
  <2> QED
    BY <1>2, <1>3, <1>4, <2>2, <2>3, RemoveInv, Zenon
<1>6. ASSUME NEW D \in SUBSET RanOut, holder_db' = Deleted(D)
      PROVE  Inv'
  <2>1. D \in SUBSET Lid /\ \A l \in D : holder_db[l].lock # "ABSENT"
    BY RanOutFacts, Zenon
  <2>2. holder_db' = [l \in Lid |-> IF l \in D THEN Absent ELSE holder_db[l]]
    BY <1>6, Zenon DEF Deleted
  <2> QED
    BY <1>2, <1>3, <1>4, <2>1, <2>2, RemoveInv, Zenon
<1> QED
  BY <1>5, <1>6, ReaperDeletes, Zenon

(* Beginning a transaction writes a record under a fresh id.               *)
LEMMA StartTxnInv ==
  ASSUME Inv, NEW w \in Worker, NEW t \in Tid, NEW d \in Dur, StartTxn(w, t, d)
  PROVE  Inv'
<1>1. /\ pc' \in [Worker -> Pc] /\ call' \in [Worker -> Call] /\ ret' \in Code
      /\ pc'[w] = "idle" /\ CallConsistent(w)'
      /\ \A v \in Worker : v # w => pc'[v] = pc[v] /\ call'[v] = call[v]
  BY ReturnFacts, Zenon DEF Inv, StartTxn, Code
<1>2. ExpireTime(d) \in Int
  BY StoreAssumption DEF ExpireTime, FOREVER, Inv, TypeOK
<1>3. txn_db' \in [Tid -> Txn]
  BY <1>2, Zenon DEF Inv, TypeOK, StartTxn, Txn, Status
<1>4. \A u \in Tid : IF u = t THEN txn_db'[u].status = "ACTIVE" ELSE txn_db'[u] = txn_db[u]
  BY Zenon DEF Inv, TypeOK, StartTxn
<1>5. TypeOK'
  BY <1>1, <1>3, Zenon DEF Inv, TypeOK, StartTxn
<1>6. LockHasOwner'
  BY <1>4, Zenon DEF Inv, LockHasOwner, StartTxn
<1>7. RecordsHaveIds'
  BY <1>4, Zenon DEF Inv, CallsConsistent, RecordsHaveIds, StartTxn
<1>8. CallsConsistent'
  BY <1>1, <1>4, <1>7, CallsStep, Zenon DEF StartTxn
<1> QED
  BY <1>5, <1>6, <1>8, Zenon DEF Inv

(* What becomes of the items of a transaction that ends: each is deleted   *)
(* or freed, none keeps its lock.                                          *)
LEMMA FinishedFacts ==
  ASSUME Inv, NEW t \in Tid, NEW status \in {"COMMITTED", "ROLLED_BACK"}, NEW l \in OwnerIdx(t)
  PROVE  /\ l \in Lid /\ holder_db[l].lock \in {"WRITE_LOCK", "TAKE_LOCK"}
         /\ Finished(t, status, l) \in Holder
         /\ IF l \in Cleared(t, status)
            THEN /\ Finished(t, status, l).lock = "UNLOCKED"
                 /\ Finished(t, status, l).txn_id = NoTxn
                 /\ Finished(t, status, l).lease_expire_time = holder_db[l].lease_expire_time
            ELSE Finished(t, status, l) = Absent
<1>1. l \in Lid /\ holder_db[l].lock # "ABSENT" /\ holder_db[l].txn_id = t
  BY Zenon DEF OwnerIdx
<1>2. holder_db[l] \in Holder
  BY <1>1, Zenon DEF Inv, TypeOK
<1>3. holder_db[l].lock \in {"WRITE_LOCK", "TAKE_LOCK"}
  BY <1>1, <1>2, StoreAssumption, Zenon DEF Inv, LockHasOwner, Holder, Lock
<1>4. Relocked(holder_db[l], "UNLOCKED", NoTxn) \in Holder
  BY <1>2, Zenon DEF Relocked, Holder, Lock
<1>5. l \in Cleared(t, status) <=> holder_db[l].lock # DeleteLock(status)
  BY <1>3, Zenon DEF Cleared, ClearLock, DeleteLock
<1> QED
  BY <1>1, <1>3, <1>4, <1>5, Defaults, Zenon DEF Finished, Relocked

(* Extending, committing or rolling back a transaction.                    *)
LEMMA UpdateTxnInv ==
  ASSUME Inv, NEW w \in Worker, NEW t \in Tid, NEW d \in Dur, NEW status \in Status,
         NEW n \in Expected, UpdateTxn(w, t, d, status, n)
  PROVE  Inv'
<1> DEFINE code == UpdateTxnCode(t, status, n)
<1> DEFINE extended == IF d > 0 THEN now + d ELSE txn_db[t].expire_time
<1>1. code \in Code
  <2>1. txn_db[t].status \in {"ACTIVE", "COMMITTED", "ROLLED_BACK", "NONE"}
    BY Zenon DEF Inv, TypeOK, Txn, Status
  <2> QED
    BY <2>1, Zenon DEF UpdateTxnCode, Code
<1> HIDE DEF code
<1>2. CASE Return(w, code) /\ UNCHANGED <<holder_db, txn_db>>
  BY <1>1, <1>2, ReturnInv, Zenon DEF UpdateTxn
<1>3. CASE /\ txn_db[t].status = "ACTIVE" /\ Return(w, "OK") /\ UNCHANGED holder_db
           /\ txn_db' = [txn_db EXCEPT ![t].expire_time = extended]
  <2>1. /\ pc' \in [Worker -> Pc] /\ call' \in [Worker -> Call] /\ ret' \in Code
        /\ pc'[w] = "idle" /\ CallConsistent(w)'
        /\ \A v \in Worker : v # w => pc'[v] = pc[v] /\ call'[v] = call[v]
    BY <1>3, ReturnFacts, Zenon DEF Inv, Code
  <2>2. UNCHANGED <<now, holder_db, ids, reaper_running_flag>>
    BY <1>3, Zenon DEF UpdateTxn
  <2>3. txn_db[t] \in Txn /\ extended \in Int
    BY StoreAssumption DEF Inv, TypeOK, Txn
  <2> HIDE DEF extended
  <2>4. [txn_db[t] EXCEPT !.expire_time = extended] \in Txn
        /\ [txn_db[t] EXCEPT !.expire_time = extended].status = txn_db[t].status
    BY <2>3, Zenon DEF Txn
  <2>5. txn_db' \in [Tid -> Txn] /\ \A u \in Tid : txn_db'[u].status = txn_db[u].status
    BY <1>3, <2>4, Zenon DEF Inv, TypeOK
  <2>6. TypeOK'
    BY <2>1, <2>2, <2>5, Zenon DEF Inv, TypeOK
  <2>7. LockHasOwner'
    BY <2>2, <2>5, Zenon DEF Inv, LockHasOwner
  <2>8. RecordsHaveIds'
    BY <2>2, <2>5, Zenon DEF Inv, CallsConsistent, RecordsHaveIds
  <2>9. CallsConsistent'
    BY <2>1, <2>2, <2>5, <2>8, CallsStep, Zenon
  <2> QED
    BY <2>6, <2>7, <2>9, Zenon DEF Inv
<1>4. CASE /\ txn_db[t].status = "ACTIVE" /\ status # "ACTIVE"
           /\ txn_db' = [txn_db EXCEPT ![t] = [status |-> status, expire_time |-> now]]
           /\ holder_db' = [l \in Lid |->
                IF l \in OwnerIdx(t) THEN Finished(t, status, l) ELSE holder_db[l]]
           /\ Continue(w, "fire", FireCall(Cleared(t, status)))
  <2>1. FireCall(Cleared(t, status)) \in Call /\ "fire" \in Pc /\ TypeOK
    BY CallTypes, Zenon DEF Pc, Inv, Cleared, OwnerIdx
  <2>2. /\ pc'[w] = "fire" /\ call'[w] = FireCall(Cleared(t, status))
        /\ pc' \in [Worker -> Pc] /\ call' \in [Worker -> Call] /\ ret' \in Code
        /\ \A v \in Worker : v # w => pc'[v] = pc[v] /\ call'[v] = call[v]
    BY <1>4, <2>1, ContinueFacts, Zenon
  <2>3. CallConsistent(w)'
    <3>1. pc'[w] = "fire" /\ call'[w] = FireCall(Cleared(t, status))
      BY <2>2, Zenon
    <3>2. call'[w].tid = NoTxn /\ NoTxn \notin Tid
      BY <3>1, CallTids, Zenon
    <3> QED
      BY <3>1, <3>2, Zenon DEF CallConsistent
  <2>4. UNCHANGED <<now, ids, reaper_running_flag>>
    BY Zenon DEF UpdateTxn
  <2>5. txn_db' \in [Tid -> Txn]
        /\ \A u \in Tid : txn_db'[u].status # "NONE" <=> txn_db[u].status # "NONE"
    BY <1>4 DEF Inv, TypeOK, Txn, Status
  <2>6. \A l \in OwnerIdx(t) :
          /\ l \in Lid /\ Finished(t, status, l) \in Holder
          /\ holder_db[l].lock \in {"WRITE_LOCK", "TAKE_LOCK"}
          /\ \/ Finished(t, status, l) = Absent
             \/ /\ Finished(t, status, l).lock = "UNLOCKED"
                /\ Finished(t, status, l).txn_id = NoTxn
    BY <1>4, FinishedFacts, Zenon DEF Status
  <2>7. holder_db' \in [Lid -> Holder]
    <3>1. holder_db \in [Lid -> Holder]
      BY Zenon DEF Inv, TypeOK
    <3> QED
      BY <1>4, <2>6, <3>1, Zenon
  <2>8. ASSUME NEW l \in Lid
        PROVE  \/ holder_db'[l] = holder_db[l]
               \/ /\ holder_db[l].lock \in {"WRITE_LOCK", "TAKE_LOCK"}
                  /\ \/ holder_db'[l] = Absent
                     \/ holder_db'[l].lock = "UNLOCKED" /\ holder_db'[l].txn_id = NoTxn
    BY <1>4, <2>6, Zenon
  <2>9. TypeOK'
    BY <2>2, <2>4, <2>5, <2>7, Zenon DEF Inv, TypeOK
  <2>10. LockHasOwner
    BY Zenon DEF Inv
  <2>11. LockHasOwner'
    BY <2>5, <2>8, <2>10, LockStep, Zenon
  <2>12. RecordsHaveIds'
    <3>1. ASSUME NEW l \in Lid, holder_db'[l].lock = "ABSENT" \/ l \notin ids'
          PROVE  holder_db'[l] = Absent
      <4>1. holder_db[l].lock = "ABSENT" \/ l \notin ids => holder_db[l] = Absent
        BY Zenon DEF Inv, CallsConsistent, RecordsHaveIds
      <4>2. CASE holder_db'[l] = holder_db[l]
        BY <2>4, <3>1, <4>1, <4>2, Zenon
      <4>3. CASE /\ holder_db[l].lock \in {"WRITE_LOCK", "TAKE_LOCK"}
                 /\ holder_db'[l].lock = "UNLOCKED"
        BY <2>4, <3>1, <4>1, <4>3, AbsentFacts, Zenon
      <4> QED
        BY <2>8, <4>2, <4>3, Zenon
    <3>2. \A u \in Tid : u \notin ids' => txn_db'[u].status = "NONE"
      BY <2>4, <2>5, Zenon DEF Inv, CallsConsistent, RecordsHaveIds
    <3> QED
      BY <3>1, <3>2, Zenon DEF RecordsHaveIds
  <2>13. \A v \in Worker : pc[v] = "put" =>
           \A l \in call[v].lids : holder_db'[l] = holder_db[l]
    BY <2>8, PutHasNoRecord, Zenon
  <2>14. CallsConsistent'
    BY <2>2, <2>3, <2>4, <2>5, <2>12, <2>13, CallsStep, Zenon
  <2> QED
    BY <2>9, <2>11, <2>14, Zenon DEF Inv
<1> QED
  BY <1>2, <1>3, <1>4, Zenon DEF UpdateTxn, code

(* Every step of the store keeps the invariant.                            *)
LEMMA NextInv == Inv /\ [Next]_vars => Inv'
<1> SUFFICES ASSUME Inv, [Next]_vars PROVE Inv'
  BY Zenon
<1>1. CASE Tick
  <2>1. TypeOK' /\ LockHasOwner'
    BY <1>1, StoreAssumption DEF Inv, TypeOK, LockHasOwner, Tick
  <2>2. CallsConsistent'
    BY <1>1, Zenon DEF Inv, CallsConsistent, CallConsistent, RecordsHaveIds, Tick
  <2> QED
    BY <2>1, <2>2, Zenon DEF Inv
<1>2. CASE LeaseReaper
  BY <1>2, LeaseReaperInv, Zenon
<1>3. CASE \E w \in Worker : Start(w)
  <2> PICK w \in Worker : Start(w)
    BY <1>3, Zenon
  <2>1. CASE \E l \in Lid, d \in Dur, x \in Data : ApiPut(w, l, d, x)
    BY <2>1, PutInv, Zenon
  <2>2. CASE \E l \in Lid, d \in Dur, x \in Data, t \in Tid : ApiPutInTxn(w, l, t, d, x)
    BY <2>2, PutInTxnInv, Zenon
  <2>3. CASE \/ \E q \in Query, take \in BOOLEAN : ApiGet(w, q, take)
             \/ \E q \in Query, t \in Tid : ApiTakeInTxn(w, q, t)
    BY <2>3, GetInv, Zenon
  <2>4. CASE \E l \in Lid, d \in Dur : UpdateLease(w, l, d)
    BY <2>4, UpdateLeaseInv, Zenon
  <2>5. CASE \E t \in Tid, d \in Dur : StartTxn(w, t, d)
    BY <2>5, StartTxnInv, Zenon
  <2>6. CASE \E t \in Tid, d \in Dur, status \in Status, n \in Expected :
               UpdateTxn(w, t, d, status, n)
    BY <2>6, UpdateTxnInv, Zenon
  <2> QED
    BY <2>1, <2>2, <2>3, <2>4, <2>5, <2>6, Zenon DEF Start
<1>4. CASE \E w \in Worker : Step(w) \/ DbDeadlock(w)
  <2> PICK w \in Worker : Step(w) \/ DbDeadlock(w)
    BY <1>4, Zenon
  <2>1. CASE TryPut(w)
    BY <2>1, TryPutInv, Zenon
  <2>2. CASE FireWriteEvent(w)
    BY <2>2, ReturnInv, Zenon DEF FireWriteEvent, Code
  <2>3. CASE TakeInTxnRead(w)
    BY <2>3, GetInv, Zenon
  <2>4. CASE FinishTake(w)
    BY <2>4, FinishTakeInv, Zenon
  <2>5. CASE DbDeadlock(w)
    BY <2>5, ReturnInv, Zenon DEF DbDeadlock, Code
  <2> QED
    BY <2>1, <2>2, <2>3, <2>4, <2>5, Zenon DEF Step
<1>5. CASE UNCHANGED vars
  <2>1. TypeOK' /\ LockHasOwner'
    BY <1>5, Zenon DEF Inv, TypeOK, LockHasOwner, vars
  <2>2. CallsConsistent'
    BY <1>5, Zenon DEF Inv, CallsConsistent, CallConsistent, RecordsHaveIds, vars
  <2> QED
    BY <2>1, <2>2, Zenon DEF Inv
<1> QED
  BY <1>1, <1>2, <1>3, <1>4, <1>5, Zenon DEF Next

(* The inductive invariant holds in every state of the store.              *)
THEOREM Invariance == Spec => []Inv
  BY InitInv, NextInv, PTL DEF Spec

(* The variables of the store keep their types.                            *)
THEOREM TypeCorrect == Spec => []TypeOK
<1>1. Inv => TypeOK
  BY Zenon DEF Inv
<1> QED
  BY <1>1, Invariance, PTL

(* An item is locked exactly while a transaction that has begun owns it,   *)
(* so that _finish_oetxn never meets the unlocked item it panics over.     *)
THEOREM LocksHaveOwners == Spec => []LockHasOwner
<1>1. Inv => LockHasOwner
  BY Zenon DEF Inv
<1> QED
  BY <1>1, Invariance, PTL

(* The puts in progress keep their lease ids to themselves, and calls      *)
(* enlist only in transactions that have begun.                            *)
THEOREM CallsStayConsistent == Spec => []CallsConsistent
<1>1. Inv => CallsConsistent
  BY Zenon DEF Inv
<1> QED
  BY <1>1, Invariance, PTL

(* What a step may do to the record of lease id l: store the put that has  *)
(* it, take it, lock it, renew it, reap it, or end its transaction.        *)
Stored(l) == l \notin ids /\ holder_db[l] = Absent /\ l \in ids'
TakenNow(l) == DoNotSkip(holder_db[l]) /\ holder_db'[l].lock \in {"ABSENT", "TAKE_LOCK"}
Renewed(l) == holder_db[l].lock # "ABSENT" /\ holder_db'[l].lock = holder_db[l].lock
Reaped(l) == holder_db[l].lock # "ABSENT" /\ holder_db'[l] = Absent
Ended(l) == holder_db[l].lock \in {"WRITE_LOCK", "TAKE_LOCK"}

(* A record is changed only in one of those ways, and a step that makes    *)
(* it visible has its write event in hand.                                 *)
LEMMA RecordChanges ==
  ASSUME Inv, [Next]_vars, NEW l \in Lid
  PROVE  \/ holder_db'[l] = holder_db[l]
         \/ /\ Stored(l) \/ Ended(l)
            /\ holder_db'[l] = Absent
               \/ \E w \in Worker : pc'[w] = "fire" /\ l \in call'[w].lids
         \/ InFlight(l) /\ holder_db'[l].lock = "WRITE_LOCK"
         \/ TakenNow(l) \/ Renewed(l) \/ Reaped(l)
<1>1. CASE UNCHANGED holder_db
  BY <1>1, Zenon
<1>2. ASSUME NEW w \in Worker, NEW k \in Lid, NEW d \in Dur, NEW x \in Data, ApiPut(w, k, d, x),
             holder_db' # holder_db
      PROVE  \/ holder_db'[l] = holder_db[l]
             \/ Stored(l) /\ \E v \in Worker : pc'[v] = "fire" /\ l \in call'[v].lids
  <2>1. CASE l = k
    <3>1. Continue(w, "fire", FireCall({k})) /\ k \notin ids /\ ids' = ids \cup {k}
      BY <1>2, Zenon DEF ApiPut
    <3>2. holder_db[k] = Absent
      BY <3>1, Zenon DEF Inv, CallsConsistent, RecordsHaveIds
    <3>3. pc'[w] = "fire" /\ call'[w] = FireCall({k})
      BY <3>1, Zenon DEF Inv, TypeOK, Continue
    <3> QED
      BY <2>1, <3>1, <3>2, <3>3 DEF Stored, FireCall
  <2>2. CASE l # k
    BY <1>2, <2>2, Zenon DEF ApiPut, Inv, TypeOK
  <2> QED
    BY <2>1, <2>2, Zenon
<1>3. ASSUME NEW w \in Worker, TryPut(w)
      PROVE  \/ holder_db'[l] = holder_db[l]
             \/ InFlight(l) /\ holder_db'[l].lock = "WRITE_LOCK"
  <2>1. call[w].holder.lock = "WRITE_LOCK"
    BY <1>3, Zenon DEF Inv, CallsConsistent, CallConsistent, TryPut
  <2> QED
    BY <1>3, <2>1, Zenon DEF TryPut, InFlight
<1>4. ASSUME NEW w \in Worker, FinishTake(w), holder_db' # holder_db
      PROVE  holder_db'[l] = holder_db[l] \/ TakenNow(l)
  <2>1. /\ StillThere(call[w])
        /\ holder_db'[l] = IF l \in Items(call[w].found) THEN Taken(call[w], l) ELSE holder_db[l]
    BY <1>4, Zenon DEF FinishTake
  <2>2. CASE l \in Items(call[w].found)
    <3>1. DoNotSkip(holder_db[l])
      BY <2>1, <2>2, Zenon DEF StillThere
    <3>2. Taken(call[w], l).lock \in {"ABSENT", "TAKE_LOCK"}
      BY Zenon DEF Taken, Absent, Relocked
    <3> QED
      BY <2>1, <2>2, <3>1, <3>2, Zenon DEF TakenNow
  <2> QED
    BY <2>1, <2>2, Zenon
<1>5. ASSUME NEW w \in Worker, NEW k \in Lid, NEW d \in Dur, UpdateLease(w, k, d),
             holder_db' # holder_db
      PROVE  holder_db'[l] = holder_db[l] \/ Renewed(l)
  <2>1. /\ holder_db[k].lock # "ABSENT"
        /\ holder_db' = [holder_db EXCEPT ![k] =
                           [holder_db[k] EXCEPT !.lease_expire_time = now + d]]
    BY <1>5, Zenon DEF UpdateLease
  <2>2. [holder_db[k] EXCEPT !.lease_expire_time = now + d].lock = holder_db[k].lock
    BY Zenon DEF Inv, TypeOK, Holder
  <2> QED
    BY <2>1, <2>2, Zenon DEF Renewed, Inv, TypeOK
<1>6. ASSUME LeaseReaper, holder_db' # holder_db
      PROVE  holder_db'[l] = holder_db[l] \/ Reaped(l)
  <2>1. PICK D \in SUBSET RanOut : holder_db' = Deleted(D)
    BY <1>6, ReaperDeletes, Zenon
  <2>2. l \in D => holder_db[l].lock # "ABSENT"
    BY RanOutFacts, Zenon
  <2> QED
    BY <2>1, <2>2, Zenon DEF Deleted, Reaped
<1>7. ASSUME NEW w \in Worker, NEW t \in Tid, NEW d \in Dur, NEW status \in Status,
             NEW n \in Expected, UpdateTxn(w, t, d, status, n), holder_db' # holder_db
      PROVE  \/ holder_db'[l] = holder_db[l]
             \/ /\ Ended(l)
                /\ holder_db'[l] = Absent
                   \/ \E v \in Worker : pc'[v] = "fire" /\ l \in call'[v].lids
  <2>1. /\ status # "ACTIVE" /\ Continue(w, "fire", FireCall(Cleared(t, status)))
        /\ holder_db'[l] = IF l \in OwnerIdx(t) THEN Finished(t, status, l) ELSE holder_db[l]
    BY <1>7, Zenon DEF UpdateTxn
  <2>2. pc'[w] = "fire" /\ call'[w].lids = Cleared(t, status)
    BY <2>1, Zenon DEF Continue, FireCall, Inv, TypeOK
  <2>3. l \in OwnerIdx(t) =>
          /\ holder_db[l].lock \in {"WRITE_LOCK", "TAKE_LOCK"}
          /\ l \in Cleared(t, status) \/ Finished(t, status, l) = Absent
    BY <2>1, FinishedFacts, Zenon DEF Status
  <2> QED
    BY <2>1, <2>2, <2>3, Zenon DEF Ended
<1>8. CASE holder_db' # holder_db
  <2>1. \/ LeaseReaper
        \/ \E w \in Worker :
             \/ \E k \in Lid, d \in Dur, x \in Data : ApiPut(w, k, d, x)
             \/ TryPut(w) \/ FinishTake(w)
             \/ \E k \in Lid, d \in Dur : UpdateLease(w, k, d)
             \/ \E t \in Tid, d \in Dur, status \in Status, n \in Expected :
                  UpdateTxn(w, t, d, status, n)
    <3>1. Next /\ ~Tick
      BY <1>8, Zenon DEF vars, Tick
    <3>2. ASSUME NEW w \in Worker
          PROVE  ~FireWriteEvent(w) /\ ~TakeInTxnRead(w) /\ ~DbDeadlock(w)
      BY <1>8, Zenon DEF FireWriteEvent, TakeInTxnRead, DbDeadlock
    <3>3. ASSUME NEW w \in Worker, NEW q \in Query
          PROVE  /\ \A take \in BOOLEAN : ~ApiGet(w, q, take)
                 /\ \A t \in Tid : ~ApiTakeInTxn(w, q, t)
      BY <1>8, Zenon DEF ApiGet, ApiTakeInTxn
    <3>4. ASSUME NEW w \in Worker, NEW t \in Tid, NEW d \in Dur
          PROVE  ~StartTxn(w, t, d) /\ \A k \in Lid, x \in Data : ~ApiPutInTxn(w, k, t, d, x)
      BY <1>8, Zenon DEF StartTxn, ApiPutInTxn
    <3>5. LeaseReaper \/ \E w \in Worker : Start(w) \/ TryPut(w) \/ FinishTake(w)
      BY <3>1, <3>2, Zenon DEF Next, Step
    <3> QED
      BY <3>3, <3>4, <3>5, Zenon DEF Start
  <2> QED
    BY <1>2, <1>3, <1>4, <1>5, <1>6, <1>7, <1>8, <2>1, Zenon
<1> QED
  BY <1>1, <1>8, Zenon

(* An item that was taken, rolled back or reaped never comes back.         *)
THEOREM NothingResurrected == Spec => NoResurrection
<1>1. ASSUME Inv, [Next]_vars
      PROVE  [\A l \in ids \cap Lid :
                holder_db[l] = Absent /\ ~InFlight(l) => holder_db'[l] = Absent]_vars
  <2>1. ASSUME NEW l \in ids \cap Lid, holder_db[l] = Absent, ~InFlight(l)
        PROVE  holder_db'[l] = Absent
    <3>1. \/ holder_db'[l] = holder_db[l]
          \/ /\ Stored(l) \/ Ended(l)
             /\ holder_db'[l] = Absent
                \/ \E w \in Worker : pc'[w] = "fire" /\ l \in call'[w].lids
          \/ InFlight(l) /\ holder_db'[l].lock = "WRITE_LOCK"
          \/ TakenNow(l) \/ Renewed(l) \/ Reaped(l)
      BY <1>1, <2>1, RecordChanges, Zenon
    <3>2. holder_db[l].lock = "ABSENT" /\ l \in ids
      BY <2>1, AbsentFacts, Zenon
    <3>3. ~Stored(l) /\ ~Ended(l) /\ ~TakenNow(l) /\ ~Renewed(l) /\ ~Reaped(l)
      BY <3>2, Zenon DEF Stored, TakenNow, Renewed, Reaped, Ended, DoNotSkip
    <3> QED
      BY <2>1, <3>1, <3>3, Zenon
  <2> QED
    BY <2>1, Zenon
<1> QED
  BY <1>1, Invariance, PTL DEF Spec, NoResurrection

(* Every item that becomes visible has its write event in the hands of the *)
(* worker that made it visible.                                            *)
THEOREM EveryWriteAnnounced == Spec => VisibleIsAnnounced
<1>1. ASSUME Inv, [Next]_vars
      PROVE  [\A l \in Lid :
                holder_db[l].lock # "UNLOCKED" /\ holder_db'[l].lock = "UNLOCKED"
                  => \E w \in Worker : pc'[w] = "fire" /\ l \in call'[w].lids]_vars
  <2>1. ASSUME NEW l \in Lid, holder_db[l].lock # "UNLOCKED", holder_db'[l].lock = "UNLOCKED"
        PROVE  \E w \in Worker : pc'[w] = "fire" /\ l \in call'[w].lids
    <3>1. \/ holder_db'[l] = holder_db[l]
          \/ /\ Stored(l) \/ Ended(l)
             /\ holder_db'[l] = Absent
                \/ \E w \in Worker : pc'[w] = "fire" /\ l \in call'[w].lids
          \/ InFlight(l) /\ holder_db'[l].lock = "WRITE_LOCK"
          \/ TakenNow(l) \/ Renewed(l) \/ Reaped(l)
      BY <1>1, <2>1, RecordChanges, Zenon
    <3>2. holder_db'[l] # Absent /\ holder_db'[l].lock # "WRITE_LOCK"
      BY <2>1 DEF Absent
    <3>3. ~TakenNow(l) /\ ~Renewed(l) /\ ~Reaped(l)
      BY <2>1, <3>2, Zenon DEF TakenNow, Renewed, Reaped
    <3>4. holder_db'[l] # holder_db[l]
      BY <2>1, Zenon
    <3> QED
      BY <3>1, <3>2, <3>3, <3>4, Zenon
  <2> QED
    BY <2>1, Zenon
<1> QED
  BY <1>1, Invariance, PTL DEF Spec, VisibleIsAnnounced

(* As far as an int can tell, the comparison of two times is right; from   *)
(* there on it is not: of two times 2^31 milliseconds apart, the later one *)
(* comes first in the index.                                               *)
LEMMA NarrowSmall ==
  ASSUME NEW n \in Int, -HalfInt <= n, n < HalfInt
  PROVE  Narrow(n) = n
<1>1. /\ n + HalfInt \in Int /\ 2 * HalfInt \in Int
      /\ 0 <= n + HalfInt /\ n + HalfInt < 2 * HalfInt
  BY StoreAssumption
<1>2. \A x, m \in Int : 0 <= x /\ x < m => x % m = x
  OBVIOUS
<1>3. (n + HalfInt) % (2 * HalfInt) = n + HalfInt
  BY <1>1, <1>2, Zenon
<1> QED
  BY <1>3, StoreAssumption DEF Narrow

(* _compare_oe_time is right about two times that are less than 2^31       *)
(* milliseconds apart, and wrong about two that are just that far apart.   *)
THEOREM CompareIsOrder ==
  ASSUME NEW a \in Int, NEW b \in Int
  PROVE  /\ a - b < HalfInt /\ b - a < HalfInt =>
              (CompareOeTime(a, b) < 0 <=> a < b) /\ (CompareOeTime(a, b) <= 0 <=> a <= b)
         /\ a - b = HalfInt => CompareOeTime(a, b) < 0
<1>1. ASSUME a - b < HalfInt, b - a < HalfInt
      PROVE  CompareOeTime(a, b) = a - b
  <2>1. a - b \in Int /\ -HalfInt <= a - b
    BY <1>1, StoreAssumption
  <2> QED
    BY <1>1, <2>1, NarrowSmall, Zenon DEF CompareOeTime
<1>2. ASSUME a - b = HalfInt
      PROVE  CompareOeTime(a, b) = -HalfInt
  <2>1. \A m \in Int : m > 0 => m % m = 0
    OBVIOUS
  <2>2. (a - b) + HalfInt = 2 * HalfInt /\ 2 * HalfInt \in Int /\ 2 * HalfInt > 0
    BY <1>2, StoreAssumption
  <2>3. ((a - b) + HalfInt) % (2 * HalfInt) = 0
    BY <2>1, <2>2, Zenon
  <2> QED
    BY <2>3, StoreAssumption DEF CompareOeTime, Narrow
<1> QED
  BY <1>1, <1>2, StoreAssumption

(* The times at which leases end: a time of the clock and a duration       *)
(* somebody has asked for.                                                 *)
IsTime(t) == t \in {FOREVER, 0} \/ \E n \in 1 .. MaxTime, d \in Dur : t = n + d

LeaseTimes ==
  /\ now \in 1 .. MaxTime
  /\ \A l \in Lid : IsTime(holder_db[l].lease_expire_time)
  /\ \A w \in Worker : pc[w] = "put" => IsTime(call[w].holder.lease_expire_time)

(* What a worker does that does not begin a put in a transaction.          *)
Moves(w) ==
  \/ \E code : Return(w, code)
  \/ \E label, c : label # "put" /\ Continue(w, label, c)

(* It leaves the holders of the puts in progress alone.                    *)
LEMMA MovesTimes ==
  ASSUME Inv, LeaseTimes, NEW w \in Worker, Moves(w), now' = now,
         \A l \in Lid : IsTime(holder_db'[l].lease_expire_time)
  PROVE  LeaseTimes'
<1>1. \A v \in Worker : pc'[v] = "put" => pc[v] = "put" /\ call'[v] = call[v]
  BY Zenon DEF Moves, Return, Continue, Inv, TypeOK
<1> QED
  BY <1>1, Zenon DEF LeaseTimes

(* A new lease, and one that is renewed, ends at such a time.              *)
LEMMA NewTimes ==
  ASSUME LeaseTimes, NEW d \in Dur
  PROVE  IsTime(ExpireTime(d)) /\ IsTime(now + d)
BY Zenon DEF LeaseTimes, IsTime, ExpireTime

(* So is every lease that a step stores or changes.                        *)
LEMMA LeaseTimesNext ==
  ASSUME Inv, LeaseTimes, [Next]_vars
  PROVE  LeaseTimes'
<1>0. IsTime(Absent.lease_expire_time)
  BY Zenon DEF IsTime, Absent
<1>1. CASE Tick \/ UNCHANGED vars
  <2>1. now' \in 1 .. MaxTime
    BY <1>1, StoreAssumption DEF Tick, vars, LeaseTimes
  <2> QED
    BY <1>1, <2>1, Zenon DEF Tick, vars, LeaseTimes
<1>2. CASE LeaseReaper
  <2>1. UNCHANGED <<now, pc, call>>
    BY <1>2, Zenon DEF LeaseReaper
  <2>2. \A l \in Lid : holder_db'[l] = holder_db[l] \/ holder_db'[l] = Absent
    BY <1>2, ReaperDeletes, Zenon DEF Deleted
  <2> QED
    BY <1>0, <2>1, <2>2, Zenon DEF LeaseTimes
<1>3. ASSUME NEW w \in Worker, NEW k \in Lid, NEW d \in Dur, NEW x \in Data, ApiPut(w, k, d, x)
      PROVE  LeaseTimes'
  <2>1. Moves(w) /\ now' = now
    BY <1>3, Zenon DEF ApiPut, Moves
  <2>2. IsTime(NewHolder(NoTxn, d, x).lease_expire_time)
    BY NewTimes, Zenon DEF NewHolder
  <2>3. \A l \in Lid : holder_db'[l] \in {holder_db[l], NewHolder(NoTxn, d, x)}
    BY <1>3, Zenon DEF ApiPut, Inv, TypeOK
  <2>4. \A l \in Lid : IsTime(holder_db'[l].lease_expire_time)
    BY <2>2, <2>3, Zenon DEF LeaseTimes
  <2> QED
    BY <2>1, <2>4, MovesTimes, Zenon
<1>4. ASSUME NEW w \in Worker, NEW k \in Lid, NEW t \in Tid, NEW d \in Dur, NEW x \in Data,
             ApiPutInTxn(w, k, t, d, x)
      PROVE  LeaseTimes'
  <2>1. UNCHANGED <<now, holder_db>>
    BY <1>4, Zenon DEF ApiPutInTxn
  <2>2. CASE Continue(w, "put", PutCall(k, NewHolder(t, d, x)))
    <3>1. IsTime(PutCall(k, NewHolder(t, d, x)).holder.lease_expire_time)
      BY NewTimes, Zenon DEF PutCall, NewHolder
    <3>2. \A v \in Worker : IF v = w THEN call'[v] = PutCall(k, NewHolder(t, d, x))
                            ELSE pc'[v] = pc[v] /\ call'[v] = call[v]
      BY <2>2, Zenon DEF Continue, Inv, TypeOK
    <3> QED
      BY <2>1, <3>1, <3>2, Zenon DEF LeaseTimes
  <2>3. CASE Return(w, "INACTIVE_TXN")
    <3>1. Moves(w)
      BY <2>3, Zenon DEF Moves
    <3> QED
      BY <2>1, <3>1, MovesTimes, Zenon DEF LeaseTimes
  <2> QED
    BY <1>4, <2>2, <2>3, Zenon DEF ApiPutInTxn
<1>5. ASSUME NEW w \in Worker,
             \/ \E q \in Query, take \in BOOLEAN : ApiGet(w, q, take)
             \/ \E q \in Query, t \in Tid : ApiTakeInTxn(w, q, t)
             \/ \E t \in Tid, d \in Dur : StartTxn(w, t, d)
             \/ TakeInTxnRead(w) \/ FireWriteEvent(w) \/ DbDeadlock(w)
      PROVE  LeaseTimes'
  <2>1. Moves(w) /\ UNCHANGED <<now, holder_db>>
    BY <1>5, Zenon DEF ApiGet, ApiTakeInTxn, StartTxn, TakeInTxnRead, FireWriteEvent, DbDeadlock,
                ReadSnapshot, Moves
  <2> QED
    BY <2>1, MovesTimes, Zenon DEF LeaseTimes
<1>6. ASSUME NEW w \in Worker, TryPut(w)
      PROVE  LeaseTimes'
  <2>1. Moves(w) /\ now' = now
    BY <1>6, Zenon DEF TryPut, Moves
  <2>2. \A l \in Lid : holder_db'[l] \in {holder_db[l], call[w].holder}
    BY <1>6, Zenon DEF TryPut
  <2>3. \A l \in Lid : IsTime(holder_db'[l].lease_expire_time)
    BY <1>6, <2>2, Zenon DEF LeaseTimes, TryPut
  <2> QED
    BY <2>1, <2>3, MovesTimes, Zenon
<1>7. ASSUME NEW w \in Worker, FinishTake(w)
      PROVE  LeaseTimes'
  <2>1. Moves(w) /\ now' = now
    BY <1>7, Zenon DEF FinishTake, Moves
  <2>2. ASSUME NEW l \in Lid
        PROVE  IsTime(holder_db'[l].lease_expire_time)
    <3>1. \/ holder_db'[l] = holder_db[l]
          \/ holder_db'[l] = Taken(call[w], l) /\ call[w].snapshot[l] = holder_db[l]
      BY <1>7, Zenon DEF FinishTake, StillThere, Conflict
    <3>2. \/ Taken(call[w], l) = Absent
          \/ Taken(call[w], l).lease_expire_time = call[w].snapshot[l].lease_expire_time
      BY Zenon DEF Taken, Relocked
    <3> QED
      BY <1>0, <3>1, <3>2, Zenon DEF LeaseTimes
  <2> QED
    BY <2>1, <2>2, MovesTimes, Zenon
<1>8. ASSUME NEW w \in Worker, NEW k \in Lid, NEW d \in Dur, UpdateLease(w, k, d)
      PROVE  LeaseTimes'
  <2>1. Moves(w) /\ now' = now
    BY <1>8, Zenon DEF UpdateLease, Moves
  <2>2. ASSUME NEW l \in Lid
        PROVE  holder_db'[l].lease_expire_time \in {holder_db[l].lease_expire_time, now + d}
    <3>1. \/ holder_db' = holder_db
          \/ holder_db' = [holder_db EXCEPT ![k] =
                             [holder_db[k] EXCEPT !.lease_expire_time = now + d]]
      BY <1>8, Zenon DEF UpdateLease
    <3>2. [holder_db[k] EXCEPT !.lease_expire_time = now + d].lease_expire_time = now + d
      BY Zenon DEF Inv, TypeOK, Holder
    <3> QED
      BY <3>1, <3>2, Zenon DEF Inv, TypeOK
  <2>3. \A l \in Lid : IsTime(holder_db'[l].lease_expire_time)
    BY <2>2, NewTimes, Zenon DEF LeaseTimes
  <2> QED
    BY <2>1, <2>3, MovesTimes, Zenon
<1>9. ASSUME NEW w \in Worker, NEW t \in Tid, NEW d \in Dur, NEW status \in Status,
             NEW n \in Expected, UpdateTxn(w, t, d, status, n)
      PROVE  LeaseTimes'
  <2>1. Moves(w) /\ now' = now
    BY <1>9, Zenon DEF UpdateTxn, Moves
  <2>2. ASSUME NEW l \in Lid
        PROVE  IsTime(holder_db'[l].lease_expire_time)
    <3>1. holder_db'[l] = holder_db[l] \/ holder_db'[l] = Finished(t, status, l)
      BY <1>9, Zenon DEF UpdateTxn
    <3>2. \/ Finished(t, status, l) = Absent
          \/ Finished(t, status, l).lease_expire_time = holder_db[l].lease_expire_time
      BY Zenon DEF Finished, Relocked
    <3> QED
      BY <1>0, <3>1, <3>2, Zenon DEF LeaseTimes
  <2> QED
    BY <2>1, <2>2, MovesTimes, Zenon
<1>10. ASSUME NEW w \in Worker, Start(w) \/ Step(w) \/ DbDeadlock(w)
       PROVE  LeaseTimes'
  BY <1>3, <1>4, <1>5, <1>6, <1>7, <1>8, <1>9, <1>10, Zenon DEF Start, Step
<1> QED
  BY <1>1, <1>2, <1>10, Zenon DEF Next

(* Leases end only at times that clients have asked for.                   *)
LEMMA LeaseTimesHold == Spec => [](Inv /\ LeaseTimes)
<1>1. ASSUME Init PROVE LeaseTimes
  <2>1. now = 1 /\ \A l \in Lid : holder_db[l] = Absent
    BY <1>1, Zenon DEF Init
  <2>2. \A w \in Worker : pc[w] # "put"
    BY <1>1, Zenon DEF Init
  <2>3. IsTime(Absent.lease_expire_time)
    BY Zenon DEF IsTime, Absent
  <2>4. 1 \in 1 .. MaxTime
    BY StoreAssumption
  <2> QED
    BY <2>1, <2>2, <2>3, <2>4, Zenon DEF LeaseTimes
<1> QED
  BY <1>1, InitInv, NextInv, LeaseTimesNext, PTL DEF Spec

-----------------------------------------------------------------------------
(* The store implements the tuple space.                                   *)

(* The initial store is the empty tuple space.                             *)
LEMMA InitRefines == Init => Space!Init
<1> SUFFICES ASSUME Init PROVE Space!Init
  BY Zenon
<1>1. \A l \in Lid : SpaceItem(l) = Space!None
  BY Zenon DEF Init, SpaceItem, SpaceState, Space!None, Absent
<1> QED
  BY <1>1, Zenon DEF Init, Space!Init, NoTxnRecord

(* A worker that is not putting in a transaction, before or after its      *)
(* step, changes no lease id's being in flight.                            *)
LEMMA SameInFlight ==
  ASSUME Inv, NEW w \in Worker, pc[w] # "put", pc'[w] # "put",
         \A v \in Worker : v # w => pc'[v] = pc[v] /\ call'[v] = call[v], NEW l \in Lid
  PROVE  InFlight(l)' <=> InFlight(l)
BY Zenon DEF InFlight

(* What an unchanged record means to a caller has not changed either.      *)
LEMMA SameItem ==
  ASSUME NEW l \in Lid, holder_db'[l] = holder_db[l], l \in ids' <=> l \in ids,
         InFlight(l)' <=> InFlight(l)
  PROVE  SpaceItem(l)' = SpaceItem(l)
BY Zenon DEF SpaceItem, SpaceState

(* What a caller sees of a record, by its lock.                            *)
LEMMA States ==
  ASSUME Inv, NEW l \in Lid
  PROVE  /\ holder_db[l].lock = "UNLOCKED" <=> SpaceState(l) = "free"
         /\ holder_db[l].lock = "WRITE_LOCK" <=> SpaceState(l) = "written"
         /\ holder_db[l].lock = "TAKE_LOCK" <=> SpaceState(l) = "taken"
         /\ holder_db[l].lock = "ABSENT" <=> SpaceState(l) \in {"none", "gone"}
         /\ l \notin ids => SpaceState(l) = "none" /\ holder_db[l] = Absent /\ ~InFlight(l)
<1>1. holder_db[l].lock \in Lock \cup {"ABSENT"}
  BY Zenon DEF Inv, TypeOK, Holder
<1>2. l \notin ids => holder_db[l] = Absent /\ ~InFlight(l)
  BY DEF Inv, CallsConsistent, RecordsHaveIds, CallConsistent, InFlight
<1> QED
  BY <1>1, <1>2 DEF SpaceState, Lock, Absent

(* A record is stored under an id that was handed out and is in nobody's   *)
(* hands.                                                                  *)
LEMMA StoredIds ==
  ASSUME Inv, NEW l \in Lid, holder_db[l].lock # "ABSENT"
  PROVE  l \in ids /\ ~InFlight(l)
<1>1. holder_db[l] # Absent
  BY DEF Absent
<1>2. l \in ids
  BY <1>1, Zenon DEF Inv, CallsConsistent, RecordsHaveIds
<1>3. ~InFlight(l)
  BY <1>1 DEF InFlight, Inv, CallsConsistent, CallConsistent
<1> QED
  BY <1>2, <1>3, Zenon

(* A put outside a transaction is one Put, or one Refuse.                  *)
LEMMA PutRefines ==
  ASSUME Inv, Inv', NEW w \in Worker, NEW l \in Lid, NEW d \in Dur, NEW x \in Data,
         ApiPut(w, l, d, x)
  PROVE  Space!Put(l) \/ Space!Refuse(l)
<1>1. l \notin ids /\ ids' = ids \cup {l} /\ now' = now /\ txn_db' = txn_db
  BY Zenon DEF ApiPut
<1>2. /\ pc[w] # "put" /\ pc'[w] # "put"
      /\ \A v \in Worker : v # w => pc'[v] = pc[v] /\ call'[v] = call[v]
  BY Zenon DEF ApiPut, Return, Continue, Inv, TypeOK
<1>3. \A m \in Lid : m # l => SpaceItem(m)' = SpaceItem(m)
  <2>1. \A m \in Lid : m # l => holder_db'[m] = holder_db[m]
    BY Zenon DEF ApiPut, Inv, TypeOK
  <2> QED
    BY <1>1, <1>2, <2>1, SameItem, SameInFlight, Zenon
<1>4. SpaceItem(l).state = "none" /\ ~InFlight(l)' /\ holder_db[l] = Absent
  BY <1>1, <1>2, States, SameInFlight, Zenon DEF SpaceItem
<1>5. CASE holder_db' = [holder_db EXCEPT ![l] = NewHolder(NoTxn, d, x)]
  <2>1. holder_db'[l] = NewHolder(NoTxn, d, x) /\ holder_db'[l].lease_expire_time \in Int
    BY <1>5, Zenon DEF Inv, TypeOK, Holder
  <2>2. SpaceItem(l)' = [state |-> "free", owner |-> NoTxn,
                         lease |-> holder_db'[l].lease_expire_time]
    BY <2>1 DEF SpaceItem, SpaceState, NewHolder
  <2>3. Space!Put(l)
    BY <1>1, <1>3, <1>4, <2>1, <2>2 DEF Space!Put, Space!Change, Space!Asked
  <2> QED
    BY <2>3, Zenon
<1>6. CASE holder_db' = holder_db
  <2>1. SpaceItem(l)' = Space!Gone
    BY <1>1, <1>4, <1>6 DEF SpaceItem, SpaceState, Space!Gone, Absent
  <2>2. Space!Refuse(l)
    BY <1>1, <1>3, <1>4, <2>1, Zenon DEF Space!Refuse, Space!Change
  <2> QED
    BY <2>2, Zenon
<1> QED
  BY <1>5, <1>6, Zenon DEF ApiPut

(* A put inside a transaction that is active changes nothing a caller      *)
(* sees at first; one inside an inactive transaction is refused.           *)
LEMMA PutInTxnRefines ==
  ASSUME Inv, Inv', NEW w \in Worker, NEW l \in Lid, NEW t \in Tid, NEW d \in Dur,
         NEW x \in Data, ApiPutInTxn(w, l, t, d, x)
  PROVE  Space!Refuse(l) \/ \A m \in Lid : SpaceItem(m)' = SpaceItem(m)
<1>1. /\ l \notin ids /\ ids' = ids \cup {l} /\ now' = now
      /\ holder_db' = holder_db /\ txn_db' = txn_db /\ pc[w] = "idle"
  BY Zenon DEF ApiPutInTxn
<1>2. \A v \in Worker : v # w => pc'[v] = pc[v] /\ call'[v] = call[v]
  BY Zenon DEF ApiPutInTxn, Return, Continue, Inv, TypeOK
<1>3. SpaceItem(l).state = "none" /\ ~InFlight(l) /\ holder_db[l] = Absent
  BY <1>1, States, Zenon DEF SpaceItem
<1>4. CASE Return(w, "INACTIVE_TXN")
  <2>1. pc'[w] = "idle"
    BY <1>4, Zenon DEF Return, Inv, TypeOK
  <2>2. \A m \in Lid : InFlight(m)' <=> InFlight(m)
    BY <1>1, <1>2, <2>1, SameInFlight, Zenon
  <2>3. \A m \in Lid : m # l => SpaceItem(m)' = SpaceItem(m)
    BY <1>1, <2>2, SameItem, Zenon
  <2>4. SpaceItem(l)' = Space!Gone
    BY <1>1, <1>3, <2>2 DEF SpaceItem, SpaceState, Space!Gone, Absent
  <2>5. Space!Refuse(l)
    BY <1>1, <1>3, <2>3, <2>4, Zenon DEF Space!Refuse, Space!Change
  <2> QED
    BY <2>5, Zenon
<1>5. CASE Continue(w, "put", PutCall(l, NewHolder(t, d, x)))
  <2>1. pc'[w] = "put" /\ call'[w].lids = {l}
    BY <1>5, Zenon DEF Continue, PutCall, Inv, TypeOK
  <2>2. InFlight(l)'
    BY <2>1, Zenon DEF InFlight
  <2>3. SpaceItem(l)' = SpaceItem(l)
    BY <1>1, <1>3, <2>2, Zenon DEF SpaceItem, SpaceState, Absent
  <2>4. \A m \in Lid : m # l => (InFlight(m)' <=> InFlight(m))
    BY <1>1, <1>2, <2>1, Zenon DEF InFlight
  <2>5. \A m \in Lid : m # l => SpaceItem(m)' = SpaceItem(m)
    BY <1>1, <2>4, SameItem, Zenon
  <2> QED
    BY <2>3, <2>5, Zenon
<1> QED
  BY <1>4, <1>5, Zenon DEF ApiPutInTxn

(* The second step of a put inside a transaction is the PutIn.             *)
LEMMA TryPutRefines ==
  ASSUME Inv, Inv', NEW w \in Worker, TryPut(w)
  PROVE  \E l \in Lid, t \in Tid : Space!PutIn(l, t)
<1>1. PICK l \in Lid : call[w].lids = {l} /\ l \in ids /\ holder_db[l] = Absent
  BY Zenon DEF Inv, CallsConsistent, CallConsistent, TryPut
<1>2. /\ call[w].holder \in Holder /\ call[w].holder.lock = "WRITE_LOCK"
      /\ call[w].holder.txn_id \in Tid /\ txn_db[call[w].holder.txn_id].status # "NONE"
  BY Zenon DEF Inv, TypeOK, Call, CallsConsistent, CallConsistent, TryPut
<1>3. /\ UNCHANGED <<now, txn_db, ids>> /\ pc[w] = "put" /\ pc'[w] = "idle"
      /\ \A v \in Worker : v # w => pc'[v] = pc[v] /\ call'[v] = call[v]
      /\ holder_db' = [m \in Lid |-> IF m = l THEN call[w].holder ELSE holder_db[m]]
  BY <1>1, Zenon DEF TryPut, Return, Inv, TypeOK
<1>4. SpaceItem(l).state = "none"
  BY <1>1, <1>3 DEF SpaceItem, SpaceState, InFlight, Absent
<1>5. \A m \in Lid : m # l => SpaceItem(m)' = SpaceItem(m)
  <2>1. \A m \in Lid : m # l => (InFlight(m)' <=> InFlight(m))
    BY <1>1, <1>3, Zenon DEF InFlight
  <2> QED
    BY <1>3, <2>1, SameItem, Zenon
<1>6. SpaceItem(l)' = [state |-> "written", owner |-> call[w].holder.txn_id,
                       lease |-> call[w].holder.lease_expire_time]
  BY <1>2, <1>3, Zenon DEF SpaceItem, SpaceState
<1>7. call[w].holder.lease_expire_time \in Int
  BY <1>2, Zenon DEF Holder
<1>8. Space!PutIn(l, call[w].holder.txn_id)
  BY <1>2, <1>3, <1>4, <1>5, <1>6, <1>7 DEF Space!PutIn, Space!Change, Space!Asked
<1> QED
  BY <1>2, <1>8, Zenon

(* A put inside a transaction that loses a deadlock is refused; to any     *)
(* other call a deadlock does nothing a caller sees.                       *)
LEMMA DeadlockRefines ==
  ASSUME Inv, Inv', NEW w \in Worker, DbDeadlock(w)
  PROVE  \/ \E l \in Lid : Space!Refuse(l)
         \/ \A m \in Lid : SpaceItem(m)' = SpaceItem(m)
<1>1. /\ UNCHANGED <<now, holder_db, txn_db, ids>> /\ pc'[w] = "idle"
      /\ \A v \in Worker : v # w => pc'[v] = pc[v] /\ call'[v] = call[v]
  BY Zenon DEF DbDeadlock, Return, Inv, TypeOK
<1>2. CASE pc[w] # "put"
  <2>1. \A m \in Lid : InFlight(m)' <=> InFlight(m)
    BY <1>1, <1>2, SameInFlight, Zenon
  <2> QED
    BY <1>1, <2>1, SameItem, Zenon
<1>3. CASE pc[w] = "put"
  <2>1. PICK l \in Lid : call[w].lids = {l} /\ l \in ids /\ holder_db[l] = Absent
    BY <1>3, Zenon DEF Inv, CallsConsistent, CallConsistent
  <2>2. \A m \in Lid : m # l => (InFlight(m)' <=> InFlight(m))
    BY <1>1, <2>1, Zenon DEF InFlight
  <2>3. \A m \in Lid : m # l => SpaceItem(m)' = SpaceItem(m)
    BY <1>1, <2>2, SameItem, Zenon
  <2>4. ~InFlight(l)'
    BY <1>1, <1>3, <2>1, Zenon DEF InFlight, Inv, CallsConsistent
  <2>5. SpaceItem(l).state = "none"
    BY <1>3, <2>1 DEF SpaceItem, SpaceState, InFlight, Absent
  <2>6. SpaceItem(l)' = Space!Gone
    BY <1>1, <2>1, <2>4 DEF SpaceItem, SpaceState, Space!Gone, Absent
  <2>7. Space!Refuse(l)
    BY <1>1, <2>3, <2>5, <2>6, Zenon DEF Space!Refuse, Space!Change
  <2> QED
    BY <2>7, Zenon
<1> QED
  BY <1>2, <1>3, Zenon

(* A take is one Take or one TakeIn of all it found: the second read for   *)
(* update is what makes it so.                                             *)
LEMMA TakeRefines ==
  ASSUME Inv, Inv', NEW w \in Worker, FinishTake(w)
  PROVE  \/ \E S \in SUBSET Lid : Space!Take(S) \/ \E t \in Tid : Space!TakeIn(S, t)
         \/ \A m \in Lid : SpaceItem(m)' = SpaceItem(m)
<1> DEFINE S == Items(call[w].found)
<1>1. /\ UNCHANGED <<now, txn_db, ids>> /\ pc[w] # "put" /\ pc'[w] # "put"
      /\ \A v \in Worker : v # w => pc'[v] = pc[v] /\ call'[v] = call[v]
  BY Zenon DEF FinishTake, Return, Inv, TypeOK
<1>2. \A m \in Lid : InFlight(m)' <=> InFlight(m)
  BY <1>1, SameInFlight, Zenon
<1>3. CASE UNCHANGED holder_db
  BY <1>1, <1>2, <1>3, SameItem, Zenon
<1>4. CASE /\ StillThere(call[w])
           /\ holder_db' = [l \in Lid |-> IF l \in S THEN Taken(call[w], l) ELSE holder_db[l]]
  <2>1. call[w].found \in Seq(SUBSET Lid)
    BY Zenon DEF Inv, TypeOK, Call
  <2>2. S \in SUBSET Lid
    BY <2>1 DEF Items
  <2>3. \A l \in S : DoNotSkip(holder_db[l]) /\ call[w].snapshot[l] = holder_db[l]
    BY <1>4, Zenon DEF StillThere, Conflict
  <2>4. \A l \in S : SpaceItem(l).state = "free" /\ Space!Live(l)
    <3> SUFFICES ASSUME NEW l \in S PROVE SpaceItem(l).state = "free" /\ Space!Live(l)
      BY Zenon
    <3>1. holder_db[l].lock = "UNLOCKED" /\ ~Expired(holder_db[l])
      BY <2>3, Zenon DEF DoNotSkip
    <3>2. holder_db[l].lease_expire_time \in Int /\ now \in Nat
      BY <2>2, Zenon DEF Inv, TypeOK, Holder
    <3> QED
      BY <2>2, <3>1, <3>2 DEF SpaceItem, SpaceState, Expired, Space!Live
  <2>5. \A m \in Lid : m \notin S => SpaceItem(m)' = SpaceItem(m)
    BY <1>1, <1>2, <1>4, SameItem, Zenon
  <2>6. CASE call[w].tid = NoTxn
    <3>1. \A l \in S : holder_db'[l] = Absent
      BY <1>4, <2>2, <2>6, Zenon DEF Taken
    <3>2. \A l \in S : l \in ids /\ ~InFlight(l)
      BY <2>2, <2>3, StoredIds, Zenon DEF DoNotSkip
    <3>3. \A l \in S : SpaceItem(l)' = Space!Gone
      BY <1>1, <1>2, <2>2, <3>1, <3>2 DEF SpaceItem, SpaceState, Space!Gone, Absent
    <3> HIDE DEF S
    <3>4. Space!Take(S)
      BY <1>1, <2>2, <2>4, <2>5, <3>3, Zenon DEF Space!Take, Space!Change
    <3> QED
      BY <2>2, <3>4, Zenon
  <2>7. CASE call[w].tid # NoTxn
    <3>1. call[w].tid \in Tid /\ txn_db[call[w].tid].status # "NONE"
      BY <2>7, Zenon DEF Inv, TypeOK, Call, CallsConsistent, CallConsistent
    <3>2. \A l \in S : holder_db'[l] = Relocked(holder_db[l], "TAKE_LOCK", call[w].tid)
      BY <1>4, <2>2, <2>3, <2>7, Zenon DEF Taken
    <3>3. \A l \in S : SpaceItem(l)' = [state |-> "taken", owner |-> call[w].tid,
                                        lease |-> SpaceItem(l).lease]
      <4> SUFFICES ASSUME NEW l \in S
                   PROVE  SpaceItem(l)' = [state |-> "taken", owner |-> call[w].tid,
                                           lease |-> SpaceItem(l).lease]
        BY Zenon
      <4>1. /\ holder_db'[l].lock = "TAKE_LOCK" /\ holder_db'[l].txn_id = call[w].tid
            /\ holder_db'[l].lease_expire_time = holder_db[l].lease_expire_time
        <5>1. holder_db'[l] = Relocked(holder_db[l], "TAKE_LOCK", call[w].tid)
          BY <3>2, Zenon
        <5> QED
          BY <5>1 DEF Relocked
      <4>2. SpaceState(l)' = "taken"
        BY <4>1, Zenon DEF SpaceState
      <4> QED
        BY <4>1, <4>2, Zenon DEF SpaceItem
    <3> HIDE DEF S
    <3>4. Space!TakeIn(S, call[w].tid)
      BY <1>1, <2>2, <2>4, <2>5, <3>1, <3>3, Zenon DEF Space!TakeIn, Space!Change
    <3> QED
      BY <2>2, <3>1, <3>4, Zenon
  <2> QED
    BY <2>6, <2>7, Zenon
<1> QED
  BY <1>3, <1>4, Zenon DEF FinishTake

(* A renewal is one Renew, if it is one.                                   *)
LEMMA RenewRefines ==
  ASSUME Inv, Inv', NEW w \in Worker, NEW l \in Lid, NEW d \in Dur, UpdateLease(w, l, d)
  PROVE  Space!Renew(l) \/ \A m \in Lid : SpaceItem(m)' = SpaceItem(m)
<1>1. /\ UNCHANGED <<now, txn_db, ids>> /\ pc[w] # "put" /\ pc'[w] # "put"
      /\ \A v \in Worker : v # w => pc'[v] = pc[v] /\ call'[v] = call[v]
  BY Zenon DEF UpdateLease, Return, Inv, TypeOK
<1>2. \A m \in Lid : InFlight(m)' <=> InFlight(m)
  BY <1>1, SameInFlight, Zenon
<1>3. CASE UNCHANGED holder_db
  BY <1>1, <1>2, <1>3, SameItem, Zenon
<1>4. CASE /\ holder_db[l].lock # "ABSENT"
           /\ holder_db[l].lease_expire_time = FOREVER \/ holder_db[l].lease_expire_time >= now
           /\ holder_db' = [holder_db EXCEPT ![l] =
                              [holder_db[l] EXCEPT !.lease_expire_time = now + d]]
  <2>1. /\ holder_db'[l] = [holder_db[l] EXCEPT !.lease_expire_time = now + d]
        /\ \A m \in Lid : m # l => holder_db'[m] = holder_db[m]
    BY <1>4, Zenon DEF Inv, TypeOK
  <2>2. holder_db[l] \in Holder /\ holder_db'[l] \in Holder
    BY Zenon DEF Inv, TypeOK
  <2>3. /\ holder_db'[l].lock = holder_db[l].lock
        /\ holder_db'[l].txn_id = holder_db[l].txn_id
        /\ holder_db'[l].lease_expire_time \in Int
    BY <2>1, <2>2, Zenon DEF Holder
  <2>4. SpaceState(l)' = SpaceState(l)
    BY <1>1, <1>2, <2>3, Zenon DEF SpaceState
  <2>5. \A m \in Lid : m # l => SpaceItem(m)' = SpaceItem(m)
    BY <1>1, <1>2, <2>1, SameItem, Zenon
  <2>6. SpaceState(l) \in {"free", "written", "taken"}
    BY <1>4, <2>2, Zenon DEF SpaceState, Holder, Lock
  <2>7. SpaceItem(l)' = [state |-> SpaceItem(l).state, owner |-> SpaceItem(l).owner,
                         lease |-> holder_db'[l].lease_expire_time]
    BY <2>3, <2>4, Zenon DEF SpaceItem
  <2>8. /\ SpaceItem(l).state \in {"free", "written", "taken"}
        /\ SpaceItem(l).lease = FOREVER \/ SpaceItem(l).lease >= now
    BY <1>4, <2>6, Zenon DEF SpaceItem
  <2>9. Space!Renew(l)
    BY <1>1, <2>3, <2>5, <2>7, <2>8 DEF Space!Renew, Space!Change, Space!Asked
  <2> QED
    BY <2>9, Zenon
<1> QED
  BY <1>3, <1>4, Zenon DEF UpdateLease

(* A pass of the reaper is one Reap of all it deleted.                     *)
LEMMA ReapRefines ==
  ASSUME Inv, Inv', LeaseReaper
  PROVE  \/ \E S \in SUBSET Lid : Space!Reap(S)
         \/ \A m \in Lid : SpaceItem(m)' = SpaceItem(m)
<1>1. UNCHANGED <<now, txn_db, ids, pc, call>>
  BY Zenon DEF LeaseReaper
<1>2. \A m \in Lid : InFlight(m)' <=> InFlight(m)
  BY <1>1, Zenon DEF InFlight
<1>3. CASE UNCHANGED holder_db
  BY <1>1, <1>2, <1>3, SameItem, Zenon
<1>4. ASSUME NEW S \in SUBSET RanOut, holder_db' = Deleted(S)
      PROVE  S \in SUBSET Lid /\ Space!Reap(S)
  <2>1. S \in SUBSET Lid
    BY RanOutFacts, Zenon
  <2>2. \A l \in S : holder_db[l].lock = "UNLOCKED" /\ l \in ids /\ ~InFlight(l)
    <3>1. \A l \in S : holder_db[l].lock # "ABSENT" /\ holder_db[l].txn_id = NoTxn
      BY RanOutFacts, Zenon
    <3>2. \A l \in S : holder_db[l].lock \in {"UNLOCKED", "ABSENT"}
      BY <2>1, <3>1, StoreAssumption DEF Inv, TypeOK, Holder, Lock, LockHasOwner
    <3> QED
      BY <2>1, <3>1, <3>2, StoredIds, Zenon
  <2>3. \A l \in S : SpaceItem(l).state = "free" /\ ~Space!Live(l)
    <3> SUFFICES ASSUME NEW l \in S PROVE SpaceItem(l).state = "free" /\ ~Space!Live(l)
      BY Zenon
    <3>1. Expired(holder_db[l])
      BY RanOutFacts, Zenon
    <3>2. holder_db[l].lease_expire_time \in Int /\ now \in Nat
      BY <2>1, Zenon DEF Inv, TypeOK, Holder
    <3> QED
      BY <2>1, <2>2, <3>1, <3>2 DEF SpaceItem, SpaceState, Expired, Space!Live
  <2>4. \A l \in S : SpaceItem(l)' = Space!Gone
    BY <1>1, <1>2, <1>4, <2>1, <2>2, Zenon DEF Deleted, SpaceItem, SpaceState, Space!Gone, Absent
  <2>5. \A m \in Lid : m \notin S => SpaceItem(m)' = SpaceItem(m)
    <3>1. \A m \in Lid : m \notin S => holder_db'[m] = holder_db[m]
      BY <1>4, Zenon DEF Deleted
    <3> QED
      BY <1>1, <1>2, <3>1, SameItem, Zenon
  <2>6. Space!Reap(S)
    BY <1>1, <2>1, <2>3, <2>4, <2>5, Zenon DEF Space!Reap, Space!Change
  <2> QED
    BY <2>1, <2>6, Zenon
<1> QED
  BY <1>3, <1>4, ReaperDeletes, Zenon

(* Beginning a transaction is one Begin.                                   *)
LEMMA BeginRefines ==
  ASSUME Inv, Inv', NEW w \in Worker, NEW t \in Tid, NEW d \in Dur, StartTxn(w, t, d)
  PROVE  Space!Begin(t)
<1>1. /\ UNCHANGED <<now, holder_db>> /\ t \notin ids /\ ids' = ids \cup {t}
      /\ pc[w] # "put" /\ pc'[w] # "put"
      /\ \A v \in Worker : v # w => pc'[v] = pc[v] /\ call'[v] = call[v]
  BY Zenon DEF StartTxn, Return, Inv, TypeOK
<1>2. \A m \in Lid : SpaceItem(m)' = SpaceItem(m)
  <2>1. \A m \in Lid : InFlight(m)' <=> InFlight(m)
    BY <1>1, SameInFlight, Zenon
  <2>2. \A m \in Lid : m \in ids' <=> m \in ids
    BY <1>1, StoreAssumption, Zenon
  <2> QED
    BY <1>1, <2>1, <2>2, SameItem, Zenon
<1>3. txn_db[t].status = "NONE"
  BY <1>1, Zenon DEF Inv, CallsConsistent, RecordsHaveIds
<1>4. \A u \in Tid : txn_db'[u].status = IF u = t THEN "ACTIVE" ELSE txn_db[u].status
  BY Zenon DEF StartTxn, Inv, TypeOK
<1> QED
  BY <1>1, <1>2, <1>3, <1>4, Zenon DEF Space!Begin

(* Ending a transaction is one Commit or one Rollback, of all its items.   *)
LEMMA FinishRefines ==
  ASSUME Inv, Inv', NEW w \in Worker, NEW t \in Tid, NEW d \in Dur, NEW status \in Status,
         NEW n \in Expected, UpdateTxn(w, t, d, status, n)
  PROVE  \/ Space!Commit(t) \/ Space!Rollback(t)
         \/ UNCHANGED <<now, [m \in Lid |-> SpaceItem(m)], [u \in Tid |-> txn_db[u].status]>>
<1>1. /\ UNCHANGED <<now, ids>> /\ pc[w] # "put" /\ pc'[w] # "put"
      /\ \A v \in Worker : v # w => pc'[v] = pc[v] /\ call'[v] = call[v]
  BY Zenon DEF UpdateTxn, Return, Continue, Inv, TypeOK
<1>2. \A m \in Lid : InFlight(m)' <=> InFlight(m)
  BY <1>1, SameInFlight, Zenon
<1>3. CASE /\ UNCHANGED holder_db
           /\ \A u \in Tid : txn_db'[u].status = txn_db[u].status
  <2>1. \A m \in Lid : SpaceItem(m)' = SpaceItem(m)
    BY <1>1, <1>2, <1>3, SameItem, Zenon
  <2> QED
    BY <1>1, <1>3, <2>1, Zenon
<1>4. CASE /\ status # "ACTIVE" /\ txn_db[t].status = "ACTIVE"
           /\ txn_db' = [txn_db EXCEPT ![t] = [status |-> status, expire_time |-> now]]
           /\ holder_db' = [l \in Lid |->
                IF l \in OwnerIdx(t) THEN Finished(t, status, l) ELSE holder_db[l]]
  <2> DEFINE freed == IF status = "COMMITTED" THEN "written" ELSE "taken"
  <2>1. status \in {"COMMITTED", "ROLLED_BACK"}
    BY <1>4, Zenon DEF Status
  <2>2. \A u \in Tid : txn_db'[u].status = IF u = t THEN status ELSE txn_db[u].status
    BY <1>4, Zenon DEF Inv, TypeOK
  <2>3. \A l \in Lid : SpaceItem(l).owner = t <=> l \in OwnerIdx(t)
    <3>1. \A l \in Lid : holder_db[l].txn_id = t => holder_db[l].lock # "ABSENT"
      BY StoreAssumption, Zenon DEF Inv, LockHasOwner
    <3> QED
      BY <3>1, Zenon DEF SpaceItem, OwnerIdx
  <2>4. \A l \in Lid : l \notin OwnerIdx(t) => SpaceItem(l)' = SpaceItem(l)
    BY <1>1, <1>2, <1>4, SameItem, Zenon
  <2>5. \A l \in OwnerIdx(t) : SpaceItem(l)' = Space!Outcome(l, freed)
    <3> SUFFICES ASSUME NEW l \in OwnerIdx(t)
                 PROVE  SpaceItem(l)' = Space!Outcome(l, freed)
      BY Zenon
    <3>1. l \in Lid /\ holder_db[l].lock \in {"WRITE_LOCK", "TAKE_LOCK"}
      BY <2>1, FinishedFacts, Zenon
    <3>2. holder_db'[l] = Finished(t, status, l)
      BY <1>4, <3>1, Zenon
    <3>3. l \in Cleared(t, status) <=> SpaceItem(l).state = freed
      <4>1. l \in Cleared(t, status) <=> holder_db[l].lock = ClearLock(status)
        BY Zenon DEF Cleared
      <4>2. SpaceItem(l).state = IF holder_db[l].lock = "WRITE_LOCK" THEN "written" ELSE "taken"
        BY <3>1, Zenon DEF SpaceItem, SpaceState
      <4> QED
        BY <2>1, <3>1, <4>1, <4>2, Zenon DEF ClearLock
    <3>4. CASE l \in Cleared(t, status)
      <4>1. /\ holder_db'[l].lock = "UNLOCKED" /\ holder_db'[l].txn_id = NoTxn
            /\ holder_db'[l].lease_expire_time = holder_db[l].lease_expire_time
        BY <2>1, <3>2, <3>4, FinishedFacts, Zenon
      <4>2. SpaceItem(l)' = [state |-> "free", owner |-> NoTxn, lease |-> SpaceItem(l).lease]
        BY <4>1, Zenon DEF SpaceItem, SpaceState
      <4> HIDE DEF freed
      <4> QED
        BY <3>1, <3>3, <3>4, <4>2, Zenon DEF Space!Outcome
    <3>5. CASE l \notin Cleared(t, status)
      <4>1. holder_db'[l] = Absent
        BY <2>1, <3>2, <3>5, FinishedFacts, Zenon
      <4>2. l \in ids' /\ ~InFlight(l)'
        BY <1>1, <1>2, <3>1, StoredIds, Zenon
      <4>3. SpaceItem(l)' = Space!Gone
        BY <4>1, <4>2 DEF SpaceItem, SpaceState, Space!Gone, Absent
      <4> HIDE DEF freed
      <4> QED
        BY <3>1, <3>3, <3>5, <4>3, Zenon DEF Space!Outcome
    <3> QED
      BY <3>4, <3>5, Zenon
  <2> HIDE DEF freed
  <2>6. Space!Finish(t, status, freed)
    BY <1>1, <1>4, <2>2, <2>3, <2>4, <2>5, Zenon DEF Space!Finish
  <2> QED
    BY <2>1, <2>6, Zenon DEF Space!Commit, Space!Rollback, freed
<1>5. CASE /\ UNCHANGED holder_db
           /\ \E e : txn_db' = [txn_db EXCEPT ![t] = [txn_db[t] EXCEPT !.expire_time = e]]
  <2>1. PICK e : txn_db' = [txn_db EXCEPT ![t] = [txn_db[t] EXCEPT !.expire_time = e]]
    BY <1>5, Zenon
  <2>2. [txn_db[t] EXCEPT !.expire_time = e].status = txn_db[t].status
    BY Zenon DEF Inv, TypeOK, Txn
  <2> QED
    BY <1>3, <1>5, <2>1, <2>2, Zenon DEF Inv, TypeOK
<1> QED
  BY <1>3, <1>4, <1>5, Zenon DEF UpdateTxn

(* Every step of the store is a step of the tuple space, or none.          *)
LEMMA NextRefines ==
  ASSUME Inv, Inv', [Next]_vars
  PROVE  [Space!Next]_<<now, [l \in Lid |-> SpaceItem(l)], [t \in Tid |-> txn_db[t].status]>>
<1>1. CASE Tick
  <2>1. \A m \in Lid : SpaceItem(m)' = SpaceItem(m)
    BY <1>1, Zenon DEF Tick, SpaceItem, SpaceState, InFlight
  <2>2. Space!Tick
    BY <1>1, <2>1, Zenon DEF Tick, Space!Tick
  <2> QED
    BY <2>2, Zenon DEF Space!Next
<1>2. CASE LeaseReaper
  <2>1. UNCHANGED <<now, txn_db>>
    BY <1>2, Zenon DEF LeaseReaper
  <2> QED
    BY <1>2, <2>1, ReapRefines, Zenon DEF Space!Next
<1>3. CASE \E w \in Worker, l \in Lid, d \in Dur, x \in Data : ApiPut(w, l, d, x)
  BY <1>3, PutRefines, Zenon DEF Space!Next
<1>4. CASE \E w \in Worker, l \in Lid, t \in Tid, d \in Dur, x \in Data :
             ApiPutInTxn(w, l, t, d, x)
  <2>1. UNCHANGED <<now, txn_db>>
    BY <1>4, Zenon DEF ApiPutInTxn
  <2> QED
    BY <1>4, <2>1, PutInTxnRefines, Zenon DEF Space!Next
<1>5. CASE \E w \in Worker : TryPut(w)
  BY <1>5, TryPutRefines, Zenon DEF Space!Next
<1>6. CASE \E w \in Worker : DbDeadlock(w)
  <2>1. UNCHANGED <<now, txn_db>>
    BY <1>6, Zenon DEF DbDeadlock
  <2> QED
    BY <1>6, <2>1, DeadlockRefines, Zenon DEF Space!Next
<1>7. CASE \E w \in Worker : FinishTake(w)
  <2>1. UNCHANGED <<now, txn_db>>
    BY <1>7, Zenon DEF FinishTake
  <2> QED
    BY <1>7, <2>1, TakeRefines, Zenon DEF Space!Next
<1>8. CASE \E w \in Worker, l \in Lid, d \in Dur : UpdateLease(w, l, d)
  <2>1. UNCHANGED <<now, txn_db>>
    BY <1>8, Zenon DEF UpdateLease
  <2> QED
    BY <1>8, <2>1, RenewRefines, Zenon DEF Space!Next
<1>9. CASE \E w \in Worker, t \in Tid, d \in Dur : StartTxn(w, t, d)
  BY <1>9, BeginRefines, Zenon DEF Space!Next
<1>10. CASE \E w \in Worker, t \in Tid, d \in Dur, status \in Status, n \in Expected :
              UpdateTxn(w, t, d, status, n)
  BY <1>10, FinishRefines, Zenon DEF Space!Next
<1>11. CASE \E w \in Worker :
              \/ \E q \in Query : \/ \E take \in BOOLEAN : ApiGet(w, q, take)
                                  \/ \E t \in Tid : ApiTakeInTxn(w, q, t)
              \/ FireWriteEvent(w) \/ TakeInTxnRead(w)
  <2>1. PICK w \in Worker :
              \/ \E q \in Query : \/ \E take \in BOOLEAN : ApiGet(w, q, take)
                                  \/ \E t \in Tid : ApiTakeInTxn(w, q, t)
              \/ FireWriteEvent(w) \/ TakeInTxnRead(w)
    BY <1>11, Zenon
  <2>2. UNCHANGED <<now, holder_db, txn_db, ids>>
    BY <2>1, Zenon DEF ApiGet, ApiTakeInTxn, FireWriteEvent, TakeInTxnRead
  <2>3. /\ pc[w] # "put" /\ pc'[w] # "put"
        /\ \A v \in Worker : v # w => pc'[v] = pc[v] /\ call'[v] = call[v]
    BY <2>1, Zenon DEF ApiGet, ApiTakeInTxn, FireWriteEvent, TakeInTxnRead, ReadSnapshot,
                Return, Continue, Inv, TypeOK
  <2>4. \A m \in Lid : InFlight(m)' <=> InFlight(m)
    BY <2>3, SameInFlight, Zenon
  <2> QED
    BY <2>2, <2>4, SameItem, Zenon
<1>12. CASE UNCHANGED vars
  <2>1. \A m \in Lid : SpaceItem(m)' = SpaceItem(m)
    BY <1>12, Zenon DEF vars, SpaceItem, SpaceState, InFlight
  <2> QED
    BY <1>12, <2>1, Zenon DEF vars
<1> QED
  BY <1>1, <1>2, <1>3, <1>4, <1>5, <1>6, <1>7, <1>8, <1>9, <1>10, <1>11, <1>12, Zenon
     DEF Next, Start, Step

(* The store implements the tuple space: every call of its interface takes *)
(* effect at one moment, for all the items it touches.                     *)
THEOREM Implementation == Spec => ImplementsTupleSpace
<1>1. Inv /\ Inv' /\ [Next]_vars =>
        [Space!Next]_<<now, [l \in Lid |-> SpaceItem(l)], [t \in Tid |-> txn_db[t].status]>>
  BY NextRefines, Zenon
<1> QED
  BY <1>1, InitRefines, Invariance, PTL DEF Spec, ImplementsTupleSpace, Space!Spec

-----------------------------------------------------------------------------
INSTANCE WellFoundedInduction
INSTANCE FiniteSetTheorems

(* A set of numbers has a least one.                                       *)
LEMMA Least ==
  ASSUME NEW T \in SUBSET Nat, T # {}
  PROVE  \E x \in T : \A y \in T : x <= y
<1> DEFINE R == OpToRel(<, Nat)
<1>1. IsWellFoundedOn(R, Nat)
  BY NatLessThanWellFounded, Zenon
<1>2. \A x, y \in Nat : <<y, x>> \in R <=> y < x
  BY Zenon DEF OpToRel
<1> HIDE DEF R
<1>3. PICK x \in T : \A y \in T : <<y, x>> \notin R
  BY <1>1, WFMin, Zenon
<1>4. \A y \in T : ~(y < x)
  BY <1>2, <1>3, Zenon
<1>5. \A y \in T : x <= y
  BY <1>4
<1> QED
  BY <1>5, Zenon

(* While all times are close the index is sorted by time.                  *)
LEMMA IndexSorted ==
  ASSUME Inv, LeaseTimes, TimesAreClose
  PROVE  /\ \A l \in ExpireTimeIdx : holder_db[l].lease_expire_time \in Int
         /\ \A l \in ExpireTimeIdx : CompareNow(l) < 0 <=> holder_db[l].lease_expire_time < now
         /\ \A l, m \in ExpireTimeIdx :
              CompareLeases(l, m) <= 0 <=>
                holder_db[l].lease_expire_time <= holder_db[m].lease_expire_time
<1>1. now \in Int /\ \A l \in ExpireTimeIdx : holder_db[l].lease_expire_time \in Int
  BY DEF Inv, TypeOK, Holder, ExpireTimeIdx, PropIdx
<1>2. ASSUME NEW s \in Int, NEW t \in Int, IsTime(s), IsTime(t), s # FOREVER, t # FOREVER
      PROVE  s - t < HalfInt
  <2>1. PICK n \in 0 .. MaxTime, d \in Dur \cup {0} : s = n + d
    BY <1>2, StoreAssumption DEF IsTime
  <2>2. PICK m \in 0 .. MaxTime, e \in Dur \cup {0} : t = m + e
    BY <1>2, StoreAssumption DEF IsTime
  <2>3. MaxTime + d - e < HalfInt /\ d \in Int /\ e \in Int
    BY StoreAssumption DEF TimesAreClose
  <2> QED
    BY <2>1, <2>2, <2>3, StoreAssumption
<1>3. ASSUME NEW t \in Int, IsTime(t), t # FOREVER
      PROVE  t - now < HalfInt /\ now - t < HalfInt
  <2>1. PICK m \in 0 .. MaxTime, e \in Dur \cup {0} : t = m + e
    BY <1>3, StoreAssumption DEF IsTime
  <2>2. MaxTime + 0 - e < HalfInt /\ MaxTime + e - 0 < HalfInt /\ e \in Int
    BY StoreAssumption DEF TimesAreClose
  <2> QED
    BY <2>1, <2>2, StoreAssumption DEF LeaseTimes
<1>4. \A l \in ExpireTimeIdx :
        IsTime(holder_db[l].lease_expire_time) /\ holder_db[l].lease_expire_time # FOREVER
  BY Zenon DEF LeaseTimes, ExpireTimeIdx, PropIdx
<1>5. ASSUME NEW l \in ExpireTimeIdx
      PROVE  CompareNow(l) < 0 <=> holder_db[l].lease_expire_time < now
  BY <1>1, <1>3, <1>4, CompareIsOrder, Zenon DEF CompareNow
<1>6. ASSUME NEW l \in ExpireTimeIdx, NEW m \in ExpireTimeIdx
      PROVE  CompareLeases(l, m) <= 0 <=>
               holder_db[l].lease_expire_time <= holder_db[m].lease_expire_time
  BY <1>1, <1>2, <1>4, CompareIsOrder, Zenon DEF CompareLeases
<1> QED
  BY <1>1, <1>5, <1>6, Zenon

(* CompareNow is a number.                                                 *)
LEMMA CompareNowType ==
  ASSUME Inv, NEW l \in ExpireTimeIdx
  PROVE  CompareNow(l) \in Int
<1>1. holder_db[l].lease_expire_time - now \in Int
  BY DEF Inv, TypeOK, Holder, ExpireTimeIdx, PropIdx
<1>2. \A n \in Int : Narrow(n) \in Int
  BY StoreAssumption DEF Narrow
<1> QED
  BY <1>1, <1>2, Zenon DEF CompareNow, CompareOeTime

(* A lease that ends now or later gives the cursor a place to start.       *)
LEMMA PlaceToStart ==
  ASSUME Inv, LeaseTimes, TimesAreClose,
         NEW k \in ExpireTimeIdx, holder_db[k].lease_expire_time >= now
  PROVE  FirstAtOrAfterNow # {}
<1> DEFINE end(l) == holder_db[l].lease_expire_time
<1> DEFINE later == {l \in ExpireTimeIdx : end(l) >= now}
<1>1. now \in Int /\ \A l \in ExpireTimeIdx : end(l) \in Int
  BY IndexSorted DEF Inv, TypeOK
<1>2. {end(l) - now : l \in later} \in SUBSET Nat /\ {end(l) - now : l \in later} # {}
  <2>1. \A l \in later : end(l) \in Int /\ end(l) >= now
    BY <1>1, Zenon
  <2>2. k \in later
    BY Zenon
  <2> HIDE DEF end, later
  <2>3. \A l \in later : end(l) - now \in Nat
    BY <1>1, <2>1
  <2> QED
    BY <2>2, <2>3, Zenon
<1>3. PICK x \in {end(l) - now : l \in later} : \A y \in {end(l) - now : l \in later} : x <= y
  BY <1>2, Least, Zenon
<1>4. PICK l \in later : x = end(l) - now
  BY <1>3, Zenon
<1>5. \A m \in later : end(l) <= end(m)
  <2>1. ASSUME NEW m \in later
        PROVE  end(l) - now <= end(m) - now
    BY <1>3, <1>4, Zenon
  <2>2. \A m \in later : end(m) \in Int
    BY <1>1, Zenon
  <2> HIDE DEF end, later
  <2> QED
    BY <1>1, <1>4, <2>1, <2>2
<1>6. \A m \in ExpireTimeIdx : CompareNow(m) >= 0 <=> m \in later
  BY <1>1, IndexSorted, CompareNowType
<1>7. l \in FirstAtOrAfterNow
  BY <1>4, <1>5, <1>6, IndexSorted, Zenon DEF FirstAtOrAfterNow
<1> QED
  BY <1>7, Zenon

(* A pass that does not stop at the limit deletes every lease that it can  *)
(* reach, and those are all whose time is past.                            *)
LEMMA ReapedAll ==
  ASSUME NEW f \in FirstAtOrAfterNow, NEW D \in Reapable(f), ReapCode(f, D) = "OK"
  PROVE  Before \cap RanOut \subseteq D
<1> DEFINE expired == (Before \cup {f}) \cap RanOut
<1>1. PICK skipped \in {0, 1} : skipped = IF Expired(holder_db[f]) THEN 0 ELSE 1
  BY Zenon
<1>2. PICK limit \in Nat : limit = IF skipped < ReapCommit THEN ReapCommit - skipped ELSE 1
  BY <1>1, StoreAssumption
<1>3. limit >= 1 /\ limit + skipped >= ReapCommit
  BY <1>1, <1>2, StoreAssumption
<1>4. /\ D \in SUBSET expired
      /\ Cardinality(D) = IF Cardinality(expired) < limit THEN Cardinality(expired) ELSE limit
  BY <1>1, <1>2, Zenon DEF Reapable
<1>5. IsFiniteSet(expired)
  <2>1. expired \in SUBSET Lid
    BY Zenon DEF RanOut, ExpireTimeIdx, PropIdx
  <2> QED
    BY <2>1, LidsAreFinite, FS_Subset, Zenon
<1> HIDE DEF expired
<1>6. /\ Cardinality(expired) \in Nat
      /\ Cardinality(expired) = Cardinality(D) => expired = D
      /\ D = {} => Cardinality(D) = 0
  BY <1>4, <1>5, FS_Subset, FS_CardinalityType, FS_EmptySet, Zenon
<1>7. Cardinality(expired) < limit
  <2>1. SUFFICES ASSUME ~(Cardinality(expired) < limit)
                 PROVE  FALSE
    BY Zenon
  <2>2. Cardinality(D) = limit /\ D # {}
    BY <1>3, <1>4, <1>6, <2>1
  <2>3. Cardinality(D) + skipped >= ReapCommit
    BY <1>3, <2>2, Zenon
  <2>4. ReapCode(f, D) = "MORE"
    BY <1>1, <2>2, <2>3, Zenon DEF ReapCode
  <2> QED
    BY <2>4, Zenon
<1>8. expired = D
  BY <1>4, <1>6, <1>7, Zenon
<1> QED
  BY <1>8, Zenon DEF expired

(* A pass of the reaper that returns 0 leaves no lease whose time is past, *)
(* for every limit on what it deletes in one commit, as long as no two     *)
(* times are more than 2^31 - 1 milliseconds apart.                        *)
THEOREM ReaperLeavesNothing == Spec => ReaperFinishes
<1>1. ASSUME Inv, LeaseTimes, LeaseReaper, TimesAreClose, ~reaper_running_flag, ret' = "OK",
             NEW k \in ExpireTimeIdx, holder_db[k].lease_expire_time >= now,
             NEW l \in ExpireTimeIdx, holder_db[l].lease_expire_time < now
      PROVE  holder_db'[l] = Absent
  <2>1. \A started \in SetReaperRunning(reaper_running_flag, TRUE) : started[2]
    <3>1. SetReaperRunning(reaper_running_flag, TRUE) = {<<TRUE, TRUE>>}
      BY <1>1, Zenon DEF SetReaperRunning
    <3>2. ASSUME NEW started \in SetReaperRunning(reaper_running_flag, TRUE)
          PROVE  started[2]
      <4>1. started = <<TRUE, TRUE>>
        BY <3>1, Zenon
      <4> QED
        BY <4>1, Zenon
    <3> QED
      BY <3>2, Zenon
  <2>2. FirstAtOrAfterNow # {}
    BY <1>1, PlaceToStart, Zenon
  <2>3. PICK f \in FirstAtOrAfterNow : \E D \in Reapable(f) :
          holder_db' = Deleted(D) /\ ret' = ReapCode(f, D)
    BY <1>1, <2>1, <2>2, Zenon DEF LeaseReaper
  <2>4. PICK D \in Reapable(f) : holder_db' = Deleted(D) /\ ret' = ReapCode(f, D)
    BY <2>3, Zenon
  <2>5. l \in Before /\ l \in RanOut /\ l \in Lid
    <3>1. now \in Int /\ holder_db[l].lease_expire_time \in Int
      BY <1>1, IndexSorted DEF Inv, TypeOK
    <3>2. Expired(holder_db[l])
      <4>1. holder_db[l].lease_expire_time # FOREVER
        BY Zenon DEF ExpireTimeIdx
      <4>2. holder_db[l].lease_expire_time <= now
        BY <1>1, <3>1
      <4> QED
        BY <4>1, <4>2, Zenon DEF Expired
    <3> QED
      BY <1>1, <3>2, IndexSorted, Zenon DEF Before, RanOut, ExpireTimeIdx, PropIdx
  <2>6. l \in D
    BY <1>1, <2>4, <2>5, ReapedAll, Zenon
  <2> QED
    BY <2>4, <2>5, <2>6, Zenon DEF Deleted
<1>2. Inv /\ LeaseTimes =>
        [/\ LeaseReaper /\ TimesAreClose /\ ~reaper_running_flag /\ ret' = "OK"
         /\ \E l \in ExpireTimeIdx : holder_db[l].lease_expire_time >= now
         => \A l \in ExpireTimeIdx :
              holder_db[l].lease_expire_time < now => holder_db'[l] = Absent]_vars
  BY <1>1, Zenon
<1> QED
  BY <1>2, LeaseTimesHold, PTL DEF ReaperFinishes
=============================================================================
