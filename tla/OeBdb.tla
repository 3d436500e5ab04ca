------------------------------- MODULE OeBdb -------------------------------
(***************************************************************************)
(* The Berkeley DB store behind a tuple space (corelib/OeBdb.c), as the    *)
(* worker threads of the kernel call it.                                   *)
(*                                                                         *)
(* The store holds items in holder_db, keyed by lease id, and the users'   *)
(* transactions in txn_db.  A call of its interface runs in one Berkeley   *)
(* DB transaction, except that it asks whether the user's transaction is   *)
(* active outside it: a put or a take inside a user's transaction is       *)
(* therefore several steps, between which other threads run.  So is every  *)
(* take, which reads a snapshot and then locks what it found, and every    *)
(* call that makes an item visible, which reports the write only after it  *)
(* has committed.                                                          *)
(*                                                                         *)
(* Berkeley DB itself is external: a transaction commits at once or is     *)
(* chosen as a deadlock victim, an item that changed after the snapshot    *)
(* cannot be written from it (DB_TXN_SNAPSHOT), and the join cursor visits *)
(* the matching items in any order.                                        *)
(***************************************************************************)
EXTENDS Integers, FiniteSets, Sequences

CONSTANTS
  Worker,       \* the threads that call the store
  Lid,          \* the lease ids the id sequence can hand out
  Tid,          \* the transaction ids the id sequence can hand out
  NoTxn,        \* transaction id 0: no user transaction
  Data,         \* the payloads of items
  Unindexable,  \* payloads without a field the property index can hold
  Template,     \* what a query asks for
  Matches,      \* Matches[t]: the payloads whose index keys include t's
  NoKeys,       \* templates that consist of wildcards only
  Query,        \* queries: templates and a maximum, 0 asking for all of them
  Dur,          \* lease and transaction durations the clients ask for
  Expected,     \* enlisted counts a commit may announce, -1 for none
  ReapCommit,   \* OESTORE_MAX_LEASE_REAP_COMMIT
  HalfInt,      \* 2^31: an int holds -HalfInt .. HalfInt - 1
  MaxTime       \* bound on the clock

FOREVER == -1

ASSUME StoreAssumption ==
  /\ NoTxn \notin Tid /\ Lid \cap Tid = {} /\ Data # {}
  /\ Unindexable \subseteq Data
  /\ Matches \in [Template -> SUBSET (Data \ Unindexable)]
  /\ NoKeys \subseteq Template
  /\ Query \subseteq [lists : Seq(Template) \ {<<>>}, max : Nat]
  /\ Dur \subseteq Int
  /\ Expected \subseteq Int
  /\ ReapCommit \in Nat \ {0}
  /\ HalfInt \in Nat \ {0}
  /\ MaxTime \in Nat \ {0}

(* A lease id is a 64-bit number.                                          *)
ASSUME LidsAreFinite == IsFiniteSet(Lid)

Lock == {"UNLOCKED", "WRITE_LOCK", "TAKE_LOCK"}
Status == {"ACTIVE", "COMMITTED", "ROLLED_BACK"}

(* A holder as it is marshalled.  An id without a record is Absent.        *)
Holder == [lock : Lock \cup {"ABSENT"}, txn_id : Tid \cup {NoTxn},
           lease_expire_time : Int, data : Data]

NoData == CHOOSE d \in Data : TRUE

Absent == [lock |-> "ABSENT", txn_id |-> NoTxn,
           lease_expire_time |-> 0, data |-> NoData]

Txn == [status : Status \cup {"NONE"}, expire_time : Int]
NoTxnRecord == [status |-> "NONE", expire_time |-> 0]

(* Where a worker is in a call, and what the call has in its hands: the    *)
(* user's transaction, a query, the lease ids it works on, the holder it   *)
(* is about to store, the items its query found per template, and the      *)
(* snapshot it read them from.                                             *)
Pc == {"idle", "put", "get", "take", "fire"}

NoQuery == [lists |-> <<>>, max |-> 0]

Call == [tid : Tid \cup {NoTxn}, query : Query \cup {NoQuery},
         lids : SUBSET Lid, holder : Holder,
         found : Seq(SUBSET Lid), snapshot : [Lid -> Holder]]

NoSnapshot == [l \in Lid |-> Absent]

NoCall == [tid |-> NoTxn, query |-> NoQuery, lids |-> {}, holder |-> Absent,
           found |-> <<>>, snapshot |-> NoSnapshot]

PutCall(l, h) == [tid |-> NoTxn, query |-> NoQuery, lids |-> {l}, holder |-> h,
                  found |-> <<>>, snapshot |-> NoSnapshot]

GetCall(t, q) == [tid |-> t, query |-> q, lids |-> {}, holder |-> Absent,
                  found |-> <<>>, snapshot |-> NoSnapshot]

TakeCall(t, found, snapshot) ==
  [tid |-> t, query |-> NoQuery, lids |-> {}, holder |-> Absent,
   found |-> found, snapshot |-> snapshot]

FireCall(S) == [tid |-> NoTxn, query |-> NoQuery, lids |-> S, holder |-> Absent,
                found |-> <<>>, snapshot |-> NoSnapshot]

(* What a call returns; MORE is the reaper's 1.                            *)
Code == {"OK", "MORE", "ERR", "PLEASE_RETRY", "ITEM_NOTFOUND", "INACTIVE_TXN",
         "ROLLEDBACK_TXN_ERR", "COMMITTED_TXN_ERR", "EXPIRED_TXN_ERR",
         "ENLISTED_COUNT_INCORRECT"}

VARIABLES
  now,                  \* oec_get_time_milliseconds()
  holder_db,            \* lease id -> holder
  txn_db,               \* transaction id -> status and expiry
  ids,                  \* the ids the sequence has handed out
  reaper_running_flag,
  pc, call,             \* per worker: the call in progress
  ret                   \* what the last call to return has returned

vars == <<now, holder_db, txn_db, ids, reaper_running_flag, pc, call, ret>>

Init ==
  /\ now = 1
  /\ holder_db = [l \in Lid |-> Absent]
  /\ txn_db = [t \in Tid |-> NoTxnRecord]
  /\ ids = {}
  /\ reaper_running_flag = FALSE
  /\ pc = [w \in Worker |-> "idle"]
  /\ call = [w \in Worker |-> NoCall]
  /\ ret = "OK"

-----------------------------------------------------------------------------
(* Helpers.                                                                *)

Return(w, code) ==
  /\ pc' = [pc EXCEPT ![w] = "idle"]
  /\ call' = [call EXCEPT ![w] = NoCall]
  /\ ret' = code

Continue(w, label, c) ==
  /\ pc' = [pc EXCEPT ![w] = label]
  /\ call' = [call EXCEPT ![w] = c]
  /\ UNCHANGED ret

(* When a lease or a transaction of duration d ends.                       *)
ExpireTime(d) == IF d = FOREVER THEN FOREVER ELSE now + d

(* Mutant: a lease still holds at its last moment.                         *)
ExpiredLate(h) == h.lease_expire_time # FOREVER /\ h.lease_expire_time < now

(* OeStoreHolder_skip, on a holder that exists.                            *)
Expired(h) == h.lease_expire_time # FOREVER /\ h.lease_expire_time <= now
DoNotSkip(h) == h.lock = "UNLOCKED" /\ ~Expired(h)

(* OeStoreHolder_set_lock and _set_txn_id.                                 *)
Relocked(h, lock, t) ==
  [lock |-> lock, txn_id |-> t,
   lease_expire_time |-> h.lease_expire_time, data |-> h.data]

(* The property index: items a transaction owns are not in it.             *)
PropIdx == {l \in Lid : holder_db[l].lock # "ABSENT" /\ holder_db[l].txn_id = NoTxn}
(* The expiry index, which also leaves out leases that never expire.       *)
ExpireTimeIdx == {l \in PropIdx : holder_db[l].lease_expire_time # FOREVER}
(* The owner index.                                                        *)
OwnerIdx(t) == {l \in Lid : holder_db[l].lock # "ABSENT" /\ holder_db[l].txn_id = t}

(* Mutant: a transaction without a record passes for an active one.        *)
TxnNotEnded(t) == txn_db[t].status \notin {"COMMITTED", "ROLLED_BACK"}

TxnIsActive(t) == txn_db[t].status = "ACTIVE"

(* A snapshot is stale for an item another transaction has changed since.  *)
Conflict(snapshot, S) == \E l \in S : holder_db[l] # snapshot[l]

-----------------------------------------------------------------------------
(* Put.                                                                    *)

(* The holder _sput builds.                                                *)
NewHolder(t, d, x) ==
  [lock |-> IF t = NoTxn THEN "UNLOCKED" ELSE "WRITE_LOCK", txn_id |-> t,
   lease_expire_time |-> ExpireTime(d), data |-> x]

(* A put outside a user transaction commits, and has the write to report.  *)
(* An item without a key for the property index is refused by the index.   *)
ApiPut(w, l, d, x) ==
  /\ pc[w] = "idle"
  /\ l \notin ids
  /\ ids' = ids \cup {l}
  /\ \/ /\ x \notin Unindexable
        /\ holder_db' = [holder_db EXCEPT ![l] = NewHolder(NoTxn, d, x)]
        /\ Continue(w, "fire", FireCall({l}))
     \/ /\ x \in Unindexable
        /\ Return(w, "ERR")
        /\ UNCHANGED holder_db
  /\ UNCHANGED <<now, txn_db, reaper_running_flag>>

(* A put inside user transaction t first asks, outside its own database    *)
(* transaction, whether t is active ...                                    *)
ApiPutInTxn(w, l, t, d, x) ==
  /\ pc[w] = "idle"
  /\ l \notin ids
  /\ ids' = ids \cup {l}
  /\ \/ /\ TxnIsActive(t)
        /\ Continue(w, "put", PutCall(l, NewHolder(t, d, x)))
     \/ /\ ~TxnIsActive(t)
        /\ Return(w, "INACTIVE_TXN")
  /\ UNCHANGED <<now, holder_db, txn_db, reaper_running_flag>>

(* ... and then stores the item.                                           *)
TryPut(w) ==
  /\ pc[w] = "put"
  /\ holder_db' = [l \in Lid |->
       IF l \in call[w].lids THEN call[w].holder ELSE holder_db[l]]
  /\ Return(w, "OK")
  /\ UNCHANGED <<now, txn_db, ids, reaper_running_flag>>

(* The write events of a call that has committed.                          *)
FireWriteEvent(w) ==
  /\ pc[w] = "fire"
  /\ Return(w, "OK")
  /\ UNCHANGED <<now, holder_db, txn_db, ids, reaper_running_flag>>

-----------------------------------------------------------------------------
(* Get.                                                                    *)

(* The items a query may return for template t when n are found already:   *)
(* the cursor stops at the first item that fills the query, so one is      *)
(* added even to a full one.                                               *)
GetOne(t, n, max) ==
  LET hits == {l \in PropIdx : holder_db[l].data \in Matches[t] /\ DoNotSkip(holder_db[l])}
      room == IF max > n THEN max - n ELSE 1
  IN  {S \in SUBSET hits :
         Cardinality(S) = IF Cardinality(hits) < room THEN Cardinality(hits) ELSE room}

FoundBefore(found, i) ==
  Cardinality({p \in (1 .. i - 1) \X Lid : p[2] \in found[p[1]]})

(* A query whose maximum is 0 wants every template satisfied.              *)
IsAnd(q) == q.max = 0
Missed(q, found, i) == IsAnd(q) /\ found[i] = {}

(* The loop over the templates, up to its last one or to the one that ends *)
(* it: found[i] is what template i added.                                  *)
Search(q) ==
  {found \in UNION {[1 .. n -> SUBSET Lid] : n \in 1 .. Len(q.lists)} :
     /\ \A i \in DOMAIN found :
          /\ found[i] \in IF q.lists[i] \in NoKeys THEN {{}}
                          ELSE GetOne(q.lists[i], FoundBefore(found, i), q.max)
          /\ i < Len(found) => q.lists[i] \notin NoKeys /\ ~Missed(q, found, i)
     /\ \/ Len(found) = Len(q.lists)
        \/ q.lists[Len(found)] \in NoKeys
        \/ Missed(q, found, Len(found))}

Items(found) == UNION {found[i] : i \in DOMAIN found}

(* How the loop ended: a template without keys is an error.                *)
SearchCode(q, found) ==
  IF q.lists[Len(found)] \in NoKeys THEN "ERR"
  ELSE IF Missed(q, found, Len(found)) \/ Items(found) = {} THEN "ITEM_NOTFOUND"
  ELSE "OK"

(* One search of the store, in the snapshot of the moment: a read returns  *)
(* at once, a take that found something has to lock it.                    *)
ReadSnapshot(w, q, take, t) ==
  \E found \in Search(q) :
    \/ /\ take /\ SearchCode(q, found) = "OK"
       /\ Continue(w, "take", TakeCall(t, found,
            [l \in Lid |-> IF l \in Items(found) THEN holder_db[l] ELSE Absent]))
    \/ /\ ~(take /\ SearchCode(q, found) = "OK")
       /\ Return(w, SearchCode(q, found))

(* A read, or a take outside a user transaction.                           *)
ApiGet(w, q, take) ==
  /\ pc[w] = "idle"
  /\ ReadSnapshot(w, q, take, NoTxn)
  /\ UNCHANGED <<now, holder_db, txn_db, ids, reaper_running_flag>>

(* A take inside user transaction t first asks whether t is active ...     *)
ApiTakeInTxn(w, q, t) ==
  /\ pc[w] = "idle"
  /\ \/ /\ TxnIsActive(t)
        /\ Continue(w, "get", GetCall(t, q))
     \/ /\ ~TxnIsActive(t)
        /\ Return(w, "INACTIVE_TXN")
  /\ UNCHANGED <<now, holder_db, txn_db, ids, reaper_running_flag>>

(* ... and then searches.                                                  *)
TakeInTxnRead(w) ==
  /\ pc[w] = "get"
  /\ ReadSnapshot(w, call[w].query, TRUE, call[w].tid)
  /\ UNCHANGED <<now, holder_db, txn_db, ids, reaper_running_flag>>

(* Mutant: what the search has read is not read again for update.          *)
FoundIsEnough(c) == \A i, j \in DOMAIN c.found : i # j => c.found[i] \cap c.found[j] = {}

(* Every item found is read again for update.  It must still be there to   *)
(* take, which it is not if an earlier template of the query found it too. *)
StillThere(c) ==
  /\ \A i, j \in DOMAIN c.found : i # j => c.found[i] \cap c.found[j] = {}
  /\ ~Conflict(c.snapshot, Items(c.found))
  /\ \A l \in Items(c.found) : DoNotSkip(holder_db[l])

(* _delete_items_for_take, or _update_locks_for_take, which writes back    *)
(* the copy the search has marked.                                         *)
Taken(c, l) ==
  IF c.tid = NoTxn THEN Absent
  ELSE Relocked(c.snapshot[l], "TAKE_LOCK", c.tid)

FinishTake(w) ==
  /\ pc[w] = "take"
  /\ \/ /\ StillThere(call[w])
        /\ holder_db' = [l \in Lid |->
             IF l \in Items(call[w].found) THEN Taken(call[w], l) ELSE holder_db[l]]
        /\ Return(w, "OK")
     \/ /\ ~StillThere(call[w])
        /\ Return(w, "PLEASE_RETRY")
        /\ UNCHANGED holder_db
  /\ UNCHANGED <<now, txn_db, ids, reaper_running_flag>>

-----------------------------------------------------------------------------
(* Leases.                                                                 *)

(* _supl asks for a lease that ends d from now; a lease that has run out   *)
(* cannot be renewed.                                                      *)
UpdateLease(w, l, d) ==
  LET h == holder_db[l] IN
  /\ pc[w] = "idle"
  /\ \/ /\ h.lock = "ABSENT"
        /\ Return(w, "ITEM_NOTFOUND")
        /\ UNCHANGED holder_db
     \/ /\ h.lock # "ABSENT"
        /\ h.lease_expire_time # FOREVER /\ h.lease_expire_time < now
        /\ Return(w, "ERR")
        /\ UNCHANGED holder_db
     \/ /\ h.lock # "ABSENT"
        /\ h.lease_expire_time = FOREVER \/ h.lease_expire_time >= now
        /\ holder_db' = [holder_db EXCEPT ![l].lease_expire_time = now + d]
        /\ Return(w, "OK")
  /\ UNCHANGED <<now, txn_db, ids, reaper_running_flag>>

(* A 64-bit number returned as an int.                                     *)
Narrow(n) == ((n + HalfInt) % (2 * HalfInt)) - HalfInt

(* _compare_oe_time, which orders the expiry index.                        *)
CompareOeTime(a, b) == Narrow(a - b)

(* No two times the clients can ask for are further apart than an int can  *)
(* tell, which is 24 days.  Otherwise the index is not sorted by time, nor *)
(* is it once such leases are gone again.                                  *)
TimesAreClose ==
  \A d, e \in Dur \cup {0} : MaxTime + d - e < HalfInt

CompareLeases(l, m) ==
  CompareOeTime(holder_db[l].lease_expire_time, holder_db[m].lease_expire_time)
CompareNow(l) == CompareOeTime(holder_db[l].lease_expire_time, now)

(* What one pass of the reaper visits: the cursor is set to the first      *)
(* entry of the expiry index at or after now, and walks back from there.   *)
(* Without such an entry it visits nothing.                                *)
FirstAtOrAfterNow ==
  {l \in ExpireTimeIdx :
     /\ CompareNow(l) >= 0
     /\ \A m \in ExpireTimeIdx : CompareNow(m) >= 0 => CompareLeases(l, m) <= 0}

Before == {l \in ExpireTimeIdx : CompareNow(l) < 0}

RanOut == {l \in ExpireTimeIdx : Expired(holder_db[l])}

(* The leases a pass starting at f deletes: of the expired ones it visits, *)
(* the latest first, as many as fit in one commit.                         *)
Reapable(f) ==
  LET expired == (Before \cup {f}) \cap RanOut
      skipped == IF Expired(holder_db[f]) THEN 0 ELSE 1
      limit == IF skipped < ReapCommit THEN ReapCommit - skipped ELSE 1
  IN  {D \in SUBSET expired :
         /\ Cardinality(D) = IF Cardinality(expired) < limit
                             THEN Cardinality(expired) ELSE limit
         /\ \A l \in D, m \in expired \ D : CompareLeases(m, l) <= 0}

(* Mutant: one too many before there is more to do.                        *)
ReapCodeLate(f, D) ==
  LET visited == Cardinality(D) + (IF Expired(holder_db[f]) THEN 0 ELSE 1)
  IN  IF D # {} /\ visited > ReapCommit THEN "MORE" ELSE "OK"

(* The result of a pass that deleted D: MORE when it stopped at the limit. *)
ReapCode(f, D) ==
  LET visited == Cardinality(D) + (IF Expired(holder_db[f]) THEN 0 ELSE 1)
  IN  IF D # {} /\ visited >= ReapCommit THEN "MORE" ELSE "OK"

(* _set_reaper_running(running), given the flag: the values the flag may   *)
(* have after it and what it may return.  A flag that is set stays set,    *)
(* and the result is then an uninitialized variable.                       *)
SetReaperRunning(flag, running) ==
  IF flag THEN {<<TRUE, r>> : r \in BOOLEAN} ELSE {<<running, TRUE>>}

Deleted(D) == [l \in Lid |-> IF l \in D THEN Absent ELSE holder_db[l]]

(* The timer of the matcher calls the reaper.  It deletes in one database  *)
(* transaction, which may fail.  Of an index that is not sorted it may     *)
(* find anything, but it deletes only leases that have run out.            *)
LeaseReaper ==
  \E started \in SetReaperRunning(reaper_running_flag, TRUE) :
    /\ \/ /\ ~started[2]
          /\ ret' = "OK"
          /\ reaper_running_flag' = started[1]
          /\ UNCHANGED holder_db
       \/ /\ started[2]
          /\ \/ /\ TimesAreClose /\ FirstAtOrAfterNow = {}
                /\ ret' = "OK"
                /\ UNCHANGED holder_db
             \/ /\ TimesAreClose
                /\ \E f \in FirstAtOrAfterNow : \E D \in Reapable(f) :
                     /\ holder_db' = Deleted(D)
                     /\ ret' = ReapCode(f, D)
             \/ /\ ~TimesAreClose
                /\ \E D \in SUBSET RanOut : holder_db' = Deleted(D)
                /\ ret' \in {"OK", "MORE"}
             \/ /\ ret' = "ERR"
                /\ UNCHANGED holder_db
          /\ \E ended \in SetReaperRunning(started[1], FALSE) :
               reaper_running_flag' = ended[1]
    /\ UNCHANGED <<now, txn_db, ids, pc, call>>

-----------------------------------------------------------------------------
(* User transactions.                                                      *)

StartTxn(w, t, d) ==
  /\ pc[w] = "idle"
  /\ t \notin ids
  /\ ids' = ids \cup {t}
  /\ txn_db' = [txn_db EXCEPT ![t] =
       [status |-> "ACTIVE", expire_time |-> ExpireTime(d)]]
  /\ Return(w, "OK")
  /\ UNCHANGED <<now, holder_db, reaper_running_flag>>

(* Mutant: a rollback deletes what a commit deletes.                       *)
DeleteTaken(status) == "TAKE_LOCK"

(* _finish_oetxn: what becomes of an item the transaction owns.  Every     *)
(* other lock would be the panic of the code.                              *)
DeleteLock(status) == IF status = "COMMITTED" THEN "TAKE_LOCK" ELSE "WRITE_LOCK"
ClearLock(status) == IF status = "COMMITTED" THEN "WRITE_LOCK" ELSE "TAKE_LOCK"

(* Mutant: only a commit is thought to make items visible.                 *)
ClearedByCommit(t, status) ==
  {l \in OwnerIdx(t) : status = "COMMITTED" /\ holder_db[l].lock = "WRITE_LOCK"}

Cleared(t, status) == {l \in OwnerIdx(t) : holder_db[l].lock = ClearLock(status)}

Panics(t) == {l \in OwnerIdx(t) : holder_db[l].lock \notin {"WRITE_LOCK", "TAKE_LOCK"}}

(* Mutants: the freed item keeps its owner; a deleted one leaves a mark.   *)
FinishedOwned(t, status, l) ==
  IF holder_db[l].lock = DeleteLock(status) THEN Absent
  ELSE Relocked(holder_db[l], "UNLOCKED", t)
FinishedMarked(t, status, l) ==
  IF holder_db[l].lock = DeleteLock(status) THEN Relocked(holder_db[l], "DELETED", NoTxn)
  ELSE Relocked(holder_db[l], "UNLOCKED", NoTxn)

Finished(t, status, l) ==
  IF holder_db[l].lock = DeleteLock(status) THEN Absent
  ELSE Relocked(holder_db[l], "UNLOCKED", NoTxn)

(* The error _update_txn returns for transaction t, "OK" when it has none. *)
UpdateTxnCode(t, status, expected) ==
  LET txn == txn_db[t] IN
  CASE txn.status = "NONE" -> "ITEM_NOTFOUND"
    [] txn.status = "ROLLED_BACK" ->
         IF status = "ROLLED_BACK" THEN "OK" ELSE "ROLLEDBACK_TXN_ERR"
    [] txn.status = "COMMITTED" ->
         IF status = "COMMITTED" THEN "OK" ELSE "COMMITTED_TXN_ERR"
    [] txn.status = "ACTIVE" ->
         IF txn.expire_time # FOREVER /\ txn.expire_time < now THEN "EXPIRED_TXN_ERR"
         ELSE IF status = "ACTIVE" THEN "OK"
         ELSE IF Panics(t) # {}
                 \/ \E l \in Cleared(t, status) : holder_db[l].data \in Unindexable
              THEN "ERR"
         ELSE IF status = "COMMITTED" /\ expected # -1
                 /\ expected # Cardinality(OwnerIdx(t))
              THEN "ENLISTED_COUNT_INCORRECT"
         ELSE "OK"

(* Extend, commit or roll back t: nothing, when it has already ended that  *)
(* way.  The events for what became visible are fired after the commit.    *)
UpdateTxn(w, t, d, status, expected) ==
  LET code == UpdateTxnCode(t, status, expected)
      extended == IF d > 0 THEN now + d ELSE txn_db[t].expire_time
  IN
  /\ pc[w] = "idle"
  /\ \/ /\ code # "OK" \/ txn_db[t].status # "ACTIVE"
        /\ Return(w, code)
        /\ UNCHANGED <<holder_db, txn_db>>
     \/ /\ code = "OK" /\ txn_db[t].status = "ACTIVE" /\ status = "ACTIVE"
        /\ txn_db' = [txn_db EXCEPT ![t].expire_time = extended]
        /\ Return(w, "OK")
        /\ UNCHANGED holder_db
     \/ /\ code = "OK" /\ txn_db[t].status = "ACTIVE" /\ status # "ACTIVE"
        /\ txn_db' = [txn_db EXCEPT ![t] = [status |-> status, expire_time |-> now]]
        /\ holder_db' = [l \in Lid |->
             IF l \in OwnerIdx(t) THEN Finished(t, status, l) ELSE holder_db[l]]
        /\ Continue(w, "fire", FireCall(Cleared(t, status)))
  /\ UNCHANGED <<now, ids, reaper_running_flag>>

-----------------------------------------------------------------------------
(* A Berkeley DB transaction chosen as a deadlock victim is aborted and    *)
(* the caller told to try again; when it is the read of the transaction's  *)
(* status that fails, the transaction is reported inactive.                *)
DbDeadlock(w) ==
  /\ pc[w] \in {"idle", "put", "get", "take"}
  /\ \E code \in {"PLEASE_RETRY", "INACTIVE_TXN"} :
       /\ code = "INACTIVE_TXN" => pc[w] = "idle"
       /\ Return(w, code)
  /\ UNCHANGED <<now, holder_db, txn_db, ids, reaper_running_flag>>

Tick ==
  /\ now < MaxTime
  /\ now' = now + 1
  /\ UNCHANGED <<holder_db, txn_db, ids, reaper_running_flag, pc, call, ret>>

(* The steps of a call after its first.                                    *)
Step(w) == TryPut(w) \/ FireWriteEvent(w) \/ TakeInTxnRead(w) \/ FinishTake(w)

Start(w) ==
  \/ \E l \in Lid, d \in Dur, x \in Data :
       \/ ApiPut(w, l, d, x)
       \/ \E t \in Tid : ApiPutInTxn(w, l, t, d, x)
  \/ \E q \in Query : \/ \E take \in BOOLEAN : ApiGet(w, q, take)
                      \/ \E t \in Tid : ApiTakeInTxn(w, q, t)
  \/ \E l \in Lid, d \in Dur : UpdateLease(w, l, d)
  \/ \E t \in Tid, d \in Dur :
       \/ StartTxn(w, t, d)
       \/ \E status \in Status, n \in Expected : UpdateTxn(w, t, d, status, n)

Next == Tick \/ LeaseReaper \/ \E w \in Worker : Start(w) \/ Step(w) \/ DbDeadlock(w)

Spec == Init /\ [][Next]_vars

-----------------------------------------------------------------------------
(* Properties.                                                             *)

(* Every variable keeps its type through every call of the store's        *)
(* interface.                                                              *)
TypeOK ==
  /\ now \in Nat
  /\ holder_db \in [Lid -> Holder]
  /\ txn_db \in [Tid -> Txn]
  /\ ids \in SUBSET (Lid \cup Tid)
  /\ reaper_running_flag \in BOOLEAN
  /\ pc \in [Worker -> Pc]
  /\ call \in [Worker -> Call]
  /\ ret \in Code

(* An item is locked exactly while a transaction that has begun owns it.   *)
(* _finish_oetxn relies on it: an unlocked item in the owner index is its  *)
(* "found unlocked on commit" panic; and so does the reaper, which asserts *)
(* that nothing in the expiry index is owned.                              *)
LockHasOwner ==
  \A l \in Lid :
    LET h == holder_db[l] IN
    IF h.lock \in {"WRITE_LOCK", "TAKE_LOCK"}
    THEN h.txn_id \in Tid /\ txn_db[h.txn_id].status # "NONE"
    ELSE h.txn_id = NoTxn

(* The lease id a put in progress will store under.                        *)
InFlight(l) == \E w \in Worker : pc[w] = "put" /\ l \in call[w].lids

(* Nothing has a record under an id the sequence has not given.            *)
RecordsHaveIds ==
  /\ \A l \in Lid : holder_db[l].lock = "ABSENT" \/ l \notin ids => holder_db[l] = Absent
  /\ \A t \in Tid : t \notin ids => txn_db[t].status = "NONE"

CallConsistent(w) ==
  /\ pc[w] = "put" =>
       /\ \E l \in Lid : call[w].lids = {l} /\ l \in ids /\ holder_db[l] = Absent
       /\ call[w].holder.lock = "WRITE_LOCK"
       /\ call[w].holder.txn_id \in Tid
       /\ txn_db[call[w].holder.txn_id].status # "NONE"
  /\ pc[w] = "get" => call[w].tid \in Tid /\ call[w].query \in Query
  /\ call[w].tid \in Tid => txn_db[call[w].tid].status # "NONE"

(* The calls in progress: a put's lease id is its own and still without a  *)
(* record, and whatever a call will enlist goes to a transaction that has  *)
(* begun.                                                                  *)
CallsConsistent ==
  /\ RecordsHaveIds
  /\ \A w \in Worker : CallConsistent(w)
  /\ \A v, w \in Worker :
       pc[v] = "put" /\ pc[w] = "put" /\ v # w => call[v].lids \cap call[w].lids = {}

(* An item that was taken, rolled back or reaped never comes back, though  *)
(* a take inside a transaction writes whole items back from the copies it  *)
(* read before: what holds a lease id now is the put that created it.      *)
NoResurrection ==
  [][\A l \in ids \cap Lid :
       holder_db[l] = Absent /\ ~InFlight(l) => holder_db'[l] = Absent]_vars

(* The write event of every item that becomes visible is in the hands of   *)
(* the worker whose commit made it visible: none is dropped when a         *)
(* transaction with several items ends.                                    *)
VisibleIsAnnounced ==
  [][\A l \in Lid :
       holder_db[l].lock # "UNLOCKED" /\ holder_db'[l].lock = "UNLOCKED"
         => \E w \in Worker : pc'[w] = "fire" /\ l \in call'[w].lids]_vars

(* What a caller may know of lease id l.  An id that was handed out for a  *)
(* put in progress is still unused.                                        *)
SpaceState(l) ==
  CASE holder_db[l].lock = "UNLOCKED" -> "free"
    [] holder_db[l].lock = "WRITE_LOCK" -> "written"
    [] holder_db[l].lock = "TAKE_LOCK" -> "taken"
    [] OTHER -> IF l \notin ids \/ InFlight(l) THEN "none" ELSE "gone"

SpaceItem(l) == [state |-> SpaceState(l), owner |-> holder_db[l].txn_id,
                 lease |-> holder_db[l].lease_expire_time]

Space == INSTANCE TupleSpace WITH
  item <- [l \in Lid |-> SpaceItem(l)],
  txn <- [t \in Tid |-> txn_db[t].status]

(* The store implements the tuple space: with its calls cut into steps,    *)
(* its snapshots and its reaper passes, every call takes effect at once.   *)
ImplementsTupleSpace == Space!Spec

(* While no two leases end more than 24 days apart, a pass of the reaper   *)
(* that finds the flag down and a lease that ends now or later, and        *)
(* returns 0 rather than 1, has nothing left to do: it has deleted every   *)
(* lease whose time is past, though the index compares times as ints.      *)
ReaperFinishes ==
  [][/\ LeaseReaper /\ TimesAreClose /\ ~reaper_running_flag /\ ret' = "OK"
     /\ \E l \in ExpireTimeIdx : holder_db[l].lease_expire_time >= now
     => \A l \in ExpireTimeIdx :
          holder_db[l].lease_expire_time < now => holder_db'[l] = Absent]_vars

(* What OESTORE_INACTIVE_TXN is for: no item is held for a transaction     *)
(* that has ended, where nothing would ever release or remove it.          *)
NoItemOfFinishedTxn ==
  \A l \in Lid : holder_db[l].txn_id # NoTxn => TxnIsActive(holder_db[l].txn_id)
=============================================================================
