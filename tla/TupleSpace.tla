---------------------------- MODULE TupleSpace ----------------------------
(***************************************************************************)
(* What the store promises its callers: every call takes effect at one     *)
(* moment.  Items are free, written or taken by a user's transaction, or   *)
(* gone for good; a transaction decides about all its items at once.  The  *)
(* module has no threads, no snapshots, no indexes and no reaper passes:   *)
(* OeBdb is checked, and proved, to implement it.                          *)
(***************************************************************************)
EXTENDS Integers

CONSTANTS Lid, Tid, NoTxn, FOREVER

VARIABLES
  now,   \* the clock
  item,  \* per lease id: its state, the transaction that owns it, its lease
  txn    \* per transaction id: its status

State == {"none", "free", "written", "taken", "gone"}
Item == [state : State, owner : Tid \cup {NoTxn}, lease : Int]
None == [state |-> "none", owner |-> NoTxn, lease |-> 0]
Gone == [state |-> "gone", owner |-> NoTxn, lease |-> 0]

Init ==
  /\ now = 1
  /\ item = [l \in Lid |-> None]
  /\ txn = [t \in Tid |-> "NONE"]

Live(l) == item[l].lease = FOREVER \/ item[l].lease > now

(* The items of S change to what f says, all at once.                      *)
Change(S, f) == item' = [l \in Lid |-> IF l \in S THEN f[l] ELSE item[l]]

(* The lease a call asks for is the caller's choice.                       *)
Asked(l) == item'[l].lease

Put(l) ==
  /\ item[l].state = "none"
  /\ Asked(l) \in Int
  /\ Change({l}, [m \in {l} |->
       [state |-> "free", owner |-> NoTxn, lease |-> Asked(l)]])
  /\ UNCHANGED <<now, txn>>

(* The transaction has begun; whether it is still open is not promised.    *)
PutIn(l, t) ==
  /\ item[l].state = "none"
  /\ txn[t] # "NONE"
  /\ Asked(l) \in Int
  /\ Change({l}, [m \in {l} |->
       [state |-> "written", owner |-> t, lease |-> Asked(l)]])
  /\ UNCHANGED <<now, txn>>

(* A put that failed leaves its lease id unused for ever.                  *)
Refuse(l) ==
  /\ item[l].state = "none"
  /\ Change({l}, [m \in {l} |-> Gone])
  /\ UNCHANGED <<now, txn>>

Take(S) ==
  /\ \A l \in S : item[l].state = "free" /\ Live(l)
  /\ Change(S, [l \in S |-> Gone])
  /\ UNCHANGED <<now, txn>>

TakeIn(S, t) ==
  /\ \A l \in S : item[l].state = "free" /\ Live(l)
  /\ txn[t] # "NONE"
  /\ Change(S, [l \in S |-> [state |-> "taken", owner |-> t, lease |-> item[l].lease]])
  /\ UNCHANGED <<now, txn>>

(* A lease can be renewed up to and at its last moment.                    *)
Renew(l) ==
  /\ item[l].state \in {"free", "written", "taken"}
  /\ item[l].lease = FOREVER \/ item[l].lease >= now
  /\ Asked(l) \in Int
  /\ Change({l}, [m \in {l} |->
       [state |-> item[l].state, owner |-> item[l].owner, lease |-> Asked(l)]])
  /\ UNCHANGED <<now, txn>>

Reap(S) ==
  /\ \A l \in S : item[l].state = "free" /\ ~Live(l)
  /\ Change(S, [l \in S |-> Gone])
  /\ UNCHANGED <<now, txn>>

Begin(t) ==
  /\ txn[t] = "NONE"
  /\ txn' = [txn EXCEPT ![t] = "ACTIVE"]
  /\ UNCHANGED <<now, item>>

(* A commit frees what the transaction wrote and removes what it took; a   *)
(* rollback does the opposite.                                             *)
Outcome(l, freed) ==
  IF item[l].state = freed
  THEN [state |-> "free", owner |-> NoTxn, lease |-> item[l].lease] ELSE Gone

Finish(t, status, freed) ==
  /\ txn[t] = "ACTIVE"
  /\ txn' = [txn EXCEPT ![t] = status]
  /\ item' = [l \in Lid |-> IF item[l].owner = t THEN Outcome(l, freed) ELSE item[l]]
  /\ UNCHANGED now

Commit(t) == Finish(t, "COMMITTED", "written")
Rollback(t) == Finish(t, "ROLLED_BACK", "taken")

Tick == now' = now + 1 /\ UNCHANGED <<item, txn>>

Next ==
  \/ Tick
  \/ \E l \in Lid : \/ Put(l) \/ Refuse(l) \/ Renew(l)
                    \/ \E t \in Tid : PutIn(l, t)
  \/ \E S \in SUBSET Lid : Take(S) \/ Reap(S) \/ \E t \in Tid : TakeIn(S, t)
  \/ \E t \in Tid : Begin(t) \/ Commit(t) \/ Rollback(t)

Spec == Init /\ [][Next]_<<now, item, txn>>
=============================================================================
