------------------------------ MODULE OeKernel ------------------------------
(***************************************************************************)
(* How a get is answered (corelib/OEK_get.c): the kernel ties the store,   *)
(* the thread pool and the template matcher together.  A get searches in a *)
(* thread of the pool; when it finds nothing it leaves its context with    *)
(* the matcher, which hands it back to the pool when an item that may      *)
(* match is written, or when its time is over.  The search, the clock, the *)
(* registration and the write event are steps of their own, and other      *)
(* clients put, take, commit and roll back between them.                   *)
(*                                                                         *)
(* The parts appear as what their own modules promise: the store is atomic *)
(* (TupleSpace), the pool runs every task once (OeThreadDispatcher), the   *)
(* matcher works through its queue in order and answers a registration     *)
(* once (OedDispatcher).                                                   *)
(***************************************************************************)
EXTENDS Integers, Sequences, FiniteSets

CONSTANTS
  Get,        \* the get commands
  Take,       \* those that remove what they find
  IfExists,   \* those with the option ifexists
  Timeout,    \* per get: its timeout
  Item,       \* the items other clients put
  Match,      \* pairs of a get and an item its templates match in the store
  Loose,      \* pairs of a get and an item its templates match in the matcher
  FOREVER,    \* OEC_FOREVER
  MaxLate,    \* how far past its end a get's time is counted
  MaxReleases \* bound on how often an item becomes visible

(* The matcher ignores positions and lengths, so it may match more than    *)
(* the store, and never less (TemplateMatch).                              *)
ASSUME KernelAssumption ==
  /\ Take \subseteq Get /\ IfExists \subseteq Get
  /\ Timeout \in [Get -> Int]
  /\ Match \subseteq Loose /\ Loose \subseteq Get \X Item
  /\ FOREVER = -1
  /\ MaxLate \in Nat /\ MaxLate > 1 /\ MaxReleases \in Nat

VARIABLES
  item,    \* per item: "new", "free", "locked" (a transaction owns it), "gone"
  due,     \* per item: write events its writers have still to fire
  writes,  \* per item: how often it became visible
  left,    \* per get: context->expire_time, from now on
  db,      \* per get: tasks for it in the pool, or about to run
  thread,  \* per get: where the thread that searched for it is
  que,     \* the queue of the matcher
  table,   \* the gets registered in the matcher
  timer,   \* per get: the time its timer has still to run
  answer   \* per get: the answers written to the client

vars == <<item, due, writes, left, db, thread, que, table, timer, answer>>

Reg(g, dur) == [type |-> "REG", get |-> g, dur |-> dur]
Process(i) == [type |-> "PROCESS", item |-> i]

Init ==
  /\ item = [i \in Item |-> "new"]
  /\ due = [i \in Item |-> 0] /\ writes = [i \in Item |-> 0]
  /\ left = [g \in Get |-> 0]
  /\ db = [g \in Get |-> 0]
  /\ thread = [g \in Get |-> "none"]
  /\ que = <<>> /\ table = {} /\ timer = [g \in Get |-> 0]
  /\ answer = [g \in Get |-> <<>>]

-----------------------------------------------------------------------------
(* The other clients, through the store.                                   *)

(* A change that makes the item visible fires the write event afterwards.  *)
Visible(i) ==
  /\ writes[i] < MaxReleases
  /\ item' = [item EXCEPT ![i] = "free"]
  /\ due' = [due EXCEPT ![i] = @ + 1]
  /\ writes' = [writes EXCEPT ![i] = @ + 1]

(* A put, the commit of a put, or the rollback of a take.                  *)
Write(i) ==
  /\ item[i] \in {"new", "locked"}
  /\ Visible(i)
  /\ UNCHANGED <<left, db, thread, que, table, timer, answer>>

(* A put or a take in a transaction, which then owns the item.             *)
Enlist(i) ==
  /\ item[i] \in {"new", "free"}
  /\ item' = [item EXCEPT ![i] = "locked"]
  /\ UNCHANGED <<due, writes, left, db, thread, que, table, timer, answer>>

(* A take, the commit of a take, the rollback of a put, or the reaper.     *)
Gone(i) ==
  /\ item[i] \in {"free", "locked"}
  /\ item' = [item EXCEPT ![i] = "gone"]
  /\ UNCHANGED <<due, writes, left, db, thread, que, table, timer, answer>>

(* _fire_write_event, in the thread that made the item visible.            *)
FireWriteEvent(i) ==
  /\ due[i] > 0
  /\ due' = [due EXCEPT ![i] = @ - 1]
  /\ que' = Append(que, Process(i))
  /\ UNCHANGED <<item, writes, left, db, thread, table, timer, answer>>

-----------------------------------------------------------------------------
(* The get.                                                                *)

Asked(g) == db[g] + Len(answer[g]) > 0 \/ thread[g] # "none" \/ g \in table
            \/ \E k \in DOMAIN que : que[k].type = "REG" /\ que[k].get = g

(* _oek_impl_get, after the caller has set expire_time.                    *)
OekGet(g) ==
  /\ ~Asked(g)
  /\ left' = [left EXCEPT ![g] = Timeout[g]]
  /\ db' = [db EXCEPT ![g] = @ + 1]
  /\ UNCHANGED <<item, due, writes, thread, que, table, timer, answer>>

Write2Client(g, res) == answer' = [answer EXCEPT ![g] = Append(@, res)]

Visibles(g) == {i \in Item : item[i] = "free" /\ <<g, i>> \in Match}

(* _geth up to the end of OeStore_get, and the answer if there is one.  An *)
(* error is what is left after OEK_MAX_DB_DEADLOCKS tries.                 *)
GethFound(g) ==
  /\ db[g] > 0 /\ thread[g] = "none"
  /\ db' = [db EXCEPT ![g] = @ - 1]
  /\ \E i \in Visibles(g) :
       item' = IF g \in Take THEN [item EXCEPT ![i] = "gone"] ELSE item
  /\ Write2Client(g, "found")
  /\ UNCHANGED <<due, writes, left, thread, que, table, timer>>

GethFailed(g) ==
  /\ db[g] > 0 /\ thread[g] = "none"
  /\ db' = [db EXCEPT ![g] = @ - 1]
  /\ Write2Client(g, "error")
  /\ UNCHANGED <<item, due, writes, left, thread, que, table, timer>>

GethNotFound(g) ==
  /\ db[g] > 0 /\ thread[g] = "none" /\ Visibles(g) = {}
  /\ db' = [db EXCEPT ![g] = @ - 1]
  /\ thread' = [thread EXCEPT ![g] = "missed"]
  /\ UNCHANGED <<item, due, writes, left, que, table, timer, answer>>

(* _geth_handle_no_results, its first look at the clock.  A transaction's  *)
(* items are not in the index, so to ifexists nothing exists.              *)
Expired(g) == left[g] <= 0

HandleNoResults(g) ==
  /\ thread[g] = "missed"
  /\ IF Expired(g) \/ g \in IfExists
     THEN /\ thread' = [thread EXCEPT ![g] = "none"]
          /\ Write2Client(g, "none")
     ELSE /\ thread' = [thread EXCEPT ![g] = "register"]
          /\ UNCHANGED answer
  /\ UNCHANGED <<item, due, writes, left, db, que, table, timer>>

(* Its second look, and Oed_Dispatcher_reg_group.                          *)
RegGroup(g) ==
  /\ thread[g] = "register"
  /\ thread' = [thread EXCEPT ![g] = "none"]
  /\ que' = Append(que, Reg(g, left[g]))
  /\ UNCHANGED <<item, due, writes, left, db, table, timer, answer>>

-----------------------------------------------------------------------------
(* The matcher.                                                            *)

(* _watch_for_timeout: a duration of OEC_FOREVER sets no timer.            *)
Timer(dur) == IF dur = FOREVER \/ dur > 0 THEN dur ELSE 0

DoReg ==
  /\ que # <<>> /\ Head(que).type = "REG"
  /\ que' = Tail(que)
  /\ table' = table \cup {Head(que).get}
  /\ timer' = [timer EXCEPT ![Head(que).get] = Timer(Head(que).dur)]
  /\ UNCHANGED <<item, due, writes, left, db, thread, answer>>

(* Mutant: a get that is woken stays registered.                           *)
AsyncGethKept(S) ==
  /\ table' = table
  /\ db' = [g \in Get |-> IF g \in S THEN db[g] + 1 ELSE db[g]]

(* Mutant: a get that is woken is not handed to the pool.                  *)
AsyncGethLost(S) == table' = table \ S /\ db' = db

(* The handlers of match and timeout: _async_geth, for the gets of S.      *)
AsyncGeth(S) ==
  /\ table' = table \ S
  /\ db' = [g \in Get |-> IF g \in S THEN db[g] + 1 ELSE db[g]]

(* An object wakes every get it matches, up to the first take.             *)
Woken(i) ==
  LET hit == {g \in table : <<g, i>> \in Loose}
  IN {S \in SUBSET hit : IF hit \cap Take = {} THEN S = hit
                                              ELSE \E t \in hit : S \cap Take = {t}}

DoProcess ==
  /\ que # <<>> /\ Head(que).type = "PROCESS"
  /\ que' = Tail(que)
  /\ \E S \in Woken(Head(que).item) : AsyncGeth(S)
  /\ UNCHANGED <<item, due, writes, left, thread, timer, answer>>

(* Mutant: the timeout handler is _no_results.                             *)
TimeoutNoResults(g) ==
  /\ g \in table /\ timer[g] = 0
  /\ table' = table \ {g}
  /\ Write2Client(g, "none")
  /\ UNCHANGED <<item, due, writes, left, db, thread, que, timer>>

TimeoutCb(g) ==
  /\ g \in table /\ timer[g] = 0
  /\ AsyncGeth({g})
  /\ UNCHANGED <<item, due, writes, left, thread, que, timer, answer>>

(* A moment passes, for the gets that wait for their answer.  Later than   *)
(* MaxLate is as late as MaxLate.                                          *)
Waits(g) == Asked(g) /\ answer[g] = <<>>

Tick ==
  /\ left' = [g \in Get |-> IF Waits(g) /\ left[g] > -MaxLate THEN left[g] - 1 ELSE left[g]]
  /\ timer' = [g \in Get |-> IF g \in table /\ timer[g] > 0 THEN timer[g] - 1 ELSE timer[g]]
  /\ UNCHANGED <<item, due, writes, db, thread, que, table, answer>>

Geth(g) == GethFound(g) \/ GethNotFound(g) \/ GethFailed(g)

Next ==
  \/ Tick \/ DoReg \/ DoProcess
  \/ \E i \in Item : Write(i) \/ Enlist(i) \/ Gone(i) \/ FireWriteEvent(i)
  \/ \E g \in Get : \/ OekGet(g) \/ Geth(g) \/ HandleNoResults(g) \/ RegGroup(g)
                    \/ TimeoutCb(g)

(* The threads of the pool and the loop of the matcher run, time passes,   *)
(* and a thread that stored an item goes on to fire its event.  Nothing is *)
(* assumed of the clients.                                                 *)
Fairness ==
  /\ WF_vars(Tick) /\ WF_vars(DoReg \/ DoProcess)
  /\ \A i \in Item : WF_vars(FireWriteEvent(i))
  /\ \A g \in Get : /\ WF_vars(Geth(g)) /\ WF_vars(HandleNoResults(g) \/ RegGroup(g))
                    /\ WF_vars(TimeoutCb(g))

Spec == Init /\ [][Next]_vars /\ Fairness

-----------------------------------------------------------------------------
(* Properties.                                                             *)

Registrations(g) ==
  Cardinality({k \in DOMAIN que : que[k].type = "REG" /\ que[k].get = g})
  + IF g \in table THEN 1 ELSE 0

(* The context of a get is in one place: a task of the pool, a thread, a   *)
(* registration, or the answer.  So it is answered once, and nobody uses   *)
(* it after the answer has freed it, although both a match and a timeout   *)
(* hand it to the pool.                                                    *)
ContextInOnePlace ==
  \A g \in Get :
    db[g] + (IF thread[g] = "none" THEN 0 ELSE 1) + Registrations(g) + Len(answer[g]) <= 1

(* Registered for ever: the clock passed expire_time between the two looks *)
(* at it, and the difference is OEC_FOREVER.                               *)
Endless(g) == g \in table /\ timer[g] = FOREVER

(* Every get is answered, except when its duration became OEC_FOREVER.     *)
GetAnswered == \A g \in Get : Asked(g) ~> answer[g] # <<>> \/ Endless(g)

(* A get that has yet to search again, in the pool or in the matcher, does *)
(* not miss an item that is there and stays there: an event that came      *)
(* before its registration, or that woke a take instead, is made good by   *)
(* the search at its timeout.                                              *)
ItemThereIsFound ==
  \A g \in Get, i \in Item :
    (/\ <<g, i>> \in Match /\ item[i] = "free"
     /\ db[g] + Registrations(g) > 0)
    ~> \/ answer[g] \in {<<"found">>, <<"error">>} \/ item[i] # "free" \/ Endless(g)
=============================================================================
