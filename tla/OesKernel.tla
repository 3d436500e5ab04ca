----------------------------- MODULE OesKernel -----------------------------
(***************************************************************************)
(* The scripting interface over a remote kernel: corelib/OesKernel_impl.c  *)
(* and the methods of modules/scripting/swig/OeScript.i on one script      *)
(* thread, the promise callbacks on the loop thread of the client          *)
(* (OepClient), and futures and latches (OecFuture) between the two.       *)
(*                                                                         *)
(* The script connects, begins a transaction, writes, takes and reads in   *)
(* it or outside it, commits or rolls back, cancels and drops leases and   *)
(* runs JSON commands, in any order the interface allows.  What the server *)
(* does is external: it answers in any order, ok or with an error, and     *)
(* accepts a commit when the number of enlisted items given with it is     *)
(* right.                                                                  *)
(***************************************************************************)
EXTENDS OepClient, OecFuture

CONSTANTS
  Put,         \* the writes of the script
  Take,        \* its takes
  Reads,       \* its reads
  Exec,        \* its JSON commands
  NoOp,
  MaxOps,      \* how many operations and cancels it starts, and commits again
  MaxUpt,      \* how many times it commits or rolls back
  MaxResults   \* the results of a get

Op == Put \cup Take \cup Reads \cup Exec

ASSUME ScriptAssumption ==
  /\ NoOp \notin Op /\ {"con", "txn"} \cap Op = {} /\ IsFiniteSet(Op)
  /\ MaxOps \in Nat /\ MaxUpt \in Nat /\ MaxResults \in Nat /\ MaxParts \in Nat

VARIABLES
  pc,         \* where the script thread is
  now,        \* the operation it is in
  used,       \* operations it has started, and the cancels of leases
  fut,        \* the future of each operation, of the connect and of the transaction
  currentTxn, \* the kernel has a current transaction
  status,     \* of the transaction
  enlisted,   \* its latch: operations that are out
  enlisted_counter, \* its latch: items enlisted
  intxn,      \* operations with the transaction's id
  upts,       \* commits and rollbacks sent
  expected,   \* the number of items sent with the last one
  thrown,     \* the script was told that the transaction is not active
  step,       \* of the callback that runs
  left,       \* results it still has to count
  srv,        \* the transaction at the server
  items,      \* items enlisted in it
  failed,     \* writes the server has refused
  early       \* a commit's number was read within a callback's update

scriptVars == <<pc, now, used, currentTxn, intxn, upts, expected, thrown, early>>
txnVars == <<status, enlisted, enlisted_counter>>
cbVars == <<step, left>>
srvVars == <<srv, items, failed>>
vars == <<clientVars, scriptVars, txnVars, cbVars, srvVars, fut>>

FutureOf(c) == IF c.cmd = "CON" THEN "con" ELSE IF c.cmd \in {"STA", "UPT"} THEN "txn" ELSE c.op

Init ==
  /\ ClientInit
  /\ pc = "start" /\ now = NoOp /\ used = {}
  /\ fut = [x \in Op \cup {"con", "txn"} |-> NoFuture]
  /\ currentTxn = FALSE /\ status = "none"
  /\ enlisted = LatchNew /\ enlisted_counter = LatchNew
  /\ intxn = {} /\ upts = 0 /\ expected = 0 /\ thrown = FALSE /\ early = FALSE
  /\ step = "start" /\ left = 0
  /\ srv = "none" /\ items = 0 /\ failed = {}

(* What a step of the script leaves alone of the client, whether or not it *)
(* sends a command.                                                        *)
ClientKept == UNCHANGED <<cbs, reading, crashed, netVars, tableVars, cbVars, srvVars>>
Quiet == UNCHANGED <<state, exec_que>> /\ ClientKept
Sends(c) == Send(c) /\ UNCHANGED state /\ ClientKept

Idle == pc = "idle" /\ ~crashed
Starts(x) ==
  /\ Cardinality(used) + (IF upts > 1 THEN upts - 1 ELSE 0) < MaxOps
  /\ x \notin used
  /\ used' = used \cup {x}

-----------------------------------------------------------------------------
(* OepClient_connect.                                                      *)

Connect ==
  /\ pc = "start"
  /\ pc' = "connect"
  /\ fut' = [fut EXCEPT !["con"] = FutureNew]
  /\ Sends(Call("CON", NoOp))
  /\ UNCHANGED <<now, used, currentTxn, intxn, upts, expected, thrown, early, txnVars>>

Connected ==
  /\ pc = "connect" /\ ~crashed
  /\ fut["con"].done
  /\ fut' = [fut EXCEPT !["con"] = FutureFree(@)]
  /\ IF fut["con"].value = "res"
       THEN pc' = "idle" /\ state' = state \cup {"CONNECTED"}
       ELSE pc' = "refused" /\ UNCHANGED state
  /\ UNCHANGED exec_que /\ ClientKept
  /\ UNCHANGED <<now, used, currentTxn, intxn, upts, expected, thrown, early, txnVars>>

-----------------------------------------------------------------------------
(* OesKernel_impl_begin.  The holder is not cleared: until the answer its  *)
(* status is whatever the memory held.                                     *)
Begin ==
  /\ Idle /\ status = "none"
  /\ currentTxn' = TRUE
  /\ fut' = [fut EXCEPT !["txn"] = FutureNew]
  /\ status' \in {"ACTIVE", "other"}
  /\ Sends(Call("STA", NoOp))
  /\ UNCHANGED <<pc, now, used, intxn, upts, expected, thrown, early,
                 enlisted, enlisted_counter>>

CmdOf(op) == IF op \in Put THEN "PUT" ELSE IF op \in Take THEN "TAKE" ELSE "READ"

(* OesKernel_impl_write and _oes_get: outside a transaction the command is *)
(* sent; in one, the script first waits for the begin's answer.            *)
Operation(op) ==
  /\ Idle /\ op \in Put \cup Take \cup Reads /\ Starts(op)
  /\ fut' = [fut EXCEPT ![op] = FutureNew]
  /\ IF currentTxn
       THEN pc' = "enlist" /\ now' = op /\ Quiet
       ELSE Sends(Call(CmdOf(op), op)) /\ UNCHANGED <<pc, now>>
  /\ UNCHANGED <<currentTxn, intxn, upts, expected, thrown, early, txnVars>>

(* A read enlists nothing.                                                 *)
Enlist(op) == IF op \in Put \cup Take THEN LatchIncrement(enlisted) ELSE enlisted

(* Mutant: the begin's answer is not waited for.                           *)
TxnBegunAnyway == fut["txn"].mem = "live"

(* Oec_Future_getid on the transaction's future.                           *)
TxnBegun == fut["txn"].done

Enlisted ==
  /\ pc = "enlist" /\ TxnBegun /\ ~crashed
  /\ pc' = "idle" /\ now' = NoOp
  /\ enlisted' = Enlist(now)
  /\ intxn' = intxn \cup {now}
  /\ Sends(Call(CmdOf(now), now))
  /\ UNCHANGED <<used, currentTxn, upts, expected, thrown, early,
                 status, enlisted_counter, fut>>

(* OesJsonKernel.exec: text that is not a command is dropped, and its      *)
(* future is never set.                                                    *)
JsonExec(op) ==
  /\ Idle /\ op \in Exec /\ Starts(op)
  /\ fut' = [fut EXCEPT ![op] = FutureNew]
  /\ Sends(Call("EXEC", op)) \/ Quiet
  /\ UNCHANGED <<pc, now, currentTxn, intxn, upts, expected, thrown, early, txnVars>>

(* ~OesFuture does not wait.                                               *)
FutureDropped(op) ==
  /\ Idle /\ op \in Exec \cap used /\ ~fut[op].freed
  /\ fut' = [fut EXCEPT ![op] = FutureFree(@)]
  /\ Quiet
  /\ UNCHANGED <<scriptVars, txnVars>>

(* OesLease.cancel and OesKernel_impl_upl_cancel: once the lease's last    *)
(* command is answered, its future is replaced.  It is cancelled once.     *)
LeaseCancelled(op) ==
  /\ Idle /\ op \in Put \cap used /\ fut[op].done /\ fut[op].mem = "live"
  /\ Starts(Call("UPL", op))
  /\ fut' = [fut EXCEPT ![op] = FutureNew]
  /\ Sends(Call("UPL", op))
  /\ UNCHANGED <<pc, now, currentTxn, intxn, upts, expected, thrown, early, txnVars>>

(* ~OesLease waits.                                                        *)
LeaseDropped(op) ==
  /\ Idle /\ op \in Put \cap used /\ fut[op].done /\ fut[op].mem = "live"
  /\ fut' = [fut EXCEPT ![op] = FutureFree(@)]
  /\ Quiet
  /\ UNCHANGED <<scriptVars, txnVars>>

-----------------------------------------------------------------------------
(* _oes_upt_txn, from commit or rollback.                                  *)

(* The status is looked at first, before the begin's answer is waited for; *)
(* throw_exception only takes a note of the error and the call goes on.    *)
CheckStatus ==
  /\ Idle /\ status # "none" /\ upts < MaxUpt /\ Cardinality(used) + upts <= MaxOps
  /\ pc' = "upt"
  /\ thrown' = (status # "ACTIVE")
  /\ upts' = upts + 1
  /\ Quiet
  /\ UNCHANGED <<now, used, currentTxn, intxn, expected, early, txnVars, fut>>

(* Wait for the transaction's last command; its future is replaced.        *)
WaitForTxn ==
  /\ pc = "upt" /\ fut["txn"].done /\ ~crashed
  /\ pc' = "latch"
  /\ fut' = [fut EXCEPT !["txn"] = FutureNew]
  /\ Quiet
  /\ UNCHANGED <<now, used, currentTxn, intxn, upts, expected, thrown, early, txnVars>>

(* Mutant: no wait for the operations that are out.                        *)
LatchOpenAlways == TRUE

(* Oec_CountdownLatch_get.                                                 *)
LatchOpen == enlisted.count = 0

WaitForLatch ==
  /\ pc = "latch" /\ LatchOpen /\ ~crashed
  /\ pc' = "count"
  /\ currentTxn' = FALSE
  /\ Quiet
  /\ UNCHANGED <<now, used, intxn, upts, expected, thrown, early, txnVars, fut>>

(* -1 asks the store not to compare.                                       *)
SendUpt ==
  /\ pc = "count" /\ ~crashed
  /\ pc' = "idle"
  /\ LET e == enlisted_counter.max_count IN expected' = IF e > 0 THEN e ELSE -1
  /\ early' = (early \/ left > 0)
  /\ \E s \in {"C", "R"} : Sends(Call("UPT", <<upts, s>>))
  /\ UNCHANGED <<now, used, currentTxn, intxn, upts, thrown, txnVars, fut>>

-----------------------------------------------------------------------------
(* The promise callbacks, on the loop thread.  A latch or a future is      *)
(* updated under its lock, so the script may run between two of them.      *)

Running == cbs # <<>> /\ ~crashed

Counted(c) == c.cmd \in {"PUT", "TAKE"} /\ c.op \in intxn

(* Mutant: a refused write is not counted.                                 *)
ItemsOfOk(m) == IF m.call.cmd = "PUT" THEN IF m.ok THEN 1 ELSE 0 ELSE m.n

(* A write counts for one, refused or not; a take for its results.         *)
ItemsOf(m) == IF m.call.cmd = "PUT" THEN 1 ELSE m.n

(* _oes_put_promise_cb and _oes_get_promise_cb: the operation is no longer *)
(* out, and then its items are counted one by one.                         *)
CbDecrement ==
  /\ Running /\ step = "start" /\ Counted(Head(cbs).call)
  /\ enlisted' = LatchDecrement(enlisted)
  /\ left' = ItemsOf(Head(cbs))
  /\ step' = "count"
  /\ UNCHANGED <<clientVars, scriptVars, srvVars, fut, status, enlisted_counter>>

CbIncrement ==
  /\ Running /\ step = "count" /\ left > 0
  /\ enlisted_counter' = LatchIncrement(enlisted_counter)
  /\ left' = left - 1
  /\ UNCHANGED <<clientVars, scriptVars, srvVars, fut, status, enlisted, step>>

(* _oes_begin_promise_cb and _oes_upt_promise_cb: the status.              *)
CbStatus ==
  /\ Running /\ step = "start" /\ Head(cbs).call.cmd \in {"STA", "UPT"}
  /\ LET m == Head(cbs) IN
     status' = IF ~m.ok THEN status
               ELSE IF m.call.cmd = "STA" THEN "ACTIVE"
               ELSE IF m.call.op[2] = "C" THEN "COMMITTED" ELSE "ROLLEDBACK"
  /\ step' = "count"
  /\ UNCHANGED <<clientVars, scriptVars, srvVars, fut, enlisted, enlisted_counter, left>>

(* Every callback ends by setting the future: with the answer for _con_cb  *)
(* and the JSON text, with nothing for the others.                         *)
CbSet ==
  /\ Running
  /\ LET m == Head(cbs)
         v == IF m.call.cmd \notin {"CON", "EXEC"} THEN "null" ELSE IF m.ok THEN "res" ELSE "err" IN
     /\ \/ step = "count" /\ left = 0
        \/ ~Counted(m.call) /\ m.call.cmd \notin {"STA", "UPT"}
     /\ fut' = [fut EXCEPT ![FutureOf(m.call)] = FutureSet(@, v)]
  /\ cbs' = Tail(cbs)
  /\ step' = "start"
  /\ UNCHANGED <<state, exec_que, reading, crashed, netVars, tableVars,
                 scriptVars, srvVars, txnVars, left>>

Callback == CbDecrement \/ CbIncrement \/ CbStatus \/ CbSet

-----------------------------------------------------------------------------
(* The server (external): a transaction is open from its begin to its      *)
(* commit or rollback, and a commit has to give the right number of items. *)

NumberRight == expected \in {-1, items}

ServerDoes(c, ok, n) ==
  CASE c.cmd = "STA" /\ ok -> srv' = "open" /\ UNCHANGED <<items, failed>>
    [] c.cmd = "UPT" /\ ok ->
         /\ srv = "open" /\ (c.op[2] = "C" => NumberRight)
         /\ srv' = c.op[2] /\ UNCHANGED <<items, failed>>
    [] c.cmd \in {"PUT", "TAKE"} /\ ok /\ c.op \in intxn ->
         /\ srv \in {"open", "none"}
         /\ items' = IF srv = "open" THEN items + n ELSE items
         /\ UNCHANGED <<srv, failed>>
    [] c.cmd = "PUT" /\ ~ok -> failed' = failed \cup {c.op} /\ UNCHANGED <<srv, items>>
    [] OTHER -> UNCHANGED srvVars

Server ==
  \E c \in server, ok \in BOOLEAN :
    \E n \in IF ~ok THEN {0} ELSE IF c.cmd \in {"TAKE", "READ"} THEN 0 .. MaxResults ELSE {1} :
      /\ ServerAnswers(c, ok, n)
      /\ ServerDoes(c, ok, n)
      /\ UNCHANGED <<scriptVars, txnVars, cbVars, fut>>

Script ==
  \/ Connect \/ Connected \/ Begin \/ Enlisted
  \/ CheckStatus \/ WaitForTxn \/ WaitForLatch \/ SendUpt
  \/ \E op \in Op : \/ Operation(op) \/ JsonExec(op) \/ FutureDropped(op)
                    \/ LeaseCancelled(op) \/ LeaseDropped(op)

ClientStep(A) == A /\ UNCHANGED <<scriptVars, txnVars, cbVars, srvVars, fut>>

Next ==
  \/ Script \/ Callback \/ Server
  \/ ClientStep(WriteToServerCb) \/ ClientStep(PartArrives) \/ ClientStep(ConnectionGoes)
  \/ ClientStep(BufferedOnError) \/ ClientStep(ReadAnswer) \/ ClientStep(ReadPart)

(* The loop thread runs, and the server answers as long as the connection  *)
(* is up.  The script is free to stop.                                     *)
Fairness ==
  /\ WF_vars(Callback \/ ClientStep(LoopGoesOn))
  /\ WF_vars(Server)

Spec == Init /\ [][Next]_vars /\ Fairness

-----------------------------------------------------------------------------
(* Properties.                                                             *)

AllCalls ==
  {Call("CON", NoOp), Call("STA", NoOp)}
    \cup {Call("UPT", <<k, s>>) : k \in 1 .. MaxUpt, s \in {"C", "R"}}
    \cup {Call(CmdOf(op), op) : op \in Put \cup Take \cup Reads}
    \cup {Call("UPL", op) : op \in Put} \cup {Call("EXEC", op) : op \in Exec}

(* Calls that are out: queued, in the table, or in a callback.             *)
Out == Range(exec_que) \cup pending \cup {cbs[k].call : k \in DOMAIN cbs}

(* Types, and the values the latches, the queues and the flags take.       *)
TypeOK ==
  /\ state \subseteq {"CONNECTED", "CLOSING"} /\ task_count \in Int /\ task_count <= 0
  /\ idset \in BOOLEAN /\ table \in {"live", "freed"} /\ (table = "freed" <=> ~idset)
  /\ Out \cup server \subseteq AllCalls
  /\ pc \in {"start", "connect", "refused", "idle", "enlist", "upt", "latch", "count"}
  /\ now \in Op \cup {NoOp}
  /\ fut \in [Op \cup {"con", "txn"} -> Future]
  /\ status \in {"none", "other", "ACTIVE", "COMMITTED", "ROLLEDBACK"}
  /\ enlisted \in Latch /\ enlisted.count \in 0 .. Cardinality(Put \cup Take)
  /\ enlisted_counter \in Latch /\ enlisted_counter.count = enlisted_counter.max_count
  /\ intxn \subseteq Op /\ failed \subseteq Put
  /\ upts \in 0 .. MaxUpt /\ left \in Nat /\ items \in Nat

(* As long as a command is out, the future its callback will set is        *)
(* allocated and not done: the setter finds the object it was given and    *)
(* the assertion of _future_set holds, whether or not the script has       *)
(* cancelled, replaced or dropped futures in between.                      *)
FutureAwaitsAnswer ==
  \A c \in Out : fut[FutureOf(c)].mem = "live" /\ ~fut[FutureOf(c)].done

(* When a commit or a rollback is on its way, no write or take of the      *)
(* transaction is out any more (_oes_upt_txn waits for the latch).         *)
UptComesLast ==
  (\E c \in Out : c.cmd = "UPT")
    => ~\E c \in Range(exec_que) \cup pending : Counted(c)

(* A transaction the server commits has every write of the script: one     *)
(* that the server refused makes the number of items wrong and the commit  *)
(* fails.  This holds unless the number was read while the last callback   *)
(* was between its two latches (lines 76 and 77 of OesKernel_impl.c).      *)
CommitIsWhole == srv = "C" /\ ~early => failed \cap intxn = {}

(* The script is told that a transaction is not active only if its begin   *)
(* failed, if it was ended before, or if nothing was done in it (then the  *)
(* begin's answer was not waited for, and the status is not yet set).      *)
ThrownWithCause == thrown => status # "ACTIVE" \/ upts > 1 \/ intxn = {}

(* A command that is out is answered, and its future set, unless the       *)
(* connection is lost or the process ends in an assertion.                 *)
CallsAreAnswered == Out # {} ~> Out = {} \/ conn # "up" \/ crashed

(* Callers are told when the connection goes ("a pending task must         *)
(* complete, the state is closing so cleanup should get called again",     *)
(* OeLibevent2Factory.c).                                                  *)
LostCallsAreTold == Out # {} ~> Out = {} \/ crashed

=============================================================================
