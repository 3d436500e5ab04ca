-------------------------- MODULE OesKernel_proofs --------------------------
(***************************************************************************)
(* Proofs about the scripting interface, its futures and latches and the   *)
(* table of calls of the client, for any operations of the script and any  *)
(* answers of the server.                                                  *)
(*                                                                         *)
(* The inductive invariant has five parts: the types; that at most one     *)
(* call is out for a future, and that the future waits for it (Waiting);   *)
(* that the latch counts the calls of the transaction that are out, and    *)
(* that none is once the transaction is sealed (Sealing); that every       *)
(* answer on its way has its context in the table, and that a write is     *)
(* refused once (Mail and Refused); and that the items the server has      *)
(* enlisted, and the writes it has refused, are those counted or still to  *)
(* be counted by the callbacks (Counting).                                 *)
(*                                                                         *)
(* The facts about the sizes of sets that they rest on are hypotheses      *)
(* (SetFacts, SizeFacts) until the end, where the library proves them.     *)
(***************************************************************************)
EXTENDS OesKernel, TLAPS

(* A leaf is proved by SMT unless it names another prover; the module is   *)
(* long, so the provers are given more time than they need.                *)
USE SMTT(30)

Name == Op \cup {"con", "txn"}
AllAnswers == [call : AllCalls, ok : BOOLEAN, n : Nat]

(* The calls in the queue of the loop, and the one whose callback runs.    *)
Queued == Range(exec_que)
InCb == {cbs[k].call : k \in DOMAIN cbs}

(* Nothing is out for a future.                                            *)
NotOut(x) == \A c \in Out : FutureOf(c) # x

-----------------------------------------------------------------------------
(* Types.                                                                  *)

ClientTypes ==
  /\ state \subseteq {"CONNECTED", "CLOSING"}
  /\ idset \in BOOLEAN /\ table \in {"live", "freed"} /\ (table = "freed" <=> ~idset)
  /\ task_count \in Int /\ task_count <= 0 /\ (task_count = 0 => pending = {})
  /\ exec_que \in Seq(AllCalls)
  /\ pending \subseteq AllCalls /\ res_msgs \in [pending -> Nat]
  /\ cbs \in Seq(AllAnswers) /\ Len(cbs) <= 1
  /\ server \subseteq AllCalls /\ inbuf \in Seq(AllAnswers)
  /\ part \in Nat /\ crashed \in BOOLEAN

ScriptTypes ==
  /\ pc \in {"start", "connect", "refused", "idle", "enlist", "upt", "latch", "count"}
  /\ now \in Op \cup {NoOp}
  /\ pc = "enlist" => now \in (Put \cup Take \cup Reads) \cap used
  /\ pc \in {"upt", "latch", "count"} => upts > 0
  /\ intxn \subseteq Op \cap used
  /\ upts \in 0 .. MaxUpt /\ expected \in Int
  /\ thrown \in BOOLEAN /\ early \in BOOLEAN /\ currentTxn \in BOOLEAN

TxnTypes ==
  /\ fut \in [Name -> Future]
  /\ status \in {"none", "other", "ACTIVE", "COMMITTED", "ROLLEDBACK"}
  /\ enlisted \in Latch
  /\ enlisted_counter \in Latch /\ enlisted_counter.max_count \in Nat
  /\ enlisted_counter.count = enlisted_counter.max_count
  /\ step \in {"start", "count"} /\ left \in Nat
  /\ failed \subseteq Put /\ items \in Nat

Types == ClientTypes /\ ScriptTypes /\ TxnTypes

(* Every call is of one of these kinds.                                    *)
LEMMA CallKinds ==
  ASSUME NEW c \in AllCalls
  PROVE  \/ c = Call("CON", NoOp) \/ c = Call("STA", NoOp)
         \/ \E k \in 1 .. MaxUpt, s \in {"C", "R"} : c = Call("UPT", <<k, s>>)
         \/ \E op \in Put : c = Call("PUT", op) \/ c = Call("UPL", op)
         \/ \E op \in Take : c = Call("TAKE", op)
         \/ \E op \in Reads : c = Call("READ", op)
         \/ \E op \in Exec : c = Call("EXEC", op)
<1>1. CASE \E op \in Put \cup Take \cup Reads : c = Call(CmdOf(op), op)
  BY <1>1, Zenon DEF CmdOf
<1>2. CASE \E k \in 1 .. MaxUpt, s \in {"C", "R"} : c = Call("UPT", <<k, s>>)
  BY <1>2, Zenon
<1> QED
  BY <1>1, <1>2 DEF AllCalls

(* A call has a future, and only a call of the operation has its name.     *)
LEMMA CallFuture ==
  ASSUME NEW c \in AllCalls
  PROVE  /\ FutureOf(c) \in Name
         /\ FutureOf(c) = "con" <=> c = Call("CON", NoOp)
         /\ FutureOf(c) = "txn" <=> c.cmd \in {"STA", "UPT"}
         /\ c.cmd \notin {"CON", "STA", "UPT"} => FutureOf(c) = c.op /\ c.op \in Op
BY ScriptAssumption, CallKinds DEF Call, FutureOf, Name, Op

(* The calls the script makes.                                             *)
LEMMA CallsMade ==
  /\ Call("CON", NoOp) \in AllCalls /\ Call("STA", NoOp) \in AllCalls
  /\ \A k \in 1 .. MaxUpt, s \in {"C", "R"} : Call("UPT", <<k, s>>) \in AllCalls
  /\ \A op \in Put \cup Take \cup Reads : Call(CmdOf(op), op) \in AllCalls
  /\ \A op \in Put : Call("UPL", op) \in AllCalls
  /\ \A op \in Exec : Call("EXEC", op) \in AllCalls
<1>1. \A k \in 1 .. MaxUpt, s \in {"C", "R"} : Call("UPT", <<k, s>>) \in AllCalls
  BY DEF AllCalls
<1>2. \A op \in Put \cup Take \cup Reads : Call(CmdOf(op), op) \in AllCalls
  BY DEF AllCalls
<1>3. \A op \in Put : Call("UPL", op) \in AllCalls
  BY DEF AllCalls
<1>4. \A op \in Exec : Call("EXEC", op) \in AllCalls
  BY DEF AllCalls
<1>5. Call("CON", NoOp) \in AllCalls /\ Call("STA", NoOp) \in AllCalls
  BY DEF AllCalls
<1> QED
  BY <1>1, <1>2, <1>3, <1>4, <1>5, Zenon

(* What makes and changes a future gives a future.                         *)
LEMMA FutureType ==
  /\ NoFuture \in Future /\ FutureNew \in Future
  /\ \A f \in Future : FutureFree(f) \in Future
  /\ \A f \in Future, v \in Value : FutureSet(f, v) \in Future
BY Zenon DEF Future, NoFuture, FutureNew, FutureFree, FutureSet, Value

(* What is out, by where it is.                                            *)
LEMMA OutParts == Out = Queued \cup pending \cup InCb
BY Zenon DEF Out, Queued, InCb

(* The table is empty when the client cleans up, so no callback is called. *)
LEMMA CleanupOfNothing ==
  ASSUME pending = {}, Cleanup
  PROVE  cbs' = <<>> /\ pending' = {} /\ table' = "freed" /\ res_msgs' \in [{} -> Nat]
<1>1. PICK closed \in Injection(1 .. (Cardinality(pending) + 1) \div 2, pending) :
        /\ cbs' = [k \in DOMAIN closed |-> Answer(closed[k], FALSE, 0)]
        /\ pending' = pending \ Range(closed)
  BY Zenon DEF Cleanup
<1>2. DOMAIN closed = {} /\ Range(closed) = {}
  BY Zenon DEF Injection, Range
<1>3. cbs' = [k \in 1 .. 0 |-> Answer(closed[k], FALSE, 0)]
  BY <1>1, <1>2
<1>4. cbs' = <<>>
  BY <1>3
<1>5. pending' = {}
  BY <1>1, Zenon
<1>6. res_msgs' \in [{} -> Nat]
  BY <1>5, Zenon DEF Cleanup, Restrict
<1> QED
  BY <1>4, <1>5, <1>6, Zenon DEF Cleanup

(* The names of the futures.                                               *)
LEMMA Names == "con" \in Name /\ "txn" \in Name /\ Op \subseteq Name
BY Zenon DEF Name

(* They hold at the start.                                                 *)
LEMMA InitTypes == Init => Types
<1> SUFFICES ASSUME Init PROVE Types
  BY Zenon
<1>1. ClientTypes
  <2>1. pending = {}
    BY Zenon DEF Init, ClientInit
  <2>2. exec_que = <<>> /\ cbs = <<>> /\ inbuf = <<>>
    BY Zenon DEF Init, ClientInit
  <2>3. exec_que \in Seq(AllCalls) /\ cbs \in Seq(AllAnswers) /\ inbuf \in Seq(AllAnswers)
        /\ Len(cbs) <= 1
    BY <2>2
  <2>7. res_msgs \in [pending -> Nat]
    BY <2>1 DEF Init, ClientInit
  <2>4. idset = TRUE /\ table = "live" /\ crashed = FALSE
    BY Zenon DEF Init, ClientInit
  <2>5. idset \in BOOLEAN /\ (table = "freed" <=> ~idset) /\ crashed \in BOOLEAN
    BY <2>4, Zenon
  <2>6. state = {} /\ task_count = 0 /\ server = {} /\ part = 0
    BY Zenon DEF Init, ClientInit
  <2> QED
    BY <2>1, <2>3, <2>4, <2>5, <2>6, <2>7 DEF ClientTypes
<1>2. ScriptTypes
  <2>1. intxn = {}
    BY Zenon DEF Init
  <2>2. thrown \in BOOLEAN /\ early \in BOOLEAN /\ currentTxn \in BOOLEAN
    BY Zenon DEF Init
  <2>3. pc = "start" /\ now = NoOp /\ upts = 0 /\ expected = 0
    BY Zenon DEF Init
  <2> QED
    BY <2>1, <2>2, <2>3, ScriptAssumption DEF ScriptTypes
<1>3. TxnTypes
  BY FutureType DEF Init, TxnTypes, Name, LatchNew, Latch
<1> QED
  BY <1>1, <1>2, <1>3, Zenon DEF Types

(* Every step keeps the types.                                             *)
LEMMA NextTypes == Types /\ [Next]_vars => Types'
(* A step of the script leaves the types of the client in order.           *)
<1>KeptTypes. ASSUME ClientTypes, ClientKept, exec_que' \in Seq(AllCalls),
                     state' \subseteq {"CONNECTED", "CLOSING"}
              PROVE  ClientTypes'
  BY <1>KeptTypes, Zenon DEF ClientKept, netVars, tableVars, ClientTypes
(* So does a step that sends a call, and one that sends none.              *)
<1>SendTypes. ASSUME ClientTypes, Quiet \/ \E c \in AllCalls : Sends(c)
              PROVE  ClientTypes'
  <2> USE <1>SendTypes
  <2>1. ClientKept /\ state' = state
    BY Zenon DEF Quiet, Sends
  <2>2. exec_que' \in Seq(AllCalls)
    <3>1. CASE Quiet
      BY <3>1, Zenon DEF Quiet, ClientTypes
    <3>2. ASSUME NEW c \in AllCalls, Sends(c) PROVE exec_que' \in Seq(AllCalls)
      BY <3>2 DEF Sends, Send, ClientTypes
    <3> QED
      BY <3>1, <3>2, Zenon
  <2> QED
    BY <2>1, <2>2, <1>KeptTypes, Zenon DEF ClientTypes
(* The types of the client, for the steps of its loop.                     *)
<1>LoopTypes. ASSUME ClientTypes,
                     \/ WriteToServerCb \/ PartArrives \/ ConnectionGoes
                     \/ BufferedOnError \/ ReadAnswer \/ ReadPart
              PROVE  ClientTypes'
  <2> USE <1>LoopTypes
  <2>1. CASE WriteToServerCb
    <3>1. exec_que # <<>> /\ exec_que' = Tail(exec_que)
          /\ UNCHANGED <<state, cbs, idset, table, inbuf, part>>
      BY <2>1, Zenon DEF WriteToServerCb
    <3>2. Head(exec_que) \in AllCalls /\ exec_que' \in Seq(AllCalls)
      BY <3>1 DEF ClientTypes
    <3>3. \/ crashed' = TRUE /\ UNCHANGED <<pending, res_msgs, task_count, server>>
          \/ /\ pending' = pending \cup {Head(exec_que)} /\ task_count' = task_count - 1
             /\ res_msgs' = [d \in pending' |-> IF d = Head(exec_que) THEN 0 ELSE res_msgs[d]]
             /\ server' \in {server, server \cup {Head(exec_que)}} /\ crashed' = crashed
      BY <2>1, Zenon DEF WriteToServerCb
    <3>4. pending' \subseteq AllCalls /\ server' \subseteq AllCalls /\ crashed' \in BOOLEAN
      BY <3>2, <3>3, Zenon DEF ClientTypes
    <3>5. /\ task_count' \in Int /\ task_count' <= 0 /\ (task_count' = 0 => pending' = {})
          /\ res_msgs' \in [pending' -> Nat]
      BY <3>3 DEF ClientTypes
    <3> QED
      BY <3>1, <3>2, <3>4, <3>5, Zenon DEF ClientTypes
  <2>2. CASE PartArrives
    BY <2>2 DEF PartArrives, ClientTypes, tableVars
  <2>3. CASE ConnectionGoes
    BY <2>3, Zenon DEF ConnectionGoes, ClientTypes, tableVars
  <2>4. CASE BufferedOnError
    <3>1. state' = {"CLOSING"} /\ UNCHANGED <<exec_que, crashed, task_count, server, inbuf, part>>
          /\ cbs = <<>>
      BY <2>4, Zenon DEF BufferedOnError, Loop
    <3>2. CASE task_count # 0
      BY <2>4, <3>1, <3>2, Zenon DEF BufferedOnError, ClientTypes
    <3>3. CASE task_count = 0
      <4>1. idset' = FALSE /\ cbs' = <<>> /\ pending' = {} /\ table' = "freed"
            /\ res_msgs' \in [{} -> Nat]
        BY <2>4, <3>3, CleanupOfNothing, Zenon DEF BufferedOnError, ClientTypes
      <4>2. cbs' \in Seq(AllAnswers) /\ Len(cbs') <= 1
        BY <4>1
      <4> QED
        BY <3>1, <4>1, <4>2, Zenon DEF ClientTypes
    <3> QED
      BY <3>2, <3>3, Zenon
  <2>5. CASE ReadAnswer
    <3>1. inbuf # <<>> /\ inbuf' = Tail(inbuf)
          /\ UNCHANGED <<state, exec_que, task_count, idset, table, server, part>>
      BY <2>5, Zenon DEF ReadAnswer
    <3>2. Head(inbuf) \in AllAnswers /\ inbuf' \in Seq(AllAnswers)
      BY <3>1 DEF ClientTypes
    <3>3. \/ crashed' = TRUE /\ UNCHANGED <<cbs, pending, res_msgs>>
          \/ /\ crashed' = crashed /\ UNCHANGED <<cbs, pending>>
             /\ res_msgs' = [res_msgs EXCEPT ![Head(inbuf).call] = @ + 1]
          \/ /\ crashed' = crashed /\ cbs' = <<Head(inbuf)>> /\ pending' = pending \ {Head(inbuf).call}
             /\ res_msgs' = [d \in pending' |-> res_msgs[d]]
      BY <2>5, Zenon DEF ReadAnswer, RestoreContext, AppendResMsg, Restrict
    <3>4. pending' \subseteq pending
      BY <3>3, Zenon
    <3>5. cbs' \in Seq(AllAnswers) /\ Len(cbs') <= 1
      <4>1. CASE cbs' = cbs
        BY <4>1, Zenon DEF ClientTypes
      <4>2. CASE cbs' = <<Head(inbuf)>>
        BY <3>2, <4>2
      <4> QED
        BY <3>3, <4>1, <4>2, Zenon
    <3>6. res_msgs' \in [pending' -> Nat]
      BY <3>3, <3>4 DEF ClientTypes
    <3> QED
      BY <3>1, <3>2, <3>3, <3>4, <3>5, <3>6, Zenon DEF ClientTypes
  <2>6. CASE ReadPart
    <3>1. crashed' \in BOOLEAN
      <4>1. part \in Nat /\ crashed \in BOOLEAN
        BY Zenon DEF ClientTypes
      <4>2. PICK more \in BOOLEAN : more <=> part > 0
        BY Zenon
      <4>3. crashed' = crashed \/ crashed' = more
        BY <2>6, <4>1, <4>2 DEF ReadPart
      <4> QED
        BY <4>1, <4>2, <4>3, Zenon
    <3> QED
      BY <2>6, <3>1, Zenon DEF ReadPart, ClientTypes, tableVars
  <2> QED
    BY <2>1, <2>2, <2>3, <2>4, <2>5, <2>6, Zenon
(* The steps of the script that change neither the transaction's latches   *)
(* nor its status.                                                         *)
<1>TxnTypesKept. ASSUME TxnTypes, ClientKept, fut' \in [Name -> Future], UNCHANGED txnVars
                 PROVE  TxnTypes'
  BY <1>TxnTypesKept, Zenon DEF TxnTypes, ClientKept, cbVars, srvVars, txnVars
(* OepClient_connect and OesKernel_impl_begin keep the types.              *)
<1>ConnectTypes. ASSUME Types, Connect \/ Connected \/ Begin
                 PROVE  Types'
  <2> USE <1>ConnectTypes
  <2>1. fut \in [Name -> Future] /\ fut["con"] \in Future
    BY Names, Zenon DEF Types, TxnTypes
  <2>2. CASE Connect
    <3>1. ClientTypes'
      BY <2>2, <1>SendTypes, CallsMade, Zenon DEF Types, Connect
    <3>2. fut' \in [Name -> Future]
      BY <2>1, <2>2, FutureType, Zenon DEF Connect
    <3>3. TxnTypes'
      BY <2>2, <3>2, <1>TxnTypesKept, Zenon DEF Types, Connect, Sends
    <3>4. ScriptTypes'
      BY <2>2, Zenon DEF Types, Connect, ScriptTypes
    <3> QED
      BY <3>1, <3>3, <3>4, Zenon DEF Types
  <2>3. CASE Connected
    <3>1. ClientKept /\ exec_que' = exec_que /\ state' \in {state, state \cup {"CONNECTED"}}
      BY <2>3, Zenon DEF Connected
    <3>2. ClientTypes'
      BY <3>1, <1>KeptTypes, Zenon DEF Types, ClientTypes
    <3>3. fut' \in [Name -> Future]
      BY <2>1, <2>3, FutureType, Zenon DEF Connected
    <3>4. TxnTypes'
      BY <2>3, <3>1, <3>3, <1>TxnTypesKept, Zenon DEF Types, Connected
    <3>5. pc' \in {"idle", "refused"}
      BY <2>3, Zenon DEF Connected
    <3>6. ScriptTypes'
      BY <2>3, <3>5, Zenon DEF Types, Connected, ScriptTypes
    <3> QED
      BY <3>2, <3>4, <3>6, Zenon DEF Types
  <2>4. CASE Begin
    <3>1. ClientTypes'
      BY <2>4, <1>SendTypes, CallsMade, Zenon DEF Types, Begin
    <3>2. fut' \in [Name -> Future]
      BY <2>1, <2>4, FutureType, Zenon DEF Begin
    <3>3. TxnTypes'
      BY <2>4, <3>2, Zenon DEF Types, TxnTypes, Begin, Sends, ClientKept, cbVars, srvVars
    <3>4. ScriptTypes'
      BY <2>4, Zenon DEF Types, Begin, ScriptTypes
    <3> QED
      BY <3>1, <3>3, <3>4, Zenon DEF Types
  <2> QED
    BY <2>2, <2>3, <2>4, Zenon
(* The operations of the script, and its JSON commands.                    *)
<1>OperationTypes. ASSUME Types, NEW op \in Op, Operation(op) \/ JsonExec(op)
                   PROVE  Types'
  BY <1>OperationTypes, Names, FutureType, <1>TxnTypesKept, <1>SendTypes, CallsMade, Zenon DEF Types,
     TxnTypes, Operation, JsonExec,
   Quiet, Sends, Idle, Starts, ScriptTypes
(* Futures that are dropped, and leases that are cancelled or dropped.     *)
<1>DropTypes. ASSUME Types, NEW op \in Op,
                     FutureDropped(op) \/ LeaseCancelled(op) \/ LeaseDropped(op)
              PROVE  Types'
  BY <1>DropTypes, Names, FutureType, <1>TxnTypesKept, <1>SendTypes, CallsMade DEF Types, TxnTypes,
     FutureDropped,
   LeaseCancelled, LeaseDropped, Quiet, Sends, Starts, scriptVars, ScriptTypes
(* An operation that is enlisted, and the steps of _oes_upt_txn.           *)
<1>UptTypes. ASSUME Types, Enlisted \/ CheckStatus \/ WaitForTxn \/ WaitForLatch \/ SendUpt
             PROVE  Types'
  <2> USE <1>UptTypes
  <2>1. CASE Enlisted
    BY <2>1, <1>SendTypes, CallsMade DEF Enlisted, Types, ScriptTypes, Op, Enlist, LatchIncrement,
       Latch, TxnTypes, Sends, ClientKept, cbVars, srvVars
  <2>2. CASE CheckStatus
    BY <2>2, <1>SendTypes, <1>TxnTypesKept, ScriptAssumption DEF CheckStatus, Types, TxnTypes, Quiet,
       ScriptTypes
  <2>3. CASE WaitForTxn
    BY <2>3, Names, FutureType, <1>SendTypes, <1>TxnTypesKept, Zenon DEF WaitForTxn, Types, TxnTypes, Quiet,
       ScriptTypes
  <2>4. CASE WaitForLatch
    <3>1. Quiet /\ UNCHANGED <<now, used, intxn, upts, expected, thrown, early, txnVars, fut>>
          /\ pc = "latch" /\ pc' = "count" /\ currentTxn' = FALSE
      BY <2>4, Zenon DEF WaitForLatch
    <3>2. ClientTypes' /\ TxnTypes'
      BY <3>1, <1>SendTypes, <1>TxnTypesKept, Zenon DEF Types, TxnTypes, Quiet
    <3>3. ScriptTypes'
      BY <3>1, Zenon DEF Types, ScriptTypes
    <3> QED
      BY <3>2, <3>3, Zenon DEF Types
  <2>5. CASE SendUpt
    BY <2>5, CallsMade, <1>SendTypes, <1>TxnTypesKept DEF SendUpt, Types, ScriptTypes, Sends, TxnTypes
  <2> QED
    BY <2>1, <2>2, <2>3, <2>4, <2>5, Zenon
(* The promise callbacks.                                                  *)
<1>CallbackTypes. ASSUME Types, Callback
                  PROVE  Types'
  <2> USE <1>CallbackTypes
  <2>1. cbs # <<>> /\ Head(cbs) \in AllAnswers /\ Head(cbs).call \in AllCalls /\ Head(cbs).n \in Nat
    <3>1. cbs # <<>> /\ cbs \in Seq(AllAnswers)
      BY Zenon DEF Callback, CbDecrement, CbIncrement, CbStatus, CbSet, Running, Types, ClientTypes
    <3>2. Head(cbs) \in AllAnswers
      BY <3>1
    <3> QED
      BY <3>1, <3>2, Zenon DEF AllAnswers
  <2>2. ScriptTypes'
    BY Zenon DEF Callback, CbDecrement, CbIncrement, CbStatus, CbSet, scriptVars, Types, ScriptTypes
  <2>3. CASE CbDecrement
    <3>1. enlisted' \in Latch /\ left' \in Nat /\ step' = "count"
      BY <2>1, <2>3 DEF CbDecrement, LatchDecrement, Latch, ItemsOf, Types, TxnTypes
    <3>2. TxnTypes'
      BY <2>3, <3>1, Zenon DEF CbDecrement, srvVars, Types, TxnTypes
    <3>3. ClientTypes'
      BY <2>3, Zenon DEF CbDecrement, clientVars, netVars, tableVars, Types, ClientTypes
    <3> QED
      BY <2>2, <3>2, <3>3, Zenon DEF Types
  <2>4. CASE CbIncrement
    BY <2>2, <2>4 DEF CbIncrement, LatchIncrement, Latch, Types, TxnTypes, srvVars, clientVars,
       netVars, tableVars, ClientTypes
  <2>5. CASE CbStatus
    BY <2>2, <2>5, Zenon DEF CbStatus, srvVars, Types, TxnTypes, clientVars, netVars, tableVars, ClientTypes
  <2>6. CASE CbSet
    BY <2>1, <2>2, <2>6, CallFuture, FutureType DEF CbSet, Value, Types, TxnTypes, srvVars, txnVars,
       ClientTypes, netVars, tableVars
  <2> QED
    BY <2>3, <2>4, <2>5, <2>6, Zenon DEF Callback
(* The answers of the server.                                              *)
<1>ServerTypes. ASSUME Types, Server
                PROVE  Types'
  <2> USE <1>ServerTypes
  <2>1. PICK c \in server, ok \in BOOLEAN, n \in Nat :
          /\ ServerAnswers(c, ok, n) /\ ServerDoes(c, ok, n)
          /\ UNCHANGED <<scriptVars, txnVars, cbVars, fut>>
    BY ScriptAssumption DEF Server
  <2>2. c \in AllCalls /\ Answer(c, ok, n) \in AllAnswers
    BY Zenon DEF Types, ClientTypes, AllAnswers, Answer
  <2>3. inbuf' \in Seq(AllAnswers)
    BY <2>1, <2>2 DEF ServerAnswers, Types, ClientTypes
  <2>4. ClientTypes'
    BY <2>1, <2>3, Zenon DEF ServerAnswers, tableVars, Types, ClientTypes
  <2>5. ScriptTypes'
    BY <2>1, Zenon DEF scriptVars, Types, ScriptTypes
  <2>6. failed' \subseteq Put /\ items' \in Nat
    BY <2>1, <2>2, CallKinds DEF Call, ServerDoes, srvVars, Types, TxnTypes
  <2>7. TxnTypes'
    BY <2>1, <2>6, Zenon DEF txnVars, cbVars, Types, TxnTypes
  <2> QED
    BY <2>4, <2>5, <2>7, Zenon DEF Types
<1> SUFFICES ASSUME Types, [Next]_vars PROVE Types'
  BY Zenon
<1>1. CASE Script
  BY <1>1, <1>ConnectTypes, <1>OperationTypes, <1>DropTypes, <1>UptTypes, Zenon DEF Script
<1>2. CASE Callback
  BY <1>2, <1>CallbackTypes, Zenon
<1>3. CASE Server
  BY <1>3, <1>ServerTypes, Zenon
<1>4. ASSUME \/ ClientStep(WriteToServerCb) \/ ClientStep(PartArrives) \/ ClientStep(ConnectionGoes)
             \/ ClientStep(BufferedOnError) \/ ClientStep(ReadAnswer) \/ ClientStep(ReadPart)
      PROVE  Types'
  <2>1. ClientTypes'
    BY <1>4, <1>LoopTypes, Zenon DEF ClientStep, Types
  <2>2. UNCHANGED <<scriptVars, txnVars, cbVars, srvVars, fut>>
    BY <1>4, Zenon DEF ClientStep
  <2>3. ScriptTypes' /\ TxnTypes'
    BY <2>2 DEF scriptVars, txnVars, cbVars, srvVars, Types, ScriptTypes, TxnTypes
  <2> QED
    BY <2>1, <2>3, Zenon DEF Types
<1>5. CASE UNCHANGED vars
  <2>1. ClientTypes'
    BY <1>5, Zenon DEF vars, clientVars, netVars, tableVars, Types, ClientTypes
  <2>2. ScriptTypes' /\ TxnTypes'
    BY <1>5 DEF vars, scriptVars, txnVars, cbVars, srvVars, Types, ScriptTypes, TxnTypes
  <2> QED
    BY <2>1, <2>2, Zenon DEF Types
<1> QED
  BY <1>1, <1>2, <1>3, <1>4, <1>5, Zenon DEF Next

-----------------------------------------------------------------------------
(* Futures and the calls that will set them.                               *)

(* At most one call is out for a future.                                   *)
OneEach ==
  /\ \A i, j \in DOMAIN exec_que : FutureOf(exec_que[i]) = FutureOf(exec_que[j]) => i = j
  /\ \A c \in Queued, d \in pending \cup InCb : FutureOf(c) # FutureOf(d)
  /\ \A c, d \in pending : FutureOf(c) = FutureOf(d) => c = d
  /\ \A c \in pending, d \in InCb : FutureOf(c) # FutureOf(d)

(* A future that was made for a call that is still to be sent.             *)
Awaits(x) == fut[x].mem = "live" /\ ~fut[x].done /\ NotOut(x)

(* Before a future is used there is none, and while the script waits to    *)
(* send a call its future is there for it.                                 *)
Fresh ==
  /\ pc = "start" => fut["con"].mem = "none"
  /\ status = "none" => fut["txn"].mem = "none"
  /\ \A op \in Op \ used : fut[op].mem = "none"
  /\ pc \in {"upt", "latch", "count"} => status # "none"
  /\ pc = "enlist" => Awaits(now)
  /\ pc \in {"latch", "count"} => Awaits("txn")

Waiting == OneEach /\ FutureAwaitsAnswer /\ Fresh

(* What is out are calls.                                                  *)
LEMMA OutTypes ==
  ASSUME ClientTypes
  PROVE  /\ Queued \subseteq AllCalls /\ pending \subseteq AllCalls /\ InCb \subseteq AllCalls
         /\ Out \subseteq AllCalls /\ \A c \in Out : FutureOf(c) \in Name
<1>1. Queued \subseteq AllCalls
  BY DEF ClientTypes, Queued, Range
<1>2. InCb \subseteq AllCalls
  <2>1. ASSUME NEW k \in DOMAIN cbs PROVE cbs[k].call \in AllCalls
    <3>1. cbs[k] \in AllAnswers
      BY DEF ClientTypes
    <3> QED
      BY <3>1, Zenon DEF AllAnswers
  <2> QED
    BY <2>1, Zenon DEF InCb
<1>3. Out \subseteq AllCalls
  BY <1>1, <1>2, OutParts, Zenon DEF ClientTypes
<1> QED
  BY <1>1, <1>2, <1>3, CallFuture, Zenon DEF ClientTypes

(* A step of the script that sends nothing.                                *)
LEMMA QuietOut ==
  ASSUME ClientKept, exec_que' = exec_que
  PROVE  Queued' = Queued /\ pending' = pending /\ InCb' = InCb /\ Out' = Out
         /\ cbs' = cbs /\ (OneEach => OneEach')
BY OutParts DEF ClientKept, tableVars, Queued, InCb, Out, OneEach

(* A step of the script that sends a call.                                 *)
LEMMA SendOut ==
  ASSUME ClientTypes, NEW c \in AllCalls, Sends(c)
  PROVE  /\ exec_que' = Append(exec_que, c) /\ cbs' = cbs
         /\ Queued' = Queued \cup {c} /\ pending' = pending /\ InCb' = InCb
         /\ Out' = Out \cup {c}
<1>1. exec_que' = Append(exec_que, c) /\ pending' = pending /\ cbs' = cbs
      /\ exec_que \in Seq(AllCalls)
  BY Zenon DEF Sends, Send, ClientKept, tableVars, ClientTypes
<1>2. InCb' = InCb
  BY <1>1, Zenon DEF InCb
<1>3. Queued' = Queued \cup {c}
  BY <1>1 DEF Queued, Range
<1>4. Out' = Queued' \cup pending' \cup InCb'
  BY Zenon DEF Out, Queued, InCb
<1> QED
  BY <1>1, <1>2, <1>3, <1>4, OutParts, Zenon

(* The callback that runs is the only one.                                 *)
LEMMA TheCallback ==
  ASSUME ClientTypes, cbs # <<>>
  PROVE  /\ Head(cbs) \in AllAnswers /\ Head(cbs).call \in AllCalls /\ Head(cbs).n \in Nat
         /\ InCb = {Head(cbs).call} /\ Tail(cbs) = <<>> /\ Range(cbs) = {Head(cbs)}
<1>1. cbs \in Seq(AllAnswers) /\ Len(cbs) > 0
  BY DEF ClientTypes
<1>2. PICK len \in Nat : len = Len(cbs) /\ len <= 1 /\ len > 0
  BY <1>1 DEF ClientTypes
<1>3. Len(cbs) = 1
  BY <1>2
<1>4. DOMAIN cbs = {1} /\ Head(cbs) = cbs[1] /\ Head(cbs) \in AllAnswers
  BY <1>1, <1>3
<1>5. PICK rest \in Seq(AllAnswers) : rest = Tail(cbs)
  <2>1. Tail(cbs) \in Seq(AllAnswers)
    BY <1>1
  <2> QED
    BY <2>1, Zenon
<1>6. Len(rest) = 0
  BY <1>1, <1>3, <1>5
<1>9. Tail(cbs) = <<>>
  BY <1>5, <1>6
<1>7. Head(cbs).call \in AllCalls /\ Head(cbs).n \in Nat
  BY <1>4, Zenon DEF AllAnswers
<1>8. InCb = {Head(cbs).call} /\ Range(cbs) = {Head(cbs)}
  BY <1>4, Zenon DEF InCb, Range
<1> QED
  BY <1>4, <1>7, <1>8, <1>9, Zenon

(* No callback of the transaction runs before it is begun.                 *)
LEMMA CallbackOfTxn ==
  ASSUME Types, Waiting, cbs # <<>>, Head(cbs).call.cmd \in {"STA", "UPT"}
  PROVE  status # "none"
BY TheCallback, OutParts, CallFuture, Zenon DEF Types, Waiting, FutureAwaitsAnswer, Fresh

(* The first call of the queue, and the rest.                              *)
LEMMA QueueTail ==
  ASSUME ClientTypes, OneEach, exec_que # <<>>, exec_que' = Tail(exec_que)
  PROVE  /\ Head(exec_que) \in AllCalls /\ Queued = Queued' \cup {Head(exec_que)}
         /\ \A d \in Queued' : FutureOf(d) # FutureOf(Head(exec_que))
         /\ \A i, j \in DOMAIN exec_que' :
              FutureOf(exec_que'[i]) = FutureOf(exec_que'[j]) => i = j
<1>1. exec_que \in Seq(AllCalls) /\ Len(exec_que) > 0
  BY DEF ClientTypes
<1>2. /\ DOMAIN exec_que = 1 .. Len(exec_que) /\ DOMAIN exec_que' = 1 .. Len(exec_que) - 1
      /\ Head(exec_que) = exec_que[1] /\ Head(exec_que) \in AllCalls
      /\ \A i \in DOMAIN exec_que' : exec_que'[i] = exec_que[i + 1]
  BY <1>1
<1>3. \A i \in DOMAIN exec_que' : i + 1 \in DOMAIN exec_que /\ i + 1 # 1
  BY <1>1, <1>2
<1>4. \A i \in DOMAIN exec_que : i = 1 \/ (i - 1 \in DOMAIN exec_que' /\ exec_que'[i - 1] = exec_que[i])
  BY <1>1, <1>2
<1>5. Queued = {exec_que[i] : i \in DOMAIN exec_que} /\ Queued' = {exec_que'[i] : i \in DOMAIN exec_que'}
  BY Zenon DEF Queued, Range
<1>6. 1 \in DOMAIN exec_que
  BY <1>1, <1>2
<1>7. Queued = Queued' \cup {Head(exec_que)}
  <2>1. ASSUME NEW i \in DOMAIN exec_que
        PROVE  exec_que[i] = Head(exec_que) \/ exec_que[i] \in Queued'
    BY <1>2, <1>4, <1>5, Zenon
  <2>2. Head(exec_que) \in Queued
    BY <1>2, <1>5, <1>6, Zenon
  <2>3. \A d \in Queued' : d \in Queued
    BY <1>2, <1>3, <1>5
  <2> QED
    BY <1>5, <2>1, <2>2, <2>3, Zenon
<1>8. \A d \in Queued' : FutureOf(d) # FutureOf(Head(exec_que))
  BY <1>2, <1>3, <1>5, <1>6 DEF OneEach
<1>9. ASSUME NEW i \in DOMAIN exec_que', NEW j \in DOMAIN exec_que',
             FutureOf(exec_que'[i]) = FutureOf(exec_que'[j])
      PROVE  i = j
  BY <1>1, <1>2, <1>3, <1>9 DEF OneEach
<1> QED
  BY <1>2, <1>7, <1>8, <1>9, Zenon

(* The first part of the inductive invariant at the start.                 *)
LEMMA InitWaiting == Init => Waiting
BY OutParts, Names DEF Init, ClientInit, Queued, InCb, Range, OneEach, FutureAwaitsAnswer, Name,
   NoFuture, Fresh, Waiting

(* Every step keeps it.                                                    *)
LEMMA NextWaiting == Types /\ Waiting /\ [Next]_vars => Waiting'
(* Nothing is out for a future that is not there, or done.                 *)
<1>FreeName. ASSUME FutureAwaitsAnswer, NEW x, fut[x].mem # "live" \/ fut[x].done
             PROVE  NotOut(x)
  BY <1>FreeName, Zenon DEF FutureAwaitsAnswer, NotOut
(* A call for a future for which none is out.                              *)
<1>SendOneEach. ASSUME ClientTypes, OneEach, NEW c \in AllCalls, Sends(c), NotOut(FutureOf(c))
                PROVE  OneEach'
  <2> USE <1>SendOneEach
  <2>1. \A d \in Queued \cup pending \cup InCb : FutureOf(d) # FutureOf(c)
    BY OutParts, Zenon DEF NotOut
  <2>2. exec_que \in Seq(AllCalls) /\ exec_que' = Append(exec_que, c)
        /\ Queued' = Queued \cup {c} /\ pending' = pending /\ InCb' = InCb
    BY SendOut, Zenon DEF ClientTypes
  <2>3. ASSUME NEW i \in DOMAIN exec_que', NEW j \in DOMAIN exec_que',
               FutureOf(exec_que'[i]) = FutureOf(exec_que'[j])
        PROVE  i = j
    BY <2>1, <2>2, <2>3 DEF Queued, Range, OneEach
  <2>4. \A a \in Queued', d \in pending' \cup InCb' : FutureOf(a) # FutureOf(d)
    BY <2>1, <2>2, Zenon DEF OneEach
  <2> QED
    BY <2>2, <2>3, <2>4, Zenon DEF OneEach
(* The future of a call that is sent waits for it, and the others go on.   *)
<1>SendWaits. ASSUME ClientTypes, OneEach, FutureAwaitsAnswer,
                     NEW c \in AllCalls, Sends(c), NotOut(FutureOf(c)),
                     fut'[FutureOf(c)].mem = "live", ~fut'[FutureOf(c)].done,
                     \A y \in Name : y # FutureOf(c) => fut'[y] = fut[y]
              PROVE  OneEach' /\ FutureAwaitsAnswer' /\ Out' = Out \cup {c}
  BY <1>SendWaits, <1>SendOneEach, SendOut, OutTypes, Zenon DEF NotOut, FutureAwaitsAnswer
(* A step that sends nothing changes the futures nothing is out for.       *)
<1>QuietWaits. ASSUME ClientTypes, OneEach, FutureAwaitsAnswer, ClientKept, exec_que' = exec_que,
                      \A y \in Name : NotOut(y) \/ (fut'[y].mem = fut[y].mem /\ fut'[y].done = fut[y].done)
               PROVE  OneEach' /\ FutureAwaitsAnswer' /\ Out' = Out
  BY <1>QuietWaits, QuietOut, OutTypes, Zenon DEF NotOut, FutureAwaitsAnswer
(* A new future, made with the call that will set it.                      *)
<1>SendNew. ASSUME Types, Waiting, NEW c \in AllCalls, NEW x, x = FutureOf(c), Sends(c), NotOut(x),
                   fut' = [fut EXCEPT ![x] = FutureNew]
            PROVE  /\ OneEach' /\ FutureAwaitsAnswer' /\ Out' = Out \cup {c}
                   /\ \A y \in Name : y # x => fut'[y] = fut[y]
  BY <1>SendNew, CallFuture, FutureType, <1>SendWaits, Zenon DEF FutureNew, NoFuture, Types, TxnTypes, Waiting
(* A future for which nothing is out is replaced or freed.                 *)
<1>QuietChange. ASSUME Types, Waiting, NEW x \in Name, NEW f \in Future, NotOut(x), ClientKept,
                       exec_que' = exec_que, fut' = [fut EXCEPT ![x] = f]
                PROVE  /\ OneEach' /\ FutureAwaitsAnswer' /\ Out' = Out /\ fut'[x] = f
                       /\ \A y \in Name : y # x => fut'[y] = fut[y]
  BY <1>QuietChange, <1>QuietWaits, Zenon DEF Types, TxnTypes, Waiting
(* The names of the futures differ.                                        *)
<1>NamesDiffer. "con" # "txn" /\ \A op \in Op : op # "con" /\ op # "txn" /\ op \in Name
BY ScriptAssumption, Zenon DEF Name
(* OepClient_connect and OesKernel_impl_begin.                             *)
<1>ConnectWaiting. ASSUME Types, Waiting, Connect \/ Connected \/ Begin
                   PROVE  Waiting'
  <2> USE <1>ConnectWaiting
  <2>1. CASE Connect
    <3>1. /\ pc = "start" /\ pc' = "connect" /\ fut' = [fut EXCEPT !["con"] = FutureNew]
          /\ Sends(Call("CON", NoOp)) /\ UNCHANGED <<used, status>>
      BY <2>1, Zenon DEF Connect, txnVars
    <3>2. NotOut("con")
      BY <3>1, <1>FreeName, Zenon DEF Waiting, Fresh
    <3>3. FutureOf(Call("CON", NoOp)) = "con"
      BY Zenon DEF FutureOf, Call
    <3>4. OneEach' /\ FutureAwaitsAnswer' /\ \A y \in Name : y # "con" => fut'[y] = fut[y]
      BY <3>1, <3>2, <3>3, <1>SendNew, CallsMade, Zenon
    <3>5. Fresh'
      BY <3>1, <3>4, Names, <1>NamesDiffer, Zenon DEF Waiting, Fresh
    <3> QED
      BY <3>4, <3>5, Zenon DEF Waiting
  <2>2. CASE Connected
    <3>1. /\ fut["con"].done /\ fut' = [fut EXCEPT !["con"] = FutureFree(fut["con"])]
          /\ pc' \in {"idle", "refused"} /\ exec_que' = exec_que /\ ClientKept
          /\ UNCHANGED <<used, status>>
      BY <2>2, Zenon DEF Connected, txnVars
    <3>2. NotOut("con") /\ FutureFree(fut["con"]) \in Future
      BY <3>1, <1>FreeName, FutureType, Names, Zenon DEF Waiting, Types, TxnTypes
    <3>3. OneEach' /\ FutureAwaitsAnswer' /\ \A y \in Name : y # "con" => fut'[y] = fut[y]
      BY <3>1, <3>2, <1>QuietChange, Names, Zenon
    <3>4. Fresh'
      BY <3>1, <3>3, Names, <1>NamesDiffer, Zenon DEF Waiting, Fresh
    <3> QED
      BY <3>3, <3>4, Zenon DEF Waiting
  <2>3. CASE Begin
    <3>1. /\ pc = "idle" /\ pc' = pc /\ fut' = [fut EXCEPT !["txn"] = FutureNew]
          /\ status = "none" /\ status' # "none"
          /\ Sends(Call("STA", NoOp)) /\ UNCHANGED used
      BY <2>3, Zenon DEF Begin, Idle
    <3>2. NotOut("txn")
      BY <3>1, <1>FreeName, Zenon DEF Waiting, Fresh
    <3>3. FutureOf(Call("STA", NoOp)) = "txn"
      BY Zenon DEF FutureOf, Call
    <3>4. OneEach' /\ FutureAwaitsAnswer' /\ \A y \in Name : y # "txn" => fut'[y] = fut[y]
      BY <3>1, <3>2, <3>3, <1>SendNew, CallsMade, Zenon
    <3>5. Fresh'
      BY <3>1, <3>4, Names, <1>NamesDiffer, Zenon DEF Waiting, Fresh
    <3> QED
      BY <3>4, <3>5, Zenon DEF Waiting
  <2> QED
    BY <2>1, <2>2, <2>3, Zenon
(* The operations of the script, and its JSON commands: the future is new. *)
<1>OperationWaiting. ASSUME Types, Waiting, NEW op \in Op, Operation(op) \/ JsonExec(op)
                     PROVE  Waiting'
  <2> USE <1>OperationWaiting
  <2>1. /\ pc = "idle" /\ op \notin used /\ used' = used \cup {op} /\ status' = status
        /\ fut' = [fut EXCEPT ![op] = FutureNew]
    BY Zenon DEF Operation, JsonExec, Idle, Starts, txnVars
  <2>2. NotOut(op) /\ op \in Name
    BY <2>1, <1>FreeName, Names, Zenon DEF Waiting, Fresh
  <2>3. \/ pc' = pc /\ \E c \in AllCalls : FutureOf(c) = op /\ Sends(c)
        \/ Quiet /\ (pc' = pc \/ (pc' = "enlist" /\ now' = op))
    BY CallsMade, Zenon DEF Operation, FutureOf, Call, CmdOf, JsonExec
  <2>4. CASE pc' = pc /\ \E c \in AllCalls : FutureOf(c) = op /\ Sends(c)
    <3>1. OneEach' /\ FutureAwaitsAnswer' /\ \A y \in Name : y # op => fut'[y] = fut[y]
      BY <2>1, <2>2, <2>4, <1>SendNew, Zenon
    <3>2. Fresh'
      BY <2>1, <2>4, <3>1, Names, <1>NamesDiffer, Zenon DEF Waiting, Fresh
    <3> QED
      BY <3>1, <3>2, Zenon DEF Waiting
  <2>5. CASE Quiet /\ (pc' = pc \/ (pc' = "enlist" /\ now' = op))
    <3>1. /\ OneEach' /\ FutureAwaitsAnswer' /\ Out' = Out /\ fut'[op] = FutureNew
          /\ \A y \in Name : y # op => fut'[y] = fut[y]
      BY <2>1, <2>2, <2>5, <1>QuietChange, FutureType, Zenon DEF Quiet
    <3>2. pc' = "enlist" => Awaits(now)'
      BY <2>1, <2>2, <2>5, <3>1 DEF Awaits, NotOut, FutureNew, NoFuture
    <3>3. Fresh'
      BY <2>1, <2>5, <3>1, <3>2, Names, <1>NamesDiffer, Zenon DEF Waiting, Fresh
    <3> QED
      BY <3>1, <3>3, Zenon DEF Waiting
  <2> QED
    BY <2>3, <2>4, <2>5, Zenon
(* Futures that are dropped, and leases that are cancelled or dropped: one *)
(* that is not done keeps its memory, and for one that is nothing is out.  *)
<1>DropWaiting. ASSUME Types, Waiting, NEW op \in Op,
                       FutureDropped(op) \/ LeaseCancelled(op) \/ LeaseDropped(op)
                PROVE  Waiting'
  <2> USE <1>DropWaiting
  <2>1. /\ pc = "idle" /\ UNCHANGED <<pc, status>> /\ used \subseteq used' /\ op \in used
        /\ op \in Name /\ fut[op] \in Future /\ FutureFree(fut[op]) \in Future
    BY Names, FutureType, Zenon DEF FutureDropped, LeaseCancelled, LeaseDropped, Idle, Starts, scriptVars,
       txnVars, Types, TxnTypes
  <2>2. OneEach' /\ FutureAwaitsAnswer' /\ \A y \in Name : y # op => fut'[y] = fut[y]
    <3>1. CASE LeaseCancelled(op)
      <4>1. /\ op \in Put /\ fut[op].done /\ Sends(Call("UPL", op))
            /\ fut' = [fut EXCEPT ![op] = FutureNew]
        BY <3>1, Zenon DEF LeaseCancelled
      <4>2. FutureOf(Call("UPL", op)) = op
        BY Zenon DEF FutureOf, Call
      <4>3. NotOut(op)
        BY <4>1, <1>FreeName, Zenon DEF Waiting
      <4>4. Call("UPL", op) \in AllCalls
        BY <4>1, CallsMade, Zenon
      <4> QED
        BY <4>1, <4>2, <4>3, <4>4, <1>SendNew, Zenon
    <3>2. CASE (FutureDropped(op) \/ LeaseDropped(op)) /\ fut[op].done
      BY <2>1, <3>2, <1>FreeName, <1>QuietChange, Zenon DEF FutureDropped, LeaseDropped, Waiting, Quiet
    <3>3. CASE FutureDropped(op) /\ ~fut[op].done
      BY <2>1, <3>3, <1>QuietWaits, Zenon DEF FutureDropped, Types, TxnTypes, FutureFree, Future,
         Quiet, Waiting
    <3> QED
      BY <3>1, <3>2, <3>3, Zenon DEF LeaseDropped
  <2>3. Fresh'
    BY <2>1, <2>2, Names, <1>NamesDiffer, Zenon DEF Waiting, Fresh
  <2> QED
    BY <2>2, <2>3, Zenon DEF Waiting
(* An operation that is enlisted, and the steps of _oes_upt_txn.           *)
<1>UptWaiting. ASSUME Types, Waiting, Enlisted \/ CheckStatus \/ WaitForTxn \/ WaitForLatch \/ SendUpt
               PROVE  Waiting'
  <2> USE <1>UptWaiting
  <2>1. UNCHANGED <<used, status>>
    BY Zenon DEF Enlisted, CheckStatus, WaitForTxn, WaitForLatch, SendUpt, txnVars
  <2>2. CASE Enlisted \/ SendUpt
    <3>1. pc' = "idle" /\ fut' = fut
      BY <2>2, Zenon DEF Enlisted, SendUpt
    <3>2. PICK c \in AllCalls : Sends(c) /\ Awaits(FutureOf(c))
      <4>1. CASE Enlisted
        BY <4>1, CallsMade, Zenon DEF Enlisted, Types, ScriptTypes, Waiting, Fresh, FutureOf, Call, CmdOf
      <4>2. CASE SendUpt
        BY <4>2, CallsMade DEF SendUpt, Types, ScriptTypes, Waiting, Fresh, FutureOf, Call
      <4> QED
        BY <2>2, <4>1, <4>2, Zenon
    <3>3. OneEach' /\ FutureAwaitsAnswer'
      BY <3>1, <3>2, <1>SendWaits, Zenon DEF Awaits, Types, Waiting
    <3>4. Fresh'
      BY <2>1, <3>1, Zenon DEF Waiting, Fresh
    <3> QED
      BY <3>3, <3>4, Zenon DEF Waiting
  <2>3. CASE CheckStatus \/ WaitForLatch
    <3>1. Quiet /\ fut' = fut
      BY <2>3, Zenon DEF CheckStatus, WaitForLatch
    <3>2. OneEach' /\ FutureAwaitsAnswer' /\ Out' = Out
      BY <3>1, <1>QuietWaits, Zenon DEF Quiet, Types, Waiting
    <3>3. (pc' = "upt" /\ status # "none") \/ (pc = "latch" /\ pc' = "count")
      BY <2>3, Zenon DEF CheckStatus, WaitForLatch
    <3>4. Fresh'
      BY <2>1, <3>1, <3>2, <3>3, Zenon DEF Waiting, Fresh, Awaits, NotOut
    <3> QED
      BY <3>2, <3>4, Zenon DEF Waiting
  <2>4. CASE WaitForTxn
    <3>1. /\ fut["txn"].done /\ pc' = "latch" /\ Quiet /\ pc = "upt"
          /\ fut' = [fut EXCEPT !["txn"] = FutureNew]
      BY <2>4, Zenon DEF WaitForTxn
    <3>2. NotOut("txn")
      BY <3>1, <1>FreeName, Zenon DEF Waiting
    <3>3. /\ OneEach' /\ FutureAwaitsAnswer' /\ Out' = Out /\ fut'["txn"] = FutureNew
          /\ \A y \in Name : y # "txn" => fut'[y] = fut[y]
      BY <3>1, <3>2, <1>QuietChange, FutureType, Names, Zenon DEF Quiet
    <3>4. Awaits("txn")'
      BY <3>2, <3>3, Zenon DEF Awaits, NotOut, FutureNew, NoFuture
    <3>5. status' # "none"
      BY <2>1, <3>1, Zenon DEF Waiting, Fresh
    <3>6. Fresh'
      BY <2>1, <3>1, <3>3, <3>4, <3>5, Names, <1>NamesDiffer, Zenon DEF Waiting, Fresh
    <3> QED
      BY <3>3, <3>6, Zenon DEF Waiting
  <2> QED
    BY <2>2, <2>3, <2>4, Zenon
(* A step that leaves where calls are, and what the script has, alone.     *)
<1>SameWaiting. ASSUME Waiting, UNCHANGED <<exec_que, pending, cbs, fut, pc, now, used>>,
                       status' = status \/ (status # "none" /\ status' # "none")
                PROVE  Waiting'
  BY <1>SameWaiting DEF Queued, InCb, Out, Waiting, OneEach, FutureAwaitsAnswer, Fresh, Awaits, NotOut
(* The promise callbacks: the future that is set is the one that waits.    *)
<1>CallbackWaiting. ASSUME Types, Waiting, Callback
                    PROVE  Waiting'
  <2> USE <1>CallbackWaiting
  <2>1. CASE CbDecrement \/ CbIncrement
    BY <2>1, <1>SameWaiting, Zenon DEF CbDecrement, CbIncrement, clientVars, tableVars, scriptVars
  <2>2. CASE CbStatus
    BY <2>2, CallbackOfTxn, <1>SameWaiting, Zenon DEF CbStatus, clientVars, tableVars, scriptVars, Running
  <2>3. CASE CbSet
    <3> DEFINE c == Head(cbs).call
               x == FutureOf(c)
    <3>1. cbs # <<>> /\ cbs' = Tail(cbs) /\ UNCHANGED <<exec_que, pending, pc, now, used, status>>
      BY <2>3, Zenon DEF CbSet, Running, tableVars, scriptVars, txnVars
    <3>2. InCb = {c} /\ c \in AllCalls /\ cbs' = <<>> /\ x \in Name
      BY <3>1, TheCallback, CallFuture, Zenon DEF Types
    <3>3. InCb' = {} /\ Queued' = Queued
      BY <3>1, <3>2 DEF InCb, Queued
    <3>4. Out' = Queued \cup pending /\ c \in Out
      BY <3>1, <3>2, <3>3, OutParts, Zenon DEF Out, Queued, InCb
    <3>5. OneEach'
      BY <3>1, <3>3, Zenon DEF Waiting, OneEach
    <3>6. \A d \in Out' : d \in Out /\ FutureOf(d) # x /\ FutureOf(d) \in Name
      BY <3>2, <3>4, OutParts, OutTypes, Zenon DEF Waiting, OneEach, Types
    <3>7. PICK v \in Value : fut' = [fut EXCEPT ![x] = FutureSet(fut[x], v)]
      BY <2>3, Zenon DEF CbSet, Value
    <3>8. fut[x] \in Future /\ fut[x].mem = "live" /\ ~fut[x].done
      BY <3>2, <3>4, Zenon DEF Types, TxnTypes, Waiting, FutureAwaitsAnswer
    <3>9. fut'[x] = FutureSet(fut[x], v) /\ \A y \in Name : y # x => fut'[y] = fut[y]
      BY <3>2, <3>7, Zenon DEF Types, TxnTypes
    <3>10. FutureAwaitsAnswer'
      BY <3>6, <3>9, Zenon DEF Waiting, FutureAwaitsAnswer
    <3>11. \A y \in Name : Awaits(y) => y # x
      BY <3>4, Zenon DEF Awaits, NotOut
    <3>12. \A y \in Name : Awaits(y) => Awaits(y)'
      BY <3>6, <3>9, <3>11, Zenon DEF Awaits, NotOut
    <3>13. \A y \in Name : fut[y].mem = "none" => fut'[y].mem = "none"
      BY <3>8, <3>9, Zenon
    <3>14. pc = "enlist" => now \in Name /\ now' = now
      BY <3>1, Names, Zenon DEF Types, ScriptTypes, Op
    <3>15. pc = "enlist" => Awaits(now)'
      BY <3>12, <3>14, Zenon DEF Waiting, Fresh, Awaits, NotOut
    <3>16. Fresh'
      BY <3>1, <3>12, <3>13, <3>15, Names, Zenon DEF Waiting, Fresh
    <3> QED
      BY <3>5, <3>10, <3>16, Zenon DEF Waiting
  <2> QED
    BY <2>1, <2>2, <2>3, Zenon DEF Callback
(* The steps of the client's loop: calls move, and the script is not in    *)
(* them.                                                                   *)
<1>LoopWaiting. ASSUME Types, Waiting, UNCHANGED <<scriptVars, txnVars, fut>>,
                       \/ WriteToServerCb \/ PartArrives \/ ConnectionGoes
                       \/ BufferedOnError \/ ReadAnswer \/ ReadPart
                PROVE  Waiting'
  <2> USE <1>LoopWaiting
  <2>1. UNCHANGED <<fut, pc, now, used, status>>
    BY Zenon DEF scriptVars, txnVars
  <2>2. CASE PartArrives \/ ConnectionGoes \/ ReadPart
    BY <2>1, <2>2, <1>SameWaiting, Zenon DEF PartArrives, ConnectionGoes, ReadPart, tableVars
  <2>3. CASE BufferedOnError
    <3>1. cbs = <<>> /\ exec_que' = exec_que
      BY <2>3, Zenon DEF BufferedOnError, Loop
    <3>2. CASE task_count # 0
      BY <2>1, <2>3, <3>1, <3>2, <1>SameWaiting, Zenon DEF BufferedOnError
    <3>3. CASE task_count = 0
      <4>1. pending = {} /\ cbs' = <<>> /\ pending' = {}
        BY <2>3, <3>3, CleanupOfNothing, Zenon DEF BufferedOnError, Types, ClientTypes
      <4> QED
        BY <2>1, <3>1, <4>1, <1>SameWaiting, Zenon
    <3> QED
      BY <3>2, <3>3, Zenon
  <2>4. ASSUME OneEach', Out' \subseteq Out
        PROVE  Waiting'
    BY <2>1, <2>4, Zenon DEF Waiting, FutureAwaitsAnswer, Fresh, Awaits, NotOut
  <2>5. CASE WriteToServerCb
    <3> DEFINE c == Head(exec_que)
    <3>1. exec_que # <<>> /\ exec_que' = Tail(exec_que) /\ cbs' = cbs
          /\ (pending' = pending \/ pending' = pending \cup {c})
      BY <2>5, Zenon DEF WriteToServerCb
    <3>2. InCb' = InCb
      BY <3>1, Zenon DEF InCb
    <3>3. /\ Queued = Queued' \cup {c} /\ \A d \in Queued' : FutureOf(d) # FutureOf(c)
          /\ \A i, j \in DOMAIN exec_que' : FutureOf(exec_que'[i]) = FutureOf(exec_que'[j]) => i = j
      BY <3>1, QueueTail, Zenon DEF Types, Waiting
    <3>4. OneEach'
      BY <3>1, <3>2, <3>3, Zenon DEF Waiting, OneEach
    <3>5. Out' = Queued' \cup pending' \cup InCb'
      BY Zenon DEF Out, Queued, InCb
    <3>6. Out' \subseteq Out
      BY <3>1, <3>2, <3>3, <3>5, OutParts, Zenon
    <3> QED
      BY <2>4, <3>4, <3>6, Zenon
  <2>6. CASE ReadAnswer
    <3> DEFINE m == Head(inbuf)
    <3>1. cbs = <<>> /\ exec_que' = exec_que
      BY <2>6, Zenon DEF ReadAnswer, OnRead
    <3>2. CASE UNCHANGED <<cbs, pending>>
      BY <2>1, <3>1, <3>2, <1>SameWaiting, Zenon
    <3>3. CASE m.call \in pending /\ cbs' = <<m>> /\ pending' = pending \ {m.call}
      <4>1. InCb' = {m.call} /\ Queued' = Queued
        BY <3>1, <3>3 DEF InCb, Queued
      <4>2. OneEach'
        BY <3>1, <3>3, <4>1 DEF Waiting, OneEach
      <4>3. Out' = Queued' \cup pending' \cup InCb'
        BY Zenon DEF Out, Queued, InCb
      <4>4. Out' \subseteq Out
        BY <3>3, <4>1, <4>3, OutParts, Zenon
      <4> QED
        BY <2>4, <4>2, <4>4, Zenon
    <3> QED
      BY <2>6, <3>2, <3>3, Zenon DEF ReadAnswer, RestoreContext
  <2> QED
    BY <2>2, <2>3, <2>5, <2>6, Zenon
<1> SUFFICES ASSUME Types, Waiting, [Next]_vars PROVE Waiting'
  BY Zenon
<1>1. CASE Script
  BY <1>1, <1>ConnectWaiting, <1>OperationWaiting, <1>DropWaiting, <1>UptWaiting, Zenon DEF Script
<1>2. CASE Callback
  BY <1>2, <1>CallbackWaiting, Zenon
<1>3. CASE Server
  BY <1>3, <1>SameWaiting DEF Server, ServerAnswers, tableVars, scriptVars, txnVars
<1>4. ASSUME \/ ClientStep(WriteToServerCb) \/ ClientStep(PartArrives) \/ ClientStep(ConnectionGoes)
             \/ ClientStep(BufferedOnError) \/ ClientStep(ReadAnswer) \/ ClientStep(ReadPart)
      PROVE  Waiting'
  BY <1>4, <1>LoopWaiting, Zenon DEF ClientStep
<1>5. CASE UNCHANGED vars
  BY <1>5, <1>SameWaiting, Zenon DEF vars, clientVars, tableVars, scriptVars, txnVars
<1> QED
  BY <1>1, <1>2, <1>3, <1>4, <1>5, Zenon DEF Next

(* The future that a callback will set is allocated and not done as long   *)
(* as its call is out, whatever the script cancels, replaces or drops: the *)
(* assertion of _future_set holds and the setter finds its object.         *)
THEOREM FuturesWait == Spec => []FutureAwaitsAnswer
<1>1. Init => Types /\ Waiting
  BY InitTypes, InitWaiting, Zenon
<1>2. Types /\ Waiting /\ [Next]_vars => (Types /\ Waiting)'
  BY NextTypes, NextWaiting, Zenon
<1>3. Waiting => FutureAwaitsAnswer
  BY Zenon DEF Waiting
<1> QED
  BY <1>1, <1>2, <1>3, PTL DEF Spec

-----------------------------------------------------------------------------
(* The latch and the end of the transaction.                               *)

(* The calls of the transaction that the latch still counts: the callback  *)
(* takes its own off in its first step.                                    *)
CountedOut == {c \in Queued \cup pending \cup (IF step = "start" THEN InCb ELSE {}) : Counted(c)}

(* A commit or a rollback has let the kernel go of the transaction.        *)
Sealed == status # "none" /\ ~currentTxn

UptIsOut == \E c \in Out : c.cmd = "UPT"

Sealing ==
  /\ cbs = <<>> => step = "start"
  /\ ~crashed => enlisted.count = Cardinality(CountedOut)
  /\ status = "none" => ~currentTxn /\ intxn = {} /\ upts = 0
  /\ pc = "enlist" => currentTxn
  /\ upts > 0 /\ pc \notin {"upt", "latch"} => Sealed
  /\ UptIsOut => Sealed
  /\ Sealed => CountedOut = {}
  /\ Call("STA", NoOp) \in Out => intxn = {}
  /\ thrown => upts > 0
  /\ ThrownWithCause

(* What the proofs below use of the theory of finite sets.                 *)
SubsetsFinite ==
  \A S : IsFiniteSet(S) => \A T \in SUBSET S : IsFiniteSet(T) /\ Cardinality(T) <= Cardinality(S)
SizesNat == \A S : IsFiniteSet(S) => Cardinality(S) \in Nat /\ (Cardinality(S) = 0 <=> S = {})
NoneInEmpty == IsFiniteSet({}) /\ Cardinality({}) = 0
OneAdded == \A S, x : IsFiniteSet(S) =>
              /\ IsFiniteSet(S \cup {x})
              /\ Cardinality(S \cup {x}) = IF x \in S THEN Cardinality(S) ELSE Cardinality(S) + 1
OneRemoved == \A S, x : IsFiniteSet(S) =>
                /\ IsFiniteSet(S \ {x})
                /\ Cardinality(S \ {x}) = IF x \in S THEN Cardinality(S) - 1 ELSE Cardinality(S)
ImagesFinite == \A S, T : \A f \in Surjection(S, T) :
                  IsFiniteSet(S) => IsFiniteSet(T) /\ Cardinality(T) <= Cardinality(S)
SetFacts == SubsetsFinite /\ SizesNat /\ NoneInEmpty /\ OneAdded /\ OneRemoved /\ ImagesFinite

(* The calls the latch counts are at most the writes and the takes.        *)
LEMMA CountedOutFinite ==
  ASSUME SetFacts, ClientTypes
  PROVE  /\ IsFiniteSet(CountedOut) /\ Cardinality(CountedOut) \in 0 .. Cardinality(Put \cup Take)
         /\ Cardinality(CountedOut) = 0 => CountedOut = {}
<1> DEFINE call == [op \in Put \cup Take |-> Call(CmdOf(op), op)]
           Calls == {call[op] : op \in Put \cup Take}
<1>1. CountedOut \subseteq Calls
  BY OutParts, OutTypes DEF CountedOut, Counted, AllCalls, Call, CmdOf
<1>2. call \in Surjection(Put \cup Take, Calls)
  BY Zenon DEF Surjection
<1>3. IsFiniteSet(Put \cup Take)
  BY ScriptAssumption, Zenon DEF Op, SetFacts, SubsetsFinite
<1> HIDE DEF call
<1>4. IsFiniteSet(Calls) /\ Cardinality(Calls) <= Cardinality(Put \cup Take)
  BY <1>2, <1>3, Zenon DEF SetFacts, ImagesFinite
<1>5. IsFiniteSet(CountedOut) /\ Cardinality(CountedOut) <= Cardinality(Calls)
  BY <1>1, <1>4, Zenon DEF SetFacts, SubsetsFinite
<1>6. /\ Cardinality(CountedOut) \in Nat /\ Cardinality(Calls) \in Nat
      /\ Cardinality(Put \cup Take) \in Nat /\ (Cardinality(CountedOut) = 0 => CountedOut = {})
  BY <1>3, <1>4, <1>5, Zenon DEF SetFacts, SizesNat
<1> QED
  BY <1>4, <1>5, <1>6

(* This part of the invariant at the start.                                *)
LEMMA InitSealing == SetFacts /\ Init => Sealing
<1> SUFFICES ASSUME SetFacts, Init PROVE Sealing
  BY Zenon
<1>1. exec_que = <<>> /\ pending = {} /\ cbs = <<>>
  BY Zenon DEF Init, ClientInit
<1>2. Queued = {} /\ InCb = {}
  BY <1>1 DEF Queued, InCb, Range
<1>3. Out = {} /\ CountedOut = {}
  BY <1>1, <1>2, OutParts, Zenon DEF CountedOut
<1>4. enlisted.count = 0 /\ Cardinality(CountedOut) = 0
  BY <1>3, Zenon DEF Init, LatchNew, SetFacts, NoneInEmpty
<1>5. pc = "start" /\ status = "none" /\ ~currentTxn /\ intxn = {} /\ upts = 0 /\ ~thrown
      /\ step = "start"
  BY Zenon DEF Init
<1>6. ~UptIsOut /\ ThrownWithCause /\ ~Sealed
  BY <1>3, <1>5, Zenon DEF UptIsOut, ThrownWithCause, Sealed
<1> QED
  BY <1>3, <1>4, <1>5, <1>6 DEF Sealing

(* Every step keeps it.                                                    *)
LEMMA NextSealing == SetFacts /\ Types /\ Waiting /\ Sealing /\ [Next]_vars => Sealing'
(* A step that changes nothing of the transaction, and sends nothing of it.*)
<1>SameSealing. ASSUME Sealing, UNCHANGED <<status, currentTxn, intxn, upts, thrown, enlisted>>,
                       cbs' = <<>> => step' = "start", crashed => crashed',
                       CountedOut' \subseteq CountedOut, crashed' \/ CountedOut' = CountedOut,
                       UptIsOut' => UptIsOut, Call("STA", NoOp) \in Out' => Call("STA", NoOp) \in Out,
                       pc' = "enlist" => currentTxn,
                       pc \in {"upt", "latch"} => pc' \in {"upt", "latch"}
                PROVE  Sealing'
  BY <1>SameSealing, Zenon DEF Sealing, Sealed, ThrownWithCause
(* A step of the script that sends nothing, or a call that is not counted. *)
<1>QuietCounted. ASSUME ClientTypes, ClientKept, intxn' = intxn,
                        \/ exec_que' = exec_que
                        \/ \E c \in AllCalls : Sends(c) /\ ~Counted(c)
                 PROVE  CountedOut' = CountedOut /\ cbs' = cbs /\ step' = step /\ crashed' = crashed
  BY <1>QuietCounted, QuietOut, SendOut, Zenon DEF ClientKept, cbVars, Counted, CountedOut
(* The steps of the script that neither start nor end a transaction.       *)
<1>QuietSealing. ASSUME Types, Sealing, ClientKept, UNCHANGED <<currentTxn, intxn, upts, thrown, txnVars>>,
                        \/ exec_que' = exec_que
                        \/ \E c \in AllCalls : Sends(c) /\ ~Counted(c) /\ c.cmd \notin {"UPT", "STA"},
                        pc' = "enlist" => currentTxn,
                        pc \in {"upt", "latch"} => pc' \in {"upt", "latch"}
                 PROVE  Sealing'
  <2> USE <1>QuietSealing
  <2>1. CountedOut' = CountedOut /\ cbs' = cbs /\ step' = step /\ crashed' = crashed
    BY <1>QuietCounted, Zenon DEF Types
  <2>2. (UptIsOut' => UptIsOut) /\ (Call("STA", NoOp) \in Out' => Call("STA", NoOp) \in Out)
    BY QuietOut, SendOut DEF UptIsOut, Types, Call
  <2>3. UNCHANGED <<status, enlisted>> /\ (cbs' = <<>> => step' = "start")
    BY <2>1, Zenon DEF txnVars, Sealing
  <2> QED
    BY <2>1, <2>2, <2>3, <1>SameSealing, Zenon
(* OepClient_connect and OesKernel_impl_begin.                             *)
<1>ConnectSealing. ASSUME Types, Sealing, Connect \/ Connected \/ Begin
                   PROVE  Sealing'
  <2> USE <1>ConnectSealing
  <2>1. CASE Connect
    BY <2>1, <1>QuietSealing, CallsMade, Zenon DEF Connect, Sends, Counted, Call
  <2>2. CASE Connected
    BY <2>2, <1>QuietSealing, Zenon DEF Connected
  <2>3. CASE Begin
    BY <2>3, <1>QuietCounted, SendOut, CallsMade DEF Begin, Idle, Sends, Counted, Call, Types, Sealed,
       Sealing, UptIsOut, ThrownWithCause
  <2> QED
    BY <2>1, <2>2, <2>3, Zenon
(* The operations of the script, and its JSON commands: one that is sent   *)
(* at once is not of the transaction.                                      *)
<1>OperationSealing. ASSUME Types, Sealing, NEW op \in Op, Operation(op) \/ JsonExec(op)
                     PROVE  Sealing'
  BY <1>OperationSealing, CallsMade, <1>QuietSealing, Zenon DEF Operation, JsonExec, Idle, Starts,
     Quiet, Sends, Types,
   ScriptTypes, Counted, Call, CmdOf
(* Futures that are dropped, and leases that are cancelled or dropped.     *)
<1>DropSealing. ASSUME Types, Sealing, NEW op \in Op,
                       FutureDropped(op) \/ LeaseCancelled(op) \/ LeaseDropped(op)
                PROVE  Sealing'
  BY <1>DropSealing, CallsMade, <1>QuietSealing, Zenon DEF FutureDropped, LeaseCancelled, LeaseDropped,
     Idle, Quiet, Sends,
   scriptVars, Counted, Call
(* The steps of the client's loop: the calls stay what they are.           *)
<1>LoopSealing. ASSUME Types, Waiting, Sealing, UNCHANGED <<scriptVars, txnVars, cbVars>>,
                       \/ WriteToServerCb \/ PartArrives \/ ConnectionGoes
                       \/ BufferedOnError \/ ReadAnswer \/ ReadPart
                PROVE  Sealing'
  <2> USE <1>LoopSealing
  <2>1. UNCHANGED <<pc, status, currentTxn, intxn, upts, thrown, enlisted, step>> /\ ~crashed
        /\ pc' = pc
    BY Zenon DEF scriptVars, txnVars, cbVars, WriteToServerCb, PartArrives, ConnectionGoes,
           BufferedOnError, ReadAnswer, ReadPart, Loop, OnRead
  <2>2. \A d : Counted(d)' <=> Counted(d)
    BY <2>1, Zenon DEF Counted
  <2>3. Out' = Queued' \cup pending' \cup InCb' /\ Out = Queued \cup pending \cup InCb
    BY OutParts, Zenon DEF Out, Queued, InCb
  <2>4. ASSUME Out' \subseteq Out, cbs' = <<>> => step' = "start",
               CountedOut' \subseteq CountedOut, crashed' \/ CountedOut' = CountedOut
        PROVE  Sealing'
    BY <2>1, <2>4, <1>SameSealing, Zenon DEF UptIsOut, Sealing
  <2>5. ASSUME UNCHANGED <<exec_que, pending, cbs>>
        PROVE  Sealing'
    <3>1. Queued' = Queued /\ InCb' = InCb
      BY <2>5, Zenon DEF Queued, InCb
    <3>2. CountedOut' = CountedOut
      BY <2>1, <2>2, <2>5, <3>1, Zenon DEF CountedOut
    <3> QED
      BY <2>1, <2>3, <2>4, <2>5, <3>1, <3>2, Zenon DEF Sealing
  <2>6. CASE PartArrives \/ ConnectionGoes \/ ReadPart
    BY <2>5, <2>6, Zenon DEF PartArrives, ConnectionGoes, ReadPart, tableVars
  <2>7. CASE BufferedOnError
    <3>1. cbs = <<>> /\ exec_que' = exec_que
      BY <2>7, Zenon DEF BufferedOnError, Loop
    <3>2. CASE task_count # 0
      BY <2>5, <2>7, <3>1, <3>2, Zenon DEF BufferedOnError
    <3>3. CASE task_count = 0
      <4>1. pending = {} /\ cbs' = <<>> /\ pending' = {}
        BY <2>7, <3>3, CleanupOfNothing, Zenon DEF BufferedOnError, Types, ClientTypes
      <4> QED
        BY <2>5, <3>1, <4>1, Zenon
    <3> QED
      BY <3>2, <3>3, Zenon
  <2>8. CASE WriteToServerCb
    <3> DEFINE c == Head(exec_que)
    <3>1. exec_que # <<>> /\ exec_que' = Tail(exec_que) /\ cbs' = cbs
          /\ ((pending' = pending /\ crashed' = TRUE) \/ pending' = pending \cup {c})
      BY <2>8, Zenon DEF WriteToServerCb
    <3>2. InCb' = InCb /\ Queued = Queued' \cup {c}
      BY <3>1, QueueTail DEF InCb, Types, Waiting
    <3>3. Out' \subseteq Out
      BY <2>3, <3>1, <3>2, Zenon
    <3>4. CountedOut' \subseteq CountedOut /\ (crashed' \/ CountedOut' = CountedOut)
      BY <2>1, <2>2, <3>1, <3>2, Zenon DEF CountedOut
    <3> QED
      BY <2>1, <2>4, <3>1, <3>3, <3>4, Zenon DEF Sealing
  <2>9. CASE ReadAnswer
    <3> DEFINE m == Head(inbuf)
    <3>1. cbs = <<>> /\ exec_que' = exec_que /\ step = "start"
      BY <2>9, Zenon DEF ReadAnswer, OnRead, Sealing
    <3>2. CASE UNCHANGED <<cbs, pending>>
      BY <2>5, <3>1, <3>2, Zenon
    <3>3. CASE m.call \in pending /\ cbs' = <<m>> /\ pending' = pending \ {m.call}
      <4>1. InCb' = {m.call} /\ Queued' = Queued /\ InCb = {}
        BY <3>1, <3>3 DEF InCb, Queued
      <4>2. Out' = Out
        BY <2>3, <3>3, <4>1, Zenon
      <4>3. CountedOut' = CountedOut
        BY <2>1, <2>2, <3>1, <3>3, <4>1, Zenon DEF CountedOut
      <4> QED
        BY <2>1, <2>4, <3>1, <4>2, <4>3, Zenon
    <3> QED
      BY <2>9, <3>2, <3>3, Zenon DEF ReadAnswer, RestoreContext
  <2> QED
    BY <2>6, <2>7, <2>8, <2>9, Zenon
(* An operation that is enlisted: the latch counts it, and the begin's     *)
(* answer has come.                                                        *)
<1>EnlistedSealing. ASSUME SetFacts, Types, Waiting, Sealing, Enlisted
                    PROVE  Sealing'
  <2> USE <1>EnlistedSealing
  <2>0. PICK c, op : c = Call(CmdOf(op), op) /\ op = now
    BY Zenon
  <2>1. /\ pc = "enlist" /\ pc' = "idle" /\ fut["txn"].done /\ ~crashed
        /\ enlisted' = Enlist(op) /\ intxn' = intxn \cup {op} /\ Sends(c) /\ ClientKept
        /\ UNCHANGED <<currentTxn, upts, thrown, status>>
    BY <2>0, Zenon DEF Enlisted, TxnBegun, Sends
  <2>2. op \in Put \cup Take \cup Reads /\ c \in AllCalls /\ Awaits(op)
    BY <2>0, <2>1, CallsMade, Zenon DEF Types, ScriptTypes, Waiting, Fresh
  <2>3. currentTxn /\ status # "none" /\ ~Sealed /\ ~Sealed' /\ ~(upts > 0) /\ ~thrown /\ ~UptIsOut
    BY <2>1, Zenon DEF Sealing, Sealed
  <2>4. /\ Queued' = Queued \cup {c} /\ pending' = pending /\ InCb' = InCb /\ Out' = Out \cup {c}
        /\ cbs' = cbs /\ step' = step /\ crashed' = crashed
    BY <2>1, <2>2, SendOut, Zenon DEF Types, ClientKept, cbVars
  <2>5. c.cmd \notin {"STA", "UPT", "CON"} /\ c.op = op
          /\ (c.cmd \in {"PUT", "TAKE"} <=> op \in Put \cup Take)
    BY <2>0, Zenon DEF Call, CmdOf
  <2>6. Call("STA", NoOp) \notin Out
    BY <2>1, Zenon DEF FutureOf, Call, Waiting, FutureAwaitsAnswer
  <2>7. ~UptIsOut' /\ Call("STA", NoOp) \notin Out'
    BY <2>3, <2>4, <2>5, <2>6 DEF Call, UptIsOut
  <2>8. \A d \in Out : Counted(d)' <=> Counted(d)
    BY <2>1, <2>2, OutTypes, CallFuture, Zenon DEF Awaits, NotOut, Types, Counted
  <2>9. c \notin Out
    BY <2>2, <2>5, Zenon DEF FutureOf, Awaits, NotOut
  <2>10. Counted(c)' <=> op \in Put \cup Take
    BY <2>1, <2>5, Zenon DEF Counted
  <2>11. CountedOut' = IF op \in Put \cup Take THEN CountedOut \cup {c} ELSE CountedOut
    BY <2>4, <2>8, <2>10, OutParts, Zenon DEF CountedOut
  <2>12. enlisted'.count = Cardinality(CountedOut')
    <3>1. enlisted.count = Cardinality(CountedOut) /\ IsFiniteSet(CountedOut)
          /\ Cardinality(CountedOut) \in Nat
      BY <2>1, CountedOutFinite DEF Sealing, Types
    <3>2. CASE op \in Put \cup Take
      <4>1. Cardinality(CountedOut \cup {c}) = Cardinality(CountedOut) + 1
        <5>1. c \notin CountedOut
          BY <2>9, OutParts, Zenon DEF CountedOut
        <5> QED
          BY <3>1, <5>1, Zenon DEF SetFacts, OneAdded
      <4>2. enlisted'.count = enlisted.count + 1
        BY <2>1, <3>2, Zenon DEF Enlist, LatchIncrement
      <4> QED
        BY <2>11, <3>1, <3>2, <4>1, <4>2, Zenon
    <3>3. CASE op \notin Put \cup Take
      BY <2>1, <2>11, <3>1, <3>3, Zenon DEF Enlist
    <3> QED
      BY <3>2, <3>3, Zenon
  <2>13. ThrownWithCause' /\ ~thrown' /\ ~(upts' > 0) /\ status' # "none" /\ (cbs' = <<>> => step' = "start")
         /\ pc' # "enlist"
    BY <2>1, <2>3, <2>4, Zenon DEF ThrownWithCause, Sealing
  <2> QED
    BY <2>3, <2>7, <2>12, <2>13, Zenon DEF Sealing
(* The steps of _oes_upt_txn: once the latch is open no call of the        *)
(* transaction is out, and none is enlisted any more.                      *)
<1>UptSealing. ASSUME SetFacts, Types, Waiting, Sealing, CheckStatus \/ WaitForTxn \/ WaitForLatch \/ SendUpt
               PROVE  Sealing'
  <2> USE <1>UptSealing
  <2>1. CASE CheckStatus
    BY <2>1, <1>QuietCounted, QuietOut DEF CheckStatus, Quiet, Types, ScriptTypes, txnVars,
       ThrownWithCause, UptIsOut, Sealed, Sealing
  <2>2. CASE WaitForTxn
    BY <2>2, <1>QuietSealing, Zenon DEF WaitForTxn, Quiet
  <2>3. CASE WaitForLatch
    <3>1. /\ pc = "latch" /\ enlisted.count = 0 /\ ~crashed /\ pc' = "count" /\ currentTxn' = FALSE
          /\ ClientKept /\ exec_que' = exec_que /\ UNCHANGED <<intxn, upts, thrown, txnVars>>
      BY <2>3, Zenon DEF WaitForLatch, LatchOpen, Quiet
    <3>2. CountedOut' = CountedOut /\ cbs' = cbs /\ step' = step /\ crashed' = crashed /\ Out' = Out
      BY <3>1, <1>QuietCounted, QuietOut, Zenon DEF Types
    <3>3. status # "none" /\ UNCHANGED <<status, enlisted>> /\ Sealed'
      BY <3>1, Zenon DEF Waiting, Fresh, txnVars, Sealed
    <3>4. CountedOut' = {}
      BY <3>1, <3>2, CountedOutFinite, Zenon DEF Sealing, Types
    <3>5. ThrownWithCause'
      BY <3>1, <3>3, Zenon DEF Sealing, ThrownWithCause
    <3>6. ~crashed' => enlisted'.count = Cardinality(CountedOut')
      BY <3>2, <3>3, Zenon DEF Sealing
    <3>7. (cbs' = <<>> => step' = "start") /\ (Call("STA", NoOp) \in Out' => intxn' = {})
          /\ status' # "none" /\ pc' # "enlist" /\ (thrown' => upts' > 0)
      BY <3>1, <3>2, <3>3, Zenon DEF Sealing
    <3> QED
      BY <3>3, <3>4, <3>5, <3>6, <3>7, Zenon DEF Sealing
  <2>4. CASE SendUpt
    <3>1. /\ pc = "count" /\ pc' = "idle" /\ UNCHANGED <<currentTxn, intxn, upts, thrown, txnVars>>
      BY <2>4, Zenon DEF SendUpt
    <3>2. PICK c \in AllCalls : c.cmd = "UPT" /\ Sends(c)
      BY <2>4, <3>1, CallsMade DEF SendUpt, Types, ScriptTypes, Call
    <3>3. ~Counted(c) /\ ClientKept /\ c # Call("STA", NoOp)
      BY <3>2 DEF Counted, Sends, Call
    <3>4. /\ CountedOut' = CountedOut /\ cbs' = cbs /\ step' = step /\ crashed' = crashed
          /\ Out' = Out \cup {c}
      BY <3>1, <3>2, <3>3, <1>QuietCounted, SendOut, Zenon DEF Types
    <3>5. Sealed /\ UNCHANGED <<status, enlisted>> /\ Sealed'
      BY <3>1, Zenon DEF Types, ScriptTypes, Sealing, Sealed, txnVars
    <3>6. ThrownWithCause'
      BY <3>1, <3>5, Zenon DEF Sealing, ThrownWithCause
    <3>7. ~crashed' => enlisted'.count = Cardinality(CountedOut')
      BY <3>4, <3>5, Zenon DEF Sealing
    <3>8. (cbs' = <<>> => step' = "start") /\ (Call("STA", NoOp) \in Out' => intxn' = {})
          /\ status' # "none" /\ pc' # "enlist" /\ (thrown' => upts' > 0) /\ CountedOut' = {}
      BY <3>1, <3>3, <3>4, <3>5, Zenon DEF Sealing, Sealed
    <3> QED
      BY <3>5, <3>6, <3>7, <3>8, Zenon DEF Sealing
  <2> QED
    BY <2>1, <2>2, <2>3, <2>4, Zenon
(* The promise callbacks: the first step of one of the transaction takes   *)
(* its call off the latch.                                                 *)
<1>CallbackSealing. ASSUME SetFacts, Types, Waiting, Sealing, Callback
                    PROVE  Sealing'
  <2> USE <1>CallbackSealing
  <2>1. PICK m, c : m = Head(cbs) /\ c = m.call
    BY Zenon
  <2>2. cbs # <<>> /\ ~crashed /\ UNCHANGED <<exec_que, pending, scriptVars, crashed>>
    BY Zenon DEF Callback, CbDecrement, CbIncrement, CbStatus, CbSet, Running, clientVars, tableVars
  <2>3. /\ InCb = {c} /\ c \in AllCalls /\ Tail(cbs) = <<>> /\ c \in Out
        /\ UNCHANGED <<pc, currentTxn, intxn, upts, thrown>>
    BY <2>1, <2>2, TheCallback, OutParts, Zenon DEF Types, scriptVars
  <2>4. c \notin Queued \cup pending
    BY <2>3, Zenon DEF Waiting, OneEach
  <2>5. Queued' = Queued /\ (\A d : Counted(d)' <=> Counted(d)) /\ Queued \cup pending \subseteq Out
    BY <2>2, <2>3, OutParts, Zenon DEF Queued, Counted
  <2>6. CASE CbDecrement
    <3>1. /\ step = "start" /\ Counted(c) /\ enlisted'.count = enlisted.count - 1 /\ step' = "count"
          /\ UNCHANGED <<cbs, status>>
      BY <2>1, <2>6, Zenon DEF CbDecrement, LatchDecrement, Types, TxnTypes, Latch, clientVars
    <3>2. InCb' = InCb /\ Out' = Out
      BY <2>2, <2>5, <3>1, Zenon DEF InCb, Out, Queued
    <3>3. CountedOut' = CountedOut \ {c} /\ c \in CountedOut
      BY <2>2, <2>3, <2>4, <2>5, <3>1, <3>2, Zenon DEF CountedOut
    <3>4. enlisted'.count = Cardinality(CountedOut')
      <4>1. enlisted.count = Cardinality(CountedOut) /\ IsFiniteSet(CountedOut)
            /\ Cardinality(CountedOut) \in Nat
        BY <2>2, CountedOutFinite DEF Sealing, Types
      <4>2. Cardinality(CountedOut \ {c}) = Cardinality(CountedOut) - 1
        BY <3>3, <4>1, Zenon DEF SetFacts, OneRemoved
      <4> QED
        BY <3>1, <3>3, <4>1, <4>2, Zenon
    <3>5. UptIsOut' = UptIsOut /\ Sealed' = Sealed /\ (ThrownWithCause => ThrownWithCause')
      BY <2>3, <3>1, <3>2, Zenon DEF UptIsOut, Sealed, ThrownWithCause
    <3> QED
      BY <2>2, <2>3, <3>1, <3>2, <3>3, <3>4, <3>5, Zenon DEF Sealing
  <2>7. CASE CbIncrement
    <3>1. UNCHANGED <<cbs, status, enlisted, step>>
      BY <2>7, Zenon DEF CbIncrement, clientVars
    <3>2. InCb' = InCb /\ Out' = Out /\ UptIsOut' = UptIsOut
      BY <2>2, <2>5, <3>1, Zenon DEF InCb, Out, Queued, UptIsOut
    <3>3. CountedOut' = CountedOut
      BY <2>2, <2>5, <3>1, <3>2, Zenon DEF CountedOut
    <3> QED
      BY <2>2, <2>3, <3>1, <3>2, <3>3, <1>SameSealing, Zenon DEF Sealing
  <2>8. CASE CbStatus
    <3>1. /\ step = "start" /\ c.cmd \in {"STA", "UPT"} /\ step' = "count" /\ UNCHANGED <<cbs, enlisted>>
          /\ (status' = status \/ c.cmd = "STA" \/ status' \in {"COMMITTED", "ROLLEDBACK"})
          /\ status' \in {status, "ACTIVE", "COMMITTED", "ROLLEDBACK"}
      BY <2>1, <2>8, Zenon DEF CbStatus, clientVars
    <3>2. InCb' = InCb /\ Out' = Out /\ UptIsOut' = UptIsOut
      BY <2>2, <2>5, <3>1, Zenon DEF InCb, Out, Queued, UptIsOut
    <3>3. CountedOut' = CountedOut
      BY <2>2, <2>3, <2>5, <3>1, <3>2, Zenon DEF Counted, CountedOut
    <3>4. status # "none" /\ status' # "none" /\ Sealed' = Sealed
      BY <2>1, <2>2, <2>3, <3>1, CallbackOfTxn, Zenon DEF Sealed
    <3>5. c.cmd = "STA" => intxn = {}
      BY <2>3, CallKinds DEF Call, Sealing
    <3>6. ThrownWithCause'
      BY <2>3, <3>1, <3>5, Zenon DEF Sealing, ThrownWithCause
    <3>7. ~crashed' => enlisted'.count = Cardinality(CountedOut')
      BY <2>2, <3>1, <3>3, Zenon DEF Sealing
    <3> QED
      BY <2>2, <2>3, <3>1, <3>2, <3>3, <3>4, <3>6, <3>7, Zenon DEF Sealing
  <2>9. CASE CbSet
    <3>1. /\ step = "count" \/ ~Counted(c)
          /\ cbs' = <<>> /\ step' = "start" /\ UNCHANGED <<status, enlisted>>
      BY <2>1, <2>3, <2>9, Zenon DEF CbSet, txnVars
    <3>2. InCb' = {}
      BY <3>1 DEF InCb
    <3>3. Out' \subseteq Out
      BY <2>2, <2>5, <3>2, OutParts, Zenon DEF Out, Queued, InCb
    <3>4. CountedOut' = CountedOut
      BY <2>2, <2>3, <2>5, <3>1, <3>2, Zenon DEF CountedOut
    <3>5. (UptIsOut' => UptIsOut) /\ (Call("STA", NoOp) \in Out' => Call("STA", NoOp) \in Out)
      BY <3>3, Zenon DEF UptIsOut
    <3> QED
      BY <2>2, <2>3, <3>1, <3>4, <3>5, <1>SameSealing, Zenon DEF Sealing
  <2> QED
    BY <2>6, <2>7, <2>8, <2>9, Zenon DEF Callback
<1> SUFFICES ASSUME SetFacts, Types, Waiting, Sealing, [Next]_vars PROVE Sealing'
  BY Zenon
<1>1. CASE Script
  BY <1>1, <1>ConnectSealing, <1>OperationSealing, <1>DropSealing, <1>EnlistedSealing, <1>UptSealing,
     Zenon DEF Script
<1>2. CASE Callback
  BY <1>2, <1>CallbackSealing, Zenon
<1>3. ASSUME UNCHANGED <<exec_que, pending, cbs, crashed, scriptVars, txnVars, cbVars>>
      PROVE  Sealing'
  <2>1. UNCHANGED <<pc, status, currentTxn, intxn, upts, thrown, enlisted, step>>
    BY <1>3, Zenon DEF scriptVars, txnVars, cbVars
  <2>2. Queued' = Queued /\ InCb' = InCb /\ Out' = Out
    BY <1>3, Zenon DEF Queued, InCb, Out
  <2>3. CountedOut' = CountedOut /\ UptIsOut' = UptIsOut
    BY <1>3, <2>1, <2>2, Zenon DEF CountedOut, Counted, UptIsOut
  <2> QED
    BY <1>3, <2>1, <2>2, <2>3, <1>SameSealing, Zenon DEF Sealing
<1>4. CASE Server
  BY <1>3, <1>4 DEF Server, ServerAnswers, tableVars
<1>5. ASSUME \/ ClientStep(WriteToServerCb) \/ ClientStep(PartArrives) \/ ClientStep(ConnectionGoes)
             \/ ClientStep(BufferedOnError) \/ ClientStep(ReadAnswer) \/ ClientStep(ReadPart)
      PROVE  Sealing'
  BY <1>5, <1>LoopSealing, Zenon DEF ClientStep
<1>6. CASE UNCHANGED vars
  BY <1>3, <1>6, Zenon DEF vars, clientVars, tableVars
<1> QED
  BY <1>1, <1>2, <1>4, <1>5, <1>6, Zenon DEF Next

(* The latch counts at most the writes and the takes of the script.        *)
LatchBounded == enlisted.count \in 0 .. Cardinality(Put \cup Take)

(* So it is as long as no assertion has failed.                            *)
LEMMA LatchBoundedWhileUp == SetFacts /\ Types /\ Sealing /\ ~crashed => LatchBounded
BY CountedOutFinite, Zenon DEF Sealing, Types, LatchBounded

(* And the latch does not change with an assertion that fails, or after.   *)
LEMMA LatchStays == LatchBounded /\ [Next]_vars /\ crashed' => LatchBounded'
<1> SUFFICES ASSUME LatchBounded, [Next]_vars, crashed' PROVE enlisted' = enlisted
  BY Zenon DEF LatchBounded
<1>1. CASE Script
  <2>1. ~Enlisted
    BY Zenon DEF Enlisted, Sends, ClientKept
  <2> QED
    BY <1>1, <2>1, Zenon DEF Script, Connect, Connected, Begin, CheckStatus, WaitForTxn, WaitForLatch,
       SendUpt, Operation, JsonExec, FutureDropped, LeaseCancelled, LeaseDropped, txnVars
<1>2. CASE Callback
  BY <1>2, Zenon DEF Callback, CbDecrement, CbIncrement, CbStatus, CbSet, Running, clientVars, txnVars
<1>3. CASE Server \/ UNCHANGED vars
  BY <1>3, Zenon DEF Server, vars, txnVars
<1> QED
  BY <1>1, <1>2, <1>3, Zenon DEF Next, ClientStep, txnVars

-----------------------------------------------------------------------------
(* More of the theory of finite sets.                                      *)
IntervalsFinite == \A a, b \in Int : /\ IsFiniteSet(a .. b)
                                    /\ Cardinality(a .. b) = IF a > b THEN 0 ELSE b - a + 1
SameSizes == \A S, T : IsFiniteSet(S) /\ ExistsBijection(S, T) => Cardinality(S) = Cardinality(T)
SingletonSizes == \A x : IsFiniteSet({x}) /\ Cardinality({x}) = 1
ProductSizes == \A S, T : IsFiniteSet(S) /\ IsFiniteSet(T) =>
                  /\ IsFiniteSet(S \X T)
                  /\ Cardinality(S \X T) = Cardinality(S) * Cardinality(T)
UnionSizes == \A S, T : IsFiniteSet(S) /\ IsFiniteSet(T) /\ S \cap T = {} =>
                /\ IsFiniteSet(S \cup T)
                /\ Cardinality(S \cup T) = Cardinality(S) + Cardinality(T)
SizeFacts == SetFacts /\ IntervalsFinite /\ SameSizes /\ SingletonSizes /\ ProductSizes /\ UnionSizes

-----------------------------------------------------------------------------
(* Answers on their way.                                                   *)

(* The places of a queue of answers that are for call c.                   *)
Copies(q, c) == {k \in DOMAIN q : q[k].call = c}

(* Every answer in the buffer is for a call of the table that the server   *)
(* does not have any more, a call has one answer, and what is left of the  *)
(* answer is what has not arrived in the context.                          *)
Mail ==
  /\ server \subseteq pending /\ \A c \in server : res_msgs[c] = 0
  /\ \A m \in Range(inbuf) :
       /\ m.call \in pending \ server /\ (~m.ok => m.n = 0)
       /\ \A k \in Range(inbuf) : m.call = k.call => m = k
       /\ Cardinality(Copies(inbuf, m.call)) + res_msgs[m.call] = IF m.n > 1 THEN m.n ELSE 1

(* A write that was refused is not sent, and the server does not have it.  *)
Gone(op) == op \in used /\ ~(pc = "enlist" /\ now = op)
Refused == \A op \in failed : Gone(op) /\ Call("PUT", op) \notin Queued \cup server

(* The places of a queue are finitely many.                                *)
LEMMA CopiesFinite ==
  ASSUME SizeFacts, NEW q \in Seq(AllAnswers), NEW c
  PROVE  IsFiniteSet(Copies(q, c)) /\ Cardinality(Copies(q, c)) \in Nat
         /\ (Cardinality(Copies(q, c)) = 0 <=> \A m \in Range(q) : m.call # c)
<1>1. DOMAIN q = 1 .. Len(q) /\ Len(q) \in Nat
  OBVIOUS
<1>2. IsFiniteSet(DOMAIN q)
  BY <1>1 DEF SizeFacts, IntervalsFinite
<1>3. Copies(q, c) \subseteq DOMAIN q
  BY Zenon DEF Copies
<1>4. IsFiniteSet(Copies(q, c))
  BY <1>2, <1>3, Zenon DEF SizeFacts, SetFacts, SubsetsFinite
<1>5. Cardinality(Copies(q, c)) \in Nat /\ (Cardinality(Copies(q, c)) = 0 <=> Copies(q, c) = {})
  BY <1>4, Zenon DEF SizeFacts, SetFacts, SizesNat
<1>6. Copies(q, c) = {} <=> \A m \in Range(q) : m.call # c
  BY Zenon DEF Copies, Range
<1> QED
  BY <1>4, <1>5, <1>6, Zenon

(* What is left of a queue when its first answer is taken off.             *)
LEMMA TailOfAnswers ==
  ASSUME SizeFacts, NEW q \in Seq(AllAnswers), q # <<>>
  PROVE  /\ Tail(q) \in Seq(AllAnswers) /\ Head(q) \in Range(q) /\ Head(q) \in AllAnswers
         /\ Range(q) = Range(Tail(q)) \cup {Head(q)}
         /\ \A c : Cardinality(Copies(Tail(q), c)) = IF c = Head(q).call
                                                       THEN Cardinality(Copies(q, c)) - 1
                                                       ELSE Cardinality(Copies(q, c))
<1>1. PICK t \in Seq(AllAnswers) : t = Tail(q)
  <2>1. Tail(q) \in Seq(AllAnswers)
    OBVIOUS
  <2> QED
    BY <2>1, Zenon
<1>2. PICK n \in Nat : Len(q) = n + 1 /\ DOMAIN q = 1 .. (n + 1)
  OBVIOUS
<1>3. DOMAIN t = 1 .. n /\ \A k \in 1 .. n : t[k] = q[k + 1]
  BY <1>1, <1>2
<1>4. Head(q) = q[1] /\ 1 \in DOMAIN q /\ Head(q) \in AllAnswers
  BY <1>2
<1>5. Head(q) \in Range(q)
  BY <1>4, Zenon DEF Range
<1>6. \A k \in 1 .. n : k + 1 \in DOMAIN q
  BY <1>2
<1>7. \A k \in DOMAIN q : k = 1 \/ (k - 1 \in 1 .. n /\ (k - 1) + 1 = k)
  BY <1>2
<1>8. Range(q) = Range(t) \cup {Head(q)}
  <2>1. ASSUME NEW k \in DOMAIN q PROVE q[k] = Head(q) \/ q[k] \in Range(t)
    <3>1. CASE k = 1
      BY <1>4, <3>1, Zenon
    <3>2. CASE k - 1 \in 1 .. n /\ (k - 1) + 1 = k
      BY <1>3, <3>2, Zenon DEF Range
    <3> QED
      BY <1>7, <3>1, <3>2, Zenon
  <2>2. \A k \in DOMAIN t : t[k] \in Range(q)
    BY <1>3, <1>6, Zenon DEF Range
  <2> QED
    BY <1>5, <2>1, <2>2, Zenon DEF Range
<1>9. ASSUME NEW c
      PROVE  Cardinality(Copies(t, c)) = IF c = Head(q).call THEN Cardinality(Copies(q, c)) - 1
                                                             ELSE Cardinality(Copies(q, c))
  <2> DEFINE f == [k \in Copies(t, c) |-> k + 1]
  <2>1. \A k \in Copies(t, c) : k \in 1 .. n /\ k + 1 \in Copies(q, c) \ {1}
    BY <1>3, <1>6 DEF Copies
  <2>2. \A k \in Copies(q, c) \ {1} : k - 1 \in Copies(t, c) /\ (k - 1) + 1 = k
    BY <1>3, <1>7, Zenon DEF Copies
  <2>3. f \in [Copies(t, c) -> Copies(q, c) \ {1}]
    BY <2>1, Zenon
  <2>4. \A i, j \in Copies(t, c) : f[i] = f[j] => i = j
    BY <2>1
  <2>5. \A k \in Copies(q, c) \ {1} : \E i \in Copies(t, c) : f[i] = k
    BY <2>2, Zenon
  <2> HIDE DEF f
  <2>6. f \in Bijection(Copies(t, c), Copies(q, c) \ {1})
    BY <2>3, <2>4, <2>5, Zenon DEF Bijection, Injection, IsInjective, Surjection
  <2>7. ExistsBijection(Copies(t, c), Copies(q, c) \ {1})
    BY <2>6, Zenon DEF ExistsBijection
  <2>8. Cardinality(Copies(t, c)) = Cardinality(Copies(q, c) \ {1})
    <3>1. IsFiniteSet(Copies(t, c))
      BY CopiesFinite, Zenon
    <3> QED
      BY <2>7, <3>1, Zenon DEF SizeFacts, SameSizes
  <2>9. Cardinality(Copies(q, c) \ {1}) = IF 1 \in Copies(q, c) THEN Cardinality(Copies(q, c)) - 1
                                                                ELSE Cardinality(Copies(q, c))
    <3>1. IsFiniteSet(Copies(q, c))
      BY CopiesFinite, Zenon
    <3> QED
      BY <3>1, Zenon DEF SizeFacts, SetFacts, OneRemoved
  <2>10. 1 \in Copies(q, c) <=> c = Head(q).call
    BY <1>4, Zenon DEF Copies
  <2> QED
    BY <2>8, <2>9, <2>10, Zenon
<1> QED
  BY <1>1, <1>4, <1>5, <1>8, <1>9, Zenon

(* An answer of n messages at the end of a queue that has none for it.     *)
LEMMA AnswerAppended ==
  ASSUME SizeFacts, NEW q \in Seq(AllAnswers), NEW t \in Seq(AllAnswers), NEW m,
         Range(t) = {m}, Copies(q, m.call) = {}
  PROVE  /\ Range(q \o t) = Range(q) \cup {m}
         /\ Cardinality(Copies(q \o t, m.call)) = Len(t)
         /\ \A c : c # m.call => Copies(q \o t, c) = Copies(q, c)
<1>1. PICK s : s = q \o t
  BY Zenon
<1>2. PICK len \in Nat, n \in Nat : /\ Len(q) = len /\ DOMAIN q = 1 .. len
                                    /\ Len(t) = n /\ DOMAIN t = 1 .. n
  OBVIOUS
<1>3. \A k \in 1 .. n : t[k] = m
  BY <1>2, Zenon DEF Range
<1>4. n > 0
  BY <1>2 DEF Range
<1>5. /\ DOMAIN s = 1 .. (len + n)
      /\ \A k \in 1 .. len : s[k] = q[k]
      /\ \A k \in len + 1 .. len + n : s[k] = m
  <2>1. /\ DOMAIN (q \o t) = 1 .. (Len(q) + Len(t))
        /\ \A k \in 1 .. Len(q) : (q \o t)[k] = q[k]
        /\ \A k \in Len(q) + 1 .. Len(q) + Len(t) : (q \o t)[k] = t[k - Len(q)]
    OBVIOUS
  <2>2. \A k \in len + 1 .. len + n : k - len \in 1 .. n
    OBVIOUS
  <2> QED
    BY <1>1, <1>2, <1>3, <2>1, <2>2, Zenon
<1>6. DOMAIN s = DOMAIN q \cup (len + 1 .. len + n) /\ len + 1 \in len + 1 .. len + n
  BY <1>2, <1>4, <1>5
<1>7. Range(s) = Range(q) \cup {m}
  <2>1. \A k \in DOMAIN s : s[k] = m \/ s[k] \in Range(q)
    BY <1>2, <1>5, <1>6, Zenon DEF Range
  <2>2. \A k \in DOMAIN q : q[k] \in Range(s)
    BY <1>2, <1>5, <1>6, Zenon DEF Range
  <2>3. m \in Range(s)
    BY <1>5, <1>6, Zenon DEF Range
  <2> QED
    BY <2>1, <2>2, <2>3, Zenon DEF Range
<1>8. \A k \in DOMAIN q : q[k].call # m.call
  BY Zenon DEF Copies
<1>9. Copies(s, m.call) = len + 1 .. len + n
  BY <1>2, <1>5, <1>6, <1>8 DEF Copies
<1>10. Cardinality(len + 1 .. len + n) = n
  BY <1>4 DEF SizeFacts, IntervalsFinite
<1>11. \A c : c # m.call => Copies(s, c) = Copies(q, c)
  BY <1>2, <1>5, <1>6 DEF Copies
<1> QED
  BY <1>1, <1>2, <1>7, <1>9, <1>10, <1>11, Zenon

(* A step that leaves the table, the server and the buffer alone.          *)
LEMMA SameMail ==
  ASSUME Mail, UNCHANGED <<server, pending, res_msgs, inbuf>>
  PROVE  Mail'
BY Zenon DEF Mail

(* The steps of the client's loop: the answer that is read is for a call   *)
(* of the table, and the callback is called with its last message.         *)
LEMMA LoopMail ==
  ASSUME SizeFacts, Types, Waiting, Mail,
         \/ WriteToServerCb \/ PartArrives \/ ConnectionGoes
         \/ BufferedOnError \/ ReadAnswer \/ ReadPart
  PROVE  Mail'
<1>1. CASE PartArrives \/ ReadPart
  BY <1>1, SameMail, Zenon DEF PartArrives, ReadPart, tableVars
<1>2. CASE ConnectionGoes
  BY <1>2, Zenon DEF ConnectionGoes, tableVars, Mail
<1>3. CASE BufferedOnError
  BY <1>3, SameMail, CleanupOfNothing, Zenon DEF BufferedOnError, Types, ClientTypes, Mail
<1>4. CASE WriteToServerCb
  <2>1. PICK c : c = Head(exec_que)
    BY Zenon
  <2>2. exec_que # <<>> /\ inbuf' = inbuf
    BY <1>4, Zenon DEF WriteToServerCb
  <2>3. CASE UNCHANGED <<pending, res_msgs, server>>
    BY <2>2, <2>3, SameMail, Zenon
  <2>4. CASE /\ pending' = pending \cup {c} /\ server' \in {server, server \cup {c}}
             /\ res_msgs' = [d \in pending \cup {c} |-> IF d = c THEN 0 ELSE res_msgs[d]]
    <3>1. c \in Queued
      BY <2>1, <2>2 DEF Queued, Range, Types, ClientTypes
    <3>2. c \notin pending
      BY <3>1, Zenon DEF Waiting, OneEach
    <3>3. res_msgs'[c] = 0 /\ \A d \in pending : res_msgs'[d] = res_msgs[d]
      BY <2>4, <3>2, Zenon
    <3>4. Range(inbuf') = Range(inbuf) /\ \A d : Copies(inbuf', d) = Copies(inbuf, d)
      BY <2>2, Zenon
    <3>5. server' \subseteq pending' /\ \A d \in server' : res_msgs'[d] = 0
      BY <2>4, <3>3, Zenon DEF Mail
    <3>6. ASSUME NEW m \in Range(inbuf')
          PROVE  /\ m.call \in pending' \ server' /\ (~m.ok => m.n = 0)
                 /\ \A k \in Range(inbuf') : m.call = k.call => m = k
                 /\ Cardinality(Copies(inbuf', m.call)) + res_msgs'[m.call]
                      = IF m.n > 1 THEN m.n ELSE 1
      BY <2>4, <3>2, <3>3, <3>4, Zenon DEF Mail
    <3> QED
      BY <3>5, <3>6, Zenon DEF Mail
  <2> QED
    BY <1>4, <2>1, <2>3, <2>4, Zenon DEF WriteToServerCb
<1>5. CASE ReadAnswer
  <2>1. PICK m, c : m = Head(inbuf) /\ c = m.call
    BY Zenon
  <2>2. inbuf # <<>> /\ inbuf' = Tail(inbuf) /\ server' = server /\ inbuf \in Seq(AllAnswers)
    BY <1>5, Zenon DEF ReadAnswer, Types, ClientTypes
  <2>3. /\ m \in Range(inbuf) /\ m \in AllAnswers /\ Range(inbuf) = Range(inbuf') \cup {m}
        /\ inbuf' \in Seq(AllAnswers)
        /\ \A d : Cardinality(Copies(inbuf', d)) = IF d = c THEN Cardinality(Copies(inbuf, d)) - 1
                                                             ELSE Cardinality(Copies(inbuf, d))
    BY <2>1, <2>2, TailOfAnswers, Zenon
  <2>4. /\ c \in pending \ server /\ (~m.ok => m.n = 0) /\ m.n \in Nat /\ res_msgs[c] \in Nat
        /\ Cardinality(Copies(inbuf, c)) + res_msgs[c] = IF m.n > 1 THEN m.n ELSE 1
    BY <2>1, <2>3, Zenon DEF Mail, AllAnswers, Types, ClientTypes
  <2>5. \A d : Cardinality(Copies(inbuf, d)) \in Nat
    BY <2>2, CopiesFinite, Zenon
  <2>6. CASE m.ok /\ m.n > res_msgs[c] + 1
    <3>1. pending' = pending /\ res_msgs' = [res_msgs EXCEPT ![c] = @ + 1]
      BY <1>5, <2>1, <2>4, <2>6, Zenon DEF ReadAnswer, AppendResMsg
    <3>2. res_msgs'[c] = res_msgs[c] + 1 /\ \A d \in pending : d # c => res_msgs'[d] = res_msgs[d]
      BY <2>4, <3>1, Zenon DEF Types, ClientTypes
    <3>3. server' \subseteq pending' /\ \A d \in server' : res_msgs'[d] = 0
      BY <2>2, <2>4, <3>1, <3>2, Zenon DEF Mail
    <3>4. ASSUME NEW a \in Range(inbuf')
          PROVE  /\ a.call \in pending' \ server' /\ (~a.ok => a.n = 0)
                 /\ \A k \in Range(inbuf') : a.call = k.call => a = k
                 /\ Cardinality(Copies(inbuf', a.call)) + res_msgs'[a.call]
                      = IF a.n > 1 THEN a.n ELSE 1
      <4>1. /\ a \in Range(inbuf) /\ a.call \in pending \ server /\ (~a.ok => a.n = 0)
            /\ \A k \in Range(inbuf) : a.call = k.call => a = k
            /\ Cardinality(Copies(inbuf, a.call)) + res_msgs[a.call] = IF a.n > 1 THEN a.n ELSE 1
        BY <2>3, Zenon DEF Mail
      <4>2. Cardinality(Copies(inbuf', a.call)) + res_msgs'[a.call]
              = Cardinality(Copies(inbuf, a.call)) + res_msgs[a.call]
        <5>1. CASE a.call = c
          BY <2>3, <2>4, <2>5, <3>2, <5>1
        <5>2. CASE a.call # c
          BY <2>3, <3>2, <4>1, <5>2, Zenon
        <5> QED
          BY <5>1, <5>2, Zenon
      <4> QED
        BY <2>2, <2>3, <3>1, <4>1, <4>2, Zenon
    <3> QED
      BY <3>3, <3>4, Zenon DEF Mail
  <2>7. CASE ~(m.ok /\ m.n > res_msgs[c] + 1)
    <3>1. pending' = pending \ {c} /\ res_msgs' = [d \in pending \ {c} |-> res_msgs[d]]
      BY <1>5, <2>1, <2>4, <2>7, Zenon DEF ReadAnswer, RestoreContext, Restrict
    <3>2. Cardinality(Copies(inbuf, c)) <= 1
      BY <2>4, <2>5, <2>7
    <3>3. Cardinality(Copies(inbuf', c)) = 0
      BY <2>3, <2>5, <3>2, CopiesFinite
    <3>4. \A a \in Range(inbuf') : a.call # c
      BY <2>3, <3>3, CopiesFinite, Zenon
    <3>5. server' \subseteq pending' /\ \A d \in server' : res_msgs'[d] = 0
      BY <2>2, <2>4, <3>1, Zenon DEF Mail
    <3>6. ASSUME NEW a \in Range(inbuf')
          PROVE  /\ a.call \in pending' \ server' /\ (~a.ok => a.n = 0)
                 /\ \A k \in Range(inbuf') : a.call = k.call => a = k
                 /\ Cardinality(Copies(inbuf', a.call)) + res_msgs'[a.call]
                      = IF a.n > 1 THEN a.n ELSE 1
      BY <2>2, <2>3, <3>1, <3>4, Zenon DEF Mail
    <3> QED
      BY <3>5, <3>6, Zenon DEF Mail
  <2> QED
    BY <2>6, <2>7, Zenon
<1> QED
  BY <1>1, <1>2, <1>3, <1>4, <1>5, Zenon

(* What the server does with a call, and the answer it gives.              *)
LEMMA ServerStep ==
  ASSUME SizeFacts, Types, Mail, Server
  PROVE  \E c \in server, ok \in BOOLEAN, n \in Nat :
           /\ cbs = <<>> /\ ~crashed /\ server' = server \ {c} /\ ServerDoes(c, ok, n)
           /\ (~ok => n = 0) /\ (ok /\ c.cmd = "PUT" => n = 1)
           /\ Answer(c, ok, n) \in AllAnswers /\ Answer(c, ok, n).call = c
           /\ Answer(c, ok, n).ok = ok /\ Answer(c, ok, n).n = n
           /\ \A k \in Range(inbuf) : k.call # c
           /\ Range(inbuf') = Range(inbuf) \cup {Answer(c, ok, n)}
           /\ Cardinality(Copies(inbuf', c)) = (IF n > 1 THEN n ELSE 1)
           /\ \A d : d # c => Copies(inbuf', d) = Copies(inbuf, d)
           /\ UNCHANGED <<exec_que, cbs, crashed, pending, res_msgs, scriptVars, txnVars, cbVars, fut>>
<1>1. PICK c \in server, ok \in BOOLEAN, n \in Nat :
        /\ ServerAnswers(c, ok, n) /\ ServerDoes(c, ok, n) /\ (~ok => n = 0)
        /\ (ok /\ c.cmd = "PUT" => n = 1) /\ UNCHANGED <<scriptVars, txnVars, cbVars, fut>>
  BY ScriptAssumption DEF Server
<1>2. PICK more \in Nat : more = (IF n > 1 THEN n ELSE 1) /\ more > 0
  OBVIOUS
<1>3. PICK a : a = Answer(c, ok, n)
  BY Zenon
<1>4. a \in AllAnswers /\ a.call = c /\ a.ok = ok /\ a.n = n
  BY <1>3, Zenon DEF Types, ClientTypes, AllAnswers, Answer
<1>5. /\ cbs = <<>> /\ ~crashed /\ server' = server \ {c}
      /\ inbuf' = inbuf \o [k \in 1 .. more |-> a]
      /\ UNCHANGED <<exec_que, cbs, crashed, pending, res_msgs>>
  BY <1>1, <1>2, <1>3, Zenon DEF ServerAnswers, Loop, tableVars
<1>6. \A k \in Range(inbuf) : k.call # c
  BY Zenon DEF Mail
<1>7. /\ Range(inbuf') = Range(inbuf) \cup {a} /\ Cardinality(Copies(inbuf', c)) = more
      /\ \A d : d # c => Copies(inbuf', d) = Copies(inbuf, d)
  <2>1. inbuf \in Seq(AllAnswers) /\ Copies(inbuf, a.call) = {}
    BY <1>4, <1>6, Zenon DEF Types, ClientTypes, Copies, Range
  <2>2. PICK t \in Seq(AllAnswers) : t = [k \in 1 .. more |-> a]
    <3>1. [k \in 1 .. more |-> a] \in Seq(AllAnswers)
      BY <1>2, <1>4
    <3> QED
      BY <3>1, Zenon
  <2>3. Len(t) = more /\ Range(t) = {a}
    BY <1>2, <2>2 DEF Range
  <2>4. inbuf' = inbuf \o t
    BY <1>5, <2>2, Zenon
  <2>5. /\ Range(inbuf \o t) = Range(inbuf) \cup {a}
        /\ Cardinality(Copies(inbuf \o t, a.call)) = Len(t)
        /\ \A d : d # a.call => Copies(inbuf \o t, d) = Copies(inbuf, d)
    BY <2>1, <2>3, AnswerAppended, Zenon
  <2> QED
    BY <1>4, <2>3, <2>4, <2>5, Zenon
<1> QED
  BY <1>1, <1>2, <1>3, <1>4, <1>5, <1>6, <1>7, Zenon

(* A call of the server is answered once.                                  *)
LEMMA ServerMail ==
  ASSUME SizeFacts, Types, Mail, Server
  PROVE  Mail'
BY ServerStep DEF Mail

(* This part of the invariant at the start, and after every step.          *)
LEMMA InitMail == Init => Mail /\ Refused
BY DEF Init, ClientInit, Range, Mail, Refused

(* Every step keeps it.                                                    *)
LEMMA NextMail == SizeFacts /\ Types /\ Waiting /\ Mail /\ [Next]_vars => Mail'
<1> SUFFICES ASSUME SizeFacts, Types, Waiting, Mail, [Next]_vars PROVE Mail'
  BY Zenon
<1>1. CASE Script
  <2>1. ClientKept
    BY <1>1, Zenon DEF Script, Connect, Connected, Begin, Enlisted, CheckStatus, WaitForTxn, WaitForLatch,
       SendUpt, Operation, JsonExec, FutureDropped, LeaseCancelled, LeaseDropped, Sends, Quiet
  <2> QED
    BY <2>1, SameMail, Zenon DEF ClientKept, netVars, tableVars
<1>2. CASE Callback \/ UNCHANGED vars
  BY <1>2, SameMail, Zenon DEF Callback, CbDecrement, CbIncrement, CbStatus, CbSet, vars, clientVars,
     netVars, tableVars
<1>3. CASE Server
  BY <1>3, ServerMail, Zenon
<1>4. ASSUME \/ ClientStep(WriteToServerCb) \/ ClientStep(PartArrives) \/ ClientStep(ConnectionGoes)
             \/ ClientStep(BufferedOnError) \/ ClientStep(ReadAnswer) \/ ClientStep(ReadPart)
      PROVE  Mail'
  BY <1>4, LoopMail, Zenon DEF ClientStep
<1> QED
  BY <1>1, <1>2, <1>3, <1>4, Zenon DEF Next

(* A write that is out was started, and the script is not in it any more.  *)
LEMMA OutIsGone ==
  ASSUME Types, Waiting, NEW c \in Out, c.cmd \in {"PUT", "TAKE"}
  PROVE  c.op \in Op /\ Gone(c.op)
BY OutTypes, CallFuture, Zenon DEF Types, Waiting, FutureAwaitsAnswer, Fresh, Awaits, NotOut, Gone

(* What a step of the script sends: a write is one it starts or was in.    *)
LEMMA ScriptSends ==
  ASSUME Types, Script
  PROVE  /\ ClientKept /\ used \subseteq used'
         /\ pc' = "enlist" => (pc = "enlist" /\ now' = now) \/ now' \notin used
         /\ \/ exec_que' = exec_que
            \/ \E c \in AllCalls : /\ Sends(c) /\ (c.cmd = "UPT" => SendUpt)
                                   /\ c.cmd = "PUT" => c.op \notin used \/ (pc = "enlist" /\ now = c.op)
<1>1. CASE Connect \/ Begin
  BY <1>1, CallsMade, Zenon DEF Connect, Begin, Idle, Sends, Call
<1>2. CASE Connected \/ CheckStatus \/ WaitForTxn \/ WaitForLatch
  BY <1>2, Zenon DEF Connected, CheckStatus, WaitForTxn, WaitForLatch, Quiet
<1>3. CASE SendUpt
  <2>1. upts \in 1 .. MaxUpt
    BY <1>3 DEF SendUpt, Types, ScriptTypes
  <2>2. PICK st \in {"C", "R"} : Sends(Call("UPT", <<upts, st>>))
    BY <1>3, Zenon DEF SendUpt
  <2>3. Call("UPT", <<upts, st>>) \in AllCalls /\ Call("UPT", <<upts, st>>).cmd = "UPT"
    BY <2>1, CallsMade, Zenon DEF Call
  <2>4. pc' # "enlist" /\ used' = used
    BY <1>3, Zenon DEF SendUpt
  <2>5. ClientKept
    BY <2>2, Zenon DEF Sends
  <2> QED
    BY <1>3, <2>2, <2>3, <2>4, <2>5, Zenon
<1>4. CASE Enlisted
  BY <1>4, CallsMade, Zenon DEF Enlisted, Sends, Types, ScriptTypes, Call, CmdOf
<1>5. ASSUME NEW op \in Op, Operation(op) \/ JsonExec(op)
      PROVE  /\ ClientKept /\ used \subseteq used'
             /\ pc' = "enlist" => now' \notin used
             /\ \/ exec_que' = exec_que
                \/ \E c \in AllCalls : Sends(c) /\ c.cmd # "UPT" /\ c.op \notin used
  <2>1. ClientKept /\ op \notin used /\ used' = used \cup {op} /\ pc = "idle"
    BY <1>5, Zenon DEF Operation, JsonExec, Idle, Starts, Sends, Quiet
  <2>2. \/ exec_que' = exec_que /\ (pc' = "enlist" => now' = op)
        \/ pc' = pc /\ op \in Put \cup Take \cup Reads /\ Sends(Call(CmdOf(op), op))
        \/ pc' = pc /\ op \in Exec /\ Sends(Call("EXEC", op))
    <3>1. CASE Operation(op) /\ currentTxn
      BY <3>1, Zenon DEF Operation, Quiet
    <3>2. CASE Operation(op) /\ ~currentTxn
      BY <3>2, Zenon DEF Operation
    <3>3. CASE JsonExec(op)
      BY <2>1, <3>3, Zenon DEF JsonExec, Quiet
    <3> QED
      BY <1>5, <3>1, <3>2, <3>3, Zenon
  <2>3. /\ Call(CmdOf(op), op).cmd # "UPT" /\ Call(CmdOf(op), op).op = op
        /\ Call("EXEC", op).cmd # "UPT" /\ Call("EXEC", op).op = op
    BY Zenon DEF Call, CmdOf
  <2>4. /\ op \in Put \cup Take \cup Reads => Call(CmdOf(op), op) \in AllCalls
        /\ op \in Exec => Call("EXEC", op) \in AllCalls
    BY CallsMade, Zenon
  <2> QED
    BY <2>1, <2>2, <2>3, <2>4, Zenon
<1>6. ASSUME NEW op \in Op, FutureDropped(op) \/ LeaseCancelled(op) \/ LeaseDropped(op)
      PROVE  /\ ClientKept /\ used \subseteq used' /\ pc' # "enlist"
             /\ \/ exec_que' = exec_que
                \/ \E c \in AllCalls : Sends(c) /\ c.cmd \notin {"UPT", "PUT"}
  <2>1. ClientKept /\ used \subseteq used' /\ pc' # "enlist"
    BY <1>6, Zenon DEF FutureDropped, LeaseCancelled, LeaseDropped, Idle, Starts, Sends, Quiet, scriptVars
  <2>2. exec_que' = exec_que \/ (op \in Put /\ Sends(Call("UPL", op)))
    BY <1>6, Zenon DEF FutureDropped, LeaseCancelled, LeaseDropped, Quiet
  <2>3. op \in Put => Call("UPL", op) \in AllCalls
    BY CallsMade, Zenon
  <2>4. Call("UPL", op).cmd \notin {"UPT", "PUT"}
    BY Zenon DEF Call
  <2> QED
    BY <2>1, <2>2, <2>3, <2>4, Zenon
<1>7. CASE \E op \in Op : Operation(op) \/ JsonExec(op)
  BY <1>5, <1>7, Zenon
<1>8. CASE \E op \in Op : FutureDropped(op) \/ LeaseCancelled(op) \/ LeaseDropped(op)
  BY <1>6, <1>8, Zenon
<1> QED
  BY <1>1, <1>2, <1>3, <1>4, <1>7, <1>8, Zenon DEF Script

(* A write is refused once.                                                *)
LEMMA NextRefused == SizeFacts /\ Types /\ Waiting /\ Mail /\ Refused /\ [Next]_vars => Refused'
<1> SUFFICES ASSUME SizeFacts, Types, Waiting, Mail, Refused, [Next]_vars PROVE Refused'
  BY Zenon
<1>1. CASE Script
  <2>1. /\ ClientKept /\ used \subseteq used'
        /\ pc' = "enlist" => (pc = "enlist" /\ now' = now) \/ now' \notin used
    BY <1>1, ScriptSends, Zenon
  <2>2. failed' = failed /\ server' = server
    BY <2>1, Zenon DEF ClientKept, srvVars, netVars
  <2>3. \A op \in failed : Gone(op)'
    BY <2>1, Zenon DEF Refused, Gone
  <2>4. \A op \in failed : Call("PUT", op) \notin Queued'
    <3>1. CASE exec_que' = exec_que
      BY <3>1, Zenon DEF Refused, Queued
    <3>2. CASE exec_que' # exec_que
      <4>1. PICK c \in AllCalls :
              /\ Sends(c)
              /\ c.cmd = "PUT" => c.op \notin used \/ (pc = "enlist" /\ now = c.op)
        BY <1>1, <3>2, ScriptSends, Zenon
      <4>2. Queued' = Queued \cup {c}
        BY <4>1, SendOut, Zenon DEF Types
      <4>3. \A op \in failed : Call("PUT", op) # c
        BY <4>1 DEF Refused, Gone, Call
      <4> QED
        BY <4>2, <4>3, Zenon DEF Refused
    <3> QED
      BY <3>1, <3>2, Zenon
  <2> QED
    BY <2>2, <2>3, <2>4, Zenon DEF Refused
<1>2. CASE Server
  <2>1. PICK c \in server, ok \in BOOLEAN, n \in Nat :
          /\ server' = server \ {c} /\ ServerDoes(c, ok, n)
          /\ UNCHANGED <<exec_que, scriptVars>>
    BY <1>2, ServerStep
  <2>2. failed' = failed \/ (c.cmd = "PUT" /\ failed' = failed \cup {c.op})
    BY <2>1, Zenon DEF ServerDoes, srvVars
  <2>3. UNCHANGED <<pc, now, used>> /\ Queued' = Queued
    BY <2>1, Zenon DEF scriptVars, Queued
  <2>4. c \in pending /\ c \in Out /\ c \in AllCalls
    BY OutParts, OutTypes, Zenon DEF Mail, Types
  <2>5. c \notin Queued
    BY <2>4, Zenon DEF Waiting, OneEach
  <2>6. c.cmd = "PUT" => c = Call("PUT", c.op) /\ Gone(c.op)
    BY <2>4, OutIsGone, CallKinds DEF Call
  <2> QED
    BY <2>1, <2>2, <2>3, <2>5, <2>6, Zenon DEF Refused, Gone
<1>3. ASSUME UNCHANGED <<scriptVars, failed>>, Queued' \cup server' \subseteq Queued \cup server
      PROVE  Refused'
  BY <1>3, Zenon DEF scriptVars, Refused, Gone
<1>4. CASE Callback \/ UNCHANGED vars
  <2>1. UNCHANGED <<scriptVars, failed, exec_que, server>>
    BY <1>4, Zenon DEF Callback, CbDecrement, CbIncrement, CbStatus, CbSet, vars, clientVars, netVars, srvVars
  <2> QED
    BY <1>3, <2>1, Zenon DEF Queued
<1>5. CASE ClientStep(WriteToServerCb)
  <2>1. /\ exec_que # <<>> /\ exec_que' = Tail(exec_que) /\ UNCHANGED <<scriptVars, failed>>
        /\ server' \in {server, server \cup {Head(exec_que)}}
    BY <1>5, Zenon DEF ClientStep, WriteToServerCb, srvVars
  <2>2. Queued = Queued' \cup {Head(exec_que)}
    BY <2>1, QueueTail, Zenon DEF Types, Waiting
  <2> QED
    BY <1>3, <2>1, <2>2, Zenon
<1>6. ASSUME \/ ClientStep(PartArrives) \/ ClientStep(ConnectionGoes)
             \/ ClientStep(BufferedOnError) \/ ClientStep(ReadAnswer) \/ ClientStep(ReadPart)
      PROVE  Refused'
  <2>1. UNCHANGED <<scriptVars, failed, exec_que>> /\ server' \in {server, {}}
    BY <1>6, Zenon DEF ClientStep, PartArrives, ConnectionGoes, BufferedOnError, ReadAnswer, ReadPart, srvVars
  <2> QED
    BY <1>3, <2>1, Zenon DEF Queued
<1> QED
  BY <1>1, <1>2, <1>4, <1>5, <1>6, Zenon DEF Next

-----------------------------------------------------------------------------
(* The number of items that goes with a commit.                            *)

(* The answers to calls of the transaction that no callback has seen, and  *)
(* one token for each item that such a callback will count.                *)
Answers ==
  {m \in Range(inbuf) \cup (IF step = "start" THEN Range(cbs) ELSE {}) : Counted(m.call)}
TokensOf(m) == {m.call} \X (1 .. ItemsOf(m))
AllTokens(A) == UNION {TokensOf(m) : m \in A}
Tokens == AllTokens(Answers)

RefusedInTxn == failed \cap intxn

(* A commit or a rollback that has no answer yet.                          *)
UptToGo == \E c \in Queued \cup pending : c.cmd = "UPT"

(* What a commit sends when its callbacks have counted all they had to.    *)
Number == IF enlisted_counter.max_count > 0 THEN enlisted_counter.max_count ELSE -1

(* What the server has enlisted, with the writes it has refused, is what   *)
(* the callbacks have counted and what they have still to count.           *)
Balance ==
  items + Cardinality(RefusedInTxn)
    = enlisted_counter.max_count + left + Cardinality(Tokens)

Counting ==
  /\ IsFiniteSet(Tokens)
  /\ left > 0 => step = "count" /\ cbs # <<>> /\ Counted(Head(cbs).call)
  /\ intxn = {} => enlisted_counter.max_count = 0 /\ items = 0 /\ left = 0
  /\ srv # "none" /\ ~crashed => Balance
  /\ UptToGo /\ ~early /\ ~crashed => left = 0 /\ expected = Number
  /\ srv = "C" => Sealed
  /\ CommitIsWhole

(* A transaction that is sealed stays so.                                  *)
LEMMA SealedStays == Types /\ Waiting /\ Sealed /\ [Next]_vars => Sealed'
<1> SUFFICES ASSUME Types, Waiting, Sealed, [Next]_vars PROVE Sealed'
  BY Zenon
<1>1. ASSUME UNCHANGED <<status, currentTxn>> PROVE Sealed'
  BY <1>1, Zenon DEF Sealed
<1>2. CASE Connect \/ Connected \/ Enlisted \/ CheckStatus \/ WaitForTxn \/ SendUpt
  BY <1>1, <1>2, Zenon DEF Connect, Connected, Enlisted, CheckStatus, WaitForTxn, SendUpt, txnVars
<1>3. CASE Begin
  BY <1>3, Zenon DEF Begin, Sealed
<1>4. CASE WaitForLatch
  BY <1>4, Zenon DEF WaitForLatch, Sealed, txnVars
<1>5. CASE \E op \in Op : \/ Operation(op) \/ JsonExec(op) \/ FutureDropped(op)
                          \/ LeaseCancelled(op) \/ LeaseDropped(op)
  BY <1>1, <1>5, Zenon DEF Operation, JsonExec, FutureDropped, LeaseCancelled, LeaseDropped,
                    scriptVars, txnVars
<1>6. CASE CbDecrement \/ CbIncrement \/ CbSet
  BY <1>1, <1>6, Zenon DEF CbDecrement, CbIncrement, CbSet, scriptVars, txnVars
<1>7. CASE CbStatus
  BY <1>7, Zenon DEF CbStatus, Sealed, scriptVars
<1>8. CASE Server \/ UNCHANGED vars
  BY <1>1, <1>8, Zenon DEF Server, vars, scriptVars, txnVars
<1>9. ASSUME \/ ClientStep(WriteToServerCb) \/ ClientStep(PartArrives) \/ ClientStep(ConnectionGoes)
             \/ ClientStep(BufferedOnError) \/ ClientStep(ReadAnswer) \/ ClientStep(ReadPart)
      PROVE  Sealed'
  BY <1>1, <1>9, Zenon DEF ClientStep, scriptVars, txnVars
<1> QED
  BY <1>2, <1>3, <1>4, <1>5, <1>6, <1>7, <1>8, <1>9, Zenon DEF Next, Script, Callback

(* The tokens of one answer more.                                          *)
LEMMA OneMore ==
  ASSUME SizeFacts, NEW A, NEW m \in AllAnswers, IsFiniteSet(AllTokens(A)), \A k \in A : k.call # m.call
  PROVE  /\ IsFiniteSet(AllTokens(A \cup {m})) /\ ItemsOf(m) \in Nat
         /\ Cardinality(AllTokens(A)) \in Nat
         /\ Cardinality(AllTokens(A \cup {m})) = Cardinality(AllTokens(A)) + ItemsOf(m)
<1>1. PICK n \in Nat : n = ItemsOf(m)
  BY Zenon DEF ItemsOf, AllAnswers
<1>2. IsFiniteSet(1 .. n) /\ Cardinality(1 .. n) = n
  BY DEF SizeFacts, IntervalsFinite
<1>3. IsFiniteSet({m.call}) /\ Cardinality({m.call}) = 1
  BY Zenon DEF SizeFacts, SingletonSizes
<1>4. IsFiniteSet({m.call} \X (1 .. n)) /\ Cardinality({m.call} \X (1 .. n)) = n
  <2>1. PICK S, T : S = {m.call} /\ T = 1 .. n
    BY Zenon
  <2>2. IsFiniteSet(S) /\ Cardinality(S) = 1 /\ IsFiniteSet(T) /\ Cardinality(T) = n
    BY <1>2, <1>3, <2>1, Zenon
  <2>3. IsFiniteSet(S \X T) /\ Cardinality(S \X T) = Cardinality(S) * Cardinality(T)
    BY <2>2, Zenon DEF SizeFacts, ProductSizes
  <2>4. Cardinality(S \X T) = n
    BY <2>2, <2>3
  <2> QED
    BY <2>1, <2>3, <2>4, Zenon
<1>5. IsFiniteSet(TokensOf(m)) /\ Cardinality(TokensOf(m)) = n
  BY <1>1, <1>4, Zenon DEF TokensOf
<1>6. AllTokens(A \cup {m}) = AllTokens(A) \cup TokensOf(m)
  BY Zenon DEF AllTokens
<1>7. AllTokens(A) \cap TokensOf(m) = {}
  BY DEF AllTokens, TokensOf
<1>8. /\ IsFiniteSet(AllTokens(A) \cup TokensOf(m))
      /\ Cardinality(AllTokens(A) \cup TokensOf(m))
           = Cardinality(AllTokens(A)) + Cardinality(TokensOf(m))
  BY <1>5, <1>7, Zenon DEF SizeFacts, UnionSizes
<1>9. Cardinality(AllTokens(A)) \in Nat
  BY Zenon DEF SizeFacts, SetFacts, SizesNat
<1>10. Cardinality(AllTokens(A) \cup TokensOf(m)) = Cardinality(AllTokens(A)) + n
  BY <1>5, <1>8, <1>9, Zenon
<1> QED
  BY <1>1, <1>6, <1>8, <1>9, <1>10, Zenon

(* The numbers of the balance.                                             *)
LEMMA BalanceTypes ==
  ASSUME SizeFacts, Types, Counting
  PROVE  /\ IsFiniteSet(RefusedInTxn) /\ Cardinality(RefusedInTxn) \in Nat
         /\ (Cardinality(RefusedInTxn) = 0 <=> RefusedInTxn = {})
         /\ Cardinality(Tokens) \in Nat /\ enlisted_counter.max_count \in Nat
         /\ items \in Nat /\ left \in Nat
<1>1. IsFiniteSet(RefusedInTxn)
  BY ScriptAssumption, Zenon DEF Types, ScriptTypes, RefusedInTxn, SizeFacts, SetFacts, SubsetsFinite
<1> QED
  BY <1>1, Zenon DEF Counting, Types, TxnTypes, SizeFacts, SetFacts, SizesNat

(* A step that changes nothing of the count.                               *)
LEMMA SameCounting ==
  ASSUME Counting, Tokens' = Tokens, RefusedInTxn' = RefusedInTxn, intxn \subseteq intxn',
         UNCHANGED <<items, left, srv, enlisted_counter, expected>>, UptToGo' => UptToGo,
         crashed => crashed', early => early', Sealed => Sealed',
         left > 0 => step' = step /\ cbs' = cbs
  PROVE  Counting'
<1>1. left' > 0 => step' = "count" /\ cbs' # <<>> /\ Counted(Head(cbs).call)'
  BY Zenon DEF Counting, Counted
<1>2. Balance' = Balance /\ Number' = Number
  BY Zenon DEF Balance, Number
<1>3. intxn' = {} => enlisted_counter'.max_count = 0 /\ items' = 0 /\ left' = 0
  BY Zenon DEF Counting
<1>4. CommitIsWhole'
  BY Zenon DEF Counting, CommitIsWhole, RefusedInTxn
<1> QED
  BY <1>1, <1>2, <1>3, <1>4, Zenon DEF Counting

(* The answers, when they, the callback and the transaction are left alone. *)
LEMMA SameTokens ==
  ASSUME UNCHANGED <<inbuf, cbs, step, intxn>>
  PROVE  Tokens' = Tokens
BY Zenon DEF Tokens, Answers, Counted

(* The script: it reads the count when it sends a commit, and what it      *)
(* enlists is new to the server.                                           *)
LEMMA ScriptCounting ==
  ASSUME Types, Waiting, Mail, Refused, Counting, Sealed => Sealed', Script
  PROVE  Counting'
<1>1. UNCHANGED <<inbuf, cbs, step, left, srv, items, failed, crashed, pending>>
  BY ScriptSends, Zenon DEF ClientKept, netVars, tableVars, cbVars, srvVars
<1>2. ASSUME ~SendUpt PROVE UptToGo' => UptToGo
  BY <1>1, <1>2, ScriptSends, SendOut, Zenon DEF UptToGo, Queued, Types
<1>3. ASSUME UNCHANGED <<intxn, enlisted_counter, expected, early>>, ~SendUpt
      PROVE  Counting'
  BY <1>1, <1>2, <1>3, SameTokens, SameCounting, Zenon DEF RefusedInTxn
<1>4. CASE SendUpt
  <2>1. /\ UNCHANGED <<intxn, enlisted_counter>>
        /\ expected' = Number /\ early' = (early \/ left > 0)
    BY <1>4, Zenon DEF SendUpt, Number, txnVars
  <2>2. RefusedInTxn' = RefusedInTxn /\ Tokens' = Tokens /\ Number' = Number
    BY <1>1, <2>1, SameTokens, Zenon DEF RefusedInTxn, Number
  <2>3. Balance' = Balance
    BY <1>1, <2>1, <2>2, Zenon DEF Balance
  <2>4. left' > 0 => step' = "count" /\ cbs' # <<>> /\ Counted(Head(cbs).call)'
    BY <1>1, <2>1, Zenon DEF Counting, Counted
  <2>5. CommitIsWhole'
    BY <1>1, <2>1, Zenon DEF Counting, CommitIsWhole
  <2>6. ~early' => left' = 0
    <3>1. ~early' => ~(left > 0)
      BY <2>1, Zenon
    <3>2. left \in Nat /\ left' = left
      BY <1>1, Zenon DEF Types, TxnTypes
    <3>3. left > 0 \/ left = 0
      BY <3>2
    <3> QED
      BY <3>1, <3>2, <3>3, Zenon
  <2>7. /\ intxn' = {} => enlisted_counter'.max_count = 0 /\ items' = 0 /\ left' = 0
        /\ srv' = "C" => Sealed'
        /\ srv' # "none" /\ ~crashed' => Balance'
        /\ IsFiniteSet(Tokens')
    BY <1>1, <2>1, <2>2, <2>3, Zenon DEF Counting
  <2> QED
    BY <2>1, <2>2, <2>4, <2>5, <2>6, <2>7, Zenon DEF Counting
<1>5. CASE Enlisted
  <2>1. PICK op : op = now
    BY Zenon
  <2>2. /\ pc = "enlist" /\ intxn' = intxn \cup {op}
        /\ UNCHANGED <<enlisted_counter, expected, early>> /\ ~SendUpt
    BY <1>5, <2>1, Zenon DEF Enlisted, SendUpt
  <2>3. op \notin failed /\ Awaits(op)
    BY <2>1, <2>2, Zenon DEF Refused, Gone, Waiting, Fresh
  <2>4. ASSUME NEW d \in Out PROVE Counted(d)' <=> Counted(d)
    <3>1. d \in AllCalls /\ FutureOf(d) # op
      BY <2>3, OutTypes, Zenon DEF Awaits, NotOut, Types
    <3>2. d.cmd \in {"PUT", "TAKE"} => FutureOf(d) = d.op
      BY <3>1, CallFuture, Zenon
    <3> QED
      BY <2>2, <3>1, <3>2, Zenon DEF Counted
  <2>5. \A m \in Range(inbuf) \cup Range(cbs) : m.call \in Out
    BY OutParts, Zenon DEF Mail, Range, InCb
  <2>6. Answers' = Answers
    BY <1>1, <2>4, <2>5, Zenon DEF Answers
  <2>7. Tokens' = Tokens /\ RefusedInTxn' = RefusedInTxn
    BY <1>1, <2>2, <2>3, <2>6, Zenon DEF Tokens, RefusedInTxn
  <2> QED
    BY <1>1, <1>2, <2>2, <2>7, SameCounting, Zenon
<1>6. CASE Connect \/ Connected \/ Begin \/ CheckStatus \/ WaitForTxn \/ WaitForLatch
  BY <1>3, <1>6, Zenon DEF Connect, Connected, Begin, Idle, CheckStatus, WaitForTxn, WaitForLatch,
                    SendUpt, txnVars
<1>7. CASE \E op \in Op : \/ Operation(op) \/ JsonExec(op) \/ FutureDropped(op)
                          \/ LeaseCancelled(op) \/ LeaseDropped(op)
  BY <1>3, <1>7, Zenon DEF Operation, JsonExec, FutureDropped, LeaseCancelled, LeaseDropped, Idle,
                    SendUpt, scriptVars, txnVars
<1> QED
  BY <1>4, <1>5, <1>6, <1>7, Zenon DEF Script

(* The promise callbacks: what one has to count becomes what it counts.    *)
LEMMA CallbackCounting ==
  ASSUME SizeFacts, Types, Waiting, Mail, Sealing, Counting, Sealed => Sealed', Callback
  PROVE  Counting'
<1>1. PICK m, c : m = Head(cbs) /\ c = m.call
  BY Zenon
<1>2. /\ cbs # <<>> /\ ~crashed
      /\ UNCHANGED <<exec_que, pending, inbuf, crashed, intxn, early, expected, srv, items, failed>>
  BY Zenon DEF Callback, CbDecrement, CbIncrement, CbStatus, CbSet, Running, clientVars, netVars,
         tableVars, scriptVars, srvVars
<1>3. /\ InCb = {c} /\ c \in AllCalls /\ Tail(cbs) = <<>> /\ c \in Out /\ m \in AllAnswers
      /\ Range(cbs) = {m}
  BY <1>1, <1>2, TheCallback, OutParts, Zenon DEF Types
<1>4. UptToGo' = UptToGo /\ RefusedInTxn' = RefusedInTxn /\ (\A d : Counted(d)' <=> Counted(d))
  BY <1>2, Zenon DEF UptToGo, Queued, RefusedInTxn, Counted
<1>5. CASE CbDecrement
  <2>1. /\ step = "start" /\ Counted(c) /\ left' = ItemsOf(m) /\ step' = "count"
        /\ UNCHANGED <<cbs, enlisted_counter>>
    BY <1>1, <1>5, Zenon DEF CbDecrement, clientVars
  <2>2. left = 0 /\ intxn # {}
    BY <2>1 DEF Counting, Counted, Types, TxnTypes
  <2>3. \A k \in Range(inbuf) : k.call # c
    BY <1>3, Zenon DEF Mail, Waiting, OneEach
  <2>4. Answers = Answers' \cup {m} /\ \A k \in Answers' : k.call # m.call
    BY <1>1, <1>2, <1>3, <1>4, <2>1, <2>3, Zenon DEF Answers
  <2>5. PICK A : A = Answers'
    BY Zenon
  <2>6. AllTokens(A) \subseteq Tokens
    BY <2>4, <2>5, Zenon DEF Tokens, AllTokens
  <2>7. IsFiniteSet(AllTokens(A))
    BY <2>6, Zenon DEF Counting, SizeFacts, SetFacts, SubsetsFinite
  <2>8. /\ ItemsOf(m) \in Nat /\ Cardinality(AllTokens(A)) \in Nat
        /\ Cardinality(AllTokens(A \cup {m})) = Cardinality(AllTokens(A)) + ItemsOf(m)
    BY <1>3, <2>4, <2>5, <2>7, OneMore, Zenon
  <2>9. Tokens = AllTokens(A \cup {m}) /\ Tokens' = AllTokens(A)
    BY <2>4, <2>5, Zenon DEF Tokens
  <2>10. Balance => Balance'
    BY <1>2, <1>4, <2>1, <2>2, <2>8, <2>9, BalanceTypes DEF Balance
  <2>11. ~UptToGo
    BY <1>3, <2>1, OutParts, Zenon DEF CountedOut, Sealing, UptToGo, UptIsOut
  <2>12. step' = "count" /\ cbs' # <<>> /\ Counted(Head(cbs).call)'
    BY <1>1, <1>2, <1>4, <2>1, Zenon
  <2>13. CommitIsWhole' /\ (srv' = "C" => Sealed')
    BY <1>2, Zenon DEF Counting, CommitIsWhole
  <2>14. (srv' # "none" /\ ~crashed' => Balance') /\ IsFiniteSet(Tokens') /\ intxn' # {} /\ ~UptToGo'
    BY <1>2, <1>4, <2>2, <2>7, <2>9, <2>10, <2>11, Zenon DEF Counting
  <2> QED
    BY <2>12, <2>13, <2>14, Zenon DEF Counting
<1>6. CASE CbIncrement
  <2>1. /\ left > 0 /\ step = "count" /\ left' = left - 1 /\ UNCHANGED <<cbs, step>>
        /\ enlisted_counter'.max_count = enlisted_counter.max_count + 1
    BY <1>6, Zenon DEF CbIncrement, clientVars, LatchIncrement, Types, TxnTypes, Latch
  <2>2. Counted(Head(cbs).call)' /\ cbs' # <<>> /\ step' = "count" /\ intxn' # {}
    BY <1>2, <2>1, Zenon DEF Counting, Counted
  <2>3. Tokens' = Tokens
    BY <1>2, <2>1, SameTokens, Zenon
  <2>4. Balance => Balance'
    BY <1>2, <1>4, <2>1, <2>3, BalanceTypes DEF Balance
  <2>5. CommitIsWhole' /\ (srv' = "C" => Sealed') /\ IsFiniteSet(Tokens')
    BY <1>2, <2>3, Zenon DEF Counting, CommitIsWhole
  <2>6. UptToGo => early
    BY <1>2, <2>1 DEF Counting
  <2>7. srv' # "none" /\ ~crashed' => Balance'
    BY <1>2, <2>4, Zenon DEF Counting
  <2> QED
    BY <1>2, <1>4, <2>2, <2>5, <2>6, <2>7, Zenon DEF Counting
<1>7. CASE CbStatus
  <2>1. step = "start" /\ c.cmd \in {"STA", "UPT"} /\ step' = "count"
        /\ UNCHANGED <<cbs, left, enlisted_counter>>
    BY <1>1, <1>7, Zenon DEF CbStatus, clientVars
  <2>2. ~(left > 0) /\ ~Counted(c)
    BY <2>1, Zenon DEF Counting, Counted
  <2>3. Answers' = Answers
    BY <1>1, <1>2, <1>3, <1>4, <2>1, <2>2, Zenon DEF Answers
  <2>4. Tokens' = Tokens
    BY <2>3, Zenon DEF Tokens
  <2> QED
    BY <1>2, <1>4, <2>1, <2>2, <2>4, SameCounting, Zenon
<1>8. CASE CbSet
  <2>1. /\ (step = "count" /\ left = 0) \/ ~Counted(c)
        /\ cbs' = <<>> /\ step' = "start" /\ UNCHANGED <<left, enlisted_counter>>
    BY <1>1, <1>3, <1>8, Zenon DEF CbSet, txnVars
  <2>2. ~(left > 0) /\ Range(cbs') = {}
    BY <1>1, <2>1 DEF Counting, Range
  <2>3. Answers' = Answers
    BY <1>1, <1>2, <1>3, <1>4, <2>1, <2>2, Zenon DEF Answers
  <2>4. Tokens' = Tokens
    BY <2>3, Zenon DEF Tokens
  <2> QED
    BY <1>2, <1>4, <2>1, <2>2, <2>4, SameCounting, Zenon
<1> QED
  BY <1>5, <1>6, <1>7, <1>8, Zenon DEF Callback

(* The steps of the client's loop: an answer that is read goes to its      *)
(* callback with the last of its messages.                                 *)
LEMMA LoopCounting ==
  ASSUME SizeFacts, Types, Waiting, Mail, Sealing, Counting, Sealed => Sealed',
         UNCHANGED <<scriptVars, txnVars, cbVars, srvVars>>,
         \/ WriteToServerCb \/ PartArrives \/ ConnectionGoes
         \/ BufferedOnError \/ ReadAnswer \/ ReadPart
  PROVE  Counting'
<1>1. /\ UNCHANGED <<intxn, step, left, srv, items, failed, enlisted_counter, expected, early>>
      /\ cbs = <<>> /\ ~crashed /\ step = "start"
  BY Zenon DEF scriptVars, txnVars, cbVars, srvVars, WriteToServerCb, PartArrives, ConnectionGoes,
         BufferedOnError, ReadAnswer, ReadPart, Loop, OnRead, Sealing
<1>2. ~(left > 0) /\ RefusedInTxn' = RefusedInTxn /\ (\A d : Counted(d)' <=> Counted(d))
  BY <1>1, Zenon DEF Counting, RefusedInTxn, Counted
<1>3. ASSUME Tokens' = Tokens, UptToGo' => UptToGo PROVE Counting'
  BY <1>1, <1>2, <1>3, SameCounting, Zenon
<1>4. CASE PartArrives \/ ConnectionGoes \/ ReadPart
  <2>1. UNCHANGED <<exec_que, pending, cbs, inbuf>>
    BY <1>4, Zenon DEF PartArrives, ConnectionGoes, ReadPart, tableVars
  <2> QED
    BY <1>1, <1>3, <2>1, SameTokens, Zenon DEF UptToGo, Queued
<1>5. CASE BufferedOnError
  <2>1. UNCHANGED <<exec_que, inbuf>>
    BY <1>5, Zenon DEF BufferedOnError
  <2>2. UNCHANGED <<cbs, pending>>
    <3>1. CASE task_count # 0
      BY <1>5, <3>1, Zenon DEF BufferedOnError
    <3>2. CASE task_count = 0
      BY <1>1, <1>5, <3>2, CleanupOfNothing, Zenon DEF BufferedOnError, Types, ClientTypes
    <3> QED
      BY <3>1, <3>2, Zenon
  <2> QED
    BY <1>1, <1>3, <2>1, <2>2, SameTokens, Zenon DEF UptToGo, Queued
<1>6. CASE WriteToServerCb
  <2>1. /\ exec_que # <<>> /\ exec_que' = Tail(exec_que) /\ UNCHANGED <<cbs, inbuf>>
        /\ pending' \in {pending, pending \cup {Head(exec_que)}}
    BY <1>6, Zenon DEF WriteToServerCb
  <2>2. Queued = Queued' \cup {Head(exec_que)}
    BY <2>1, QueueTail, Zenon DEF Types, Waiting
  <2> QED
    BY <1>1, <1>3, <2>1, <2>2, SameTokens, Zenon DEF UptToGo
<1>7. CASE ReadAnswer
  <2>1. PICK m, c : m = Head(inbuf) /\ c = m.call
    BY Zenon
  <2>2. /\ inbuf # <<>> /\ inbuf' = Tail(inbuf) /\ inbuf \in Seq(AllAnswers) /\ exec_que' = exec_que
        /\ Range(cbs) = {}
    <3>1. cbs = <<>>
      BY <1>7, Zenon DEF ReadAnswer, OnRead
    <3>2. Range(cbs) = {}
      BY <3>1 DEF Range
    <3> QED
      BY <1>7, <3>2, Zenon DEF ReadAnswer, Types, ClientTypes
  <2>3. /\ m \in Range(inbuf) /\ m \in AllAnswers /\ Range(inbuf) = Range(inbuf') \cup {m}
        /\ inbuf' \in Seq(AllAnswers)
        /\ Cardinality(Copies(inbuf', c)) = Cardinality(Copies(inbuf, c)) - 1
    BY <2>1, <2>2, TailOfAnswers, Zenon
  <2>4. /\ c \in pending /\ (~m.ok => m.n = 0) /\ m.n \in Nat /\ res_msgs[c] \in Nat
        /\ Cardinality(Copies(inbuf, c)) + res_msgs[c] = IF m.n > 1 THEN m.n ELSE 1
        /\ \A k \in Range(inbuf) : m.call = k.call => m = k
    BY <2>1, <2>3, Zenon DEF Mail, AllAnswers, Types, ClientTypes
  <2>5. Cardinality(Copies(inbuf, c)) \in Nat
    BY <2>2, CopiesFinite, Zenon
  <2>6. ASSUME Answers' = Answers, pending' \subseteq pending PROVE Counting'
    BY <1>3, <2>2, <2>6, Zenon DEF Tokens, UptToGo, Queued
  <2>7. CASE m.ok /\ m.n > res_msgs[c] + 1
    <3>1. UNCHANGED <<pending, cbs>>
      BY <1>7, <2>1, <2>4, <2>7, Zenon DEF ReadAnswer
    <3>2. Cardinality(Copies(inbuf', c)) # 0
      BY <2>3, <2>4, <2>5, <2>7
    <3>3. PICK k \in Range(inbuf') : k.call = c
      BY <2>3, <3>2, CopiesFinite, Zenon
    <3>4. k = m
      BY <2>1, <2>3, <2>4, <3>3, Zenon
    <3>5. Range(inbuf') = Range(inbuf)
      BY <2>3, <3>3, <3>4, Zenon
    <3> QED
      BY <1>1, <1>2, <2>6, <3>1, <3>5, Zenon DEF Answers
  <2>8. CASE ~(m.ok /\ m.n > res_msgs[c] + 1)
    <3>1. pending' = pending \ {c} /\ cbs' = <<m>>
      BY <1>7, <2>1, <2>4, <2>8, Zenon DEF ReadAnswer, RestoreContext
    <3>2. Range(cbs') = {m}
      BY <3>1 DEF Range
    <3> QED
      BY <1>1, <1>2, <2>2, <2>3, <2>6, <3>1, <3>2, Zenon DEF Answers
  <2> QED
    BY <2>7, <2>8, Zenon
<1> QED
  BY <1>4, <1>5, <1>6, <1>7, Zenon

(* The server: what it enlists or refuses will be counted, and it accepts  *)
(* a commit only if nothing was refused, unless the number was read early. *)
LEMMA ServerCounting ==
  ASSUME SizeFacts, Types, Waiting, Mail, Sealing, Refused, Counting, Sealed => Sealed', Server
  PROVE  Counting'
<1>1. PICK c \in server, ok \in BOOLEAN, n \in Nat :
        /\ cbs = <<>> /\ ~crashed /\ ServerDoes(c, ok, n)
        /\ (~ok => n = 0) /\ (ok /\ c.cmd = "PUT" => n = 1)
        /\ Answer(c, ok, n) \in AllAnswers /\ Answer(c, ok, n).call = c
        /\ Answer(c, ok, n).n = n
        /\ \A k \in Range(inbuf) : k.call # c
        /\ Range(inbuf') = Range(inbuf) \cup {Answer(c, ok, n)}
        /\ UNCHANGED <<exec_que, cbs, crashed, pending, scriptVars, txnVars, cbVars>>
  BY ServerStep
<1>2. PICK m \in AllAnswers :
        /\ m.call = c /\ m.n = n /\ m = Answer(c, ok, n)
        /\ Range(inbuf') = Range(inbuf) \cup {m} /\ \A k \in Range(inbuf) : k.call # m.call
  BY <1>1, Zenon
<1>3. /\ UNCHANGED <<exec_que, cbs, crashed, pending, intxn, early, expected, step, left, enlisted_counter>>
      /\ Range(cbs) = {} /\ step = "start" /\ ~(left > 0)
  <2>1. step = "start" /\ ~(left > 0)
    BY <1>1, Zenon DEF Sealing, Counting
  <2>2. Range(cbs) = {}
    BY <1>1 DEF Range
  <2> QED
    BY <1>1, <2>1, <2>2, Zenon DEF scriptVars, txnVars, cbVars
<1>4. c \in pending /\ c \in Out /\ c \in AllCalls /\ UptToGo' = UptToGo /\ Number' = Number
  BY <1>3, OutParts, OutTypes, Zenon DEF Mail, Types, UptToGo, Queued, Number
<1>5. Answers' = IF Counted(c) THEN Answers \cup {m} ELSE Answers
  BY <1>2, <1>3, Zenon DEF Answers, Counted
<1>6. UptToGo => UptIsOut
  BY OutParts, Zenon DEF UptToGo, UptIsOut
<1>7. CASE c.cmd = "STA" /\ ok
  <2>1. srv' = "open" /\ UNCHANGED <<items, failed>>
    BY <1>1, <1>7, Zenon DEF ServerDoes
  <2>2. intxn = {}
    <3>1. c = Call("STA", NoOp)
      BY <1>4, <1>7, CallKinds DEF Call
    <3> QED
      BY <1>4, <3>1, Zenon DEF Sealing
  <2>3. Answers = {} /\ Answers' = {} /\ RefusedInTxn' = {} /\ RefusedInTxn = {}
    BY <1>3, <2>1, <2>2, Zenon DEF Answers, Counted, RefusedInTxn
  <2>4. Tokens' = {} /\ Tokens = {}
    BY <2>3, Zenon DEF Tokens, AllTokens
  <2>5. enlisted_counter'.max_count = 0 /\ items' = 0 /\ left' = 0
    BY <1>3, <2>1, <2>2, Zenon DEF Counting
  <2>6. Cardinality({}) = 0 /\ IsFiniteSet({})
    BY Zenon DEF SizeFacts, SetFacts, NoneInEmpty
  <2>7. Balance'
    BY <2>3, <2>4, <2>5, <2>6 DEF Balance
  <2>8. CommitIsWhole' /\ srv' # "C"
    BY <2>1, Zenon DEF CommitIsWhole
  <2>9. UptToGo' /\ ~early' /\ ~crashed' => left' = 0 /\ expected' = Number'
    BY <1>3, <1>4, Zenon DEF Counting
  <2>10. IsFiniteSet(Tokens') /\ ~(left' > 0)
    BY <2>4, <2>5, <2>6
  <2> QED
    BY <2>5, <2>7, <2>8, <2>9, <2>10, Zenon DEF Counting
<1>8. CASE c.cmd = "UPT" /\ ok
  <2>1. srv = "open" /\ srv' = c.op[2] /\ (srv' = "C" => NumberRight) /\ UNCHANGED <<items, failed>>
    BY <1>1, <1>8, Zenon DEF ServerDoes
  <2>2. UptToGo /\ UptIsOut /\ Sealed /\ CountedOut = {}
    BY <1>4, <1>8, Zenon DEF UptToGo, UptIsOut, Sealing
  <2>3. Answers = {} /\ ~Counted(c)
    BY <1>3, <1>4, <2>2, Zenon DEF Mail, Answers, CountedOut
  <2>4. Tokens = {} /\ Tokens' = Tokens /\ RefusedInTxn' = RefusedInTxn
    BY <1>3, <1>5, <2>1, <2>3, Zenon DEF Tokens, AllTokens, RefusedInTxn
  <2>5. Balance /\ Balance' = Balance
    BY <1>1, <1>3, <2>1, <2>4, Zenon DEF Counting, Balance
  <2>6. CommitIsWhole'
    <3>1. CASE srv' = "C" /\ ~early'
      <4>1. left = 0 /\ expected = Number
        BY <1>1, <1>3, <2>2, <3>1, Zenon DEF Counting
      <4>2. Cardinality(Tokens) = 0
        BY <2>4, Zenon DEF SizeFacts, SetFacts, NoneInEmpty
      <4>3. items + Cardinality(RefusedInTxn) = enlisted_counter.max_count
        BY <2>5, <4>1, <4>2, BalanceTypes DEF Balance
      <4>4. expected = -1 \/ expected = items
        BY <2>1, <3>1, Zenon DEF NumberRight
      <4>5. Cardinality(RefusedInTxn) = 0
        BY <4>1, <4>3, <4>4, BalanceTypes DEF Number
      <4>6. RefusedInTxn = {}
        BY <4>5, BalanceTypes, Zenon
      <4> QED
        BY <2>4, <4>6, Zenon DEF CommitIsWhole, RefusedInTxn
    <3> QED
      BY <3>1, Zenon DEF CommitIsWhole
  <2>7. /\ intxn' = {} => enlisted_counter'.max_count = 0 /\ items' = 0 /\ left' = 0
        /\ UptToGo' /\ ~early' /\ ~crashed' => left' = 0 /\ expected' = Number'
        /\ IsFiniteSet(Tokens') /\ ~(left' > 0)
    BY <1>3, <1>4, <2>1, <2>4, Zenon DEF Counting
  <2> QED
    BY <2>2, <2>5, <2>6, <2>7, Zenon DEF Counting
<1>9. CASE Counted(c)
  <2>1. c \in CountedOut /\ ~Sealed /\ ~UptIsOut
    BY <1>4, <1>9, Zenon DEF CountedOut, Sealing
  <2>2. srv # "C" /\ ~UptToGo /\ c.op \in intxn /\ c.cmd \in {"PUT", "TAKE"} /\ intxn' # {}
    BY <1>3, <1>6, <1>9, <2>1, Zenon DEF Counting, Counted
  <2>3. Answers' = Answers \cup {m} /\ \A k \in Answers : k.call # m.call
    BY <1>2, <1>3, <1>5, <1>9, Zenon DEF Answers
  <2>4. /\ IsFiniteSet(Tokens') /\ ItemsOf(m) \in Nat /\ Cardinality(Tokens) \in Nat
        /\ Cardinality(Tokens') = Cardinality(Tokens) + ItemsOf(m)
    <3>1. PICK A : A = Answers
      BY Zenon
    <3>2. IsFiniteSet(AllTokens(A))
      BY <3>1, Zenon DEF Counting, Tokens
    <3>3. /\ IsFiniteSet(AllTokens(A \cup {m})) /\ ItemsOf(m) \in Nat
          /\ Cardinality(AllTokens(A)) \in Nat
          /\ Cardinality(AllTokens(A \cup {m})) = Cardinality(AllTokens(A)) + ItemsOf(m)
      BY <1>2, <2>3, <3>1, <3>2, OneMore, Zenon
    <3>4. Tokens = AllTokens(A) /\ Tokens' = AllTokens(A \cup {m})
      BY <2>3, <3>1, Zenon DEF Tokens
    <3> QED
      BY <3>3, <3>4, Zenon
  <2>5. ItemsOf(m) = IF c.cmd = "PUT" THEN 1 ELSE n
    BY <1>2, Zenon DEF ItemsOf
  <2>6. srv' = srv /\ (srv # "none" => items' + Cardinality(RefusedInTxn')
                                         = items + Cardinality(RefusedInTxn) + ItemsOf(m))
    <3>1. CASE ok
      <4>1. srv \in {"open", "none"} /\ UNCHANGED <<srv, failed>>
            /\ items' = IF srv = "open" THEN items + n ELSE items
        BY <1>1, <2>2, <3>1, Zenon DEF ServerDoes
      <4>2. RefusedInTxn' = RefusedInTxn
        BY <1>3, <4>1, Zenon DEF RefusedInTxn
      <4>3. ItemsOf(m) = n
        BY <1>1, <2>2, <2>5, <3>1, Zenon
      <4> QED
        BY <4>1, <4>2, <4>3, BalanceTypes
    <3>2. CASE ~ok /\ c.cmd = "PUT"
      <4>1. failed' = failed \cup {c.op} /\ UNCHANGED <<srv, items>>
        BY <1>1, <3>2, Zenon DEF ServerDoes
      <4>2. c = Call("PUT", c.op)
        BY <1>4, <3>2, CallKinds DEF Call
      <4>3. c.op \notin failed
        BY <4>2, Zenon DEF Refused
      <4>4. RefusedInTxn' = RefusedInTxn \cup {c.op} /\ c.op \notin RefusedInTxn
        BY <1>3, <2>2, <4>1, <4>3, Zenon DEF RefusedInTxn
      <4>5. Cardinality(RefusedInTxn \cup {c.op}) = Cardinality(RefusedInTxn) + 1
        <5>1. IsFiniteSet(RefusedInTxn)
          BY BalanceTypes, Zenon
        <5> QED
          BY <4>4, <5>1, Zenon DEF SizeFacts, SetFacts, OneAdded
      <4> QED
        BY <2>5, <3>2, <4>1, <4>4, <4>5, BalanceTypes
    <3>3. CASE ~ok /\ c.cmd = "TAKE"
      <4>1. UNCHANGED <<srv, items, failed>>
        BY <1>1, <3>3, Zenon DEF ServerDoes, srvVars
      <4>2. RefusedInTxn' = RefusedInTxn /\ ItemsOf(m) = 0
        BY <1>1, <1>3, <2>5, <3>3, <4>1, Zenon DEF RefusedInTxn
      <4> QED
        BY <4>1, <4>2, BalanceTypes
    <3> QED
      BY <2>2, <3>1, <3>2, <3>3, Zenon
  <2>7. srv' # "none" => Balance'
    <3>1. srv # "none" => Balance
      BY <1>1, Zenon DEF Counting
    <3>2. left' = left /\ enlisted_counter' = enlisted_counter
      BY <1>3, Zenon
    <3> QED
      BY <2>4, <2>6, <3>1, <3>2, BalanceTypes DEF Balance
  <2>8. CommitIsWhole' /\ srv' # "C" /\ ~UptToGo' /\ ~(left' > 0)
    BY <1>3, <1>4, <2>2, <2>6, Zenon DEF CommitIsWhole
  <2> QED
    BY <2>2, <2>4, <2>7, <2>8, Zenon DEF Counting
<1>10. CASE ~Counted(c) /\ ~(c.cmd \in {"STA", "UPT"} /\ ok)
  <2>1. UNCHANGED <<srv, items>>
    BY <1>1, <1>10, Zenon DEF ServerDoes, srvVars, Counted
  <2>2. RefusedInTxn' = RefusedInTxn
    BY <1>1, <1>3, <1>10, Zenon DEF ServerDoes, srvVars, Counted, RefusedInTxn
  <2>3. Tokens' = Tokens
    BY <1>5, <1>10, Zenon DEF Tokens
  <2> QED
    BY <1>3, <1>4, <2>1, <2>2, <2>3, SameCounting, Zenon
<1> QED
  BY <1>7, <1>8, <1>9, <1>10, Zenon

(* This part of the invariant at the start.                                *)
LEMMA InitCounting == SizeFacts /\ Init => Counting
<1> SUFFICES ASSUME SizeFacts, Init PROVE Counting
  BY Zenon
<1>1. /\ inbuf = <<>> /\ cbs = <<>> /\ exec_que = <<>> /\ pending = {} /\ left = 0 /\ items = 0
      /\ srv = "none" /\ enlisted_counter.max_count = 0
  BY Zenon DEF Init, ClientInit, LatchNew
<1>2. Answers = {} /\ ~UptToGo /\ CommitIsWhole
  BY <1>1 DEF Answers, Range, UptToGo, Queued, CommitIsWhole
<1>3. Tokens = {}
  BY <1>2, Zenon DEF Tokens, AllTokens
<1> QED
  BY <1>1, <1>2, <1>3 DEF Counting, SizeFacts, SetFacts, NoneInEmpty

(* Every step keeps it.                                                    *)
LEMMA NextCounting ==
  SizeFacts /\ Types /\ Waiting /\ Sealing /\ Mail /\ Refused /\ Counting /\ [Next]_vars => Counting'
<1> SUFFICES ASSUME SizeFacts, Types, Waiting, Sealing, Mail, Refused, Counting, [Next]_vars PROVE Counting'
  BY Zenon
<1>1. Sealed => Sealed'
  BY SealedStays, Zenon
<1>2. CASE Script
  BY <1>1, <1>2, ScriptCounting, Zenon
<1>3. CASE Callback
  BY <1>1, <1>3, CallbackCounting, Zenon
<1>4. CASE Server
  BY <1>1, <1>4, ServerCounting, Zenon
<1>5. ASSUME \/ ClientStep(WriteToServerCb) \/ ClientStep(PartArrives) \/ ClientStep(ConnectionGoes)
             \/ ClientStep(BufferedOnError) \/ ClientStep(ReadAnswer) \/ ClientStep(ReadPart)
      PROVE  Counting'
  BY <1>1, <1>5, LoopCounting, Zenon DEF ClientStep
<1>6. CASE UNCHANGED vars
  <2>1. UNCHANGED <<inbuf, cbs, step, intxn, items, left, srv, enlisted_counter, expected,
                    exec_que, pending, crashed, early, failed>>
    BY <1>6, Zenon DEF vars, clientVars, scriptVars, txnVars, cbVars, srvVars, tableVars, netVars
  <2>2. Tokens' = Tokens /\ RefusedInTxn' = RefusedInTxn /\ UptToGo' = UptToGo
    BY <2>1, SameTokens, Zenon DEF RefusedInTxn, UptToGo, Queued
  <2> QED
    BY <1>1, <2>1, <2>2, SameCounting, Zenon
<1> QED
  BY <1>2, <1>3, <1>4, <1>5, <1>6, Zenon DEF Next

(* The whole invariant.                                                    *)
KernelInv == Types /\ Waiting /\ Sealing /\ Mail /\ Refused /\ Counting

(* It holds at the start.                                                  *)
LEMMA InitKernelInv == SizeFacts /\ Init => KernelInv
BY InitTypes, InitWaiting, InitSealing, InitMail, InitCounting, Zenon DEF KernelInv, SizeFacts

(* Every step keeps it.                                                    *)
LEMMA NextKernelInv == SizeFacts /\ KernelInv /\ [Next]_vars => KernelInv'
<1> SUFFICES ASSUME SizeFacts, KernelInv, [Next]_vars PROVE KernelInv'
  BY Zenon
<1>1. SetFacts /\ Types /\ Waiting /\ Sealing /\ Mail /\ Refused /\ Counting
  BY Zenon DEF KernelInv, SizeFacts
<1>2. Types' /\ Waiting' /\ Sealing'
  BY <1>1, NextTypes, NextWaiting, NextSealing, Zenon
<1>3. Mail' /\ Refused' /\ Counting'
  BY <1>1, NextMail, NextRefused, NextCounting, Zenon
<1> QED
  BY <1>2, <1>3, Zenon DEF KernelInv

(* The invariant implies the properties.                                   *)
LEMMA KernelInvImplies ==
  ASSUME KernelInv
  PROVE  CommitIsWhole /\ UptComesLast /\ ThrownWithCause /\ (LatchBounded => TypeOK)
<1>1. CommitIsWhole /\ ThrownWithCause
  BY Zenon DEF KernelInv, Counting, Sealing
<1>2. Types /\ Sealing
  BY Zenon DEF KernelInv
<1>3. UptComesLast
  BY <1>2, Zenon DEF UptComesLast, UptIsOut, Sealing, CountedOut, Queued
<1>4. LatchBounded => TypeOK
  BY <1>2, OutTypes, Zenon DEF Types, ClientTypes, ScriptTypes, TxnTypes, Name, TypeOK, LatchBounded
<1> QED
  BY <1>1, <1>3, <1>4, Zenon

-----------------------------------------------------------------------------
(* The theorems.  The library's theory of finite sets is brought in last:  *)
(* the proofs above use only the facts named SetFacts and SizeFacts.       *)

INSTANCE FiniteSetTheorems

(* The facts about finite sets that the proofs use.                        *)
LEMMA SizeFactsHold == SizeFacts
<1>1. SubsetsFinite
  BY FS_Subset, Zenon DEF SubsetsFinite
<1>2. SizesNat
  BY FS_CardinalityType, FS_EmptySet, Zenon DEF SizesNat
<1>3. NoneInEmpty
  BY FS_EmptySet, Zenon DEF NoneInEmpty
<1>4. OneAdded /\ OneRemoved
  BY FS_AddElement, FS_RemoveElement, Zenon DEF OneAdded, OneRemoved
<1>5. ImagesFinite
  BY FS_Surjection, Zenon DEF ImagesFinite
<1>6. IntervalsFinite
  BY FS_Interval, Zenon DEF IntervalsFinite
<1>7. SameSizes
  BY FS_Bijection, Zenon DEF SameSizes
<1>8. SingletonSizes
  BY FS_Singleton, Zenon DEF SingletonSizes
<1>9. ProductSizes
  BY FS_Product, Zenon DEF ProductSizes
<1>10. UnionSizes
  <2> SUFFICES ASSUME NEW S, NEW T, IsFiniteSet(S), IsFiniteSet(T), S \cap T = {}
               PROVE  IsFiniteSet(S \cup T) /\ Cardinality(S \cup T) = Cardinality(S) + Cardinality(T)
    BY Zenon DEF UnionSizes
  <2>1. IsFiniteSet(S \cup T)
          /\ Cardinality(S \cup T) = Cardinality(S) + Cardinality(T) - Cardinality(S \cap T)
    BY FS_Union, Zenon
  <2>2. Cardinality(S) \in Nat /\ Cardinality(T) \in Nat /\ Cardinality(S \cap T) = 0
    BY FS_CardinalityType, FS_EmptySet, Zenon
  <2>3. PICK a \in Nat, b \in Nat : a = Cardinality(S) /\ b = Cardinality(T)
    BY <2>2, Zenon
  <2>4. a + b - 0 = a + b
    OBVIOUS
  <2> QED
    BY <2>1, <2>2, <2>3, <2>4, Zenon
<1> QED
  BY <1>1, <1>2, <1>3, <1>4, <1>5, <1>6, <1>7, <1>8, <1>9, <1>10, Zenon DEF SizeFacts, SetFacts

(* The invariant holds in every state that the kernel reaches.             *)
LEMMA KernelInvariant == Spec => [](KernelInv /\ LatchBounded)
<1>1. Init => KernelInv /\ ~crashed
  BY InitKernelInv, SizeFactsHold, Zenon DEF Init, ClientInit
<1>2. KernelInv /\ [Next]_vars => KernelInv'
  BY NextKernelInv, SizeFactsHold, Zenon
<1>3. KernelInv /\ ~crashed => LatchBounded
  BY LatchBoundedWhileUp, SizeFactsHold, Zenon DEF KernelInv, SizeFacts
<1> QED
  BY <1>1, <1>2, <1>3, LatchStays, PTL DEF Spec

(* Types, and the values of the latches, the queues and the flags: the     *)
(* latch of the operations that are out never goes below zero, and never   *)
(* above the number of writes and takes.                                   *)
THEOREM KernelTypes == Spec => []TypeOK
BY KernelInvariant, KernelInvImplies, PTL

(* _oes_upt_txn waits for the latch: when a commit or a rollback is on its *)
(* way no write or take of the transaction is out, with any number of      *)
(* operations and of commits that are tried again.                         *)
THEOREM CommitsComeLast == Spec => []UptComesLast
BY KernelInvariant, KernelInvImplies, PTL

(* A script that is told that its transaction is not active has ended it   *)
(* before, has done nothing in it, or its begin has failed.                *)
THEOREM ThrowsHaveCause == Spec => []ThrownWithCause
BY KernelInvariant, KernelInvImplies, PTL

(* A transaction that the server commits has every write of the script,    *)
(* unless the number of its items was read between the two latches of a    *)
(* callback: a write that was refused is counted by its callback and not   *)
(* by the server, and a commit with the wrong number is not accepted.      *)
THEOREM CommitsAreWhole == Spec => []CommitIsWhole
BY KernelInvariant, KernelInvImplies, PTL

(* The answers in the buffer are for calls of the table.                   *)
AnswersHaveContext == \A m \in Range(inbuf) : m.call \in pending

(* The assertion of _restore_context does not fail on a complete answer,   *)
(* in whatever order the server answers and however many results it sends. *)
THEOREM ContextsAreFound == Spec => []AnswersHaveContext
<1>1. KernelInv => AnswersHaveContext
  BY Zenon DEF KernelInv, Mail, AnswersHaveContext
<1> QED
  BY <1>1, KernelInvariant, PTL

=============================================================================
