----------------------------- MODULE OepClient -----------------------------
(***************************************************************************)
(* The client side of the protocol (corelib/OepClient.c): commands are     *)
(* given to the loop thread, written to the server and kept in a table     *)
(* until their answer comes back, in whatever order and in whatever pieces *)
(* it arrives.                                                             *)
(*                                                                         *)
(* The module is a component: who calls and what the callbacks do is left  *)
(* to the module that extends it (OesKernel).                              *)
(***************************************************************************)
EXTENDS Integers, Sequences, FiniteSets, Functions

CONSTANT
  MaxParts    \* into how many pieces an answer may be cut

VARIABLES
  state,      \* the flags CONNECTED and CLOSING of the session
  task_count, \* outstanding_task_count of the session
  idset,      \* the session is in the set of sessions
  table,      \* the table of pending calls: "live" or "freed"
  pending,    \* the calls in it
  res_msgs,   \* per call in it: how many results have arrived
  exec_que,   \* calls on their way to the loop
  cbs,        \* callbacks the loop has to run, the first one running
  reading,    \* the loop is in a batch of answers
  conn,       \* the connection is "up", "lost", or "seen" to be lost
  server,     \* calls the server has and has not answered
  inbuf,      \* answers that have arrived
  part,       \* pieces of one more have arrived
  readable,   \* the read callback is due
  crashed     \* an assertion has failed

netVars == <<conn, server, inbuf, part, readable>>
tableVars == <<task_count, idset, table, pending, res_msgs>>
clientVars == <<state, exec_que, cbs, reading, crashed, netVars, tableVars>>

(* A command of the kernel's interface, for one of the caller's objects.   *)
Cmd == {"CON", "STA", "UPT", "PUT", "TAKE", "READ", "UPL", "EXEC"}
Call(cmd, op) == [cmd |-> cmd, op |-> op]

(* An answer: an error, or ok with the number of results the call has.     *)
Answer(c, ok, n) == [call |-> c, ok |-> ok, n |-> n]

ClientInit ==
  /\ state = {} /\ task_count = 0 /\ idset = TRUE
  /\ table = "live" /\ pending = {} /\ res_msgs = <<>>
  /\ exec_que = <<>> /\ cbs = <<>> /\ reading = FALSE
  /\ conn = "up" /\ server = {} /\ inbuf = <<>>
  /\ part = 0 /\ readable = FALSE /\ crashed = FALSE

(* The loop is between two callbacks.                                      *)
Loop == cbs = <<>> /\ ~reading /\ ~crashed

(* OepClient_send.                                                         *)
Send(c) == exec_que' = Append(exec_que, c)

-----------------------------------------------------------------------------
(* _write_to_server_cb.  The table is gone when the connection was closed  *)
(* before anything was written; _save_context asserts that it is there.    *)
WriteToServerCb ==
  /\ Loop /\ exec_que # <<>>
  /\ LET c == Head(exec_que) IN
     /\ exec_que' = Tail(exec_que)
     /\ IF table = "freed"
          THEN crashed' = TRUE /\ UNCHANGED <<pending, res_msgs, task_count, server>>
          ELSE /\ pending' = pending \cup {c}
               /\ res_msgs' = [d \in pending' |-> IF d = c THEN 0 ELSE res_msgs[d]]
               /\ task_count' = task_count - 1
               /\ server' = IF conn = "up" THEN server \cup {c} ELSE server
               /\ UNCHANGED crashed
  /\ UNCHANGED <<state, cbs, reading, idset, table, conn, inbuf, part, readable>>

-----------------------------------------------------------------------------
(* The connection.                                                         *)

(* The server answers c: a get with one message for each of its results,   *)
(* or one that says there are none.  Bytes come into the buffer between    *)
(* two callbacks.                                                          *)
ServerAnswers(c, ok, n) ==
  /\ Loop /\ c \in server
  /\ server' = server \ {c}
  /\ inbuf' = inbuf \o [k \in 1 .. (IF n > 1 THEN n ELSE 1) |-> Answer(c, ok, n)]
  /\ part' = 0
  /\ readable' = TRUE
  /\ UNCHANGED <<state, exec_que, cbs, reading, crashed, tableVars, conn>>

(* The first bytes of an answer arrive before the rest.                    *)
PartArrives ==
  /\ Loop /\ server # {} /\ part < MaxParts
  /\ part' = part + 1
  /\ readable' = TRUE
  /\ UNCHANGED <<state, exec_que, cbs, reading, crashed, tableVars, conn, server, inbuf>>

ConnectionGoes ==
  /\ Loop /\ conn = "up"
  /\ conn' = "lost" /\ server' = {}
  /\ UNCHANGED <<state, exec_que, cbs, reading, crashed, tableVars, inbuf, part, readable>>

(* _cleanup: it stops after as many entries of the array as the table has  *)
(* pairs, so that half of the calls are told, and frees the table.         *)
Cleanup ==
  /\ \E closed \in Injection(1 .. (Cardinality(pending) + 1) \div 2, pending) :
       /\ cbs' = [k \in DOMAIN closed |-> Answer(closed[k], FALSE, 0)]
       /\ pending' = pending \ Range(closed)
  /\ res_msgs' = Restrict(res_msgs, pending')
  /\ table' = "freed"

(* _buffered_on_error_cb and _cleanup_conn, after any answers that came    *)
(* before the end.  The count of tasks goes down with every command and    *)
(* never up, so after the first command nothing is cleaned up.             *)
BufferedOnError ==
  /\ Loop /\ conn = "lost" /\ ~readable
  /\ conn' = "seen"
  /\ state' = {"CLOSING"}
  /\ IF task_count # 0
       THEN UNCHANGED <<cbs, pending, res_msgs, table, idset>>
       ELSE idset' = FALSE /\ Cleanup
  /\ UNCHANGED <<exec_que, reading, crashed, task_count, server, inbuf, part, readable>>

-----------------------------------------------------------------------------
(* _buffered_on_read: one answer of the batch.                             *)

OnRead ==
  /\ cbs = <<>> /\ ~crashed
  /\ reading \/ readable
  /\ readable' = FALSE

(* Mutant: what else has arrived waits for the next callback.              *)
NextOfBatchLater == reading' = FALSE

(* The batch goes on if there are more bytes, complete answer or not.      *)
NextOfBatch == reading' = (Tail(inbuf) # <<>> \/ part > 0)

(* _restore_context.                                                       *)
RestoreContext(c) ==
  /\ pending' = pending \ {c}
  /\ res_msgs' = Restrict(res_msgs, pending')

(* _append_res_msg, in the context that is then saved again.               *)
AppendResMsg(c) == res_msgs' = [res_msgs EXCEPT ![c] = @ + 1]

ReadAnswer ==
  /\ OnRead /\ inbuf # <<>>
  /\ inbuf' = Tail(inbuf)
  /\ LET m == Head(inbuf)
         c == m.call IN
     IF c \notin pending
       THEN /\ crashed' = TRUE
            /\ UNCHANGED <<cbs, reading, pending, res_msgs>>
       ELSE /\ IF m.ok /\ m.n > res_msgs[c] + 1
                 THEN AppendResMsg(c) /\ UNCHANGED <<pending, cbs>>
                 ELSE RestoreContext(c) /\ cbs' = <<m>>
            /\ NextOfBatch
            /\ UNCHANGED crashed
  /\ UNCHANGED <<state, exec_que, task_count, idset, table, conn, server, part>>

(* The bytes of an incomplete answer.  If they end within its number, the  *)
(* number read is another one, and _restore_context asserts that it is     *)
(* pending.                                                                *)
ReadPart ==
  /\ OnRead /\ inbuf = <<>>
  /\ crashed' \in {crashed, part > 0}
  /\ reading' = FALSE
  /\ UNCHANGED <<state, exec_que, cbs, tableVars, conn, server, inbuf, part>>

BufferedOnRead == ReadAnswer \/ ReadPart

LoopGoesOn == WriteToServerCb \/ BufferedOnError \/ BufferedOnRead

=============================================================================
