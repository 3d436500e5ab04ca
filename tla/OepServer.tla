----------------------------- MODULE OepServer -----------------------------
(***************************************************************************)
(* The server side of the protocol (corelib/OepServer.c on OeSession.c and *)
(* OeLibevent2Factory.c): sessions, the commands they have outstanding in  *)
(* the kernel, and what is done when a connection goes away.               *)
(*                                                                         *)
(* The callbacks of libevent and the functions given to Oed_Dispatcher_exec*)
(* run one at a time in the loop thread.  The kernel works on commands in  *)
(* the threads of its pool and leaves every answer in the queue of the     *)
(* loop.  A batch of commands is read in one callback, one step for each   *)
(* command; only the kernel takes steps in between.                        *)
(***************************************************************************)
EXTENDS Integers, Sequences, FiniteSets

CONSTANTS
  Session,    \* the connections, in whatever order they are accepted
  Rb,         \* those whose CON_CMD asks for rollback on disconnect
  Tid,        \* the ids of the transactions the kernel may start
  MaxMsgs,    \* bound on the commands of one client
  MaxBatch,   \* bound on the commands that wait to be read
  NoSession, NoTid

(* WORK stands for PUT_CMD, GET_CMD and UPL_CMD, which the server treats   *)
(* alike; BAD for bytes that cannot be parsed; REFUSED for a CON_CMD with  *)
(* no extent, no login or no kernel, and DENIED for a command the security *)
(* context does not allow.                                                 *)
Ops == {"CON", "REFUSED", "DIS", "WORK", "STA", "COMMIT", "ROLLBACK", "EXTEND",
        "DENIED", "BAD"}
Upt == {"COMMIT", "ROLLBACK", "EXTEND"}

ASSUME ServerAssumption ==
  /\ Rb \subseteq Session /\ NoSession \notin Session
  /\ NoTid \notin Tid
  /\ MaxMsgs \in Nat /\ MaxBatch \in Nat

VARIABLES
  mem,          \* per session: "none", "live" or "freed"
  state,        \* per session: its flags CONNECTED and CLOSING
  rb_on_dis,    \* per session
  task_count,   \* per session: outstanding_task_count
  txns,         \* per session: the set pending_txns: "null", "live", "freed"
  tids,         \* per session: what is, or was last, in that set
  timeout,      \* per session: the 10 s timer is running
  close_cb,     \* per session: _buffered_close_on_writeable is due
  appl_context, \* per session: "null", "live" or "freed"
  inbuf,        \* per session: complete commands that have arrived
  part,         \* per session: bytes of one more have arrived
  readable,     \* per session: the read callback is due
  sent,         \* per session: commands sent so far
  peer,         \* per session: the client is "up", "gone", or "seen" to be gone
  reading,      \* the session whose batch the loop is in
  context,      \* per context: where it is and what it is for
  exec_que,     \* contexts answered by the kernel, for the loop
  txn,          \* per transaction: its state in the store
  auto,         \* transactions whose rollback was given to the kernel
  asked,        \* pairs of a session and a transaction it gave up
  told,         \* pairs of a session and a transaction it was told committed
  crashed       \* freed memory was read and the process is gone

netVars  == <<inbuf, part, readable, sent, peer>>
kernVars == <<context, exec_que, txn, told>>
rollVars == <<txns, auto, asked, crashed>>
sessVars == <<mem, state, rb_on_dis, task_count, tids, timeout, close_cb, appl_context>>
vars == <<netVars, kernVars, rollVars, sessVars, reading>>

(* The context of the n-th command of a session, and one not in use.       *)
Context == Session \X (1 .. MaxMsgs)
Free == [at |-> "free", op |-> "WORK", tid |-> NoTid, ok |-> TRUE]

Init ==
  /\ mem = [s \in Session |-> "none"]
  /\ state = [s \in Session |-> {}]
  /\ rb_on_dis = [s \in Session |-> FALSE]
  /\ task_count = [s \in Session |-> 0]
  /\ txns = [s \in Session |-> "null"] /\ tids = [s \in Session |-> {}]
  /\ timeout = [s \in Session |-> FALSE] /\ close_cb = [s \in Session |-> FALSE]
  /\ appl_context = [s \in Session |-> "null"]
  /\ inbuf = [s \in Session |-> <<>>] /\ part = [s \in Session |-> FALSE]
  /\ readable = [s \in Session |-> FALSE] /\ sent = [s \in Session |-> 0]
  /\ peer = [s \in Session |-> "up"]
  /\ reading = NoSession
  /\ context = [c \in Context |-> Free] /\ exec_que = <<>>
  /\ txn = [t \in Tid |-> "none"]
  /\ auto = {} /\ asked = {} /\ told = {} /\ crashed = FALSE

(* The loop is between two callbacks.                                      *)
Loop == reading = NoSession /\ ~crashed

-----------------------------------------------------------------------------
(* The clients.  Bytes come into the buffer of a connection, and its end   *)
(* is noticed, between two callbacks.                                      *)

(* A transaction a client may name: the server has dealt with its start.   *)
Known == {t \in Tid : txn[t] # "none"}
           \ {context[c].tid : c \in {c \in Context : context[c].op = "STA"}}

Send(s, op, t) ==
  /\ Loop /\ mem[s] = "live" /\ peer[s] = "up"
  /\ sent[s] < MaxMsgs /\ Len(inbuf[s]) < MaxBatch
  /\ IF op \in Upt THEN t \in Known ELSE t = NoTid
  /\ inbuf' = [inbuf EXCEPT ![s] = Append(@, [op |-> op, tid |-> t])]
  /\ part' = [part EXCEPT ![s] = FALSE]
  /\ readable' = [readable EXCEPT ![s] = TRUE]
  /\ sent' = [sent EXCEPT ![s] = @ + 1]
  /\ UNCHANGED <<peer, kernVars, rollVars, sessVars, reading>>

(* The first bytes of a command, to be completed by the next Send if there *)
(* is one.                                                                 *)
SendPart(s) ==
  /\ Loop /\ mem[s] = "live" /\ peer[s] = "up"
  /\ ~part[s]
  /\ part' = [part EXCEPT ![s] = TRUE]
  /\ readable' = [readable EXCEPT ![s] = TRUE]
  /\ UNCHANGED <<inbuf, sent, peer, kernVars, rollVars, sessVars, reading>>

(* The connection breaks, or the client closes it.                         *)
PeerGoes(s) ==
  /\ Loop /\ mem[s] = "live" /\ peer[s] = "up"
  /\ peer' = [peer EXCEPT ![s] = "gone"]
  /\ UNCHANGED <<inbuf, part, readable, sent, kernVars, rollVars, sessVars, reading>>

-----------------------------------------------------------------------------
(* Ending a session.                                                       *)

(* _rollback_transactions.  Set_free clears the local copy of the pointer  *)
(* only, so a second call for the session reads a freed set: what it finds *)
(* there is left of the old contents, or the process goes down.            *)
RollbackTransactions(s, set, ids) ==
  \/ /\ ~rb_on_dis[s] \/ set = "null"
     /\ txns' = [txns EXCEPT ![s] = set]
     /\ UNCHANGED <<auto, asked, crashed>>
  \/ /\ rb_on_dis[s] /\ set = "live"
     /\ auto' = auto \cup ids
     /\ asked' = asked \cup ({s} \X ids)
     /\ txns' = [txns EXCEPT ![s] = "freed"]
     /\ UNCHANGED crashed
  \/ /\ rb_on_dis[s] /\ set = "freed"
     /\ \/ crashed' = TRUE /\ UNCHANGED auto
        \/ \E found \in SUBSET ids : auto' = auto \cup found /\ UNCHANGED crashed
     /\ UNCHANGED <<txns, asked>>

(* Mutant: the tasks that are still running are not waited for.            *)
CleanupEager(s) == RollbackTransactions(s, txns[s], tids[s])

(* _cleanup: the read handler of a session that is closing.                *)
Cleanup(s) ==
  \/ task_count[s] = 0 /\ RollbackTransactions(s, txns[s], tids[s])
  \/ task_count[s] # 0 /\ UNCHANGED rollVars

(* OeNet_cleanup_conn: close the connection once the output is written.    *)
(* The flag CONNECTED stays until then.                                    *)
OrderlyCleanupConn(s) ==
  /\ state' = [state EXCEPT ![s] = @ \cup {"CLOSING"}]
  /\ close_cb' = [close_cb EXCEPT ![s] = TRUE]

(* OeSession_free, which frees the connection and its buffers too.         *)
SessionFree(s) ==
  /\ mem' = [mem EXCEPT ![s] = "freed"]
  /\ inbuf' = [inbuf EXCEPT ![s] = <<>>]
  /\ part' = [part EXCEPT ![s] = FALSE]
  /\ readable' = [readable EXCEPT ![s] = FALSE]

(* Mutant: the session is freed whatever is outstanding.                   *)
CleanupConnAtOnce(s) ==
  /\ state' = [state EXCEPT ![s] = {"CLOSING"}]
  /\ timeout' = [timeout EXCEPT ![s] = FALSE]
  /\ close_cb' = [close_cb EXCEPT ![s] = FALSE]
  /\ Cleanup(s)
  /\ SessionFree(s)

(* _cleanup_conn.  A session with tasks outstanding is kept for them.      *)
CleanupConn(s) ==
  /\ state' = [state EXCEPT ![s] = {"CLOSING"}]
  /\ timeout' = [timeout EXCEPT ![s] = FALSE]
  /\ close_cb' = [close_cb EXCEPT ![s] = FALSE]
  /\ \/ task_count[s] # 0 /\ UNCHANGED <<mem, rollVars, inbuf, part, readable>>
     \/ /\ task_count[s] = 0
        /\ Cleanup(s)
        /\ SessionFree(s)

-----------------------------------------------------------------------------
(* The callbacks of libevent.  Those of a connection are cleared when it   *)
(* is freed with its session; the timer is an event of its own.            *)

(* _accept_conn_cb and _listen_for_bytes.                                  *)
Accept(s) ==
  /\ Loop /\ mem[s] = "none"
  /\ mem' = [mem EXCEPT ![s] = "live"]
  /\ timeout' = [timeout EXCEPT ![s] = TRUE]
  /\ UNCHANGED <<state, rb_on_dis, task_count, tids, close_cb, appl_context,
                 netVars, kernVars, rollVars, reading>>

(* _con_timeout_cb: ten seconds have passed since the connection came.     *)
ConTimeout(s) ==
  /\ Loop /\ timeout[s]
  /\ timeout' = [timeout EXCEPT ![s] = FALSE]
  /\ \/ "CONNECTED" \in state[s] /\ UNCHANGED <<state, close_cb>>
     \/ "CONNECTED" \notin state[s] /\ OrderlyCleanupConn(s)
  /\ UNCHANGED <<mem, rb_on_dis, task_count, tids, appl_context,
                 netVars, kernVars, rollVars, reading>>

(* _buffered_on_error_cb: the end of the connection has been seen.         *)
BufferedOnError(s) ==
  /\ Loop /\ mem[s] = "live" /\ peer[s] = "gone"
  /\ peer' = [peer EXCEPT ![s] = "seen"]
  /\ CleanupConn(s)
  /\ UNCHANGED <<rb_on_dis, task_count, tids, appl_context, sent, kernVars, reading>>

(* _buffered_close_on_writeable: the output has been written.              *)
CloseOnWriteable(s) ==
  /\ Loop /\ mem[s] = "live" /\ close_cb[s]
  /\ CleanupConn(s)
  /\ UNCHANGED <<rb_on_dis, task_count, tids, appl_context, sent, peer, kernVars, reading>>

-----------------------------------------------------------------------------
(* _buffered_on_read: one command of the batch.                            *)

OnRead(s) ==
  /\ mem[s] = "live" /\ ~crashed
  /\ reading = s \/ (reading = NoSession /\ readable[s])
  /\ readable' = [readable EXCEPT ![s] = FALSE]

(* Whatever arrives on a connection that is closing stays where it is.     *)
ReadClosing(s) ==
  /\ OnRead(s) /\ "CLOSING" \in state[s]
  /\ Cleanup(s)
  /\ reading' = NoSession
  /\ UNCHANGED <<sessVars, inbuf, part, sent, peer, kernVars>>

(* No complete command: its context is kept for the next call.             *)
ReadNothing(s) ==
  /\ OnRead(s) /\ "CLOSING" \notin state[s]
  /\ inbuf[s] = <<>>
  /\ appl_context' = [appl_context EXCEPT ![s] = IF @ = "null" THEN "live" ELSE @]
  /\ reading' = NoSession
  /\ UNCHANGED <<mem, state, rb_on_dis, task_count, tids, timeout, close_cb,
                 inbuf, part, sent, peer, kernVars, rollVars>>

(* A command is there and is taken off the connection.                     *)
ReadMsg(s) ==
  /\ OnRead(s) /\ "CLOSING" \notin state[s]
  /\ inbuf[s] # <<>>
  /\ inbuf' = [inbuf EXCEPT ![s] = Tail(@)]
  /\ UNCHANGED <<part, sent, peer, mem, tids, timeout, rollVars, txn, exec_que, told>>

(* The batch goes on if there are more bytes, complete command or not.     *)
NextOfBatch(s) ==
  reading' = IF Tail(inbuf[s]) # <<>> \/ part[s] THEN s ELSE NoSession

(* _send_err, which frees the context, and the end of the connection.  The *)
(* session keeps its pointer to the context only when nothing was parsed.  *)
ReadError(s, op) ==
  /\ appl_context' = [appl_context EXCEPT ![s] = IF op = "BAD" THEN "freed" ELSE "null"]
  /\ OrderlyCleanupConn(s)
  /\ reading' = NoSession
  /\ UNCHANGED <<rb_on_dis, task_count, context>>

ReadRefused(s) ==
  /\ ReadMsg(s)
  /\ LET op == Head(inbuf[s]).op IN
     /\ \/ op \in {"BAD", "REFUSED", "DENIED"}
        \/ op = "CON" /\ "CONNECTED" \in state[s]
        \/ op # "CON" /\ "CONNECTED" \notin state[s]
     /\ ReadError(s, op)

(* _con_handler, when it lets the client in.                               *)
ReadCon(s) ==
  /\ ReadMsg(s)
  /\ Head(inbuf[s]).op = "CON" /\ "CONNECTED" \notin state[s]
  /\ state' = [state EXCEPT ![s] = @ \cup {"CONNECTED"}]
  /\ rb_on_dis' = [rb_on_dis EXCEPT ![s] = s \in Rb]
  /\ appl_context' = [appl_context EXCEPT ![s] = "null"]
  /\ NextOfBatch(s)
  /\ UNCHANGED <<task_count, close_cb, context>>

(* _dis_handler.  The flag it means to clear is not cleared.               *)
ReadDis(s) ==
  /\ ReadMsg(s)
  /\ Head(inbuf[s]).op = "DIS" /\ "CONNECTED" \in state[s]
  /\ OrderlyCleanupConn(s)
  /\ appl_context' = [appl_context EXCEPT ![s] = "null"]
  /\ NextOfBatch(s)
  /\ UNCHANGED <<rb_on_dis, task_count, context>>

(* A command for the kernel.                                               *)
ReadTask(s) ==
  /\ ReadMsg(s)
  /\ Head(inbuf[s]).op \in {"WORK", "STA"} \cup Upt /\ "CONNECTED" \in state[s]
  /\ task_count' = [task_count EXCEPT ![s] = @ + 1]
  /\ context' = [context EXCEPT ![<<s, sent[s] - Len(inbuf[s]) + 1>>] =
       [at |-> "kernel", op |-> Head(inbuf[s]).op, tid |-> Head(inbuf[s]).tid, ok |-> TRUE]]
  /\ appl_context' = [appl_context EXCEPT ![s] = "null"]
  /\ NextOfBatch(s)
  /\ UNCHANGED <<state, rb_on_dis, close_cb>>

BufferedOnRead(s) ==
  \/ ReadClosing(s)
  \/ ReadNothing(s)
  \/ ReadRefused(s)
  \/ ReadCon(s)
  \/ ReadDis(s)
  \/ ReadTask(s)

-----------------------------------------------------------------------------
(* The kernel, in a thread of its pool: the command is carried out, and    *)
(* _write_to_client gives its context to the loop.                         *)
Answer(c, ok, t) ==
  /\ context' = [context EXCEPT ![c] = [at |-> "exec", op |-> @.op, tid |-> t, ok |-> ok]]
  /\ exec_que' = Append(exec_que, c)
  /\ UNCHANGED <<told, netVars, rollVars, sessVars, reading>>

InKernel(c) == context[c].at = "kernel" /\ ~crashed

KernelFails(c) ==
  /\ InKernel(c)
  /\ Answer(c, FALSE, context[c].tid)
  /\ UNCHANGED txn

KernelWorks(c) ==
  /\ InKernel(c) /\ context[c].op = "WORK"
  /\ Answer(c, TRUE, NoTid)
  /\ UNCHANGED txn

(* OEK_sta.                                                                *)
KernelStarts(c) ==
  /\ InKernel(c) /\ context[c].op = "STA"
  /\ \E t \in Tid :
       /\ txn[t] = "none"
       /\ txn' = [txn EXCEPT ![t] = "active"]
       /\ Answer(c, TRUE, t)

(* The state a transaction is left in by each of the updates.              *)
After == [COMMIT |-> "committed", ROLLBACK |-> "rolledback", EXTEND |-> "active"]

(* OEK_upt.  A transaction that has ended may only be ended the same way.  *)
KernelUpdates(c) ==
  /\ InKernel(c) /\ context[c].op \in Upt
  /\ LET t == context[c].tid
         end == After[context[c].op] IN
     /\ txn[t] \in {"active", end}
     /\ txn' = [txn EXCEPT ![t] = end]
     /\ Answer(c, TRUE, t)

(* The kernel and an automatic rollback, which nobody waits for: it is     *)
(* refused when the transaction has been committed, and may fail.          *)
AutoRollback(t) ==
  /\ t \in auto /\ ~crashed
  /\ auto' = auto \ {t}
  /\ \/ txn[t] = "active" /\ txn' = [txn EXCEPT ![t] = "rolledback"]
     \/ UNCHANGED txn
  /\ UNCHANGED <<context, exec_que, told, txns, asked, crashed,
                 netVars, sessVars, reading>>

-----------------------------------------------------------------------------
(* _write_to_client_cb, in the loop.                                       *)

(* Mutant: only a rollback takes the transaction out of the set.           *)
UpdatedTidsKept(s, ctx) ==
  CASE ctx.ok /\ ctx.op = "STA" -> tids[s] \cup {ctx.tid}
    [] ctx.ok /\ ctx.op = "ROLLBACK" -> tids[s] \ {ctx.tid}
    [] OTHER -> tids[s]

(* Mutant: the id is saved without a look at whether there is one.         *)
UpdatedTidsAnyway(s, ctx) ==
  CASE ctx.op = "STA" -> tids[s] \cup {ctx.tid}
    [] ctx.ok /\ ctx.op \in {"COMMIT", "ROLLBACK"} -> tids[s] \ {ctx.tid}
    [] OTHER -> tids[s]

(* _update_pending_txns: what the session's set becomes.                   *)
UpdatedTids(s, ctx) ==
  CASE ctx.ok /\ ctx.op = "STA" -> tids[s] \cup {ctx.tid}
    [] ctx.ok /\ ctx.op \in {"COMMIT", "ROLLBACK"} -> tids[s] \ {ctx.tid}
    [] OTHER -> tids[s]

(* OeSession_save_tid makes the set.                                       *)
UpdatedSet(s, ctx) == IF ctx.ok /\ ctx.op = "STA" THEN "live" ELSE txns[s]

(* Mutant: the rollback comes before the answer is looked at.              *)
LastTaskTooEarly(s, ctx) ==
  /\ RollbackTransactions(s, txns[s], tids[s])
  /\ OrderlyCleanupConn(s)
  /\ UNCHANGED told

(* Mutant: the clean-up that _cleanup_conn put off is not called again.    *)
LastTaskNoClose(s, ctx) ==
  /\ RollbackTransactions(s, UpdatedSet(s, ctx), UpdatedTids(s, ctx))
  /\ UNCHANGED <<state, close_cb, told>>

(* The last task of a session whose connection is gone gives its           *)
(* transactions up, those this very answer has brought included.           *)
LastTask(s, ctx) ==
  /\ RollbackTransactions(s, UpdatedSet(s, ctx), UpdatedTids(s, ctx))
  /\ OrderlyCleanupConn(s)
  /\ UNCHANGED told

OtherTask(s, ctx) ==
  /\ txns' = [txns EXCEPT ![s] = UpdatedSet(s, ctx)]
  /\ UNCHANGED <<auto, asked, crashed>>
  /\ \/ "CONNECTED" \in state[s] /\ ~ctx.ok /\ OrderlyCleanupConn(s)
     \/ (ctx.ok \/ "CONNECTED" \notin state[s]) /\ UNCHANGED <<state, close_cb>>
  /\ told' = IF ctx.ok /\ ctx.op = "COMMIT" /\ "CONNECTED" \in state[s]
               THEN told \cup {<<s, ctx.tid>>} ELSE told

WriteToClientCb ==
  /\ Loop /\ exec_que # <<>>
  /\ LET c == Head(exec_que)
         ctx == context[c]
         s == c[1] IN
     /\ exec_que' = Tail(exec_que)
     /\ context' = [context EXCEPT ![c] = Free]
     /\ task_count' = [task_count EXCEPT ![s] = @ - 1]
     /\ tids' = [tids EXCEPT ![s] = UpdatedTids(s, ctx)]
     /\ IF task_count[s] = 1 /\ "CONNECTED" \notin state[s]
          THEN LastTask(s, ctx) ELSE OtherTask(s, ctx)
  /\ UNCHANGED <<mem, rb_on_dis, timeout, appl_context, txn, netVars, reading>>

-----------------------------------------------------------------------------
Kernel(c) ==
  \/ KernelFails(c)
  \/ KernelWorks(c)
  \/ KernelStarts(c)
  \/ KernelUpdates(c)

Next ==
  \/ \E s \in Session :
       \/ Accept(s)
       \/ \E op \in Ops, t \in Tid \cup {NoTid} : Send(s, op, t)
       \/ SendPart(s)
       \/ PeerGoes(s)
       \/ ConTimeout(s)
       \/ BufferedOnError(s)
       \/ CloseOnWriteable(s)
       \/ BufferedOnRead(s)
  \/ \E c \in Context : Kernel(c)
  \/ \E t \in Tid : AutoRollback(t)
  \/ WriteToClientCb

(* The loop goes on as long as a callback is due, and so does the kernel   *)
(* as long as it has a command (a get is answered when its time is over,   *)
(* at the latest).  Nothing is assumed of the clients.                     *)
LoopGoesOn ==
  \/ WriteToClientCb
  \/ \E s \in Session : \/ ConTimeout(s)
                        \/ BufferedOnError(s)
                        \/ CloseOnWriteable(s)
                        \/ BufferedOnRead(s)

Fairness == WF_vars(LoopGoesOn) /\ WF_vars(\E c \in Context : Kernel(c))

Spec == Init /\ [][Next]_vars /\ Fairness

-----------------------------------------------------------------------------
(* The contexts of a session that are in the kernel or on their way back.  *)
Outstanding(s) == {c \in Context : c[1] = s /\ context[c].at # "free"}

TypeOK ==
  /\ mem \in [Session -> {"none", "live", "freed"}]
  /\ state \in [Session -> SUBSET {"CONNECTED", "CLOSING"}]
  /\ rb_on_dis \in [Session -> BOOLEAN]
  /\ task_count \in [Session -> Int]
  /\ txns \in [Session -> {"null", "live", "freed"}]
  /\ tids \in [Session -> SUBSET Tid]
  /\ timeout \in [Session -> BOOLEAN] /\ close_cb \in [Session -> BOOLEAN]
  /\ appl_context \in [Session -> {"null", "live", "freed"}]
  /\ inbuf \in [Session -> Seq([op : Ops, tid : Tid \cup {NoTid}])]
  /\ part \in [Session -> BOOLEAN] /\ readable \in [Session -> BOOLEAN]
  /\ sent \in [Session -> Nat]
  /\ peer \in [Session -> {"up", "gone", "seen"}]
  /\ reading \in Session \cup {NoSession}
  /\ context \in [Context -> [at : {"free", "kernel", "exec"}, op : Ops,
                              tid : Tid \cup {NoTid}, ok : BOOLEAN]]
  /\ exec_que \in Seq(Context)
  /\ txn \in [Tid -> {"none", "active", "committed", "rolledback"}]
  /\ auto \subseteq Tid
  /\ asked \subseteq Session \X Tid /\ told \subseteq Session \X Tid
  /\ crashed \in BOOLEAN

(* The count of outstanding tasks is right at all times, and as long as    *)
(* anything will still use the session (a command in the kernel, an answer *)
(* on its way, the connection timer, the batch being read) _cleanup_conn   *)
(* has not freed it.                                                       *)
SessionOutlivesItsUsers ==
  \A s \in Session :
    /\ task_count[s] = Cardinality(Outstanding(s))
    /\ Outstanding(s) # {} \/ timeout[s] \/ reading = s => mem[s] = "live"

(* _send_err and _rollback_transactions leave the session with pointers to *)
(* freed memory.  It is closing by then and has no task left, so no        *)
(* command is read into that context and no transaction id put into or     *)
(* removed from that set.                                                  *)
FreedIsLeftAlone ==
  \A s \in Session :
    /\ appl_context[s] = "freed" => "CLOSING" \in state[s]
    /\ txns[s] = "freed" => "CLOSING" \in state[s] /\ task_count[s] = 0

(* A session that has told its client that a transaction is committed      *)
(* never asks for the rollback of that transaction, however the connection *)
(* ends.                                                                   *)
NoRollbackOfCommitted == asked \cap told = {}

(* The session of a client that is gone is freed, also when commands of it *)
(* are still in the kernel.                                                *)
SessionsEnd ==
  \A s \in Session : peer[s] # "up" ~> mem[s] = "freed" \/ crashed

(* A transaction started for a client that asked for rollback on           *)
(* disconnect does not outlive its connection: it ends or its rollback is  *)
(* asked for, also when the connection goes while the kernel is starting   *)
(* it.                                                                     *)
Ending(s) == peer[s] # "up" \/ "CLOSING" \in state[s]

Started(s) == tids[s] \cup
  {context[c].tid : c \in {c \in Outstanding(s) : context[c].at = "exec"
                          /\ context[c].op = "STA" /\ context[c].ok}}

OrphansAreRolledBack ==
  \A s \in Rb, t \in Tid :
    rb_on_dis[s] /\ Ending(s) /\ t \in Started(s)
      ~> <<s, t>> \in asked \/ txn[t] # "active" \/ crashed

=============================================================================
