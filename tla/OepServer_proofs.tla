-------------------------- MODULE OepServer_proofs --------------------------
(***************************************************************************)
(* Proofs about the sessions of the server, about the transactions that    *)
(* they begin, end and give up, and about the types of all of it, for any  *)
(* number of sessions, transactions and commands.                          *)
(***************************************************************************)
EXTENDS OepServer, FiniteSetTheorems, TLAPS

(* A leaf is proved by SMT unless it names another prover; the module is   *)
(* long, so the provers are given more time than they need.                *)
USE SMTT(30)

Msg == [op : Ops, tid : Tid \cup {NoTid}]
Ctx == [at : {"free", "kernel", "exec"}, op : Ops, tid : Tid \cup {NoTid}, ok : BOOLEAN]

(* The commands of a session are numbered in the order they are read: a    *)
(* context in use belongs to a command that has been read.                 *)
Numbered ==
  /\ inbuf \in [Session -> Seq(Msg)]
  /\ sent \in [Session -> Nat]
  /\ \A s \in Session : Len(inbuf[s]) <= sent[s] /\ sent[s] <= MaxMsgs
  /\ \A s \in Session, n \in 1 .. MaxMsgs :
       context[<<s, n>>].at # "free" => n <= sent[s] - Len(inbuf[s])

(* The queue of the loop holds the contexts that the kernel has answered,  *)
(* each once.                                                              *)
Queued ==
  /\ context \in [Context -> Ctx]
  /\ exec_que \in Seq(Context)
  /\ \A i \in 1 .. Len(exec_que) : context[exec_que[i]].at = "exec"
  /\ \A i, j \in 1 .. Len(exec_que) : exec_que[i] = exec_que[j] => i = j

(* What is left of a queue when its head is taken.                         *)
LEMMA TailFacts ==
  ASSUME NEW S, NEW q \in Seq(S), q # <<>>
  PROVE  /\ Head(q) \in S /\ Head(q) = q[1] /\ Len(q) \in Nat /\ Len(q) >= 1
         /\ Tail(q) \in Seq(S) /\ Len(Tail(q)) = Len(q) - 1
         /\ \A i \in 1 .. Len(Tail(q)) : i + 1 \in 2 .. Len(q) /\ Tail(q)[i] = q[i + 1]
OBVIOUS

(* What is in a queue when an element has been put at its end.             *)
LEMMA AppendFacts ==
  ASSUME NEW S, NEW q \in Seq(S), NEW e \in S
  PROVE  /\ Append(q, e) \in Seq(S) /\ Len(q) \in Nat /\ Len(Append(q, e)) = Len(q) + 1
         /\ \A i \in 1 .. Len(Append(q, e)) : IF i = Len(q) + 1 THEN Append(q, e)[i] = e
                                             ELSE i \in 1 .. Len(q) /\ Append(q, e)[i] = q[i]
OBVIOUS

(* An answer of the kernel changes one context and nothing of its command. *)
LEMMA AnswerFacts ==
  ASSUME context \in [Context -> Ctx], NEW c \in Context, NEW ok \in BOOLEAN,
         NEW t \in Tid \cup {NoTid},
         context' = [context EXCEPT ![c] = [at |-> "exec", op |-> @.op, tid |-> t, ok |-> ok]]
  PROVE  /\ context' \in [Context -> Ctx]
         /\ context'[c].at = "exec" /\ context'[c].op = context[c].op
         /\ context'[c].tid = t /\ context'[c].ok = ok
         /\ \A d \in Context : d # c => context'[d] = context[d]
<1>1. PICK u : u = [at |-> "exec", op |-> context[c].op, tid |-> t, ok |-> ok]
  BY Zenon
<1>2. u \in Ctx /\ u.at = "exec" /\ u.op = context[c].op /\ u.tid = t
  BY <1>1, Zenon DEF Ctx
<1>3. u.ok = ok
  BY <1>1, Zenon
<1>4. context' = [context EXCEPT ![c] = u]
  BY <1>1, Zenon
<1>5. context' \in [Context -> Ctx] /\ context'[c] = u
  BY <1>2, <1>4, Zenon
<1>6. \A d \in Context : d # c => context'[d] = context[d]
  BY <1>4, Zenon
<1> QED
  BY <1>2, <1>3, <1>5, <1>6, Zenon

-----------------------------------------------------------------------------
(* What a step does to the contexts, their queue and the commands that     *)
(* have arrived.                                                           *)

Quiet == UNCHANGED <<context, exec_que, task_count, inbuf, sent>>

Emptied(s) ==
  inbuf' = [inbuf EXCEPT ![s] = <<>>] /\ UNCHANGED <<context, exec_que, task_count, sent>>

Taken(s) ==
  /\ inbuf[s] # <<>> /\ inbuf' = [inbuf EXCEPT ![s] = Tail(@)]
  /\ UNCHANGED <<context, exec_que, task_count, sent>>

Kind ==
  \/ Quiet
  \/ \E s \in Session : Emptied(s) \/ Taken(s) \/ ReadTask(s)
  \/ \E s \in Session, op \in Ops, t \in Tid \cup {NoTid} : Send(s, op, t)
  \/ \E c \in Context : Kernel(c)
  \/ WriteToClientCb

(* Every step is of one of these kinds.                                    *)
LEMMA StepKind ==
  ASSUME [Next]_vars PROVE Kind
<1>1. ASSUME NEW s \in Session, Accept(s) PROVE Quiet
  BY <1>1, Zenon DEF Accept, Quiet, netVars, kernVars, rollVars, sessVars
<1>2. ASSUME NEW s \in Session, SendPart(s) PROVE Quiet
  BY <1>2, Zenon DEF SendPart, Quiet, netVars, kernVars, rollVars, sessVars
<1>3. ASSUME NEW s \in Session, PeerGoes(s) PROVE Quiet
  BY <1>3, Zenon DEF PeerGoes, Quiet, netVars, kernVars, rollVars, sessVars
<1>4. ASSUME NEW s \in Session, ConTimeout(s) PROVE Quiet
  BY <1>4, Zenon DEF ConTimeout, Quiet, netVars, kernVars, rollVars, sessVars
<1>5. ASSUME NEW s \in Session, BufferedOnError(s) PROVE Quiet \/ Emptied(s)
  BY <1>5, Zenon DEF BufferedOnError, CleanupConn, SessionFree, Emptied, Quiet, kernVars
<1>6. ASSUME NEW s \in Session, CloseOnWriteable(s) PROVE Quiet \/ Emptied(s)
  BY <1>6, Zenon DEF CloseOnWriteable, CleanupConn, SessionFree, Emptied, Quiet, kernVars
<1>7. ASSUME NEW s \in Session, ReadClosing(s) PROVE Quiet
  BY <1>7, Zenon DEF ReadClosing, OnRead, Quiet, netVars, kernVars, rollVars, sessVars
<1>8. ASSUME NEW s \in Session, ReadNothing(s) PROVE Quiet
  BY <1>8, Zenon DEF ReadNothing, OnRead, Quiet, netVars, kernVars, rollVars, sessVars
<1>9. ASSUME NEW s \in Session, ReadRefused(s) PROVE Taken(s)
  BY <1>9, Zenon DEF ReadRefused, ReadMsg, ReadError, Taken
<1>10. ASSUME NEW s \in Session, ReadCon(s) PROVE Taken(s)
  BY <1>10, Zenon DEF ReadCon, ReadMsg, ReadError, Taken
<1>11. ASSUME NEW s \in Session, ReadDis(s) PROVE Taken(s)
  BY <1>11, Zenon DEF ReadDis, ReadMsg, ReadError, Taken
<1>12. ASSUME NEW t \in Tid, AutoRollback(t) PROVE Quiet
  BY <1>12, Zenon DEF AutoRollback, Quiet, netVars, kernVars, rollVars, sessVars
<1>13. ASSUME UNCHANGED vars PROVE Quiet
  BY <1>13, Zenon DEF Quiet, vars, netVars, kernVars, rollVars, sessVars
<1> QED
  BY <1>1, <1>2, <1>3, <1>4, <1>5, <1>6, <1>7, <1>8, <1>9, <1>10, <1>11, <1>12, <1>13, Zenon DEF Next,
     Kind, BufferedOnRead

(* A command is numbered by its place among those read so far.             *)
NewNumber(s) == sent[s] - Len(inbuf[s]) + 1

(* The facts of the invariant about one session.                           *)
LEMMA NumberedFacts ==
  ASSUME Numbered, NEW s \in Session
  PROVE  /\ inbuf[s] \in Seq(Msg) /\ sent[s] \in Nat /\ Len(inbuf[s]) \in Nat
         /\ Len(inbuf[s]) <= sent[s] /\ sent[s] <= MaxMsgs
BY DEF Numbered

(* Every step keeps the numbering.                                         *)
LEMMA NumberedStep ==
  ASSUME Numbered, Queued, [Next]_vars PROVE Numbered'
<1>1. ASSUME Quiet PROVE Numbered'
  BY <1>1, Zenon DEF Numbered, Quiet
<1>2. ASSUME NEW s \in Session, inbuf' \in [Session -> Seq(Msg)],
             \A r \in Session : r # s => inbuf'[r] = inbuf[r],
             Len(inbuf'[s]) <= Len(inbuf[s]), sent' = sent,
             \A d \in Context : context'[d].at # "free" =>
               context[d].at # "free" \/ (d = <<s, NewNumber(s)>> /\ Len(inbuf'[s]) < Len(inbuf[s]))
      PROVE  Numbered'
  <2>1. ASSUME NEW r \in Session PROVE Len(inbuf'[r]) \in Nat /\ Len(inbuf'[r]) <= Len(inbuf[r])
    <3>1. inbuf'[r] \in Seq(Msg)
      BY <1>2, Zenon
    <3>2. Len(inbuf'[r]) \in Nat
      BY <3>1
    <3> QED
      BY <1>2, <3>2, NumberedFacts
  <2>2. ASSUME NEW r \in Session PROVE Len(inbuf'[r]) <= sent'[r] /\ sent'[r] <= MaxMsgs
    BY <1>2, <2>1, NumberedFacts
  <2>3. ASSUME NEW r \in Session, NEW n \in 1 .. MaxMsgs, context'[<<r, n>>].at # "free"
        PROVE  n <= sent'[r] - Len(inbuf'[r])
    <3>1. <<r, n>> \in Context
      BY Zenon DEF Context
    <3>2. CASE context[<<r, n>>].at # "free"
      <4>1. n <= sent[r] - Len(inbuf[r])
        BY <3>2, Zenon DEF Numbered
      <4> QED
        BY <1>2, <2>1, <4>1, NumberedFacts
    <3>3. CASE <<r, n>> = <<s, NewNumber(s)>> /\ Len(inbuf'[s]) < Len(inbuf[s])
      BY <1>2, <2>1, <3>3, NumberedFacts DEF NewNumber
    <3> QED
      BY <1>2, <2>3, <3>1, <3>2, <3>3, Zenon
  <2>4. sent' \in [Session -> Nat]
    BY <1>2, Zenon DEF Numbered
  <2> QED
    BY <1>2, <2>2, <2>3, <2>4, Zenon DEF Numbered
<1>3. ASSUME NEW s \in Session, Emptied(s) PROVE Numbered'
  <2>1. inbuf' = [inbuf EXCEPT ![s] = <<>>] /\ <<>> \in Seq(Msg) /\ Len(<<>>) = 0
    BY <1>3 DEF Emptied
  <2>2. inbuf' \in [Session -> Seq(Msg)] /\ inbuf'[s] = <<>>
        /\ \A r \in Session : r # s => inbuf'[r] = inbuf[r]
    BY <2>1, Zenon DEF Numbered
  <2> QED
    BY <1>2, <1>3, <2>1, <2>2, NumberedFacts DEF Emptied
<1>4. ASSUME NEW s \in Session, inbuf[s] # <<>>, inbuf' = [inbuf EXCEPT ![s] = Tail(@)]
      PROVE  /\ inbuf' \in [Session -> Seq(Msg)] /\ Len(inbuf'[s]) < Len(inbuf[s])
             /\ Len(inbuf'[s]) <= Len(inbuf[s])
             /\ \A r \in Session : r # s => inbuf'[r] = inbuf[r]
  <2>1. Tail(inbuf[s]) \in Seq(Msg) /\ Len(Tail(inbuf[s])) = Len(inbuf[s]) - 1 /\ Len(inbuf[s]) \in Nat
    BY <1>4, NumberedFacts, TailFacts, Zenon
  <2> QED
    BY <1>4, <2>1 DEF Numbered
<1>5. ASSUME NEW s \in Session, Taken(s) PROVE Numbered'
  BY <1>2, <1>4, <1>5, Zenon DEF Taken
<1>6. ASSUME NEW s \in Session, ReadTask(s) PROVE Numbered'
  <2>1. inbuf[s] # <<>> /\ inbuf' = [inbuf EXCEPT ![s] = Tail(@)] /\ UNCHANGED sent
    BY <1>6, Zenon DEF ReadTask, ReadMsg
  <2>2. \A d \in Context : d # <<s, NewNumber(s)>> => context'[d] = context[d]
    BY <1>6, Zenon DEF ReadTask, Queued, NewNumber
  <2> QED
    BY <1>2, <1>4, <2>1, <2>2, Zenon
<1>7. ASSUME NEW s \in Session, NEW op \in Ops, NEW t \in Tid \cup {NoTid}, Send(s, op, t)
      PROVE  Numbered'
  <2>1. inbuf[s] \in Seq(Msg) /\ [op |-> op, tid |-> t] \in Msg
    BY Zenon DEF Numbered, Msg
  <2>2. /\ inbuf' = [inbuf EXCEPT ![s] = Append(inbuf[s], [op |-> op, tid |-> t])]
        /\ sent' = [sent EXCEPT ![s] = sent[s] + 1] /\ sent[s] < MaxMsgs /\ UNCHANGED context
    BY <1>7, Zenon DEF Send, kernVars
  <2> QED
    BY <2>1, <2>2, AppendFacts, ServerAssumption DEF Numbered
<1>8. ASSUME NEW c \in Context, Kernel(c) PROVE Numbered'
  <2>1. context[c].at # "free" /\ UNCHANGED <<inbuf, sent>>
    BY <1>8, Zenon DEF Kernel, KernelFails, KernelWorks, KernelStarts, KernelUpdates, InKernel, Answer,
       netVars
  <2>2. \A d \in Context : d # c => context'[d] = context[d]
    BY <1>8, Zenon DEF Kernel, KernelFails, KernelWorks, KernelStarts, KernelUpdates, Answer, Queued
  <2> QED
    BY <2>1, <2>2, Zenon DEF Numbered, Context
<1>9. ASSUME WriteToClientCb PROVE Numbered'
  <2>1. context' = [context EXCEPT ![Head(exec_que)] = Free] /\ UNCHANGED <<inbuf, sent>>
    BY <1>9, Zenon DEF WriteToClientCb, netVars
  <2>2. \A d \in Context : context'[d] = context[d] \/ context'[d].at = "free"
    BY <2>1, Zenon DEF Queued, Free
  <2> QED
    BY <2>1, <2>2, Zenon DEF Numbered, Context
<1> QED
  BY <1>1, <1>3, <1>5, <1>6, <1>7, <1>8, <1>9, StepKind, Zenon DEF Kind

(* A step of the kernel answers one context that it had.                   *)
LEMMA KernelFacts ==
  ASSUME Queued, NEW c \in Context, Kernel(c)
  PROVE  /\ context[c].at = "kernel"
         /\ context' \in [Context -> Ctx]
         /\ context'[c].at = "exec" /\ context'[c].op = context[c].op
         /\ \A d \in Context : d # c => context'[d] = context[d]
         /\ exec_que' = Append(exec_que, c)
         /\ UNCHANGED <<told, netVars, rollVars, sessVars, reading>>
<1>1. ASSUME NEW ok \in BOOLEAN, NEW t \in Tid \cup {NoTid}, Answer(c, ok, t)
      PROVE  /\ context' \in [Context -> Ctx]
             /\ context'[c].at = "exec" /\ context'[c].op = context[c].op
             /\ \A d \in Context : d # c => context'[d] = context[d]
             /\ exec_que' = Append(exec_que, c)
             /\ UNCHANGED <<told, netVars, rollVars, sessVars, reading>>
  BY <1>1, AnswerFacts, Zenon DEF Answer, Queued
<1>2. context[c].tid \in Tid \cup {NoTid} /\ NoTid \in Tid \cup {NoTid}
  BY Zenon DEF Queued, Ctx
<1>3. TRUE \in BOOLEAN /\ FALSE \in BOOLEAN
  BY Zenon
<1>4. context[c].at = "kernel"
  BY Zenon DEF Kernel, KernelFails, KernelWorks, KernelStarts, KernelUpdates, InKernel
<1>5. CASE KernelFails(c)
  BY <1>1, <1>2, <1>3, <1>4, <1>5, Zenon DEF KernelFails
<1>6. CASE KernelWorks(c)
  BY <1>1, <1>2, <1>3, <1>4, <1>6, Zenon DEF KernelWorks
<1>7. CASE KernelStarts(c)
  <2>1. PICK t \in Tid : Answer(c, TRUE, t)
    BY <1>7, Zenon DEF KernelStarts
  <2>2. t \in Tid \cup {NoTid}
    BY Zenon
  <2> QED
    BY <1>1, <1>3, <1>4, <2>1, <2>2, Zenon
<1>8. CASE KernelUpdates(c)
  BY <1>1, <1>2, <1>3, <1>4, <1>8, Zenon DEF KernelUpdates
<1> QED
  BY <1>5, <1>6, <1>7, <1>8, Zenon DEF Kernel

(* What a command given to the kernel does to the contexts.                *)
LEMMA ReadTaskFacts ==
  ASSUME Numbered, Queued, NEW s \in Session, ReadTask(s)
  PROVE  /\ <<s, NewNumber(s)>> \in Context
         /\ context[<<s, NewNumber(s)>>].at = "free"
         /\ context' \in [Context -> Ctx]
         /\ context'[<<s, NewNumber(s)>>].at = "kernel"
         /\ context'[<<s, NewNumber(s)>>].op = inbuf[s][1].op
         /\ context'[<<s, NewNumber(s)>>].tid = inbuf[s][1].tid
         /\ \A d \in Context : d # <<s, NewNumber(s)>> => context'[d] = context[d]
         /\ UNCHANGED exec_que
         /\ task_count' = [task_count EXCEPT ![s] = @ + 1]
<1> DEFINE c == <<s, NewNumber(s)>>
<1>1. inbuf[s] # <<>> /\ inbuf[s] \in Seq(Msg)
  BY Zenon DEF ReadTask, ReadMsg, Numbered
<1>2. Head(inbuf[s]) \in Msg /\ Head(inbuf[s]) = inbuf[s][1] /\ Len(inbuf[s]) >= 1
  BY <1>1, TailFacts, Zenon
<1>3. NewNumber(s) \in 1 .. MaxMsgs /\ NewNumber(s) > sent[s] - Len(inbuf[s])
  BY <1>2, NumberedFacts, ServerAssumption DEF NewNumber
<1>4. c \in Context /\ context[c].at = "free"
  BY <1>3, NumberedFacts DEF Context, Numbered
<1>5. PICK u : u = [at |-> "kernel", op |-> Head(inbuf[s]).op, tid |-> Head(inbuf[s]).tid, ok |-> TRUE]
  BY Zenon
<1>6. u \in Ctx /\ u.at = "kernel" /\ u.op = Head(inbuf[s]).op /\ u.tid = Head(inbuf[s]).tid
  BY <1>2, <1>5, Zenon DEF Ctx, Msg
<1>7. context' = [context EXCEPT ![c] = u]
  BY <1>5, Zenon DEF ReadTask, NewNumber
<1>8. context' \in [Context -> Ctx] /\ context'[c] = u
      /\ \A d \in Context : d # c => context'[d] = context[d]
  BY <1>4, <1>6, <1>7, Zenon DEF Queued
<1>9. UNCHANGED exec_que /\ task_count' = [task_count EXCEPT ![s] = @ + 1]
  BY Zenon DEF ReadTask, ReadMsg
<1> QED
  BY <1>2, <1>4, <1>6, <1>8, <1>9, Zenon

(* What the answer to a command does to the contexts.                      *)
LEMMA WriteFacts ==
  ASSUME Queued, WriteToClientCb, NEW c, c = Head(exec_que)
  PROVE  /\ exec_que # <<>> /\ c \in Context /\ c = exec_que[1]
         /\ context[c].at = "exec"
         /\ context' \in [Context -> Ctx]
         /\ context'[c].at = "free"
         /\ context'[c].op = "WORK" /\ context'[c].tid = NoTid
         /\ \A d \in Context : d # c => context'[d] = context[d]
         /\ exec_que' = Tail(exec_que)
         /\ task_count' = [task_count EXCEPT ![c[1]] = @ - 1]
<1>1. exec_que # <<>> /\ exec_que' = Tail(exec_que) /\ context' = [context EXCEPT ![c] = Free]
      /\ task_count' = [task_count EXCEPT ![c[1]] = @ - 1]
  BY Zenon DEF WriteToClientCb
<1>2. c \in Context /\ c = exec_que[1] /\ 1 \in 1 .. Len(exec_que)
  BY <1>1, TailFacts DEF Queued
<1>3. Free \in Ctx /\ Free.at = "free" /\ Free.op = "WORK" /\ Free.tid = NoTid
  BY Zenon DEF Free, Ctx, Ops
<1>4. context' \in [Context -> Ctx] /\ context'[c] = Free
      /\ \A d \in Context : d # c => context'[d] = context[d]
  BY <1>1, <1>2, <1>3, Zenon DEF Queued
<1> QED
  BY <1>1, <1>2, <1>3, <1>4, Zenon DEF Queued

(* Every step keeps the queue.                                             *)
LEMMA QueuedStep ==
  ASSUME Numbered, Queued, [Next]_vars PROVE Queued'
<1>1. ASSUME UNCHANGED <<context, exec_que>> PROVE Queued'
  BY <1>1, Zenon DEF Queued
<1>2. ASSUME NEW s \in Session, ReadTask(s) PROVE Queued'
  <2> DEFINE c == <<s, NewNumber(s)>>
  <2>1. /\ context[c].at = "free" /\ context' \in [Context -> Ctx] /\ UNCHANGED exec_que
        /\ \A d \in Context : d # c => context'[d] = context[d]
    BY <1>2, ReadTaskFacts, Zenon
  <2>2. ASSUME NEW i \in 1 .. Len(exec_que) PROVE context'[exec_que[i]].at = "exec"
    <3>1. exec_que[i] \in Context /\ context[exec_que[i]].at = "exec"
      BY DEF Queued
    <3> HIDE DEF c
    <3> QED
      BY <2>1, <3>1, Zenon
  <2> QED
    BY <2>1, <2>2, Zenon DEF Queued
<1>3. ASSUME NEW c \in Context, Kernel(c) PROVE Queued'
  <2>1. /\ context[c].at = "kernel" /\ context' \in [Context -> Ctx] /\ context'[c].at = "exec"
        /\ \A d \in Context : d # c => context'[d] = context[d]
        /\ exec_que' = Append(exec_que, c)
    BY <1>3, KernelFacts, Zenon
  <2>2. /\ exec_que' \in Seq(Context) /\ Len(exec_que) \in Nat /\ Len(exec_que') = Len(exec_que) + 1
        /\ \A i \in 1 .. Len(exec_que') : IF i = Len(exec_que) + 1 THEN exec_que'[i] = c
                                          ELSE i \in 1 .. Len(exec_que) /\ exec_que'[i] = exec_que[i]
    BY <2>1, AppendFacts DEF Queued
  <2>3. ASSUME NEW i \in 1 .. Len(exec_que)
        PROVE  exec_que[i] \in Context /\ context[exec_que[i]].at = "exec" /\ exec_que[i] # c
    BY <2>1 DEF Queued
  <2>4. ASSUME NEW i \in 1 .. Len(exec_que') PROVE context'[exec_que'[i]].at = "exec"
    BY <2>1, <2>2, <2>3
  <2>5. ASSUME NEW i \in 1 .. Len(exec_que'), NEW j \in 1 .. Len(exec_que'), exec_que'[i] = exec_que'[j]
        PROVE  i = j
    BY <2>2, <2>3, <2>5, Zenon DEF Queued
  <2> QED
    BY <2>1, <2>2, <2>4, <2>5, Zenon DEF Queued
<1>4. ASSUME WriteToClientCb PROVE Queued'
  <2>1. PICK c : c = Head(exec_que)
    BY Zenon
  <2>2. /\ exec_que # <<>> /\ c = exec_que[1] /\ context' \in [Context -> Ctx]
        /\ \A d \in Context : d # c => context'[d] = context[d]
        /\ exec_que' = Tail(exec_que)
    BY <1>4, <2>1, WriteFacts, Zenon
  <2>3. /\ exec_que' \in Seq(Context) /\ Len(exec_que) \in Nat /\ Len(exec_que) >= 1
        /\ Len(exec_que') = Len(exec_que) - 1
        /\ \A i \in 1 .. Len(exec_que') : i + 1 \in 2 .. Len(exec_que) /\ exec_que'[i] = exec_que[i + 1]
    BY <2>2, TailFacts, Zenon DEF Queued
  <2>4. ASSUME NEW i \in 2 .. Len(exec_que)
        PROVE  exec_que[i] \in Context /\ context[exec_que[i]].at = "exec" /\ exec_que[i] # c
    <3>1. i \in 1 .. Len(exec_que) /\ 1 \in 1 .. Len(exec_que) /\ i # 1
      BY <2>3
    <3> QED
      BY <2>2, <3>1 DEF Queued
  <2>5. ASSUME NEW i \in 1 .. Len(exec_que') PROVE context'[exec_que'[i]].at = "exec"
    <3>1. i + 1 \in 2 .. Len(exec_que) /\ exec_que'[i] = exec_que[i + 1]
      BY <2>3, Zenon
    <3>2. PICK d : d = exec_que[i + 1]
      BY Zenon
    <3>3. d \in Context /\ context[d].at = "exec" /\ d # c
      BY <2>4, <3>1, <3>2, Zenon
    <3>4. context'[d] = context[d]
      BY <2>2, <3>3, Zenon
    <3> QED
      BY <3>1, <3>2, <3>3, <3>4, Zenon
  <2>6. ASSUME NEW i \in 1 .. Len(exec_que'), NEW j \in 1 .. Len(exec_que'), exec_que'[i] = exec_que'[j]
        PROVE  i = j
    <3>1. i + 1 \in 1 .. Len(exec_que) /\ j + 1 \in 1 .. Len(exec_que) /\ exec_que[i + 1] = exec_que[j + 1]
      BY <2>3, <2>6
    <3>2. i + 1 = j + 1
      BY <3>1, Zenon DEF Queued
    <3> QED
      BY <3>2
  <2> QED
    BY <2>2, <2>3, <2>5, <2>6, Zenon DEF Queued
<1> QED
  BY <1>1, <1>2, <1>3, <1>4, StepKind, Zenon DEF Kind, Quiet, Emptied, Taken, Send, kernVars

-----------------------------------------------------------------------------
(* The count of outstanding tasks.                                         *)
Counted ==
  /\ task_count \in [Session -> Int]
  /\ \A s \in Session : task_count[s] = Cardinality(Outstanding(s))

(* The commands of a session are numbered up to a bound.                   *)
LEMMA OutstandingFinite ==
  ASSUME NEW s \in Session PROVE IsFiniteSet(Outstanding(s))
<1>0. MaxMsgs \in Int /\ 1 \in Int
  BY ServerAssumption
<1>1. IsFiniteSet({s}) /\ IsFiniteSet(1 .. MaxMsgs)
  <2>1. IsFiniteSet({s})
    BY FS_Singleton, Zenon
  <2>2. IsFiniteSet(1 .. MaxMsgs)
    BY <1>0, FS_Interval, Zenon
  <2> QED
    BY <2>1, <2>2, Zenon
<1>2. IsFiniteSet({s} \X (1 .. MaxMsgs))
  BY <1>1, FS_Product, Zenon
<1>3. Outstanding(s) \subseteq {s} \X (1 .. MaxMsgs)
  BY Zenon DEF Outstanding, Context
<1> QED
  BY <1>2, <1>3, FS_Subset, Zenon

(* What a step does to the commands a session has outstanding: it adds one *)
(* that was not, takes one away, or leaves them as they are.               *)
LEMMA OutstandingStep ==
  ASSUME Numbered, Queued, [Next]_vars, NEW r \in Session
  PROVE  \/ Outstanding(r)' = Outstanding(r) /\ task_count'[r] = task_count[r]
         \/ /\ ReadTask(r) /\ task_count' = [task_count EXCEPT ![r] = @ + 1]
            /\ \E c \in Context \ Outstanding(r) : Outstanding(r)' = Outstanding(r) \cup {c}
         \/ /\ WriteToClientCb /\ Head(exec_que) \in Outstanding(r) /\ Head(exec_que)[1] = r
            /\ task_count' = [task_count EXCEPT ![r] = @ - 1]
            /\ Outstanding(r)' = Outstanding(r) \ {Head(exec_que)}
<1>1. ASSUME UNCHANGED <<context, task_count>>
      PROVE  Outstanding(r)' = Outstanding(r) /\ task_count'[r] = task_count[r]
  BY <1>1, Zenon DEF Outstanding
<1>2. ASSUME NEW s \in Session, ReadTask(s)
      PROVE  \/ Outstanding(r)' = Outstanding(r) /\ task_count'[r] = task_count[r]
             \/ /\ ReadTask(r) /\ task_count' = [task_count EXCEPT ![r] = @ + 1]
                /\ \E c \in Context \ Outstanding(r) : Outstanding(r)' = Outstanding(r) \cup {c}
  <2>1. PICK c : c = <<s, NewNumber(s)>>
    BY Zenon
  <2>2. /\ c \in Context /\ c[1] = s /\ context[c].at = "free" /\ context'[c].at = "kernel"
        /\ \A d \in Context : d # c => context'[d] = context[d]
        /\ task_count' = [task_count EXCEPT ![s] = @ + 1]
    BY <1>2, <2>1, ReadTaskFacts, Zenon
  <2>3. CASE r = s
    <3>1. c \in Context \ Outstanding(r) /\ Outstanding(r)' = Outstanding(r) \cup {c}
      BY <2>2, <2>3, Zenon DEF Outstanding
    <3> QED
      BY <1>2, <2>2, <2>3, <3>1, Zenon
  <2>4. CASE r # s
    BY <2>2, <2>4 DEF Outstanding
  <2> QED
    BY <2>3, <2>4, Zenon
<1>3. ASSUME NEW c \in Context, Kernel(c)
      PROVE  Outstanding(r)' = Outstanding(r) /\ task_count'[r] = task_count[r]
  <2>1. context[c].at = "kernel" /\ context'[c].at = "exec" /\ UNCHANGED task_count
        /\ \A d \in Context : d # c => context'[d] = context[d]
    BY <1>3, KernelFacts, Zenon DEF sessVars
  <2> QED
    BY <2>1, Zenon DEF Outstanding
<1>4. ASSUME WriteToClientCb
      PROVE  \/ Outstanding(r)' = Outstanding(r) /\ task_count'[r] = task_count[r]
             \/ /\ WriteToClientCb /\ Head(exec_que) \in Outstanding(r) /\ Head(exec_que)[1] = r
                /\ task_count' = [task_count EXCEPT ![r] = @ - 1]
                /\ Outstanding(r)' = Outstanding(r) \ {Head(exec_que)}
  <2>1. PICK c : c = Head(exec_que)
    BY Zenon
  <2>2. /\ c \in Context /\ context[c].at = "exec" /\ context'[c].at = "free"
        /\ \A d \in Context : d # c => context'[d] = context[d]
        /\ task_count' = [task_count EXCEPT ![c[1]] = @ - 1]
    BY <1>4, <2>1, WriteFacts, Zenon
  <2>3. CASE c[1] = r
    <3>1. c \in Outstanding(r) /\ Outstanding(r)' = Outstanding(r) \ {c}
      BY <2>2, <2>3, Zenon DEF Outstanding
    <3> QED
      BY <1>4, <2>1, <2>2, <2>3, <3>1, Zenon
  <2>4. CASE c[1] # r
    BY <2>2, <2>4 DEF Outstanding
  <2> QED
    BY <2>3, <2>4, Zenon
<1> QED
  BY <1>1, <1>2, <1>3, <1>4, StepKind, Zenon DEF Kind, Quiet, Emptied, Taken, Send, kernVars, sessVars

(* Every step keeps the count.                                             *)
LEMMA CountedStep ==
  ASSUME Numbered, Queued, Counted, [Next]_vars PROVE Counted'
<1>1. ASSUME NEW r \in Session PROVE task_count'[r] = Cardinality(Outstanding(r)')
  <2>1. IsFiniteSet(Outstanding(r)) /\ task_count[r] \in Int /\ task_count[r] = Cardinality(Outstanding(r))
    BY OutstandingFinite, Zenon DEF Counted
  <2>2. CASE Outstanding(r)' = Outstanding(r) /\ task_count'[r] = task_count[r]
    BY <2>1, <2>2, Zenon
  <2>3. CASE /\ task_count' = [task_count EXCEPT ![r] = @ + 1]
             /\ \E c \in Context \ Outstanding(r) : Outstanding(r)' = Outstanding(r) \cup {c}
    <3>1. PICK c \in Context \ Outstanding(r) : Outstanding(r)' = Outstanding(r) \cup {c}
      BY <2>3, Zenon
    <3>2. Cardinality(Outstanding(r)') = Cardinality(Outstanding(r)) + 1
      BY <2>1, <3>1, FS_AddElement, Zenon
    <3> QED
      BY <2>1, <2>3, <3>2, Zenon DEF Counted
  <2>4. CASE /\ Head(exec_que) \in Outstanding(r)
             /\ task_count' = [task_count EXCEPT ![r] = @ - 1]
             /\ Outstanding(r)' = Outstanding(r) \ {Head(exec_que)}
    <3>1. Cardinality(Outstanding(r)') = Cardinality(Outstanding(r)) - 1
      BY <2>1, <2>4, FS_RemoveElement, Zenon
    <3> QED
      BY <2>1, <2>4, <3>1, Zenon DEF Counted
  <2> QED
    BY <2>2, <2>3, <2>4, OutstandingStep, Zenon
<1>2. task_count' \in [Session -> Int]
  <2>1. ASSUME NEW s \in Session, ReadTask(s) PROVE task_count' \in [Session -> Int]
    BY <2>1 DEF ReadTask, Counted
  <2>2. ASSUME WriteToClientCb PROVE task_count' \in [Session -> Int]
    <3>1. PICK c : c = Head(exec_que)
      BY Zenon
    <3>2. c \in Context /\ task_count' = [task_count EXCEPT ![c[1]] = @ - 1]
      BY <2>2, <3>1, WriteFacts, Zenon
    <3> QED
      BY <3>2 DEF Counted, Context
  <2>3. ASSUME NEW c \in Context, Kernel(c) PROVE UNCHANGED task_count
    BY <2>3, KernelFacts, Zenon DEF sessVars
  <2> QED
    BY <2>1, <2>2, <2>3, StepKind, Zenon DEF Kind, Quiet, Emptied, Taken, Send, sessVars, Counted
<1> QED
  BY <1>1, <1>2, Zenon DEF Counted

-----------------------------------------------------------------------------
(* A session is live as long as something uses it.                         *)
Lives ==
  /\ mem \in [Session -> {"none", "live", "freed"}]
  /\ timeout \in [Session -> BOOLEAN]
  /\ \A s \in Session :
       Outstanding(s) # {} \/ timeout[s] \/ reading = s => mem[s] = "live"

(* What a step does to the life of the sessions.                           *)
Kept ==
  /\ UNCHANGED <<mem, reading>>
  /\ timeout' = timeout \/ \E s \in Session : timeout' = [timeout EXCEPT ![s] = FALSE]

Freed(s) ==
  /\ Loop /\ task_count[s] = 0
  /\ mem' = [mem EXCEPT ![s] = "freed"] /\ timeout' = [timeout EXCEPT ![s] = FALSE]
  /\ UNCHANGED <<reading, context>>

Read(s) ==
  /\ mem[s] = "live" /\ UNCHANGED <<mem, timeout>>
  /\ reading' \in {s, NoSession}

Life ==
  \/ Kept
  \/ \E s \in Session : Accept(s) \/ Freed(s) \/ Read(s)

(* Clearing a timer clears that timer only.                                *)
LEMMA TimerCleared ==
  ASSUME timeout \in [Session -> BOOLEAN], NEW s \in Session,
         timeout' = [timeout EXCEPT ![s] = FALSE]
  PROVE  /\ timeout' \in [Session -> BOOLEAN] /\ ~timeout'[s]
         /\ \A r \in Session : timeout'[r] => timeout[r]
<1>1. timeout' \in [Session -> BOOLEAN]
  BY Zenon
<1>2. ~timeout'[s]
  BY Zenon
<1>3. ASSUME NEW r \in Session, r # s PROVE timeout'[r] = timeout[r]
  BY <1>3, Zenon
<1> QED
  BY <1>1, <1>2, <1>3, Zenon

(* Every step is one of these.                                             *)
LEMMA StepLife ==
  ASSUME Queued, [Next]_vars PROVE Life
<1>1. ASSUME NEW s \in Session, NEW op \in Ops, NEW t \in Tid \cup {NoTid}, Send(s, op, t) PROVE Kept
  BY <1>1, Zenon DEF Send, Kept, sessVars
<1>2. ASSUME NEW s \in Session, SendPart(s) PROVE Kept
  BY <1>2, Zenon DEF SendPart, Kept, sessVars
<1>3. ASSUME NEW s \in Session, PeerGoes(s) PROVE Kept
  BY <1>3, Zenon DEF PeerGoes, Kept, sessVars
<1>4. ASSUME NEW s \in Session, ConTimeout(s) PROVE Kept
  BY <1>4, Zenon DEF ConTimeout, Kept
<1>5. ASSUME NEW s \in Session, CleanupConn(s), Loop, UNCHANGED <<reading, context>>
      PROVE  Kept \/ Freed(s)
  BY <1>5, Zenon DEF CleanupConn, SessionFree, Kept, Freed
<1>6. ASSUME NEW s \in Session, BufferedOnError(s) \/ CloseOnWriteable(s)
      PROVE  Kept \/ Freed(s)
  BY <1>5, <1>6, Zenon DEF BufferedOnError, CloseOnWriteable, kernVars
<1>7. ASSUME NEW s \in Session, ReadClosing(s) \/ ReadNothing(s) PROVE Read(s)
  BY <1>7, Zenon DEF ReadClosing, ReadNothing, OnRead, Read, sessVars
<1>8. ASSUME NEW s \in Session, ReadMsg(s), reading' \in {s, NoSession} PROVE Read(s)
  BY <1>8, Zenon DEF ReadMsg, OnRead, Read
<1>9. ASSUME NEW s \in Session, NextOfBatch(s) PROVE reading' \in {s, NoSession}
  BY <1>9, Zenon DEF NextOfBatch
<1>10. ASSUME NEW s \in Session, ReadRefused(s) \/ ReadCon(s) \/ ReadDis(s) \/ ReadTask(s) PROVE Read(s)
  BY <1>8, <1>9, <1>10, Zenon DEF ReadRefused, ReadError, ReadCon, ReadDis, ReadTask
<1>11. ASSUME NEW c \in Context, Kernel(c) PROVE Kept
  BY <1>11, KernelFacts, Zenon DEF Kept, sessVars
<1>12. ASSUME NEW t \in Tid, AutoRollback(t) PROVE Kept
  BY <1>12, Zenon DEF AutoRollback, Kept, sessVars
<1>13. ASSUME WriteToClientCb PROVE Kept
  BY <1>13, Zenon DEF WriteToClientCb, Kept
<1>14. ASSUME UNCHANGED vars PROVE Kept
  BY <1>14, Zenon DEF vars, Kept, sessVars
<1> QED
  BY <1>1, <1>2, <1>3, <1>4, <1>6, <1>7, <1>10, <1>11, <1>12, <1>13, <1>14, Zenon
  DEF Next, BufferedOnRead, Life

(* Every step keeps the sessions that are in use.                          *)
LEMMA LivesStep ==
  ASSUME Numbered, Queued, Counted, Lives, [Next]_vars PROVE Lives'
<1>1. ASSUME NEW r \in Session
      PROVE  Outstanding(r)' # {} => Outstanding(r) # {} \/ (mem[r] = "live" /\ mem' = mem)
  <2>1. ReadTask(r) => mem[r] = "live" /\ mem' = mem
    BY Zenon DEF ReadTask, ReadMsg, OnRead
  <2> QED
    BY <2>1, OutstandingStep, Zenon
<1>2. CASE Kept
  <2>1. timeout' \in [Session -> BOOLEAN] /\ \A r \in Session : timeout'[r] => timeout[r]
    BY <1>2, TimerCleared, Zenon DEF Kept, Lives
  <2> QED
    BY <1>1, <1>2, <2>1, Zenon DEF Kept, Lives
<1>3. ASSUME NEW s \in Session, Accept(s) PROVE Lives'
  <2>1. /\ mem' \in [Session -> {"none", "live", "freed"}] /\ mem'[s] = "live"
        /\ \A r \in Session : r # s => mem'[r] = mem[r]
    BY <1>3, Zenon DEF Accept, Lives
  <2>2. timeout' = [timeout EXCEPT ![s] = TRUE] /\ UNCHANGED <<context, reading>>
    BY <1>3, Zenon DEF Accept, kernVars
  <2>3. timeout' \in [Session -> BOOLEAN] /\ \A r \in Session : r # s => timeout'[r] = timeout[r]
    BY <2>2, Zenon DEF Lives
  <2>4. \A r \in Session : Outstanding(r)' = Outstanding(r)
    BY <2>2, Zenon DEF Outstanding
  <2> QED
    BY <2>1, <2>2, <2>3, <2>4, Zenon DEF Lives
<1>4. ASSUME NEW s \in Session, Freed(s) PROVE Lives'
  <2>1. /\ mem' \in [Session -> {"none", "live", "freed"}]
        /\ \A r \in Session : r # s => mem'[r] = mem[r]
    BY <1>4, Zenon DEF Freed, Lives
  <2>2. timeout' \in [Session -> BOOLEAN] /\ ~timeout'[s]
        /\ \A r \in Session : timeout'[r] => timeout[r]
    BY <1>4, TimerCleared, Zenon DEF Freed, Lives
  <2>3. reading' = reading /\ reading # s
    BY <1>4, ServerAssumption, Zenon DEF Freed, Loop
  <2>4. \A r \in Session : Outstanding(r)' = Outstanding(r)
    BY <1>4, Zenon DEF Freed, Outstanding
  <2>5. Outstanding(s) = {}
    BY <1>4, OutstandingFinite, FS_EmptySet, Zenon DEF Freed, Counted
  <2> QED
    BY <2>1, <2>2, <2>3, <2>4, <2>5, Zenon DEF Lives
<1>5. ASSUME NEW s \in Session, Read(s) PROVE Lives'
  <2>1. \A r \in Session : reading' = r => r = s
    BY <1>5, ServerAssumption, Zenon DEF Read
  <2> QED
    BY <1>1, <1>5, <2>1, Zenon DEF Read, Lives
<1> QED
  BY <1>2, <1>3, <1>4, <1>5, StepLife, Zenon DEF Life

-----------------------------------------------------------------------------
(* The pointers to freed memory that a session may be left with.           *)
Pointer == {"null", "live", "freed"}

Left ==
  /\ state \in [Session -> SUBSET {"CONNECTED", "CLOSING"}]
  /\ txns \in [Session -> Pointer]
  /\ appl_context \in [Session -> Pointer]
  /\ FreedIsLeftAlone

(* A step of one session has to be looked at for that session only.        *)
Others(s) == \A r \in Session : r # s =>
  /\ state'[r] = state[r] /\ txns'[r] = txns[r]
  /\ appl_context'[r] = appl_context[r] /\ task_count'[r] = task_count[r]

Typed ==
  /\ state' \in [Session -> SUBSET {"CONNECTED", "CLOSING"}]
  /\ txns' \in [Session -> Pointer] /\ appl_context' \in [Session -> Pointer]

LeftOne(s) ==
  /\ appl_context'[s] = "freed" => "CLOSING" \in state'[s]
  /\ txns'[s] = "freed" => "CLOSING" \in state'[s] /\ task_count'[s] = 0

(* The other sessions are as they were.                                    *)
LEMMA LeftStepOne ==
  ASSUME Left, NEW s \in Session, Typed, Others(s), LeftOne(s) PROVE Left'
<1>1. ASSUME NEW r \in Session, r # s
      PROVE  /\ appl_context'[r] = "freed" => "CLOSING" \in state'[r]
             /\ txns'[r] = "freed" => "CLOSING" \in state'[r] /\ task_count'[r] = 0
  BY <1>1, Zenon DEF Left, FreedIsLeftAlone, Others
<1> QED
  BY <1>1, Zenon DEF Left, FreedIsLeftAlone, Typed, LeftOne

(* A rollback changes the set of its own session.                          *)
LEMMA RollbackFacts ==
  ASSUME txns \in [Session -> Pointer], NEW s \in Session, NEW set \in Pointer, NEW ids,
         RollbackTransactions(s, set, ids)
  PROVE  txns' \in [Session -> Pointer] /\ \A r \in Session : r # s => txns'[r] = txns[r]
<1>1. \/ txns' = [txns EXCEPT ![s] = set]
      \/ txns' = [txns EXCEPT ![s] = "freed"]
      \/ txns' = txns
  BY Zenon DEF RollbackTransactions
<1> QED
  BY <1>1, Zenon DEF Pointer

(* So does the handler of a session that is closing, and only when no task *)
(* is left.                                                                *)
LEMMA CleanupFacts ==
  ASSUME txns \in [Session -> Pointer], NEW s \in Session, Cleanup(s)
  PROVE  /\ txns' \in [Session -> Pointer] /\ \A r \in Session : r # s => txns'[r] = txns[r]
         /\ task_count[s] = 0 \/ txns' = txns
<1>1. CASE task_count[s] = 0 /\ RollbackTransactions(s, txns[s], tids[s])
  BY <1>1, RollbackFacts, Zenon
<1>2. CASE task_count[s] # 0 /\ UNCHANGED rollVars
  BY <1>2, Zenon DEF rollVars
<1> QED
  BY <1>1, <1>2, Zenon DEF Cleanup

(* Closing a connection sets the flag.                                     *)
LEMMA OrderlyFacts ==
  ASSUME Left, NEW s \in Session, OrderlyCleanupConn(s)
  PROVE  /\ state' \in [Session -> SUBSET {"CONNECTED", "CLOSING"}] /\ "CLOSING" \in state'[s]
         /\ \A r \in Session : r # s => state'[r] = state[r]
<1>1. state' = [state EXCEPT ![s] = state[s] \cup {"CLOSING"}]
  BY Zenon DEF OrderlyCleanupConn
<1> QED
  BY <1>1, Zenon DEF Left

(* The same for the end of one.                                            *)
LEMMA CleanupConnFacts ==
  ASSUME Left, NEW s \in Session, CleanupConn(s), UNCHANGED <<appl_context, task_count>>
  PROVE  Left'
<1>1. state' = [state EXCEPT ![s] = {"CLOSING"}]
  BY Zenon DEF CleanupConn
<1>2. /\ state' \in [Session -> SUBSET {"CONNECTED", "CLOSING"}] /\ "CLOSING" \in state'[s]
      /\ \A r \in Session : r # s => state'[r] = state[r]
  BY <1>1, Zenon DEF Left
<1>3. /\ txns' \in [Session -> Pointer] /\ \A r \in Session : r # s => txns'[r] = txns[r]
      /\ task_count[s] = 0 \/ txns' = txns
  BY CleanupFacts, Zenon DEF CleanupConn, Left, rollVars
<1>4. LeftOne(s)
  BY <1>2, <1>3, Zenon DEF LeftOne, Left, FreedIsLeftAlone
<1> QED
  BY <1>2, <1>3, <1>4, LeftStepOne, Zenon DEF Typed, Others, Left

(* Reading a command keeps it, and so does refusing one.                   *)
LEMMA LeftRead ==
  ASSUME Left, NEW s \in Session, BufferedOnRead(s) PROVE Left'
<1>1. CASE ReadClosing(s)
  <2>1. "CLOSING" \in state[s] /\ UNCHANGED <<state, appl_context, task_count>> /\ Cleanup(s)
    BY <1>1, Zenon DEF ReadClosing, sessVars
  <2>2. /\ txns' \in [Session -> Pointer] /\ \A r \in Session : r # s => txns'[r] = txns[r]
        /\ task_count[s] = 0 \/ txns' = txns
    BY <2>1, CleanupFacts, Zenon DEF Left
  <2>3. LeftOne(s)
    BY <2>1, <2>2, Zenon DEF LeftOne, Left, FreedIsLeftAlone
  <2> QED
    BY <2>1, <2>2, <2>3, LeftStepOne, Zenon DEF Typed, Others, Left
<1>2. CASE ReadNothing(s)
  <2>1. /\ appl_context' = [appl_context EXCEPT ![s] = IF @ = "null" THEN "live" ELSE @]
        /\ UNCHANGED <<state, task_count, txns>>
    BY <1>2, Zenon DEF ReadNothing, rollVars
  <2>2. Typed /\ Others(s)
    BY <2>1, Zenon DEF Typed, Others, Left, Pointer
  <2>3. LeftOne(s)
    BY <2>1, Zenon DEF LeftOne, Left, FreedIsLeftAlone
  <2> QED
    BY <2>2, <2>3, LeftStepOne, Zenon
<1>3. ASSUME ReadMsg(s) PROVE "CLOSING" \notin state[s] /\ UNCHANGED txns /\ txns[s] # "freed"
  BY <1>3, Zenon DEF ReadMsg, rollVars, Left, FreedIsLeftAlone
<1>4. CASE ReadRefused(s)
  <2>1. PICK u \in {"freed", "null"} : appl_context' = [appl_context EXCEPT ![s] = u]
    BY <1>4, Zenon DEF ReadRefused, ReadError
  <2>2. ReadMsg(s) /\ OrderlyCleanupConn(s) /\ UNCHANGED task_count
    BY <1>4, Zenon DEF ReadRefused, ReadError
  <2>3. /\ state' \in [Session -> SUBSET {"CONNECTED", "CLOSING"}] /\ "CLOSING" \in state'[s]
        /\ \A r \in Session : r # s => state'[r] = state[r]
    BY <2>2, OrderlyFacts, Zenon
  <2>4. Typed /\ Others(s)
    BY <1>3, <2>1, <2>2, <2>3, Zenon DEF Typed, Others, Left, Pointer
  <2>5. LeftOne(s)
    BY <1>3, <2>2, <2>3, Zenon DEF LeftOne
  <2> QED
    BY <2>4, <2>5, LeftStepOne, Zenon
<1>5. CASE ReadCon(s)
  <2>1. /\ ReadMsg(s) /\ appl_context' = [appl_context EXCEPT ![s] = "null"] /\ UNCHANGED task_count
        /\ state' = [state EXCEPT ![s] = state[s] \cup {"CONNECTED"}]
    BY <1>5, Zenon DEF ReadCon
  <2>2. Typed /\ Others(s)
    BY <1>3, <2>1, Zenon DEF Typed, Others, Left, Pointer
  <2>3. LeftOne(s)
    BY <1>3, <2>1, Zenon DEF LeftOne, Left
  <2> QED
    BY <2>2, <2>3, LeftStepOne, Zenon
<1>6. CASE ReadDis(s)
  <2>1. /\ ReadMsg(s) /\ appl_context' = [appl_context EXCEPT ![s] = "null"] /\ UNCHANGED task_count
        /\ OrderlyCleanupConn(s)
    BY <1>6, Zenon DEF ReadDis
  <2>2. /\ state' \in [Session -> SUBSET {"CONNECTED", "CLOSING"}] /\ "CLOSING" \in state'[s]
        /\ \A r \in Session : r # s => state'[r] = state[r]
    BY <2>1, OrderlyFacts, Zenon
  <2>3. Typed /\ Others(s)
    BY <1>3, <2>1, <2>2, Zenon DEF Typed, Others, Left, Pointer
  <2>4. LeftOne(s)
    BY <1>3, <2>1, <2>2, Zenon DEF LeftOne
  <2> QED
    BY <2>3, <2>4, LeftStepOne, Zenon
<1>7. CASE ReadTask(s)
  <2>1. /\ ReadMsg(s) /\ appl_context' = [appl_context EXCEPT ![s] = "null"] /\ UNCHANGED state
        /\ task_count' = [task_count EXCEPT ![s] = @ + 1]
    BY <1>7, Zenon DEF ReadTask
  <2>2. \A r \in Session : r # s => task_count'[r] = task_count[r]
    BY <2>1
  <2>3. Typed /\ Others(s)
    BY <1>3, <2>1, <2>2, Zenon DEF Typed, Others, Left, Pointer
  <2>4. LeftOne(s)
    BY <1>3, <2>1, Zenon DEF LeftOne, Left
  <2> QED
    BY <2>3, <2>4, LeftStepOne, Zenon
<1> QED
  BY <1>1, <1>2, <1>4, <1>5, <1>6, <1>7, Zenon DEF BufferedOnRead

(* The answer to a command keeps it: the count is not zero before.         *)
LEMMA LeftWrite ==
  ASSUME Queued, Counted, Left, WriteToClientCb PROVE Left'
<1>1. PICK c : c = Head(exec_que)
  BY Zenon
<1>2. PICK s : s = c[1]
  BY Zenon
<1>3. PICK ctx : ctx = context[c]
  BY Zenon
<1>4. /\ c \in Context /\ context[c].at = "exec" /\ s \in Session
      /\ task_count' = [task_count EXCEPT ![s] = @ - 1]
  BY <1>1, <1>2, WriteFacts DEF Context
<1>5. task_count[s] # 0 /\ task_count[s] \in Int /\ txns[s] # "freed"
  <2>1. c \in Outstanding(s)
    BY <1>2, <1>4, Zenon DEF Outstanding
  <2>2. Cardinality(Outstanding(s)) # 0
    BY <1>4, <2>1, OutstandingFinite, FS_EmptySet, Zenon
  <2> QED
    BY <1>4, <2>2, Zenon DEF Counted, Left, FreedIsLeftAlone
<1>6. task_count'[s] = task_count[s] - 1 /\ \A r \in Session : r # s => task_count'[r] = task_count[r]
  BY <1>4, <1>5, Zenon DEF Counted
<1>7. UNCHANGED appl_context
      /\ \/ task_count[s] = 1 /\ LastTask(s, ctx)
         \/ OtherTask(s, ctx)
  BY <1>1, <1>2, <1>3, Zenon DEF WriteToClientCb
<1>8. UpdatedSet(s, ctx) \in Pointer /\ UpdatedSet(s, ctx) # "freed"
  <2>1. UpdatedSet(s, ctx) = "live" \/ UpdatedSet(s, ctx) = txns[s]
    BY Zenon DEF UpdatedSet
  <2> QED
    BY <1>4, <1>5, <2>1, Zenon DEF Left, Pointer
<1>9. CASE task_count[s] = 1 /\ LastTask(s, ctx)
  <2>1. OrderlyCleanupConn(s) /\ RollbackTransactions(s, UpdatedSet(s, ctx), UpdatedTids(s, ctx))
    BY <1>9, Zenon DEF LastTask
  <2>2. txns' \in [Session -> Pointer] /\ \A r \in Session : r # s => txns'[r] = txns[r]
    BY <1>4, <1>8, <2>1, RollbackFacts, Zenon DEF Left
  <2>3. /\ state' \in [Session -> SUBSET {"CONNECTED", "CLOSING"}] /\ "CLOSING" \in state'[s]
        /\ \A r \in Session : r # s => state'[r] = state[r]
    BY <1>4, <2>1, OrderlyFacts, Zenon
  <2>4. Typed /\ Others(s)
    BY <1>6, <1>7, <2>2, <2>3, Zenon DEF Typed, Others, Left
  <2>5. task_count'[s] = 0
    BY <1>6, <1>9
  <2>6. LeftOne(s)
    BY <2>3, <2>5, Zenon DEF LeftOne
  <2> QED
    BY <1>4, <2>4, <2>6, LeftStepOne, Zenon
<1>10. CASE OtherTask(s, ctx)
  <2>1. txns' = [txns EXCEPT ![s] = UpdatedSet(s, ctx)] /\ (OrderlyCleanupConn(s) \/ UNCHANGED state)
    BY <1>10, Zenon DEF OtherTask
  <2>2. /\ txns' \in [Session -> Pointer] /\ txns'[s] # "freed"
        /\ \A r \in Session : r # s => txns'[r] = txns[r]
    BY <1>4, <1>8, <2>1, Zenon DEF Left
  <2>3. /\ state' \in [Session -> SUBSET {"CONNECTED", "CLOSING"}]
        /\ "CLOSING" \in state[s] => "CLOSING" \in state'[s]
        /\ \A r \in Session : r # s => state'[r] = state[r]
    BY <1>4, <2>1, OrderlyFacts, Zenon DEF Left
  <2>4. Typed /\ Others(s)
    BY <1>6, <1>7, <2>2, <2>3, Zenon DEF Typed, Others, Left
  <2>5. LeftOne(s)
    BY <1>4, <1>7, <2>2, <2>3, Zenon DEF LeftOne, Left, FreedIsLeftAlone
  <2> QED
    BY <1>4, <2>4, <2>5, LeftStepOne, Zenon
<1> QED
  BY <1>7, <1>9, <1>10, Zenon

(* Every step leaves freed memory alone.                                   *)
LEMMA LeftStep ==
  ASSUME Queued, Counted, Left, [Next]_vars PROVE Left'
<1>1. ASSUME UNCHANGED <<state, txns, appl_context, task_count>> PROVE Left'
  BY <1>1, Zenon DEF Left, FreedIsLeftAlone
<1>2. ASSUME NEW s \in Session, Accept(s) PROVE Left'
  BY <1>1, <1>2, Zenon DEF Accept, rollVars
<1>3. ASSUME NEW s \in Session, NEW op \in Ops, NEW t \in Tid \cup {NoTid}, Send(s, op, t) PROVE Left'
  BY <1>1, <1>3, Zenon DEF Send, rollVars, sessVars
<1>4. ASSUME NEW s \in Session, SendPart(s) \/ PeerGoes(s) PROVE Left'
  BY <1>1, <1>4, Zenon DEF SendPart, PeerGoes, rollVars, sessVars
<1>5. ASSUME NEW s \in Session, ConTimeout(s) PROVE Left'
  <2>1. UNCHANGED <<txns, appl_context, task_count>> /\ (UNCHANGED state \/ OrderlyCleanupConn(s))
    BY <1>5, Zenon DEF ConTimeout, rollVars
  <2>2. CASE OrderlyCleanupConn(s)
    <3>1. /\ state' \in [Session -> SUBSET {"CONNECTED", "CLOSING"}] /\ "CLOSING" \in state'[s]
          /\ \A r \in Session : r # s => state'[r] = state[r]
      BY <2>2, OrderlyFacts, Zenon
    <3>2. Typed /\ Others(s)
      BY <2>1, <3>1, Zenon DEF Typed, Others, Left
    <3>3. LeftOne(s)
      BY <2>1, <3>1, Zenon DEF LeftOne, Left, FreedIsLeftAlone
    <3> QED
      BY <3>2, <3>3, LeftStepOne, Zenon
  <2> QED
    BY <1>1, <2>1, <2>2, Zenon
<1>6. ASSUME NEW s \in Session, BufferedOnError(s) \/ CloseOnWriteable(s) PROVE Left'
  BY <1>6, CleanupConnFacts, Zenon DEF BufferedOnError, CloseOnWriteable
<1>7. ASSUME NEW c \in Context, Kernel(c) PROVE Left'
  BY <1>1, <1>7, KernelFacts, Zenon DEF rollVars, sessVars
<1>8. ASSUME NEW t \in Tid, AutoRollback(t) PROVE Left'
  BY <1>1, <1>8, Zenon DEF AutoRollback, sessVars
<1>9. ASSUME UNCHANGED vars PROVE Left'
  BY <1>1, <1>9, Zenon DEF vars, rollVars, sessVars
<1> QED
  BY <1>2, <1>3, <1>4, <1>5, <1>6, <1>7, <1>8, <1>9, LeftRead, LeftWrite, Zenon DEF Next

-----------------------------------------------------------------------------
SessionInv == Numbered /\ Queued /\ Counted /\ Lives /\ Left

(* It holds when the server starts.                                        *)
LEMMA SessionInvInit ==
  ASSUME Init PROVE SessionInv
<1>1. Numbered
  <2>1. inbuf \in [Session -> Seq(Msg)] /\ \A s \in Session : Len(inbuf[s]) = 0
    BY DEF Init
  <2>2. sent \in [Session -> Nat] /\ \A s \in Session : sent[s] = 0
    BY Zenon DEF Init
  <2>3. \A c \in Context : context[c].at = "free"
    BY Zenon DEF Init, Free
  <2> QED
    BY <2>1, <2>2, <2>3, ServerAssumption DEF Numbered, Context
<1>2. Free \in Ctx
  BY Zenon DEF Free, Ctx, Ops
<1>3. Queued
  BY <1>2 DEF Init, Queued
<1>4. \A s \in Session : Outstanding(s) = {}
  BY Zenon DEF Init, Outstanding, Free
<1>5. Counted
  <2>1. task_count \in [Session -> Int] /\ \A s \in Session : task_count[s] = 0
    BY DEF Init
  <2>2. Cardinality({}) = 0
    BY FS_EmptySet, Zenon
  <2> QED
    BY <1>4, <2>1, <2>2, Zenon DEF Counted
<1>6. timeout \in [Session -> BOOLEAN] /\ \A s \in Session : ~timeout[s]
  BY Zenon DEF Init
<1>7. mem \in [Session -> {"none", "live", "freed"}] /\ \A s \in Session : reading # s
  BY ServerAssumption, Zenon DEF Init
<1>8. Lives
  BY <1>4, <1>6, <1>7, Zenon DEF Lives
<1>9. Left
  BY Zenon DEF Init, Left, FreedIsLeftAlone, Pointer
<1> QED
  BY <1>1, <1>3, <1>5, <1>8, <1>9, Zenon DEF SessionInv

(* Every step of the server keeps it.                                      *)
THEOREM SessionInvHolds == Spec => []SessionInv
<1>1. SessionInv /\ [Next]_vars => SessionInv'
  BY NumberedStep, QueuedStep, CountedStep, LivesStep, LeftStep, Zenon DEF SessionInv
<1> QED
  BY <1>1, SessionInvInit, PTL DEF Spec

(* The task count is right, and _cleanup_conn never frees a session that a *)
(* command in the kernel, an answer, the timer or the batch being read     *)
(* will still use.                                                         *)
THEOREM SessionsOutliveTheirUsers == Spec => []SessionOutlivesItsUsers
<1>1. SessionInv => SessionOutlivesItsUsers
  BY Zenon DEF SessionInv, Counted, Lives, SessionOutlivesItsUsers
<1> QED
  BY <1>1, SessionInvHolds, PTL

(* A session left with a pointer to freed memory by _send_err or           *)
(* _rollback_transactions is closing and has no task that would follow it. *)
THEOREM FreedMemoryIsLeftAlone == Spec => []FreedIsLeftAlone
<1>1. SessionInv => FreedIsLeftAlone
  BY Zenon DEF SessionInv, Left
<1> QED
  BY <1>1, SessionInvHolds, PTL

-----------------------------------------------------------------------------
(* The transactions that the sessions begin, end and give up.              *)

(* The kernel has started t, and its start has been answered or dropped: t *)
(* will not become a transaction of any session any more.                  *)
Past(t) ==
  txn[t] # "none" /\ \A c \in Context : context[c].op = "STA" => context[c].tid # t

(* What a message or a context of this kind may name.                      *)
Names(op, t) == IF op \in Upt THEN t \in Tid /\ Past(t) ELSE t = NoTid

(* Commands name only transactions whose start is past.                    *)
Named ==
  /\ txn \in [Tid -> {"none", "active", "committed", "rolledback"}]
  /\ \A s \in Session : \A i \in 1 .. Len(inbuf[s]) : Names(inbuf[s][i].op, inbuf[s][i].tid)
  /\ \A c \in Context : context[c].op \in Upt => context[c].tid \in Tid /\ Past(context[c].tid)

(* A transaction that was given up is one the session had when its set was *)
(* freed.  One that it was told is committed is none it has.               *)
Settled ==
  /\ tids \in [Session -> SUBSET (Tid \cup {NoTid})]
  /\ told \subseteq Session \X Tid
  /\ \A s \in Session, t \in Tid : <<s, t>> \in asked => txns[s] = "freed" /\ t \in tids[s]
  /\ \A s \in Session, t \in Tid : <<s, t>> \in told => t \notin tids[s] /\ Past(t)

TxnInv == Named /\ Settled

-----------------------------------------------------------------------------
(* What a step of the kernel does to the transactions and to the one that  *)
(* its context names.                                                      *)
LEMMA KernelTxn ==
  ASSUME Queued, Named, NEW c \in Context, Kernel(c)
  PROVE  /\ txn' \in [Tid -> {"none", "active", "committed", "rolledback"}]
         /\ \A t \in Tid : txn[t] # "none" => txn'[t] # "none"
         /\ context[c].op \in Upt => context'[c].tid = context[c].tid
         /\ \A t \in Tid : context'[c].tid = t /\ txn[t] # "none" => context[c].tid = t
<1>1. ASSUME NEW ok \in BOOLEAN, NEW t \in Tid \cup {NoTid}, Answer(c, ok, t)
      PROVE  context'[c].tid = t
  BY <1>1, AnswerFacts, Zenon DEF Answer, Queued
<1>2. context[c].tid \in Tid \cup {NoTid} /\ NoTid \in Tid \cup {NoTid} /\ NoTid \notin Tid
  BY ServerAssumption, Zenon DEF Queued, Ctx
<1>3. TRUE \in BOOLEAN /\ FALSE \in BOOLEAN
  BY Zenon
<1>4. CASE KernelFails(c)
  <2>1. context'[c].tid = context[c].tid /\ txn' = txn
    BY <1>1, <1>2, <1>3, <1>4, Zenon DEF KernelFails
  <2> QED
    BY <2>1, Zenon DEF Named
<1>5. CASE KernelWorks(c)
  <2>1. context'[c].tid = NoTid /\ txn' = txn /\ context[c].op = "WORK"
    BY <1>1, <1>2, <1>3, <1>5, Zenon DEF KernelWorks
  <2> QED
    BY <1>2, <2>1, Zenon DEF Named, Upt
<1>6. CASE KernelStarts(c)
  <2>1. PICK u \in Tid : txn[u] = "none" /\ txn' = [txn EXCEPT ![u] = "active"] /\ Answer(c, TRUE, u)
    BY <1>6, Zenon DEF KernelStarts
  <2>2. context'[c].tid = u
    <3>1. u \in Tid \cup {NoTid}
      BY Zenon
    <3> QED
      BY <1>1, <1>3, <2>1, <3>1, Zenon
  <2>3. context[c].op = "STA"
    BY <1>6, Zenon DEF KernelStarts
  <2> QED
    BY <2>1, <2>2, <2>3, Zenon DEF Named, Upt
<1>7. CASE KernelUpdates(c)
  <2>1. context[c].op \in Upt /\ txn' = [txn EXCEPT ![context[c].tid] = After[context[c].op]]
        /\ Answer(c, TRUE, context[c].tid)
    BY <1>7, Zenon DEF KernelUpdates
  <2>2. context'[c].tid = context[c].tid
    BY <1>1, <1>2, <1>3, <2>1, Zenon
  <2>3. After[context[c].op] \in {"active", "committed", "rolledback"}
    BY <2>1 DEF Upt, After
  <2> QED
    BY <2>1, <2>2, <2>3, Zenon DEF Named
<1> QED
  BY <1>4, <1>5, <1>6, <1>7, Zenon DEF Kernel

(* The steps that change a transaction or a context.                       *)
LEMMA StepTxn ==
  ASSUME [Next]_vars
  PROVE  \/ UNCHANGED <<txn, context>>
         \/ UNCHANGED txn /\ \E s \in Session : ReadTask(s)
         \/ UNCHANGED txn /\ WriteToClientCb
         \/ \E c \in Context : Kernel(c)
         \/ \E t \in Tid : AutoRollback(t)
<1>1. ASSUME NEW s \in Session, \/ Accept(s) \/ SendPart(s) \/ PeerGoes(s) \/ ConTimeout(s)
                                \/ BufferedOnError(s) \/ CloseOnWriteable(s)
      PROVE  UNCHANGED <<txn, context>>
  BY <1>1, Zenon DEF Accept, SendPart, PeerGoes, ConTimeout, BufferedOnError, CloseOnWriteable, kernVars
<1>2. ASSUME NEW s \in Session, NEW op \in Ops, NEW t \in Tid \cup {NoTid}, Send(s, op, t)
      PROVE  UNCHANGED <<txn, context>>
  BY <1>2, Zenon DEF Send, kernVars
<1>3. ASSUME NEW s \in Session, ReadClosing(s) \/ ReadNothing(s) PROVE UNCHANGED <<txn, context>>
  BY <1>3, Zenon DEF ReadClosing, ReadNothing, kernVars
<1>4. ASSUME NEW s \in Session, ReadRefused(s) \/ ReadCon(s) \/ ReadDis(s)
      PROVE  UNCHANGED <<txn, context>>
  BY <1>4, Zenon DEF ReadRefused, ReadError, ReadCon, ReadDis, ReadMsg
<1>5. ASSUME NEW s \in Session, ReadTask(s) PROVE UNCHANGED txn
  BY <1>5, Zenon DEF ReadTask, ReadMsg
<1>6. ASSUME WriteToClientCb PROVE UNCHANGED txn
  BY <1>6, Zenon DEF WriteToClientCb
<1>7. ASSUME UNCHANGED vars PROVE UNCHANGED <<txn, context>>
  BY <1>7, Zenon DEF vars, kernVars
<1> QED
  BY <1>1, <1>2, <1>3, <1>4, <1>5, <1>6, <1>7, Zenon DEF Next, BufferedOnRead

(* The first of the commands that wait names what it may.                  *)
LEMMA FirstNamed ==
  ASSUME Numbered, Named, NEW s \in Session, inbuf[s] # <<>>
  PROVE  Names(inbuf[s][1].op, inbuf[s][1].tid)
<1>1. Len(inbuf[s]) \in Nat /\ Len(inbuf[s]) >= 1
  BY NumberedFacts, TailFacts, Zenon
<1>2. 1 \in 1 .. Len(inbuf[s])
  BY <1>1
<1> QED
  BY <1>2, Zenon DEF Named

(* What is past stays past.                                                *)
LEMMA PastStep ==
  ASSUME Numbered, Queued, Named, [Next]_vars, NEW t \in Tid, Past(t)
  PROVE  Past(t)'
<1>1. CASE UNCHANGED <<txn, context>>
  BY <1>1, Zenon DEF Past
<1>2. ASSUME NEW s \in Session, ReadTask(s), UNCHANGED txn PROVE Past(t)'
  <2>1. PICK d : d = <<s, NewNumber(s)>>
    BY Zenon
  <2>2. /\ d \in Context /\ context'[d].op = inbuf[s][1].op /\ context'[d].tid = inbuf[s][1].tid
        /\ \A c \in Context : c # d => context'[c] = context[c]
    BY <1>2, <2>1, ReadTaskFacts, Zenon
  <2>3. Names(inbuf[s][1].op, inbuf[s][1].tid)
    BY <1>2, FirstNamed, Zenon DEF ReadTask, ReadMsg
  <2>4. context'[d].op = "STA" => context'[d].tid # t
    BY <2>2, <2>3, ServerAssumption, Zenon DEF Names, Upt
  <2> QED
    BY <1>2, <2>2, <2>4, Zenon DEF Past
<1>3. CASE UNCHANGED txn /\ WriteToClientCb
  <2>1. PICK d : d = Head(exec_que)
    BY Zenon
  <2>2. /\ d \in Context /\ context'[d].op = "WORK"
        /\ \A c \in Context : c # d => context'[c] = context[c]
    BY <1>3, <2>1, WriteFacts, Zenon
  <2> QED
    BY <1>3, <2>2, Zenon DEF Past
<1>4. ASSUME NEW d \in Context, Kernel(d) PROVE Past(t)'
  <2>1. /\ context'[d].op = context[d].op
        /\ \A c \in Context : c # d => context'[c] = context[c]
    BY <1>4, KernelFacts, Zenon
  <2>2. txn'[t] # "none" /\ (context'[d].tid = t => context[d].tid = t)
    BY <1>4, KernelTxn, Zenon DEF Past
  <2> QED
    BY <2>1, <2>2, Zenon DEF Past
<1>5. ASSUME NEW u \in Tid, AutoRollback(u) PROVE Past(t)'
  <2>1. UNCHANGED context /\ (txn' = [txn EXCEPT ![u] = "rolledback"] \/ txn' = txn)
    BY <1>5, Zenon DEF AutoRollback
  <2> QED
    BY <2>1, Zenon DEF Past, Named
<1> QED
  BY <1>1, <1>2, <1>3, <1>4, <1>5, StepTxn, Zenon

-----------------------------------------------------------------------------
(* Every step keeps the names.                                             *)
LEMMA NamedStep ==
  ASSUME Numbered, Queued, Named, [Next]_vars PROVE Named'
<1>1. ASSUME NEW op, NEW t, Names(op, t) PROVE Names(op, t)'
  BY <1>1, PastStep, Zenon DEF Names
<1>2. txn' \in [Tid -> {"none", "active", "committed", "rolledback"}]
  <2>1. ASSUME NEW c \in Context, Kernel(c)
        PROVE  txn' \in [Tid -> {"none", "active", "committed", "rolledback"}]
    BY <2>1, KernelTxn, Zenon
  <2>2. ASSUME NEW u \in Tid, AutoRollback(u)
        PROVE  txn' = [txn EXCEPT ![u] = "rolledback"] \/ txn' = txn
    BY <2>2, Zenon DEF AutoRollback
  <2> QED
    BY <2>1, <2>2, StepTxn, Zenon DEF Named
<1>3. ASSUME NEW c \in Context, NEW u, u = context'[c].tid, context'[c].op \in Upt
      PROVE  u \in Tid /\ Past(u)'
  <2>1. SUFFICES u \in Tid /\ Past(u)
    BY <2>1, PastStep, Zenon
  <2>2. CASE context'[c] = context[c]
    BY <1>3, <2>2, Zenon DEF Named
  <2>3. ASSUME NEW s \in Session, ReadTask(s), context'[c] # context[c]
        PROVE  u \in Tid /\ Past(u)
    <3>1. context'[c].op = inbuf[s][1].op /\ context'[c].tid = inbuf[s][1].tid
      BY <2>3, ReadTaskFacts, Zenon
    <3>2. Names(inbuf[s][1].op, inbuf[s][1].tid)
      BY <2>3, FirstNamed, Zenon DEF ReadTask, ReadMsg
    <3> QED
      BY <1>3, <3>1, <3>2, Zenon DEF Names
  <2>4. ASSUME WriteToClientCb PROVE context'[c] = context[c]
    BY <1>3, <2>4, WriteFacts, Zenon DEF Upt
  <2>5. ASSUME NEW d \in Context, Kernel(d), context'[c] # context[c]
        PROVE  u \in Tid /\ Past(u)
    <3>1. c = d /\ context[c].op \in Upt
      BY <1>3, <2>5, KernelFacts, Zenon
    <3>2. u = context[c].tid
      BY <1>3, <2>5, <3>1, KernelTxn, Zenon
    <3> QED
      BY <3>1, <3>2, Zenon DEF Named
  <2>6. ASSUME NEW t \in Tid, AutoRollback(t) PROVE context'[c] = context[c]
    BY <2>6, Zenon DEF AutoRollback
  <2> QED
    BY <2>2, <2>3, <2>4, <2>5, <2>6, StepTxn, Zenon
<1>4. ASSUME NEW r \in Session, NEW i \in 1 .. Len(inbuf'[r]), NEW m, m = inbuf'[r][i]
      PROVE  Names(m.op, m.tid)'
  <2>1. SUFFICES Names(m.op, m.tid)
    BY <1>1, <2>1, Zenon
  <2>2. CASE inbuf'[r] = inbuf[r]
    BY <1>4, <2>2, Zenon DEF Named
  <2>3. ASSUME NEW s \in Session, inbuf' = [inbuf EXCEPT ![s] = <<>>] PROVE inbuf'[r] = inbuf[r]
    BY <1>4, <2>3 DEF Numbered
  <2>4. ASSUME NEW s \in Session, inbuf[s] # <<>>, inbuf' = [inbuf EXCEPT ![s] = Tail(@)],
               inbuf'[r] # inbuf[r]
        PROVE  Names(m.op, m.tid)
    <3>1. r = s /\ inbuf'[r] = Tail(inbuf[r]) /\ inbuf[r] \in Seq(Msg)
      BY <2>4, Zenon DEF Numbered
    <3>2. i + 1 \in 2 .. Len(inbuf[r]) /\ m = inbuf[r][i + 1]
      BY <1>4, <2>4, <3>1, TailFacts
    <3>3. i + 1 \in 1 .. Len(inbuf[r])
      BY <3>2
    <3> QED
      BY <3>2, <3>3, Zenon DEF Named
  <2>5. ASSUME NEW s \in Session, NEW op \in Ops, NEW t \in Tid \cup {NoTid}, Send(s, op, t),
               inbuf'[r] # inbuf[r]
        PROVE  Names(m.op, m.tid)
    <3>1. PICK e : e = [op |-> op, tid |-> t]
      BY Zenon
    <3>2. e \in Msg /\ e.op = op /\ e.tid = t
      BY <3>1, Zenon DEF Msg
    <3>3. r = s /\ inbuf'[r] = Append(inbuf[r], e) /\ inbuf[r] \in Seq(Msg)
      BY <2>5, <3>1, Zenon DEF Send, Numbered
    <3>4. Names(op, t)
      BY <2>5, Zenon DEF Send, Names, Known, Past
    <3>5. m = e \/ (i \in 1 .. Len(inbuf[r]) /\ m = inbuf[r][i])
      BY <1>4, <3>2, <3>3, AppendFacts
    <3> QED
      BY <3>2, <3>4, <3>5, Zenon DEF Named
  <2>6. ASSUME NEW c \in Context, Kernel(c) PROVE UNCHANGED inbuf
    BY <2>6, KernelFacts, Zenon DEF netVars
  <2>7. ASSUME WriteToClientCb PROVE UNCHANGED inbuf
    BY <2>7, Zenon DEF WriteToClientCb, netVars
  <2> QED
    BY <2>2, <2>3, <2>4, <2>5, <2>6, <2>7, StepKind, Zenon
    DEF Kind, Quiet, Emptied, Taken, ReadTask, ReadMsg
<1> QED
  BY <1>2, <1>3, <1>4 DEF Named, Names, Past

-----------------------------------------------------------------------------
(* A step that gives up the transactions of a session gives up those of    *)
(* its set, and frees it.                                                  *)
GivesUp(s, ids) ==
  \/ UNCHANGED <<txns, asked>>
  \/ txns' = [txns EXCEPT ![s] = "freed"] /\ asked' = asked \cup ({s} \X ids)

(* _rollback_transactions does just that, or nothing.                      *)
LEMMA RollbackGivesUp ==
  ASSUME txns \in [Session -> Pointer], NEW s \in Session, NEW ids,
         RollbackTransactions(s, txns[s], ids)
  PROVE  GivesUp(s, ids)
<1>1. CASE txns' = [txns EXCEPT ![s] = txns[s]] /\ UNCHANGED asked
  BY <1>1, Zenon DEF GivesUp
<1>2. CASE txns' = [txns EXCEPT ![s] = "freed"] /\ asked' = asked \cup ({s} \X ids)
  BY <1>2, Zenon DEF GivesUp
<1>3. CASE UNCHANGED <<txns, asked>>
  BY <1>3, Zenon DEF GivesUp
<1> QED
  BY <1>1, <1>2, <1>3, Zenon DEF RollbackTransactions

(* Steps other than an answer leave what a session has and was told, and   *)
(* give up nothing but what it has.                                        *)
LEMMA StepGivesUp ==
  ASSUME Queued, Left, [Next]_vars
  PROVE  \/ WriteToClientCb
         \/ UNCHANGED <<told, tids, txns, asked>>
         \/ UNCHANGED <<told, tids>> /\ \E s \in Session : GivesUp(s, tids[s])
<1>1. ASSUME NEW s \in Session, Cleanup(s) PROVE GivesUp(s, tids[s])
  <2>1. CASE RollbackTransactions(s, txns[s], tids[s])
    BY <2>1, RollbackGivesUp, Zenon DEF Left
  <2>2. CASE UNCHANGED rollVars
    BY <2>2, Zenon DEF rollVars, GivesUp
  <2> QED
    BY <1>1, <2>1, <2>2, Zenon DEF Cleanup
<1>2. ASSUME NEW s \in Session, CleanupConn(s) PROVE GivesUp(s, tids[s])
  BY <1>1, <1>2, Zenon DEF CleanupConn, rollVars, GivesUp
<1>3. ASSUME NEW s \in Session, BufferedOnError(s) \/ CloseOnWriteable(s) \/ ReadClosing(s)
      PROVE  UNCHANGED <<told, tids>> /\ GivesUp(s, tids[s])
  BY <1>1, <1>2, <1>3, Zenon DEF BufferedOnError, CloseOnWriteable, ReadClosing, kernVars, sessVars
<1>4. ASSUME NEW s \in Session, Accept(s) \/ SendPart(s) \/ PeerGoes(s) \/ ConTimeout(s) \/ ReadNothing(s)
      PROVE  UNCHANGED <<told, tids, txns, asked>>
  BY <1>4, Zenon DEF Accept, SendPart, PeerGoes, ConTimeout, ReadNothing, kernVars, rollVars, sessVars
<1>5. ASSUME NEW s \in Session, NEW op \in Ops, NEW t \in Tid \cup {NoTid}, Send(s, op, t)
      PROVE  UNCHANGED <<told, tids, txns, asked>>
  BY <1>5, Zenon DEF Send, kernVars, rollVars, sessVars
<1>6. ASSUME NEW s \in Session, ReadRefused(s) \/ ReadCon(s) \/ ReadDis(s) \/ ReadTask(s)
      PROVE  UNCHANGED <<told, tids, txns, asked>>
  BY <1>6, Zenon DEF ReadRefused, ReadCon, ReadDis, ReadTask, ReadMsg, rollVars
<1>7. ASSUME NEW c \in Context, Kernel(c) PROVE UNCHANGED <<told, tids, txns, asked>>
  BY <1>7, KernelFacts, Zenon DEF rollVars, sessVars
<1>8. ASSUME NEW t \in Tid, AutoRollback(t) PROVE UNCHANGED <<told, tids, txns, asked>>
  BY <1>8, Zenon DEF AutoRollback, sessVars
<1>9. ASSUME UNCHANGED vars PROVE UNCHANGED <<told, tids, txns, asked>>
  BY <1>9, Zenon DEF vars, kernVars, rollVars, sessVars
<1> QED
  BY <1>3, <1>4, <1>5, <1>6, <1>7, <1>8, <1>9, Zenon DEF Next, BufferedOnRead

(* Every step other than an answer keeps what is settled.                  *)
LEMMA SettledOther ==
  ASSUME Numbered, Queued, Left, Named, Settled, [Next]_vars, ~WriteToClientCb PROVE Settled'
<1>1. UNCHANGED <<told, tids>>
  BY StepGivesUp, Zenon
<1>2. ASSUME NEW r \in Session, NEW t \in Tid, <<r, t>> \in asked'
      PROVE  txns'[r] = "freed" /\ t \in tids[r]
  <2>1. CASE UNCHANGED <<txns, asked>>
    BY <1>2, <2>1, Zenon DEF Settled
  <2>2. ASSUME NEW s \in Session, txns' = [txns EXCEPT ![s] = "freed"],
               asked' = asked \cup ({s} \X tids[s])
        PROVE  txns'[r] = "freed" /\ t \in tids[r]
    BY <1>2, <2>2, Zenon DEF Settled, Left
  <2> QED
    BY <2>1, <2>2, StepGivesUp, Zenon DEF GivesUp
<1>3. ASSUME NEW r \in Session, NEW t \in Tid, <<r, t>> \in told PROVE t \notin tids[r] /\ Past(t)'
  BY <1>3, PastStep, Zenon DEF Settled
<1> QED
  BY <1>1, <1>2, <1>3, Zenon DEF Settled

(* An answer keeps it.  Its session has given up nothing so far, since it  *)
(* had a task; a start brings in a transaction that nobody could name, and *)
(* a commit takes the transaction out of the set.                          *)
LEMMA SettledWrite ==
  ASSUME Numbered, Queued, Counted, Left, Named, Settled, [Next]_vars, WriteToClientCb
  PROVE  Settled'
<1>1. PICK c : c = Head(exec_que)
  BY Zenon
<1>2. PICK s : s = c[1]
  BY Zenon
<1>3. PICK ctx : ctx = context[c]
  BY Zenon
<1>4. c \in Context /\ context[c].at = "exec" /\ s \in Session /\ ctx.tid \in Tid \cup {NoTid}
  BY <1>1, <1>2, <1>3, WriteFacts DEF Context, Queued, Ctx
<1>5. txns[s] # "freed"
  <2>1. c \in Outstanding(s)
    BY <1>2, <1>4, Zenon DEF Outstanding
  <2>2. Cardinality(Outstanding(s)) # 0
    BY <1>4, <2>1, OutstandingFinite, FS_EmptySet, Zenon
  <2> QED
    BY <1>4, <2>2, Zenon DEF Counted, Left, FreedIsLeftAlone
<1>6. /\ tids' = [tids EXCEPT ![s] = UpdatedTids(s, ctx)]
      /\ LastTask(s, ctx) \/ OtherTask(s, ctx)
  BY <1>1, <1>2, <1>3, Zenon DEF WriteToClientCb
<1>7. UpdatedSet(s, ctx) = "live" \/ UpdatedSet(s, ctx) = txns[s]
  BY Zenon DEF UpdatedSet
<1>8. \/ UpdatedTids(s, ctx) = tids[s] \cup {ctx.tid} /\ ctx.op = "STA"
      \/ UpdatedTids(s, ctx) = tids[s] \ {ctx.tid}
      \/ UpdatedTids(s, ctx) = tids[s] /\ ~(ctx.ok /\ ctx.op = "COMMIT")
  <2>1. CASE ctx.ok /\ ctx.op = "STA"
    BY <2>1, Zenon DEF UpdatedTids
  <2>2. CASE ctx.ok /\ ctx.op \in {"COMMIT", "ROLLBACK"}
    <3>1. ctx.op # "STA"
      BY <2>2, Zenon
    <3> QED
      BY <2>2, <3>1, Zenon DEF UpdatedTids
  <2>3. CASE ~(ctx.ok /\ ctx.op = "STA") /\ ~(ctx.ok /\ ctx.op \in {"COMMIT", "ROLLBACK"})
    <3>1. ctx.op = "COMMIT" => ctx.op \in {"COMMIT", "ROLLBACK"}
      BY Zenon
    <3> QED
      BY <2>3, <3>1, Zenon DEF UpdatedTids
  <2> QED
    BY <2>1, <2>2, <2>3, Zenon
<1>9. UpdatedTids(s, ctx) \in SUBSET (Tid \cup {NoTid})
  BY <1>4, <1>8, Zenon DEF Settled
<1>10. /\ tids' \in [Session -> SUBSET (Tid \cup {NoTid})] /\ tids'[s] = UpdatedTids(s, ctx)
       /\ \A r \in Session : r # s => tids'[r] = tids[r]
  BY <1>4, <1>6, <1>9, Zenon DEF Settled
<1>11. /\ \A r \in Session : r # s => txns'[r] = txns[r]
       /\ \/ asked' = asked
          \/ asked' = asked \cup ({s} \X tids'[s]) /\ txns'[s] = "freed"
  <2>1. CASE LastTask(s, ctx)
    <3>1. \/ txns' = [txns EXCEPT ![s] = UpdatedSet(s, ctx)] /\ asked' = asked
          \/ txns' = [txns EXCEPT ![s] = "freed"] /\ asked' = asked \cup ({s} \X UpdatedTids(s, ctx))
          \/ txns' = txns /\ asked' = asked
      BY <2>1, Zenon DEF LastTask, RollbackTransactions
    <3> QED
      BY <1>4, <1>10, <3>1, Zenon DEF Left
  <2>2. CASE OtherTask(s, ctx)
    <3>1. txns' = [txns EXCEPT ![s] = UpdatedSet(s, ctx)] /\ asked' = asked
      BY <2>2, Zenon DEF OtherTask
    <3> QED
      BY <1>4, <3>1, Zenon DEF Left
  <2> QED
    BY <1>6, <2>1, <2>2, Zenon
<1>12. told' = told \/ (told' = told \cup {<<s, ctx.tid>>} /\ ctx.ok /\ ctx.op = "COMMIT")
  BY <1>6, Zenon DEF LastTask, OtherTask
<1>13. ASSUME NEW r \in Session, NEW t \in Tid, <<r, t>> \in asked'
       PROVE  txns'[r] = "freed" /\ t \in tids'[r]
  <2>1. CASE r = s
    <3>1. <<r, t>> \notin asked
      BY <1>5, <2>1, Zenon DEF Settled
    <3> QED
      BY <1>11, <1>13, <2>1, <3>1, Zenon
  <2>2. CASE r # s
    BY <1>10, <1>11, <1>13, <2>2 DEF Settled
  <2> QED
    BY <2>1, <2>2, Zenon
<1>14. ctx.op = "COMMIT" => ctx.tid \in Tid /\ Past(ctx.tid)
  BY <1>3, <1>4, Zenon DEF Named, Upt
<1>15. ASSUME NEW r \in Session, NEW t \in Tid, <<r, t>> \in told'
       PROVE  t \notin tids'[r] /\ Past(t)
  <2>1. CASE <<r, t>> \in told
    <3>1. t \notin tids[r] /\ Past(t)
      BY <2>1, Zenon DEF Settled
    <3>2. ctx.op = "STA" => ctx.tid # t
      BY <1>3, <1>4, <3>1, Zenon DEF Past
    <3>3. r = s => t \notin UpdatedTids(s, ctx)
      BY <1>8, <3>1, <3>2, Zenon
    <3> QED
      BY <1>10, <3>1, <3>3, Zenon
  <2>2. CASE <<r, t>> \notin told
    <3>1. r = s /\ t = ctx.tid /\ ctx.ok /\ ctx.op = "COMMIT"
      BY <1>12, <1>15, <2>2
    <3>2. UpdatedTids(s, ctx) = tids[s] \ {ctx.tid}
      BY <1>8, <3>1, Zenon
    <3> QED
      BY <1>10, <1>14, <3>1, <3>2, Zenon
  <2> QED
    BY <2>1, <2>2, Zenon
<1>16. ASSUME NEW r \in Session, NEW t \in Tid, <<r, t>> \in told' PROVE Past(t)'
  BY <1>15, <1>16, PastStep, Zenon
<1>17. told' \subseteq Session \X Tid
  BY <1>4, <1>12, <1>14 DEF Settled
<1> QED
  BY <1>10, <1>13, <1>15, <1>16, <1>17, Zenon DEF Settled

-----------------------------------------------------------------------------
(* Both hold when the server starts.                                       *)
LEMMA TxnInvInit ==
  ASSUME Init PROVE TxnInv
<1>1. \A c \in Context : context[c].op = "WORK"
  BY Zenon DEF Init, Free
<1>2. Named
  BY <1>1 DEF Init, Named, Upt
<1>3. Settled
  BY Zenon DEF Init, Settled
<1> QED
  BY <1>2, <1>3, Zenon DEF TxnInv

(* The transactions are settled at all times, for any number of sessions,  *)
(* commands and transactions.                                              *)
THEOREM TxnInvHolds == Spec => []TxnInv
<1>1. SessionInv /\ TxnInv /\ [Next]_vars => TxnInv'
  BY NamedStep, SettledOther, SettledWrite, Zenon DEF SessionInv, TxnInv
<1> QED
  BY <1>1, TxnInvInit, SessionInvHolds, PTL DEF Spec

(* A session that has told its client that a transaction is committed      *)
(* never asks for its rollback, whether the connection ends before, while  *)
(* or after the answer is on its way (_update_pending_txns and             *)
(* _rollback_transactions).                                                *)
THEOREM CommittedIsNotRolledBack == Spec => []NoRollbackOfCommitted
<1>1. TxnInv => NoRollbackOfCommitted
  BY DEF TxnInv, Settled, NoRollbackOfCommitted
<1> QED
  BY <1>1, TxnInvHolds, PTL

-----------------------------------------------------------------------------
(* Types: what is left of them.                                            *)

(* The flags of the sessions, and what the loop knows of the connections.  *)
Flags ==
  /\ rb_on_dis \in [Session -> BOOLEAN] /\ close_cb \in [Session -> BOOLEAN]
  /\ part \in [Session -> BOOLEAN] /\ readable \in [Session -> BOOLEAN]
  /\ peer \in [Session -> {"up", "gone", "seen"}]
  /\ reading \in Session \cup {NoSession}

(* One flag of g is not as it is in f.                                     *)
Toggled(f, g) == g = f \/ \E s \in Session, b \in BOOLEAN : g = [f EXCEPT ![s] = b]

Toggles ==
  /\ Toggled(rb_on_dis, rb_on_dis') /\ Toggled(close_cb, close_cb')
  /\ Toggled(part, part') /\ Toggled(readable, readable')
  /\ peer' = peer \/ \E s \in Session, p \in {"gone", "seen"} : peer' = [peer EXCEPT ![s] = p]
  /\ reading' = reading \/ reading' \in Session \cup {NoSession}

(* Flags that are toggled are flags.                                       *)
LEMMA ToggledFlags ==
  ASSUME NEW f \in [Session -> BOOLEAN], NEW g, Toggled(f, g)
  PROVE  g \in [Session -> BOOLEAN]
BY Zenon DEF Toggled

(* A step changes a flag of each kind at most.                             *)
LEMMA StepToggles ==
  ASSUME Queued, [Next]_vars PROVE Toggles
<1>1. TRUE \in BOOLEAN /\ FALSE \in BOOLEAN
  BY Zenon
<1>2. ASSUME NEW s \in Session, Accept(s) \/ PeerGoes(s) PROVE Toggles
  BY <1>2, Zenon DEF Accept, PeerGoes, Toggles, Toggled, netVars, sessVars
<1>3. ASSUME NEW s \in Session, NEW op \in Ops, NEW t \in Tid \cup {NoTid}, Send(s, op, t) PROVE Toggles
  BY <1>1, <1>3, Zenon DEF Send, Toggles, Toggled, sessVars
<1>4. ASSUME NEW s \in Session, SendPart(s) PROVE Toggles
  BY <1>1, <1>4, Zenon DEF SendPart, Toggles, Toggled, sessVars
<1>5. ASSUME NEW s \in Session, ConTimeout(s) PROVE Toggles
  BY <1>1, <1>5, Zenon DEF ConTimeout, OrderlyCleanupConn, Toggles, Toggled, netVars
<1>6. ASSUME NEW s \in Session, BufferedOnError(s) PROVE Toggles
  BY <1>1, <1>6, Zenon DEF BufferedOnError, CleanupConn, SessionFree, Toggles, Toggled
<1>7. ASSUME NEW s \in Session, CloseOnWriteable(s) PROVE Toggles
  BY <1>1, <1>7, Zenon DEF CloseOnWriteable, CleanupConn, SessionFree, Toggles, Toggled
<1>8. ASSUME NEW s \in Session, ReadClosing(s) \/ ReadNothing(s) PROVE Toggles
  BY <1>1, <1>8, Zenon DEF ReadClosing, ReadNothing, OnRead, Toggles, Toggled, sessVars
<1>9. ASSUME NEW s \in Session, ReadRefused(s) PROVE Toggles
  BY <1>1, <1>9, Zenon DEF ReadRefused, ReadMsg, ReadError, OnRead, OrderlyCleanupConn, Toggles, Toggled
<1>10. ASSUME NEW s \in Session, ReadDis(s) PROVE Toggles
  BY <1>1, <1>10, Zenon DEF ReadDis, ReadMsg, OnRead, OrderlyCleanupConn, NextOfBatch, Toggles, Toggled
<1>11. ASSUME NEW s \in Session, ReadCon(s) PROVE Toggles
  <2>1. (s \in Rb) \in BOOLEAN
    OBVIOUS
  <2> QED
    BY <1>1, <1>11, <2>1, Zenon DEF ReadCon, ReadMsg, OnRead, NextOfBatch, Toggles, Toggled
<1>12. ASSUME NEW s \in Session, ReadTask(s) PROVE Toggles
  BY <1>1, <1>12, Zenon DEF ReadTask, ReadMsg, OnRead, NextOfBatch, Toggles, Toggled
<1>13. ASSUME NEW c \in Context, Kernel(c) PROVE Toggles
  BY <1>13, KernelFacts, Zenon DEF Toggles, Toggled, netVars, sessVars
<1>14. ASSUME NEW t \in Tid, AutoRollback(t) PROVE Toggles
  BY <1>14, Zenon DEF AutoRollback, Toggles, Toggled, netVars, sessVars
<1>15. CASE WriteToClientCb
  <2>1. PICK s \in Session : close_cb' = close_cb \/ close_cb' = [close_cb EXCEPT ![s] = TRUE]
    <3>1. PICK c \in Context : c = Head(exec_que)
      BY <1>15, WriteFacts, Zenon
    <3>2. c[1] \in Session
      BY <3>1 DEF Context
    <3> QED
      BY <1>15, <3>1, <3>2, Zenon DEF WriteToClientCb, LastTask, OtherTask, OrderlyCleanupConn
  <2>2. UNCHANGED <<rb_on_dis, part, readable, peer, reading>>
    BY <1>15, Zenon DEF WriteToClientCb, netVars
  <2> QED
    BY <1>1, <2>1, <2>2, Zenon DEF Toggles, Toggled
<1>16. CASE UNCHANGED vars
  BY <1>16, Zenon DEF vars, Toggles, Toggled, netVars, sessVars
<1> QED
  BY <1>2, <1>3, <1>4, <1>5, <1>6, <1>7, <1>8, <1>9, <1>10, <1>11, <1>12, <1>13, <1>14, <1>15, <1>16,
     Zenon DEF Next, BufferedOnRead

(* Every step keeps the flags.                                             *)
LEMMA FlagsStep ==
  ASSUME Queued, Flags, [Next]_vars PROVE Flags'
<1>1. Toggles
  BY StepToggles, Zenon
<1>2. rb_on_dis' \in [Session -> BOOLEAN] /\ close_cb' \in [Session -> BOOLEAN]
  BY <1>1, ToggledFlags, Zenon DEF Flags, Toggles
<1>3. part' \in [Session -> BOOLEAN] /\ readable' \in [Session -> BOOLEAN]
  BY <1>1, ToggledFlags, Zenon DEF Flags, Toggles
<1>4. peer' \in [Session -> {"up", "gone", "seen"}]
  BY <1>1, Zenon DEF Flags, Toggles
<1>5. reading' \in Session \cup {NoSession}
  BY <1>1, Zenon DEF Flags, Toggles
<1> QED
  BY <1>2, <1>3, <1>4, <1>5, Zenon DEF Flags

(* A start that has succeeded brings the transaction it started, so that   *)
(* only transactions are ever put into a set or given up.                  *)
Brought ==
  /\ tids \in [Session -> SUBSET Tid]
  /\ auto \subseteq Tid /\ asked \subseteq Session \X Tid /\ crashed \in BOOLEAN
  /\ \A c \in Context : context[c].at = "exec" /\ context[c].op = "STA" /\ context[c].ok
                       => context[c].tid \in Tid

(* What a rollback of these transactions may do.                           *)
Rolls(s, ids) ==
  /\ \E found \in SUBSET ids : auto' = auto \cup found
  /\ asked' = asked \/ asked' = asked \cup ({s} \X ids)
  /\ crashed' = crashed \/ crashed' = TRUE

(* Nothing is given up that is not in the set.                             *)
LEMMA RollbackRolls ==
  ASSUME NEW s, NEW set, NEW ids, RollbackTransactions(s, set, ids) PROVE Rolls(s, ids)
<1>1. {} \in SUBSET ids /\ ids \in SUBSET ids /\ auto \cup {} = auto
  BY Zenon
<1>2. \E found \in SUBSET ids : auto' = auto \cup found
  BY <1>1, Zenon DEF RollbackTransactions
<1> QED
  BY <1>2, Zenon DEF RollbackTransactions, Rolls

(* The same of a session that is closing, and of one that ends.            *)
LEMMA CleanupRolls ==
  ASSUME NEW s, Cleanup(s) \/ CleanupConn(s) PROVE Rolls(s, tids[s])
<1>1. ASSUME UNCHANGED <<auto, asked, crashed>> PROVE Rolls(s, tids[s])
  <2>1. {} \in SUBSET tids[s] /\ auto \cup {} = auto
    BY Zenon
  <2> QED
    BY <1>1, <2>1, Zenon DEF Rolls
<1> QED
  BY <1>1, RollbackRolls, Zenon DEF Cleanup, CleanupConn, rollVars

(* Transactions that are given up leave the types as they were.            *)
LEMMA RollsTypes ==
  ASSUME auto \subseteq Tid, asked \subseteq Session \X Tid, crashed \in BOOLEAN,
         NEW s \in Session, NEW ids \in SUBSET Tid, Rolls(s, ids)
  PROVE  auto' \subseteq Tid /\ asked' \subseteq Session \X Tid /\ crashed' \in BOOLEAN
<1>1. auto' \subseteq Tid
  BY Zenon DEF Rolls
<1>2. asked' \subseteq Session \X Tid
  BY Zenon DEF Rolls
<1>3. crashed' \in BOOLEAN
  BY Zenon DEF Rolls
<1> QED
  BY <1>1, <1>2, <1>3, Zenon

(* The contexts of starts: the kernel fills in the transaction.            *)
LEMMA StartsBring ==
  ASSUME Numbered, Queued, Brought, [Next]_vars, NEW c \in Context,
         context'[c].at = "exec", context'[c].op = "STA", context'[c].ok
  PROVE  context'[c].tid \in Tid
<1>1. CASE context'[c] = context[c]
  BY <1>1, Zenon DEF Brought
<1>2. ASSUME NEW s \in Session, ReadTask(s) PROVE context'[c] = context[c]
  BY <1>2, ReadTaskFacts, Zenon
<1>3. ASSUME WriteToClientCb PROVE context'[c] = context[c]
  BY <1>3, WriteFacts, Zenon
<1>4. ASSUME NEW d \in Context, Kernel(d), context'[c] # context[c] PROVE context'[c].tid \in Tid
  <2>1. c = d /\ context[c].op = "STA"
    BY <1>4, KernelFacts, Zenon
  <2>2. ASSUME NEW ok \in BOOLEAN, NEW t \in Tid \cup {NoTid}, Answer(c, ok, t)
        PROVE  context'[c].tid = t /\ context'[c].ok = ok
    BY <2>2, AnswerFacts, Zenon DEF Answer, Queued
  <2>3. CASE KernelFails(c)
    <3>1. context[c].tid \in Tid \cup {NoTid} /\ FALSE \in BOOLEAN
      BY Zenon DEF Queued, Ctx
    <3>2. context'[c].ok = FALSE
      BY <2>2, <2>3, <3>1, Zenon DEF KernelFails
    <3> QED
      BY <3>2, Zenon
  <2>4. CASE KernelStarts(c)
    <3>1. PICK t \in Tid : Answer(c, TRUE, t)
      BY <2>4, Zenon DEF KernelStarts
    <3>2. t \in Tid \cup {NoTid} /\ TRUE \in BOOLEAN
      BY Zenon
    <3> QED
      BY <2>2, <3>1, <3>2, Zenon
  <2>5. ~KernelWorks(c) /\ ~KernelUpdates(c)
    BY <2>1, Zenon DEF KernelWorks, KernelUpdates, Upt
  <2> QED
    BY <1>4, <2>1, <2>3, <2>4, <2>5, Zenon DEF Kernel
<1>5. ASSUME NEW t \in Tid, AutoRollback(t) PROVE context'[c] = context[c]
  BY <1>5, Zenon DEF AutoRollback
<1> QED
  BY <1>1, <1>2, <1>3, <1>4, <1>5, StepTxn, Zenon

(* Steps other than an answer leave the sets alone, and give up no         *)
(* transaction but of one.                                                 *)
LEMMA StepTids ==
  ASSUME Queued, [Next]_vars, ~WriteToClientCb
  PROVE  /\ tids' = tids
         /\ \/ auto' \subseteq auto /\ asked' = asked /\ crashed' = crashed
            \/ \E s \in Session : Rolls(s, tids[s])
<1>1. ASSUME UNCHANGED <<auto, asked, crashed>>
      PROVE  auto' \subseteq auto /\ asked' = asked /\ crashed' = crashed
  BY <1>1, Zenon
<1>2. ASSUME NEW s \in Session, Accept(s) \/ SendPart(s) \/ PeerGoes(s) \/ ConTimeout(s) \/ ReadNothing(s)
      PROVE  UNCHANGED <<tids, auto, asked, crashed>>
  BY <1>2, Zenon DEF Accept, SendPart, PeerGoes, ConTimeout, ReadNothing, rollVars, sessVars
<1>3. ASSUME NEW s \in Session, NEW op \in Ops, NEW t \in Tid \cup {NoTid}, Send(s, op, t)
      PROVE  UNCHANGED <<tids, auto, asked, crashed>>
  BY <1>3, Zenon DEF Send, rollVars, sessVars
<1>4. ASSUME NEW s \in Session, ReadRefused(s) \/ ReadCon(s) \/ ReadDis(s) \/ ReadTask(s)
      PROVE  UNCHANGED <<tids, auto, asked, crashed>>
  BY <1>4, Zenon DEF ReadRefused, ReadCon, ReadDis, ReadTask, ReadMsg, rollVars
<1>5. ASSUME NEW s \in Session, BufferedOnError(s) \/ CloseOnWriteable(s) \/ ReadClosing(s)
      PROVE  tids' = tids /\ Rolls(s, tids[s])
  BY <1>5, CleanupRolls, Zenon DEF BufferedOnError, CloseOnWriteable, ReadClosing, sessVars
<1>6. ASSUME NEW c \in Context, Kernel(c) PROVE UNCHANGED <<tids, auto, asked, crashed>>
  BY <1>6, KernelFacts, Zenon DEF rollVars, sessVars
<1>7. ASSUME NEW t \in Tid, AutoRollback(t)
      PROVE  tids' = tids /\ auto' \subseteq auto /\ asked' = asked /\ crashed' = crashed
  BY <1>7, Zenon DEF AutoRollback, sessVars
<1>8. ASSUME UNCHANGED vars PROVE UNCHANGED <<tids, auto, asked, crashed>>
  BY <1>8, Zenon DEF vars, rollVars, sessVars
<1> QED
  BY <1>1, <1>2, <1>3, <1>4, <1>5, <1>6, <1>7, <1>8, Zenon DEF Next, BufferedOnRead

(* Every step keeps it.                                                    *)
LEMMA BroughtStep ==
  ASSUME Numbered, Queued, Brought, [Next]_vars PROVE Brought'
<1> DEFINE Given == auto' \subseteq Tid /\ asked' \subseteq Session \X Tid /\ crashed' \in BOOLEAN
<1>1. \A c \in Context : context'[c].at = "exec" /\ context'[c].op = "STA" /\ context'[c].ok
                       => context'[c].tid \in Tid
  BY StartsBring, Zenon
<1>2. CASE WriteToClientCb
  <2>1. PICK c \in Context : c = Head(exec_que) /\ context[c].at = "exec"
    BY <1>2, WriteFacts, Zenon
  <2>2. PICK s \in Session : s = c[1]
    BY <2>1 DEF Context
  <2>3. PICK ids : ids = UpdatedTids(s, context[c])
    BY Zenon
  <2>4. ids \in SUBSET Tid
    <3>1. tids[s] \in SUBSET Tid
      BY Zenon DEF Brought
    <3>2. CASE context[c].ok /\ context[c].op = "STA"
      <4>1. context[c].tid \in Tid
        BY <2>1, <3>2, Zenon DEF Brought
      <4>2. ids = tids[s] \cup {context[c].tid}
        BY <2>3, <3>2, Zenon DEF UpdatedTids
      <4> QED
        BY <3>1, <4>1, <4>2, Zenon
    <3>3. CASE ~(context[c].ok /\ context[c].op = "STA")
      <4>1. ids = tids[s] \ {context[c].tid} \/ ids = tids[s]
        BY <2>3, <3>3, Zenon DEF UpdatedTids
      <4> QED
        BY <3>1, <4>1, Zenon
    <3> QED
      BY <3>2, <3>3, Zenon
  <2>5. tids' = [tids EXCEPT ![s] = ids] /\ (LastTask(s, context[c]) \/ OtherTask(s, context[c]))
    BY <1>2, <2>1, <2>2, <2>3, Zenon DEF WriteToClientCb
  <2>6. tids' \in [Session -> SUBSET Tid]
    BY <2>4, <2>5, Zenon DEF Brought
  <2>7. Given
    <3>1. CASE LastTask(s, context[c])
      <4>1. Rolls(s, ids)
        BY <2>3, <3>1, RollbackRolls, Zenon DEF LastTask
      <4> QED
        BY <2>4, <4>1, RollsTypes, Zenon DEF Brought
    <3>2. CASE OtherTask(s, context[c])
      BY <3>2, Zenon DEF OtherTask, Brought
    <3> QED
      BY <2>5, <3>1, <3>2, Zenon
  <2> QED
    BY <1>1, <2>6, <2>7, Zenon DEF Brought
<1>3. CASE ~WriteToClientCb
  <2>1. tids' = tids
    BY <1>3, StepTids, Zenon
  <2>2. \A s \in Session : tids[s] \in SUBSET Tid
    BY Zenon DEF Brought
  <2>3. Given
    BY <1>3, <2>2, StepTids, RollsTypes, Zenon DEF Brought
  <2> QED
    BY <1>1, <2>1, <2>3, Zenon DEF Brought
<1> QED
  BY <1>2, <1>3, Zenon

(* They hold when the server starts.                                       *)
LEMMA TypesInit ==
  ASSUME Init PROVE Flags /\ Brought
<1>1. Flags
  BY Zenon DEF Init, Flags
<1>2. \A c \in Context : context[c].op # "STA"
  BY Zenon DEF Init, Free
<1>3. tids \in [Session -> SUBSET Tid] /\ auto \subseteq Tid /\ asked \subseteq Session \X Tid
  BY Zenon DEF Init
<1>4. crashed \in BOOLEAN
  BY Zenon DEF Init
<1> QED
  BY <1>1, <1>2, <1>3, <1>4, Zenon DEF Brought

(* Every variable of the server keeps its type; in particular a session    *)
(* never saves the id of a transaction that the kernel did not start.      *)
THEOREM ServerTypes == Spec => []TypeOK
<1>1. SessionInv /\ Flags /\ Brought /\ [Next]_vars => (Flags /\ Brought)'
  BY FlagsStep, BroughtStep, Zenon DEF SessionInv
<1>2. SessionInv /\ TxnInv /\ Flags /\ Brought => TypeOK
  <2> SUFFICES ASSUME SessionInv, TxnInv, Flags, Brought PROVE TypeOK
    BY Zenon
  <2>1. /\ inbuf \in [Session -> Seq([op : Ops, tid : Tid \cup {NoTid}])] /\ sent \in [Session -> Nat]
        /\ context \in [Context -> [at : {"free", "kernel", "exec"}, op : Ops,
                                    tid : Tid \cup {NoTid}, ok : BOOLEAN]]
        /\ exec_que \in Seq(Context)
    BY Zenon DEF SessionInv, Numbered, Queued, Msg, Ctx
  <2>2. task_count \in [Session -> Int]
        /\ mem \in [Session -> {"none", "live", "freed"}] /\ timeout \in [Session -> BOOLEAN]
    BY Zenon DEF SessionInv, Counted, Lives
  <2>3. /\ state \in [Session -> SUBSET {"CONNECTED", "CLOSING"}]
        /\ txns \in [Session -> {"null", "live", "freed"}]
        /\ appl_context \in [Session -> {"null", "live", "freed"}]
    BY Zenon DEF SessionInv, Left, Pointer
  <2>4. /\ txn \in [Tid -> {"none", "active", "committed", "rolledback"}]
        /\ told \subseteq Session \X Tid
    BY Zenon DEF TxnInv, Named, Settled
  <2> QED
    BY <2>1, <2>2, <2>3, <2>4, Zenon DEF Flags, Brought, TypeOK
<1> QED
  BY <1>1, <1>2, TypesInit, SessionInvHolds, TxnInvHolds, PTL DEF Spec

=============================================================================
