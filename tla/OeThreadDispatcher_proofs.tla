---------------------- MODULE OeThreadDispatcher_proofs ----------------------
(***************************************************************************)
(* Proofs about the pool, for any finite set of threads and any tasks.     *)
(***************************************************************************)
EXTENDS OeThreadDispatcher, FiniteSetTheorems, TLAPS

(* The inductive invariant.                                                *)
Inv == TypeOK /\ NoLostWakeup

(* The sets of waiting and of woken threads are finite.                    *)
LEMMA Counts ==
  ASSUME TypeOK
  PROVE  /\ IsFiniteSet(Woken) /\ Cardinality(Woken) \in Nat
         /\ IsFiniteSet(Woken') /\ Cardinality(Woken') \in Nat
<1>1. IsFiniteSet(Woken) /\ IsFiniteSet(Woken')
  BY PoolAssumption, FS_Subset DEF Woken
<1> QED
  BY <1>1, FS_CardinalityType

(* A signal, by a thread whose own move neither starts nor ends a wait: if *)
(* anyone waits after it, someone was woken by it.                         *)
LEMMA SignalFacts ==
  ASSUME TypeOK, NEW base \in [Worker -> At], Signal(base),
         {w \in Worker : base[w] = "waiting"} = Waiting,
         {w \in Worker : base[w] = "woken"} = Woken
  PROVE  /\ thread' \in [Worker -> At]
         /\ Waiting' # {} =>
              Waiting # {} /\ Cardinality(Woken') = Cardinality(Woken) + 1
<1>1. CASE Waiting = {} /\ thread' = base
  BY <1>1 DEF Waiting
<1>2. CASE \E w \in Waiting : thread' = [base EXCEPT ![w] = "woken"]
  <2> PICK w \in Waiting : thread' = [base EXCEPT ![w] = "woken"]
    BY <1>2
  <2>1. w \in Worker /\ w \notin Woken
    BY DEF Waiting, Woken
  <2>2. Woken' = Woken \cup {w}
    BY <2>1 DEF Woken
  <2>3. Cardinality(Woken') = Cardinality(Woken) + 1
    BY <2>1, <2>2, Counts, FS_AddElement
  <2>4. thread' \in [Worker -> At]
    BY <2>1 DEF At
  <2> QED
    BY <2>3, <2>4
<1> QED
  BY <1>1, <1>2 DEF Signal

(* A push keeps the balance: one item more, and one thread more woken if   *)
(* anyone still waits.                                                     *)
LEMMA PushInv ==
  ASSUME Inv, NEW item \in Item, QuePush(item)
  PROVE  que' \in Seq(Item) /\ thread' \in [Worker -> At] /\ NoLostWakeup'
<1> USE DEF Inv
<1>1. que' \in Seq(Item) /\ Len(que') = Len(que) + 1 /\ Len(que) \in Nat
  BY DEF QuePush, TypeOK
<1>2. /\ thread' \in [Worker -> At]
      /\ Waiting' # {} => Waiting # {} /\ Cardinality(Woken') = Cardinality(Woken) + 1
  <2>1. thread \in [Worker -> At] /\ Signal(thread)
    BY DEF QuePush, TypeOK
  <2> QED
    BY <2>1, SignalFacts DEF Waiting, Woken
<1>3. Cardinality(Woken) \in Nat
  BY Counts
<1> QED
  BY <1>1, <1>2, <1>3 DEF NoLostWakeup

(* A step that leaves the queue alone and wakes nobody or somebody.        *)
LEMMA SameQueueInv ==
  ASSUME Inv, que' = que, Waiting' # {} => Waiting # {} /\ Woken \subseteq Woken'
  PROVE  NoLostWakeup'
<1> USE DEF Inv
<1> SUFFICES ASSUME Waiting' # {} PROVE Len(que) <= Cardinality(Woken')
  BY DEF NoLostWakeup
<1>1. Len(que) <= Cardinality(Woken) /\ Len(que) \in Nat
  BY DEF NoLostWakeup, TypeOK
<1>2. Cardinality(Woken) <= Cardinality(Woken')
  BY Counts, FS_Subset
<1> QED
  BY <1>1, <1>2, Counts

(* A signal without a push.                                                *)
LEMMA SignalInv ==
  ASSUME Inv, que' = que, NEW base \in [Worker -> At], Signal(base),
         {w \in Worker : base[w] = "waiting"} = Waiting,
         {w \in Worker : base[w] = "woken"} = Woken
  PROVE  thread' \in [Worker -> At] /\ NoLostWakeup'
<1> USE DEF Inv
<1>1. /\ thread' \in [Worker -> At]
      /\ Waiting' # {} => Waiting # {} /\ Cardinality(Woken') = Cardinality(Woken) + 1
  BY SignalFacts
<1>2. Len(que) \in Nat /\ Cardinality(Woken) \in Nat
  BY Counts DEF TypeOK
<1> QED
  BY <1>1, <1>2 DEF NoLostWakeup

(* The only step that makes the queue shorter takes one thread off the     *)
(* woken ones at most, and a thread waits only when the queue is empty.    *)
LEMMA PopInv ==
  ASSUME Inv, NEW w \in Worker, QuePop(w)
  PROVE  que' \in Seq(Item) /\ thread' \in [Worker -> At] /\ job' \in [Worker -> Item]
         /\ NoLostWakeup'
<1> USE DEF Inv
<1>0. w \notin Waiting
  BY DEF QuePop, Waiting
<1>1. CASE que = <<>> /\ thread' = [thread EXCEPT ![w] = "waiting"] /\ UNCHANGED <<que, job>>
  <2>1. Len(que') = 0
    BY <1>1
  <2>2. 0 <= Cardinality(Woken')
    BY Counts
  <2>3. NoLostWakeup'
    BY <2>1, <2>2 DEF NoLostWakeup
  <2> QED
    BY <1>1, <2>3 DEF TypeOK, At
<1>2. CASE que # <<>> /\ que' = QueRest /\ job' = [job EXCEPT ![w] = Head(que)]
           /\ thread' = [thread EXCEPT ![w] = CASE Head(que) \in Task -> "run"
                                                [] Head(que) = TQUIT -> "exited"
                                                [] Head(que) = DIAG -> "pop"]
  <2>1. Head(que) \in Item /\ que' \in Seq(Item) /\ Len(que') = Len(que) - 1 /\ Len(que) \in Nat
    BY <1>2 DEF QueRest, TypeOK
  <2>2. PICK at \in {"run", "exited", "pop"} : thread' = [thread EXCEPT ![w] = at]
    BY <1>2, <2>1, PoolAssumption DEF Item
  <2>3. thread' \in [Worker -> At] /\ job' \in [Worker -> Item]
    BY <1>2, <2>1, <2>2 DEF TypeOK, At
  <2>4. Waiting' = Waiting /\ Woken' = Woken \ {w}
    BY <1>0, <2>2 DEF TypeOK, Waiting, Woken
  <2>5. Cardinality(Woken') >= Cardinality(Woken) - 1
    BY <2>4, Counts, FS_RemoveElement
  <2> QED
    BY <2>1, <2>3, <2>4, <2>5, Counts DEF NoLostWakeup
<1> QED
  BY <1>1, <1>2 DEF QuePop

(* A new pool has no work and no threads: the invariant holds.             *)
LEMMA InitInv == Init => Inv
BY DEF Init, Inv, TypeOK, NoLostWakeup, Waiting, Item, At

(* Every step of a thread, a caller or the one who stops keeps it.         *)
LEMMA NextInv == Inv /\ [Next]_vars => Inv'
<1> SUFFICES ASSUME Inv, [Next]_vars PROVE Inv'
  OBVIOUS
<1> USE DEF Inv
<1>1. ASSUME NEW t \in Task, Exec(t) PROVE Inv'
  <2>1. QuePush(t) /\ t \in Item
    BY <1>1 DEF Exec, Item
  <2> QED
    BY <1>1, <2>1, PushInv DEF Exec, TypeOK
<1>2. CASE Stats
  <2>1. QuePush(DIAG) /\ DIAG \in Item
    BY <1>2 DEF Stats, Item
  <2> QED
    BY <1>2, <2>1, PushInv DEF Stats, TypeOK
<1>3. ASSUME NEW w \in Worker, Begin(w) PROVE Inv'
  <2> DEFINE base == [thread EXCEPT ![w] = "pop"]
  <2>1. base \in [Worker -> At] /\ Signal(base) /\ que' = que
    BY <1>3 DEF Begin, TypeOK, At
  <2>2. /\ {v \in Worker : base[v] = "waiting"} = Waiting
        /\ {v \in Worker : base[v] = "woken"} = Woken
    BY <1>3 DEF Begin, TypeOK, Waiting, Woken
  <2> HIDE DEF base
  <2>3. thread' \in [Worker -> At] /\ NoLostWakeup'
    BY <2>1, <2>2, SignalInv
  <2> QED
    BY <1>3, <2>3 DEF Begin, TypeOK
<1>4. ASSUME NEW w \in Worker, SpuriousWakeup(w) PROVE Inv'
  <2>1. que' = que /\ w \in Waiting /\ Woken \subseteq Woken'
    BY <1>4 DEF SpuriousWakeup, TypeOK, Waiting, Woken
  <2>2. NoLostWakeup'
    BY <2>1, SameQueueInv
  <2> QED
    BY <1>4, <2>2 DEF SpuriousWakeup, TypeOK, At
<1>5. ASSUME NEW w \in Worker, QuePop(w) PROVE Inv'
  <2>1. UNCHANGED <<running, boss, quits, diags, pushed, early, ran>>
    BY <1>5 DEF QuePop
  <2> QED
    BY <1>5, <2>1, PopInv DEF TypeOK
<1>6. ASSUME NEW w \in Worker, ProcessFun(w) PROVE Inv'
  <2>1. que' = que /\ Waiting' = Waiting /\ Woken' = Woken
    BY <1>6 DEF ProcessFun, TypeOK, Waiting, Woken
  <2>2. NoLostWakeup'
    BY <2>1, SameQueueInv
  <2>3. ran' \in [Task -> Nat]
    <3>1. ran \in [Task -> Nat] /\ ran' = [ran EXCEPT ![job[w]] = ran[job[w]] + 1]
      BY <1>6 DEF ProcessFun, TypeOK
    <3>2. CASE job[w] \in Task
      BY <3>1, <3>2
    <3>3. CASE job[w] \notin Task
      BY <3>1, <3>3
    <3> QED
      BY <3>2, <3>3
  <2> QED
    BY <1>6, <2>2, <2>3 DEF ProcessFun, TypeOK, At
<1>7. CASE Start
  <2>1. Waiting' = {}
    BY <1>7 DEF Start, Waiting
  <2> QED
    BY <1>7, <2>1 DEF Start, TypeOK, NoLostWakeup, At
<1>8. CASE AwaitThreads
  <2>1. thread \in [Worker -> At] /\ Signal(thread) /\ que' = que
    BY <1>8 DEF AwaitThreads, TypeOK
  <2>2. thread' \in [Worker -> At] /\ NoLostWakeup'
    BY <2>1, SignalInv DEF Waiting, Woken
  <2> QED
    BY <1>8, <2>2 DEF AwaitThreads, TypeOK
<1>9. CASE Stop
  <2>1. CASE quits' = quits + 1 /\ QuePush(TQUIT) /\ UNCHANGED boss
    <3>1. TQUIT \in Item
      BY DEF Item
    <3> QED
      BY <1>9, <2>1, <3>1, PushInv DEF Stop, TypeOK
  <2>2. CASE boss' = "stopped" /\ UNCHANGED <<que, thread, quits>>
    BY <1>9, <2>2 DEF Stop, TypeOK, NoLostWakeup, Waiting, Woken
  <2> QED
    BY <1>9, <2>1, <2>2 DEF Stop
<1>10. CASE UNCHANGED vars
  BY <1>10 DEF vars, TypeOK, NoLostWakeup, Waiting, Woken
<1> QED
  BY <1>1, <1>2, <1>3, <1>4, <1>5, <1>6, <1>7, <1>8, <1>9, <1>10 DEF Next

(* The pool is type correct, whatever is submitted and whenever it stops.  *)
THEOREM TypeCorrect == Spec => []TypeOK
<1>1. Inv => TypeOK
  BY DEF Inv
<1> QED
  BY InitInv, NextInv, <1>1, PTL DEF Spec

(* No wake-up of _que_push is lost, for any number of threads.             *)
THEOREM NoWakeupLost == Spec => []NoLostWakeup
<1>1. Inv => NoLostWakeup
  BY DEF Inv
<1> QED
  BY InitInv, NextInv, <1>1, PTL DEF Spec

-----------------------------------------------------------------------------
(* Where a task is, without counting: the three numbers of TaskInOnePlace  *)
(* are those of an empty set or of a set of one.                           *)
OnePlace(t) ==
  \/ t \notin pushed /\ Queued(t) = {} /\ Runners(t) = {} /\ ran[t] = 0
  \/ t \in pushed /\ (\E i \in DOMAIN que : Queued(t) = {i}) /\ Runners(t) = {} /\ ran[t] = 0
  \/ t \in pushed /\ Queued(t) = {} /\ (\E w \in Worker : Runners(t) = {w}) /\ ran[t] = 0
  \/ t \in pushed /\ Queued(t) = {} /\ Runners(t) = {} /\ ran[t] = 1

Places ==
  /\ boss = "new" => \A w \in Worker : thread[w] = "none"
  /\ \A w \in Worker : thread[w] = "run" => job[w] \in Task
  /\ \A t \in Task : OnePlace(t)

(* The work submitted before the stop is in front of every TQUIT item, and *)
(* none of it is left when the first thread has got one.                   *)
QuitsLast ==
  /\ early \subseteq pushed
  /\ \A i, j \in DOMAIN que : que[i] \in early /\ que[j] = TQUIT => i < j
  /\ (\E i \in DOMAIN que : que[i] = TQUIT) => quits > 0
  /\ (\E w \in Worker : thread[w] = "exited") =>
       quits > 0 /\ \A i \in DOMAIN que : que[i] \notin early
  /\ boss = "stopped" => \A w \in Worker : thread[w] = "exited"

(* A step after which the same threads run tasks and the same have ended.  *)
Steady == \A v \in Worker : /\ thread'[v] = "run" <=> thread[v] = "run"
                            /\ thread'[v] = "exited" <=> thread[v] = "exited"

Still == Steady /\ UNCHANGED <<que, job, ran, pushed, early, quits>>

Pushes(item) ==
  /\ Steady /\ que' = Append(que, item) /\ UNCHANGED <<job, ran>>
  /\ \/ /\ item \in Task \ pushed /\ pushed' = pushed \cup {item} /\ UNCHANGED quits
        /\ early' = early \/ (quits = 0 /\ early' = early \cup {item})
     \/ /\ item \notin Task /\ UNCHANGED <<pushed, early>>
        /\ quits' = quits \/ quits' = quits + 1
        /\ item = TQUIT => quits' = quits + 1

Pops(w) ==
  /\ thread[w] \notin {"run", "exited"} /\ que # <<>> /\ que' = Tail(que)
  /\ job' = [job EXCEPT ![w] = Head(que)]
  /\ \/ Head(que) \in Task /\ thread' = [thread EXCEPT ![w] = "run"]
     \/ Head(que) = TQUIT /\ thread' = [thread EXCEPT ![w] = "exited"]
     \/ Head(que) = DIAG /\ thread' = [thread EXCEPT ![w] = "pop"]
  /\ UNCHANGED <<ran, pushed, early, quits>>

(* A signal moves a thread from its wait and no other.                     *)
LEMMA SignalMoves ==
  ASSUME NEW base \in [Worker -> At], Signal(base),
         \A v \in Worker : thread[v] = "waiting" => base[v] = "waiting"
  PROVE  \A v \in Worker : thread'[v] = base[v] \/ (base[v] = "waiting" /\ thread'[v] = "woken")
<1>1. CASE thread' = base
  BY <1>1
<1>2. ASSUME NEW w \in Waiting, thread' = [base EXCEPT ![w] = "woken"]
      PROVE  \A v \in Worker : thread'[v] = base[v] \/ (base[v] = "waiting" /\ thread'[v] = "woken")
  BY <1>2 DEF Waiting
<1> QED
  BY <1>1, <1>2 DEF Signal

(* Every step is one of these.                                             *)
LEMMA PoolStep ==
  ASSUME TypeOK, Places, [Next]_vars
  PROVE  \/ Still
         \/ \E item \in Item : Pushes(item)
         \/ \E w \in Worker : Pops(w) \/ ProcessFun(w)
<1>1. ASSUME NEW item \in Item, QuePush(item) PROVE Steady /\ que' = Append(que, item)
  <2>1. thread \in [Worker -> At] /\ Signal(thread)
    BY <1>1 DEF QuePush, TypeOK
  <2> QED
    BY <1>1, <2>1, SignalMoves DEF Steady, QuePush
<1>2. ASSUME NEW t \in Task, Exec(t) PROVE \E item \in Item : Pushes(item)
  <2>1. t \in Item /\ QuePush(t)
    BY <1>2 DEF Exec, Item
  <2>2. Pushes(t)
    BY <1>1, <1>2, <2>1 DEF Exec, Pushes
  <2> QED
    BY <2>1, <2>2
<1>3. CASE Stats
  <2>1. DIAG \in Item /\ QuePush(DIAG) /\ DIAG \notin Task /\ DIAG # TQUIT
    BY <1>3, PoolAssumption DEF Stats, Item
  <2>2. Pushes(DIAG)
    BY <1>1, <1>3, <2>1 DEF Stats, Pushes
  <2> QED
    BY <2>1, <2>2
<1>4. ASSUME NEW w \in Worker, Begin(w) PROVE Still
  <2>1. PICK base : base = [thread EXCEPT ![w] = "pop"]
    OBVIOUS
  <2>2. base \in [Worker -> At] /\ Signal(base) /\ thread[w] = "starting"
    BY <1>4, <2>1 DEF Begin, TypeOK, At
  <2>3. \A v \in Worker : IF v = w THEN base[v] = "pop" ELSE base[v] = thread[v]
    BY <2>1 DEF TypeOK
  <2>4. Steady
    BY <2>2, <2>3, SignalMoves DEF Steady
  <2> QED
    BY <1>4, <2>4 DEF Begin, Still
<1>5. ASSUME NEW w \in Worker, SpuriousWakeup(w) PROVE Still
  BY <1>5 DEF SpuriousWakeup, Still, Steady, TypeOK
<1>6. ASSUME NEW w \in Worker, QuePop(w) PROVE Still \/ Pops(w)
  <2>1. thread[w] \in {"pop", "woken"} /\ UNCHANGED <<ran, pushed, early, quits>>
    BY <1>6 DEF QuePop
  <2>2. CASE thread' = [thread EXCEPT ![w] = "waiting"] /\ UNCHANGED <<que, job>>
    BY <2>1, <2>2 DEF Still, Steady, TypeOK
  <2>3. CASE /\ que # <<>> /\ que' = QueRest /\ job' = [job EXCEPT ![w] = Head(que)]
             /\ thread' = [thread EXCEPT ![w] = CASE Head(que) \in Task -> "run"
                                                  [] Head(que) = TQUIT -> "exited"
                                                  [] Head(que) = DIAG -> "pop"]
    <3>1. Head(que) \in Item
      BY <2>3 DEF TypeOK
    <3>2. \/ Head(que) \in Task /\ thread' = [thread EXCEPT ![w] = "run"]
          \/ Head(que) = TQUIT /\ thread' = [thread EXCEPT ![w] = "exited"]
          \/ Head(que) = DIAG /\ thread' = [thread EXCEPT ![w] = "pop"]
      BY <2>3, <3>1, PoolAssumption DEF Item
    <3> QED
      BY <2>1, <2>3, <3>2 DEF Pops, QueRest
  <2> QED
    BY <1>6, <2>2, <2>3 DEF QuePop
<1>7. CASE Start
  BY <1>7 DEF Start, Still, Steady, Places
<1>8. CASE AwaitThreads
  <2>1. thread \in [Worker -> At] /\ Signal(thread)
    BY <1>8 DEF AwaitThreads, TypeOK
  <2> QED
    BY <1>8, <2>1, SignalMoves DEF AwaitThreads, Still, Steady
<1>9. CASE Stop
  <2>1. CASE quits' = quits + 1 /\ QuePush(TQUIT)
    <3>1. TQUIT \in Item /\ TQUIT \notin Task
      BY PoolAssumption DEF Item
    <3>2. Pushes(TQUIT)
      BY <1>1, <1>9, <2>1, <3>1 DEF Stop, Pushes
    <3> QED
      BY <3>1, <3>2
  <2>2. CASE UNCHANGED <<que, thread, quits>>
    BY <1>9, <2>2 DEF Stop, Still, Steady
  <2> QED
    BY <1>9, <2>1, <2>2 DEF Stop
<1>10. CASE UNCHANGED vars
  BY <1>10 DEF vars, Still, Steady
<1> QED
  BY <1>2, <1>3, <1>4, <1>5, <1>6, <1>7, <1>8, <1>9, <1>10 DEF Next

(* What is in the queue after a push.                                      *)
LEMMA QueueAppend ==
  ASSUME NEW q \in Seq(Item), NEW e \in Item, NEW r, r = Append(q, e)
  PROVE  /\ Len(q) \in Nat /\ DOMAIN q = 1 .. Len(q) /\ DOMAIN r = 1 .. Len(q) + 1
         /\ r[Len(q) + 1] = e /\ \A i \in DOMAIN q : r[i] = q[i]
OBVIOUS

(* What is in the queue after a pop.                                       *)
LEMMA QueueTail ==
  ASSUME NEW q \in Seq(Item), q # <<>>, NEW r, r = Tail(q)
  PROVE  /\ Len(q) \in Nat /\ Len(q) >= 1 /\ DOMAIN q = 1 .. Len(q) /\ DOMAIN r = 1 .. Len(q) - 1
         /\ Head(q) = q[1] /\ \A i \in DOMAIN r : r[i] = q[i + 1]
OBVIOUS

(* The thread that starts the pool is the first to touch the threads.      *)
LEMMA NewPool ==
  ASSUME TypeOK, Places, [Next]_vars, boss' = "new"
  PROVE  \A w \in Worker : thread'[w] = "none"
<1>1. boss = "new"
  BY DEF Next, Start, AwaitThreads, Stop, Stats, Exec, Begin, SpuriousWakeup, QuePop, ProcessFun, vars
<1>2. \A w \in Worker : thread[w] = "none"
  BY <1>1 DEF Places
<1>3. Waiting = {}
  BY <1>2 DEF Waiting
<1>4. thread' = thread
  <2>1. CASE Stats \/ \E t \in Task : Exec(t)
    BY <1>3, <2>1 DEF Stats, Exec, QuePush, Signal
  <2>2. ASSUME NEW w \in Worker, Begin(w) \/ SpuriousWakeup(w) \/ QuePop(w) \/ ProcessFun(w) PROVE FALSE
    BY <1>2, <2>2 DEF Begin, SpuriousWakeup, QuePop, ProcessFun
  <2>3. CASE Start \/ AwaitThreads \/ Stop
    BY <1>1, <2>3 DEF Start, AwaitThreads, Stop
  <2>4. CASE UNCHANGED vars
    BY <2>4 DEF vars
  <2> QED
    BY <2>1, <2>2, <2>3, <2>4 DEF Next
<1> QED
  BY <1>2, <1>4

(* Every step keeps each task in its place or moves it on.                 *)
LEMMA PlacesStep ==
  ASSUME TypeOK, Places, [Next]_vars PROVE Places'
<1>1. boss' = "new" => \A w \in Worker : thread'[w] = "none"
  BY NewPool
<1>2. CASE Still
  <2>1. \A w \in Worker : thread'[w] = "run" => job'[w] \in Task
    BY <1>2 DEF Still, Steady, Places
  <2>2. ASSUME NEW t \in Task PROVE OnePlace(t)'
    <3>1. Queued(t)' = Queued(t) /\ Runners(t)' = Runners(t)
      BY <1>2 DEF Still, Steady, Queued, Runners
    <3>2. OnePlace(t)
      BY DEF Places
    <3> QED
      BY <1>2, <3>1, <3>2 DEF Still, OnePlace
  <2> QED
    BY <1>1, <2>1, <2>2 DEF Places
<1>3. ASSUME NEW item \in Item, Pushes(item) PROVE Places'
  <2>1. \A w \in Worker : thread'[w] = "run" => job'[w] \in Task
    BY <1>3 DEF Pushes, Steady, Places
  <2>2. /\ Len(que) \in Nat /\ DOMAIN que = 1 .. Len(que) /\ DOMAIN que' = 1 .. Len(que) + 1
        /\ que'[Len(que) + 1] = item /\ \A i \in DOMAIN que : que'[i] = que[i]
    BY <1>3, QueueAppend DEF Pushes, TypeOK
  <2>3. ASSUME NEW t \in Task PROVE OnePlace(t)'
    <3>1. Runners(t)' = Runners(t) /\ ran'[t] = ran[t]
      BY <1>3 DEF Pushes, Steady, Runners
    <3>2. OnePlace(t)
      BY DEF Places
    <3>3. CASE t = item
      <4>1. t \notin pushed /\ t \in pushed'
        BY <1>3, <3>3 DEF Pushes
      <4>2. Queued(t) = {} /\ Runners(t) = {} /\ ran[t] = 0
        BY <3>2, <4>1 DEF OnePlace
      <4>3. Queued(t)' = {Len(que) + 1} /\ Len(que) + 1 \in DOMAIN que'
        BY <2>2, <3>3, <4>2 DEF Queued
      <4> QED
        BY <3>1, <4>1, <4>2, <4>3 DEF OnePlace
    <3>4. CASE t # item
      <4>1. Queued(t)' = Queued(t) /\ DOMAIN que \subseteq DOMAIN que'
        BY <2>2, <3>4 DEF Queued
      <4>2. t \in pushed' <=> t \in pushed
        BY <1>3, <3>4 DEF Pushes
      <4> QED
        BY <3>1, <3>2, <4>1, <4>2 DEF OnePlace
    <3> QED
      BY <3>3, <3>4
  <2> QED
    BY <1>1, <2>1, <2>3 DEF Places
<1>4. ASSUME NEW w \in Worker, Pops(w) PROVE Places'
  <2>1. /\ Len(que) \in Nat /\ Len(que) >= 1 /\ DOMAIN que = 1 .. Len(que)
        /\ DOMAIN que' = 1 .. Len(que) - 1
        /\ Head(que) = que[1] /\ \A i \in DOMAIN que' : que'[i] = que[i + 1]
    BY <1>4, QueueTail DEF Pops, TypeOK
  <2>2. /\ \A v \in Worker : v # w => thread'[v] = thread[v] /\ job'[v] = job[v]
        /\ thread'[w] = "run" <=> que[1] \in Task
        /\ job'[w] = que[1] /\ thread[w] # "run" /\ UNCHANGED <<ran, pushed>>
    BY <1>4, <2>1, PoolAssumption DEF Pops, TypeOK
  <2>3. \A v \in Worker : thread'[v] = "run" => job'[v] \in Task
    BY <2>2 DEF Places
  <2>4. ASSUME NEW t \in Task PROVE OnePlace(t)'
    <3>1. OnePlace(t)
      BY DEF Places
    <3>2. CASE t = que[1]
      <4>1. 1 \in Queued(t)
        BY <2>1, <3>2 DEF Queued
      <4>2. t \in pushed /\ Queued(t) = {1} /\ Runners(t) = {} /\ ran[t] = 0
        BY <3>1, <4>1 DEF OnePlace
      <4>3. Queued(t)' = {}
        <5>1. ASSUME NEW i \in DOMAIN que' PROVE que'[i] # t
          <6>1. i + 1 \in DOMAIN que /\ i + 1 # 1 /\ que'[i] = que[i + 1]
            BY <2>1
          <6>2. i + 1 \notin Queued(t)
            BY <4>2, <6>1
          <6> QED
            BY <6>1, <6>2 DEF Queued
        <5> QED
          BY <5>1 DEF Queued
      <4>4. Runners(t)' = {w}
        BY <2>2, <3>2, <4>2 DEF Runners
      <4> QED
        BY <2>2, <4>2, <4>3, <4>4 DEF OnePlace
    <3>3. CASE t # que[1]
      <4>1. Runners(t)' = Runners(t)
        BY <2>2, <3>3 DEF Runners
      <4>2. \A i \in DOMAIN que' : i + 1 \in DOMAIN que /\ (i \in Queued(t)' <=> i + 1 \in Queued(t))
        BY <2>1 DEF Queued
      <4>3. \A k \in Queued(t) : k - 1 \in DOMAIN que' /\ k - 1 \in Queued(t)'
        BY <2>1, <3>3 DEF Queued
      <4>4. Queued(t) = {} => Queued(t)' = {}
        BY <4>2 DEF Queued
      <4>5. ASSUME NEW k \in DOMAIN que, Queued(t) = {k} PROVE Queued(t)' = {k - 1} /\ k - 1 \in DOMAIN que'
        <5>1. k - 1 \in DOMAIN que' /\ k - 1 \in Queued(t)'
          BY <4>3, <4>5
        <5>2. ASSUME NEW i \in Queued(t)' PROVE i = k - 1
          <6>1. i \in DOMAIN que'
            BY DEF Queued
          <6>2. i + 1 \in Queued(t)
            BY <4>2, <5>2, <6>1
          <6> QED
            BY <2>1, <4>5, <6>1, <6>2
        <5> QED
          BY <5>1, <5>2
      <4> QED
        BY <2>2, <3>1, <4>1, <4>4, <4>5 DEF OnePlace
    <3> QED
      BY <3>2, <3>3
  <2> QED
    BY <1>1, <2>3, <2>4 DEF Places
<1>5. ASSUME NEW w \in Worker, ProcessFun(w) PROVE Places'
  <2>1. /\ thread[w] = "run" /\ job[w] \in Task /\ UNCHANGED <<que, job, pushed>>
        /\ thread'[w] = "pop" /\ \A v \in Worker : v # w => thread'[v] = thread[v]
        /\ ran' = [ran EXCEPT ![job[w]] = @ + 1]
    BY <1>5 DEF ProcessFun, Places, TypeOK
  <2>2. \A v \in Worker : thread'[v] = "run" => job'[v] \in Task
    BY <2>1 DEF Places
  <2>3. ASSUME NEW t \in Task PROVE OnePlace(t)'
    <3>1. OnePlace(t) /\ Queued(t)' = Queued(t)
      BY <2>1 DEF Places, Queued
    <3>2. CASE t = job[w]
      <4>1. w \in Runners(t)
        BY <2>1, <3>2 DEF Runners
      <4>2. t \in pushed /\ Queued(t) = {} /\ Runners(t) = {w} /\ ran[t] = 0
        BY <3>1, <4>1 DEF OnePlace
      <4>3. Runners(t)' = {} /\ ran'[t] = 1
        BY <2>1, <3>2, <4>2 DEF Runners, TypeOK
      <4> QED
        BY <2>1, <3>1, <4>2, <4>3 DEF OnePlace
    <3>3. CASE t # job[w]
      <4>1. Runners(t)' = Runners(t) /\ ran'[t] = ran[t]
        BY <2>1, <3>3 DEF Runners, TypeOK
      <4> QED
        BY <2>1, <3>1, <4>1 DEF OnePlace
    <3> QED
      BY <3>2, <3>3
  <2> QED
    BY <1>1, <2>2, <2>3 DEF Places
<1> QED
  BY <1>2, <1>3, <1>4, <1>5, PoolStep

(* A stop returns only when all threads have ended, and they stay so.      *)
LEMMA StoppedPool ==
  ASSUME TypeOK, Places, QuitsLast, [Next]_vars, boss' = "stopped"
  PROVE  \A w \in Worker : thread'[w] = "exited"
<1>1. boss = "stopped" \/ (Stop /\ boss # "stopped")
  BY DEF Next, Start, AwaitThreads, Stop, Stats, Exec, Begin, SpuriousWakeup, QuePop, ProcessFun, vars
<1>2. CASE boss = "stopped"
  <2>1. \A w \in Worker : thread[w] = "exited"
    BY <1>2 DEF QuitsLast
  <2>2. CASE Still
    BY <2>1, <2>2 DEF Still, Steady
  <2>3. ASSUME NEW item \in Item, Pushes(item) PROVE \A w \in Worker : thread'[w] = "exited"
    BY <2>1, <2>3 DEF Pushes, Steady
  <2>4. ASSUME NEW w \in Worker, Pops(w) \/ ProcessFun(w) PROVE FALSE
    BY <2>1, <2>4 DEF Pops, ProcessFun
  <2> QED
    BY <2>2, <2>3, <2>4, PoolStep
<1>3. CASE Stop /\ boss # "stopped"
  BY <1>3 DEF Stop
<1> QED
  BY <1>1, <1>2, <1>3

(* Every step keeps the TQUIT items behind the early work.                 *)
LEMMA QuitsLastStep ==
  ASSUME TypeOK, Places, QuitsLast, [Next]_vars PROVE QuitsLast'
<1>1. boss' = "stopped" => \A w \in Worker : thread'[w] = "exited"
  BY StoppedPool
<1>2. CASE Still
  BY <1>1, <1>2 DEF Still, Steady, QuitsLast
<1>3. ASSUME NEW item \in Item, Pushes(item) PROVE QuitsLast'
  <2>1. /\ Len(que) \in Nat /\ DOMAIN que = 1 .. Len(que) /\ DOMAIN que' = 1 .. Len(que) + 1
        /\ que'[Len(que) + 1] = item /\ \A i \in DOMAIN que : que'[i] = que[i]
    BY <1>3, QueueAppend DEF Pushes, TypeOK
  <2>2. \A i \in DOMAIN que' : (i \in DOMAIN que /\ que'[i] = que[i]) \/ (i = Len(que) + 1 /\ que'[i] = item)
    BY <2>1
  <2>3. quits \in Nat /\ early \subseteq Task /\ TQUIT \notin Task
    BY PoolAssumption DEF TypeOK
  <2>4. CASE item \in Task \ pushed
    <3>1. pushed' = pushed \cup {item} /\ UNCHANGED quits
          /\ (early' = early \/ (quits = 0 /\ early' = early \cup {item}))
      BY <1>3, <2>4 DEF Pushes
    <3>2. item \notin early /\ item # TQUIT
      BY <2>3, <2>4 DEF QuitsLast
    <3>3. early' \subseteq pushed'
      BY <3>1 DEF QuitsLast
    <3>4. quits = 0 => (\A i \in DOMAIN que' : que'[i] # TQUIT) /\ \A w \in Worker : thread'[w] # "exited"
      BY <1>3, <2>2, <3>2 DEF QuitsLast, Pushes, Steady
    <3>5. CASE quits = 0
      BY <1>1, <3>1, <3>3, <3>4, <3>5 DEF QuitsLast
    <3>6. CASE quits # 0
      <4>1. early' = early /\ quits' > 0
        BY <2>3, <3>1, <3>6
      <4>2. ASSUME NEW i \in DOMAIN que', NEW j \in DOMAIN que', que'[i] \in early, que'[j] = TQUIT
            PROVE  i < j
        BY <2>2, <3>2, <4>2 DEF QuitsLast
      <4>3. (\E w \in Worker : thread'[w] = "exited") => \A i \in DOMAIN que' : que'[i] \notin early
        BY <1>3, <2>2, <3>2 DEF QuitsLast, Pushes, Steady
      <4> QED
        BY <1>1, <3>3, <4>1, <4>2, <4>3 DEF QuitsLast
    <3> QED
      BY <3>5, <3>6
  <2>5. CASE item \notin Task
    <3>1. UNCHANGED <<pushed, early>> /\ (quits' = quits \/ quits' = quits + 1)
          /\ (item = TQUIT => quits' = quits + 1)
      BY <1>3, <2>5 DEF Pushes
    <3>2. item \notin early
      BY <2>3, <2>5
    <3>3. ASSUME NEW i \in DOMAIN que', NEW j \in DOMAIN que', que'[i] \in early, que'[j] = TQUIT
          PROVE  i < j
      <4>1. i \in DOMAIN que /\ que[i] \in early
        BY <2>2, <3>2, <3>3
      <4>2. CASE j = Len(que) + 1
        BY <2>1, <4>1, <4>2
      <4>3. CASE j \in DOMAIN que /\ que[j] = TQUIT
        BY <4>1, <4>3 DEF QuitsLast
      <4> QED
        BY <2>2, <3>3, <4>2, <4>3
    <3>4. (\E i \in DOMAIN que' : que'[i] = TQUIT) => quits' > 0
      BY <2>2, <2>3, <3>1 DEF QuitsLast
    <3>5. (\E w \in Worker : thread'[w] = "exited")
            => quits' > 0 /\ \A i \in DOMAIN que' : que'[i] \notin early
      BY <1>3, <2>2, <2>3, <3>1, <3>2 DEF QuitsLast, Pushes, Steady
    <3> QED
      BY <1>1, <3>1, <3>3, <3>4, <3>5 DEF QuitsLast
  <2> QED
    BY <1>3, <2>4, <2>5 DEF Pushes
<1>4. ASSUME NEW w \in Worker, Pops(w) PROVE QuitsLast'
  <2>1. /\ Len(que) \in Nat /\ Len(que) >= 1 /\ DOMAIN que = 1 .. Len(que)
        /\ DOMAIN que' = 1 .. Len(que) - 1
        /\ Head(que) = que[1] /\ \A i \in DOMAIN que' : que'[i] = que[i + 1]
    BY <1>4, QueueTail DEF Pops, TypeOK
  <2>2. UNCHANGED <<pushed, early, quits>>
    BY <1>4 DEF Pops
  <2>3. \A i \in DOMAIN que' : i \in Int /\ i >= 1 /\ i + 1 \in DOMAIN que /\ que'[i] = que[i + 1]
    BY <2>1
  <2>4. ASSUME NEW i \in DOMAIN que', NEW j \in DOMAIN que', que'[i] \in early, que'[j] = TQUIT
        PROVE  i < j
    <3>1. i + 1 < j + 1
      BY <2>3, <2>4 DEF QuitsLast
    <3> QED
      BY <2>3, <3>1
  <2>5. (\E i \in DOMAIN que' : que'[i] = TQUIT) => quits > 0
    BY <2>3 DEF QuitsLast
  <2>6. ASSUME NEW v \in Worker, thread'[v] = "exited"
        PROVE  quits > 0 /\ \A i \in DOMAIN que' : que'[i] \notin early
    <3>1. CASE thread[v] = "exited"
      BY <2>3, <3>1 DEF QuitsLast
    <3>2. CASE thread[v] # "exited"
      <4>1. que[1] = TQUIT /\ 1 \in DOMAIN que
        BY <1>4, <2>1, <2>6, <3>2 DEF Pops, TypeOK
      <4>2. quits > 0
        BY <4>1 DEF QuitsLast
      <4>3. ASSUME NEW i \in DOMAIN que', que'[i] \in early PROVE FALSE
        <5>1. i + 1 < 1
          BY <2>3, <4>1, <4>3 DEF QuitsLast
        <5> QED
          BY <2>3, <5>1
      <4> QED
        BY <4>2, <4>3
    <3> QED
      BY <3>1, <3>2
  <2> QED
    BY <1>1, <2>2, <2>4, <2>5, <2>6 DEF QuitsLast
<1>5. ASSUME NEW w \in Worker, ProcessFun(w) PROVE QuitsLast'
  <2>1. /\ thread[w] = "run" /\ UNCHANGED <<que, pushed, early, quits>>
        /\ \A v \in Worker : thread'[v] = "exited" <=> thread[v] = "exited"
    BY <1>5 DEF ProcessFun, TypeOK
  <2> QED
    BY <1>1, <2>1 DEF QuitsLast
<1> QED
  BY <1>2, <1>3, <1>4, <1>5, PoolStep

(* They hold of a new pool.                                                *)
LEMMA PlacesInit == Init => Places /\ QuitsLast
<1> SUFFICES ASSUME Init PROVE Places /\ QuitsLast
  OBVIOUS
<1>1. DOMAIN que = {}
  BY DEF Init
<1>2. ASSUME NEW t \in Task PROVE OnePlace(t)
  BY <1>1 DEF Init, OnePlace, Queued, Runners
<1> QED
  BY <1>1, <1>2 DEF Init, Places, QuitsLast

(* Both are kept for ever.                                                 *)
THEOREM PlacesHold == Spec => [](Places /\ QuitsLast)
<1>1. Inv /\ Places /\ QuitsLast /\ [Next]_vars => Places' /\ QuitsLast'
  BY PlacesStep, QuitsLastStep DEF Inv
<1> QED
  BY <1>1, InitInv, NextInv, PlacesInit, PTL DEF Spec

(* A task is queued, or run by one thread, or has run once: _que_pop hands *)
(* each item to one thread, and none is dropped.                           *)
THEOREM TasksInOnePlace == Spec => []TaskInOnePlace
<1>1. Places => TaskInOnePlace
  <2> SUFFICES ASSUME Places, NEW t \in Task
               PROVE  Cardinality(Queued(t)) + Cardinality(Runners(t)) + ran[t]
                        = IF t \in pushed THEN 1 ELSE 0
    BY DEF TaskInOnePlace
  <2>1. Cardinality({}) = 0
    BY FS_EmptySet
  <2>2. \A x : Cardinality({x}) = 1
    BY FS_Singleton
  <2>3. \/ t \notin pushed /\ Cardinality(Queued(t)) = 0 /\ Cardinality(Runners(t)) = 0 /\ ran[t] = 0
        \/ t \in pushed /\ Cardinality(Queued(t)) = 1 /\ Cardinality(Runners(t)) = 0 /\ ran[t] = 0
        \/ t \in pushed /\ Cardinality(Queued(t)) = 0 /\ Cardinality(Runners(t)) = 1 /\ ran[t] = 0
        \/ t \in pushed /\ Cardinality(Queued(t)) = 0 /\ Cardinality(Runners(t)) = 0 /\ ran[t] = 1
    <3>1. OnePlace(t)
      BY DEF Places
    <3> QED
      BY <2>1, <2>2, <3>1, Zenon DEF OnePlace
  <2> QED
    BY <2>3
<1> QED
  BY <1>1, PlacesHold, PTL

(* When Oe_Thread_Dispatcher_stop has returned, all that was submitted     *)
(* before it has run, for any number of threads.                           *)
THEOREM StopHasDrained == Spec => []StopDrains
<1>1. TypeOK /\ Places /\ QuitsLast => StopDrains
  <2> SUFFICES ASSUME TypeOK, Places, QuitsLast, boss = "stopped", NEW t \in early
               PROVE  ran[t] = 1
    BY DEF StopDrains
  <2>1. PICK w \in Worker : thread[w] = "exited"
    BY PoolAssumption DEF QuitsLast
  <2>2. Queued(t) = {} /\ Runners(t) = {}
    BY <2>1 DEF QuitsLast, Queued, Runners
  <2>3. t \in Task /\ t \in pushed
    BY DEF QuitsLast, TypeOK
  <2>4. OnePlace(t)
    BY <2>3 DEF Places
  <2> QED
    BY <2>2, <2>3, <2>4 DEF OnePlace
<1> QED
  BY <1>1, PlacesHold, TypeCorrect, PTL
=============================================================================
