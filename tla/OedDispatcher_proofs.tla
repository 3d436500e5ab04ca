------------------------ MODULE OedDispatcher_proofs ------------------------
(***************************************************************************)
(* Proofs about the matcher, for any number of threads, any templates and  *)
(* objects, and any sizes of batch and pipe: the queue and the pipe, the   *)
(* table of templates, and the order in which templates reach it.          *)
(*                                                                         *)
(* The balance of items and bytes (Inv) needs to know where each thread    *)
(* and the loop are between a push and its byte. The table (Table) needs   *)
(* that the set a template is put into is finite, so that the smallest can *)
(* be chosen. The order (InOrder) is that a template is in one of three    *)
(* stages, with the thread that registers it, in the queue, or beyond it,  *)
(* and that the first template of its group, which owns the list, is never *)
(* behind it.                                                              *)
(***************************************************************************)
EXTENDS OedDispatcher, FiniteSetTheorems, TLAPS

TodoItem == QueItem \cup {End(g) : g \in Group}

(* What the balance of items and bytes rests on: a thread owes a byte only *)
(* while the item it pushed is still its first, and outside a batch the    *)
(* loop has nothing to pop.                                                *)
CallerInv ==
  /\ caller \in [Caller -> [todo : Seq(TodoItem), due : BOOLEAN]]
  /\ \A c \in Caller : caller[c].due => caller[c].todo # <<>>

LoopInv ==
  /\ loop.n \in Nat
  /\ loop.at \in {"poll", "beat", "batch", "process", "exited"}
  /\ loop.n > 0 <=> loop.at \in {"batch", "process"}

QueInv == que \in Seq(QueItem) /\ pipe \in Nat /\ CallerInv /\ LoopInv

Inv == QueInv /\ BytesMatchItems

Due == {c \in Caller : caller[c].due}

(* The pops and the byte the loop itself has still to make.                *)
Owes(l) == (IF l.at = "process" THEN l.n - 1 ELSE l.n) + (IF l.at = "beat" THEN 1 ELSE 0)

(* The threads that owe a byte can be counted, before a step and after.    *)
LEMMA DueCount ==
  /\ IsFiniteSet(Due) /\ Cardinality(Due) \in Nat
  /\ IsFiniteSet(Due') /\ Cardinality(Due') \in Nat
<1>1. IsFiniteSet(Due) /\ IsFiniteSet(Due')
  BY DispatcherAssumption, FS_Subset, Zenon DEF Due
<1> QED
  BY <1>1, FS_CardinalityType, Zenon

(* What the loop owes is a number, before a step and after.                *)
LEMMA OwesType ==
  /\ LoopInv => Owes(loop) \in Nat
  /\ LoopInv' => Owes(loop') \in Nat
<1>1. ASSUME NEW l, l.n \in Nat, l.at = "process" => l.n > 0 PROVE Owes(l) \in Nat
  BY <1>1 DEF Owes
<1> QED
  BY <1>1, Zenon DEF LoopInv

(* BytesMatchItems in terms of the names above, before a step and after.   *)
LEMMA Balance ==
  /\ QueInv => (BytesMatchItems <=> Len(que) = pipe + Cardinality(Due) + Owes(loop))
  /\ QueInv' => (BytesMatchItems' <=> Len(que') = pipe' + Cardinality(Due') + Owes(loop'))
<1>1. ASSUME NEW q \in Nat, NEW p \in Nat, NEW d \in Nat, NEW x \in Int, NEW y \in Nat
      PROVE  (q = p + x + (d + y)) <=> (q = p + d + (x + y))
  OBVIOUS
<1>2. ASSUME QueInv PROVE BytesMatchItems <=> Len(que) = pipe + Cardinality(Due) + Owes(loop)
  <2>1. PICK x \in Int : x = IF loop.at = "process" THEN loop.n - 1 ELSE loop.n
    BY <1>2 DEF QueInv, LoopInv
  <2>2. PICK y \in Nat : y = IF loop.at = "beat" THEN 1 ELSE 0
    BY Zenon
  <2>3. Len(que) \in Nat /\ pipe \in Nat /\ Owes(loop) = x + y
    BY <1>2, <2>1, <2>2 DEF QueInv, Owes
  <2>4. BytesMatchItems <=> Len(que) = pipe + x + (Cardinality(Due) + y)
    BY <2>1, <2>2, Zenon DEF BytesMatchItems, PopsDue, BytesDue, Due
  <2> QED
    BY <1>1, <2>3, <2>4, DueCount
<1>3. ASSUME QueInv' PROVE BytesMatchItems' <=> Len(que') = pipe' + Cardinality(Due') + Owes(loop')
  <2>1. PICK x \in Int : x = IF loop'.at = "process" THEN loop'.n - 1 ELSE loop'.n
    BY <1>3 DEF QueInv, LoopInv
  <2>2. PICK y \in Nat : y = IF loop'.at = "beat" THEN 1 ELSE 0
    BY Zenon
  <2>3. Len(que') \in Nat /\ pipe' \in Nat /\ Owes(loop') = x + y
    BY <1>3, <2>1, <2>2 DEF QueInv, Owes
  <2>4. BytesMatchItems' <=> Len(que') = pipe' + x + (Cardinality(Due') + y)
    BY <2>1, <2>2, Zenon DEF BytesMatchItems, PopsDue, BytesDue, Due
  <2> QED
    BY <1>1, <2>3, <2>4, DueCount
<1> QED
  BY <1>2, <1>3, Zenon

(* The arithmetic of the next lemma.                                       *)
LEMMA SameChange ==
  ASSUME NEW q \in Nat, NEW p \in Nat, NEW d \in Nat, NEW w \in Nat,
         NEW q2, NEW p2 \in Nat, NEW d2 \in Nat, NEW w2 \in Nat,
         q = p + d + w, q2 = q + (p2 - p) + (d2 - d) + (w2 - w)
  PROVE  q2 = p2 + d2 + w2
OBVIOUS

(* The two sides of the balance change alike.                              *)
Alike ==
  Len(que') = Len(que) + (pipe' - pipe) + (Cardinality(Due') - Cardinality(Due))
              + (Owes(loop') - Owes(loop))

(* Such a step keeps the balance.                                          *)
LEMMA KeepsBalance ==
  ASSUME Inv, QueInv', Alike
  PROVE  Inv'
<1>1. Len(que) = pipe + Cardinality(Due) + Owes(loop)
  BY Balance, Zenon DEF Inv, QueInv
<1>2. Len(que) \in Nat /\ pipe \in Nat /\ Len(que') \in Nat /\ pipe' \in Nat
  BY DEF Inv, QueInv
<1>3. Owes(loop) \in Nat /\ Owes(loop') \in Nat
  BY OwesType, Zenon DEF Inv, QueInv
<1>4. Len(que') = pipe' + Cardinality(Due') + Owes(loop')
  <2>1. PICK q \in Nat, p \in Nat, d \in Nat, w \in Nat :
          q = Len(que) /\ p = pipe /\ d = Cardinality(Due) /\ w = Owes(loop)
    BY <1>2, <1>3, DueCount, Zenon
  <2>2. PICK q2 \in Nat, p2 \in Nat, d2 \in Nat, w2 \in Nat :
          q2 = Len(que') /\ p2 = pipe' /\ d2 = Cardinality(Due') /\ w2 = Owes(loop')
    BY <1>2, <1>3, DueCount, Zenon
  <2>3. q = p + d + w
    BY <1>1, <2>1, Zenon
  <2>4. q2 = q + (p2 - p) + (d2 - d) + (w2 - w)
    BY <2>1, <2>2, Zenon DEF Alike
  <2>5. q2 = p2 + d2 + w2
    BY <2>3, <2>4, SameChange
  <2> QED
    BY <2>2, <2>5, Zenon
<1>5. BytesMatchItems'
  BY <1>4, Balance, Zenon DEF QueInv
<1> QED
  BY <1>5, Zenon DEF Inv

(* The threads after one of them has changed.                              *)
LEMMA CallerStep ==
  ASSUME CallerInv, NEW c \in Caller, NEW todo \in Seq(TodoItem), NEW due \in BOOLEAN,
         due => todo # <<>>, caller' = [caller EXCEPT ![c] = [todo |-> todo, due |-> due]]
  PROVE  /\ CallerInv'
         /\ Due' = IF due THEN Due \cup {c} ELSE Due \ {c}
<1>1. [todo |-> todo, due |-> due] \in [todo : Seq(TodoItem), due : BOOLEAN]
  BY Zenon
<1>2. caller' \in [Caller -> [todo : Seq(TodoItem), due : BOOLEAN]]
  BY <1>1, Zenon DEF CallerInv
<1>3. \A d \in Caller : caller'[d] = IF d = c THEN [todo |-> todo, due |-> due] ELSE caller[d]
  BY Zenon DEF CallerInv
<1>4. caller'[c].due = due /\ caller'[c].todo = todo
  BY <1>3
<1>5. \A d \in Caller : caller'[d].due => caller'[d].todo # <<>>
  BY <1>3, <1>4, Zenon DEF CallerInv
<1>6. Due' = IF due THEN Due \cup {c} ELSE Due \ {c}
  BY <1>3, <1>4, Zenon DEF Due
<1> QED
  BY <1>2, <1>5, <1>6, Zenon DEF CallerInv

(* At the start there are no items, no bytes and no debts.                 *)
LEMMA InitInv == Init => Inv
<1> SUFFICES ASSUME Init PROVE Inv
  BY Zenon
<1>1. QueInv
  BY DEF Init, QueInv, CallerInv, LoopInv, Idle, Poll, Outside
<1>2. Due = {}
  BY Zenon DEF Init, Due, Idle
<1>3. Cardinality(Due) = 0
  BY <1>2, FS_EmptySet, Zenon
<1>4. Owes(loop) = 0 /\ Len(que) = 0 /\ pipe = 0
  BY DEF Init, Owes, Poll, Outside
<1> QED
  BY <1>1, <1>3, <1>4, Balance DEF Inv, QueInv

-----------------------------------------------------------------------------
(* A thread that calls, or gives up its loop, neither pushes nor writes.   *)
LEMMA CallInv ==
  ASSUME Inv, NEW c \in Caller, NEW todo \in Seq(TodoItem), ~caller[c].due,
         UNCHANGED <<que, pipe, loop>>,
         caller' = [caller EXCEPT ![c] = [todo |-> todo, due |-> FALSE]]
  PROVE  Inv'
<1>1. CallerInv' /\ Due' = Due \ {c}
  BY CallerStep, Zenon DEF Inv, QueInv
<1>2. Due' = Due
  BY <1>1, Zenon DEF Due
<1>3. QueInv'
  BY <1>1, Zenon DEF Inv, QueInv, LoopInv
<1>4. Cardinality(Due') = Cardinality(Due)
  BY <1>2, Zenon
<1>5. Len(que) \in Nat /\ pipe \in Nat /\ Owes(loop) \in Nat
  BY DEF Inv, QueInv, LoopInv, Owes
<1>6. Alike
  BY <1>4, <1>5, DueCount DEF Alike
<1> QED
  BY <1>3, <1>6, KeepsBalance, Zenon

(* A call by a thread that was idle.                                       *)
LEMMA IdleCallInv ==
  ASSUME Inv, NEW c \in Caller, NEW todo \in Seq(TodoItem), Call(c, todo)
  PROVE  Inv'
<1>1. caller[c] = Idle /\ UNCHANGED <<que, pipe, loop>>
      /\ caller' = [caller EXCEPT ![c] = [todo |-> todo, due |-> FALSE]]
  BY Zenon DEF Call
<1>2. ~caller[c].due
  BY <1>1 DEF Idle
<1> QED
  BY <1>1, <1>2, CallInv, Zenon

(* What reg_group has to push are items of the templates of its group.     *)
LEMMA RegGroupInv ==
  ASSUME Inv, NEW c \in Caller, NEW g \in Group, RegGroup(c, g)
  PROVE  Inv'
<1> DEFINE regs == [i \in 1 .. Len(Templates[g]) |-> Reg(<<g, i - 1>>)]
<1>1. \A i \in 1 .. Len(Templates[g]) : Reg(<<g, i - 1>>) \in TodoItem
  <2> TAKE i \in 1 .. Len(Templates[g])
  <2>1. Len(Templates[g]) \in Nat
    BY DispatcherAssumption, Zenon
  <2>2. i - 1 \in 0 .. Len(Templates[g]) - 1
    BY <2>1
  <2>3. <<g, i - 1>> \in Sid
    BY <2>2 DEF Sid
  <2> QED
    BY <2>3, Zenon DEF TodoItem, QueItem
<1>2. Len(Templates[g]) \in Nat
  BY DispatcherAssumption, Zenon
<1>3. regs \in Seq(TodoItem)
  BY <1>1, <1>2
<1>4. End(g) \in TodoItem
  BY Zenon DEF TodoItem
<1>5. Append(regs, End(g)) \in Seq(TodoItem)
  BY <1>3, <1>4
<1>6. Call(c, Append(regs, End(g)))
  BY Zenon DEF RegGroup
<1> HIDE DEF regs
<1> QED
  BY <1>5, <1>6, IdleCallInv, Zenon

(* The calls that push one item.                                           *)
LEMMA SubmitInv ==
  ASSUME Inv, NEW c \in Caller, Submit(c) \/ Stop(c)
  PROVE  Inv'
<1>1. ASSUME NEW item \in QueItem, Call(c, <<item>>) PROVE Inv'
  <2>1. <<item>> \in Seq(TodoItem)
    BY DEF TodoItem
  <2> QED
    BY <1>1, <2>1, IdleCallInv, Zenon
<1>2. Execute \in QueItem /\ Tquit \in QueItem /\ \A o \in Object : Process(o) \in QueItem
  BY Zenon DEF QueItem
<1>3. ASSUME NEW g \in Group PROVE Unreg(<<g, Len(Templates[g]) - 1>>) \in QueItem
  <2>1. PICK i : i = Len(Templates[g]) - 1
    BY Zenon
  <2>2. i \in 0 .. Len(Templates[g]) - 1
    BY <2>1, DispatcherAssumption
  <2>3. <<g, i>> \in Sid
    BY <2>2 DEF Sid
  <2>4. Unreg(<<g, i>>) \in QueItem
    BY <2>3, Zenon DEF QueItem
  <2> QED
    BY <2>1, <2>4, Zenon
<1>4. CASE Submit(c)
  <2>1. \/ \E o \in Object : Call(c, <<Process(o)>>)
        \/ Call(c, <<Execute>>)
        \/ \E g \in Group : Call(c, <<Unreg(<<g, Len(Templates[g]) - 1>>)>>)
    BY <1>4, Zenon DEF Submit
  <2> QED
    BY <2>1, <1>1, <1>2, <1>3, Zenon
<1>5. CASE Stop(c)
  BY <1>5, <1>1, <1>2, Zenon DEF Stop
<1> QED
  BY <1>4, <1>5, Zenon

(* A push adds an item, and a thread that owes the byte.                   *)
LEMMA QuePushInv ==
  ASSUME Inv, NEW c \in Caller, QuePush(c)
  PROVE  Inv'
<1> DEFINE todo == caller[c].todo
<1>1. todo \in Seq(TodoItem) /\ todo # <<>> /\ ~caller[c].due /\ Head(todo).type # "END"
  BY Zenon DEF QuePush, Ready, Item, Inv, QueInv, CallerInv
<1>2. Head(todo) \in QueItem
  <2>1. Head(todo) \in TodoItem
    BY <1>1
  <2>2. \A g \in Group : End(g).type = "END"
    BY Zenon DEF End
  <2> QED
    BY <1>1, <2>1, <2>2, Zenon DEF TodoItem
<1>3. que' = Append(que, Head(todo)) /\ pipe' = pipe /\ loop' = loop
  BY Zenon DEF QuePush, Item
<1>4. caller' = [caller EXCEPT ![c] = [todo |-> todo, due |-> TRUE]]
  BY Zenon DEF QuePush
<1> HIDE DEF todo
<1>5. CallerInv' /\ Due' = Due \cup {c}
  BY <1>1, <1>4, CallerStep, Zenon DEF Inv, QueInv
<1>6. QueInv'
  BY <1>2, <1>3, <1>5 DEF Inv, QueInv, LoopInv
<1>7. c \notin Due
  BY <1>1, Zenon DEF Due
<1>8. Cardinality(Due') = Cardinality(Due) + 1
  BY <1>5, <1>7, DueCount, FS_AddElement, Zenon
<1>9. Len(que') = Len(que) + 1
  BY <1>2, <1>3 DEF Inv, QueInv
<1>10. Len(que) \in Nat /\ pipe \in Nat /\ Owes(loop) \in Nat
  BY DEF Inv, QueInv, LoopInv, Owes
<1>11. Alike
  BY <1>3, <1>8, <1>9, <1>10, DueCount DEF Alike
<1> QED
  BY <1>6, <1>11, KeepsBalance, Zenon

(* A byte written is a debt paid.                                          *)
LEMMA WriteByteInv ==
  ASSUME Inv, NEW c \in Caller, WriteByte(c)
  PROVE  Inv'
<1> DEFINE todo == Tail(caller[c].todo)
<1>1. que' = que /\ pipe' = pipe + 1 /\ loop' = loop /\ caller[c].due
      /\ caller' = [caller EXCEPT ![c] = [todo |-> todo, due |-> FALSE]]
  BY Zenon DEF WriteByte
<1>2. todo \in Seq(TodoItem)
  BY <1>1 DEF Inv, QueInv, CallerInv
<1> HIDE DEF todo
<1>3. CallerInv' /\ Due' = Due \ {c}
  BY <1>1, <1>2, CallerStep, Zenon DEF Inv, QueInv
<1>4. QueInv'
  BY <1>1, <1>3 DEF Inv, QueInv, LoopInv
<1>5. c \in Due
  BY <1>1, Zenon DEF Due
<1>6. Cardinality(Due') = Cardinality(Due) - 1
  BY <1>3, <1>5, DueCount, FS_RemoveElement, Zenon
<1>7. Len(que) \in Nat /\ pipe \in Nat /\ Owes(loop) \in Nat
  BY DEF Inv, QueInv, LoopInv, Owes
<1>8. Alike
  BY <1>1, <1>6, <1>7, DueCount DEF Alike
<1> QED
  BY <1>4, <1>8, KeepsBalance, Zenon

(* A thread that leaves the loop of reg_group owes nothing.                *)
LEMMA EndInv ==
  ASSUME Inv, NEW c \in Caller, FreedListRead(c) \/ EndGroup(c)
  PROVE  Inv'
<1>1. UNCHANGED <<que, pipe, loop>> /\ ~caller[c].due
  BY Zenon DEF FreedListRead, EndGroup, Ready
<1>2. <<>> \in Seq(TodoItem)
  OBVIOUS
<1>3. CASE caller' = [caller EXCEPT ![c] = Idle]
  BY <1>1, <1>2, <1>3, CallInv, Zenon DEF Idle
<1>4. CASE caller' = caller
  <2>1. QueInv'
    BY <1>1, <1>4, Zenon DEF Inv, QueInv, CallerInv, LoopInv
  <2>2. BytesMatchItems'
    BY <1>1, <1>4, Zenon DEF Inv, BytesMatchItems, PopsDue, BytesDue
  <2> QED
    BY <2>1, <2>2, Zenon DEF Inv
<1> QED
  BY <1>3, <1>4, Zenon DEF FreedListRead, EndGroup

-----------------------------------------------------------------------------
(* A step of the event loop changes no thread.                             *)
LEMMA LoopKeeps ==
  ASSUME Inv, caller' = caller, que' \in Seq(QueItem), pipe' \in Nat, LoopInv',
         Len(que') = Len(que) + (pipe' - pipe) + (Owes(loop') - Owes(loop))
  PROVE  Inv'
<1>1. QueInv'
  BY Zenon DEF Inv, QueInv, CallerInv
<1>2. Due' = Due
  BY Zenon DEF Due
<1>3. Cardinality(Due') = Cardinality(Due)
  BY <1>2, Zenon
<1>4. pipe \in Nat /\ Owes(loop) \in Nat /\ Owes(loop') \in Nat
  BY OwesType, Zenon DEF Inv, QueInv
<1>5. Alike
  BY <1>3, <1>4, DueCount DEF Alike
<1> QED
  BY <1>1, <1>5, KeepsBalance, Zenon

(* The bytes read are the pops that are due.                               *)
LEMMA ReadPipeInv ==
  ASSUME Inv, ReadPipe
  PROVE  Inv'
<1> DEFINE n == Min({pipe, BATCH_SZ})
<1>1. pipe \in Nat \ {0} /\ BATCH_SZ \in Nat \ {0}
  BY DispatcherAssumption DEF ReadPipe, Inv, QueInv
<1>2. n \in {pipe, BATCH_SZ} /\ n <= pipe
  BY <1>1 DEF Min
<1>3. que' = que /\ caller' = caller /\ pipe' = pipe - n /\ loop' = Batch(n) /\ loop.at = "poll"
  BY Zenon DEF ReadPipe
<1> HIDE DEF n
<1>4. n \in Nat \ {0} /\ loop.n = 0
  BY <1>1, <1>2, <1>3 DEF Inv, QueInv, LoopInv
<1>5. LoopInv' /\ Owes(loop') = n /\ Owes(loop) = 0
  BY <1>3, <1>4 DEF LoopInv, Owes, Batch
<1>6. pipe' \in Nat /\ que' \in Seq(QueItem)
      /\ Len(que') = Len(que) + (pipe' - pipe) + (Owes(loop') - Owes(loop))
  BY <1>1, <1>2, <1>3, <1>4, <1>5 DEF Inv, QueInv
<1> QED
  BY <1>3, <1>5, <1>6, LoopKeeps, Zenon

(* The heartbeat pushes its item and writes its byte from the loop itself. *)
LEMMA HeartbeatInv ==
  ASSUME Inv, HeartbeatCb \/ HeartbeatByte \/ Exit
  PROVE  Inv'
<1>1. CASE HeartbeatCb
  <2>1. que' = Append(que, Heartbeat) /\ pipe' = pipe /\ caller' = caller
        /\ loop' = Outside("beat") /\ loop.at = "poll"
    BY <1>1, Zenon DEF HeartbeatCb
  <2>2. Heartbeat \in QueItem
    BY Zenon DEF QueItem
  <2>3. LoopInv' /\ Owes(loop') = 1 /\ Owes(loop) = 0
    BY <2>1 DEF Inv, QueInv, LoopInv, Owes, Outside
  <2>4. que' \in Seq(QueItem) /\ pipe' \in Nat
        /\ Len(que') = Len(que) + (pipe' - pipe) + (Owes(loop') - Owes(loop))
    BY <2>1, <2>2, <2>3 DEF Inv, QueInv
  <2> QED
    BY <2>1, <2>3, <2>4, LoopKeeps, Zenon
<1>2. CASE HeartbeatByte
  <2>1. que' = que /\ pipe' = pipe + 1 /\ caller' = caller /\ loop' = Poll /\ loop.at = "beat"
    BY <1>2, Zenon DEF HeartbeatByte
  <2>2. LoopInv' /\ Owes(loop') = 0 /\ Owes(loop) = 1
    BY <2>1 DEF Inv, QueInv, LoopInv, Owes, Poll, Outside
  <2>3. que' \in Seq(QueItem) /\ pipe' \in Nat
        /\ Len(que') = Len(que) + (pipe' - pipe) + (Owes(loop') - Owes(loop))
    BY <2>1, <2>2 DEF Inv, QueInv
  <2> QED
    BY <2>1, <2>2, <2>3, LoopKeeps, Zenon
<1>3. CASE Exit
  <2>1. que' = que /\ pipe' = pipe /\ caller' = caller /\ loop' = Outside("exited") /\ loop.at = "poll"
    BY <1>3, Zenon DEF Exit
  <2>2. LoopInv' /\ Owes(loop') = 0 /\ Owes(loop) = 0
    BY <2>1 DEF Inv, QueInv, LoopInv, Owes, Outside
  <2>3. que' \in Seq(QueItem) /\ pipe' \in Nat
        /\ Len(que') = Len(que) + (pipe' - pipe) + (Owes(loop') - Owes(loop))
    BY <2>1, <2>2 DEF Inv, QueInv
  <2> QED
    BY <2>1, <2>2, <2>3, LoopKeeps, Zenon
<1> QED
  BY <1>1, <1>2, <1>3, Zenon

(* Where the loop may go from a batch, or from inside _process.            *)
LEMMA NextInBatch ==
  ASSUME LoopInv, loop.n > 0,
         loop' = Batch(loop.n - 1) \/ \E o, k, array : InProcess(o, k, array)
  PROVE  LoopInv' /\ loop.n \in Nat \ {0} /\ Owes(loop') = loop.n - 1
<1>1. loop.n \in Nat \ {0}
  BY DEF LoopInv
<1>2. CASE loop' = Batch(loop.n - 1)
  BY <1>1, <1>2 DEF LoopInv, Owes, Batch
<1>3. CASE \E o, k, array : InProcess(o, k, array)
  BY <1>1, <1>3 DEF LoopInv, Owes, InProcess
<1> QED
  BY <1>1, <1>2, <1>3, Zenon

(* A pop takes an item for a byte already read, whatever its type.         *)
LEMMA PopInv ==
  ASSUME Inv, loop.at = "batch", que # <<>>, que' = Tail(que), UNCHANGED <<pipe, caller>>,
         loop' = Batch(loop.n - 1) \/ \E o, k, array : InProcess(o, k, array)
  PROVE  Inv'
<1>1. LoopInv' /\ loop.n \in Nat \ {0} /\ Owes(loop') = loop.n - 1
  BY NextInBatch, Zenon DEF Inv, QueInv, LoopInv
<1>2. Owes(loop) = loop.n
  BY <1>1 DEF Owes
<1>3. que' \in Seq(QueItem) /\ Len(que') = Len(que) - 1 /\ Len(que) \in Nat /\ pipe' \in Nat
  BY DEF Inv, QueInv
<1>4. Len(que') = Len(que) + (pipe' - pipe) + (Owes(loop') - Owes(loop))
  BY <1>1, <1>2, <1>3
<1> QED
  BY <1>1, <1>3, <1>4, LoopKeeps, Zenon

(* Inside _process the pop is made; leaving it, the next one is due.       *)
LEMMA ProcessInv ==
  ASSUME Inv, loop.at = "process", UNCHANGED <<que, pipe, caller>>,
         loop' = Batch(loop.n - 1) \/ \E o, k, array : InProcess(o, k, array)
  PROVE  Inv'
<1>1. LoopInv' /\ loop.n \in Nat \ {0} /\ Owes(loop') = loop.n - 1
  BY NextInBatch, Zenon DEF Inv, QueInv, LoopInv
<1>2. Owes(loop) = loop.n - 1
  BY <1>1 DEF Owes
<1>3. que' \in Seq(QueItem) /\ Len(que) \in Nat /\ pipe' \in Nat
  BY DEF Inv, QueInv
<1>4. Len(que') = Len(que) + (pipe' - pipe) + (Owes(loop') - Owes(loop))
  BY <1>1, <1>2, <1>3
<1> QED
  BY <1>1, <1>3, <1>4, LoopKeeps, Zenon

(* Steps that touch the table only.                                        *)
LEMMA SameInv ==
  ASSUME Inv, UNCHANGED <<que, pipe, caller, loop>>
  PROVE  Inv'
<1>1. QueInv'
  BY Zenon DEF Inv, QueInv, CallerInv, LoopInv
<1>2. BytesMatchItems'
  BY Zenon DEF Inv, BytesMatchItems, PopsDue, BytesDue
<1> QED
  BY <1>1, <1>2, Zenon DEF Inv

(* Every step keeps the invariant.                                         *)
LEMMA NextInv == Inv /\ [Next]_vars => Inv'
<1> SUFFICES ASSUME Inv, [Next]_vars PROVE Inv'
  BY Zenon
<1>1. CASE ReadPipe
  BY <1>1, ReadPipeInv, Zenon
<1>2. CASE HeartbeatCb \/ HeartbeatByte \/ Exit
  BY <1>2, HeartbeatInv, Zenon
<1>3. CASE DoReg \/ DoUnreg \/ DoExecute \/ DoHeartbeat \/ DoQuit
  <2>1. loop.at = "batch" /\ que # <<>> /\ que' = Tail(que) /\ UNCHANGED <<pipe, caller>>
        /\ loop' = Batch(loop.n - 1)
    BY <1>3, Zenon DEF DoReg, DoUnreg, DoExecute, DoHeartbeat, DoQuit, QuePop, Done
  <2> QED
    BY <2>1, PopInv, Zenon
<1>4. CASE DoProcess
  <2>1. loop.at = "batch" /\ que # <<>> /\ que' = Tail(que) /\ UNCHANGED <<pipe, caller>>
        /\ InProcess(Head(que).object, 0, {})
    BY <1>4, Zenon DEF DoProcess, QuePop
  <2> QED
    BY <2>1, PopInv, Zenon
<1>5. CASE NextField
  <2>1. loop.at = "process" /\ UNCHANGED <<que, pipe, caller>>
    BY <1>5, Zenon DEF NextField
  <2>2. loop' = Batch(loop.n - 1) \/ \E o, k, array : InProcess(o, k, array)
    BY <1>5, Zenon DEF NextField, Done
  <2> QED
    BY <2>1, <2>2, ProcessInv, Zenon
<1>6. ASSUME NEW t \in Sid, Visit(t) PROVE Inv'
  <2>1. loop.at = "process" /\ UNCHANGED <<que, pipe, caller>>
    BY <1>6, Zenon DEF Visit
  <2>2. loop' = Batch(loop.n - 1) \/ \E o, k, array : InProcess(o, k, array)
    BY <1>6, Zenon DEF Visit, Done
  <2> QED
    BY <2>1, <2>2, ProcessInv, Zenon
<1>7. ASSUME NEW t \in Sid, TimeoutCb(t) \/ FreedItemRead(t) PROVE Inv'
  BY <1>7, SameInv, Zenon DEF TimeoutCb, FreedItemRead
<1>8. ASSUME NEW c \in Caller, Return(c) \/ FreedListRead(c) PROVE Inv'
  BY <1>8, QuePushInv, WriteByteInv, EndInv, Zenon DEF Return
<1>9. ASSUME NEW c \in Caller, Submit(c) \/ Stop(c) PROVE Inv'
  BY <1>9, SubmitInv, Zenon
<1>10. ASSUME NEW c \in Caller, NEW g \in Group, RegGroup(c, g) PROVE Inv'
  BY <1>10, RegGroupInv, Zenon
<1>11. CASE UNCHANGED vars
  BY <1>11, SameInv, Zenon DEF vars
<1> QED
  BY <1>1, <1>2, <1>3, <1>4, <1>5, <1>6, <1>7, <1>8, <1>9, <1>10, <1>11, Zenon DEF Next, Loop

(* _que_push and _process_que: the items in the queue and the bytes that   *)
(* stand for them always balance, so no pop finds the queue empty and no   *)
(* item waits without a byte, whatever the threads do.                     *)
THEOREM ItemsBalance == Spec => []BytesMatchItems
<1>1. Inv => BytesMatchItems
  BY Zenon DEF Inv
<1> QED
  BY InitInv, NextInv, <1>1, PTL DEF Spec

-----------------------------------------------------------------------------
(* The table of templates, for any templates.                              *)

USE SMTT(30)

EntryType == [where : Where, key_idx : Nat, handlers : BOOLEAN, grouped : BOOLEAN, timer : BOOLEAN]

(* The sets of the table are finite, so that their sizes can be compared.  *)
Table ==
  /\ group \in [Group -> {"none", "live", "freed"}]
  /\ entry \in [Sid -> EntryType]
  /\ \A key \in DOMAIN items : items[key] \subseteq Sid /\ IsFiniteSet(items[key])
  /\ ran \in [Group -> Nat]
  /\ TimersAreLive

Bounds ==
  /\ pipe \in 0 .. PipeSize /\ loop.n \in 0 .. BATCH_SZ
  /\ heart \in BOOLEAN /\ quit \in {"no", "asked", "yes"}
  /\ calls \in 0 .. MaxCalls /\ crashed \in BOOLEAN

(* A set of numbers has a least one, which Min is.                         *)
LEMMA LeastIsMin ==
  ASSUME NEW T \in SUBSET Nat, T # {}
  PROVE  Min(T) \in T /\ \A y \in T : Min(T) <= y
<1> DEFINE R == OpToRel(<, Nat)
<1>1. IsWellFoundedOn(R, Nat)
  BY NatLessThanWellFounded, Zenon
<1>2. \A x, y \in Nat : <<y, x>> \in R <=> y < x
  BY Zenon DEF OpToRel
<1> HIDE DEF R
<1>3. PICK x \in T : \A y \in T : <<y, x>> \notin R
  BY <1>1, WFMin, Zenon
<1>4. \A y \in T : ~(y < x)
  BY <1>2, <1>3, Zenon
<1>5. \A y \in T : x <= y
  BY <1>4
<1> QED
  BY <1>5, Zenon DEF Min

(* A template is a pair, of a group and a place in it.                     *)
LEMMA SidPair ==
  ASSUME NEW t \in Sid
  PROVE  /\ t[1] \in Group /\ t[2] \in 0 .. Len(Templates[t[1]]) - 1 /\ t = <<t[1], t[2]>>
         /\ Len(Fields(t)) \in Nat
<1>1. PICK g \in Group : \E i \in 0 .. Len(Templates[g]) - 1 : t = <<g, i>>
  BY Zenon DEF Sid
<1>2. PICK i \in 0 .. Len(Templates[g]) - 1 : t = <<g, i>>
  BY <1>1, Zenon
<1>3. t[1] = g /\ t[2] = i /\ Len(Templates[g]) \in Nat
  BY <1>2, DispatcherAssumption, Zenon
<1>4. i + 1 \in 1 .. Len(Templates[g])
  BY <1>3
<1>5. Len(Fields(t)) \in Nat
  BY <1>3, <1>4, DispatcherAssumption, Zenon DEF Fields
<1> QED
  BY <1>2, <1>3, <1>5, Zenon

(* Every pair of a group and a place in it is a template.                  *)
LEMMA PairSid ==
  ASSUME NEW g \in Group, NEW i \in 0 .. Len(Templates[g]) - 1
  PROVE  <<g, i>> \in Sid
BY DEF Sid

(* The members of a group can be counted.                                  *)
LEMMA MembersFinite ==
  ASSUME NEW g \in Group
  PROVE  IsFiniteSet(Members(g))
<1>1. PICK P : P = 0 .. Len(Templates[g]) - 1
  BY Zenon
<1>2. 0 \in Int /\ Len(Templates[g]) - 1 \in Int
  BY DispatcherAssumption
<1>3. IsFiniteSet(P)
  BY <1>1, <1>2, FS_Interval, Zenon
<1>4. IsFiniteSet({g})
  BY FS_Singleton, Zenon
<1>5. IsFiniteSet({g} \X P)
  BY <1>3, <1>4, FS_Product, Zenon
<1>6. Members(g) \subseteq {g} \X P
  BY <1>1, SidPair DEF Members
<1> QED
  BY <1>5, <1>6, FS_Subset, Zenon

(* The key a template is filed under is one of its fields, not a wildcard. *)
LEMMA KeyIdxIsConcrete ==
  ASSUME NEW t \in Sid, Concrete(t) # {},
         \A key \in DOMAIN items : IsFiniteSet(items[key])
  PROVE  KeyIdx(t) \in Concrete(t) /\ KeyIdx(t) \in Nat
<1>1. Concrete(t) \subseteq Nat
  BY SidPair DEF Concrete, Index
<1>2. CASE Unused(t) # {}
  <2>1. Unused(t) \subseteq Concrete(t)
    BY Zenon DEF Unused
  <2>2. Min(Unused(t)) \in Unused(t)
    BY <1>1, <1>2, <2>1, LeastIsMin, Zenon
  <2> QED
    BY <1>1, <1>2, <2>1, <2>2, Zenon DEF KeyIdx
<1>3. CASE Unused(t) = {}
  <2> DEFINE C == Concrete(t)
             N == {SetSize(t, i) : i \in C}
             B == {i \in C : \A j \in C : SetSize(t, i) <= SetSize(t, j)}
  <2>1. ASSUME NEW i \in C PROVE SetSize(t, i) \in Nat
    <3>1. Field(t, i) \in DOMAIN items
      BY <1>3, <2>1, Zenon DEF Unused
    <3> QED
      BY <3>1, FS_CardinalityType, Zenon DEF SetSize
  <2>2. N \in SUBSET Nat /\ N # {}
    BY <2>1, Zenon
  <2>3. PICK n \in N : \A m \in N : n <= m
    BY <2>2, LeastIsMin, Zenon
  <2>4. PICK i \in C : n = SetSize(t, i)
    BY <2>3, Zenon
  <2>5. i \in B
    BY <2>3, <2>4, Zenon
  <2>6. B \in SUBSET Nat /\ B # {} /\ B \subseteq C
    BY <1>1, <2>5, Zenon
  <2>7. Min(B) \in B
    BY <2>6, LeastIsMin, Zenon
  <2>8. KeyIdx(t) = Min(B)
    BY <1>3, Zenon DEF KeyIdx
  <2> QED
    BY <1>1, <2>6, <2>7, <2>8, Zenon
<1> QED
  BY <1>2, <1>3, Zenon

(* Entries with some of the fields of one of them set.                     *)
LEMMA FieldsSet ==
  ASSUME NEW e \in [Sid -> EntryType], NEW t \in Sid, NEW w \in Where, NEW k \in Nat, NEW b \in BOOLEAN
  PROVE  /\ [e EXCEPT ![t].where = w, ![t].timer = b] \in [Sid -> EntryType]
         /\ [e EXCEPT ![t].where = w, ![t].key_idx = k, ![t].timer = b] \in [Sid -> EntryType]
         /\ [e EXCEPT ![t].grouped = b] \in [Sid -> EntryType]
<1>1. PICK B : B = BOOLEAN
  BY Zenon
<1> DEFINE E == [Sid -> [where : Where, key_idx : Nat, handlers : B, grouped : B, timer : B]]
<1>2. e \in E /\ b \in B /\ E = [Sid -> EntryType]
  BY <1>1, Zenon DEF EntryType
<1>3. \A x \in E : [x EXCEPT ![t].where = w] \in E
  BY Zenon
<1>4. \A x \in E : [x EXCEPT ![t].key_idx = k] \in E
  BY Zenon
<1>5. \A x \in E, y \in B : [x EXCEPT ![t].timer = y] \in E /\ [x EXCEPT ![t].grouped = y] \in E
  BY Zenon
<1>6. [e EXCEPT ![t].where = w, ![t].timer = b] = [[e EXCEPT ![t].where = w] EXCEPT ![t].timer = b]
  BY Zenon
<1>7. [e EXCEPT ![t].where = w, ![t].key_idx = k, ![t].timer = b]
        = [[[e EXCEPT ![t].where = w] EXCEPT ![t].key_idx = k] EXCEPT ![t].timer = b]
  BY Zenon
<1> HIDE DEF E
<1>8. /\ [e EXCEPT ![t].where = w, ![t].timer = b] \in E
      /\ [e EXCEPT ![t].where = w, ![t].key_idx = k, ![t].timer = b] \in E
      /\ [e EXCEPT ![t].grouped = b] \in E
  BY <1>2, <1>3, <1>4, <1>5, <1>6, <1>7, Zenon
<1> QED
  BY <1>2, <1>8, Zenon

(* What _add_template does to the entry it is given.                       *)
LEMMA AddedEntry ==
  ASSUME Table, NEW t \in Sid, AddTemplate(t)
  PROVE  /\ group' = group /\ ran' = ran
         /\ entry' \in [Sid -> EntryType]
         /\ \A m \in Sid \ {t} : entry'[m] = entry[m]
         /\ entry'[t].where = IF Concrete(t) = {} THEN "loose" ELSE "set"
         /\ entry'[t].handlers = entry[t].handlers /\ entry'[t].grouped = entry[t].grouped
<1>1. group' = group /\ ran' = ran /\ entry \in [Sid -> EntryType]
  BY Zenon DEF AddTemplate, Table
<1> DEFINE b == t[1] \in Finite
<1>2. b \in BOOLEAN
  OBVIOUS
<1>3. CASE Concrete(t) = {}
  <2>1. entry' = [entry EXCEPT ![t].where = "loose", ![t].timer = b]
    BY <1>3, Zenon DEF AddTemplate
  <2> HIDE DEF b
  <2>2. "loose" \in Where /\ 0 \in Nat
    BY Zenon DEF Where
  <2>3. entry' \in [Sid -> EntryType]
    <3>1. [entry EXCEPT ![t].where = "loose", ![t].timer = b] \in [Sid -> EntryType]
      BY <1>1, <1>2, <2>2, FieldsSet, Zenon
    <3> QED
      BY <2>1, <3>1, Zenon
  <2>4. /\ entry'[t].where = "loose" /\ \A m \in Sid \ {t} : entry'[m] = entry[m]
        /\ entry'[t].handlers = entry[t].handlers /\ entry'[t].grouped = entry[t].grouped
    BY <1>1, <2>1, Zenon DEF EntryType
  <2> QED
    BY <1>1, <1>3, <2>3, <2>4, Zenon
<1>4. CASE Concrete(t) # {}
  <2>1. PICK k : k = KeyIdx(t)
    BY Zenon
  <2>2. k \in Nat
    BY <1>4, <2>1, KeyIdxIsConcrete, Zenon DEF Table
  <2>3. entry' = [entry EXCEPT ![t].where = "set", ![t].key_idx = k, ![t].timer = b]
    BY <1>4, <2>1, Zenon DEF AddTemplate
  <2> HIDE DEF b
  <2>4. "set" \in Where
    BY Zenon DEF Where
  <2>5. entry' \in [Sid -> EntryType]
    <3>1. [entry EXCEPT ![t].where = "set", ![t].key_idx = k, ![t].timer = b] \in [Sid -> EntryType]
      BY <1>1, <1>2, <2>2, <2>4, FieldsSet, Zenon
    <3> QED
      BY <2>3, <3>1, Zenon
  <2>6. /\ entry'[t].where = "set" /\ \A m \in Sid \ {t} : entry'[m] = entry[m]
        /\ entry'[t].handlers = entry[t].handlers /\ entry'[t].grouped = entry[t].grouped
    BY <1>1, <2>3, Zenon DEF EntryType
  <2> QED
    BY <1>1, <1>4, <2>5, <2>6, Zenon
<1> QED
  BY <1>3, <1>4, Zenon

(* The template has been put into the set of a key.                        *)
FiledUnder(t, key) ==
  /\ entry'[t].key_idx \in Concrete(t) /\ key = Field(t, entry'[t].key_idx)
  /\ DOMAIN items' = DOMAIN items \cup {key}
  /\ \A f \in DOMAIN items : items'[f] = IF f = key THEN items[f] \cup {t} ELSE items[f]
  /\ key \notin DOMAIN items => items'[key] = {t}

(* What _add_template does to the table.                                   *)
LEMMA AddedItems ==
  ASSUME Table, NEW t \in Sid, AddTemplate(t)
  PROVE  (Concrete(t) = {} /\ items' = items) \/ \E key : FiledUnder(t, key)
<1>1. CASE Concrete(t) = {}
  BY <1>1, Zenon DEF AddTemplate
<1>2. CASE Concrete(t) # {}
  <2>1. PICK k : k = KeyIdx(t)
    BY Zenon
  <2>2. k \in Concrete(t)
    BY <1>2, <2>1, KeyIdxIsConcrete, Zenon DEF Table
  <2>3. entry' = [entry EXCEPT ![t].where = "set", ![t].key_idx = k, ![t].timer = t[1] \in Finite]
    BY <1>2, <2>1, Zenon DEF AddTemplate
  <2>4. entry'[t].key_idx = k
    BY <2>3, Zenon DEF Table, EntryType
  <2>5. PICK key : key = Field(t, k)
    BY Zenon
  <2>6. items' = [f \in DOMAIN items \cup {key} |->
                    (IF f \in DOMAIN items THEN items[f] ELSE {}) \cup (IF f = key THEN {t} ELSE {})]
    BY <1>2, <2>1, <2>5, Zenon DEF AddTemplate
  <2>7. DOMAIN items' = DOMAIN items \cup {key}
        /\ (\A f \in DOMAIN items : items'[f] = IF f = key THEN items[f] \cup {t} ELSE items[f])
        /\ (key \notin DOMAIN items => items'[key] = {t})
    BY <2>6, Zenon
  <2> QED
    BY <2>2, <2>4, <2>5, <2>7, Zenon DEF FiledUnder
<1> QED
  BY <1>1, <1>2, Zenon

(* _add_template keeps the types, and arms no timer of a freed item.       *)
LEMMA AddTable ==
  ASSUME Table, NEW t \in Sid, AddTemplate(t)
  PROVE  Table'
<1>1. group' \in [Group -> {"none", "live", "freed"}] /\ ran' \in [Group -> Nat]
  BY AddedEntry, Zenon DEF Table
<1>2. entry' \in [Sid -> EntryType]
  BY AddedEntry, Zenon
<1>3. TimersAreLive'
  BY AddedEntry, Zenon DEF Table, TimersAreLive
<1>4. ASSUME NEW key \in DOMAIN items' PROVE items'[key] \subseteq Sid /\ IsFiniteSet(items'[key])
  <2>1. CASE key \in DOMAIN items
    <3>1. items'[key] = items[key] \/ items'[key] = items[key] \cup {t}
      <4>1. CASE items' = items
        BY <4>1, Zenon
      <4>2. CASE items' # items
        <5>1. PICK k : FiledUnder(t, k)
          BY <4>2, AddedItems, Zenon
        <5> QED
          BY <2>1, <5>1, Zenon DEF FiledUnder
      <4> QED
        BY <4>1, <4>2, Zenon
    <3>2. items[key] \subseteq Sid /\ IsFiniteSet(items[key])
      BY <2>1, Zenon DEF Table
    <3>3. IsFiniteSet(items[key] \cup {t})
      BY <3>2, FS_AddElement, Zenon
    <3> QED
      BY <3>1, <3>2, <3>3, Zenon
  <2>2. CASE key \notin DOMAIN items
    <3>1. items'[key] = {t}
      <4>1. items' # items
        BY <1>4, <2>2, Zenon
      <4>2. PICK k : FiledUnder(t, k)
        BY <4>1, AddedItems, Zenon
      <4> QED
        BY <1>4, <2>2, <4>2, Zenon DEF FiledUnder
    <3>2. IsFiniteSet({t})
      BY FS_Singleton, Zenon
    <3> QED
      BY <3>1, <3>2, Zenon
  <2> QED
    BY <2>1, <2>2, Zenon
<1> QED
  BY <1>1, <1>2, <1>3, <1>4, Zenon DEF Table

(* What _remove_item and _remove_group do to the entries.                  *)
LEMMA RemovedEntry ==
  ASSUME Table, NEW t \in Sid, NEW timeout \in BOOLEAN, NEW extra, Removed(t, timeout, extra)
  PROVE  /\ entry' \in [Sid -> EntryType]
         /\ \A m \in Sid : entry'[m].where = IF m \in Found(t) THEN "freed" ELSE entry[m].where
         /\ \A m \in Sid : entry'[m].key_idx = entry[m].key_idx
         /\ \A m \in Sid : entry'[m].handlers =>
              entry[m].handlers /\ (m \in Going(t) /\ entry[t].grouped => m[2] = 0)
         /\ \A m \in Sid : entry'[m].grouped = (entry[m].grouped /\ m \notin Going(t))
         /\ \A m \in Sid : entry'[m].timer => entry[m].timer /\ m \notin Found(t)
<1>1. entry \in [Sid -> EntryType] /\ Found(t) \subseteq Going(t)
  BY Zenon DEF Table, Found
<1>2. PICK h : h = [m \in Going(t) |-> IF entry[t].grouped THEN KeepsHandler(m) ELSE entry[m].handlers]
  BY Zenon
<1>3. PICK k : k = [m \in Going(t) |-> TimerKept(t, m, timeout)]
  BY Zenon
<1>4. Going(t) \subseteq Sid
  BY Zenon DEF Going, Members
<1>5. ASSUME NEW m \in Going(t)
      PROVE  h[m] \in BOOLEAN /\ (h[m] => entry[m].handlers /\ (entry[t].grouped => m[2] = 0))
  <2>1. h[m] = IF entry[t].grouped THEN KeepsHandler(m) ELSE entry[m].handlers
    BY <1>2, Zenon
  <2>2. entry[m].handlers \in BOOLEAN
    BY <1>1, <1>4, Zenon DEF EntryType
  <2> QED
    BY <2>1, <2>2, Zenon DEF KeepsHandler
<1>6. ASSUME NEW m \in Going(t)
      PROVE  k[m] \in BOOLEAN /\ (k[m] => entry[m].timer /\ m \notin Found(t))
  <2>1. k[m] = (entry[m].timer /\ m \notin Found(t) /\ ~(timeout /\ m = t))
    BY <1>3, Zenon DEF TimerKept
  <2> QED
    BY <2>1, Zenon
<1>7. entry' = [m \in Sid |->
                  IF m \in Going(t)
                  THEN [where    |-> IF m \in Found(t) THEN "freed" ELSE entry[m].where,
                        key_idx  |-> entry[m].key_idx,
                        handlers |-> h[m],
                        grouped  |-> FALSE,
                        timer    |-> k[m]]
                  ELSE entry[m]]
  BY <1>2, <1>3, Zenon DEF Removed
<1>8. entry' \in [Sid -> EntryType]
  BY <1>1, <1>5, <1>6, <1>7, Zenon DEF EntryType, Where
<1>9. ASSUME NEW m \in Going(t)
      PROVE  /\ entry'[m].where = IF m \in Found(t) THEN "freed" ELSE entry[m].where
             /\ entry'[m].key_idx = entry[m].key_idx
             /\ entry'[m].handlers = h[m] /\ entry'[m].grouped = FALSE /\ entry'[m].timer = k[m]
  BY <1>4, <1>7, Zenon
<1>10. \A m \in Sid \ Going(t) : entry'[m] = entry[m] /\ m \notin Found(t)
  BY <1>1, <1>7, Zenon
<1>11. \A m \in Sid : entry[m].grouped \in BOOLEAN
  BY <1>1, Zenon DEF EntryType
<1>12. \A m \in Sid : entry'[m].where = IF m \in Found(t) THEN "freed" ELSE entry[m].where
  BY <1>9, <1>10, Zenon
<1>13. \A m \in Sid : entry'[m].key_idx = entry[m].key_idx
  BY <1>9, <1>10, Zenon
<1>14. ASSUME NEW m \in Sid
       PROVE  /\ entry'[m].handlers =>
                   entry[m].handlers /\ (m \in Going(t) /\ entry[t].grouped => m[2] = 0)
              /\ entry'[m].timer => entry[m].timer /\ m \notin Found(t)
  BY <1>5, <1>6, <1>9, <1>10, Zenon
<1>15. \A m \in Sid : entry'[m].grouped = (entry[m].grouped /\ m \notin Going(t))
  BY <1>9, <1>10, <1>11, Zenon
<1> QED
  BY <1>8, <1>12, <1>13, <1>14, <1>15, Zenon

(* The handlers a timeout runs can be counted.                             *)
LEMMA TimedOutCount ==
  ASSUME NEW t \in Sid, NEW h
  PROVE  IsFiniteSet({m \in Found(t) : h[m]}) /\ Cardinality({m \in Found(t) : h[m]}) \in Nat
<1>1. IsFiniteSet(Members(t[1])) /\ IsFiniteSet({t})
  BY SidPair, MembersFinite, FS_Singleton, Zenon
<1>2. {m \in Found(t) : h[m]} \subseteq Members(t[1]) \/ {m \in Found(t) : h[m]} \subseteq {t}
  BY Zenon DEF Found, Going
<1>3. IsFiniteSet({m \in Found(t) : h[m]})
  BY <1>1, <1>2, FS_Subset, Zenon
<1> QED
  BY <1>3, FS_CardinalityType, Zenon

(* _remove_item keeps the types, and stops the timers of what it frees.    *)
LEMMA RemovedTable ==
  ASSUME Table, NEW t \in Sid, NEW timeout \in BOOLEAN, NEW extra \in Nat, Removed(t, timeout, extra)
  PROVE  Table'
<1>1. entry' \in [Sid -> EntryType] /\ TimersAreLive'
  BY RemovedEntry, Zenon DEF Table, TimersAreLive
<1>2. group' \in [Group -> {"none", "live", "freed"}]
  <2>1. PICK g \in Group : g = t[1]
    BY SidPair, Zenon
  <2>2. group' = [group EXCEPT ![g] = "freed"] \/ group' = group
    BY <2>1, Zenon DEF Removed
  <2> QED
    BY <2>2, Zenon DEF Table
<1>3. ran' \in [Group -> Nat]
  <2>1. PICK h : h = [m \in Going(t) |-> IF entry[t].grouped THEN KeepsHandler(m) ELSE entry[m].handlers]
    BY Zenon
  <2>2. PICK n \in Nat : n = Cardinality({m \in Found(t) : h[m]})
    BY TimedOutCount, Zenon
  <2>3. ran' = [ran EXCEPT ![t[1]] = @ + extra + IF timeout THEN n ELSE 0]
    BY <2>1, <2>2, Zenon DEF Removed
  <2>4. \A n1, n2, n3 \in Nat : n1 + n2 + n3 \in Nat
    OBVIOUS
  <2> QED
    BY <2>2, <2>3, <2>4, SidPair, Zenon DEF Table
<1>4. ASSUME NEW key \in DOMAIN items' PROVE items'[key] \subseteq Sid /\ IsFiniteSet(items'[key])
  <2>1. key \in DOMAIN items /\ items'[key] = items[key] \ Found(t)
    BY <1>4, Zenon DEF Removed
  <2>2. items[key] \subseteq Sid /\ IsFiniteSet(items[key]) /\ items'[key] \subseteq items[key]
    BY <2>1, Zenon DEF Table
  <2>3. IsFiniteSet(items'[key])
    BY <2>2, FS_Subset, Zenon
  <2> QED
    BY <2>2, <2>3, Zenon
<1> QED
  BY <1>1, <1>2, <1>3, <1>4, Zenon DEF Table

(* The loop that quits frees sets, and no items.                           *)
LEMMA QuitEntry ==
  ASSUME Table, DoQuit
  PROVE  /\ group' = group /\ ran' = ran
         /\ entry' \in [Sid -> EntryType]
         /\ \A m \in Sid : entry'[m].where = entry[m].where
                           \/ (entry'[m].where = "stale" /\ \E key \in DOMAIN items : m \in items[key])
         /\ \A m \in Sid : \A key \in DOMAIN items :
              m \in items[key] /\ entry'[m].where # "stale" => key \in DOMAIN items'
         /\ \A m \in Sid : \A key \in DOMAIN items' : m \in items[key] => entry'[m].where = entry[m].where
                                                     \/ \E f \in DOMAIN items \ DOMAIN items' : m \in items[f]
         /\ \A m \in Sid : /\ entry'[m].key_idx = entry[m].key_idx
                           /\ entry'[m].handlers = entry[m].handlers
                           /\ entry'[m].grouped = entry[m].grouped
                           /\ entry'[m].timer = entry[m].timer
         /\ DOMAIN items' \subseteq DOMAIN items
         /\ \A key \in DOMAIN items' : items'[key] = items[key]
<1>1. PICK D \in SUBSET DOMAIN items :
        /\ items' = [key \in DOMAIN items \ D |-> items[key]]
        /\ entry' = [t \in Sid |-> IF \E key \in D : t \in items[key]
                                   THEN [entry[t] EXCEPT !.where = "stale"] ELSE entry[t]]
  BY Zenon DEF DoQuit
<1>2. group' = group /\ ran' = ran /\ entry \in [Sid -> EntryType]
  BY Zenon DEF DoQuit, Table
<1>3. entry' \in [Sid -> EntryType]
  BY <1>1, <1>2, Zenon DEF EntryType, Where
<1> QED
  BY <1>1, <1>2, <1>3 DEF EntryType

(* So the types are kept, and the timers are those they were.              *)
LEMMA QuitTable ==
  ASSUME Table, DoQuit
  PROVE  Table'
<1>1. group' \in [Group -> {"none", "live", "freed"}] /\ ran' \in [Group -> Nat]
  BY QuitEntry, Zenon DEF Table
<1>2. entry' \in [Sid -> EntryType]
  BY QuitEntry, Zenon
<1>3. TimersAreLive'
  BY QuitEntry, Zenon DEF Table, TimersAreLive
<1>4. \A key \in DOMAIN items' : items'[key] \subseteq Sid /\ IsFiniteSet(items'[key])
  BY QuitEntry, Zenon DEF Table
<1> QED
  BY <1>1, <1>2, <1>3, <1>4, Zenon DEF Table

(* The item a thread pushes says that its template is of a group.          *)
LEMMA PushedEntry ==
  ASSUME Table, Inv, NEW c \in Caller, QuePush(c)
  PROVE  \/ entry' = entry
         \/ \E t \in Sid : Item(c) = Reg(t) /\ entry' = [entry EXCEPT ![t].grouped = TRUE]
<1>1. CASE Item(c).type # "REG"
  BY <1>1, Zenon DEF QuePush
<1>2. CASE Item(c).type = "REG"
  <2>1. Item(c) \in TodoItem
    BY DEF QuePush, Ready, Item, Inv, QueInv, CallerInv
  <2>2. PICK t \in Sid : Item(c) = Reg(t)
    BY <1>2, <2>1 DEF TodoItem, QueItem, Reg, End, Unreg, Process, Execute, Heartbeat, Tquit
  <2>3. entry' = [entry EXCEPT ![t].grouped = TRUE]
    BY <1>2, <2>2 DEF QuePush, Reg
  <2> QED
    BY <2>2, <2>3, Zenon
<1> QED
  BY <1>1, <1>2, Zenon

(* A push marks at most its own template, as one of its group.             *)
LEMMA PushTable ==
  ASSUME Table, Inv, NEW c \in Caller, QuePush(c)
  PROVE  Table'
<1>1. UNCHANGED <<group, items, ran>>
  BY Zenon DEF QuePush
<1>2. entry' \in [Sid -> EntryType] /\ TimersAreLive'
  <2>1. CASE entry' = entry
    BY <2>1, Zenon DEF Table, TimersAreLive
  <2>2. CASE entry' # entry
    <3>1. PICK t \in Sid : entry' = [entry EXCEPT ![t].grouped = TRUE]
      BY <2>2, PushedEntry, Zenon
    <3>2. entry' \in [Sid -> EntryType]
      <4>1. "new" \in Where /\ 0 \in Nat /\ TRUE \in BOOLEAN
        BY Zenon DEF Where
      <4> QED
        BY <3>1, <4>1, FieldsSet, Zenon DEF Table
    <3>3. TimersAreLive'
      BY <3>1, Zenon DEF Table, EntryType, TimersAreLive
    <3> QED
      BY <3>2, <3>3, Zenon
  <2> QED
    BY <2>1, <2>2, Zenon
<1> QED
  BY <1>1, <1>2, Zenon DEF Table

(* The template a REG item is for.                                         *)
LEMMA RegisteredSid ==
  ASSUME Inv, DoReg
  PROVE  Head(que).sid \in Sid /\ Head(que) = Reg(Head(que).sid)
<1>1. Head(que) \in QueItem /\ Head(que).type = "REG"
  BY DEF DoReg, QuePop, Inv, QueInv
<1>2. PICK t \in Sid : Head(que) = Reg(t)
  BY <1>1 DEF QueItem, Reg, Unreg, Process, Execute, Heartbeat, Tquit
<1> QED
  BY <1>2 DEF Reg

(* What the callbacks that end a template do to the table.                 *)
LEMMA RemoveSteps ==
  ASSUME NEW t \in Sid, Visit(t) \/ TimeoutCb(t)
  PROVE  \/ UNCHANGED table
         \/ \E timeout \in BOOLEAN, extra \in {0, 1} : Removed(t, timeout, extra)
<1>1. CASE TimeoutCb(t)
  BY <1>1, Zenon DEF TimeoutCb, Remove
<1>2. CASE Visit(t)
  <2>1. CASE UNCHANGED table
    BY <2>1, Zenon
  <2>2. CASE ~(UNCHANGED table)
    <3>1. Remove(t, FALSE, IF entry[t].handlers THEN 1 ELSE 0)
      BY <1>2, <2>2, Zenon DEF Visit, table
    <3>2. Removed(t, FALSE, IF entry[t].handlers THEN 1 ELSE 0)
      BY <2>2, <3>1, Zenon DEF Remove
    <3>3. PICK x \in {0, 1} : x = IF entry[t].handlers THEN 1 ELSE 0
      BY Zenon
    <3> QED
      BY <3>2, <3>3, Zenon
  <2> QED
    BY <2>1, <2>2, Zenon
<1> QED
  BY <1>1, <1>2, Zenon

(* Every step keeps the table in order.                                    *)
LEMMA NextTable ==
  ASSUME Table, Inv, [Next]_vars
  PROVE  Table'
<1>1. CASE UNCHANGED table
  BY <1>1, Zenon DEF table, Table, TimersAreLive
<1>2. CASE DoReg
  <2>1. AddTemplate(Head(que).sid)
    BY <1>2, Zenon DEF DoReg
  <2> QED
    BY <1>2, <2>1, RegisteredSid, AddTable, Zenon
<1>3. CASE DoQuit
  BY <1>3, QuitTable, Zenon
<1>4. ASSUME NEW t \in Sid, Visit(t) \/ TimeoutCb(t) PROVE Table'
  <2>1. CASE UNCHANGED table
    BY <1>1, <2>1, Zenon
  <2>2. CASE ~(UNCHANGED table)
    <3>1. PICK timeout \in BOOLEAN, extra \in {0, 1} : Removed(t, timeout, extra)
      BY <1>4, <2>2, RemoveSteps, Zenon
    <3>2. extra \in Nat
      OBVIOUS
    <3> QED
      BY <3>1, <3>2, RemovedTable, Zenon
  <2> QED
    BY <2>1, <2>2, Zenon
<1>5. ASSUME NEW c \in Caller, QuePush(c) PROVE Table'
  BY <1>5, PushTable, Zenon
<1>6. ASSUME NEW c \in Caller, NEW g \in Group, RegGroup(c, g) PROVE Table'
  <2>1. group' = [group EXCEPT ![g] = "live"] /\ UNCHANGED <<entry, items, ran>>
    BY <1>6, Zenon DEF RegGroup, Call
  <2>2. group' \in [Group -> {"none", "live", "freed"}]
    BY <2>1, Zenon DEF Table
  <2> QED
    BY <2>1, <2>2, Zenon DEF Table, TimersAreLive
<1>7. CASE ReadPipe \/ HeartbeatCb \/ HeartbeatByte \/ Exit \/ DoUnreg \/ DoExecute \/ DoHeartbeat
            \/ DoProcess \/ NextField
  BY <1>1, <1>7, Zenon
     DEF ReadPipe, HeartbeatCb, HeartbeatByte, Exit, DoUnreg, DoExecute, DoHeartbeat, DoProcess,
         NextField, table
<1>8. ASSUME NEW t \in Sid, FreedItemRead(t) PROVE Table'
  BY <1>1, <1>8, Zenon DEF FreedItemRead, table
<1>9. ASSUME NEW c \in Caller, WriteByte(c) \/ EndGroup(c) \/ FreedListRead(c) \/ Submit(c) \/ Stop(c)
      PROVE  Table'
  <2>1. UNCHANGED table
    BY <1>9, Zenon DEF WriteByte, EndGroup, FreedListRead, Submit, Stop, Call, table
  <2> QED
    BY <1>1, <2>1, Zenon
<1> QED
  BY <1>1, <1>2, <1>3, <1>4, <1>5, <1>6, <1>7, <1>8, <1>9, Zenon
     DEF Next, Loop, Return, vars, table

(* Every step keeps the counters within their bounds.                      *)
LEMMA NextBounds ==
  ASSUME Bounds, Inv, [Next]_vars
  PROVE  Bounds'
<1> USE DispatcherAssumption
<1>1. CASE ReadPipe
  <2>1. PICK n : n = Min({pipe, BATCH_SZ})
    BY Zenon
  <2>2. pipe \in Nat /\ BATCH_SZ \in Nat
    BY Zenon DEF Inv, QueInv
  <2>3. n \in Nat /\ n <= pipe /\ n <= BATCH_SZ
    BY <2>1, <2>2 DEF Min
  <2>4. pipe' = pipe - n /\ loop' = Batch(n) /\ UNCHANGED <<heart, quit, calls, crashed>>
    BY <1>1, <2>1, Zenon DEF ReadPipe
  <2> QED
    BY <2>3, <2>4 DEF Bounds, Batch
<1>2. CASE HeartbeatCb \/ HeartbeatByte \/ Exit
  <2>1. UNCHANGED <<quit, calls, crashed>> /\ (heart' = heart \/ heart' = FALSE)
    BY <1>2, Zenon DEF HeartbeatCb, HeartbeatByte, Exit
  <2>2. pipe' \in 0 .. PipeSize /\ loop'.n \in 0 .. BATCH_SZ
    BY <1>2 DEF HeartbeatCb, HeartbeatByte, Exit, Bounds, Poll, Outside
  <2> QED
    BY <2>1, <2>2, Zenon DEF Bounds
<1>3. ASSUME loop.at \in {"batch", "process"}, Done \/ \E o, k, array : InProcess(o, k, array)
      PROVE  loop'.n \in 0 .. BATCH_SZ
  <2>1. loop.n \in Nat \ {0} /\ loop.n <= BATCH_SZ
    BY <1>3 DEF Inv, QueInv, LoopInv, Bounds
  <2> QED
    BY <1>3, <2>1 DEF Done, Batch, InProcess
<1>4. CASE DoReg \/ DoUnreg \/ DoExecute \/ DoHeartbeat \/ DoQuit \/ DoProcess
  <2>1. loop.at = "batch" /\ UNCHANGED <<pipe, calls>>
        /\ (Done \/ \E o, k, array : InProcess(o, k, array))
    BY <1>4, Zenon DEF DoReg, DoUnreg, DoExecute, DoHeartbeat, DoQuit, DoProcess, QuePop
  <2>2. UNCHANGED crashed /\ (heart' = heart \/ heart' = TRUE) /\ (quit' = quit \/ quit' = "yes")
    BY <1>4, Zenon DEF DoReg, DoUnreg, DoExecute, DoHeartbeat, DoQuit, DoProcess
  <2>3. loop'.n \in 0 .. BATCH_SZ
    BY <1>3, <2>1, Zenon
  <2> QED
    BY <2>1, <2>2, <2>3, Zenon DEF Bounds
<1>5. CASE NextField
  <2>1. loop.at = "process" /\ UNCHANGED <<pipe, calls, heart, quit, crashed>>
        /\ (Done \/ \E o, k, array : InProcess(o, k, array))
    BY <1>5, Zenon DEF NextField
  <2>2. loop'.n \in 0 .. BATCH_SZ
    BY <1>3, <2>1, Zenon
  <2> QED
    BY <2>1, <2>2, Zenon DEF Bounds
<1>6. ASSUME NEW t \in Sid, Visit(t) PROVE Bounds'
  <2>1. loop.at = "process" /\ UNCHANGED <<pipe, calls, heart, quit>>
        /\ (crashed' = crashed \/ crashed' = TRUE)
    BY <1>6, Zenon DEF Visit, Remove
  <2>2. Done \/ \E o, k, array : InProcess(o, k, array)
    BY <1>6, Zenon DEF Visit
  <2>3. loop'.n \in 0 .. BATCH_SZ
    BY <1>3, <2>1, <2>2, Zenon
  <2> QED
    BY <2>1, <2>3, Zenon DEF Bounds
<1>7. ASSUME NEW t \in Sid, TimeoutCb(t) \/ FreedItemRead(t) PROVE Bounds'
  BY <1>7, Zenon DEF TimeoutCb, FreedItemRead, Remove, Bounds
<1>8. ASSUME NEW c \in Caller, Return(c) \/ FreedListRead(c) PROVE Bounds'
  <2>1. UNCHANGED <<loop, heart, quit, calls>> /\ (crashed' = crashed \/ crashed' = TRUE)
    BY <1>8, Zenon DEF Return, QuePush, WriteByte, EndGroup, FreedListRead
  <2>2. pipe' \in 0 .. PipeSize
    BY <1>8 DEF Return, QuePush, WriteByte, EndGroup, FreedListRead, Bounds
  <2> QED
    BY <2>1, <2>2, Zenon DEF Bounds
<1>9. ASSUME NEW c \in Caller, Submit(c) \/ Stop(c) PROVE Bounds'
  <2>1. UNCHANGED <<pipe, loop, heart, crashed>> /\ (quit' = quit \/ quit' = "asked")
    BY <1>9, Zenon DEF Submit, Stop, Call
  <2>2. calls' \in 0 .. MaxCalls
    BY <1>9 DEF Submit, Stop, Call, Bounds
  <2> QED
    BY <2>1, <2>2, Zenon DEF Bounds
<1>10. ASSUME NEW c \in Caller, NEW g \in Group, RegGroup(c, g) PROVE Bounds'
  BY <1>10, Zenon DEF RegGroup, Call, Bounds
<1>11. CASE UNCHANGED vars
  BY <1>11, Zenon DEF vars, Bounds
<1> QED
  BY <1>1, <1>2, <1>4, <1>5, <1>6, <1>7, <1>8, <1>9, <1>10, <1>11, Zenon DEF Next, Loop

(* The table and the counters at the start.                                *)
LEMMA InitTable == Init => Table /\ Bounds
<1> SUFFICES ASSUME Init PROVE Table /\ Bounds
  BY Zenon
<1>1. entry \in [Sid -> EntryType] /\ TimersAreLive
  BY Zenon DEF Init, NewEntry, EntryType, Where, TimersAreLive
<1>2. group \in [Group -> {"none", "live", "freed"}] /\ ran \in [Group -> Nat] /\ DOMAIN items = {}
  BY Zenon DEF Init
<1> QED
  <2>1. Table
    BY <1>1, <1>2, Zenon DEF Table
  <2>2. pipe \in 0 .. PipeSize /\ loop.n \in 0 .. BATCH_SZ /\ calls \in 0 .. MaxCalls
    BY DispatcherAssumption DEF Init, Poll, Outside
  <2> QED
    BY <2>1, <2>2, Zenon DEF Bounds, Init

(* The dispatcher's variables keep their types: in particular a batch      *)
(* never holds more than BATCH_SZ pops, the pipe never more than it can,   *)
(* and every template in the table is one a group was made with.           *)
THEOREM DispatcherTypes == Spec => []TypeOK
<1>1. Init => Inv /\ Table /\ Bounds
  BY InitInv, InitTable, Zenon
<1>2. Inv /\ Table /\ Bounds /\ [Next]_vars => (Inv /\ Table /\ Bounds)'
  BY NextInv, NextTable, NextBounds, Zenon
<1>3. Inv /\ Table /\ Bounds => TypeOK
  BY Zenon DEF Inv, QueInv, CallerInv, LoopInv, TodoItem, Table, EntryType, Bounds, TypeOK
<1> QED
  BY <1>1, <1>2, <1>3, PTL DEF Spec

(* _remove_item and timeout_del: no timer is left running for an item that *)
(* was freed, whichever of match and timeout comes first.                  *)
THEOREM TimersOutliveNothing == Spec => []TimersAreLive
<1>1. Init => Inv /\ Table
  BY InitInv, InitTable, Zenon
<1>2. Inv /\ Table /\ [Next]_vars => (Inv /\ Table)'
  BY NextInv, NextTable, Zenon
<1>3. Table => TimersAreLive
  BY Zenon DEF Table
<1> QED
  BY <1>1, <1>2, <1>3, PTL DEF Spec

-----------------------------------------------------------------------------
(* The templates of a group go from the thread to the queue and from there *)
(* to the table, each once and the first one first.                        *)

(* What a thread has still to push: the item it owes a byte for is pushed. *)
Rest(p) == IF p.due THEN Tail(p.todo) ELSE p.todo

Regs(q) == {t \in Sid : \E i \in 1 .. Len(q) : q[i] = Reg(t)}
First(t) == <<t[1], 0>>
Kin(t) == {t, First(t)}

(* The templates stand in line: none twice, and the first of a group ahead *)
(* of the others.                                                          *)
Line(q) ==
  \A i, j \in 1 .. Len(q) : \A t \in Sid : \A s \in Kin(t) : q[i] = Reg(t) /\ q[j] = Reg(s) => j <= i

(* A thread that has more than one item to push has those of a group.      *)
Whole(q) ==
  \A i, j \in 1 .. Len(q) :
    i < j => q[i].type = "REG" /\ q[j].type \in {"REG", "END"} /\ q[i].sid[1] = q[j].sid[1]

(* Q, R[c] and G are the templates in the queue, with a thread, and beyond *)
(* the queue; gr says which groups there are.                              *)
Stages(Q, R, G, gr) ==
  /\ \A t \in G : /\ gr[t[1]] # "none" /\ (\A x \in Kin(t) : x \notin Q)
                  /\ \A c \in Caller : \A x \in Kin(t) : x \notin R[c]
  /\ \A t \in Q : /\ gr[t[1]] # "none"
                  /\ \A c \in Caller : \A x \in Kin(t) : x \notin R[c]
  /\ \A c \in Caller : \A t \in R[c] : /\ gr[t[1]] # "none"
                                       /\ \A d \in Caller : \A x \in Kin(t) : x \in R[d] => c = d
  /\ \A g \in Group : \/ gr[g] = "none" \/ <<g, 0>> \in G
                      \/ gr[g] = "live" /\ (<<g, 0>> \in Q \/ \E c \in Caller : <<g, 0>> \in R[c])

Waiting == [c \in Caller |-> Regs(Rest(caller[c]))]
Beyond == {t \in Sid : entry[t].where # "new"}

InOrder ==
  /\ Line(que) /\ \A c \in Caller : Line(Rest(caller[c])) /\ Whole(caller[c].todo)
  /\ Stages(Regs(que), Waiting, Beyond, group)

(* A REG item is for one template, and no other item is a REG item.        *)
LEMMA RegIsOf ==
  /\ \A s, t : Reg(s) = Reg(t) => s = t
  /\ \A t : Reg(t).type = "REG" /\ Reg(t).sid = t
BY Zenon DEF Reg

(* The first template of a group is one of it.                             *)
LEMMA FirstIsKin ==
  /\ \A g \in Group : <<g, 0>> \in Sid
  /\ \A t \in Sid : Kin(t) \subseteq Sid /\ \A s \in Kin(t) : s[1] = t[1] /\ First(s) = First(t)
<1>1. ASSUME NEW g \in Group PROVE <<g, 0>> \in Sid
  <2>1. 0 \in 0 .. Len(Templates[g]) - 1
    BY DispatcherAssumption
  <2> QED
    BY <2>1, PairSid, Zenon
<1>2. ASSUME NEW t \in Sid PROVE Kin(t) \subseteq Sid /\ \A s \in Kin(t) : s[1] = t[1] /\ First(s) = First(t)
  BY <1>1, SidPair DEF Kin, First
<1> QED
  BY <1>1, <1>2, Zenon

(* Taking the first of a line: the rest is in line, and holds no kin.      *)
LEMMA TakeFirst ==
  ASSUME NEW S, NEW q \in Seq(S), q # <<>>, Line(q)
  PROVE  /\ Line(Tail(q))
         /\ Regs(q) = Regs(Tail(q)) \cup {t \in Sid : Head(q) = Reg(t)}
         /\ \A t \in Sid : Head(q) = Reg(t) => (\A x \in Kin(t) : x \notin Regs(Tail(q)))
<1>1. /\ Len(q) \in Nat \ {0} /\ Len(Tail(q)) = Len(q) - 1 /\ Head(q) = q[1]
      /\ \A i \in 1 .. Len(q) - 1 : Tail(q)[i] = q[i + 1]
  OBVIOUS
<1>2. Line(Tail(q))
  <2> SUFFICES ASSUME NEW i \in 1 .. Len(q) - 1, NEW j \in 1 .. Len(q) - 1, NEW t \in Sid, NEW s \in Kin(t),
                      Tail(q)[i] = Reg(t), Tail(q)[j] = Reg(s)
               PROVE  j <= i
    BY <1>1, Zenon DEF Line
  <2>1. q[i + 1] = Reg(t) /\ q[j + 1] = Reg(s) /\ i + 1 \in 1 .. Len(q) /\ j + 1 \in 1 .. Len(q)
    BY <1>1
  <2>2. j + 1 <= i + 1
    BY <2>1, Zenon DEF Line
  <2> QED
    BY <2>2
<1>3. ASSUME NEW t \in Sid, t \in Regs(q), Head(q) # Reg(t) PROVE t \in Regs(Tail(q))
  <2>1. PICK i \in 1 .. Len(q) : q[i] = Reg(t)
    BY <1>3, Zenon DEF Regs
  <2>2. i # 1
    BY <1>1, <1>3, <2>1, Zenon
  <2>3. i - 1 \in 1 .. Len(Tail(q)) /\ Tail(q)[i - 1] = q[i]
    BY <1>1, <2>2
  <2> QED
    BY <2>1, <2>3, Zenon DEF Regs
<1>4. ASSUME NEW t \in Sid, t \in Regs(Tail(q)) PROVE \E i \in 2 .. Len(q) : q[i] = Reg(t)
  <2>1. PICK i \in 1 .. Len(q) - 1 : Tail(q)[i] = Reg(t)
    BY <1>1, <1>4, Zenon DEF Regs
  <2>2. i + 1 \in 2 .. Len(q) /\ q[i + 1] = Reg(t)
    BY <1>1, <2>1
  <2> QED
    BY <2>2, Zenon
<1>5. Regs(Tail(q)) \subseteq Regs(q)
  BY <1>1, <1>4 DEF Regs
<1>6. \A t \in Sid : Head(q) = Reg(t) => t \in Regs(q)
  BY <1>1 DEF Regs
<1>7. Regs(q) = Regs(Tail(q)) \cup {t \in Sid : Head(q) = Reg(t)}
  <2>1. Regs(q) \subseteq Sid
    BY Zenon DEF Regs
  <2> QED
    BY <1>3, <1>5, <1>6, <2>1, Zenon
<1>8. ASSUME NEW t \in Sid, Head(q) = Reg(t), NEW s \in Kin(t), s \in Regs(Tail(q)) PROVE FALSE
  <2>1. s \in Sid
    BY <1>8, Zenon DEF Regs
  <2>2. PICK j \in 2 .. Len(q) : q[j] = Reg(s)
    BY <1>4, <1>8, <2>1, Zenon
  <2>3. 1 \in 1 .. Len(q) /\ q[1] = Reg(t) /\ j \in 1 .. Len(q)
    BY <1>1, <1>8
  <2>4. j <= 1
    BY <1>8, <2>2, <2>3, Zenon DEF Line
  <2> QED
    BY <2>2, <2>4
<1> QED
  BY <1>2, <1>7, <1>8, Zenon

(* An item that may be put last: nobody who comes after it is ahead.       *)
MayFollow(q, x) == \A t \in Sid : x = Reg(t) => \A s \in Regs(q) : t \notin Kin(s)

(* Putting a template last keeps the line, if it may follow.               *)
LEMMA PutLast ==
  ASSUME NEW S, NEW q \in Seq(S), NEW x \in S, Line(q), MayFollow(q, x)
  PROVE  Line(Append(q, x)) /\ Regs(Append(q, x)) = Regs(q) \cup {t \in Sid : x = Reg(t)}
<1> DEFINE p == Append(q, x)
           n == Len(q) + 1
<1>1. /\ Len(p) = n /\ p[n] = x /\ n \in Nat \ {0} /\ 1 .. n = 1 .. Len(q) \cup {n}
      /\ \A i \in 1 .. Len(q) : p[i] = q[i]
  OBVIOUS
<1> HIDE DEF p, n
<1>2. Line(p)
  <2> SUFFICES ASSUME NEW i \in 1 .. n, NEW j \in 1 .. n, NEW t \in Sid, NEW s \in Kin(t),
                      p[i] = Reg(t), p[j] = Reg(s)
               PROVE  j <= i
    BY <1>1, Zenon DEF Line
  <2>1. CASE i = n
    BY <1>1, <2>1
  <2>2. CASE i \in 1 .. Len(q) /\ j \in 1 .. Len(q)
    BY <1>1, <2>2, Zenon DEF Line
  <2>3. CASE i \in 1 .. Len(q) /\ j = n
    <3>1. t \in Regs(q) /\ x = Reg(s)
      BY <1>1, <2>3, Zenon DEF Regs
    <3> QED
      BY <3>1, FirstIsKin, Zenon DEF MayFollow
  <2> QED
    BY <1>1, <2>1, <2>2, <2>3, Zenon
<1>3. Regs(p) = Regs(q) \cup {t \in Sid : x = Reg(t)}
  BY <1>1, Zenon DEF Regs
<1> QED
  BY <1>2, <1>3, Zenon DEF p

(* A template goes from a thread to the queue.                             *)
LEMMA ToQueue ==
  ASSUME NEW Q \in SUBSET Sid, NEW G \in SUBSET Sid, NEW R \in [Caller -> SUBSET Sid],
         NEW gr, Stages(Q, R, G, gr),
         NEW c \in Caller, NEW t \in R[c], NEW D \in SUBSET Sid, R[c] = D \cup {t},
         (\A x \in Kin(t) : x \notin D)
  PROVE  Stages(Q \cup {t}, [R EXCEPT ![c] = D], G, gr)
<1> DEFINE P == [R EXCEPT ![c] = D]
<1>1. P[c] = D /\ \A d \in Caller : P[d] \subseteq R[d] /\ (d # c => P[d] = R[d])
  BY Zenon
<1> HIDE DEF P
<1>2. \A s \in G : /\ gr[s[1]] # "none" /\ (\A x \in Kin(s) : x \notin (Q \cup {t}))
                   /\ \A d \in Caller : \A x \in Kin(s) : x \notin P[d]
  BY <1>1, Zenon DEF Stages
<1>3. \A s \in Q : gr[s[1]] # "none" /\ \A d \in Caller : \A x \in Kin(s) : x \notin P[d]
  BY <1>1, Zenon DEF Stages
<1>4. gr[t[1]] # "none" /\ \A d \in Caller : \A x \in Kin(t) : x \notin P[d]
  BY <1>1, Zenon DEF Stages
<1>5. \A e \in Caller : \A s \in P[e] :
        gr[s[1]] # "none" /\ \A d \in Caller : \A x \in Kin(s) : x \in P[d] => e = d
  BY <1>1, Zenon DEF Stages
<1>6. \A g \in Group :
        \/ gr[g] = "none" \/ <<g, 0>> \in G
        \/ gr[g] = "live" /\ (<<g, 0>> \in Q \cup {t} \/ \E d \in Caller : <<g, 0>> \in P[d])
  BY <1>1, Zenon DEF Stages
<1> QED
  BY <1>2, <1>3, <1>4, <1>5, <1>6, Zenon DEF Stages, P

(* A template goes from the queue to the table.                            *)
LEMMA ToTable ==
  ASSUME NEW Q \in SUBSET Sid, NEW G \in SUBSET Sid, NEW R \in [Caller -> SUBSET Sid],
         NEW gr, Stages(Q, R, G, gr),
         NEW t \in Q, NEW D \in SUBSET Sid, Q = D \cup {t}, (\A x \in Kin(t) : x \notin D)
  PROVE  Stages(D, R, G \cup {t}, gr)
<1>1. \A s \in G \cup {t} : /\ gr[s[1]] # "none" /\ (\A x \in Kin(s) : x \notin D)
                            /\ \A d \in Caller : \A x \in Kin(s) : x \notin R[d]
  BY Zenon DEF Stages
<1>2. \A g \in Group :
        \/ gr[g] = "none" \/ <<g, 0>> \in G \cup {t}
        \/ gr[g] = "live" /\ (<<g, 0>> \in D \/ \E d \in Caller : <<g, 0>> \in R[d])
  BY Zenon DEF Stages
<1> QED
  BY <1>1, <1>2, Zenon DEF Stages

(* A thread makes a group.                                                 *)
LEMMA ToThread ==
  ASSUME NEW Q \in SUBSET Sid, NEW G \in SUBSET Sid, NEW R \in [Caller -> SUBSET Sid],
         NEW gr \in [Group -> {"none", "live", "freed"}],
         Stages(Q, R, G, gr), NEW c \in Caller, R[c] = {}, NEW g \in Group, gr[g] = "none"
  PROVE  Stages(Q, [R EXCEPT ![c] = Members(g)], G, [gr EXCEPT ![g] = "live"])
<1> DEFINE P == [R EXCEPT ![c] = Members(g)]
           ng == [gr EXCEPT ![g] = "live"]
<1>1. P[c] = Members(g) /\ \A d \in Caller : d # c => P[d] = R[d]
  BY Zenon
<1>2. ng[g] = "live" /\ \A h \in Group : h # g => ng[h] = gr[h]
  BY Zenon
<1>3. \A t \in Members(g) : t \in Sid /\ t[1] = g /\ t \notin G /\ t \notin Q
        /\ \A d \in Caller : t \notin R[d]
  <2>1. \A t \in Members(g) : t \in Sid /\ t[1] = g /\ gr[t[1]] = "none"
    BY Zenon DEF Members
  <2> QED
    BY <2>1, Zenon DEF Stages
<1>4. \A t \in Sid : t[1] \in Group /\ (t[1] # g => (\A x \in Kin(t) : x \notin Members(g)))
  BY SidPair, FirstIsKin, Zenon DEF Members
<1>5. \A t \in Members(g) : Kin(t) \subseteq Members(g)
  BY FirstIsKin, Zenon DEF Members
<1>6. <<g, 0>> \in Members(g) /\ ng[g] # "none" /\ \A h \in Group : gr[h] # "none" => ng[h] # "none"
  <2>1. <<g, 0>> \in Sid /\ <<g, 0>>[1] = g /\ "live" # "none"
    BY FirstIsKin, Zenon
  <2> QED
    BY <1>2, <2>1, Zenon DEF Members
<1>7. \A t \in Sid : t \notin Members(g) => t[1] # g
  BY Zenon DEF Members
<1> HIDE DEF P, ng
<1>8. \A t \in G \cup Q : /\ ng[t[1]] # "none"
                          /\ \A d \in Caller : \A x \in Kin(t) : x \notin P[d]
  <2>1. \A t \in G \cup Q : /\ t \in Sid /\ t \notin Members(g) /\ gr[t[1]] # "none"
                             /\ \A d \in Caller : \A x \in Kin(t) : x \notin R[d]
    BY <1>3, Zenon DEF Stages
  <2>2. \A t \in G \cup Q : t[1] \in Group /\ \A x \in Kin(t) : x \notin P[c]
    BY <1>1, <1>4, <1>7, <2>1, Zenon
  <2> QED
    BY <1>1, <1>6, <2>1, <2>2, Zenon
<1>9. ASSUME NEW e \in Caller, NEW t \in P[e]
      PROVE  ng[t[1]] # "none" /\ \A d \in Caller : \A x \in Kin(t) : x \in P[d] => e = d
  <2>1. CASE e = c
    BY <1>1, <1>3, <1>5, <1>6, <2>1, Zenon
  <2>2. CASE e # c
    <3>1. t \in R[e] /\ t \in Sid
      BY <1>1, <2>2, Zenon
    <3>2. t \notin Members(g) /\ gr[t[1]] # "none" /\ \A d \in Caller : \A x \in Kin(t) : x \in R[d] => e = d
      BY <1>3, <3>1, Zenon DEF Stages
    <3>3. t[1] \in Group /\ \A x \in Kin(t) : x \notin P[c]
      BY <1>1, <1>4, <1>7, <3>1, <3>2, Zenon
    <3> QED
      BY <1>1, <1>6, <3>2, <3>3, Zenon
  <2> QED
    BY <2>1, <2>2, Zenon
<1>10. \A h \in Group :
         \/ ng[h] = "none" \/ <<h, 0>> \in G
         \/ ng[h] = "live" /\ (<<h, 0>> \in Q \/ \E d \in Caller : <<h, 0>> \in P[d])
  <2>1. \A h \in Group : \A d \in Caller : <<h, 0>> \in R[d] => <<h, 0>> \in P[d]
    BY <1>1, Zenon
  <2>2. \A h \in Group : h # g =>
          \/ ng[h] = "none" \/ <<h, 0>> \in G
          \/ ng[h] = "live" /\ (<<h, 0>> \in Q \/ \E d \in Caller : <<h, 0>> \in P[d])
    BY <1>2, <2>1, Zenon DEF Stages
  <2>3. ng[g] = "live" /\ <<g, 0>> \in P[c]
    BY <1>1, <1>2, <1>6, Zenon
  <2> QED
    BY <2>2, <2>3, Zenon
<1>11. \A t \in G : (\A x \in Kin(t) : x \notin Q)
  BY Zenon DEF Stages
<1> QED
  BY <1>8, <1>9, <1>10, <1>11, Zenon DEF Stages, P, ng

(* The list of a group is freed; a thread drops what it had of such groups.*)
LEMMA ToFreed ==
  ASSUME NEW Q \in SUBSET Sid, NEW G \in SUBSET Sid, NEW R \in [Caller -> SUBSET Sid],
         NEW gr \in [Group -> {"none", "live", "freed"}],
         Stages(Q, R, G, gr)
  PROVE  /\ \A g \in Group : <<g, 0>> \in G => Stages(Q, R, G, [gr EXCEPT ![g] = "freed"])
         /\ \A c \in Caller : (\A t \in R[c] : gr[t[1]] = "freed") => Stages(Q, [R EXCEPT ![c] = {}], G, gr)
<1>1. ASSUME NEW g \in Group, <<g, 0>> \in G PROVE Stages(Q, R, G, [gr EXCEPT ![g] = "freed"])
  <2> DEFINE ng == [gr EXCEPT ![g] = "freed"]
  <2>1. ng[g] = "freed" /\ \A h \in Group : h # g => ng[h] = gr[h]
    BY Zenon
  <2>2. \A h \in Group : gr[h] # "none" => ng[h] # "none"
    <3>1. "freed" # "none"
      BY Zenon
    <3> QED
      BY <2>1, <3>1, Zenon
  <2> HIDE DEF ng
  <2>3. \A t \in Sid : t[1] \in Group
    BY SidPair, Zenon
  <2>4. \A t \in G \cup Q : ng[t[1]] # "none"
    BY <2>2, <2>3, Zenon DEF Stages
  <2>5. \A c \in Caller : \A t \in R[c] : ng[t[1]] # "none"
    BY <2>2, <2>3, Zenon DEF Stages
  <2>6. \A h \in Group :
          \/ ng[h] = "none" \/ <<h, 0>> \in G
          \/ ng[h] = "live" /\ (<<h, 0>> \in Q \/ \E d \in Caller : <<h, 0>> \in R[d])
    BY <1>1, <2>1, Zenon DEF Stages
  <2>7. Stages(Q, R, G, ng)
    BY <2>4, <2>5, <2>6, Zenon DEF Stages
  <2> QED
    BY <2>7, Zenon DEF ng
<1>2. ASSUME NEW c \in Caller, \A t \in R[c] : gr[t[1]] = "freed"
      PROVE  Stages(Q, [R EXCEPT ![c] = {}], G, gr)
  <2> DEFINE P == [R EXCEPT ![c] = {}]
  <2>1. P[c] = {} /\ \A d \in Caller : P[d] \subseteq R[d] /\ (d # c => P[d] = R[d])
    BY Zenon
  <2>2. \A g \in Group : <<g, 0>> \in R[c] => gr[g] = "freed"
    <3>1. \A g \in Group : <<g, 0>>[1] = g
      BY Zenon
    <3> QED
      BY <1>2, <3>1, Zenon
  <2>3. "freed" # "live"
    BY Zenon
  <2> HIDE DEF P
  <2>4. \A g \in Group :
          \/ gr[g] = "none" \/ <<g, 0>> \in G
          \/ gr[g] = "live" /\ (<<g, 0>> \in Q \/ \E d \in Caller : <<g, 0>> \in P[d])
    BY <2>1, <2>2, <2>3, Zenon DEF Stages
  <2>5. Stages(Q, P, G, gr)
    BY <2>1, <2>4, Zenon DEF Stages
  <2> QED
    BY <2>5, Zenon DEF P
<1> QED
  BY <1>1, <1>2, Zenon

(* The sets Stages is about are sets of templates.                         *)
LEMMA StageTypes ==
  /\ Regs(que) \in SUBSET Sid /\ Waiting \in [Caller -> SUBSET Sid] /\ Beyond \in SUBSET Sid
  /\ \A q : Regs(q) \in SUBSET Sid
<1>1. \A q : Regs(q) \in SUBSET Sid
  BY Zenon DEF Regs
<1> QED
  BY <1>1, Zenon DEF Waiting, Beyond

(* Short sequences are in line.                                            *)
LEMMA ShortLine ==
  /\ Line(<<>>) /\ Whole(<<>>) /\ Regs(<<>>) = {}
  /\ \A x : Line(<<x>>) /\ Whole(<<x>>) /\ (x.type # "REG" => Regs(<<x>>) = {})
<1>1. Line(<<>>) /\ Whole(<<>>) /\ Regs(<<>>) = {}
  BY DEF Line, Whole, Regs
<1>2. ASSUME NEW x PROVE Line(<<x>>) /\ Whole(<<x>>)
  BY DEF Line, Whole
<1>3. ASSUME NEW x, x.type # "REG" PROVE Regs(<<x>>) = {}
  BY <1>3, RegIsOf DEF Regs
<1> QED
  BY <1>1, <1>2, <1>3, Zenon

(* Some thread has something else to push.                                 *)
LEMMA ThreadOrder ==
  ASSUME Inv, InOrder, NEW c \in Caller, NEW p, caller' = [caller EXCEPT ![c] = p],
         Line(que'), Line(Rest(p)), Whole(p.todo),
         Stages(Regs(que'), [Waiting EXCEPT ![c] = Regs(Rest(p))], Beyond', group')
  PROVE  InOrder'
<1>1. caller'[c] = p /\ \A d \in Caller : d # c => caller'[d] = caller[d]
  BY Zenon DEF Inv, QueInv, CallerInv
<1>2. \A d \in Caller : Line(Rest(caller'[d])) /\ Whole(caller'[d].todo)
  BY <1>1, Zenon DEF InOrder
<1>3. Waiting' = [Waiting EXCEPT ![c] = Regs(Rest(p))]
  <2>1. Waiting' = [d \in Caller |-> Regs(Rest(caller'[d]))]
    BY Zenon DEF Waiting
  <2>2. \A d \in Caller : Regs(Rest(caller'[d])) = IF d = c THEN Regs(Rest(p)) ELSE Regs(Rest(caller[d]))
    <3>1. \A d \in Caller : d # c => Rest(caller'[d]) = Rest(caller[d])
      BY <1>1, Zenon
    <3>2. Rest(caller'[c]) = Rest(p)
      BY <1>1, Zenon
    <3> HIDE DEF Rest
    <3> QED
      BY <3>1, <3>2
  <2>3. PICK F : F = [d \in Caller |-> Regs(Rest(caller'[d]))]
    BY Zenon
  <2>4. PICK H : H = [d \in Caller |-> Regs(Rest(caller[d]))]
    BY Zenon
  <2>5. F = [H EXCEPT ![c] = Regs(Rest(p))]
    BY <2>2, <2>3, <2>4, Zenon
  <2> QED
    BY <2>1, <2>3, <2>4, <2>5, Zenon DEF Waiting
<1> QED
  BY <1>2, <1>3, Zenon DEF InOrder

(* A call that pushes one item, no template.                               *)
LEMMA CallOrder ==
  ASSUME Inv, InOrder, NEW c \in Caller, NEW x, x.type # "REG", Call(c, <<x>>), group' = group
  PROVE  InOrder'
<1>1. PICK p : p = [todo |-> <<x>>, due |-> FALSE]
  BY Zenon
<1>2. caller' = [caller EXCEPT ![c] = p] /\ que' = que /\ entry' = entry /\ caller[c] = Idle
  BY <1>1, Zenon DEF Call
<1>3. p.todo = <<x>> /\ Rest(p) = <<x>>
  BY <1>1, Zenon DEF Rest
<1>4. Waiting[c] = {}
  <2>1. Rest(caller[c]) = <<>>
    BY <1>2 DEF Rest, Idle
  <2> QED
    BY <2>1, ShortLine, Zenon DEF Waiting
<1>5. [Waiting EXCEPT ![c] = {}] = Waiting
  BY <1>4, StageTypes, Zenon
<1> QED
  <2>1. Line(Rest(p)) /\ Whole(p.todo) /\ Regs(Rest(p)) = {}
    BY <1>3, ShortLine, Zenon
  <2>2. Stages(Regs(que), [Waiting EXCEPT ![c] = {}], Beyond, group') /\ Line(que)
    BY <1>5, Zenon DEF InOrder
  <2>3. Stages(Regs(que'), [Waiting EXCEPT ![c] = Regs(Rest(p))], Beyond', group') /\ Line(que')
    BY <1>2, <2>1, <2>2, Zenon DEF Beyond
  <2> QED
    BY <1>2, <2>1, <2>3, ThreadOrder, Zenon

(* reg_group: the templates of a new group, the first one first.           *)
LEMMA GroupLine ==
  ASSUME NEW g \in Group
  PROVE  LET q == Append([i \in 1 .. Len(Templates[g]) |-> Reg(<<g, i - 1>>)], End(g))
         IN  Line(q) /\ Whole(q) /\ Regs(q) = Members(g)
<1>1. PICK n \in Nat \ {0} : n = Len(Templates[g])
  BY DispatcherAssumption, Zenon
<1>2. PICK q : q = Append([i \in 1 .. n |-> Reg(<<g, i - 1>>)], End(g))
  BY Zenon
<1>3. /\ Len(q) = n + 1 /\ q[n + 1] = End(g)
      /\ \A i \in 1 .. n : q[i] = Reg(<<g, i - 1>>)
  <2>1. PICK S : (\A i \in 1 .. n : Reg(<<g, i - 1>>) \in S) /\ End(g) \in S
    <3>1. \A i \in 1 .. n : Reg(<<g, i - 1>>) \in {Reg(<<g, j - 1>>) : j \in 1 .. n} \cup {End(g)}
      BY Zenon
    <3>2. End(g) \in {Reg(<<g, j - 1>>) : j \in 1 .. n} \cup {End(g)}
      BY Zenon
    <3> QED
      BY <3>1, <3>2, Zenon
  <2>2. PICK r : r = [i \in 1 .. n |-> Reg(<<g, i - 1>>)]
    BY Zenon
  <2>3. r \in [1 .. n -> S]
    BY <2>1, <2>2, Zenon
  <2>4. r \in Seq(S) /\ Len(r) = n
    BY <2>3
  <2>5. \A i \in 1 .. n : r[i] = Reg(<<g, i - 1>>)
    BY <2>2, Zenon
  <2>6. PICK e \in S : e = End(g)
    BY <2>1, Zenon
  <2>7. q = Append(r, e)
    BY <1>2, <2>2, <2>6, Zenon
  <2>8. Len(q) = n + 1 /\ q[n + 1] = e /\ \A i \in 1 .. n : q[i] = r[i]
    BY <2>4, <2>7
  <2> QED
    BY <2>5, <2>6, <2>8, Zenon
<1>4. End(g).type = "END" /\ End(g).sid[1] = g
  BY Zenon DEF End
<1>5. ASSUME NEW i \in 1 .. n + 1, NEW t, q[i] = Reg(t) PROVE i \in 1 .. n /\ t = <<g, i - 1>>
  <2>1. i # n + 1
    <3>1. Reg(t).type # End(g).type
      BY <1>4, RegIsOf, Zenon
    <3> QED
      BY <1>3, <1>5, <3>1, Zenon
  <2>2. i \in 1 .. n
    BY <2>1
  <2> QED
    BY <1>3, <1>5, <2>2, RegIsOf, Zenon
<1>6. Line(q)
  <2> SUFFICES ASSUME NEW i \in 1 .. n + 1, NEW j \in 1 .. n + 1, NEW t \in Sid, NEW s \in Kin(t),
                      q[i] = Reg(t), q[j] = Reg(s)
               PROVE  j <= i
    BY <1>3, Zenon DEF Line
  <2>1. i \in 1 .. n /\ t = <<g, i - 1>> /\ s = <<g, j - 1>>
    BY <1>5, Zenon
  <2> QED
    BY <2>1 DEF Kin, First
<1>7. Whole(q)
  <2> SUFFICES ASSUME NEW i \in 1 .. n + 1, NEW j \in 1 .. n + 1, i < j
               PROVE  q[i].type = "REG" /\ q[j].type \in {"REG", "END"} /\ q[i].sid[1] = q[j].sid[1]
    BY <1>3, Zenon DEF Whole
  <2>1. i \in 1 .. n /\ (j \in 1 .. n \/ j = n + 1)
    OBVIOUS
  <2> QED
    <3>1. ASSUME NEW m \in 1 .. n PROVE q[m].type = "REG" /\ q[m].sid[1] = g
      <4>1. PICK t : t = <<g, m - 1>>
        BY Zenon
      <4>2. t[1] = g
        BY <4>1, Zenon
      <4>3. q[m] = Reg(t)
        BY <1>3, <4>1, Zenon
      <4> QED
        BY <4>2, <4>3 DEF Reg
    <3>2. CASE j \in 1 .. n
      BY <2>1, <3>1, <3>2
    <3>3. CASE j = n + 1
      <4>1. q[j].type = "END" /\ q[j].sid[1] = g
        BY <1>3, <1>4, <3>3, Zenon
      <4> QED
        BY <2>1, <3>1, <4>1, Zenon
    <3> QED
      BY <2>1, <3>2, <3>3, Zenon
<1>8. Regs(q) = Members(g)
  <2>1. ASSUME NEW t \in Regs(q) PROVE t \in Members(g)
    <3>1. PICK i \in 1 .. n + 1 : q[i] = Reg(t)
      BY <1>3, <2>1, Zenon DEF Regs
    <3>2. t = <<g, i - 1>>
      BY <1>5, <3>1, Zenon
    <3> QED
      BY <2>1, <3>2, Zenon DEF Members, Regs
  <2>2. ASSUME NEW t \in Members(g) PROVE t \in Regs(q)
    <3>1. t \in Sid /\ t[1] = g
      BY <2>2, Zenon DEF Members
    <3>2. t[2] \in 0 .. n - 1 /\ t = <<g, t[2]>>
      BY <1>1, <3>1, SidPair, Zenon
    <3>3. t[2] + 1 \in 1 .. n /\ q[t[2] + 1] = Reg(t) /\ t[2] + 1 \in 1 .. Len(q)
      BY <1>3, <3>2
    <3> QED
      BY <3>1, <3>3, Zenon DEF Regs
  <2> QED
    BY <2>1, <2>2, Zenon
<1> QED
  BY <1>1, <1>2, <1>6, <1>7, <1>8, Zenon

(* reg_group gives a thread the templates of a group that is new, first to *)
(* last.                                                                   *)
LEMMA GroupOrder ==
  ASSUME Inv, Table, InOrder, NEW c \in Caller, NEW g \in Group, RegGroup(c, g)
  PROVE  InOrder'
<1>1. PICK q : q = Append([i \in 1 .. Len(Templates[g]) |-> Reg(<<g, i - 1>>)], End(g))
  BY Zenon
<1>2. PICK p : p = [todo |-> q, due |-> FALSE]
  BY Zenon
<1>3. /\ caller' = [caller EXCEPT ![c] = p] /\ que' = que /\ entry' = entry /\ caller[c] = Idle
      /\ group[g] = "none" /\ group' = [group EXCEPT ![g] = "live"]
  BY <1>1, <1>2, Zenon DEF RegGroup, Call
<1>4. p.todo = q /\ Rest(p) = q
  BY <1>2, Zenon DEF Rest
<1>5. Line(q) /\ Whole(q) /\ Regs(q) = Members(g)
  BY <1>1, GroupLine, Zenon
<1>6. Waiting[c] = {}
  <2>1. Rest(caller[c]) = <<>>
    BY <1>3 DEF Rest, Idle
  <2> QED
    BY <2>1, ShortLine, Zenon DEF Waiting
<1>7. Stages(Regs(que), [Waiting EXCEPT ![c] = Members(g)], Beyond, [group EXCEPT ![g] = "live"])
  BY <1>3, <1>6, StageTypes, ToThread, Zenon DEF InOrder, Table
<1>8. Line(que') /\ Line(Rest(p)) /\ Whole(p.todo)
      /\ Stages(Regs(que'), [Waiting EXCEPT ![c] = Regs(Rest(p))], Beyond', group')
  BY <1>3, <1>4, <1>5, <1>7, Zenon DEF InOrder, Beyond
<1> QED
  BY <1>3, <1>8, ThreadOrder, Zenon

(* A thread that has pushed has the rest still to push.                    *)
LEMMA WholeTail ==
  ASSUME NEW S, NEW q \in Seq(S), q # <<>>, Whole(q)
  PROVE  Whole(Tail(q))
<1>1. /\ Len(q) \in Nat \ {0} /\ Len(Tail(q)) = Len(q) - 1
      /\ \A i \in 1 .. Len(q) - 1 : Tail(q)[i] = q[i + 1]
  OBVIOUS
<1> SUFFICES ASSUME NEW i \in 1 .. Len(q) - 1, NEW j \in 1 .. Len(q) - 1, i < j
             PROVE  /\ Tail(q)[i].type = "REG" /\ Tail(q)[j].type \in {"REG", "END"}
                    /\ Tail(q)[i].sid[1] = Tail(q)[j].sid[1]
  BY <1>1, Zenon DEF Whole
<1>2. i + 1 \in 1 .. Len(q) /\ j + 1 \in 1 .. Len(q) /\ i + 1 < j + 1
  BY <1>1
<1>3. q[i + 1].type = "REG" /\ q[j + 1].type \in {"REG", "END"} /\ q[i + 1].sid[1] = q[j + 1].sid[1]
  BY <1>2, Zenon DEF Whole
<1> QED
  BY <1>1, <1>3, Zenon

(* A push takes the first template of a thread to the end of the queue.    *)
LEMMA PushOrder ==
  ASSUME Inv, Table, InOrder, NEW c \in Caller, QuePush(c)
  PROVE  InOrder'
<1>1. PICK q : q = caller[c].todo
  BY Zenon
<1>2. PICK x : x = Head(q)
  BY Zenon
<1>3. PICK p : p = [todo |-> q, due |-> TRUE]
  BY Zenon
<1>4. /\ caller' = [caller EXCEPT ![c] = p] /\ que' = Append(que, x) /\ group' = group
      /\ q # <<>> /\ ~caller[c].due /\ x.type # "END"
  BY <1>1, <1>2, <1>3, Zenon DEF QuePush, Ready, Item
<1>5. q \in Seq(TodoItem) /\ que \in Seq(QueItem) /\ Rest(caller[c]) = q /\ p.todo = q /\ Rest(p) = Tail(q)
  BY <1>1, <1>3, <1>4, Zenon DEF Inv, QueInv, CallerInv, Rest
<1>6. x \in TodoItem
  BY <1>2, <1>4, <1>5
<1>7. x \in QueItem
  BY <1>4, <1>6 DEF TodoItem, End
<1>8. Line(q) /\ Whole(q) /\ Line(que) /\ Stages(Regs(que), Waiting, Beyond, group) /\ Waiting[c] = Regs(q)
  BY <1>1, <1>5, Zenon DEF InOrder, Waiting
<1>9. /\ Line(Tail(q)) /\ Regs(q) = Regs(Tail(q)) \cup {t \in Sid : x = Reg(t)}
      /\ \A t \in Sid : x = Reg(t) => \A y \in Kin(t) : y \notin Regs(Tail(q))
  <2>1. q \in Seq(TodoItem) /\ q # <<>> /\ Line(q)
    BY <1>4, <1>5, <1>8, Zenon
  <2>2. /\ Line(Tail(q)) /\ Regs(q) = Regs(Tail(q)) \cup {t \in Sid : Head(q) = Reg(t)}
        /\ \A t \in Sid : Head(q) = Reg(t) => \A y \in Kin(t) : y \notin Regs(Tail(q))
    BY <2>1, TakeFirst, Zenon
  <2> QED
    BY <1>2, <2>2, Zenon
<1>10. MayFollow(que, x)
  <2>1. \A t \in Sid : x = Reg(t) => t \in Waiting[c]
    BY <1>8, <1>9, Zenon
  <2>2. \A s \in Regs(que) : \A y \in Kin(s) : y \notin Waiting[c]
    BY <1>8, Zenon DEF Stages
  <2> QED
    BY <2>1, <2>2, Zenon DEF MayFollow
<1>11. Line(que') /\ Regs(que') = Regs(que) \cup {t \in Sid : x = Reg(t)}
  <2>1. Line(Append(que, x)) /\ Regs(Append(que, x)) = Regs(que) \cup {t \in Sid : x = Reg(t)}
    BY <1>5, <1>7, <1>8, <1>10, PutLast
  <2> QED
    BY <1>4, <2>1, Zenon
<1>12. Beyond' = Beyond
  <2>1. CASE entry' = entry
    BY <2>1, Zenon DEF Beyond
  <2>2. CASE entry' # entry
    <3>1. PICK t \in Sid : entry' = [entry EXCEPT ![t].grouped = TRUE]
      BY <2>2, PushedEntry, Zenon
    <3>2. \A m \in Sid : entry'[m].where = entry[m].where
      BY <3>1, Zenon DEF Table, EntryType
    <3> QED
      BY <3>2, Zenon DEF Beyond
  <2> QED
    BY <2>1, <2>2, Zenon
<1>13. Stages(Regs(que'), [Waiting EXCEPT ![c] = Regs(Tail(q))], Beyond', group')
  <2>1. CASE \E t \in Sid : x = Reg(t)
    <3>1. PICK t \in Sid : x = Reg(t)
      BY <2>1, Zenon
    <3>2. {s \in Sid : x = Reg(s)} = {t}
      BY <3>1, RegIsOf, Zenon
    <3>3. Stages(Regs(que) \cup {t}, [Waiting EXCEPT ![c] = Regs(Tail(q))], Beyond, group)
      <4>1. t \in Waiting[c] /\ Waiting[c] = Regs(Tail(q)) \cup {t}
              /\ \A y \in Kin(t) : y \notin Regs(Tail(q))
        BY <1>8, <1>9, <3>1, <3>2, Zenon
      <4> QED
        BY <1>8, <4>1, StageTypes, ToQueue, Zenon
    <3> QED
      BY <1>4, <1>11, <1>12, <3>2, <3>3, Zenon
  <2>2. CASE ~\E t \in Sid : x = Reg(t)
    <3>1. {s \in Sid : x = Reg(s)} = {}
      BY <2>2, Zenon
    <3>2. Regs(que') = Regs(que) /\ Waiting[c] = Regs(Tail(q))
      BY <1>8, <1>9, <1>11, <3>1, Zenon
    <3>3. [Waiting EXCEPT ![c] = Regs(Tail(q))] = Waiting
      BY <3>2, StageTypes, Zenon
    <3> QED
      BY <1>4, <1>8, <1>12, <3>2, <3>3, Zenon
  <2> QED
    BY <2>1, <2>2, Zenon
<1> QED
  BY <1>4, <1>5, <1>8, <1>9, <1>11, <1>13, ThreadOrder, Zenon

(* The byte written, the thread goes on to its next item.                  *)
LEMMA WriteOrder ==
  ASSUME Inv, InOrder, NEW c \in Caller, WriteByte(c)
  PROVE  InOrder'
<1>1. PICK q : q = caller[c].todo
  BY Zenon
<1>2. PICK p : p = [todo |-> Tail(q), due |-> FALSE]
  BY Zenon
<1>3. caller' = [caller EXCEPT ![c] = p] /\ UNCHANGED <<que, group, entry>> /\ caller[c].due
  BY <1>1, <1>2, Zenon DEF WriteByte
<1>4. q \in Seq(TodoItem) /\ q # <<>> /\ Rest(caller[c]) = Tail(q) /\ p.todo = Tail(q) /\ Rest(p) = Tail(q)
  BY <1>1, <1>2, <1>3, Zenon DEF Inv, QueInv, CallerInv, Rest
<1>5. Line(Tail(q)) /\ Whole(q) /\ Line(que) /\ Stages(Regs(que), Waiting, Beyond, group)
        /\ Waiting[c] = Regs(Tail(q))
  BY <1>1, <1>4, Zenon DEF InOrder, Waiting
<1>6. Whole(Tail(q))
  BY <1>4, <1>5, WholeTail, Zenon
<1>7. [Waiting EXCEPT ![c] = Regs(Tail(q))] = Waiting
  BY <1>5, StageTypes, Zenon
<1>8. Stages(Regs(que'), [Waiting EXCEPT ![c] = Regs(Rest(p))], Beyond', group') /\ Line(que')
  BY <1>3, <1>4, <1>5, <1>7, Zenon DEF Beyond
<1> QED
  BY <1>3, <1>4, <1>5, <1>6, <1>8, ThreadOrder, Zenon

(* The loop of reg_group ends; it drops nothing of a group whose list is   *)
(* live.                                                                   *)
LEMMA EndOrder ==
  ASSUME Inv, Table, InOrder, NEW c \in Caller, EndGroup(c) \/ FreedListRead(c), caller' # caller
  PROVE  InOrder'
<1>1. PICK q : q = caller[c].todo
  BY Zenon
<1>2. /\ caller' = [caller EXCEPT ![c] = Idle] /\ UNCHANGED <<que, group, entry>>
      /\ q # <<>> /\ ~caller[c].due
      /\ Head(q).type = "END" \/ (Head(q).type \in {"REG", "END"} /\ group[Head(q).sid[1]] = "freed")
  BY <1>1, Zenon DEF EndGroup, FreedListRead, Ready, Item
<1>3. q \in Seq(TodoItem) /\ Rest(caller[c]) = q /\ Idle.todo = <<>> /\ Rest(Idle) = <<>>
  BY <1>1, <1>2, Zenon DEF Inv, QueInv, CallerInv, Rest, Idle
<1>4. Whole(q) /\ Line(que) /\ Stages(Regs(que), Waiting, Beyond, group) /\ Waiting[c] = Regs(q)
  BY <1>1, <1>3, Zenon DEF InOrder, Waiting
<1>5. ASSUME NEW t \in Regs(q) PROVE group[t[1]] = "freed"
  <2>1. PICK i \in 1 .. Len(q) : q[i] = Reg(t)
    BY <1>5, Zenon DEF Regs
  <2>2. q[i].type = "REG" /\ q[i].sid = t
    BY <2>1 DEF Reg
  <2>3. Len(q) \in Nat \ {0} /\ Head(q) = q[1] /\ 1 \in 1 .. Len(q)
    BY <1>2, <1>3
  <2>4. CASE i = 1
    BY <1>2, <2>2, <2>3, <2>4, Zenon
  <2>5. CASE i # 1
    <3>1. 1 < i
      BY <2>3, <2>5
    <3>2. q[1].type = "REG" /\ q[1].sid[1] = q[i].sid[1]
      BY <1>4, <2>3, <3>1, Zenon DEF Whole
    <3> QED
      BY <1>2, <2>2, <2>3, <3>2, Zenon
  <2> QED
    BY <2>4, <2>5, Zenon
<1>6. Stages(Regs(que), [Waiting EXCEPT ![c] = {}], Beyond, group)
  BY <1>4, <1>5, StageTypes, ToFreed, Zenon DEF Table
<1>7. Stages(Regs(que'), [Waiting EXCEPT ![c] = Regs(Rest(Idle))], Beyond', group') /\ Line(que')
      /\ Line(Rest(Idle)) /\ Whole(Idle.todo)
  BY <1>2, <1>3, <1>4, <1>6, ShortLine, Zenon DEF Beyond
<1> QED
  BY <1>2, <1>7, ThreadOrder, Zenon

(* The loop takes an item from the queue, or puts its heartbeat there.     *)
LEMMA QueueOrder ==
  ASSUME InOrder, UNCHANGED <<caller, group>>, Line(que'), Stages(Regs(que'), Waiting, Beyond', group)
  PROVE  InOrder'
<1>1. Waiting' = Waiting
  BY Zenon DEF Waiting
<1> QED
  BY <1>1, Zenon DEF InOrder

(* A heartbeat in the queue is no template.                                *)
LEMMA BeatOrder ==
  ASSUME Inv, InOrder, HeartbeatCb
  PROVE  InOrder'
<1>1. que' = Append(que, Heartbeat) /\ UNCHANGED <<caller, group, entry>>
  BY Zenon DEF HeartbeatCb
<1>2. Heartbeat \in QueItem /\ que \in Seq(QueItem)
  BY Zenon DEF QueItem, Inv, QueInv
<1>3. \A t : Heartbeat # Reg(t)
  BY Zenon DEF Heartbeat, Reg
<1>4. MayFollow(que, Heartbeat) /\ {t \in Sid : Heartbeat = Reg(t)} = {}
  BY <1>3, Zenon DEF MayFollow
<1>5. Line(que) /\ Stages(Regs(que), Waiting, Beyond, group)
  BY Zenon DEF InOrder
<1>6. Line(Append(que, Heartbeat))
        /\ Regs(Append(que, Heartbeat)) = Regs(que) \cup {t \in Sid : Heartbeat = Reg(t)}
  BY <1>2, <1>4, <1>5, PutLast
<1>7. Line(que') /\ Regs(que') = Regs(que) /\ Beyond' = Beyond
  BY <1>1, <1>4, <1>6, Zenon DEF Beyond
<1> QED
  BY <1>1, <1>5, <1>7, QueueOrder, Zenon

(* The item at the head of the queue is taken.                             *)
LEMMA PopTakes ==
  ASSUME Inv, InOrder, NEW type, QuePop(type)
  PROVE  /\ Line(que') /\ Regs(que) = Regs(que') \cup {t \in Sid : Head(que) = Reg(t)}
         /\ \A t \in Sid : Head(que) = Reg(t) => \A y \in Kin(t) : y \notin Regs(que')
         /\ caller' = caller
<1>1. que \in Seq(QueItem) /\ que # <<>> /\ que' = Tail(que) /\ caller' = caller /\ Line(que)
  BY Zenon DEF Inv, QueInv, QuePop, InOrder
<1>2. /\ Line(Tail(que)) /\ Regs(que) = Regs(Tail(que)) \cup {t \in Sid : Head(que) = Reg(t)}
      /\ \A t \in Sid : Head(que) = Reg(t) => \A y \in Kin(t) : y \notin Regs(Tail(que))
  BY <1>1, TakeFirst, Zenon
<1> QED
  BY <1>1, <1>2, Zenon

(* An item taken off the queue that registers no template changes nothing  *)
(* in the order.                                                           *)
LEMMA PopOrder ==
  ASSUME Inv, InOrder, NEW type, QuePop(type), type # "REG", group' = group, Beyond' = Beyond
  PROVE  InOrder'
<1>1. Head(que).type # "REG"
  BY Zenon DEF QuePop
<1>2. \A t : Head(que) # Reg(t)
  BY <1>1 DEF Reg
<1>3. {t \in Sid : Head(que) = Reg(t)} = {}
  BY <1>2, Zenon
<1>4. Line(que') /\ Regs(que') = Regs(que) /\ caller' = caller
  BY <1>3, PopTakes, Zenon
<1> QED
  BY <1>4, QueueOrder, Zenon DEF InOrder

(* The template at the head of the queue is new.                           *)
LEMMA RegIsNew ==
  ASSUME Inv, InOrder, DoReg
  PROVE  Head(que).sid \in Regs(que) /\ entry[Head(que).sid].where = "new"
<1>1. Head(que).sid \in Sid /\ Head(que) = Reg(Head(que).sid)
  BY RegisteredSid, Zenon
<1>2. que \in Seq(QueItem) /\ que # <<>>
  BY Zenon DEF DoReg, QuePop, Inv, QueInv
<1>3. 1 \in 1 .. Len(que) /\ que[1] = Reg(Head(que).sid)
  BY <1>1, <1>2
<1>4. Head(que).sid \in Regs(que)
  BY <1>1, <1>3, Zenon DEF Regs
<1>5. \A t \in Beyond : t \notin Regs(que)
  BY Zenon DEF InOrder, Stages, Kin
<1> QED
  BY <1>1, <1>4, <1>5, Zenon DEF Beyond

(* _do_reg takes the first template off the queue and into the table.      *)
LEMMA RegOrder ==
  ASSUME Inv, Table, InOrder, DoReg
  PROVE  InOrder'
<1>1. PICK t \in Sid : t = Head(que).sid /\ Head(que) = Reg(t)
  BY RegisteredSid, Zenon
<1>2. AddTemplate(t) /\ QuePop("REG")
  BY <1>1, Zenon DEF DoReg
<1>3. Beyond' = Beyond \cup {t}
  <2>1. entry'[t].where # "new" /\ \A m \in Sid \ {t} : entry'[m] = entry[m]
    <3>1. entry'[t].where = IF Concrete(t) = {} THEN "loose" ELSE "set"
      BY <1>2, AddedEntry, Zenon
    <3>2. \A m \in Sid \ {t} : entry'[m] = entry[m]
      BY <1>2, AddedEntry, Zenon
    <3> QED
      BY <3>1, <3>2, Zenon
  <2> QED
    BY <2>1, Zenon DEF Beyond
<1>4. group' = group
  BY <1>2, AddedEntry, Zenon
<1>5. {s \in Sid : Head(que) = Reg(s)} = {t}
  BY <1>1, RegIsOf, Zenon
<1>6. /\ Line(que') /\ caller' = caller /\ Regs(que) = Regs(que') \cup {t}
      /\ \A y \in Kin(t) : y \notin Regs(que')
  BY <1>1, <1>2, <1>5, PopTakes, Zenon
<1>7. Stages(Regs(que'), Waiting, Beyond \cup {t}, group)
  <2>1. Stages(Regs(que), Waiting, Beyond, group) /\ t \in Regs(que)
    BY <1>6, Zenon DEF InOrder
  <2> QED
    BY <1>6, <2>1, StageTypes, ToTable, Zenon
<1> QED
  BY <1>3, <1>4, <1>6, <1>7, QueueOrder, Zenon

(* No template is registered before the first of its group.                *)
LEMMA FirstGoesFirst ==
  ASSUME InOrder, NEW t \in Beyond
  PROVE  First(t) \in Beyond
<1>1. Stages(Regs(que), Waiting, Beyond, group)
  BY Zenon DEF InOrder
<1>2. PICK g \in Group : g = t[1]
  BY SidPair, Zenon DEF Beyond
<1>3. <<g, 0>> \in Kin(t) /\ group[g] # "none"
  BY <1>1, <1>2, Zenon DEF Kin, First, Stages
<1>4. <<g, 0>> \notin Regs(que) /\ \A c \in Caller : <<g, 0>> \notin Waiting[c]
  BY <1>1, <1>3, Zenon DEF Stages
<1>5. <<g, 0>> \in Beyond
  BY <1>1, <1>3, <1>4, Zenon DEF Stages
<1> QED
  BY <1>2, <1>5, Zenon DEF First

(* A removal frees the list of a group whose first template is beyond the  *)
(* queue.                                                                  *)
LEMMA RemoveOrder ==
  ASSUME Table, InOrder, NEW t \in Sid, entry[t].where # "new",
         NEW timeout \in BOOLEAN, NEW extra, Removed(t, timeout, extra), UNCHANGED <<que, caller>>
  PROVE  InOrder'
<1>1. Beyond' = Beyond
  <2>1. \A m \in Sid : entry'[m].where = IF m \in Found(t) THEN "freed" ELSE entry[m].where
    BY RemovedEntry, Zenon
  <2>2. \A m \in Found(t) : entry[m].where = "set"
    BY Zenon DEF Found
  <2>3. \A m \in Sid : entry'[m].where # "new" <=> entry[m].where # "new"
    BY <2>1, <2>2, Zenon
  <2> QED
    BY <2>3, Zenon DEF Beyond
<1>2. PICK g : g = t[1]
  BY Zenon
<1>3. group' = group \/ group' = [group EXCEPT ![g] = "freed"]
  BY <1>2, Zenon DEF Removed
<1>4. g \in Group
  BY <1>2, SidPair, Zenon
<1>5. Stages(Regs(que), Waiting, Beyond, group)
  BY Zenon DEF InOrder
<1>6. <<g, 0>> \in Beyond
  <2>1. t \in Beyond
    BY Zenon DEF Beyond
  <2> QED
    BY <1>2, <2>1, FirstGoesFirst, Zenon DEF First
<1>7. Stages(Regs(que), Waiting, Beyond, [group EXCEPT ![g] = "freed"])
  BY <1>4, <1>5, <1>6, StageTypes, ToFreed, Zenon DEF Table
<1>8. Waiting' = Waiting /\ Line(que') /\ \A c \in Caller : Line(Rest(caller'[c])) /\ Whole(caller'[c].todo)
  BY Zenon DEF Waiting, InOrder
<1>9. Stages(Regs(que'), Waiting', Beyond', group')
  BY <1>1, <1>3, <1>5, <1>7, <1>8, Zenon
<1> QED
  BY <1>8, <1>9, Zenon DEF InOrder

=============================================================================
