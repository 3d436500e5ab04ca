-------------------------- MODULE OeKernel_proofs --------------------------
(***************************************************************************)
(* Proofs about the get of OeKernel, for any number of gets and items.     *)
(***************************************************************************)
EXTENDS OeKernel, FiniteSetTheorems, TLAPS

(* The types the proof needs.                                              *)
QueItem == {Reg(g, d) : g \in Get, d \in Int} \cup {Process(i) : i \in Item}

KernelType ==
  /\ left \in [Get -> Int]
  /\ db \in [Get -> Nat]
  /\ thread \in [Get -> {"none", "missed", "register"}]
  /\ que \in Seq(QueItem)
  /\ table \subseteq Get
  /\ answer \in [Get -> Seq({"found", "error", "none"})]

(* The places in the matcher's queue where a get waits for registration.   *)
Regs(g) == {k \in DOMAIN que : que[k].type = "REG" /\ que[k].get = g}

(* Where the context of a get is.                                          *)
NotAsked(g) == db[g] = 0 /\ thread[g] = "none" /\ Regs(g) = {} /\ g \notin table /\ answer[g] = <<>>
InPool(g) == db[g] = 1 /\ thread[g] = "none" /\ Regs(g) = {} /\ g \notin table /\ answer[g] = <<>>
InThread(g) == db[g] = 0 /\ thread[g] # "none" /\ Regs(g) = {} /\ g \notin table /\ answer[g] = <<>>
InQueue(g) == /\ db[g] = 0 /\ thread[g] = "none" /\ g \notin table /\ answer[g] = <<>>
              /\ \E k \in DOMAIN que : Regs(g) = {k}
InTable(g) == db[g] = 0 /\ thread[g] = "none" /\ Regs(g) = {} /\ g \in table /\ answer[g] = <<>>
Answered(g) == db[g] = 0 /\ thread[g] = "none" /\ Regs(g) = {} /\ g \notin table /\ Len(answer[g]) = 1

Place(g) == \/ NotAsked(g) \/ InPool(g) \/ InThread(g) \/ InQueue(g) \/ InTable(g)
            \/ Answered(g)

ContextInv == KernelType /\ \A g \in Get : Place(g)

-----------------------------------------------------------------------------
(* Every step keeps the types.                                             *)
LEMMA TypeStep ==
  ASSUME KernelType, [Next]_vars PROVE KernelType'
<1> USE KernelAssumption
<1>1. CASE UNCHANGED vars
  BY <1>1 DEF KernelType, vars
<1>2. CASE Tick
  BY <1>2 DEF KernelType, Tick
<1>3. CASE DoReg
  <2>1. Head(que) \in QueItem /\ Tail(que) \in Seq(QueItem)
    BY <1>3 DEF KernelType, DoReg
  <2>2. Head(que).get \in Get
    BY <1>3, <2>1 DEF DoReg, QueItem, Reg, Process
  <2> QED
    BY <1>3, <2>1, <2>2 DEF KernelType, DoReg
<1>4. CASE DoProcess
  <2>1. Tail(que) \in Seq(QueItem)
    BY <1>4 DEF KernelType, DoProcess
  <2> QED
    BY <1>4, <2>1 DEF KernelType, DoProcess, AsyncGeth
<1>5. ASSUME NEW i \in Item, Write(i) \/ Enlist(i) \/ Gone(i) PROVE KernelType'
  BY <1>5 DEF KernelType, Write, Enlist, Gone
<1>6. ASSUME NEW i \in Item, FireWriteEvent(i) PROVE KernelType'
  <2>1. Process(i) \in QueItem
    BY DEF QueItem
  <2> QED
    BY <1>6, <2>1 DEF KernelType, FireWriteEvent
<1>7. ASSUME NEW g \in Get, OekGet(g) PROVE KernelType'
  BY <1>7 DEF KernelType, OekGet
<1>8. ASSUME NEW g \in Get, GethFound(g) \/ GethFailed(g) PROVE KernelType'
  <2>1. \A r \in {"found", "error", "none"} :
          Append(answer[g], r) \in Seq({"found", "error", "none"})
    BY DEF KernelType
  <2>2. db[g] > 0 => db[g] - 1 \in Nat
    BY DEF KernelType
  <2>3. PICK r \in {"found", "error", "none"} :
          /\ answer' = [answer EXCEPT ![g] = Append(answer[g], r)]
          /\ db[g] > 0 /\ db' = [db EXCEPT ![g] = db[g] - 1]
          /\ UNCHANGED <<left, thread, que, table>>
    BY <1>8 DEF GethFound, GethFailed, Write2Client
  <2>4. answer' \in [Get -> Seq({"found", "error", "none"})]
    BY <2>1, <2>3 DEF KernelType
  <2>5. db' \in [Get -> Nat]
    BY <2>2, <2>3 DEF KernelType
  <2> QED
    BY <2>3, <2>4, <2>5 DEF KernelType
<1>9. ASSUME NEW g \in Get, GethNotFound(g) PROVE KernelType'
  BY <1>9 DEF KernelType, GethNotFound
<1>10. ASSUME NEW g \in Get, HandleNoResults(g) PROVE KernelType'
  <2>1. Append(answer[g], "none") \in Seq({"found", "error", "none"})
    BY DEF KernelType
  <2> QED
    BY <1>10, <2>1 DEF KernelType, HandleNoResults, Write2Client
<1>11. ASSUME NEW g \in Get, RegGroup(g) PROVE KernelType'
  <2>1. Reg(g, left[g]) \in QueItem
    BY DEF QueItem, KernelType
  <2> QED
    BY <1>11, <2>1 DEF KernelType, RegGroup
<1>12. ASSUME NEW g \in Get, TimeoutCb(g) PROVE KernelType'
  BY <1>12 DEF KernelType, TimeoutCb, AsyncGeth
<1> QED
  BY <1>1, <1>2, <1>3, <1>4, <1>5, <1>6, <1>7, <1>8, <1>9, <1>10, <1>11, <1>12 DEF Next, Geth

-----------------------------------------------------------------------------
(* What a push does to the registrations in the queue.                     *)
LEMMA RegsAppend ==
  ASSUME KernelType, NEW x \in QueItem, que' = Append(que, x), NEW g \in Get
  PROVE  /\ ~(x.type = "REG" /\ x.get = g) => Regs(g)' = Regs(g) /\ DOMAIN que \subseteq DOMAIN que'
         /\ x.type = "REG" /\ x.get = g /\ Regs(g) = {} => \E k \in DOMAIN que' : Regs(g)' = {k}
<1>1. /\ Len(que) \in Nat /\ DOMAIN que = 1 .. Len(que) /\ DOMAIN que' = 1 .. Len(que) + 1
      /\ que'[Len(que) + 1] = x /\ \A i \in DOMAIN que : que'[i] = que[i]
  BY DEF KernelType
<1>2. \A i \in DOMAIN que' : i \in DOMAIN que \/ i = Len(que) + 1
  BY <1>1
<1>3. DOMAIN que \subseteq DOMAIN que' /\ Len(que) + 1 \in DOMAIN que'
  BY <1>1
<1>4. ASSUME ~(x.type = "REG" /\ x.get = g) PROVE Regs(g)' = Regs(g)
  BY <1>1, <1>2, <1>3, <1>4 DEF Regs
<1>5. ASSUME x.type = "REG", x.get = g, Regs(g) = {} PROVE Regs(g)' = {Len(que) + 1}
  BY <1>1, <1>2, <1>3, <1>5 DEF Regs
<1> QED
  BY <1>3, <1>4, <1>5

(* What a pop does to them.                                                *)
LEMMA RegsTail ==
  ASSUME KernelType, que # <<>>, que' = Tail(que), NEW g \in Get
  PROVE  /\ Regs(g) = {} => Regs(g)' = {}
         /\ (\E k \in DOMAIN que : Regs(g) = {k}) =>
              IF Head(que).type = "REG" /\ Head(que).get = g
              THEN Regs(g)' = {} ELSE \E k \in DOMAIN que' : Regs(g)' = {k}
         /\ Head(que).type = "REG" /\ Head(que).get = g => Regs(g) # {}
<1>1. /\ Len(que) \in Nat /\ Len(que) >= 1 /\ DOMAIN que = 1 .. Len(que)
      /\ DOMAIN que' = 1 .. Len(que) - 1
      /\ Head(que) = que[1] /\ \A i \in DOMAIN que' : que'[i] = que[i + 1]
  BY DEF KernelType
<1>2. 1 \in DOMAIN que /\ \A i \in DOMAIN que' : i \in Int /\ i >= 1 /\ i + 1 \in DOMAIN que
  BY <1>1
<1>3. \A i \in DOMAIN que' : i \in Regs(g)' <=> i + 1 \in Regs(g)
  BY <1>1, <1>2 DEF Regs
<1>4. Regs(g)' \subseteq DOMAIN que'
  BY DEF Regs
<1>5. 1 \in Regs(g) <=> Head(que).type = "REG" /\ Head(que).get = g
  BY <1>1, <1>2 DEF Regs
<1>6. ASSUME NEW k \in DOMAIN que, Regs(g) = {k}, k # 1
      PROVE  k - 1 \in DOMAIN que' /\ Regs(g)' = {k - 1}
  <2>1. k - 1 \in DOMAIN que' /\ (k - 1) + 1 = k
    BY <1>1, <1>6
  <2>2. \A i \in DOMAIN que' : i + 1 = k => i = k - 1
    BY <1>1, <1>2
  <2>3. k - 1 \in Regs(g)'
    BY <1>3, <1>6, <2>1
  <2>4. \A i \in Regs(g)' : i = k - 1
    BY <1>3, <1>4, <1>6, <2>2
  <2> QED
    BY <2>1, <2>3, <2>4
<1>7. ASSUME Regs(g) = {1} PROVE Regs(g)' = {}
  <2>1. \A i \in DOMAIN que' : i + 1 # 1
    BY <1>2
  <2> QED
    BY <1>3, <1>4, <1>7, <2>1
<1>8. Regs(g) = {} => Regs(g)' = {}
  BY <1>3, <1>4
<1> QED
  BY <1>5, <1>6, <1>7, <1>8

(* A get whose context a step leaves where it is.                          *)
LEMMA PlaceKept ==
  ASSUME NEW g \in Get, Place(g),
         db'[g] = db[g], thread'[g] = thread[g], answer'[g] = answer[g],
         g \in table' <=> g \in table,
         Regs(g) = {} => Regs(g)' = {},
         (\E k \in DOMAIN que : Regs(g) = {k}) => \E k \in DOMAIN que' : Regs(g)' = {k}
  PROVE  Place(g)'
BY DEF Place, NotAsked, InPool, InThread, InQueue, InTable, Answered

(* The sets of gets that an object can wake are registered ones.           *)
LEMMA WokenRegistered ==
  ASSUME NEW i, NEW S \in Woken(i) PROVE S \subseteq table
BY DEF Woken

(* What the pool does with a get, and what the client does.                *)
LEMMA PoolPlaces ==
  ASSUME KernelType, NEW h \in Get, NEW g \in Get, Place(g), Place(h),
         OekGet(h) \/ Geth(h) \/ HandleNoResults(h)
  PROVE  Place(g)'
<1> USE DEF KernelType
<1>1. que' = que /\ table' = table /\ Regs(g)' = Regs(g)
  BY DEF OekGet, Geth, GethFound, GethNotFound, GethFailed, HandleNoResults, Regs
<1>2. CASE g # h
  <2>1. db'[g] = db[g] /\ thread'[g] = thread[g] /\ answer'[g] = answer[g]
    BY <1>2 DEF OekGet, Geth, GethFound, GethNotFound, GethFailed, HandleNoResults, Write2Client
  <2> QED
    BY <1>1, <2>1, PlaceKept
<1>3. CASE g = h /\ OekGet(h)
  <2>1. NotAsked(g)
    BY <1>3 DEF OekGet, Asked, Place, NotAsked, InPool, InThread, InQueue, InTable, Answered, Regs
  <2>2. db'[g] = 1 /\ thread'[g] = "none" /\ answer'[g] = <<>>
    BY <1>3, <2>1 DEF OekGet, NotAsked
  <2>3. InPool(g)'
    BY <1>1, <2>1, <2>2 DEF NotAsked, InPool
  <2> QED
    BY <2>3 DEF Place
<1>4. CASE g = h /\ Geth(h)
  <2>1. InPool(g)
    BY <1>4 DEF Geth, GethFound, GethNotFound, GethFailed, Place, NotAsked, InPool, InThread, InQueue,
       InTable, Answered
  <2>2. db'[g] = 0
    BY <1>4, <2>1 DEF Geth, GethFound, GethNotFound, GethFailed, InPool
  <2>3. CASE GethNotFound(h)
    <3>1. thread'[g] = "missed" /\ answer'[g] = <<>>
      BY <1>4, <2>1, <2>3 DEF GethNotFound, InPool
    <3>2. InThread(g)'
      BY <1>1, <2>1, <2>2, <3>1 DEF InPool, InThread
    <3> QED
      BY <3>2 DEF Place
  <2>4. CASE GethFound(h) \/ GethFailed(h)
    <3>1. PICK r \in {"found", "error", "none"} : answer'[g] = Append(<<>>, r)
      BY <1>4, <2>1, <2>4 DEF GethFound, GethFailed, Write2Client, InPool
    <3>2. Len(answer'[g]) = 1 /\ thread'[g] = "none"
      BY <1>4, <2>1, <2>4, <3>1 DEF GethFound, GethFailed, InPool
    <3>3. Answered(g)'
      BY <1>1, <2>1, <2>2, <3>2 DEF InPool, Answered
    <3> QED
      BY <3>3 DEF Place
  <2> QED
    BY <1>4, <2>3, <2>4 DEF Geth
<1>5. CASE g = h /\ HandleNoResults(h)
  <2>1. InThread(g)
    BY <1>5 DEF HandleNoResults, Place, NotAsked, InPool, InThread, InQueue, InTable, Answered
  <2>2. db'[g] = 0
    BY <1>5, <2>1 DEF HandleNoResults, InThread
  <2>3. CASE Expired(h) \/ h \in IfExists
    <3>1. answer'[g] = Append(<<>>, "none") /\ thread'[g] = "none"
      BY <1>5, <2>1, <2>3 DEF HandleNoResults, Write2Client, InThread
    <3>2. Len(answer'[g]) = 1
      BY <3>1
    <3>3. Answered(g)'
      BY <1>1, <2>1, <2>2, <3>1, <3>2 DEF InThread, Answered
    <3> QED
      BY <3>3 DEF Place
  <2>4. CASE ~(Expired(h) \/ h \in IfExists)
    <3>1. answer'[g] = <<>> /\ thread'[g] = "register"
      BY <1>5, <2>1, <2>4 DEF HandleNoResults, InThread
    <3>2. InThread(g)'
      BY <1>1, <2>1, <2>2, <3>1 DEF InThread
    <3> QED
      BY <3>2 DEF Place
  <2> QED
    BY <2>3, <2>4
<1> QED
  BY <1>2, <1>3, <1>4, <1>5

(* What the matcher does with a get, and the writers of items.             *)
LEMMA MatcherPlaces ==
  ASSUME KernelType, NEW g \in Get, Place(g),
         \/ DoReg \/ DoProcess
         \/ \E i \in Item : FireWriteEvent(i)
         \/ \E h \in Get : RegGroup(h) \/ TimeoutCb(h)
  PROVE  Place(g)'
<1> USE DEF KernelType
<1>1. CASE DoReg
  <2>1. que # <<>> /\ que' = Tail(que) /\ Head(que).type = "REG" /\ UNCHANGED <<db, thread, answer>>
        /\ table' = table \cup {Head(que).get}
    BY <1>1 DEF DoReg
  <2>2. CASE Head(que).get = g
    <3>1. Regs(g) # {}
      BY <2>1, <2>2, RegsTail
    <3>2. InQueue(g)
      BY <3>1 DEF Place, NotAsked, InPool, InThread, InQueue, InTable, Answered
    <3>3. Regs(g)' = {}
      BY <2>1, <2>2, <3>2, RegsTail DEF InQueue
    <3>4. InTable(g)'
      BY <2>1, <2>2, <3>2, <3>3 DEF InQueue, InTable
    <3> QED
      BY <3>4 DEF Place
  <2>3. CASE Head(que).get # g
    <3>1. /\ Regs(g) = {} => Regs(g)' = {}
          /\ (\E k \in DOMAIN que : Regs(g) = {k}) => \E k \in DOMAIN que' : Regs(g)' = {k}
      BY <2>1, <2>3, RegsTail
    <3> QED
      BY <2>1, <2>3, <3>1, PlaceKept
  <2> QED
    BY <2>2, <2>3
<1>2. CASE DoProcess
  <2>1. que # <<>> /\ que' = Tail(que) /\ Head(que).type = "PROCESS" /\ UNCHANGED <<thread, answer>>
    BY <1>2 DEF DoProcess
  <2>2. PICK S \in Woken(Head(que).item) : AsyncGeth(S)
    BY <1>2 DEF DoProcess
  <2>3. S \subseteq table
    BY <2>2, WokenRegistered
  <2>4. /\ Regs(g) = {} => Regs(g)' = {}
        /\ (\E k \in DOMAIN que : Regs(g) = {k}) => \E k \in DOMAIN que' : Regs(g)' = {k}
    BY <2>1, RegsTail
  <2>5. CASE g \in S
    <3>1. InTable(g)
      BY <2>3, <2>5 DEF Place, NotAsked, InPool, InThread, InQueue, InTable, Answered
    <3>2. db'[g] = 1 /\ g \notin table'
      BY <2>2, <2>5, <3>1 DEF AsyncGeth, InTable
    <3>3. InPool(g)'
      BY <2>1, <2>4, <3>1, <3>2 DEF InTable, InPool
    <3> QED
      BY <3>3 DEF Place
  <2>6. CASE g \notin S
    <3>1. db'[g] = db[g] /\ (g \in table' <=> g \in table)
      BY <2>2, <2>6 DEF AsyncGeth
    <3> QED
      BY <2>1, <2>4, <3>1, PlaceKept
  <2> QED
    BY <2>5, <2>6
<1>3. ASSUME NEW i \in Item, FireWriteEvent(i) PROVE Place(g)'
  <2>1. Process(i) \in QueItem /\ Process(i).type # "REG"
    BY DEF QueItem, Process
  <2>2. que' = Append(que, Process(i)) /\ UNCHANGED <<db, thread, table, answer>>
    BY <1>3 DEF FireWriteEvent
  <2>3. Regs(g)' = Regs(g) /\ DOMAIN que \subseteq DOMAIN que'
    BY <2>1, <2>2, RegsAppend
  <2> QED
    BY <2>2, <2>3, PlaceKept
<1>4. ASSUME NEW h \in Get, RegGroup(h) PROVE Place(g)'
  <2> DEFINE x == Reg(h, left[h])
  <2>1. x \in QueItem /\ x.type = "REG" /\ x.get = h
    BY DEF QueItem, Reg
  <2>2. que' = Append(que, x) /\ UNCHANGED <<db, table, answer>>
        /\ thread[h] = "register" /\ thread' = [thread EXCEPT ![h] = "none"]
    BY <1>4 DEF RegGroup
  <2> HIDE DEF x
  <2>3. CASE g = h
    <3>1. InThread(g)
      BY <2>2, <2>3 DEF Place, NotAsked, InPool, InThread, InQueue, InTable, Answered
    <3>2. \E k \in DOMAIN que' : Regs(g)' = {k}
      BY <2>1, <2>2, <2>3, <3>1, RegsAppend DEF InThread
    <3>3. InQueue(g)'
      BY <2>2, <2>3, <3>1, <3>2 DEF InThread, InQueue
    <3> QED
      BY <3>3 DEF Place
  <2>4. CASE g # h
    <3>1. Regs(g)' = Regs(g) /\ DOMAIN que \subseteq DOMAIN que'
      BY <2>1, <2>2, <2>4, RegsAppend
    <3> QED
      BY <2>2, <2>4, <3>1, PlaceKept
  <2> QED
    BY <2>3, <2>4
<1>5. ASSUME NEW h \in Get, TimeoutCb(h) PROVE Place(g)'
  <2>1. h \in table /\ UNCHANGED <<thread, que, answer>> /\ AsyncGeth({h}) /\ Regs(g)' = Regs(g)
    BY <1>5 DEF TimeoutCb, Regs
  <2>2. CASE g = h
    <3>1. InTable(g)
      BY <2>1, <2>2 DEF Place, NotAsked, InPool, InThread, InQueue, InTable, Answered
    <3>2. db'[g] = 1 /\ g \notin table'
      BY <2>1, <2>2, <3>1 DEF AsyncGeth, InTable
    <3>3. InPool(g)'
      BY <2>1, <3>1, <3>2 DEF InTable, InPool
    <3> QED
      BY <3>3 DEF Place
  <2>3. CASE g # h
    <3>1. db'[g] = db[g] /\ (g \in table' <=> g \in table)
      BY <2>1, <2>3 DEF AsyncGeth
    <3> QED
      BY <2>1, <3>1, PlaceKept
  <2> QED
    BY <2>2, <2>3
<1> QED
  BY <1>1, <1>2, <1>3, <1>4, <1>5

-----------------------------------------------------------------------------
(* The context of every get stays in one place, for ever.                  *)
THEOREM ContextInvHolds == Spec => []ContextInv
<1>1. Init => ContextInv
  <2> SUFFICES ASSUME Init PROVE ContextInv
    OBVIOUS
  <2>1. KernelType /\ DOMAIN que = {}
    BY DEF Init, KernelType
  <2>2. ASSUME NEW g \in Get PROVE NotAsked(g)
    BY <2>1 DEF Init, NotAsked, Regs
  <2> QED
    BY <2>1, <2>2 DEF ContextInv, Place
<1>2. ContextInv /\ [Next]_vars => ContextInv'
  <2> SUFFICES ASSUME ContextInv, [Next]_vars PROVE ContextInv'
    OBVIOUS
  <2>1. KernelType /\ KernelType'
    BY TypeStep DEF ContextInv
  <2>2. ASSUME NEW g \in Get PROVE Place(g)'
    <3>1. \A h \in Get : Place(h)
      BY DEF ContextInv
    <3>2. CASE UNCHANGED vars \/ Tick \/ \E i \in Item : Write(i) \/ Enlist(i) \/ Gone(i)
      <4>1. UNCHANGED <<db, thread, que, table, answer>>
        BY <3>2 DEF vars, Tick, Write, Enlist, Gone
      <4>2. Regs(g)' = Regs(g)
        BY <4>1 DEF Regs
      <4> QED
        BY <3>1, <4>1, <4>2, PlaceKept
    <3>3. ASSUME NEW h \in Get, OekGet(h) \/ Geth(h) \/ HandleNoResults(h) PROVE Place(g)'
      BY <2>1, <3>1, <3>3, PoolPlaces
    <3>4. CASE \/ DoReg \/ DoProcess
               \/ \E i \in Item : FireWriteEvent(i)
               \/ \E h \in Get : RegGroup(h) \/ TimeoutCb(h)
      BY <2>1, <3>1, <3>4, MatcherPlaces
    <3> QED
      BY <3>2, <3>3, <3>4 DEF Next
  <2> QED
    BY <2>1, <2>2 DEF ContextInv
<1> QED
  BY <1>1, <1>2, PTL DEF Spec

(* A get is answered at most once, and its context is never with two of    *)
(* the pool, the matcher and the client, for any number of gets and items, *)
(* any timeouts and any templates.                                         *)
THEOREM ContextHasOnePlace == Spec => []ContextInOnePlace
<1>1. ContextInv => ContextInOnePlace
  <2> SUFFICES ASSUME ContextInv, NEW g \in Get
               PROVE  db[g] + (IF thread[g] = "none" THEN 0 ELSE 1) + Registrations(g) + Len(answer[g]) <= 1
    BY DEF ContextInOnePlace
  <2>1. Registrations(g) = Cardinality(Regs(g)) + IF g \in table THEN 1 ELSE 0
    BY DEF Registrations, Regs
  <2>2. Cardinality({}) = 0
    BY FS_EmptySet
  <2>3. \A x : Cardinality({x}) = 1
    BY FS_Singleton
  <2>4. Len(<<>>) = 0
    OBVIOUS
  <2>5. Place(g)
    BY DEF ContextInv
  <2>6. \/ InQueue(g) /\ Cardinality(Regs(g)) = 1
        \/ ~InQueue(g) /\ Cardinality(Regs(g)) = 0
    BY <2>2, <2>3, <2>5, Zenon DEF Place, NotAsked, InPool, InThread, InQueue, InTable, Answered
  <2>7. CASE InQueue(g) /\ Cardinality(Regs(g)) = 1
    BY <2>1, <2>4, <2>7 DEF InQueue
  <2>8. CASE ~InQueue(g) /\ Cardinality(Regs(g)) = 0
    <3>1. Registrations(g) = IF g \in table THEN 1 ELSE 0
      BY <2>1, <2>8
    <3>2. CASE NotAsked(g) \/ InPool(g)
      BY <2>4, <3>1, <3>2 DEF NotAsked, InPool
    <3>3. CASE InThread(g) \/ InTable(g)
      BY <2>4, <3>1, <3>3 DEF InThread, InTable
    <3>4. CASE Answered(g)
      BY <3>1, <3>4 DEF Answered
    <3> QED
      BY <2>5, <2>8, <3>2, <3>3, <3>4 DEF Place
  <2> QED
    BY <2>6, <2>7, <2>8
<1> QED
  BY <1>1, ContextInvHolds, PTL
=============================================================================
