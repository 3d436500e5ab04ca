------------------------- MODULE OeThreadDispatcher -------------------------
(***************************************************************************)
(* The pool of threads that runs the calls of the store and everything     *)
(* else that must not run in an event loop (corelib/Oe_Thread_Dispatcher.c,*)
(* created with at least one thread).                                      *)
(*                                                                         *)
(* One queue, one mutex and one condition variable are shared by the       *)
(* threads of the pool, the threads that submit work, and the thread that  *)
(* starts and stops the pool.  What a thread does while it holds the mutex *)
(* is one step.  A signal wakes one of the threads waiting at that moment, *)
(* none when there is none; a thread that was woken still has to get the   *)
(* mutex and look at the queue again.                                      *)
(***************************************************************************)
EXTENDS Naturals, Sequences, FiniteSets

CONSTANTS
  Worker,   \* the threads of the pool
  Task,     \* the calls of _exec, each with the callback it hands over
  TQUIT,    \* the item that ends a thread
  DIAG,     \* the item that prints statistics
  MaxDiag   \* bound on the statistics items

ASSUME PoolAssumption ==
  /\ Worker # {} /\ IsFiniteSet(Worker)
  /\ TQUIT \notin Task /\ DIAG \notin Task /\ TQUIT # DIAG
  /\ MaxDiag \in Nat

VARIABLES
  que,      \* the items to do, oldest first
  thread,   \* per worker: where it is
  job,      \* per worker: the task it runs, if it does
  running,  \* que->running, the threads that have begun
  boss,     \* where the thread that starts and stops the pool is
  quits,    \* the TQUIT items it has pushed
  diags,    \* the DIAG items pushed so far
  pushed,   \* the tasks submitted so far
  early,    \* those submitted before the first TQUIT
  ran       \* per task: how often it has run

vars == <<que, thread, job, running, boss, quits, diags, pushed, early, ran>>

Item == Task \cup {TQUIT, DIAG}
At == {"none", "starting", "pop", "waiting", "woken", "run", "exited"}

Init ==
  /\ que = <<>>
  /\ thread = [w \in Worker |-> "none"]
  /\ job = [w \in Worker |-> DIAG]
  /\ running = 0
  /\ boss = "new"
  /\ quits = 0
  /\ diags = 0
  /\ pushed = {} /\ early = {}
  /\ ran = [t \in Task |-> 0]

-----------------------------------------------------------------------------

Waiting == {w \in Worker : thread[w] = "waiting"}
Woken == {w \in Worker : thread[w] = "woken"}

(* Mutant: nobody is told of a push.                                       *)
SignalNobody(base) == thread' = base

(* oe_pthread_cond_signal, when the threads are where base says.           *)
Signal(base) ==
  \/ Waiting = {} /\ thread' = base
  \/ \E w \in Waiting : thread' = [base EXCEPT ![w] = "woken"]

(* Mutant: the newest item is done first.                                  *)
QuePushFront(item) ==
  /\ que' = <<item>> \o que
  /\ Signal(thread)

QuePush(item) ==
  /\ que' = Append(que, item)
  /\ Signal(thread)

(* Oe_Thread_Dispatcher_exec, by any thread of the program.                *)
Exec(t) ==
  /\ t \notin pushed
  /\ pushed' = pushed \cup {t}
  /\ early' = IF quits = 0 THEN early \cup {t} ELSE early
  /\ QuePush(t)
  /\ UNCHANGED <<job, running, boss, quits, diags, ran>>

(* Oe_Thread_Dispatcher_stats pushes one DIAG per thread, one by one.      *)
Stats ==
  /\ diags < MaxDiag
  /\ diags' = diags + 1
  /\ QuePush(DIAG)
  /\ UNCHANGED <<job, running, boss, quits, pushed, early, ran>>

-----------------------------------------------------------------------------
(* The threads of the pool.                                                *)

Begin(w) ==
  /\ thread[w] = "starting"
  /\ running' = running + 1
  /\ Signal([thread EXCEPT ![w] = "pop"])
  /\ UNCHANGED <<que, job, boss, quits, diags, pushed, early, ran>>

(* The end of a wait without a signal, which POSIX permits.                *)
SpuriousWakeup(w) ==
  /\ thread[w] = "waiting"
  /\ thread' = [thread EXCEPT ![w] = "woken"]
  /\ UNCHANGED <<que, job, running, boss, quits, diags, pushed, early, ran>>

(* Mutant: the item that was read stays the head of the queue.             *)
QueRestKept == que

QueRest == Tail(que)

(* _que_pop and the switch on what it returns.                             *)
QuePop(w) ==
  /\ thread[w] \in {"pop", "woken"}
  /\ \/ /\ que = <<>>
        /\ thread' = [thread EXCEPT ![w] = "waiting"]
        /\ UNCHANGED <<que, job>>
     \/ /\ que # <<>>
        /\ que' = QueRest
        /\ thread' = [thread EXCEPT ![w] = CASE Head(que) \in Task -> "run"
                                             [] Head(que) = TQUIT -> "exited"
                                             [] Head(que) = DIAG -> "pop"]
        /\ job' = [job EXCEPT ![w] = Head(que)]
  /\ UNCHANGED <<running, boss, quits, diags, pushed, early, ran>>

ProcessFun(w) ==
  /\ thread[w] = "run"
  /\ ran' = [ran EXCEPT ![job[w]] = @ + 1]
  /\ thread' = [thread EXCEPT ![w] = "pop"]
  /\ UNCHANGED <<que, job, running, boss, quits, diags, pushed, early>>

-----------------------------------------------------------------------------
(* The thread that starts and stops the pool.                              *)

NumberOfThreads == Cardinality(Worker)

Start ==
  /\ boss = "new"
  /\ boss' = "starting"
  /\ thread' = [w \in Worker |-> "starting"]
  /\ UNCHANGED <<que, job, running, quits, diags, pushed, early, ran>>

(* It looks again and again, and signals every time, until all have begun. *)
AwaitThreads ==
  /\ boss = "starting"
  /\ boss' = IF running >= NumberOfThreads THEN "started" ELSE boss
  /\ Signal(thread)
  /\ UNCHANGED <<que, job, running, quits, diags, pushed, early, ran>>

(* Mutant: the loop over the threads ends one too early.                   *)
EnoughQuitsEarly == quits + 1 >= NumberOfThreads

EnoughQuits == quits >= NumberOfThreads

Stop ==
  /\ boss = "started"
  /\ \/ /\ ~EnoughQuits
        /\ quits' = quits + 1
        /\ QuePush(TQUIT)
        /\ UNCHANGED boss
     \/ /\ EnoughQuits
        /\ \A w \in Worker : thread[w] = "exited"
        /\ boss' = "stopped"
        /\ UNCHANGED <<que, thread, quits>>
  /\ UNCHANGED <<job, running, diags, pushed, early, ran>>

Next ==
  \/ Start \/ AwaitThreads \/ Stop \/ Stats
  \/ \E t \in Task : Exec(t)
  \/ \E w \in Worker : Begin(w) \/ SpuriousWakeup(w) \/ QuePop(w) \/ ProcessFun(w)

(* The scheduler runs every thread that can run, and callbacks return.     *)
(* Nobody has to start or stop the pool, but what was begun goes on.       *)
Fairness ==
  /\ WF_vars(AwaitThreads) /\ WF_vars(quits > 0 /\ Stop)
  /\ \A w \in Worker : WF_vars(Begin(w)) /\ WF_vars(QuePop(w)) /\ WF_vars(ProcessFun(w))

Spec == Init /\ [][Next]_vars /\ Fairness

-----------------------------------------------------------------------------
(* Properties.                                                             *)

(* Every variable keeps its type.                                          *)
TypeOK ==
  /\ que \in Seq(Item)
  /\ thread \in [Worker -> At]
  /\ job \in [Worker -> Item]
  /\ running \in Nat
  /\ boss \in {"new", "starting", "started", "stopped"}
  /\ quits \in Nat /\ diags \in Nat
  /\ pushed \in SUBSET Task /\ early \in SUBSET Task
  /\ ran \in [Task -> Nat]

(* No wake-up is lost: while a thread of the pool sleeps in _que_pop, each *)
(* item in the queue has a thread on its way to it that was woken for it.  *)
NoLostWakeup == Waiting # {} => Len(que) <= Cardinality(Woken)

(* The places a task can be: in the queue, with a thread, or done.         *)
Queued(t) == {i \in DOMAIN que : que[i] = t}
Runners(t) == {w \in Worker : thread[w] = "run" /\ job[w] = t}

(* A task is in one place only, so that no two threads run one callback    *)
(* and none runs twice or is dropped.                                      *)
TaskInOnePlace ==
  \A t \in Task :
    Cardinality(Queued(t)) + Cardinality(Runners(t)) + ran[t] = IF t \in pushed THEN 1 ELSE 0

(* When Oe_Thread_Dispatcher_stop has returned, everything submitted       *)
(* before it has run: the threads get their TQUIT items last.              *)
StopDrains == boss = "stopped" => \A t \in early : ran[t] = 1

(* A stop that was begun returns: no thread sleeps through its TQUIT item  *)
(* and leaves pthread_join waiting.                                        *)
StopReturns == quits > 0 ~> boss = "stopped"

(* Work submitted to a pool that is started, before anyone stops it, runs. *)
EarlyTasksRun == \A t \in Task : (boss # "new" /\ t \in early) ~> ran[t] = 1
=============================================================================
