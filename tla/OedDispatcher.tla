--------------------------- MODULE OedDispatcher ---------------------------
(***************************************************************************)
(* The template matcher (corelib/Oed_Dispatcher.c, created with one        *)
(* thread): gets that found nothing leave their templates here, every item *)
(* that becomes visible in the store is processed here, and a template     *)
(* that matches has its handler run, as has one whose time is over.        *)
(*                                                                         *)
(* Any thread pushes work on a queue and then, in a step of its own,       *)
(* writes one byte to a pipe.  One event loop reads up to BATCH_SZ bytes   *)
(* and pops one item for each; it also runs the timers.  The table of      *)
(* templates belongs to the loop; the list that holds the templates of one *)
(* call of reg_group together is made by the calling thread and freed by   *)
(* the loop.                                                               *)
(***************************************************************************)
EXTENDS Naturals, Sequences, FiniteSets, FiniteSetsExt

CONSTANTS
  Caller,    \* the threads that call the dispatcher
  Group,     \* the calls of reg_group
  Templates, \* per group: the sequence of its templates, sequences of fields
  Consume,   \* the groups of takes
  Finite,    \* the groups with a duration other than OEC_FOREVER
  Object,    \* the objects that are processed, sequences of fields
  Wild,      \* the field "_"
  BATCH_SZ,  \* most bytes read at once
  PipeSize,  \* bytes the pipe holds
  MaxCalls   \* bound on the calls other than reg_group and stop

ASSUME DispatcherAssumption ==
  /\ BATCH_SZ \in Nat \ {0} /\ PipeSize \in Nat \ {0} /\ MaxCalls \in Nat
  /\ IsFiniteSet(Caller)
  /\ Consume \subseteq Group /\ Finite \subseteq Group
  /\ DOMAIN Templates = Group
  /\ \A g \in Group : /\ Len(Templates[g]) \in Nat \ {0}
                       /\ \A i \in 1 .. Len(Templates[g]) : Len(Templates[g][i]) \in Nat
  /\ \A o \in Object : Len(o) \in Nat /\ DOMAIN o = 1 .. Len(o)

VARIABLES
  que,     \* the items pushed and not popped
  pipe,    \* the bytes written and not read
  caller,  \* per thread: what it still has to push, and whether a byte is due
  group,   \* per group: "none", or whether its list is "live" or "freed"
  entry,   \* per template: where it is and what its item_ says
  items,   \* the table: per key in use, its set of templates
  ran,     \* per group: how often one of its handlers has run
  loop,    \* where the event loop is
  heart,   \* the heartbeat timer is armed
  quit,    \* whether a stop was asked for, or event_base_loopexit called
  calls,   \* calls made so far, of those that are bounded
  crashed  \* memory was used after it was freed, and the program is gone

vars == <<que, pipe, caller, group, entry, items, ran, loop, heart, quit, calls, crashed>>
table == <<group, entry, items, ran>>

(* A template is named by its group and its place there, counted from 0 as *)
(* the members of a group and the fields of a template are in the code.    *)
Sid == UNION {{<<g, i>> : i \in 0 .. Len(Templates[g]) - 1} : g \in Group}
Members(g) == {t \in Sid : t[1] = g}
Fields(t) == Templates[t[1]][t[2] + 1]
Index(t) == 0 .. Len(Fields(t)) - 1
Field(t, i) == Fields(t)[i + 1]

(* Where an item_ is: not pushed or still in the queue, in a set of the    *)
(* table, registered without a set, in a set that was freed, or freed.     *)
Where == {"new", "set", "loose", "stale", "freed"}
NewEntry == [where |-> "new", key_idx |-> 0, handlers |-> TRUE, grouped |-> FALSE, timer |-> FALSE]

Reg(t) == [type |-> "REG", sid |-> t]
End(g) == [type |-> "END", sid |-> <<g, 0>>]   \* no item: the loop of reg_group is over
Unreg(t) == [type |-> "UNREG", sid |-> t]
Process(o) == [type |-> "PROCESS", object |-> o]
Execute == [type |-> "EXECUTE"]
Heartbeat == [type |-> "HEARTBEAT"]
Tquit == [type |-> "TQUIT"]

QueItem == {Reg(t) : t \in Sid} \cup {Unreg(t) : t \in Sid} \cup {Process(o) : o \in Object}
           \cup {Execute, Heartbeat, Tquit}

Idle == [todo |-> <<>>, due |-> FALSE]
Outside(at) == [at |-> at, n |-> 0, object |-> <<>>, k |-> 0, array |-> {}]
Poll == Outside("poll")

Init ==
  /\ que = <<>> /\ pipe = 0
  /\ caller = [c \in Caller |-> Idle]
  /\ group = [g \in Group |-> "none"]
  /\ entry = [t \in Sid |-> NewEntry]
  /\ items = [k \in {} |-> {}]
  /\ ran = [g \in Group |-> 0]
  /\ loop = Poll /\ heart = TRUE /\ quit = "no"
  /\ calls = 0 /\ crashed = FALSE

-----------------------------------------------------------------------------
(* The threads that call.                                                  *)

Call(c, todo) ==
  /\ ~crashed /\ caller[c] = Idle
  /\ caller' = [caller EXCEPT ![c] = [todo |-> todo, due |-> FALSE]]
  /\ UNCHANGED <<que, pipe, entry, items, ran, loop, heart, crashed>>

(* Oed_Dispatcher_reg_group makes the items and their list first.          *)
RegGroup(c, g) ==
  /\ group[g] = "none"
  /\ group' = [group EXCEPT ![g] = "live"]
  /\ Call(c, Append([i \in 1 .. Len(Templates[g]) |-> Reg(<<g, i - 1>>)], End(g)))
  /\ UNCHANGED <<quit, calls>>

(* Oed_Dispatcher_process, _exec, _stats and _unreg push one item each.    *)
(* The sid that reg_group returns is the one of the last member.           *)
Submit(c) ==
  /\ calls < MaxCalls
  /\ calls' = calls + 1
  /\ \/ \E o \in Object : Call(c, <<Process(o)>>)
     \/ Call(c, <<Execute>>)
     \/ \E g \in Group : /\ group[g] # "none"
                         /\ \A d \in Caller : caller[d].todo = <<>>
                         /\ Call(c, <<Unreg(<<g, Len(Templates[g]) - 1>>)>>)
  /\ UNCHANGED <<group, quit>>

Stop(c) ==
  /\ quit = "no"
  /\ quit' = "asked"
  /\ Call(c, <<Tquit>>)
  /\ UNCHANGED <<group, calls>>

Item(c) == Head(caller[c].todo)
Ready(c) == ~crashed /\ caller[c].todo # <<>> /\ ~caller[c].due

(* _que_push, up to the unlock.                                            *)
QuePush(c) ==
  /\ Ready(c) /\ Item(c).type # "END"
  /\ que' = Append(que, Item(c))
  /\ caller' = [caller EXCEPT ![c] = [todo |-> caller[c].todo, due |-> TRUE]]
  /\ entry' = IF Item(c).type = "REG"
              THEN [entry EXCEPT ![Item(c).sid].grouped = TRUE] ELSE entry
  /\ UNCHANGED <<pipe, group, items, ran, loop, heart, quit, calls, crashed>>

(* The byte that wakes the loop; a full pipe keeps the thread waiting.     *)
WriteByte(c) ==
  /\ ~crashed /\ caller[c].due /\ pipe < PipeSize
  /\ pipe' = pipe + 1
  /\ caller' = [caller EXCEPT ![c] = [todo |-> Tail(caller[c].todo), due |-> FALSE]]
  /\ UNCHANGED <<que, group, entry, items, ran, loop, heart, quit, calls, crashed>>

(* The condition of the loop in reg_group reads the length of a list that  *)
(* the event loop may have freed.  Then the loop may end here, go on       *)
(* (QuePush, EndGroup), or be the end of the program.                      *)
FreedListRead(c) ==
  /\ Ready(c) /\ Item(c).type \in {"REG", "END"} /\ group[Item(c).sid[1]] = "freed"
  /\ \/ caller' = [caller EXCEPT ![c] = Idle] /\ UNCHANGED crashed
     \/ crashed' = TRUE /\ UNCHANGED caller
  /\ UNCHANGED <<que, pipe, group, entry, items, ran, loop, heart, quit, calls>>

EndGroup(c) ==
  /\ Ready(c) /\ Item(c).type = "END"
  /\ caller' = [caller EXCEPT ![c] = Idle]
  /\ UNCHANGED <<que, pipe, group, entry, items, ran, loop, heart, quit, calls, crashed>>

-----------------------------------------------------------------------------
(* The table of templates.                                                 *)

Concrete(t) == {i \in Index(t) : Field(t, i) # Wild}
Unused(t) == {i \in Concrete(t) : Field(t, i) \notin DOMAIN items}
SetSize(t, i) == Cardinality(items[Field(t, i)])

(* The most unique key: the first one nobody uses, else the first of those *)
(* with the smallest set.                                                  *)
KeyIdx(t) ==
  IF Unused(t) # {} THEN Min(Unused(t))
  ELSE Min({i \in Concrete(t) : \A j \in Concrete(t) : SetSize(t, i) <= SetSize(t, j)})

(* _add_template and _watch_for_timeout.                                   *)
AddTemplate(t) ==
  /\ IF Concrete(t) = {}
     THEN /\ entry' = [entry EXCEPT ![t].where = "loose", ![t].timer = t[1] \in Finite]
          /\ UNCHANGED items
     ELSE LET k == KeyIdx(t)
              key == Field(t, k)
          IN /\ entry' = [entry EXCEPT ![t].where = "set", ![t].key_idx = k,
                                       ![t].timer = t[1] \in Finite]
             /\ items' = [f \in DOMAIN items \cup {key} |->
                            (IF f \in DOMAIN items THEN items[f] ELSE {})
                            \cup (IF f = key THEN {t} ELSE {})]
  /\ UNCHANGED <<group, ran>>

(* Mutant: the handlers of the other members are left in place.            *)
KeepsHandlerAll(m) == entry[m].handlers

(* Mutant: no member keeps its handlers.                                   *)
KeepsHandlerNone(m) == FALSE

(* "don't run 'em twice": only the first member keeps its handlers.        *)
KeepsHandler(m) == entry[m].handlers /\ m[2] = 0

(* Who goes when t is removed, and which of them are found in their set.   *)
Going(t) == IF entry[t].grouped THEN Members(t[1]) ELSE {t}
Found(t) == {m \in Going(t) : entry[m].where = "set"}

(* Mutant: only the timer that has fired is gone.                          *)
TimerKeptAlways(t, m, timeout) == entry[m].timer /\ ~(timeout /\ m = t)

(* timeout_del, for those found; the timer that has fired is gone anyway.  *)
TimerKept(t, m, timeout) == entry[m].timer /\ m \notin Found(t) /\ ~(timeout /\ m = t)

(* A set that became empty goes with the last template in it, unless that  *)
(* was filed under its first field (key_idx 0).                            *)
Emptied(key, gone) ==
  LET here == gone \cap items[key]
  IN /\ here # {} /\ items[key] \subseteq gone
     /\ \E m \in here : entry[m].key_idx # 0 /\ \A o \in here : o[2] <= m[2]

(* _remove_item and _remove_group, with the handler of a template that     *)
(* timed out.  extra counts the match handler the caller has just run.     *)
Removed(t, timeout, extra) ==
  LET g == t[1]
      handlers == [m \in Going(t) |-> IF entry[t].grouped THEN KeepsHandler(m) ELSE entry[m].handlers]
  IN /\ entry' = [m \in Sid |->
                    IF m \in Going(t)
                    THEN [where    |-> IF m \in Found(t) THEN "freed" ELSE entry[m].where,
                          key_idx  |-> entry[m].key_idx,
                          handlers |-> handlers[m],
                          grouped  |-> FALSE,
                          timer    |-> TimerKept(t, m, timeout)]
                    ELSE entry[m]]
     /\ items' = [key \in {f \in DOMAIN items : ~Emptied(f, Found(t))} |-> items[key] \ Found(t)]
     /\ group' = IF entry[t].grouped THEN [group EXCEPT ![g] = "freed"] ELSE group
     /\ ran' = [ran EXCEPT ![g] = @ + extra +
                  IF timeout THEN Cardinality({m \in Found(t) : handlers[m]}) ELSE 0]

(* What _remove_item would follow was freed: the list of the group, or the *)
(* set of one of its members.                                              *)
Dangling(t) ==
  \/ entry[t].grouped /\ group[t[1]] = "freed"
  \/ \E m \in Going(t) : entry[m].where = "stale"

Remove(t, timeout, extra) ==
  \/ ~Dangling(t) /\ Removed(t, timeout, extra) /\ UNCHANGED crashed
  \/ Dangling(t) /\ crashed' = TRUE /\ UNCHANGED table

-----------------------------------------------------------------------------
(* The event loop.                                                         *)

Running == ~crashed /\ loop.at # "exited"

(* Mutant: a batch pops one item more than the bytes it has read.          *)
BatchMore(n) == [at |-> IF n = 0 THEN "poll" ELSE "batch", n |-> n + 1,
                 object |-> <<>>, k |-> 0, array |-> {}]

(* Mutant: one item is popped, however many bytes were read.               *)
BatchOne(n) == [at |-> IF n = 0 THEN "poll" ELSE "batch", n |-> IF n = 0 THEN 0 ELSE 1,
                object |-> <<>>, k |-> 0, array |-> {}]

(* Back in the loop of _process_que, with n items to pop.                  *)
Batch(n) == [at |-> IF n = 0 THEN "poll" ELSE "batch", n |-> n,
             object |-> <<>>, k |-> 0, array |-> {}]

ReadPipe ==
  /\ Running /\ loop.at = "poll" /\ pipe > 0
  /\ LET n == Min({pipe, BATCH_SZ})
     IN pipe' = pipe - n /\ loop' = Batch(n)
  /\ UNCHANGED <<que, caller, group, entry, items, ran, heart, quit, calls, crashed>>

TimeoutCb(t) ==
  /\ Running /\ loop.at = "poll" /\ entry[t].timer
  /\ Remove(t, TRUE, 0)
  /\ UNCHANGED <<que, pipe, caller, loop, heart, quit, calls>>

(* _heartbeat_cb pushes from within the loop, and writes the byte as well. *)
HeartbeatCb ==
  /\ Running /\ loop.at = "poll" /\ heart
  /\ heart' = FALSE
  /\ que' = Append(que, Heartbeat)
  /\ loop' = Outside("beat")
  /\ UNCHANGED <<pipe, caller, group, entry, items, ran, quit, calls, crashed>>

HeartbeatByte ==
  /\ Running /\ loop.at = "beat" /\ pipe < PipeSize
  /\ pipe' = pipe + 1
  /\ loop' = Poll
  /\ UNCHANGED <<que, caller, group, entry, items, ran, heart, quit, calls, crashed>>

(* _que_pop, of an item of the given type.  That there is one for every    *)
(* byte is BytesMatchItems.                                                *)
QuePop(type) ==
  /\ Running /\ loop.at = "batch" /\ que # <<>> /\ Head(que).type = type
  /\ que' = Tail(que)
  /\ UNCHANGED <<pipe, caller, calls>>

Done == loop' = Batch(loop.n - 1)

DoReg ==
  /\ QuePop("REG") /\ Done
  /\ AddTemplate(Head(que).sid)
  /\ UNCHANGED <<heart, quit, crashed>>

(* _remove_item is given a new item_ that holds the sid and no set.        *)
DoUnreg ==
  /\ QuePop("UNREG") /\ Done
  /\ UNCHANGED <<group, entry, items, ran, heart, quit, crashed>>

(* An EXECUTE runs its function.  A DIAG, which only prints, is one too.   *)
DoExecute ==
  /\ QuePop("EXECUTE") /\ Done
  /\ UNCHANGED <<group, entry, items, ran, heart, quit, crashed>>

DoHeartbeat ==
  /\ QuePop("HEARTBEAT") /\ Done
  /\ heart' = TRUE
  /\ UNCHANGED <<group, entry, items, ran, quit, crashed>>

(* loopexit, and _free_items, which frees every second set only.           *)
DoQuit ==
  /\ QuePop("TQUIT") /\ Done
  /\ quit' = "yes"
  /\ \E D \in SUBSET DOMAIN items :
       /\ Cardinality(D) = (Cardinality(DOMAIN items) + 1) \div 2
       /\ items' = [key \in DOMAIN items \ D |-> items[key]]
       /\ entry' = [t \in Sid |-> IF \E key \in D : t \in items[key]
                                 THEN [entry[t] EXCEPT !.where = "stale"] ELSE entry[t]]
  /\ UNCHANGED <<group, ran, heart, crashed>>

(* The loop ends some time after that, when it is between two callbacks.   *)
Exit ==
  /\ Running /\ loop.at = "poll" /\ quit = "yes"
  /\ loop' = Outside("exited")
  /\ UNCHANGED <<que, pipe, caller, group, entry, items, ran, heart, quit, calls, crashed>>

-----------------------------------------------------------------------------
(* A PROCESS item: _process, one field after the other, and _processSet,   *)
(* one template of the array after the other.                              *)

InProcess(object, k, array) ==
  loop' = [at |-> "process", n |-> loop.n, object |-> object, k |-> k, array |-> array]

DoProcess ==
  /\ QuePop("PROCESS")
  /\ InProcess(Head(que).object, 0, {})
  /\ UNCHANGED <<group, entry, items, ran, heart, quit, crashed>>

(* Mutant: a field that is no key ends the search.                         *)
NextFieldBreak ==
  /\ Running /\ loop.at = "process" /\ loop.array = {}
  /\ IF loop.k < Len(loop.object) /\ loop.object[loop.k + 1] \in DOMAIN items
     THEN InProcess(loop.object, loop.k + 1, items[loop.object[loop.k + 1]])
     ELSE loop' = Batch(loop.n - 1)
  /\ UNCHANGED <<que, pipe, caller, group, entry, items, ran, heart, quit, calls, crashed>>

NextField ==
  /\ Running /\ loop.at = "process" /\ loop.array = {}
  /\ IF loop.k = Len(loop.object) THEN Done
     ELSE LET key == loop.object[loop.k + 1]
          IN InProcess(loop.object, loop.k + 1, IF key \in DOMAIN items THEN items[key] ELSE {})
  /\ UNCHANGED <<que, pipe, caller, group, entry, items, ran, heart, quit, calls, crashed>>

(* Every field but the key is found among the others of the object.        *)
Matched(t) ==
  \A j \in Index(t) \ {entry[t].key_idx} :
    \E k \in DOMAIN loop.object \ {loop.k} : Field(t, j) \in {loop.object[k], Wild}

(* The array was made before the first of its templates matched.  One that *)
(* was freed since is still read: the memory may hold what it held.        *)
Visit(t) ==
  /\ Running /\ loop.at = "process" /\ t \in loop.array
  /\ \/ /\ ~Matched(t)
        /\ InProcess(loop.object, loop.k, loop.array \ {t})
        /\ UNCHANGED <<group, entry, items, ran, crashed>>
     \/ /\ Matched(t)
        /\ Remove(t, FALSE, IF entry[t].handlers THEN 1 ELSE 0)
        /\ IF t[1] \in Consume THEN Done
           ELSE InProcess(loop.object, loop.k, loop.array \ {t})
  /\ UNCHANGED <<que, pipe, caller, heart, quit, calls>>

FreedItemRead(t) ==
  /\ Running /\ loop.at = "process" /\ t \in loop.array
  /\ entry[t].where = "freed"
  /\ crashed' = TRUE
  /\ UNCHANGED <<que, pipe, caller, group, entry, items, ran, loop, heart, quit, calls>>

Loop ==
  \/ ReadPipe \/ HeartbeatByte \/ Exit
  \/ DoReg \/ DoUnreg \/ DoExecute \/ DoHeartbeat \/ DoQuit \/ DoProcess
  \/ NextField \/ \E t \in Sid : Visit(t)

Return(c) == QuePush(c) \/ WriteByte(c) \/ EndGroup(c)

Next ==
  \/ Loop \/ HeartbeatCb
  \/ \E t \in Sid : TimeoutCb(t) \/ FreedItemRead(t)
  \/ \E c \in Caller :
       \/ Return(c) \/ FreedListRead(c) \/ Submit(c) \/ Stop(c)
       \/ \E g \in Group : RegGroup(c, g)

(* Threads run.  libevent runs a timer that is due, and the exit is one,   *)
(* however often the pipe is readable as well.                             *)
Fairness ==
  /\ WF_vars(Loop) /\ SF_vars(Exit)
  /\ \A c \in Caller : WF_vars(Return(c))
  /\ \A t \in Sid : SF_vars(TimeoutCb(t))

Spec == Init /\ [][Next]_vars /\ Fairness

-----------------------------------------------------------------------------
(* Properties.                                                             *)

(* Every variable keeps its type.                                          *)
TypeOK ==
  /\ que \in Seq(QueItem)
  /\ pipe \in 0 .. PipeSize
  /\ caller \in [Caller -> [todo : Seq(QueItem \cup {End(g) : g \in Group}), due : BOOLEAN]]
  /\ group \in [Group -> {"none", "live", "freed"}]
  /\ entry \in [Sid -> [where : Where, key_idx : Nat, handlers : BOOLEAN,
                         grouped : BOOLEAN, timer : BOOLEAN]]
  /\ \A key \in DOMAIN items : items[key] \subseteq Sid
  /\ ran \in [Group -> Nat]
  /\ loop.at \in {"poll", "beat", "batch", "process", "exited"} /\ loop.n \in 0 .. BATCH_SZ
  /\ heart \in BOOLEAN /\ quit \in {"no", "asked", "yes"}
  /\ calls \in 0 .. MaxCalls /\ crashed \in BOOLEAN

(* The pops of the current batch that are still to come.                   *)
PopsDue == IF loop.at = "process" THEN loop.n - 1 ELSE loop.n

(* The bytes that are still to be written, by the threads and by the loop. *)
BytesDue ==
  Cardinality({c \in Caller : caller[c].due}) + IF loop.at = "beat" THEN 1 ELSE 0

(* Every item in the queue has its byte: in the pipe, in the batch the     *)
(* loop works on, or with the thread that pushed it and has yet to write.  *)
(* So _que_pop finds an item for every byte, que->size is never negative,  *)
(* and no item stays behind without a byte to wake the loop.               *)
BytesMatchItems == Len(que) = pipe + PopsDue + BytesDue

(* One call of reg_group has one answer: a handler, of a match or of a     *)
(* timeout, runs at most once for all its templates.                       *)
HandlerRunsOnce == \A g \in Group : ran[g] <= 1

(* A timer belongs to an item_ that was not freed.                         *)
TimersAreLive == \A t \in Sid : entry[t].timer => entry[t].where # "freed"

(* The rule of Oed_Dispatcher.h: all fields of the template are among the  *)
(* fields of the object.                                                   *)
Rule(t, o) == \A i \in Concrete(t) : \E k \in DOMAIN o : o[k] = Field(t, i)

(* When an object was processed and no take consumed it, no template that  *)
(* matches it by the rule is left in the table: filing each template under *)
(* one key, and looking only under the keys of the object, misses none.    *)
NoMatchLeft ==
  [][(loop.at = "process" /\ loop.array = {} /\ loop'.at # "process") =>
       \A t \in Sid : entry[t].where = "set" => ~Rule(t, loop.object)]_vars

(* A group with a duration gets its answer, by a match or by its timer.    *)
(* Its first template must have a field other than "_".                    *)
FiniteGroupAnswered ==
  \A g \in Finite :
    group[g] # "none" ~> ran[g] > 0 \/ quit # "no" \/ crashed \/ Concrete(<<g, 0>>) = {}

(* Once a thread waits in Oed_Dispatcher_stop, the loop ends.              *)
StopReturns == quit = "asked" ~> loop.at = "exited" \/ crashed
=============================================================================
