---------------------------- MODULE ReadScheduler ----------------------------
(***************************************************************************)
(* The read threads of daemon/plugin.c: read functions are registered in   *)
(* a list (to find them by name or group) and in a heap ordered by the     *)
(* time of the next read.  A read thread takes the first one out of the    *)
(* heap, sleeps until it is due, calls it and puts it back.                *)
(*                                                                         *)
(* Every section the code protects with read_lock is one action; so is     *)
(* every call into the heap, which has a lock of its own.  The tests of    *)
(* read_loop that hold no lock are actions of their own.  The heap is a    *)
(* set: module Heap shows that c_heap_get_root returns a least element.    *)
(*                                                                         *)
(* Time is relative: due[r] is rf_next_read - cdtime(), and Tick lowers    *)
(* it, so that behaviours of any duration have finitely many states.  The  *)
(* bound is on delays: no function is ever more than Late overdue.         *)
(***************************************************************************)
EXTENDS Integers, FiniteSets

CONSTANTS
  Threads,          \* threads start_read_threads tries to create
  Funcs,            \* read_func_t objects that may come to exist
  Initial,          \* those registered before the threads are started
  Removable,        \* those somebody may unregister
  NameOf, GroupOf,  \* rf_name and rf_group of each
  Interval,         \* rf_interval of each
  MaxReadInterval,  \* the option MaxReadInterval
  Late,             \* bound: the longest delay of a function
  MayFail,          \* can c_heap_insert run out of memory?
  NoFunc            \* a thread that holds no read function

ASSUME FuncsAssumption ==
  /\ NoFunc \notin Funcs
  /\ Initial \subseteq Funcs /\ Removable \subseteq Funcs
  /\ \A r, s \in Initial : r # s => NameOf[r] # NameOf[s]
ASSUME IntervalAssumption ==
  /\ Interval \in [Funcs -> Nat \ {0}]
  /\ MaxReadInterval \in Nat \ {0}
  /\ Late \in Nat
  /\ Late >= MaxReadInterval /\ \A r \in Funcs : Late >= Interval[r]
ASSUME MayFailAssumption == MayFail \in BOOLEAN

VARIABLES
  read_list,  \* read_list
  heap,       \* read_heap
  rtype,      \* rf_type: "read" (simple or complex) or "remove"
  eff,        \* rf_effective_interval
  due,        \* rf_next_read - cdtime()
  created,    \* objects that have been allocated and inserted
  freed,      \* objects that have been freed
  lost,       \* objects a failed c_heap_insert left in no structure but the list
  readLoop,   \* read_loop
  tpc,        \* where each read thread is in plugin_read_thread
  rf,         \* the thread's local variable rf
  snap,       \* the thread's local variable rf_type
  lateCalls,  \* history: callbacks started after plugin_unregister_read
  spc         \* where the main thread is

vars == <<read_list, heap, rtype, eff, due, created, freed, lost, readLoop, tpc, rf,
          snap, lateCalls, spc>>

funcVars == <<read_list, heap, rtype, eff, due, created, freed, lost, lateCalls>>
threadVars == <<tpc, rf, snap>>

Least(a, b) == IF a <= b THEN a ELSE b
Most(a, b) == IF a >= b THEN a ELSE b

-----------------------------------------------------------------------------
(***************************************************************************)
(* The threads start when plugin_init_all has called the init callbacks;   *)
(* pthread_create may fail for some of them.  With the command line option *)
(* -T (spc = "testing") there are none.                                    *)
(***************************************************************************)
Init ==
  /\ read_list = Initial
  /\ heap = Initial
  /\ created = Initial
  /\ rtype = [r \in Funcs |-> "read"]
  /\ eff = Interval
  /\ due = [r \in Funcs |-> 0]
  /\ freed = {} /\ lost = {}
  /\ readLoop = TRUE
  /\ spc \in {"running", "testing"}
  /\ \E S \in SUBSET Threads :
       /\ spc = "testing" => S = {}
       /\ tpc = [t \in Threads |-> IF t \in S THEN "test" ELSE "absent"]
  /\ rf = [t \in Threads |-> NoFunc]
  /\ snap = [t \in Threads |-> "read"]
  /\ lateCalls = [r \in Funcs |-> 0]

Started == {t \in Threads : tpc[t] # "absent"}

(* pthread_cond_broadcast(&read_cond), for the threads that wait for an    *)
(* entry; one that sleeps until its entry is due re-evaluates the          *)
(* condition of its loop, which EndSleep does at any time.                 *)
Broadcast == tpc' = [t \in Threads |-> IF tpc[t] = "wait" THEN "test" ELSE tpc[t]]

Registered(n) == {r \in read_list : NameOf[r] = n}

(***************************************************************************)
(* plugin_register_read, plugin_register_complex_read and                  *)
(* plugin_insert_read.  A name that is in the list already, or a lack of   *)
(* memory, is refused and changes nothing.                                 *)
(*                                                                         *)
(* plugin_insert_read itself has no guard; MayRegister is about its        *)
(* callers.  They are the configuration, init and read callbacks, and what *)
(* a plugin starts while the daemon runs.  Once the threads are told to    *)
(* stop, only a read callback that has not returned is left.               *)
(***************************************************************************)
MayRegister == spc \in {"running", "testing"} \/ \E t \in Threads : tpc[t] = "call"

InsertRead(r) ==
  /\ MayRegister
  /\ r \in Funcs \ created
  /\ Registered(NameOf[r]) = {}
  /\ created' = created \cup {r}
  /\ read_list' = read_list \cup {r}
  /\ heap' = heap \cup {r}
  /\ due' = [due EXCEPT ![r] = 0]
  /\ eff' = [eff EXCEPT ![r] = Interval[r]]
  /\ Broadcast
  /\ UNCHANGED <<rtype, freed, lost, readLoop, rf, snap, lateCalls, spc>>

\* Mutant: the entry is marked and stays in the list.
UnregisterKeepsEntry(S) ==
  /\ S # {}
  /\ rtype' = [r \in Funcs |-> IF r \in S THEN "remove" ELSE rtype[r]]
  /\ UNCHANGED <<read_list, heap, eff, due, created, freed, lost, readLoop, tpc, rf, snap, lateCalls, spc>>

(* take the entries S off the list and mark them RF_REMOVE, under read_lock *)
MarkRemoved(S) ==
  /\ S # {}
  /\ read_list' = read_list \ S
  /\ rtype' = [r \in Funcs |-> IF r \in S THEN "remove" ELSE rtype[r]]
  /\ UNCHANGED <<heap, eff, due, created, freed, lost, readLoop, tpc, rf, snap, lateCalls, spc>>

UnregisterRead(n) == MarkRemoved(Registered(n) \cap Removable)

UnregisterReadGroup(g) ==
  /\ \A r \in read_list : GroupOf[r] = g => r \in Removable
  /\ MarkRemoved({r \in read_list : GroupOf[r] = g})

-----------------------------------------------------------------------------
(***************************************************************************)
(* plugin_read_thread                                                      *)
(***************************************************************************)
(* while (read_loop != 0), read without the lock *)
TestLoop(t) ==
  /\ tpc[t] = "test"
  /\ tpc' = [tpc EXCEPT ![t] = IF readLoop THEN "get" ELSE "exit"]
  /\ UNCHANGED <<rf, snap, readLoop, spc, funcVars>>

\* Mutant: the function that is due last comes first.
BeforeReversed(r, s) == due[r] >= due[s]

(* plugin_compare_read_func does not put s first *)
Before(r, s) == due[r] <= due[s]

\* Mutant: the root stays in the heap.
GetRootPeeks(t) ==
  /\ tpc[t] = "get"
  /\ \/ /\ heap = {}
        /\ tpc' = [tpc EXCEPT ![t] = "wait"]
        /\ UNCHANGED <<heap, rf>>
     \/ \E r \in heap :
          /\ \A s \in heap : Before(r, s)
          /\ rf' = [rf EXCEPT ![t] = r]
          /\ tpc' = [tpc EXCEPT ![t] = "sleep"]
          /\ UNCHANGED heap
  /\ UNCHANGED <<read_list, rtype, eff, due, created, freed, lost, lateCalls, snap, readLoop, spc>>

(***************************************************************************)
(* c_heap_get_root and, if the heap is empty, pthread_cond_wait, in one    *)
(* critical section.  The intervals are never 0 (plugin_get_interval is    *)
(* greater than zero), so the repair of rf_interval does nothing.          *)
(***************************************************************************)
GetRoot(t) ==
  /\ tpc[t] = "get"
  /\ \/ /\ heap = {}
        /\ tpc' = [tpc EXCEPT ![t] = "wait"]
        /\ UNCHANGED <<heap, rf>>
     \/ \E r \in heap :
          /\ \A s \in heap : Before(r, s)
          /\ heap' = heap \ {r}
          /\ rf' = [rf EXCEPT ![t] = r]
          /\ tpc' = [tpc EXCEPT ![t] = "sleep"]
  /\ UNCHANGED <<read_list, rtype, eff, due, created, freed, lost, lateCalls, snap, readLoop, spc>>

(* pthread_cond_wait may return without a broadcast. *)
SpuriousWakeup(t) ==
  /\ tpc[t] = "wait"
  /\ tpc' = [tpc EXCEPT ![t] = "test"]
  /\ UNCHANGED <<rf, snap, readLoop, spc, funcVars>>

(* the loop around pthread_cond_timedwait ends; rf_type is read under the  *)
(* same lock                                                               *)
EndSleep(t) ==
  /\ tpc[t] = "sleep"
  /\ ~readLoop \/ due[rf[t]] <= 0
  /\ snap' = [snap EXCEPT ![t] = rtype[rf[t]]]
  /\ tpc' = [tpc EXCEPT ![t] = "decide"]
  /\ UNCHANGED <<rf, readLoop, spc, funcVars>>

(* c_heap_insert: its status is ignored by the read threads. *)
HeapInsert(r) ==
  \/ heap' = heap \cup {r} /\ UNCHANGED lost
  \/ MayFail /\ lost' = lost \cup {r} /\ UNCHANGED heap

(* "Insert `rf' again, so it can be free'd correctly", and break *)
StopThread(t) ==
  /\ tpc[t] = "decide"
  /\ ~readLoop
  /\ HeapInsert(rf[t])
  /\ rf' = [rf EXCEPT ![t] = NoFunc]
  /\ snap' = [snap EXCEPT ![t] = "read"]
  /\ tpc' = [tpc EXCEPT ![t] = "exit"]
  /\ UNCHANGED <<read_list, rtype, eff, due, created, freed, lateCalls, readLoop, spc>>

\* Mutant: the function is dropped and not freed.
FreeRemovedLeaks(t) ==
  /\ tpc[t] = "decide"
  /\ readLoop
  /\ snap[t] = "remove"
  /\ rf' = [rf EXCEPT ![t] = NoFunc]
  /\ snap' = [snap EXCEPT ![t] = "read"]
  /\ tpc' = [tpc EXCEPT ![t] = "test"]
  /\ UNCHANGED <<funcVars, readLoop, spc>>

(* the entry has been marked for deletion: free it (the fields of a freed  *)
(* object mean nothing; they get their initial values)                     *)
FreeRemoved(t) ==
  /\ tpc[t] = "decide"
  /\ readLoop
  /\ snap[t] = "remove"
  /\ freed' = freed \cup {rf[t]}
  /\ due' = [due EXCEPT ![rf[t]] = 0]
  /\ eff' = [eff EXCEPT ![rf[t]] = Interval[rf[t]]]
  /\ rf' = [rf EXCEPT ![t] = NoFunc]
  /\ snap' = [snap EXCEPT ![t] = "read"]
  /\ tpc' = [tpc EXCEPT ![t] = "test"]
  /\ UNCHANGED <<read_list, heap, rtype, created, lost, lateCalls, readLoop, spc>>

(* A call of r begins; count it if r has been unregistered. *)
CountCall(r) ==
  lateCalls' = IF rtype[r] = "remove"
               THEN [lateCalls EXCEPT ![r] = Least(2, @ + 1)] ELSE lateCalls

\* Mutant: rf_type is not looked at.
StartCallbackAlways(t) ==
  /\ tpc[t] = "decide"
  /\ readLoop
  /\ CountCall(rf[t])
  /\ tpc' = [tpc EXCEPT ![t] = "call"]
  /\ UNCHANGED <<read_list, heap, rtype, eff, due, created, freed, lost, rf, snap, readLoop, spc>>

StartCallback(t) ==
  /\ tpc[t] = "decide"
  /\ readLoop
  /\ snap[t] # "remove"
  /\ CountCall(rf[t])
  /\ tpc' = [tpc EXCEPT ![t] = "call"]
  /\ UNCHANGED <<read_list, heap, rtype, eff, due, created, freed, lost, rf, snap, readLoop, spc>>

(* rf_effective_interval after a call that succeeds or fails *)
NewInterval(r, ok) == IF ok THEN Interval[r] ELSE Least(2 * eff[r], MaxReadInterval)

(* the callback returns: reschedule the function and put it back *)
CallbackReturns(t) ==
  /\ tpc[t] = "call"
  /\ \E ok \in BOOLEAN :
       LET r == rf[t]
           e == NewInterval(r, ok)
       IN  /\ eff' = [eff EXCEPT ![r] = e]
           /\ due' = [due EXCEPT ![r] = Most(@ + e, 0)]
           /\ HeapInsert(r)
  /\ rf' = [rf EXCEPT ![t] = NoFunc]
  /\ snap' = [snap EXCEPT ![t] = "read"]
  /\ tpc' = [tpc EXCEPT ![t] = "test"]
  /\ UNCHANGED <<read_list, rtype, created, freed, lateCalls, readLoop, spc>>

-----------------------------------------------------------------------------
(***************************************************************************)
(* The main thread: plugin_shutdown_all up to destroy_read_heap.           *)
(***************************************************************************)
\* Mutant: read_loop is not cleared.
StopForgetsLoop ==
  /\ spc = "running"
  /\ spc' = "joining"
  /\ Broadcast
  /\ UNCHANGED <<rf, snap, readLoop, funcVars>>

(* stop_read_threads: clear read_loop and broadcast *)
StopReadThreads ==
  /\ spc = "running"
  /\ spc' = "joining"
  /\ readLoop' = FALSE
  /\ Broadcast
  /\ UNCHANGED <<rf, snap, funcVars>>

(* every thread joined: llist_destroy(read_list) *)
DestroyList ==
  /\ spc \in {"joining", "tested"}
  /\ \A t \in Started : tpc[t] = "exit"
  /\ read_list' = {}
  /\ spc' = "destroying"
  /\ UNCHANGED <<heap, rtype, eff, due, created, freed, lost, lateCalls, readLoop, threadVars>>

DestroyReadHeap ==
  /\ spc = "destroying"
  /\ freed' = freed \cup heap
  /\ heap' = {}
  /\ spc' = "done"
  /\ UNCHANGED <<read_list, rtype, eff, due, created, lost, lateCalls, readLoop, threadVars>>

(***************************************************************************)
(* plugin_read_all_once, for -T: call whatever the heap holds, free it,    *)
(* and leave its entry in the list.                                        *)
(***************************************************************************)
ReadOnce ==
  /\ spc = "testing"
  /\ \E r \in heap :
       /\ \A s \in heap : Before(r, s)
       /\ heap' = heap \ {r}
       /\ freed' = freed \cup {r}
       /\ CountCall(r)
  /\ UNCHANGED <<read_list, rtype, eff, due, created, lost, readLoop, threadVars, spc>>

ReadOnceEnds ==
  /\ spc = "testing"
  /\ heap = {}
  /\ spc' = "tested"
  /\ UNCHANGED <<readLoop, threadVars, funcVars>>

Held == {rf[t] : t \in Threads} \ {NoFunc}

(* time passes; the clock stops while a function is Late overdue *)
Tick ==
  /\ \A r \in heap \cup Held : due[r] > -Late
  /\ due' = [r \in Funcs |-> IF r \in heap \cup Held THEN due[r] - 1 ELSE due[r]]
  /\ UNCHANGED <<read_list, heap, rtype, eff, created, freed, lost, lateCalls, readLoop,
                 threadVars, spc>>

-----------------------------------------------------------------------------
ThreadStep(t) ==
  \/ TestLoop(t) \/ GetRoot(t) \/ EndSleep(t) \/ StopThread(t)
  \/ FreeRemoved(t) \/ StartCallback(t) \/ CallbackReturns(t)

Next ==
  \/ \E r \in Funcs : InsertRead(r)
  \/ \E r \in Funcs : UnregisterRead(NameOf[r]) \/ UnregisterReadGroup(GroupOf[r])
  \/ \E t \in Threads : ThreadStep(t) \/ SpuriousWakeup(t)
  \/ StopReadThreads \/ DestroyList \/ DestroyReadHeap
  \/ ReadOnce \/ ReadOnceEnds
  \/ Tick

Spec == Init /\ [][Next]_vars

(***************************************************************************)
(* Threads that can run do run, callbacks return, time passes, and the     *)
(* main thread goes on once the threads are joined.  Nothing makes anybody *)
(* register, unregister or stop.                                           *)
(***************************************************************************)
Fairness ==
  /\ \A t \in Threads : WF_vars(ThreadStep(t))
  /\ WF_vars(DestroyList \/ DestroyReadHeap)
  /\ WF_vars(Tick)

FairSpec == Spec /\ Fairness
-----------------------------------------------------------------------------
(* Every variable keeps its type.                                          *)
TypeOK ==
  /\ read_list \subseteq Funcs /\ heap \subseteq Funcs
  /\ created \subseteq Funcs /\ freed \subseteq Funcs /\ lost \subseteq Funcs
  /\ rtype \in [Funcs -> {"read", "remove"}]
  /\ eff \in [Funcs -> 1..Late]
  /\ due \in [Funcs -> -Late..Late]
  /\ readLoop \in BOOLEAN
  /\ tpc \in [Threads -> {"absent", "test", "get", "wait", "sleep", "decide", "call", "exit"}]
  /\ rf \in [Threads -> Funcs \cup {NoFunc}]
  /\ snap \in [Threads -> {"read", "remove"}]
  /\ lateCalls \in [Funcs -> 0..2]
  /\ spc \in {"testing", "tested", "running", "joining", "destroying", "done"}

(* Every read function that exists has exactly one owner: the heap, one    *)
(* read thread, the allocator (it is freed) or, after a failed             *)
(* c_heap_insert, nobody.  So no callback runs in two threads at once,     *)
(* none is freed twice, and none is used after it is freed.                *)
OneOwner ==
  /\ created = heap \cup Held \cup freed \cup lost
  /\ heap \cap Held = {} /\ heap \cap freed = {} /\ heap \cap lost = {}
  /\ Held \cap freed = {} /\ Held \cap lost = {} /\ freed \cap lost = {}
  /\ \A t, u \in Threads : t # u /\ rf[t] # NoFunc => rf[t] # rf[u]
  /\ \A t \in Threads : rf[t] # NoFunc <=> tpc[t] \in {"sleep", "decide", "call"}

(* What plugin_unregister_read finds in the list can be marked: no entry   *)
(* points to a freed function, none that is marked stays in the list, and  *)
(* no name is there twice, even if it is unregistered and registered again *)
(* while the old object still waits in the heap to be freed.               *)
ListIsLive ==
  spc \notin {"testing", "tested"} =>
    /\ \A r \in read_list : r \in created \ freed /\ rtype[r] = "read"
    /\ \A r, s \in read_list : r # s => NameOf[r] # NameOf[s]

(* A function that plugin_unregister_read has removed is called at most    *)
(* once more: by the thread that had already read its type when it was     *)
(* marked.                                                                 *)
AtMostOneLateCall == \A r \in Funcs : lateCalls[r] <= 1

(* A registered function is called again and again, as long as it is not   *)
(* unregistered, the daemon runs, there is a thread, and putting it back   *)
(* into the heap does not fail.                                            *)
EveryFunctionIsCalled ==
  \A r \in Funcs :
    r \in read_list /\ Started # {}
      ~> (\E t \in Threads : rf[t] = r /\ tpc[t] = "call")
         \/ r \notin read_list \/ ~readLoop \/ r \in lost

(* An unregistered function does not stay in the heap while the daemon     *)
(* runs: a thread finds it and frees it.                                   *)
RemovedIsFreed ==
  \A r \in Funcs :
    rtype[r] = "remove" /\ Started # {} ~> r \in freed \cup lost \/ ~readLoop

(* Only a thread that waits on the empty heap can keep stop_read_threads   *)
(* from joining: one that sleeps, calls or puts back a function notices    *)
(* that read_loop has been cleared.                                        *)
OnlyIdleBlocksStop ==
  spc = "joining" ~> spc = "done" \/ \E t \in Threads : tpc[t] = "wait"

(* collectd.pod:127 of SIGINT and SIGTERM: "These signals cause collectd   *)
(* to shut down all plugins and terminate."  stop_read_threads must join   *)
(* every read thread.                                                      *)
StopTerminates == spc = "joining" ~> spc = "done"
=============================================================================
