------------------------------- MODULE Daemon -------------------------------
(***************************************************************************)
(* The life of the daemon from plugin_init_all to the end of               *)
(* plugin_shutdown_all: run_loop and do_loop (daemon/collectd.c), the      *)
(* signal handlers (daemon/cmd.c), and the callback lists of               *)
(* daemon/plugin.c with everybody who walks them:                          *)
(*                                                                         *)
(*   "main"    the main thread: init, missing, flush, shutdown callbacks;  *)
(*   "reader"  a read thread, "writer" a write thread;                     *)
(*   "flusher" the detached thread sig_usr1_handler creates;               *)
(*   q         the thread a plugin q \in Threaded starts in its init       *)
(*             callback and joins in its shutdown callback, as network     *)
(*             does;                                                       *)
(*   d         a detached thread, which nobody joins: a connection of      *)
(*             unixsock, started by the plugin's thread, or a program of   *)
(*             exec, started by its read callback.                         *)
(*                                                                         *)
(* The lists are walked without a lock.  A walker stands on an entry while *)
(* the callback runs and reads that entry's `next' when it has returned;   *)
(* if the entry, or the whole list, was freed meanwhile, it reads freed    *)
(* memory, which `bad' records.  Several threads of a kind behave as one   *)
(* here; their interplay is the subject of ReadScheduler and WriteQueue.   *)
(*                                                                         *)
(* A thread that is told to stop may miss it: the broadcast for the read   *)
(* threads comes between a test of read_loop and the wait on read_cond     *)
(* (ReadScheduler), the signal to a plugin's thread between its test of    *)
(* the flag and the call that waits.  It is then deaf, and joining it      *)
(* takes for ever.                                                         *)
(***************************************************************************)
EXTENDS Naturals, Functions

CONSTANTS
  Plugins,        \* all plugins
  Rank,           \* their places in the order of registration
  Has,            \* Has[k]: the plugins with a callback of kind k
  SameName,       \* plugins whose read callback is named as their init callback
  Threaded,       \* plugins with a thread of their own
  Spawning,       \* plugins that start detached threads
  Detached,       \* the detached threads
  Unregistering,  \* plugins whose shutdown callback unregisters its entries
  None,
  MaxQueue,       \* bound: families in the write queue
  MaxFlush        \* bound: SIGUSR1 signals

Kinds == {"init", "read", "write", "missing", "flush", "notification", "shutdown"}
Walkers == {"main", "reader", "writer", "flusher"} \cup Threaded \cup Detached

ASSUME DaemonAssumption ==
  /\ Rank \in Injection(Plugins, Nat) /\ Has \in [Kinds -> SUBSET Plugins]
  /\ \A k \in Kinds, p \in Plugins : <<k, p>> # None
  /\ Threaded \subseteq Has["init"] \cap Has["shutdown"]
  /\ {"main", "reader", "writer", "flusher"} \cap (Threaded \cup Detached) = {}
  /\ Threaded \cap Detached = {}
  /\ Unregistering \subseteq Has["shutdown"]
  /\ MaxQueue \in Nat \ {0} /\ MaxFlush \in Nat

VARIABLES
  pc,       \* what the main thread does
  loop,     \* the flag `loop': a signal asked the daemon to stop
  lists,    \* lists[k]: the plugins in list_init, list_write, ..., the read heap
  at,       \* at[w]: the entry <<kind, plugin>> w stands on, or None
  left,     \* where the walk of list_shutdown goes on: an entry or None
  alive,    \* threads that run
  stopping, \* plugins whose thread was told to stop
  deaf,     \* threads that missed that they were told to stop
  queued,   \* write_queue_length
  usr1,     \* SIGUSR1 signals received
  failed,   \* plugins whose init callback failed
  down,     \* plugins whose shutdown callback has returned
  bad       \* <<k, w>>: w read freed memory in the list of kind k

vars == <<pc, loop, lists, at, left, alive, stopping, deaf, queued, usr1, failed, down, bad>>

Init ==
  /\ pc = "init" /\ loop = FALSE
  /\ lists = Has
  /\ at = [w \in Walkers |-> None] /\ left = None
  /\ alive = {"main"} /\ stopping = {} /\ deaf = {}
  /\ queued = 0 /\ usr1 = 0
  /\ failed = {} /\ down = {} /\ bad = {}

-----------------------------------------------------------------------------
(* Walking a list: llist_head and le->next.                                *)

FirstOf(k, S) ==
  IF S = {} THEN None ELSE <<k, CHOOSE p \in S : \A q \in S : Rank[p] <= Rank[q]>>

First(k) == FirstOf(k, lists[k])

After(e) == FirstOf(e[1], {p \in lists[e[1]] : Rank[p] > Rank[e[2]]})

(* the entry has not been freed *)
Linked(e) == e[2] \in lists[e[1]]

(* The callback w was in returns and w looks for the next entry.  Behind a
   freed entry there may be anything; the walk then ends. *)
Step(w) ==
  IF Linked(at[w])
  THEN at' = [at EXCEPT ![w] = After(@)] /\ bad' = bad
  ELSE at' = [at EXCEPT ![w] = None] /\ bad' = bad \cup {<<at[w][1], w>>}

Begin(w, k) == at[w] = None /\ at' = [at EXCEPT ![w] = First(k)]

-----------------------------------------------------------------------------
(* plugin_init_all.                                                        *)

EnterInit ==
  /\ pc = "init"
  /\ Begin("main", "init")
  /\ pc' = IF First("init") = None THEN "start" ELSE "initing"
  /\ UNCHANGED <<loop, lists, left, alive, stopping, deaf, queued, usr1, failed, down, bad>>

(* plugin_unregister_read with the name of the init callback that failed: a
   read callback of another name stays. *)
AfterFailure(p) == IF p \in SameName THEN lists["read"] \ {p} ELSE lists["read"]

InitReturns ==
  /\ pc = "initing"
  /\ LET p == at["main"][2] IN
     \/ /\ alive' = alive \cup ({p} \cap Threaded)
        /\ UNCHANGED <<lists, failed>>
     \/ /\ failed' = failed \cup {p}
        /\ lists' = [lists EXCEPT !["read"] = AfterFailure(p)]
        /\ UNCHANGED alive
  /\ Step("main")
  /\ pc' = IF at'["main"] = None THEN "start" ELSE "initing"
  /\ UNCHANGED <<loop, left, stopping, deaf, queued, usr1, down>>

(* start_write_threads and start_read_threads; neither without any init or
   read callback. *)
StartThreads ==
  /\ pc = "start"
  /\ alive' = IF lists["init"] = {} /\ Has["read"] = {} THEN alive
              ELSE alive \cup {"writer"}
                         \cup (IF Has["read"] = {} THEN {} ELSE {"reader"})
  /\ pc' = "test"
  /\ UNCHANGED <<loop, lists, at, left, stopping, deaf, queued, usr1, failed, down, bad>>

-----------------------------------------------------------------------------
(* do_loop.                                                                *)

(* while (loop == 0): uc_check_timeout, which may find a metric missing. *)
TestLoop ==
  /\ pc = "test"
  /\ \/ loop /\ pc' = "destroy_init" /\ UNCHANGED at
     \/ ~loop /\ pc' = "retest" /\ UNCHANGED at
     \/ ~loop /\ Begin("main", "missing")
              /\ pc' = IF First("missing") = None THEN "retest" ELSE "missing"
  /\ UNCHANGED <<loop, lists, left, alive, stopping, deaf, queued, usr1, failed, down, bad>>

(* A missing callback may end the walk, or send a notification. *)
MissingReturns ==
  /\ pc = "missing"
  /\ \/ Step("main")
     \/ at' = [at EXCEPT !["main"] = None] /\ bad' = bad
     \/ at' = [at EXCEPT !["main"] = First("notification")] /\ bad' = bad
  /\ pc' = IF at'["main"] = None THEN "retest"
           ELSE IF at'["main"][1] = "missing" THEN "missing" ELSE "notifying"
  /\ UNCHANGED <<loop, lists, left, alive, stopping, deaf, queued, usr1, failed, down>>

NotificationReturns ==
  /\ pc = "notifying"
  /\ Step("main")
  /\ pc' = IF at'["main"] = None THEN "retest" ELSE "notifying"
  /\ UNCHANGED <<loop, lists, left, alive, stopping, deaf, queued, usr1, failed, down>>

(* while ((loop == 0) && (nanosleep ...)): a signal between this test and
   the sleep does not interrupt it.  No sleep when the interval is over. *)
RetestLoop ==
  /\ pc = "retest"
  /\ pc' \in IF loop THEN {"test"} ELSE {"test", "sleep"}
  /\ UNCHANGED <<loop, lists, at, left, alive, stopping, deaf, queued, usr1, failed, down, bad>>

(* The interval is over. *)
Wake ==
  /\ pc = "sleep" /\ pc' = "test"
  /\ UNCHANGED <<loop, lists, at, left, alive, stopping, deaf, queued, usr1, failed, down, bad>>

-----------------------------------------------------------------------------
(* The signal handlers and the flush thread.                               *)

(* sig_term_handler and sig_int_handler: loop++, and EINTR for nanosleep if
   the signal is delivered to the main thread. *)
Term ==
  /\ pc # "exited" /\ ~loop
  /\ loop' = TRUE
  /\ pc' \in {pc, IF pc = "sleep" THEN "retest" ELSE pc}
  /\ UNCHANGED <<lists, at, left, alive, stopping, deaf, queued, usr1, failed, down, bad>>

(* sig_usr1_handler; nanosleep goes on with what is left of the interval. *)
Usr1 ==
  /\ pc # "exited" /\ usr1 < MaxFlush
  /\ "flusher" \notin alive
  /\ usr1' = usr1 + 1 /\ alive' = alive \cup {"flusher"}
  /\ Begin("flusher", "flush")
  /\ UNCHANGED <<pc, loop, lists, left, stopping, deaf, queued, failed, down, bad>>

Flusher ==
  /\ pc # "exited" /\ "flusher" \in alive
  /\ IF at["flusher"] = None
     THEN alive' = alive \ {"flusher"} /\ UNCHANGED <<at, bad>>
     ELSE Step("flusher") /\ UNCHANGED alive
  /\ UNCHANGED <<pc, loop, lists, left, stopping, deaf, queued, usr1, failed, down>>

-----------------------------------------------------------------------------
(* Read, write and plugin threads.                                         *)

(* A read callback is called and may have dispatched a family when it
   returns; the flush timers of plugin_register_flush run here as well. *)
Reader ==
  /\ "reader" \in alive
  /\ \/ /\ at["reader"] = None /\ pc # "join_read"
        /\ \/ \E p \in lists["read"] : at' = [at EXCEPT !["reader"] = <<"read", p>>]
           \/ \E p \in lists["flush"] : at' = [at EXCEPT !["reader"] = <<"flush", p>>]
        /\ UNCHANGED <<queued, bad>>
     \/ /\ at["reader"] # None
        /\ at' = [at EXCEPT !["reader"] = None]
        /\ bad' = IF Linked(at["reader"]) THEN bad ELSE bad \cup {<<at["reader"][1], "reader">>}
        /\ queued' \in {queued, IF queued < MaxQueue THEN queued + 1 ELSE queued}
  /\ UNCHANGED <<pc, loop, lists, left, alive, stopping, deaf, usr1, failed, down>>

(* A family is taken and handed to every write callback; one of them may
   send a notification afterwards. *)
Writer ==
  /\ "writer" \in alive
  /\ \/ /\ at["writer"] = None /\ queued > 0 /\ pc # "join_write"
        /\ Begin("writer", "write")
        /\ queued' = queued - 1 /\ UNCHANGED bad
     \/ /\ at["writer"] # None
        /\ Step("writer") /\ UNCHANGED queued
     \/ /\ at["writer"] # None /\ at["writer"][1] = "write" /\ Linked(at["writer"])
        /\ After(at["writer"]) = None
        /\ at' = [at EXCEPT !["writer"] = First("notification")]
        /\ UNCHANGED <<queued, bad>>
  /\ UNCHANGED <<pc, loop, lists, left, alive, stopping, deaf, usr1, failed, down>>

(* The thread of plugin q dispatches families and sends notifications; when
   its plugin's shutdown callback tells it to stop, it first dispatches what it
   has received already. *)
PluginThread(q) ==
  /\ q \in alive
  /\ \/ /\ at[q] = None
        /\ queued < MaxQueue /\ queued' = queued + 1
        /\ UNCHANGED <<at, bad>>
     \/ /\ Begin(q, "notification") /\ First("notification") # None
        /\ UNCHANGED <<queued, bad>>
     \/ /\ at[q] # None
        /\ Step(q) /\ UNCHANGED queued
  /\ UNCHANGED <<pc, loop, lists, left, alive, stopping, deaf, usr1, failed, down>>

PluginThreadEnds(q) ==
  /\ q \in alive /\ at[q] = None
  /\ q \in stopping \ deaf
  /\ alive' = alive \ {q}
  /\ UNCHANGED <<pc, loop, lists, at, left, stopping, deaf, queued, usr1, failed, down, bad>>

(* A plugin's thread accepts a connection, or its read callback starts a
   program; the thread for it is detached. *)
Spawn(d) ==
  /\ d \notin alive
  /\ \/ Spawning \cap Threaded \cap alive # {}
     \/ \E p \in Spawning : at["reader"] = <<"read", p>>
  /\ alive' = alive \cup {d}
  /\ UNCHANGED <<pc, loop, lists, at, left, stopping, deaf, queued, usr1, failed, down, bad>>

(* It handles "putval", "putnotif" and "flush" until the other side is done. *)
DetachedThread(d) ==
  /\ d \in alive
  /\ \/ /\ at[d] = None
        /\ queued < MaxQueue /\ queued' = queued + 1
        /\ UNCHANGED <<at, alive, bad>>
     \/ \E k \in {"notification", "flush"} :
          /\ Begin(d, k) /\ First(k) # None
          /\ UNCHANGED <<queued, alive, bad>>
     \/ /\ at[d] # None
        /\ Step(d) /\ UNCHANGED <<queued, alive>>
     \/ /\ at[d] = None
        /\ alive' = alive \ {d}
        /\ UNCHANGED <<queued, at, bad>>
  /\ UNCHANGED <<pc, loop, lists, left, stopping, deaf, usr1, failed, down>>

-----------------------------------------------------------------------------
(* plugin_shutdown_all.                                                    *)

(* destroy_all_callbacks(&list_init), then read_loop = 0 and the broadcast,
   which a read thread may miss. *)
DestroyInit ==
  /\ pc = "destroy_init" /\ pc' = "join_read"
  /\ lists' = [lists EXCEPT !["init"] = {}]
  /\ deaf' \in {deaf, deaf \cup ({"reader"} \cap alive)}
  /\ UNCHANGED <<loop, at, left, alive, stopping, queued, usr1, failed, down, bad>>

\* Mutant: stop_read_threads does not wait for the threads.
ReadThreadsJoined == TRUE

(* stop_read_threads has joined the read threads. *)
JoinedRead == at["reader"] = None /\ "reader" \notin deaf

JoinRead ==
  /\ pc = "join_read" /\ JoinedRead
  /\ alive' = alive \ {"reader"}
  /\ lists' = [lists EXCEPT !["read"] = {}]
  /\ pc' = "join_write"
  /\ UNCHANGED <<loop, at, left, stopping, deaf, queued, usr1, failed, down, bad>>

\* Mutant: the queue is to be drained before the threads stop.
WriteQueueDrained == at["writer"] = None /\ queued = 0

(* stop_write_threads has joined the write threads. *)
JoinedWrite == at["writer"] = None

(* stop_write_threads, which does nothing if there are none, then the walk of
   list_flush begins. *)
JoinWrite ==
  /\ pc = "join_write" /\ JoinedWrite
  /\ alive' = alive \ {"writer"}
  /\ queued' = IF "writer" \in alive THEN 0 ELSE queued
  /\ Begin("main", "flush")
  /\ pc' = IF First("flush") = None THEN "shutdown" ELSE "flush"
  /\ UNCHANGED <<loop, lists, left, stopping, deaf, usr1, failed, down, bad>>

FlushReturns ==
  /\ pc = "flush"
  /\ Step("main")
  /\ pc' = IF at'["main"] = None THEN "shutdown" ELSE "flush"
  /\ UNCHANGED <<loop, lists, left, alive, stopping, deaf, queued, usr1, failed, down>>

EnterShutdown ==
  /\ pc = "shutdown" /\ pc' = "next"
  /\ left' = First("shutdown")
  /\ UNCHANGED <<loop, lists, at, alive, stopping, deaf, queued, usr1, failed, down, bad>>

\* Mutant: the pointer is not advanced before the call.
LeftUnmoved == left

(* The pointer is advanced before the callback, which may unregister itself. *)
LeftDuringCall == After(left)

CallShutdown ==
  /\ pc = "next"
  /\ IF left = None
     THEN pc' = "free" /\ UNCHANGED <<at, left, stopping, deaf, bad>>
     ELSE IF ~Linked(left)
     THEN pc' = "free" /\ left' = None /\ bad' = bad \cup {<<"shutdown", "main">>}
          /\ UNCHANGED <<at, stopping, deaf>>
     ELSE /\ pc' = "joining"
          /\ at' = [at EXCEPT !["main"] = left]
          /\ left' = LeftDuringCall
          /\ stopping' = stopping \cup ({left[2]} \cap Threaded)
          /\ deaf' \in {deaf, deaf \cup ({left[2]} \cap Threaded \cap alive)}
          /\ UNCHANGED bad
  /\ UNCHANGED <<loop, lists, alive, queued, usr1, failed, down>>

(* The plugin's own thread is joined and its entries are unregistered. *)
ShutdownReturns ==
  /\ pc = "joining"
  /\ LET p == at["main"][2] IN
     /\ p \notin alive
     /\ down' = down \cup {p}
     /\ lists' = IF p \notin Unregistering THEN lists
                 ELSE [k \in Kinds |-> lists[k] \ {p}]
  /\ at' = [at EXCEPT !["main"] = None]
  /\ pc' = "next"
  /\ UNCHANGED <<loop, left, alive, stopping, deaf, queued, usr1, failed, bad>>

(* destroy_all_callbacks: list_flush first, then the others. *)
DestroyFlush ==
  /\ pc = "free" /\ pc' = "free_rest"
  /\ lists' = [lists EXCEPT !["flush"] = {}]
  /\ UNCHANGED <<loop, at, left, alive, stopping, deaf, queued, usr1, failed, down, bad>>

DestroyRest ==
  /\ pc = "free_rest" /\ pc' = "freed"
  /\ lists' = [k \in Kinds |-> {}]
  /\ UNCHANGED <<loop, at, left, alive, stopping, deaf, queued, usr1, failed, down, bad>>

(* main returns, and with it every thread is gone. *)
Exit ==
  /\ pc = "freed" /\ pc' = "exited"
  /\ UNCHANGED <<loop, lists, at, left, alive, stopping, deaf, queued, usr1, failed, down, bad>>

plugin_shutdown_all ==
  \/ DestroyInit \/ JoinRead \/ JoinWrite \/ FlushReturns \/ EnterShutdown
  \/ CallShutdown \/ ShutdownReturns \/ DestroyFlush \/ DestroyRest
  \/ Exit

Main ==
  \/ EnterInit \/ InitReturns \/ StartThreads
  \/ TestLoop \/ MissingReturns \/ NotificationReturns \/ RetestLoop \/ Wake
  \/ plugin_shutdown_all

Next ==
  \/ Main \/ Term \/ Usr1 \/ Flusher
  \/ /\ pc # "exited"
     /\ \/ Reader \/ Writer
        \/ \E q \in Threaded : PluginThread(q) \/ PluginThreadEnds(q)
        \/ \E d \in Detached : Spawn(d) \/ DetachedThread(d)

(* The main thread, sleeps included, goes on; callbacks return, so that the
   threads that are told to stop get there, and a plugin's thread has received
   only so much to dispatch before it ends.  Nothing is assumed of the detached
   threads. *)
Fairness ==
  /\ WF_vars(Main)
  /\ WF_vars(Reader) /\ WF_vars(Writer)
  /\ \A q \in Threaded : WF_vars(PluginThread(q)) /\ SF_vars(PluginThreadEnds(q))

Spec == Init /\ [][Next]_vars /\ Fairness

-----------------------------------------------------------------------------
(* Properties.                                                             *)

(* A plugin's read, write and missing callbacks run only after every init
   callback has returned and never while or after its own shutdown callback
   runs, although three kinds of threads call them.  A flush callback may run
   late only in the thread of SIGUSR1 or a detached one, a notification
   callback only in a plugin's own thread or a detached one.  A plugin whose
   init callback failed is not read, if its read callback has the same name
   (plugin_init_all, plugin_shutdown_all). *)
CallbacksWithinLife ==
  \A w \in Walkers : at[w] # None =>
    /\ at[w][1] \in {"read", "write", "missing"} =>
         pc \notin {"init", "initing", "start"}
    /\ at[w][1] = "read" => at[w][2] \notin failed \cap SameName
    /\ at[w][2] \in down \cup stopping /\ w # "main" =>
         \/ at[w][1] = "flush" /\ w \in {"flusher"} \cup Detached
         \/ at[w][1] = "notification" /\ w \in Threaded \cup Detached

(* The lists are walked without a lock, and nevertheless nobody reads a freed
   entry, but for the thread of SIGUSR1 in list_flush, the detached threads of
   plugins in list_flush and list_notification and, if a shutdown callback
   unregisters a notification callback, the joined threads of plugins in
   list_notification (destroy_all_callbacks, plugin_unregister). *)
FreedIsReadOnlyBy ==
  \A b \in bad :
    \/ b = <<"flush", "flusher">>
    \/ b[1] \in {"flush", "notification"} /\ b[2] \in Detached
    \/ b[1] = "notification" /\ b[2] \in Threaded /\ Unregistering # {}

(* A signal to terminate, at whatever moment it comes, ends the daemon, unless
   a thread misses that it is told to stop; the signal that misses the sleep
   takes effect after it (do_loop, plugin_shutdown_all). *)
TermEnds == loop ~> (pc = "exited" \/ deaf # {})

(* No walk of the flush callbacks meets freed memory, so that the data they
   share with the write callbacks is there: the thread of SIGUSR1 and detached
   threads are neither joined nor stopped by plugin_shutdown_all. *)
FlushDataIsThere == \A b \in bad : b[1] # "flush"

(* plugin_init_all logs 'Plugin will be unloaded.' for a plugin whose init
   callback failed.  Its other callbacks stay registered and are called. *)
FailedIsUnloaded == \A w \in Walkers : at[w] # None => at[w][2] \notin failed
=============================================================================
