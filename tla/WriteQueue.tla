----------------------------- MODULE WriteQueue -----------------------------
(***************************************************************************)
(* The write queue of daemon/plugin.c: threads that read metrics call      *)
(* plugin_dispatch_metric_family, which drops the family or appends it to  *)
(* a linked list; the write threads take families off the list and hand    *)
(* them to plugin_dispatch_metric_internal; stop_write_threads ends them   *)
(* and throws away what is left.                                           *)
(*                                                                         *)
(* write_lock is held for the whole of every critical section, so each     *)
(* critical section is one action.  What the code does between two of them *)
(* (the drop decision and the enqueue, the test of write_loop and the      *)
(* dequeue) are separate actions.  write_cond is the set of the threads    *)
(* whose wpc is "wait".                                                    *)
(*                                                                         *)
(* A family is <<d, i>>, the i-th one dispatcher d hands over.  written,   *)
(* discarded, dropped and failed are history: where each family ended.     *)
(***************************************************************************)
EXTENDS Integers, Sequences, FiniteSets

CONSTANTS
  Dispatchers,    \* threads that call plugin_dispatch_metric_family
  Writers,        \* threads start_write_threads tries to create
  MaxFamilies,    \* bound: families one dispatcher hands over
  HighOption,     \* the option WriteQueueLimitHigh (0 when it is not set)
  LowOption,      \* the option WriteQueueLimitLow, or Unset
  Unset           \* "the option is not in the configuration"

ASSUME DispatchersAssumption == IsFiniteSet(Dispatchers)
ASSUME WritersAssumption == IsFiniteSet(Writers) /\ Writers # {}
ASSUME MaxFamiliesAssumption == MaxFamilies \in Nat
ASSUME OptionsAssumption == HighOption \in Int /\ LowOption \in Int \cup {Unset}

VARIABLES
  queue,      \* the list from write_queue_head to write_queue_tail
  length,     \* write_queue_length
  writeLoop,  \* write_loop
  dpc,        \* where each dispatcher is in plugin_dispatch_metric_family
  sent,       \* families each dispatcher has finished with
  wpc,        \* where each write thread is in plugin_write_thread
  held,       \* the families a write thread has dequeued and not finished
  started,    \* the write threads pthread_create has created
  spc,        \* where the main thread is: start_/stop_write_threads
  written, discarded, dropped, failed

vars == <<queue, length, writeLoop, dpc, sent, wpc, held, started, spc,
          written, discarded, dropped, failed>>

Families == Dispatchers \X (1..MaxFamilies)
Contents(s) == {s[i] : i \in 1..Len(s)}

-----------------------------------------------------------------------------
(***************************************************************************)
(* The limits, as plugin_init_all computes them from the options.          *)
(***************************************************************************)
High == IF HighOption < 0 THEN 0 ELSE HighOption

Low == IF LowOption = Unset THEN High \div 2
       ELSE IF LowOption < 0 THEN High \div 2
       ELSE IF LowOption > High THEN High
       ELSE LowOption

(***************************************************************************)
(* get_drop_probability as the fraction Pos / Size.  cdrand_d is uniform   *)
(* in [0, 1): draw k of Draws stands for a value strictly between k / Size *)
(* and (k + 1) / Size, so "q > p" is k >= Pos.                             *)
(***************************************************************************)
Size == 1 + High - Low
Pos(wql) == 1 + wql - Low
Draws == 0..(Size - 1)

\* Mutant: the limit is tested with > instead of >=.
DropsAboveHigh(wql, k) == High # 0 /\ wql >= Low /\ (wql > High \/ k >= Pos(wql))

(* check_drop_value, for queue length wql and random draw k *)
Drops(wql, k) == /\ High # 0
                 /\ wql >= Low
                 /\ wql >= High \/ k >= Pos(wql)

-----------------------------------------------------------------------------
Init ==
  /\ queue = <<>>
  /\ length = 0
  /\ writeLoop = TRUE
  /\ dpc = [d \in Dispatchers |-> "idle"]
  /\ sent = [d \in Dispatchers |-> 0]
  /\ wpc = [w \in Writers |-> "absent"]
  /\ held = [w \in Writers |-> {}]
  /\ started = {}
  /\ spc = "init"
  /\ written = {} /\ discarded = {} /\ dropped = {} /\ failed = {}

Current(d) == <<d, sent[d] + 1>>

(***************************************************************************)
(* plugin_dispatch_metric_family: the drop decision, from one locked read  *)
(* of write_queue_length.  A dropped family only counts in the statistics. *)
(***************************************************************************)
CheckDrop(d) ==
  /\ dpc[d] = "idle"
  /\ sent[d] < MaxFamilies
  /\ \E k \in Draws :
       IF Drops(length, k)
       THEN /\ dropped' = dropped \cup {Current(d)}
            /\ sent' = [sent EXCEPT ![d] = @ + 1]
            /\ UNCHANGED dpc
       ELSE /\ dpc' = [dpc EXCEPT ![d] = "enqueue"]
            /\ UNCHANGED <<dropped, sent>>
  /\ UNCHANGED <<queue, length, writeLoop, wpc, held, started, spc,
                 written, discarded, failed>>

(* pthread_cond_signal(&write_cond): one waiter, if there is one, wakes up. *)
Signal ==
  IF \E w \in Writers : wpc[w] = "wait"
  THEN \E w \in Writers : wpc[w] = "wait" /\ wpc' = [wpc EXCEPT ![w] = "dequeue"]
  ELSE UNCHANGED wpc

\* Mutant: no thread is signalled.
EnqueueNoSignal(d) ==
  /\ dpc[d] = "enqueue"
  /\ queue' = Append(queue, Current(d))
  /\ length' = IF queue = <<>> THEN 1 ELSE length + 1
  /\ UNCHANGED wpc
  /\ dpc' = [dpc EXCEPT ![d] = "idle"]
  /\ sent' = [sent EXCEPT ![d] = @ + 1]
  /\ UNCHANGED <<writeLoop, held, started, spc, written, discarded, dropped, failed>>

(* enqueue_metric_family and write_queue_enqueue *)
Enqueue(d) ==
  /\ dpc[d] = "enqueue"
  /\ queue' = Append(queue, Current(d))
  /\ length' = IF queue = <<>> THEN 1 ELSE length + 1
  /\ Signal
  /\ dpc' = [dpc EXCEPT ![d] = "idle"]
  /\ sent' = [sent EXCEPT ![d] = @ + 1]
  /\ UNCHANGED <<writeLoop, held, started, spc, written, discarded, dropped, failed>>

(* enqueue_metric_family: the copy or the list element cannot be allocated. *)
EnqueueFails(d) ==
  /\ dpc[d] = "enqueue"
  /\ failed' = failed \cup {Current(d)}
  /\ dpc' = [dpc EXCEPT ![d] = "idle"]
  /\ sent' = [sent EXCEPT ![d] = @ + 1]
  /\ UNCHANGED <<queue, length, writeLoop, wpc, held, started, spc,
                 written, discarded, dropped>>

-----------------------------------------------------------------------------
(***************************************************************************)
(* plugin_write_thread                                                     *)
(***************************************************************************)
(* while (write_loop), read without the lock *)
TestLoop(w) ==
  /\ wpc[w] = "test"
  /\ wpc' = [wpc EXCEPT ![w] = IF writeLoop THEN "dequeue" ELSE "exit"]
  /\ UNCHANGED <<queue, length, writeLoop, dpc, sent, held, started, spc,
                 written, discarded, dropped, failed>>

\* Mutant: the last family stays in the list.
DequeueKeepsTail(w) ==
  /\ wpc[w] = "dequeue"
  /\ IF queue = <<>>
     THEN /\ wpc' = [wpc EXCEPT ![w] = IF writeLoop THEN "wait" ELSE "test"]
          /\ UNCHANGED <<queue, length, held>>
     ELSE /\ queue' = IF Len(queue) = 1 THEN queue ELSE Tail(queue)
          /\ length' = IF Len(queue) = 1 THEN length ELSE length - 1
          /\ held' = [held EXCEPT ![w] = {Head(queue)}]
          /\ wpc' = [wpc EXCEPT ![w] = "dispatch"]
  /\ UNCHANGED <<writeLoop, dpc, sent, started, spc, written, discarded, dropped, failed>>

(***************************************************************************)
(* plugin_write_dequeue, from taking write_lock (at the start, or when     *)
(* pthread_cond_wait returns) to releasing it: wait again, give up because *)
(* the loop is over, or take the head.                                     *)
(***************************************************************************)
Dequeue(w) ==
  /\ wpc[w] = "dequeue"
  /\ IF queue = <<>>
     THEN /\ wpc' = [wpc EXCEPT ![w] = IF writeLoop THEN "wait" ELSE "test"]
          /\ UNCHANGED <<queue, length, held>>
     ELSE /\ queue' = Tail(queue)
          /\ length' = length - 1
          /\ held' = [held EXCEPT ![w] = {Head(queue)}]
          /\ wpc' = [wpc EXCEPT ![w] = "dispatch"]
  /\ UNCHANGED <<writeLoop, dpc, sent, started, spc, written, discarded, dropped, failed>>

(* pthread_cond_wait may return without a signal. *)
SpuriousWakeup(w) ==
  /\ wpc[w] = "wait"
  /\ wpc' = [wpc EXCEPT ![w] = "dequeue"]
  /\ UNCHANGED <<queue, length, writeLoop, dpc, sent, held, started, spc,
                 written, discarded, dropped, failed>>

(* plugin_dispatch_metric_internal(fam); metric_family_free(fam) *)
Dispatch(w) ==
  /\ wpc[w] = "dispatch"
  /\ written' = written \cup held[w]
  /\ held' = [held EXCEPT ![w] = {}]
  /\ wpc' = [wpc EXCEPT ![w] = "test"]
  /\ UNCHANGED <<queue, length, writeLoop, dpc, sent, started, spc,
                 discarded, dropped, failed>>

-----------------------------------------------------------------------------
(***************************************************************************)
(* The main thread.  start_write_threads gives up at the first             *)
(* pthread_create that fails, so any number of threads may be running.     *)
(***************************************************************************)
StartWriteThreads ==
  /\ spc = "init"
  /\ spc' = "running"
  /\ \E S \in SUBSET Writers :
       /\ started' = S
       /\ wpc' = [w \in Writers |-> IF w \in S THEN "test" ELSE "absent"]
  /\ UNCHANGED <<queue, length, writeLoop, dpc, sent, held,
                 written, discarded, dropped, failed>>

\* Mutant: one thread is signalled instead of all.
StopSignalsOne ==
  /\ spc = "running"
  /\ spc' = "joining"
  /\ writeLoop' = FALSE
  /\ Signal
  /\ UNCHANGED <<queue, length, dpc, sent, held, started,
                 written, discarded, dropped, failed>>

(* stop_write_threads: clear write_loop and broadcast, under write_lock *)
StopWriteThreads ==
  /\ spc = "running"
  /\ spc' = "joining"
  /\ writeLoop' = FALSE
  /\ wpc' = [w \in Writers |-> IF wpc[w] = "wait" THEN "dequeue" ELSE wpc[w]]
  /\ UNCHANGED <<queue, length, dpc, sent, held, started,
                 written, discarded, dropped, failed>>

\* Mutant: write_queue_length is not reset.
DiscardKeepsLength ==
  /\ spc = "joining"
  /\ \A w \in started : wpc[w] = "exit"
  /\ discarded' = discarded \cup Contents(queue)
  /\ queue' = <<>>
  /\ spc' = "stopped"
  /\ UNCHANGED <<length, writeLoop, dpc, sent, wpc, held, started, written, dropped, failed>>

\* Mutant: the rest is thrown away before the threads are joined.
DiscardBeforeJoin ==
  /\ spc = "joining"
  /\ discarded' = discarded \cup Contents(queue)
  /\ queue' = <<>>
  /\ length' = 0
  /\ spc' = "stopped"
  /\ UNCHANGED <<writeLoop, dpc, sent, wpc, held, started, written, dropped, failed>>

(* stop_write_threads: every thread joined, throw away the rest of the list *)
DiscardRest ==
  /\ spc = "joining"
  /\ \A w \in started : wpc[w] = "exit"
  /\ discarded' = discarded \cup Contents(queue)
  /\ queue' = <<>>
  /\ length' = 0
  /\ spc' = "stopped"
  /\ UNCHANGED <<writeLoop, dpc, sent, wpc, held, started, written, dropped, failed>>

-----------------------------------------------------------------------------
DispatcherStep(d) == CheckDrop(d) \/ Enqueue(d) \/ EnqueueFails(d)
WriterStep(w) == TestLoop(w) \/ Dequeue(w) \/ Dispatch(w)
MainStep == StartWriteThreads \/ StopWriteThreads \/ DiscardRest

(* Nothing more to do: the daemon has stopped and no dispatcher is inside. *)
Terminated ==
  /\ spc = "stopped"
  /\ \A d \in Dispatchers : dpc[d] = "idle" /\ sent[d] = MaxFamilies
  /\ UNCHANGED vars

Next ==
  \/ \E d \in Dispatchers : DispatcherStep(d)
  \/ \E w \in Writers : WriterStep(w) \/ SpuriousWakeup(w)
  \/ MainStep
  \/ Terminated

Spec == Init /\ [][Next]_vars

(***************************************************************************)
(* Every thread the scheduler can run is run, and the daemon is not kept   *)
(* from starting its threads or from throwing away the rest of the list    *)
(* after the join.  Nothing makes the daemon stop, or a dispatcher call.   *)
(***************************************************************************)
Fairness ==
  /\ \A w \in Writers : WF_vars(WriterStep(w))
  /\ WF_vars(DiscardRest)

FairSpec == Spec /\ Fairness
-----------------------------------------------------------------------------
(* Every variable keeps its type.                                          *)
TypeOK ==
  /\ queue \in Seq(Families)
  /\ length \in Nat
  /\ writeLoop \in BOOLEAN
  /\ dpc \in [Dispatchers -> {"idle", "enqueue"}]
  /\ sent \in [Dispatchers -> 0..MaxFamilies]
  /\ wpc \in [Writers -> {"absent", "test", "dequeue", "wait", "dispatch", "exit"}]
  /\ held \in [Writers -> SUBSET Families]
  /\ started \subseteq Writers
  /\ spc \in {"init", "running", "joining", "stopped"}
  /\ written \subseteq Families /\ discarded \subseteq Families
  /\ dropped \subseteq Families /\ failed \subseteq Families

(* write_queue_length always counts the elements of the list, whatever the *)
(* interleaving of enqueues, dequeues and the final discard: the           *)
(* assertion in plugin_write_dequeue (plugin.c:835) never fails and the    *)
(* drop decision is taken on the real length.                              *)
LengthIsExact == length = Len(queue)

(* WriteQueueLimitHigh holds up to the race between the drop decision and  *)
(* the enqueue: every dispatcher may have decided to enqueue when the      *)
(* queue had one place left, so the list is at most |Dispatchers| - 1      *)
(* longer than the limit, and never longer than that.                      *)
QueueBounded ==
  High # 0 => Len(queue) <= High - 1 + Cardinality(Dispatchers)

(* Places where a finished family can be; a family has exactly one.        *)
Places == <<Contents(queue), UNION {held[w] : w \in Writers},
            written, discarded, dropped, failed>>

(* Every family plugin_dispatch_metric_family has returned for is in       *)
(* exactly one place: in the list (once), in the hands of one write        *)
(* thread, handed to the write plugins, thrown away at shutdown, dropped   *)
(* or failed.  None is lost, written twice, or freed and still reachable.  *)
(* The families of one dispatcher leave the list in the order in which     *)
(* they were dispatched: behind a family in the list there are only later  *)
(* ones, and no write thread has taken a later one already.                *)
OnceAndInOrder ==
  /\ UNION {Places[i] : i \in 1..6} = {f \in Families : f[2] <= sent[f[1]]}
  /\ \A i, j \in 1..6 : i # j => Places[i] \cap Places[j] = {}
  /\ \A i, j \in 1..Len(queue) : i # j => queue[i] # queue[j]
  /\ \A v, w \in Writers : v # w => held[v] \cap held[w] = {}
  /\ \A i, j \in 1..Len(queue) :
       i < j /\ queue[i][1] = queue[j][1] => queue[i][2] < queue[j][2]
  /\ \A f \in Contents(queue), g \in written \cup UNION {held[w] : w \in Writers} :
       f[1] = g[1] => g[2] < f[2]

(* Every family in the list is eventually handed to the write plugins or,  *)
(* at shutdown, thrown away, if any write thread could be created.         *)
EveryQueuedIsHandled ==
  \A f \in Families :
    f \in Contents(queue) /\ spc = "running" /\ started # {}
      ~> f \in written \cup discarded

(* stop_write_threads always returns: each write thread sees write_loop    *)
(* cleared, wherever it was when it was cleared, and can be joined.        *)
StopTerminates == spc = "joining" ~> spc = "stopped"

(* collectd.conf.pod:309 of a queue between the limits: "the metric is     *)
(* dropped with a probability that is proportional to the number of        *)
(* metrics in the queue (i.e. it increases linearly until it reaches       *)
(* 100%.)": Pos(length) of the Size equally likely draws drop.             *)
DropProbabilityGrows ==
  High # 0 /\ Low <= length /\ length < High
    => Cardinality({k \in Draws : Drops(length, k)}) = Pos(length)

-----------------------------------------------------------------------------
(***************************************************************************)
(* What the queue promises, without threads, lock and counter.             *)
(***************************************************************************)
Abstract == INSTANCE LossyQueue WITH
  pending <- queue,
  taken <- UNION {held[w] : w \in Writers},
  lost <- dropped \cup failed,
  closed <- spc = "stopped"

(* Every behaviour of the threads is one of a lossy FIFO channel that is   *)
(* closed once and that hands out nothing after it is closed.              *)
ImplementsLossyQueue == Abstract!Spec
=============================================================================
