# A TLA+ model of ncollectd

ncollectd is a system statistics daemon, a fork of collectd. This directory
holds TLA+ modules translated from its C sources, TLC configurations that check
them on small instances, and proofs that the TLA+ proof system checks. Paths
below are relative to the repository; the C code is in `src/`.

`PROJECT.json` is the index: components, runs, the map from definitions to
source lines, the mutants that show that each property can fail, findings,
hazards and theorems.

## 1. The system

A metric takes this way through the daemon:

    read callback          read thread    plugin_read_thread       ReadScheduler, Heap
      -> dispatch          same thread    plugin_dispatch_metric_family
      -> write queue       shared list    write_queue_enqueue      WriteQueue
      -> dequeue           write thread   plugin_write_thread      WriteQueue
      -> pre-cache chain   write thread   fc_process_chain         FilterChain
      -> cache             write thread   uc_update                ValueCache
      -> cache events      write thread   plugin_dispatch_cache_event
      -> post-cache chain  write thread   fc_process_chain         FilterChain
      -> write callbacks   write thread   plugin_write             Daemon
           prometheus      write thread   prom_write               Prometheus
           threshold       write thread   ut_check_threshold       Threshold

The main thread runs `do_loop`, which calls `uc_check_timeout` once per interval
to expire metrics nobody updates any more; the "missing" callbacks of Threshold
and Prometheus are called from there. A signal ends `do_loop`; then
`plugin_shutdown_all` stops the read threads, empties the heap, stops the write
threads, empties the queue, calls the shutdown callbacks and frees the lists of
callbacks. A separate program, ncollectdmon, supervises the daemon.

Most of what is hard happens between threads: read threads among themselves,
dispatchers and write threads, write threads and the main thread's expiry,
running threads and the shutdown.

### Inventory

| part | code | modules |
|---|---|---|
| write queue | `daemon/plugin.c` | WriteQueue, LossyQueue |
| read scheduler | `daemon/plugin.c` | ReadScheduler |
| heap | `utils/heap/heap.c` | Heap, PriorityQueue |
| value cache | `daemon/utils_cache.c` | ValueCache, CacheHistory, CacheLock (partly) |
| life cycle, signals, callback lists | `daemon/collectd.c`, `daemon/cmd.c`, `daemon/plugin.c` | Daemon |
| threshold checking | `plugins/threshold/threshold.c` | Threshold |
| write_prometheus | `plugins/write_prometheus/write_prometheus.c` | Prometheus (partly) |
| filter chains | `daemon/filter_chain.c` | FilterChain (partly) |
| AVL tree | `utils/avltree/avltree.c` | AvlTree, FiniteMap |
| labels | `daemon/label_set.c` | LabelSet (partly) |
| distributions | `daemon/distribution.c` | Distribution (partly) |
| latency counters | `utils/latency/latency.c` | Latency (partly) |
| counter differences | `utils/common/common.c` | Counter |
| supervisor | `ncollectdmon/ncollectdmon.c` | Monitor |

The full list, with what is left out, is under `components` in `PROJECT.json`;
section 6 sums it up. What can go wrong in these parts and is hard to test is
listed there under `hazards`, each with the properties that cover it.

## 2. The modules

### WriteQueue (and LossyQueue)

State: the list (`queue`), `write_queue_length`, `write_loop`, where each
dispatcher and write thread is, and what became of each family. Each critical
section of `write_lock` is one action. A dispatcher first decides whether to
drop (`CheckDrop`: reads the length, may draw a random number, here any value
of a finite set) and then enqueues in a second critical section, or runs out
of memory. A write thread tests `write_loop` without the lock, dequeues or
waits, and dispatches. `pthread_cond_wait` may return spuriously. The main
thread starts the threads, stops them and frees what is left.

LossyQueue is the abstract specification: a FIFO channel whose end may be cut
off at shutdown. `ImplementsLossyQueue` says that WriteQueue implements it.

### ReadScheduler

State: the read list and the heap, each function's type, effective interval and
due time, and the program counters and local variables of the read threads.
Actions: registration and removal by name and by group; for a read thread the
unlocked test of `read_loop`, taking the root of the heap or waiting, the end of
the timed wait, freeing a removed function, the call, and its return with the
new interval; `stop_read_threads`, the destruction of the list and of the heap;
and `plugin_read_all_once` for `-T`, a mode the initial state chooses. The heap
is a set from which a least element is taken, which Heap justifies.
`plugin_insert_read` has no guard of its own; `MayRegister` is about who can call it:
configuration, init and read callbacks and what plugins start while the daemon runs,
none of which is left once the read threads are joined.

Time is relative. `due[r]` is how far the next read of `r` lies ahead, and
`Tick` lowers it, so behaviours of any length have finitely many states. `Late`
bounds how overdue a function can get: the clock stops there until a thread
takes the function.

### ValueCache

State: the entries with last time, age and callback mask; for each write thread
where it is in `uc_update`; for the main thread where it is in
`uc_check_timeout`; and, as history, the last event sent, who has heard of what,
and the accepted times. `uc_update` is split where the code gives up
`cache_lock`: insert, announce NEW, store the mask; or update, announce UPDATE.
`uc_check_timeout` is split in its three phases: collect under the lock, call
the missing callbacks and announce EXPIRED without it, remove under the lock. The
second phase makes a metric from the name of the entry. `metric_parse_identity` fails
for every name with labels (`Labelled`): `label_set_unmarshal` has consumed the `}`
that `metric_family_unmarshal_identity` asks for. It may fail for any name when memory
runs out. Such a name is passed over (`unparsed`), and its entry is removed all the
same.
Rates, distributions and meta data are left out: no property depends on them.

### CacheHistory and CacheLock

CacheHistory is the ring of old values of one entry: storing, reading the last
`n` values, enlarging. CacheLock follows `cache_lock` itself through the update,
rate and percentile functions, because one path unlocks it twice; ValueCache
takes the lock for granted. Each of the two modules serves one observation of
section 3. Unlocking a lock somebody else holds is undefined in POSIX; the model
lets it release the lock, as the C library does.

### Threshold

One metric: write threads update its entry in the cache and check the rate
against the list of thresholds that match it, while the main loop finds the entry
missing, notifies and removes it. State: the rate, `state` and `hits` in the
cache entry, and for each write thread its place in the check and its local
variables. Every `uc_*_by_name` call takes `cache_lock` for itself, so a check is
a sequence of critical sections with other threads in between: read the rate,
classify it threshold by threshold (hysteresis needs the cached state), compare
and increase or reset the hits, read the old state, set the new one, notify.
`said` is the last notification, `overlap` records that two checks were under way
at once. Which thresholds match is the constant `Configs`.

### Prometheus

The set of exported metrics behind `prom_metrics_lock`, together with the code
that feeds it: a write thread updates the cache metric by metric and then calls
`prom_write`; the main loop collects expired entries, calls `prom_missing` for
each and removes them; HTTP clients ask for the text; `prom_shutdown` frees the
families. The families a filter chain does not route to the plugin are cached
and never written (`routed`). `leaked` is the return of `prom_missing` that keeps
the lock. Failures are included: the cache may refuse a metric, `prom_write` may fail
to store a family or some of its metrics, and `prom_missing` is not called for a name
that does not parse (`Labelled`, as in ValueCache) or if another missing callback ends
the walk. `raced`, `untold`, `refused` and `late` are history: metrics written while
they expired; metrics that expired without `prom_missing`, or that the cache refused;
metrics `prom_write` could not store; and an expiry before the first write arrived.

### Daemon

The composition seen from the callback lists. The main thread runs
`plugin_init_all`, `do_loop` and `plugin_shutdown_all`; a read thread, a write
thread, the detached thread of SIGUSR1 and the threads that plugins start walk
the lists at the same time, without a lock. `at[w]` is the entry a walker stands
on while its callback runs; `Step` reads the next pointer afterwards. If the entry
has been freed meanwhile, `bad` records the kind of list and the walker. SIGTERM may
arrive between any two steps, also between the test of `loop` and the sleep. A plugin
may fail to initialise, which takes away its read callback only if that has the name
of the init callback (`SameName`). It may start a thread in its init callback which it
joins in its shutdown callback; like `dispatch_thread` of network.c the thread may work
on after it is told to stop, but not for ever. Its read callback or its thread may
start detached threads, as exec.c and unixsock.c do; those dispatch, notify and flush
until the process ends, and nobody waits for them (the detached threads of email.c only
log, and are not among them). A read thread and a plugin's thread may also miss that
they are told to stop (`deaf`, finding 1). A plugin may unregister its callbacks in its
shutdown callback.
A list is the set of plugins in it; `Rank` is the order of registration, which
the order of a list always is, since entries are only appended and removed. The
read and write threads are abstract here: several of a kind behave as one, and
their own protocols are ReadScheduler and WriteQueue.

### FilterChain

The reading of `<Chain>` blocks into the list of chains, with the error path
that frees a chain, and the interpreter: `fc_process_chain` with its recursion
through the jump target as a stack of activations. Statuses are the C integers,
because one variable holds the answers of matches and of targets and
FC_MATCH_MATCHES and FC_TARGET_STOP are the same number. Around it is
`plugin_dispatch_metric_internal`: pre-cache chain, cache update, post-cache chain
or the default write. The log of one dispatch is compared with a definition
of what the configuration says.

### Heap, AvlTree, LabelSet, Distribution, Latency, Counter

Data structures whose callers serialise all calls; every public function is one
action (in Heap, every activation of `reheap` is one more), and all sequences of
calls within the bounds are explored.

* Heap: the array heap with `reheap` in both directions, growth and shrinking, and
  the unsigned parent computation of index 0, which wraps around (`Word`). `Memory`
  is how many pointers `realloc` can find room for; beyond it an insertion fails.
  PriorityQueue promises that what is returned is in the queue and minimal.
* AvlTree: nodes with child and parent pointers, rotations, removal by copying a
  neighbour, pick and both iterators. FiniteMap is the promise.
* LabelSet: the sorted array of labels, with the library's `qsort` and `bsearch` as
  what they promise; `label_set_delete` moves too few bytes, which the model shows
  as garbled labels.
* Distribution: the buckets as a binary tree on an Euler path in an array, update,
  percentile, reset, comparison and difference, counters modulo `Wrap`, and the use
  the cache makes of them. Boundaries are integers. All distributions of a metric
  have the same buckets, as `distribution_cmp` assumes; its EINVAL, with which
  `uc_update_metric` gives up, does not occur.
* Latency: the histogram that widens and narrows its bins, with the bin a
  percentile falls into. The new width is the least power of 2 that is enough; the
  code computes it with `log`, `ceil` and `pow`, which is the same but for a few
  latencies just above 1000 * 2^k with k >= 42 (47 days and more), where the logarithm
  may round down and the latency ends in "Invalid bin".
* Counter: `counter_diff` for sources of two widths that wrap around or restart.

MCSequential puts them, and FilterChain, into one run: `part` says which of them
a behaviour is about, so that their state spaces add up.

### Monitor

The supervision loop of ncollectdmon with its signal handlers, the child from
`fork` over `execvp` to its death, and `check_respawn`. Signals arrive between
any two steps. The child still has the monitor's handlers before `execvp`. Time
is relative as above; the ages of the last `2 * Limit + 1` starts are history, and so
are `owed`, a SIGHUP that has not led to a new daemon, and `missed`, a signal that came
between the test of the flags and `waitpid` or before `execvp` (`Gap`).

## 3. The runs

| run | bounds | what it shows |
|---|---|---|
| write_queue | 2 dispatchers with 2 families each, 2 write threads, limits 2 and 1 | the counter is exact, the bound, each family in one place and in order; queued families are handled, the stop returns, LossyQueue is implemented |
| read_scheduler_safety | 2 threads, 3 functions of which 2 share a name, failing inserts, `-T` and normal mode | one owner of each function, a live list, at most one late call |
| read_scheduler_live | 2 threads, 2 functions, both removable | every function is called again, a removed one is freed, only an idle thread can block the stop |
| read_scheduler_hang | 2 threads, 1 function | finding 1 |
| value_cache | 2 writers, 2 metrics, 2 event and 2 missing callbacks, times up to 2 | masks, event order, value order, removals announced unless the name does not parse; a stale entry is removed or refreshed |
| value_cache_events | the same with one missing callback, times up to 3 | finding 2 |
| monitor | window 3, limit 2, pause 4 | no orphan, at most 2 * limit starts per window; signals take effect but for two windows |
| threshold | 2 write threads, rates 2 and 3, five configurations: no threshold; a warning and a failure bound with hysteresis; a failure with Hits and Persist; an inverted range with Persist and PersistOK; two thresholds | hits stay bounded, the last notification is the state unless checks overlap, a constant rate settles, recovery is reported |
| prometheus | 2 write threads, 1 client, 1 family of 2 metrics of which one has labels, routed here or not | cached is exported and conversely, up to the races and failures the properties name; requests and the shutdown end unless the lock is lost |
| prometheus_hang | the same, smaller | finding 3 |
| daemon | 3 plugins: one with every kind of callback that unregisters itself at shutdown, one for notifications, one with a thread and a read callback; one detached thread; 1 queued family, 1 SIGUSR1 | callbacks run between initialisation and shutdown, with which exceptions, who may read freed entries, SIGTERM ends the daemon unless a thread misses it |
| sequential | heap of 7 items; tree of 8 keys; labels: 5 names, 2 values, arrays of 4; distribution: 5 buckets, 3 values between resets; latency: 4 bins, 4 values; counters of 2 and 4 bits; chains: up to 4 blocks, 3 names, stack 3 | each data structure against its definition or abstract specification, the chain interpreter against the configuration |

Why the bounds suffice for the questions asked:

* Two threads of a kind and the main thread give every pair of critical sections.
  The proofs of section 4 cover any number.
* Two dispatchers make the queue overshoot its limit. Two functions of one name
  give the re-registration race.
* In Threshold the rates 2 and 3 lie on different sides of the bounds, and one of
  them is within the hysteresis of a bound.
* Two metrics in one family let a family lose one metric and keep the other.
* Seven items fill three levels of the heap and make the array both grow and
  shrink, and `Memory` is enough for them. Eight keys give AVL trees of height four, so rotations happen at
  the root and below it.
* Latencies of up to 33 widen four bins of width 2 to 4, 8 and 16, and a reset
  narrows them again.
* Counters of 2 and 4 bits have the width relation of 32 and 64: the larger is
  the square of the smaller.

Symmetry is used for threads only, in read_scheduler_safety, which has no
liveness property. Deadlock checking is on but in the runs of Daemon, Monitor
and Prometheus, which may end, and of MCSequential, where the caps on updates
may leave nothing to do.

DistributionIsExact covers resets of a distribution as far as the code can notice
them: if since the last update one bucket has shrunk and another has grown, the increase
is what was added since the reset. A reset after which no bucket has grown is taken for
a difference, which wraps around (`DistributionSub.cfg`).

Every property of a passing run has a mutant: an alternative definition, marked
`Mutant:` in the modules, that changes the model the way a plausible bug would
change the code and makes TLC refute the property.

### Fairness

Weak fairness, per thread: a thread that can run does run (the scheduler), a
mutex is eventually obtained, callbacks return, and time passes. Nothing is
assumed about registration, removal, dispatch, HTTP requests, signals or the
decision to stop. In detail:

* WriteQueue, ReadScheduler: each thread that is inside its loop, and the main
  thread once it stops them; ReadScheduler also the clock.
* ValueCache, Threshold, Prometheus: a write thread that has begun a family
  finishes it; the pass of the main loop that has begun is completed. In ValueCache
  the main loop also comes round again, and one that does so again and again while an
  entry is stale collects it at some time (strong fairness of `CollectsIt`; `Collect`
  takes any stale entries, since it may run out of memory for the others). In Prometheus a begun response is sent and
  a begun shutdown continues.
* Daemon: the main thread, the read and the write thread, and the threads of
  plugins; one of these that is told to stop, and does not miss it, stops when its work
  is done (strong fairness of `PluginThreadEnds`, since it may find more work first).
  The thread of SIGUSR1 and the detached threads are under no assumption.
* Monitor: the loop, the child's `execvp`, its termination after SIGTERM, the
  clock.

Callbacks that never return are outside what the daemon can handle: it joins the
threads that run them. That a read thread can miss the broadcast is finding 1; in
Daemon such a thread is `deaf`, and TermEnds says that only a deaf thread can keep the
daemon from ending. Likewise Monitor assumes that the daemon terminates.

### Findings

Each is a run that TLC refutes, quoted in `PROJECT.json` against the text it
contradicts.

1. `daemon/plugin.c:482` - with fewer read functions than read threads the shutdown
   can hang.
2. `daemon/plugin.c:2090` - cache events reach callbacks that did not subscribe.
3. `plugins/write_prometheus/write_prometheus.c:470` - a metric that expires before
   its first write has reached the plugin, or that is never written to it, makes
   `prom_missing` return with the lock held.

### Further configurations

Twelve configurations state something the documentation, a comment or a declaration
says, and TLC refutes each of them. They are kept with the modules, so that the
behaviour can be looked at, and are not listed as runs.

| configuration | module | what it shows |
|---|---|---|
| `WriteQueueDrop.cfg` | WriteQueue | `plugin.c:2214`: the drop probability falls as the queue grows, against `collectd.conf.pod:309-312` |
| `CacheHistoryNewest.cfg` | CacheHistory | `utils_cache.c:432` writes position 0 of the ring, so the newest value is not the last one stored (`utils_cache.c:71`) |
| `CacheLockInsert.cfg` | CacheLock | `utils_cache.c:599` unlocks twice for distributions, so an insert can run without the lock its comment at 134 requires |
| `MonitorTerm.cfg` | Monitor | a SIGTERM between the test of the flags and waitpid is not acted upon, against `ncollectdmon.pod:52-53` |
| `ThresholdFlapping.cfg` | MCThreshold | Invert with Hysteresis flaps at a constant rate, against the comment at `threshold.c:323` |
| `DaemonFlush.cfg` | MCDaemon | the thread of SIGUSR1 may walk list_flush after it is freed, against the comment at `plugin.c:1987-1992` |
| `DistributionSub.cfg` | Distribution | `distribution.c:492` passes `&cmp_status`, so a smaller minuend is not refused as `distribution.h` says (ERANGE) |
| `DistributionPercentile.cfg` | Distribution | `distribution.c:291` stops at the first bucket with at least the percentage, where `distribution.h:90-91` says "more than": half of two values are below the bound returned for 50 percent |
| `ValueCacheMissing.cfg` | MCValueCache | `utils_cache.c:284` can not parse the name of a metric with labels, so no missing callback is called for it, against the comment at 277, 'Call the "missing" callback for each value' |
| `PrometheusGhost.cfg` | MCPrometheus | the consequence for write_prometheus: a metric with labels stays exported after it has expired, until its plugin brings it back or the daemon ends |
| `DaemonFailed.cfg` | MCDaemon | callbacks of a plugin whose init callback failed are called, although `plugin.c:1762-1764` says "Plugin will be unloaded." |
| `LabelSetDelete.cfg` | LabelSet | `label_set.c:125` moves a number of elements as a number of bytes, so a deletion garbles the labels after it |

### Observations

The models have more behaviours a reader of the documentation may not expect:

* `plugin.c:2226`: decision and enqueue are separate, so the queue can exceed
  HighNum. QueueBounded says by how much.
* `plugin.c:556-560`: after a failure MaxReadInterval shortens an interval that is
  longer than it.
* `plugin.c:1830`: with `-T`, the read functions of plugins whose init callback
  failed are called.
* `plugin.c:2069`: `1 << i` limits cache event callbacks to 32.
* `utils_cache.c:346`: a subscriber misses updates another thread makes before
  its mask is stored. MaskSettles says that the mask is right afterwards.
* `utils_cache.c:360`: a log message reads `ce->last_time` after the unlock.
* `uc_insert` switches on DS_TYPE constants where METRIC_TYPE ones are meant, so the
  first rate of an untyped metric is NaN.
* Threshold: with Hits n the notification comes with failure n + 2 in a row, not n
  (`collectd.conf.pod:10014`). Hysteresis is not applied on the way out of OKAY
  (`collectd.conf.pod:10036`). Invert without failure bounds always means FAILURE.
* `distribution_squared_deviation_sum` takes the mean outside its lock.
* `notify_desktop.c:126-128` unregisters its callbacks during shutdown, which is the
  case `Unregistering` of Daemon.

## 4. The proofs

The proofs hold for every value of the constants that satisfies the named
assumptions of the modules. Those say that special values differ from real ones,
that intervals are positive, that bounds are natural numbers, that thread sets
whose size matters are finite, in Monitor that the pause is longer than the window
(300 and 120 in the code), and in Daemon that the order of registration is an
injection into the natural numbers. Those of the data structures are with their
theorems below. The statements named in brackets are the properties the runs check.
The inductive invariants were checked with TLC on small instances before they were
proved.

**WriteQueueProofs.** TypeCorrect; LengthCorrect [LengthIsExact]: a dispatcher between
its two sections must have a family left, and the counter must be exact or it could
become negative. BoundCorrect [QueueBounded]: the number of dispatchers that have
decided but not yet enqueued is added to the length of the queue; that sum never
exceeds High - 1 + |Dispatchers|. OnceCorrect [OnceAndInOrder]: the places a family
can be in are disjoint and cover what was dispatched (`Partition`), the list is
sorted for each dispatcher (`Sorted`), what a write thread holds or has
written was dispatched before what its dispatcher still has in the list (`Behind`),
a write thread holds one family exactly while it dispatches and no two hold the same
(`Hands`), and there are no write threads before the start and after the join
(`Joined`). ChannelCorrect
[ImplementsLossyQueue]: every step is a step of the abstract channel or leaves it
unchanged.

**ReadSchedulerProofs.** TypeCorrect and OwnerCorrect [OneOwner]. OneOwner is inductive
with types, because it states for every program counter who holds the function.
ListCorrect [ListIsLive]: a thread frees a function only after it has seen the mark
(`SnapIsRight`), a function is marked together with its removal from the list, and
one not yet registered is unmarked (`NewIsUnmarked`); the list is empty once it is
destroyed (`ListIsDestroyed`), because by then the threads are gone and nobody can
register (`JoinedIsGone`). LateCorrect [AtMostOneLateCall]: after its late call
a function is marked, and a thread that has it again has seen the mark (`Spent`).

**ValueCacheProofs.** TypeCorrect; CachedCorrect (only the main thread removes
entries, and only those it collected); MaskCorrect [MaskSettles], strengthened by
what a writer about to store a mask carries; NewComesFirstCorrect [NewComesFirst]:
every mask anywhere names only callbacks that have heard NEW; OrderCorrect
[AcceptedInOrder]: the last time is the last accepted one; ToldCorrect
[ToldBeforeRemoved], an action property: in the third phase every collected entry
has been announced or its name could not be parsed.

**ThresholdProofs.** TypeCorrect, where the local variables of a thread depend on
its place (`Located`). HitsCorrect [HitsBounded]: the counter plus the number of
threads that have compared it and are about to increase it never exceeds the
bound. ToldCorrect [QuietMeansTold]: as long as checks have not overlapped, at
most one thread is reporting (`Alone`); one that has stored a state is about to
report that state (`AboutToTell`); otherwise the state was reported (`Told`). Between
`ut_missing` and the removal of the entry nothing is promised.

**PrometheusProofs.** TypeCorrect; ExportCorrect [CachedIsExported] needs that metrics
are expired only while the missing callbacks are called, and stay cached until then.
LeakCorrect [LeakOnlyIfLate] follows from it: an unknown family at the call of
`prom_missing` belongs to a cached metric that is not exported. GhostCorrect
[NoGhost]: what is on its way to prom_write is cached, was raced by its expiry or was
refused by the cache (`PendingIsCached`, `PendingExpiryRaced`), and what
`uc_check_timeout` has dealt with is no longer exported, was raced or was passed over
(`CalledIsGone`).

The same module proves about Monitor: MonTypeCorrect and OrphanCorrect [NoOrphan].
That the death counter never passes the limit needs LimitMeansPause: at the limit the
monitor is in a pause that outlasts the window, or the window is over, or it is about
to end. RateCorrect [RespawnRate] relates the history of starts to what check_respawn
remembers (`RateInv`): all but the last counter starts, and the one of a daemon that
runs, were at or before its timestamp (`WindowIsOver`); at most Limit of these are in
the window (`FewBefore`); and the pause at the limit takes the last start out of the
window (`PauseSeparates`). So of any 2 * Limit + 1 starts the first is outside the
window.

**DaemonProofs.** `WalkInv` states for every walker which kinds of entries it can
stand on in which phase of the main thread. LifeCorrect [CallbacksWithinLife] adds
that a failed plugin whose read callback has the name of its init callback is no longer
in the read list, and that shutdown callbacks come after the read and write threads have
ended. FreedCorrect [FreedIsReadOnlyBy] adds
that the entry a walker stands on is linked, but for the cases the property names
(`StandsFirm`), and that the advanced pointer of the walk over the shutdown
callbacks is linked (`LeftIsLinked`): a shutdown callback unregisters only its own
entries, and the order of registration is strict. That the joined threads of plugins
do not outlive the lists they walk needs `JoinInv`: the plugin of every such thread is
in the list of shutdown callbacks, and the walk of that list has not passed it.

**StructureProofs.** Three data structures of the sequential run.

* HeapIsPriorityQueue [ImplementsPriorityQueue], a refinement, for any items, keys and
  growth, with an even `Word` that is more than twice the memory. Between calls every
  position goes before its children (`IsHeap`). During one only the root of `reheap`
  may be out of order: going up, after one of its children, and before all its
  grandchildren (`GoingUp`); going down, what is above it goes before its children
  (`GoingDown`). One lemma for each direction says that a level of `reheap` passes
  this on to the next root. The parent of position 0 wraps to the middle of the range
  of `size_t`, a position without children, where `reheap` returns at once. That the
  root is minimal is an induction over positions, done by hand: a least position that
  goes before the root has a parent that does so too. That every exchange keeps the
  items, each once, and that the array is never shorter than its use, are part of it.
* LabelsCorrect [LabelsUnlessGarbled], for any names, forbidden names and values: as
  long as nothing is garbled the array is strictly ascending and holds exactly the
  labels of the calls (`LabelInv`). The sorting is specified as some permutation into
  ascending order; the proof shows that one exists for a sorted array with one more
  label, and that any such permutation gives the same labels.
* DifferenceCorrect [DifferenceIsExact], for any widths of which the larger is at least
  twice the smaller: the source is where the last value and the events since then, taken
  modulo its width, say (`SourceIsAhead`).

**LatencyProofs.** HistogramCorrect [HistogramIsExact], for any number of bins and any
finite set of latencies, with bin widths that divide one another and are wide enough for
every latency (powers of 2 in the code). The invariant (`LatencyInv`): every bin holds
the number of latencies between its boundaries, and all together are `num`. A change of
the width adds up whole bins because the widths divide one another (`SumBlocks`), and
a percentile falls into the first bin at which the sum reaches it. The sums are those
of the community modules, which are defined by recursion over sets; the module first
proves what it needs of them (a sum over the empty set, with one element more, over a
union of disjoint sets, over blocks) by looking at a smallest set for which it fails.

## 5. What is only model-checked

* All liveness properties: EveryQueuedIsHandled, StopTerminates,
  EveryFunctionIsCalled, RemovedIsFreed, OnlyIdleBlocksStop, StaleIsRemoved,
  HeededTermEnds, SignalTakesEffect, Settles, RecoveryIsReported, EndsUnlessLeaked,
  TermEnds. The prover does not handle fairness.
* VerifyTree and ImplementsFiniteMap: AvlTree walks its pointers with recursive
  operators, and a proof would be an induction over the shape of trees.
* DistributionIsExact: the buckets are a tree on an Euler path in an array, built and
  searched with recursive operators.
* FollowsConfiguration: FilterChain has sequences of sequences as data and a recursive
  reference definition.

## 6. Not modelled

* Read plugins (about 130): each reads one source and dispatches. To the daemon a
  read callback is something that takes time, fails, dispatches, registers and
  unregisters, which is how the models treat it.
* Other write plugins, aggregation, statsd, event plugins with threads of their own:
  each is a small concurrent program of its own. The rrdtool cache with its queue
  thread and the ring buffers of procevent and sysevent would be the next to model.
* Registration and unregistration at run time by the language bindings. It races
  with the walks over the lists, which hold no lock, so Daemon's properties are about
  daemons that register while the configuration is read.
* The configuration parser, type definitions, plugin loading, thread-specific
  contexts: they run once, in one thread, before the states the models begin with.
* Parsing and formatting (commands, output formats, notifications, identities,
  matches on strings), which would be string processing in the model.
* Floating point: rates, averages, interpolated percentiles, exponential buckets.
* In the value cache: meta data, iterators and the read-only accessors.
* The HTTP server library and the text of the exposition in write_prometheus.
* Client library, command line tools, tests.

The plugins are most of the code of the repository, so the models cover the
concurrent core of the daemon and little of the source by lines.

## 7. What could follow

1. The pipeline from dispatch to write callbacks as one composition with an abstract
   specification of what reaches the callbacks of one metric.
2. The rrdtool plugin: cache tree, queue with priorities, flush and shutdown.
3. Run-time registration in Daemon, stating which walks it endangers.
4. The ring buffers of procevent and sysevent, the accumulators of aggregation and
   statsd.
