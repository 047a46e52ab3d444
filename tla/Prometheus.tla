----------------------------- MODULE Prometheus -----------------------------
(***************************************************************************)
(* plugins/write_prometheus/write_prometheus.c between the value cache,    *)
(* which feeds its "missing" callback, the write threads, which feed its   *)
(* write callback, and the HTTP clients that read what it exports.         *)
(*                                                                         *)
(* A write thread first updates the cache, metric by metric (uc_update),   *)
(* and then calls prom_write; the main loop collects expired entries,      *)
(* calls prom_missing for each of them and then removes them from the      *)
(* cache.  A section of prom_metrics_lock is one action; `leaked' is the   *)
(* one way in which the lock is held longer than that.  The bsearch of a   *)
(* sorted array is membership in a set: both ways of adding a metric sort  *)
(* the array again before the lock is released, and deletion keeps order.  *)
(* The post-cache filter chain may write some families to other plugins    *)
(* only: uc_update sees their metrics and prom_write does not.             *)
(* Where memory runs out the code goes on without the metric: uc_insert    *)
(* may fail, prom_write may not store what it is given, and a metric may   *)
(* expire without a call of prom_missing.                                  *)
(***************************************************************************)
EXTENDS Naturals, FiniteSets

CONSTANTS
  Writers,    \* the write threads
  Clients,    \* HTTP connections, one thread each
  Families,
  Metrics,
  FamilyOf,   \* [Metrics -> Families]
  Labelled,   \* metrics with labels: their identity cannot be parsed
  Routings    \* possible choices of the families that are written to this plugin

ASSUME FamilyAssumption == FamilyOf \in [Metrics -> Families]
ASSUME LabelledAssumption == Labelled \subseteq Metrics
ASSUME RoutingsAssumption == Routings \subseteq SUBSET Families

VARIABLES
  routed,     \* the families the filter chains write to this plugin
  cached,     \* the metrics with an entry in the value cache
  prom,       \* prom_metrics: the metrics of each family, {} without a family
  leaked,     \* prom_missing returned without unlocking prom_metrics_lock
  pc,         \* where each write thread is
  fam,        \* the metrics of the family it writes
  todo,       \* those uc_update has not reached
  mpc,        \* where the main thread is
  expired,    \* the metrics uc_check_timeout collected
  called,     \* those whose "missing" callbacks were called or passed over
  http,       \* what each connection is doing
  raced,      \* history: metrics written while they were being expired
  untold,     \* history: metrics prom_missing does not hear of: uc_insert
              \* failed for them, or they expired without the call
  refused,    \* history: metrics prom_write could not store
  late        \* history: prom_missing was called for a metric that prom_write
              \* had not seen or not stored

vars == <<routed, cached, prom, leaked, pc, fam, todo, mpc, expired, called, http,
          raced, untold, refused, late>>
cacheVars == <<cached, expired, called, mpc>>
writerVars == <<pc, fam, todo>>
history == <<raced, untold, refused, late>>

Exported == UNION {prom[f] : f \in Families}

(* metrics that are in the cache on behalf of w and not yet given to prom_write *)
Pending(w) == fam[w] \ todo[w]

(* prom_write has not seen m since it was cached *)
Unseen(m) == FamilyOf[m] \notin routed \/ \E w \in Writers : m \in Pending(w)

Init ==
  /\ routed \in Routings
  /\ cached = {}
  /\ prom = [f \in Families |-> {}]
  /\ leaked = FALSE
  /\ pc = [w \in Writers |-> "idle"]
  /\ fam = [w \in Writers |-> {}]
  /\ todo = [w \in Writers |-> {}]
  /\ mpc = "loop"
  /\ expired = {}
  /\ called = {}
  /\ http = [c \in Clients |-> "idle"]
  /\ raced = {} /\ untold = {} /\ refused = {}
  /\ late = FALSE

-----------------------------------------------------------------------------
(* plugin_write_thread takes a family; after stop_write_threads there is none *)
Dequeue(w, f, M) ==
  /\ pc[w] = "idle"
  /\ mpc \in {"loop", "missing"}
  /\ M # {} /\ \A m \in M : FamilyOf[m] = f
  /\ pc' = [pc EXCEPT ![w] = "update"]
  /\ fam' = [fam EXCEPT ![w] = M]
  /\ todo' = [todo EXCEPT ![w] = M]
  /\ UNCHANGED <<routed, cacheVars, prom, leaked, http, history>>

(***************************************************************************)
(* uc_update_metric for one metric of the family.  It may fail: uc_insert  *)
(* for a new metric, or the value of a cached one is too old.  The family  *)
(* is written all the same.                                                *)
(***************************************************************************)
UcUpdate(w, m) ==
  /\ pc[w] = "update"
  /\ m \in todo[w]
  /\ todo' = [todo EXCEPT ![w] = @ \ {m}]
  /\ pc' = [pc EXCEPT ![w] = IF todo[w] = {m} THEN "write" ELSE "update"]
  /\ \/ /\ cached' = cached \cup {m}
        /\ untold' = untold \ {m}
        /\ raced' = IF m \in expired THEN raced \cup {m} ELSE raced \ {m}
     \/ /\ UNCHANGED cached
        /\ untold' = untold \cup ({m} \ cached)
        /\ raced' = raced \cup ({m} \cap expired)
  /\ UNCHANGED <<routed, prom, leaked, fam, mpc, expired, called, http, refused, late>>

(* what prom_write is given of the family w writes *)
Given(w) == {m \in fam[w] : FamilyOf[m] \in routed}

(***************************************************************************)
(* prom_write.  A family that is not known is cloned and inserted, or      *)
(* nothing of it is; in one that is known the metrics are updated, or      *)
(* appended where that does not fail.                                      *)
(***************************************************************************)
Write(w) ==
  /\ pc[w] = "write"
  /\ ~leaked
  /\ \E S \in SUBSET Given(w) :
       /\ (\A m \in Given(w) : prom[FamilyOf[m]] = {}) => S \in {{}, Given(w)}
       /\ prom' = [f \in Families |-> prom[f] \cup {m \in S : FamilyOf[m] = f}]
       /\ refused' = (refused \ S) \cup (Given(w) \ (S \cup Exported))
  /\ pc' = [pc EXCEPT ![w] = "idle"]
  /\ fam' = [fam EXCEPT ![w] = {}]
  /\ raced' = raced \cup (fam[w] \cap expired)
  /\ UNCHANGED <<routed, cacheVars, leaked, todo, http, untold, late>>

-----------------------------------------------------------------------------
(* uc_check_timeout: any entries may be old enough *)
Collect(S) ==
  /\ mpc = "loop"
  /\ S # {} /\ S \subseteq cached
  /\ expired' = S
  /\ called' = {}
  /\ mpc' = "missing"
  /\ raced' = raced \cup {m \in S : \E w \in Writers : m \in Pending(w)}
  /\ UNCHANGED <<routed, cached, prom, leaked, writerVars, http, untold, refused, late>>

\* Mutant: the family goes with the metric.
MissingDropsFamily(m) ==
  LET f == FamilyOf[m]
  IN  /\ ~leaked
      /\ prom' = [prom EXCEPT ![f] = {}]
      /\ leaked' = (prom[f] = {})

\* Mutant: the lock is not released either when the last metric is deleted.
MissingLeaksLast(m) ==
  LET f == FamilyOf[m]
  IN  /\ ~leaked
      /\ prom' = [prom EXCEPT ![f] = @ \ {m}]
      /\ leaked' = (prom[f] \subseteq {m})

\* Mutant: the metric is not deleted.
MissingForgets(m) ==
  /\ ~leaked
  /\ leaked' = (prom[FamilyOf[m]] = {})
  /\ UNCHANGED prom

(***************************************************************************)
(* prom_missing, called for one metric: the metric is deleted, and with    *)
(* its last metric the family.  If the family is not known the function    *)
(* returns with the lock held.                                             *)
(***************************************************************************)
PromMissing(m) ==
  LET f == FamilyOf[m]
  IN  /\ ~leaked
      /\ prom' = [prom EXCEPT ![f] = @ \ {m}]
      /\ leaked' = (prom[f] = {})

(***************************************************************************)
(* uc_check_timeout for one metric.  prom_missing is not called if         *)
(* metric_parse_identity fails (always for a metric with labels, for any   *)
(* without memory) or if a missing callback registered before it ends the  *)
(* walk of plugin_dispatch_missing.                                        *)
(***************************************************************************)
CallMissing(m) ==
  /\ mpc = "missing"
  /\ m \in expired \ called
  /\ called' = called \cup {m}
  /\ \/ /\ untold' = untold \cup {m}
        /\ UNCHANGED <<prom, leaked, late>>
     \/ /\ m \notin Labelled
        /\ PromMissing(m)
        /\ untold' = untold \ {m}
        /\ late' = (late \/ Unseen(m) \/ m \in refused)
  /\ UNCHANGED <<routed, cached, expired, mpc, writerVars, http, raced, refused>>

(* the end of uc_check_timeout *)
Remove ==
  /\ mpc = "missing"
  /\ called = expired
  /\ cached' = cached \ expired
  /\ expired' = {}
  /\ called' = {}
  /\ mpc' = "loop"
  /\ UNCHANGED <<routed, prom, leaked, writerVars, http, history>>

-----------------------------------------------------------------------------
(* libmicrohttpd starts a thread for a request, until MHD_stop_daemon *)
Request(c) ==
  /\ http[c] = "idle"
  /\ mpc \in {"loop", "missing", "stop"}
  /\ http' = [http EXCEPT ![c] = "waiting"]
  /\ UNCHANGED <<routed, cacheVars, prom, leaked, writerVars, history>>

\* Mutant: nothing is answered as long as there is nothing to export.
RespondIfAny(c) ==
  /\ http[c] = "waiting" /\ ~leaked /\ Exported # {}
  /\ http' = [http EXCEPT ![c] = "idle"]
  /\ UNCHANGED <<routed, cacheVars, prom, leaked, writerVars, history>>

(* http_handler: format_text reads all families under the lock *)
Respond(c) ==
  /\ http[c] = "waiting"
  /\ ~leaked
  /\ http' = [http EXCEPT ![c] = "idle"]
  /\ UNCHANGED <<routed, cacheVars, prom, leaked, writerVars, history>>

-----------------------------------------------------------------------------
(* plugin_shutdown_all: stop_write_threads, then prom_shutdown *)
BeginShutdown ==
  /\ mpc = "loop"
  /\ mpc' = "stop"
  /\ UNCHANGED <<routed, cached, expired, called, prom, leaked, writerVars, http, history>>

(* stop_write_threads has joined them; MHD_stop_daemon takes no new requests *)
StopWriters ==
  /\ mpc = "stop"
  /\ \A w \in Writers : pc[w] = "idle"
  /\ mpc' = "quiesce"
  /\ UNCHANGED <<routed, cached, expired, called, prom, leaked, writerVars, http, history>>

(* MHD_stop_daemon waits for the threads of the connections *)
StopDaemon ==
  /\ mpc = "quiesce"
  /\ \A c \in Clients : http[c] = "idle"
  /\ mpc' = "stopped"
  /\ UNCHANGED <<routed, cached, expired, called, prom, leaked, writerVars, http, history>>

(* prom_shutdown frees the families under the lock *)
FreeFamilies ==
  /\ mpc = "stopped"
  /\ ~leaked
  /\ prom' = [f \in Families |-> {}]
  /\ mpc' = "done"
  /\ UNCHANGED <<routed, cached, expired, called, leaked, writerVars, http, history>>

-----------------------------------------------------------------------------
WriteThread(w) == Write(w) \/ \E m \in Metrics : UcUpdate(w, m)
MissingCallbacks == Remove \/ \E m \in Metrics : CallMissing(m)
Shutdown == StopWriters \/ StopDaemon \/ FreeFamilies

Next ==
  \/ \E w \in Writers, f \in Families, M \in SUBSET Metrics : Dequeue(w, f, M)
  \/ \E w \in Writers : WriteThread(w)
  \/ \E S \in SUBSET Metrics : Collect(S)
  \/ MissingCallbacks
  \/ \E c \in Clients : Request(c) \/ Respond(c)
  \/ BeginShutdown \/ Shutdown

Spec == Init /\ [][Next]_vars

(***************************************************************************)
(* Threads run: a write under way, a timeout under way, a request and a    *)
(* shutdown go on whenever they can.  New values, requests, expiry and the *)
(* order to shut down come from outside.                                   *)
(***************************************************************************)
Fairness ==
  /\ \A w \in Writers : WF_vars(WriteThread(w))
  /\ WF_vars(MissingCallbacks)
  /\ \A c \in Clients : WF_vars(Respond(c))
  /\ WF_vars(Shutdown)

FairSpec == Spec /\ Fairness

-----------------------------------------------------------------------------
(* The type of every variable; a family holds metrics of its own only. *)
TypeOK ==
  /\ routed \subseteq Families
  /\ cached \subseteq Metrics
  /\ prom \in [Families -> SUBSET Metrics]
  /\ \A f \in Families : \A m \in prom[f] : FamilyOf[m] = f
  /\ leaked \in BOOLEAN
  /\ pc \in [Writers -> {"idle", "update", "write"}]
  /\ fam \in [Writers -> SUBSET Metrics]
  /\ todo \in [Writers -> SUBSET Metrics]
  /\ \A w \in Writers : /\ todo[w] \subseteq fam[w]
                        /\ pc[w] = "write" => todo[w] = {}
                        /\ pc[w] = "idle" => fam[w] = {}
  /\ mpc \in {"loop", "missing", "stop", "quiesce", "stopped", "done"}
  /\ called \subseteq expired /\ expired \subseteq Metrics
  /\ http \in [Clients -> {"idle", "waiting"}]
  /\ raced \subseteq Metrics /\ untold \subseteq Metrics /\ refused \subseteq Metrics
  /\ late \in BOOLEAN

(***************************************************************************)
(* What the cache holds is exported: a metric with an entry is in a family *)
(* of prom_metrics, unless the thread that cached it has not called        *)
(* prom_write yet, its family is written elsewhere, prom_write had no      *)
(* memory to store it, or prom_missing was just called for it.             *)
(***************************************************************************)
CachedIsExported ==
  mpc # "done" =>
    \A m \in cached : m \in Exported \/ m \in called \/ Unseen(m) \/ m \in refused

(***************************************************************************)
(* No ghosts: a metric that is exported is in the cache, so                *)
(* uc_check_timeout will come to it.  The exceptions are a metric that was *)
(* written while uc_check_timeout was expiring it, one that uc_insert had  *)
(* no memory for, and one that expired without a call of prom_missing:     *)
(* which is what happens to every metric with labels.                      *)
(***************************************************************************)
NoGhost ==
  \A m \in Exported : m \in cached \/ m \in raced \/ m \in untold

(***************************************************************************)
(* The lock is lost only when prom_missing is called for a metric before   *)
(* the write that made its entry has reached prom_write, or whose family   *)
(* never does, or that prom_write could not store.                         *)
(***************************************************************************)
LeakOnlyIfLate == leaked => late

(***************************************************************************)
(* What a missing callback is for: a metric that left the cache and was    *)
(* not written meanwhile is not exported any more.  Not true of the code:  *)
(* a metric with labels stays exported for good.                           *)
(***************************************************************************)
ExpiredIsGone == \A m \in Exported : m \in cached \/ m \in raced

(***************************************************************************)
(* Requests are answered and the shutdown ends, unless the lock is lost.   *)
(***************************************************************************)
EndsUnlessLeaked ==
  /\ \A c \in Clients : http[c] = "waiting" ~> (http[c] = "idle" \/ leaked)
  /\ mpc = "stop" ~> (mpc = "done" \/ leaked)

(***************************************************************************)
(* http_handler "handles all HTTP request aspects and creates an HTTP      *)
(* response": every request is answered.                                   *)
(***************************************************************************)
EveryRequestAnswered ==
  \A c \in Clients : http[c] = "waiting" ~> http[c] = "idle"
=============================================================================
