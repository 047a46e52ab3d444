----------------------------- MODULE ValueCache -----------------------------
(***************************************************************************)
(* The value cache of daemon/utils_cache.c and the cache events of         *)
(* daemon/plugin.c.  Write threads call uc_update for every metric they    *)
(* dispatch; the main loop calls uc_check_timeout, which collects the      *)
(* entries that were not updated for interval * Timeout, tells the         *)
(* "missing" callbacks and the subscribers of the CE_VALUE_EXPIRED event,  *)
(* and then removes the entries.                                           *)
(*                                                                         *)
(* Every critical section of cache_lock is one action.  The callbacks run  *)
(* without the lock: what a thread carries from one critical section to    *)
(* the next (the name, the mask it read) may be stale when it uses it.     *)
(*                                                                         *)
(* The local clock appears only in now - last_update, so age[n] is that    *)
(* difference, up to the number at which the entry counts as missing.      *)
(* Times are the times the metrics carry (they come from the plugin or     *)
(* from the network, in any order).  A metric family is any sequence of    *)
(* metrics: uc_update handles each one under a lock of its own.  What      *)
(* fails before the entry is touched (no memory for the name or in         *)
(* uc_insert, distributions of different layouts) changes nothing here and *)
(* has no action.                                                          *)
(***************************************************************************)
EXTENDS Naturals, Sequences, FiniteSets

CONSTANTS
  Writers,      \* the write threads
  Names,        \* metric identities, the keys of cache_tree
  Labelled,     \* those with labels: metric_parse_identity refuses them
  Callbacks,    \* the registered cache event callbacks, list_cache_event
  Interested,   \* [Names -> SUBSET Callbacks], who sets event->ret for a name
  MissingNum,   \* the number of callbacks in list_missing
  MaxTime,      \* bound: metrics carry a time in 1..MaxTime
  Lifetime,     \* [Names -> Nat], interval * timeout_g
  NoName        \* no metric in hand

ASSUME LabelledAssumption == Labelled \subseteq Names
ASSUME InterestedAssumption == Interested \in [Names -> SUBSET Callbacks]
ASSUME MissingAssumption == MissingNum \in Nat
ASSUME MaxTimeAssumption == MaxTime \in Nat
ASSUME LifetimeAssumption == Lifetime \in [Names -> Nat \ {0}]
ASSUME NoNameAssumption == NoName \notin Names

VARIABLES
  tree,       \* the keys in cache_tree
  last,       \* last_time of each entry (0 without an entry)
  age,        \* now - last_update of each entry
  mask,       \* callbacks_mask of each entry, as a set
  wpc,        \* where each write thread is in uc_update_metric
  metric,     \* the name of the metric each write thread is updating
  wmask,      \* the mask each write thread carries out of the lock
  cpc,        \* where the main loop is in uc_check_timeout
  expired,    \* the names in the array `expired'
  emask,      \* their callbacks_mask
  called,     \* the names the second loop of uc_check_timeout is done with
  event,      \* history: the last cache event that was dispatched
  heard,      \* history: <<c, n>> when c was sent CE_VALUE_NEW for n
  told,       \* history: missing callbacks called for n in this pass
  unparsed,   \* history: names metric_parse_identity refused in this pass
  accepted    \* history: the times accepted for the entry of n

vars == <<tree, last, age, mask, wpc, metric, wmask, cpc, expired, emask,
          called, event, heard, told, unparsed, accepted>>
writerVars == <<wpc, metric, wmask>>
checkVars == <<cpc, expired, emask, called, told, unparsed>>

Times == 1..MaxTime
NoEvent == [type |-> "none", name |-> NoName, to |-> {}, mask |-> {}]

-----------------------------------------------------------------------------
Init ==
  /\ tree = {}
  /\ last = [n \in Names |-> 0]
  /\ age = [n \in Names |-> 0]
  /\ mask = [n \in Names |-> {}]
  /\ wpc = [w \in Writers |-> "idle"]
  /\ metric = [w \in Writers |-> NoName]
  /\ wmask = [w \in Writers |-> {}]
  /\ cpc = "idle"
  /\ expired = {}
  /\ emask = [n \in Names |-> {}]
  /\ called = {}
  /\ event = NoEvent
  /\ heard = {}
  /\ told = [n \in Names |-> 0]
  /\ unparsed = {}
  /\ accepted = [n \in Names |-> <<>>]

(***************************************************************************)
(* plugin_dispatch_cache_event sends UPDATE and EXPIRED to Receivers(S)    *)
(* where S is the mask it was given: its test                              *)
(*       if (callbacks_mask && (1 << (i)) == 0) continue;                  *)
(* compares 1 << i with 0, so no callback is skipped.                      *)
(***************************************************************************)
Receivers(S) == Callbacks

Dispatch(type, n, S) ==
  event' = [type |-> type, name |-> n, mask |-> S,
            to |-> IF type = "NEW" THEN Callbacks ELSE Receivers(S)]

-----------------------------------------------------------------------------
\* Mutant: uc_insert sets the mask before anybody was sent NEW.
InsertSetsMask(w, n, t) ==
  /\ wpc[w] = "idle" /\ n \notin tree
  /\ tree' = tree \cup {n}
  /\ last' = [last EXCEPT ![n] = t] /\ age' = [age EXCEPT ![n] = 0]
  /\ mask' = [mask EXCEPT ![n] = Interested[n]]
  /\ accepted' = [accepted EXCEPT ![n] = <<t>>]
  /\ wpc' = [wpc EXCEPT ![w] = "new"] /\ metric' = [metric EXCEPT ![w] = n]
  /\ UNCHANGED <<wmask, checkVars, event, heard>>

(* uc_update_metric for a metric whose name is not in the cache: uc_insert *)
Insert(w, n, t) ==
  /\ wpc[w] = "idle"
  /\ n \notin tree
  /\ tree' = tree \cup {n}
  /\ last' = [last EXCEPT ![n] = t]
  /\ age' = [age EXCEPT ![n] = 0]
  /\ accepted' = [accepted EXCEPT ![n] = <<t>>]
  /\ wpc' = [wpc EXCEPT ![w] = "new"]
  /\ metric' = [metric EXCEPT ![w] = n]
  /\ UNCHANGED <<mask, wmask, checkVars, event, heard>>

WriterReturns(w) ==
  /\ wpc' = [wpc EXCEPT ![w] = "idle"]
  /\ metric' = [metric EXCEPT ![w] = NoName]
  /\ wmask' = [wmask EXCEPT ![w] = {}]

(***************************************************************************)
(* CE_VALUE_NEW goes to every callback; their answers make the mask, and   *)
(* uc_set_callbacks_mask is called if it is not empty.                     *)
(***************************************************************************)
AnnounceNew(w) ==
  /\ wpc[w] = "new"
  /\ Dispatch("NEW", metric[w], {})
  /\ heard' = heard \cup {<<c, metric[w]>> : c \in Callbacks}
  /\ \/ /\ Interested[metric[w]] = {}
        /\ WriterReturns(w)
     \/ /\ Interested[metric[w]] # {}
        /\ wmask' = [wmask EXCEPT ![w] = Interested[metric[w]]]
        /\ wpc' = [wpc EXCEPT ![w] = "mask"]
        /\ UNCHANGED metric
  /\ UNCHANGED <<tree, last, age, mask, checkVars, accepted>>

(* uc_set_callbacks_mask: the entry may be gone, or be a later one *)
SetCallbacksMask(w) ==
  /\ wpc[w] = "mask"
  /\ mask' = IF metric[w] \in tree THEN [mask EXCEPT ![metric[w]] = wmask[w]]
             ELSE mask
  /\ WriterReturns(w)
  /\ UNCHANGED <<tree, last, age, checkVars, event, heard, accepted>>

(***************************************************************************)
(* What uc_update_metric stores in the entry, and the mask it takes out of *)
(* the critical section.                                                   *)
(***************************************************************************)
Store(w, n, t) ==
  /\ last' = [last EXCEPT ![n] = t]
  /\ age' = [age EXCEPT ![n] = 0]
  /\ accepted' = [accepted EXCEPT ![n] = Append(@, t)]
  /\ \/ /\ mask[n] = {}
        /\ UNCHANGED writerVars
     \/ /\ mask[n] # {}
        /\ wmask' = [wmask EXCEPT ![w] = mask[n]]
        /\ wpc' = [wpc EXCEPT ![w] = "update"]
        /\ metric' = [metric EXCEPT ![w] = n]
  /\ UNCHANGED <<tree, checkVars, event, heard>>

\* Mutant: a metric with the time of the entry is accepted.
UpdateSameTime(w, n, t) ==
  /\ wpc[w] = "idle" /\ n \in tree /\ last[n] <= t
  /\ Store(w, n, t)
  /\ UNCHANGED mask

\* Mutant: an update resets the mask.
UpdateClearsMask(w, n, t) ==
  /\ wpc[w] = "idle" /\ n \in tree /\ last[n] < t
  /\ Store(w, n, t)
  /\ mask' = [mask EXCEPT ![n] = {}]

(***************************************************************************)
(* uc_update_metric for an entry that exists.  A metric that is not newer  *)
(* than the entry is refused ("Value too old") and changes nothing.        *)
(***************************************************************************)
Update(w, n, t) ==
  /\ wpc[w] = "idle"
  /\ n \in tree
  /\ last[n] < t
  /\ Store(w, n, t)
  /\ UNCHANGED mask

(* CE_VALUE_UPDATE, after the lock is released, for the mask read under it *)
AnnounceUpdate(w) ==
  /\ wpc[w] = "update"
  /\ Dispatch("UPDATE", metric[w], wmask[w])
  /\ WriterReturns(w)
  /\ UNCHANGED <<tree, last, age, mask, checkVars, heard, accepted>>

-----------------------------------------------------------------------------
Stale(n) == n \in tree /\ age[n] = Lifetime[n]

(* cache_free for the entries of S, and the names without an entry *)
Free(S) ==
  /\ tree' = tree \ S
  /\ last' = [n \in Names |-> IF n \in S THEN 0 ELSE last[n]]
  /\ age' = [n \in Names |-> IF n \in S THEN 0 ELSE age[n]]
  /\ mask' = [n \in Names |-> IF n \in S THEN {} ELSE mask[n]]
  /\ accepted' = [n \in Names |-> IF n \in S THEN <<>> ELSE accepted[n]]

\* Mutant: entries with a mask are passed over.
CollectOnlyUnmasked ==
  /\ cpc = "idle" /\ \E n \in Names : Stale(n) /\ mask[n] = {}
  /\ expired' = {n \in Names : Stale(n) /\ mask[n] = {}}
  /\ emask' = [n \in Names |-> {}]
  /\ cpc' = "calling"
  /\ UNCHANGED <<tree, last, age, mask, writerVars, called, told, unparsed, event,
                 heard, accepted>>

(***************************************************************************)
(* uc_check_timeout, first part: the entries that are not fresh any more.  *)
(* One for which realloc or strdup fails is left for a later pass.         *)
(***************************************************************************)
Collect ==
  /\ cpc = "idle"
  /\ expired' \in SUBSET {n \in Names : Stale(n)} \ {{}}
  /\ emask' = [n \in Names |-> IF n \in expired' THEN mask[n] ELSE {}]
  /\ cpc' = "calling"
  /\ UNCHANGED <<tree, last, age, mask, writerVars, called, told, unparsed, event,
                 heard, accepted>>

(***************************************************************************)
(* uc_check_timeout, second part, for one name.  The metric is made from   *)
(* the name: metric_parse_identity always fails for a name with labels     *)
(* (label_set_unmarshal has consumed the `}' that                          *)
(* metric_family_unmarshal_identity then asks for), and for any name       *)
(* without memory; the loop then goes on with the next name.  Otherwise    *)
(* plugin_dispatch_missing calls the callbacks in order and stops after    *)
(* the k-th if that one does not return zero; then comes the               *)
(* CE_VALUE_EXPIRED event if the mask is set.                              *)
(***************************************************************************)
CallMissing(n) ==
  /\ cpc = "calling"
  /\ n \in expired \ called
  /\ called' = called \cup {n}
  /\ \/ /\ unparsed' = unparsed \cup {n}
        /\ UNCHANGED <<told, event>>
     \/ /\ n \notin Labelled
        /\ \E k \in 0..MissingNum : /\ MissingNum > 0 => k > 0
                                    /\ told' = [told EXCEPT ![n] = k]
        /\ \/ emask[n] = {} /\ UNCHANGED event
           \/ emask[n] # {} /\ Dispatch("EXPIRED", n, emask[n])
        /\ UNCHANGED unparsed
  /\ UNCHANGED <<tree, last, age, mask, writerVars, cpc, expired, emask, heard,
                 accepted>>

\* Mutant: the entries are removed while names are left to be told about.
RemoveEarly ==
  /\ cpc = "calling" /\ called # {}
  /\ Free(expired)
  /\ cpc' = "idle" /\ expired' = {} /\ called' = {} /\ unparsed' = {}
  /\ emask' = [n \in Names |-> {}] /\ told' = [n \in Names |-> 0]
  /\ UNCHANGED <<writerVars, event, heard>>

(***************************************************************************)
(* uc_check_timeout, third part: the collected entries are removed.  "We   *)
(* don't re-evaluate the timestamp again": an entry that was updated in    *)
(* the meantime goes, too.                                                 *)
(***************************************************************************)
Remove ==
  /\ cpc = "calling"
  /\ called = expired
  /\ Free(expired)
  /\ cpc' = "idle"
  /\ expired' = {}
  /\ called' = {}
  /\ emask' = [n \in Names |-> {}]
  /\ told' = [n \in Names |-> 0]
  /\ unparsed' = {}
  /\ UNCHANGED <<writerVars, event, heard>>

(* the local clock, cdtime() *)
Tick ==
  /\ \E n \in tree : age[n] < Lifetime[n]
  /\ age' = [n \in Names |-> IF n \in tree /\ age[n] < Lifetime[n]
                             THEN age[n] + 1 ELSE age[n]]
  /\ UNCHANGED <<tree, last, mask, writerVars, checkVars, event, heard, accepted>>

-----------------------------------------------------------------------------
WriterFinishes(w) == AnnounceNew(w) \/ SetCallbacksMask(w) \/ AnnounceUpdate(w)
CheckTimeout == Collect \/ (\E n \in Names : CallMissing(n)) \/ Remove

Next ==
  \/ \E w \in Writers, n \in Names, t \in Times : Insert(w, n, t) \/ Update(w, n, t)
  \/ \E w \in Writers : WriterFinishes(w)
  \/ CheckTimeout
  \/ Tick

Spec == Init /\ [][Next]_vars

(***************************************************************************)
(* Callbacks return, the clock runs, and do_loop calls uc_check_timeout    *)
(* every interval.  An allocation that is tried again and again succeeds   *)
(* at some time.  Nothing obliges a write thread to bring a new metric.    *)
(***************************************************************************)
CollectsIt(n) == Collect /\ n \in expired'

Fairness ==
  /\ WF_vars(Tick)
  /\ WF_vars(CheckTimeout)
  /\ \A n \in Names : SF_vars(CollectsIt(n))
  /\ \A w \in Writers : WF_vars(WriterFinishes(w))

FairSpec == Spec /\ Fairness

-----------------------------------------------------------------------------
Events == [type : {"none", "NEW", "UPDATE", "EXPIRED"}, name : Names \cup {NoName},
           to : SUBSET Callbacks, mask : SUBSET Callbacks]

(***************************************************************************)
(* The type of every variable; a name without an entry has the state of a  *)
(* fresh entry, which is what uc_insert relies on after cache_free.        *)
(***************************************************************************)
TypeOK ==
  /\ tree \subseteq Names
  /\ last \in [Names -> 0..MaxTime]
  /\ age \in [Names -> Nat] /\ \A n \in Names : age[n] <= Lifetime[n]
  /\ mask \in [Names -> SUBSET Callbacks]
  /\ wpc \in [Writers -> {"idle", "new", "mask", "update"}]
  /\ metric \in [Writers -> Names \cup {NoName}]
  /\ wmask \in [Writers -> SUBSET Callbacks]
  /\ cpc \in {"idle", "calling"}
  /\ expired \subseteq Names /\ called \subseteq expired
  /\ emask \in [Names -> SUBSET Callbacks]
  /\ event \in Events
  /\ heard \subseteq Callbacks \X Names
  /\ told \in [Names -> 0..MissingNum]
  /\ unparsed \subseteq called
  /\ accepted \in [Names -> Seq(Times)]
  /\ \A n \in Names \ tree : last[n] = 0 /\ age[n] = 0 /\ mask[n] = {}

(***************************************************************************)
(* "Do this before removing the value from the cache, so that callbacks    *)
(* can still access the data stored": while uc_check_timeout calls the     *)
(* callbacks, every entry it collected is in the cache, whatever the write *)
(* threads do; so c_avl_remove in its last loop never fails.               *)
(***************************************************************************)
ExpiredStillCached == expired \subseteq tree

(***************************************************************************)
(* An entry that uc_check_timeout removes disappears in silence only if    *)
(* its identity could not be parsed: otherwise the first missing callback  *)
(* has been called for it in the same pass.                                *)
(***************************************************************************)
ToldBeforeRemoved ==
  [][MissingNum > 0 => \A n \in tree \ tree' : told[n] > 0 \/ n \in unparsed]_vars

(***************************************************************************)
(* "Call the "missing" callback for each value" (uc_check_timeout): the    *)
(* code does not, for any metric with labels.                              *)
(***************************************************************************)
EachValueIsTold ==
  [][MissingNum > 0 => \A n \in tree \ tree' : told[n] > 0]_vars

(***************************************************************************)
(* Once the thread that created an entry is through with the NEW event,    *)
(* the entry's mask is what the callbacks asked for -- also when a thread  *)
(* that created an earlier entry of the name writes its mask late, and     *)
(* whatever updates came in between (uc_update keeps callbacks_mask).      *)
(***************************************************************************)
Creating(n) == \E w \in Writers : metric[w] = n /\ wpc[w] \in {"new", "mask"}

MaskSettles == \A n \in tree : Creating(n) \/ mask[n] = Interested[n]

(***************************************************************************)
(* The write threads may bring the metrics of one name in any order and    *)
(* more than once; what an entry takes is in order and without duplicates, *)
(* so no rate is computed over a time difference that is zero or negative  *)
(* (m->time - ce->last_time is unsigned).                                  *)
(***************************************************************************)
AcceptedInOrder ==
  \A n \in tree :
     /\ \A i, j \in 1..Len(accepted[n]) : i < j => accepted[n][i] < accepted[n][j]
     /\ last[n] = accepted[n][Len(accepted[n])]

(***************************************************************************)
(* A callback is not sent UPDATE or EXPIRED for a metric of which it has   *)
(* never been sent NEW, although threads carry masks over the unlocked     *)
(* parts and the entry can be removed and created again meanwhile.         *)
(***************************************************************************)
NewComesFirst ==
  event.type \in {"UPDATE", "EXPIRED"} =>
     \A c \in event.to : <<c, event.name>> \in heard

(***************************************************************************)
(* "Callback should check if it interested in further CE_VALUE_UPDATE and  *)
(* CE_VALUE_EXPIRED events for metric and set event->ret = 1 if so": those *)
(* events go to the callbacks that asked for them and to no others.        *)
(***************************************************************************)
OnlySubscribersHear ==
  event.type \in {"UPDATE", "EXPIRED"} => event.to \subseteq event.mask

(***************************************************************************)
(* An entry that is not updated any more does not stay: it is removed, or  *)
(* an update makes it fresh again.                                         *)
(***************************************************************************)
StaleIsRemoved == \A n \in Names : Stale(n) ~> ~Stale(n)
=============================================================================
