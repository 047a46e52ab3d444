----------------------------- MODULE CacheLock ------------------------------
(***************************************************************************)
(* cache_lock of daemon/utils_cache.c, which the model of the value cache  *)
(* takes for granted: threads that insert or update a metric and threads   *)
(* that ask for a rate by name (the threshold plugin does so in the write  *)
(* threads).  Each step is one lock or unlock.                             *)
(*                                                                         *)
(* Unlocking a mutex of the default kind that another thread has locked is *)
(* undefined; what the C library does is to release it.                    *)
(***************************************************************************)
EXTENDS Naturals, FiniteSets

CONSTANTS Threads, NoThread

VARIABLES
  owner,      \* the thread that holds cache_lock, or NoThread
  pc          \* the function each thread is in, and where

vars == <<owner, pc>>

Goto(t, l) == pc' = [pc EXCEPT ![t] = l]

Lock(t) == owner = NoThread /\ owner' = t
Unlock == owner' = NoThread

Init == owner = NoThread /\ pc = [t \in Threads |-> "outside"]

(* uc_update_metric: uc_insert or the update runs under the lock *)
UpdateLocks(t) == pc[t] = "outside" /\ Lock(t) /\ Goto(t, "insert")
UpdateUnlocks(t) == pc[t] = "insert" /\ Unlock /\ Goto(t, "outside")

(* uc_get_rate_by_name, and for a distribution uc_get_percentile_by_name *)
RateLocks(t) == pc[t] = "outside" /\ Lock(t) /\ Goto(t, "rate")

RateForDistribution(t) == pc[t] = "rate" /\ Unlock /\ Goto(t, "percentile")
PercentileLocks(t) == pc[t] = "percentile" /\ Lock(t) /\ Goto(t, "sorted")
PercentileUnlocks(t) == pc[t] = "sorted" /\ Unlock /\ Goto(t, "rated")
RateUnlocks(t) == pc[t] \in {"rate", "rated"} /\ Unlock /\ Goto(t, "outside")

Step(t) ==
  \/ UpdateLocks(t) \/ UpdateUnlocks(t)
  \/ RateLocks(t) \/ RateForDistribution(t) \/ PercentileLocks(t)
  \/ PercentileUnlocks(t) \/ RateUnlocks(t)

Next == \E t \in Threads : Step(t)

Spec == Init /\ [][Next]_vars

-----------------------------------------------------------------------------
(***************************************************************************)
(* "cache_lock has been locked by uc_update": while a thread is in         *)
(* uc_insert it holds the lock, so it is alone in the tree.                *)
(***************************************************************************)
InsertHoldsLock == \A t \in Threads : pc[t] = "insert" => owner = t
=============================================================================
