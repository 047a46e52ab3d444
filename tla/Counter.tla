------------------------------ MODULE Counter -------------------------------
(***************************************************************************)
(* Counters between two values in the cache: counter_diff of               *)
(* utils/common/common.c, as uc_update_metric uses it.  The source counts  *)
(* with 32 or 64 bits, which the daemon is not told, wraps around, and may *)
(* start again at 0.                                                       *)
(***************************************************************************)
EXTENDS Integers

CONSTANTS
  Low, High,      \* 2^32 and 2^64
  Steps,          \* by how much the source may count at once
  Unknown

ASSUME WidthAssumption == Low \in Nat \ {0} /\ High \in Nat /\ High >= 2 * Low
ASSUME StepsAssumption == Steps \subseteq Nat /\ Unknown \notin Nat

VARIABLES
  source,         \* the counter outside: its width and value
  rawCounter,     \* ce->values_raw.value.counter
  diff,           \* what the rate is computed from
  counted,        \* by how much the source counted since the cache was told
  restarted,      \* the source started again since then
  truth           \* `counted' when the cache was told last, or Unknown

countervars == <<source, rawCounter, diff, counted, restarted, truth>>

CounterInit ==
  /\ \E w \in {Low, High} : \E v \in 0..w - 1 : source = [width |-> w, value |-> v]
  /\ rawCounter = Unknown /\ diff = Unknown
  /\ counted = 0 /\ restarted = FALSE /\ truth = Unknown

\* Mutant: the greatest 32-bit value is taken for a 64-bit counter's.
CounterDiffBelow(old_value, new_value) ==
  IF old_value > new_value
  THEN (IF old_value < Low - 1 THEN Low - 1 - old_value ELSE High - 1 - old_value)
         + new_value + 1
  ELSE new_value - old_value

counter_diff(old_value, new_value) ==
  IF old_value > new_value
  THEN (IF old_value <= Low - 1 THEN Low - 1 - old_value ELSE High - 1 - old_value)
         + new_value + 1
  ELSE new_value - old_value

(* Fewer than 2^32 events between two values of the metric *)
Count(d) ==
  /\ counted + d < Low
  /\ source' = [source EXCEPT !.value = (@ + d) % source.width]
  /\ counted' = counted + d
  /\ UNCHANGED <<rawCounter, diff, restarted, truth>>

Restart ==
  /\ source' = [source EXCEPT !.value = 0]
  /\ counted' = 0 /\ restarted' = TRUE
  /\ UNCHANGED <<rawCounter, diff, truth>>

(* uc_insert for the first value, then uc_update_metric *)
UpdateCounter ==
  /\ diff' = IF rawCounter = Unknown THEN Unknown
             ELSE counter_diff(rawCounter, source.value)
  /\ truth' = IF rawCounter = Unknown \/ restarted THEN Unknown ELSE counted
  /\ rawCounter' = source.value
  /\ counted' = 0 /\ restarted' = FALSE
  /\ UNCHANGED source

CounterNext == (\E d \in Steps : Count(d)) \/ Restart \/ UpdateCounter

CounterSpec == CounterInit /\ [][CounterNext]_countervars

-----------------------------------------------------------------------------
(* Whichever width the source has and wherever it wraps around, the
   difference is the number of events between the two values, as long as
   there are fewer than 2^32 and the source did not start again. *)
DifferenceIsExact == truth # Unknown => diff = truth
=============================================================================
