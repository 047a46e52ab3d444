---------------------------- MODULE CacheHistory ----------------------------
(***************************************************************************)
(* The history of one entry of the value cache (daemon/utils_cache.c): a   *)
(* ring of the last values, allocated and enlarged by                      *)
(* uc_get_history_by_name and written by uc_update_metric.  Both run under *)
(* cache_lock, so each is one action.  Positions count from 0 as in C.     *)
(***************************************************************************)
EXTENDS Integers, Sequences

CONSTANTS
  Values,     \* the rates an update can store
  Steps,      \* the values of num_steps the callers ask for
  NaN         \* a position that was never written

VARIABLES
  history,    \* ce->history, [0..length-1 -> Values \cup {NaN}]
  length,     \* ce->history_length
  index,      \* ce->history_index
  newest,     \* history: the value of the last update since the allocation
  got         \* history: what the last uc_get_history_by_name returned

vars == <<history, length, index, newest, got>>

Init ==
  /\ history = [i \in {} |-> NaN]
  /\ length = 0
  /\ index = 0
  /\ newest = NaN
  /\ got = <<>>

(***************************************************************************)
(* uc_update_metric, "Update the history if it exists": the value always   *)
(* goes to position 0.                                                     *)
(***************************************************************************)
UpdateHistory(v) ==
  /\ length > 0
  /\ history' = [history EXCEPT ![0] = v]
  /\ index' = (index + 1) % length
  /\ newest' = v
  /\ got' = <<>>
  /\ UNCHANGED length

(* src_index, the position uc_get_history_by_name copies output i from *)
Source(i, len) == IF i < index THEN index - (i + 1) ELSE len + index - (i + 1)

Longer(len, k) == IF len < k THEN k ELSE len

GetHistory(k) ==
  LET len == Longer(length, k)
      tmp == [i \in 0..len-1 |-> IF i < length THEN history[i] ELSE NaN]
  IN  /\ history' = tmp
      /\ length' = len
      /\ got' = [i \in 1..k |-> IF Source(i - 1, len) \in 0..len-1
                                THEN tmp[Source(i - 1, len)] ELSE "outside"]
      /\ UNCHANGED <<index, newest>>

Next ==
  \/ \E v \in Values : UpdateHistory(v)
  \/ \E k \in Steps : GetHistory(k)

Spec == Init /\ [][Next]_vars

-----------------------------------------------------------------------------
(***************************************************************************)
(* history_index "points to the next position to write to": position 0 of  *)
(* what uc_get_history_by_name returns, one before history_index, is the   *)
(* value that was stored last.                                             *)
(***************************************************************************)
NewestFirst == got # <<>> => got[1] = newest
=============================================================================
