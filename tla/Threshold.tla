----------------------------- MODULE Threshold ------------------------------
(***************************************************************************)
(* plugins/threshold/threshold.c and the fields `state' and `hits' that it *)
(* keeps in the entries of the value cache (daemon/utils_cache.c).  For    *)
(* one metric: write threads update the cache and check the rate against   *)
(* the thresholds; the main loop finds the entry missing and removes it.   *)
(*                                                                         *)
(* Every uc_*_by_name call locks cache_lock for itself, so a check is a    *)
(* sequence of critical sections between which other threads run: each of  *)
(* them is one action.  What a thread carries between them (the rate, the  *)
(* worst state, the state it replaces) may be stale when it is used.       *)
(***************************************************************************)
EXTENDS Integers, Sequences, FiniteSets

CONSTANTS
  Writers,    \* the write threads
  Rates,      \* the rates the metric can have
  NaN,        \* a bound that is not set, or a rate that is not known
  Configs     \* possible lists of the thresholds whose labels match the metric

Thresholds ==
  [warning_min : Int \cup {NaN}, warning_max : Int \cup {NaN},
   failure_min : Int \cup {NaN}, failure_max : Int \cup {NaN},
   hits : Int, hysteresis : Int,
   invert : BOOLEAN, persist : BOOLEAN, persist_ok : BOOLEAN, interesting : BOOLEAN]

ASSUME WritersAssumption == IsFiniteSet(Writers)
ASSUME RatesAssumption == Rates \subseteq Int \cup {NaN}
ASSUME ConfigsAssumption == Configs \subseteq Seq(Thresholds)

(* utils_cache.h *)
UNKNOWN == 0
OKAY == 1
WARNING == 2
ERROR == 3

VARIABLES
  conf,       \* the thresholds of the metric, in the order of the configuration
  cur,        \* the rate the source delivers
  present,    \* whether the cache has an entry
  gauge,      \* values_gauge of the entry
  state,      \* state of the entry
  hits,       \* hits of the entry
  pc,         \* where each write thread is in ut_check_metric_threshold
  local,      \* its local variables: the rate it read, the threshold it is at,
              \* worst_state and the threshold worst_th (as places in conf)
  mpc,        \* where the main loop is in uc_check_timeout
  said,       \* history: what the last notification reported
  overlap     \* history: two threads were in ut_report_state at the same time

vars == <<conf, cur, present, gauge, state, hits, pc, local,
          mpc, said, overlap>>
entry == <<present, gauge, state, hits>>

NoLocals == [value |-> NaN, th |-> 0, worst |-> -1, worst_th |-> 0]

Missing == 15
Nothing == -1

Init ==
  /\ conf \in Configs
  /\ cur \in Rates
  /\ present = FALSE
  /\ gauge = NaN
  /\ state = UNKNOWN
  /\ hits = 0
  /\ pc = [w \in Writers |-> "idle"]
  /\ local = [w \in Writers |-> NoLocals]
  /\ mpc = "idle"
  /\ said = Nothing
  /\ overlap = FALSE

-----------------------------------------------------------------------------
(***************************************************************************)
(* ut_check_one_threshold for the rate v when the state of the metric was  *)
(* prev.  Comparisons with NaN are false; Invert makes the counters start  *)
(* at -1, so a range counts as left unless v is outside of it.             *)
(***************************************************************************)
Outside(min, max, margin, v) ==
  /\ v # NaN
  /\ \/ min # NaN /\ min + margin > v
     \/ max # NaN /\ max - margin < v

\* Mutant: the hysteresis narrows the range of the state it should keep.
MarginNarrows(t, prev, s) == IF t.hysteresis > 0 /\ prev = s THEN -t.hysteresis ELSE 0

Margin(t, prev, s) == IF t.hysteresis > 0 /\ prev = s THEN t.hysteresis ELSE 0

check_one_threshold(t, v, prev) ==
  LET failure == Outside(t.failure_min, t.failure_max, Margin(t, prev, ERROR), v)
      warning == Outside(t.warning_min, t.warning_max, Margin(t, prev, WARNING), v)
  IN  IF failure # t.invert THEN ERROR
      ELSE IF warning # t.invert THEN WARNING
      ELSE OKAY

(* s is the worst state of all thresholds, when all see the same previous state *)
Verdict(v, prev, s) ==
  /\ \E i \in DOMAIN conf : check_one_threshold(conf[i], v, prev) = s
  /\ \A i \in DOMAIN conf : check_one_threshold(conf[i], v, prev) <= s

-----------------------------------------------------------------------------
(* uc_get_state_by_name and uc_get_hits_by_name: STATE_ERROR without an entry *)
StateOf == IF present THEN state ELSE ERROR
HitsOf == IF present THEN hits ELSE ERROR

Reporting(w) == pc[w] \in {"hits", "reset", "inc", "old", "set", "notify"}

Goto(w, l) ==
  /\ pc' = [pc EXCEPT ![w] = l]
  /\ overlap' = (overlap \/ Cardinality({x \in Writers : Reporting(x)'}) > 1)

Return(w) == Goto(w, "idle") /\ local' = [local EXCEPT ![w] = NoLocals]

SourceChanges(v) ==
  /\ cur' = v
  /\ UNCHANGED <<conf, entry, pc, local, mpc, said, overlap>>

(***************************************************************************)
(* The write thread takes a metric from the queue: uc_update makes an      *)
(* entry in state UNKNOWN or updates the one there is, then the filter     *)
(* chains call the write callbacks.  Without a threshold ut_check_threshold *)
(* returns at once.                                                        *)
(***************************************************************************)
Update(w) ==
  /\ pc[w] = "idle"
  /\ gauge' = cur
  /\ present' = TRUE
  /\ state' = IF present THEN state ELSE UNKNOWN
  /\ hits' = IF present THEN hits ELSE 0
  /\ Goto(w, IF conf = <<>> THEN "idle" ELSE "rate")
  /\ UNCHANGED <<conf, cur, local, mpc, said>>

(* uc_get_rate_by_name; the check ends if the entry is gone *)
GetRate(w) ==
  /\ pc[w] = "rate"
  /\ \/ present /\ Goto(w, "check")
               /\ local' = [local EXCEPT ![w].value = gauge, ![w].th = 1]
     \/ ~present /\ Return(w)
  /\ UNCHANGED <<conf, cur, entry, mpc, said>>

(***************************************************************************)
(* One round of the loop over the thresholds: with a hysteresis the state  *)
(* of the metric is read again for each of them.                           *)
(***************************************************************************)
Judge(w) ==
  LET t == conf[local[w].th]
  IN  check_one_threshold(t, local[w].value, IF t.hysteresis > 0 THEN StateOf ELSE OKAY)

Worse(w) == Judge(w) > local[w].worst

Check(w) ==
  /\ pc[w] = "check"
  /\ LET l == IF Worse(w)
              THEN [local[w] EXCEPT !.worst = Judge(w), !.worst_th = local[w].th]
              ELSE local[w]
     IN  \/ /\ l.th < Len(conf)
            /\ local' = [local EXCEPT ![w] = [l EXCEPT !.th = @ + 1]]
            /\ Goto(w, "check")
         \/ /\ l.th = Len(conf)
            /\ local' = [local EXCEPT ![w] = [l EXCEPT !.th = 0, !.value = NaN]]
            /\ Goto(w, IF conf[l.worst_th].hits # 0 THEN "hits" ELSE "old")
  /\ UNCHANGED <<conf, cur, entry, mpc, said>>

-----------------------------------------------------------------------------
(* ut_report_state: the worst state and the threshold that found it *)
S(w) == local[w].worst
T(w) == conf[local[w].worst_th]

\* Mutant: a full counter is not reset.
TestHitsNeverFull(w) ==
  /\ pc[w] = "hits"
  /\ Goto(w, IF S(w) = OKAY /\ ~T(w).persist_ok THEN "reset" ELSE "inc")
  /\ UNCHANGED <<conf, cur, entry, local, mpc, said>>

(* an okay resets the counter, and so does a full one *)
TestHits(w) ==
  /\ pc[w] = "hits"
  /\ Goto(w, IF (S(w) = OKAY /\ ~T(w).persist_ok) \/ HitsOf > T(w).hits
             THEN "reset" ELSE "inc")
  /\ UNCHANGED <<conf, cur, entry, local, mpc, said>>

ResetHits(w) ==
  /\ pc[w] = "reset"
  /\ hits' = IF present THEN 0 ELSE hits
  /\ Goto(w, "old")
  /\ UNCHANGED <<conf, cur, present, gauge, state, local, mpc, said>>

(* uc_inc_hits_by_name, and ut_report_state returns *)
IncHits(w) ==
  /\ pc[w] = "inc"
  /\ hits' = IF present THEN hits + 1 ELSE hits
  /\ Return(w)
  /\ UNCHANGED <<conf, cur, present, gauge, state, mpc, said>>

(* a state that did not change is reported only with Persist (and PersistOK) *)
Silent(t, s, old) ==
  s = old /\ (s = UNKNOWN \/ ~t.persist \/ (s = OKAY /\ ~t.persist_ok))

GetState(w) ==
  /\ pc[w] = "old"
  /\ \/ Silent(T(w), S(w), StateOf) /\ Return(w)
     \/ /\ ~Silent(T(w), S(w), StateOf)
        /\ Goto(w, IF S(w) # StateOf THEN "set" ELSE "notify")
        /\ UNCHANGED local
  /\ UNCHANGED <<conf, cur, entry, mpc, said>>

SetState(w) ==
  /\ pc[w] = "set"
  /\ state' = IF present THEN S(w) ELSE state
  /\ Goto(w, "notify")
  /\ UNCHANGED <<conf, cur, present, gauge, hits, local, mpc, said>>

\* Mutant: a return to okay is not reported.
NotifyTrouble(w) ==
  /\ pc[w] = "notify"
  /\ said' = IF S(w) = OKAY THEN said ELSE S(w)
  /\ Return(w)
  /\ UNCHANGED <<conf, cur, entry, mpc>>

(* plugin_dispatch_notification *)
Notify(w) ==
  /\ pc[w] = "notify"
  /\ said' = S(w)
  /\ Return(w)
  /\ UNCHANGED <<conf, cur, entry, mpc>>

-----------------------------------------------------------------------------
(* uc_check_timeout: the entry was not updated for too long ... *)
Expire ==
  /\ mpc = "idle"
  /\ present
  /\ mpc' = "missing"
  /\ UNCHANGED <<conf, cur, entry, pc, local, said, overlap>>

(* ... ut_missing notifies if a threshold is "interesting" ... *)
CallMissing ==
  /\ mpc = "missing"
  /\ said' = IF \E i \in DOMAIN conf : conf[i].interesting THEN Missing ELSE said
  /\ mpc' = "remove"
  /\ UNCHANGED <<conf, cur, entry, pc, local, overlap>>

\* Mutant: the entry may survive the removal.
RemoveIfNotUpdated ==
  /\ mpc = "remove"
  /\ present' \in BOOLEAN
  /\ state' = IF present' THEN state ELSE UNKNOWN
  /\ hits' = IF present' THEN hits ELSE 0
  /\ gauge' = IF present' THEN gauge ELSE NaN
  /\ mpc' = "idle"
  /\ UNCHANGED <<conf, cur, pc, local, said, overlap>>

(* ... and the entry is removed, even if it was updated in the meantime *)
Remove ==
  /\ mpc = "remove"
  /\ present' = FALSE
  /\ state' = UNKNOWN
  /\ hits' = 0
  /\ gauge' = NaN
  /\ mpc' = "idle"
  /\ UNCHANGED <<conf, cur, pc, local, said, overlap>>

-----------------------------------------------------------------------------
ReportState(w) ==
  TestHits(w) \/ ResetHits(w) \/ IncHits(w) \/ GetState(w) \/ SetState(w) \/ Notify(w)
WriteThread(w) == Update(w) \/ GetRate(w) \/ Check(w) \/ ReportState(w)

Next ==
  \/ \E v \in Rates : SourceChanges(v)
  \/ \E w \in Writers : WriteThread(w)
  \/ Expire \/ CallMissing \/ Remove

Spec == Init /\ [][Next]_vars

(***************************************************************************)
(* The source is read every interval and the write threads run, so values  *)
(* keep coming and every check ends; the main loop finishes a timeout it   *)
(* began.  Nothing forces an entry to expire or the source to change.      *)
(***************************************************************************)
Fairness ==
  /\ \A w \in Writers : WF_vars(WriteThread(w))
  /\ WF_vars(CallMissing \/ Remove)

FairSpec == Spec /\ Fairness

-----------------------------------------------------------------------------
States == {OKAY, WARNING, ERROR}

(* The type of every variable. *)
TypeOK ==
  /\ conf \in Configs
  /\ cur \in Rates
  /\ present \in BOOLEAN
  /\ gauge \in Rates \cup {NaN}
  /\ state \in States \cup {UNKNOWN}
  /\ hits \in Nat
  /\ pc \in [Writers -> {"idle", "rate", "check", "hits", "reset", "inc", "old",
                         "set", "notify"}]
  /\ local \in [Writers -> [value : Rates \cup {NaN}, th : Nat,
                            worst : States \cup {-1}, worst_th : Nat]]
  /\ mpc \in {"idle", "missing", "remove"}
  /\ said \in States \cup {Missing, Nothing}
  /\ overlap \in BOOLEAN

(***************************************************************************)
(* Hits is tested and increased in two critical sections: several threads  *)
(* may all find the counter just below its limit and increase it.  It      *)
(* still exceeds the largest `Hits' option by at most the number of write  *)
(* threads, so it cannot run away.                                         *)
(***************************************************************************)
HitsBounded ==
  \/ hits <= Cardinality(Writers)
  \/ \E i \in DOMAIN conf : hits <= conf[i].hits + Cardinality(Writers)

(***************************************************************************)
(* As long as checks of the metric do not overlap, what the user heard     *)
(* last is the state the cache has: when no check and no timeout is going  *)
(* on, the last notification reported the state of the entry.              *)
(***************************************************************************)
QuietMeansTold ==
  (/\ ~overlap /\ present /\ state # UNKNOWN /\ mpc = "idle"
   /\ \A w \in Writers : ~Reporting(w)) => said = state

(* the checks of the metric do not overlap *)
Calm == Cardinality({w \in Writers : pc[w] # "idle"}) <= 1

(***************************************************************************)
(* "The purpose of hysteresis is elliminating flapping": when the rate no  *)
(* longer changes, the entry stays and checks no longer overlap, the state *)
(* of the metric settles, whatever overlapped before, and it settles on a  *)
(* state the thresholds confirm.                                           *)
(***************************************************************************)
Settles ==
  \A v \in Rates :
    <>[](cur = v /\ present /\ conf # <<>> /\ Calm)
      => \E s \in States : <>[](state = s /\ Verdict(v, s, s))

(***************************************************************************)
(* A metric that was reported missing and comes back with a good value is  *)
(* reported okay in the end.  ut_missing does not change the state of the  *)
(* entry: that the next value is news depends on the removal of the entry. *)
(***************************************************************************)
RecoveryIsReported ==
  \A v \in Rates :
    <>[](cur = v /\ mpc = "idle" /\ Verdict(v, UNKNOWN, OKAY))
      => []<>(said # Missing)
=============================================================================
