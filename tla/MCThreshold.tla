---------------------------- MODULE MCThreshold -----------------------------
(* Threshold with lists of one and two thresholds. *)
EXTENDS Threshold

Plain == [warning_min |-> NaN, warning_max |-> NaN, failure_min |-> NaN,
          failure_max |-> NaN, hits |-> 0, hysteresis |-> 0, invert |-> FALSE,
          persist |-> FALSE, persist_ok |-> FALSE, interesting |-> TRUE]

(***************************************************************************)
(* With the rates 2 and 3: a rate inside the hysteresis of the one that    *)
(* warns; a failure that is reported again and again after some hits; a    *)
(* range that must not be entered, with a repeated okay; a warning and a   *)
(* failure from different thresholds.                                      *)
(***************************************************************************)
MCConfigs ==
  { <<>>,
    <<[Plain EXCEPT !.warning_max = 2, !.failure_max = 4, !.hysteresis = 1]>>,
    <<[Plain EXCEPT !.failure_max = 2, !.hits = 1, !.persist = TRUE,
                    !.interesting = FALSE]>>,
    <<[Plain EXCEPT !.warning_min = 3, !.failure_min = 3, !.invert = TRUE,
                    !.persist = TRUE, !.persist_ok = TRUE]>>,
    <<[Plain EXCEPT !.warning_max = 1, !.hysteresis = 2],
      [Plain EXCEPT !.failure_max = 2, !.warning_min = 1, !.hits = 1]>> }

(* values of at least 3 are not acceptable, and the range is widened by 1 *)
MCInverted ==
  { <<[Plain EXCEPT !.warning_min = 3, !.failure_min = 3, !.hysteresis = 1,
                    !.invert = TRUE]>> }
=============================================================================
