---------------------------- MODULE MCValueCache ----------------------------
(***************************************************************************)
(* The value cache for TLC.  Callback c1 subscribes to n1 only; c2 never   *)
(* subscribes.  n2 has a longer interval than n1, and labels.              *)
(***************************************************************************)
EXTENDS ValueCache

CONSTANTS n1, c1

MCInterested == [n \in Names |-> IF n = n1 THEN {c1} ELSE {}]
MCLabelled == Names \ {n1}
MCLifetime == [n \in Names |-> IF n = n1 THEN 1 ELSE 2]
=============================================================================
