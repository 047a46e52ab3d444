---------------------------- MODULE MCPrometheus ----------------------------
(***************************************************************************)
(* Prometheus with one family, which the filter chains write to it or not. *)
(* It has one metric without labels, as a family can, and one with labels. *)
(***************************************************************************)
EXTENDS Prometheus

CONSTANTS f1, m1

MCFamilyOf == [m \in Metrics |-> f1]
MCLabelled == Metrics \ {m1}
MCRoutings == {{f1}, {}}
MCAllRouted == {{f1}}
=============================================================================
