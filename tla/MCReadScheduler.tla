-------------------------- MODULE MCReadScheduler --------------------------
(***************************************************************************)
(* The read scheduler for TLC.  The objects a1 and a2 have the same name:  *)
(* a2 is registered again after a1 was unregistered.  b is another         *)
(* function, in the group of a2.                                           *)
(***************************************************************************)
EXTENDS ReadScheduler, TLC

CONSTANTS a1, a2, b

MCNameOf == [r \in Funcs |-> IF r = b THEN "b" ELSE "a"]
MCGroupOf == [r \in Funcs |-> IF r = a1 THEN "x" ELSE "y"]
ShortIntervals == [r \in Funcs |-> IF r = b THEN 2 ELSE 1]

ThreadSymmetry == Permutations(Threads)
=============================================================================
