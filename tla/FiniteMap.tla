----------------------------- MODULE FiniteMap ------------------------------
(***************************************************************************)
(* What utils/avltree promises its users: a finite map.  An insertion      *)
(* never replaces, c_avl_remove returns what was stored, and c_avl_pick    *)
(* takes out some entry.                                                   *)
(***************************************************************************)
EXTENDS Integers, Functions

CONSTANTS Keys, ValueOf, OK, EEXIST, ENOENT, EOF

VARIABLES
  map,       \* a function from the stored keys to their values
  answer     \* what the last call returned: [status, key, value]

Stored(k) == k \in DOMAIN map
Without(k) == Restrict(map, DOMAIN map \ {k})
Says(s) == [status |-> s]
Yields(k) == [status |-> OK, key |-> k, value |-> map[k]]

MapInit == map = << >> /\ answer = Says(OK)

MapInsert(k, v) ==
  IF Stored(k) THEN UNCHANGED map /\ answer' = Says(EEXIST)
  ELSE /\ map' = [x \in DOMAIN map \cup {k} |-> IF x = k THEN v ELSE map[x]]
       /\ answer' = Says(OK)

MapRemove(k) ==
  IF Stored(k) THEN map' = Without(k) /\ answer' = Yields(k)
  ELSE UNCHANGED map /\ answer' = Says(ENOENT)

MapGet(k) ==
  UNCHANGED map /\ answer' = IF Stored(k) THEN Yields(k) ELSE Says(ENOENT)

MapPick ==
  IF DOMAIN map = {} THEN UNCHANGED map /\ answer' = Says(EOF)
  ELSE \E k \in DOMAIN map : map' = Without(k) /\ answer' = Yields(k)

MapNext ==
  \/ \E k \in Keys : MapInsert(k, ValueOf[k])
  \/ \E k \in Keys : MapRemove(k) \/ MapGet(k)
  \/ MapPick

MapSpec == MapInit /\ [][MapNext]_<<map, answer>>
=============================================================================
