--------------------------- MODULE PriorityQueue ----------------------------
(***************************************************************************)
(* What utils/heap promises its users: a set of items, of which            *)
(* c_heap_get_root takes out one that no other item comes before.          *)
(***************************************************************************)
EXTENDS Naturals

CONSTANTS Items, Key, NoItem    \* Key \in [Items -> Nat], the order

VARIABLES
  items,      \* what is in the queue
  taken       \* what the last c_heap_get_root returned

Init == items = {} /\ taken = NoItem

Insert(x) == x \notin items /\ items' = items \cup {x} /\ UNCHANGED taken

GetRoot(x) ==
  /\ x \in items
  /\ \A y \in items : Key[x] <= Key[y]
  /\ items' = items \ {x}
  /\ taken' = x

Empty == items = {} /\ taken' = NoItem /\ UNCHANGED items

Next == (\E x \in Items : Insert(x) \/ GetRoot(x)) \/ Empty

Spec == Init /\ [][Next]_<<items, taken>>
=============================================================================
