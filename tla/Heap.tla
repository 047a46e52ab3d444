-------------------------------- MODULE Heap --------------------------------
(***************************************************************************)
(* The binary heap of utils/heap/heap.c, which the read scheduler keeps    *)
(* its functions in.  c_heap_insert and c_heap_get_root hold h->lock until *)
(* they return; reheap, which ends in a call of itself, is one step for    *)
(* every activation.  Positions count from 0 as in C; At translates them.  *)
(*                                                                         *)
(* size_t arithmetic is modulo Word: the parent of position 0 wraps around *)
(* in c_heap_insert.  The heap grows by Grow places and shrinks when more  *)
(* than Slack are unused (16 and 32 in the code).  Memory is far smaller   *)
(* than Word: a pointer has eight bytes.                                   *)
(***************************************************************************)
EXTENDS Integers, Sequences

CONSTANTS
  Items,      \* the pointers that can be in the heap
  Key,        \* [Items -> Nat], what h->compare compares
  Grow, Slack,
  Word,       \* the number of values of size_t
  Memory,     \* the number of pointers realloc can find room for
  NoItem      \* NULL

ASSUME KeyAssumption == Key \in [Items -> Nat]
ASSUME GrowAssumption == Grow \in Nat \ {0} /\ Slack \in Nat /\ Slack >= Grow
ASSUME WordAssumption == Word \in Nat /\ Word % 2 = 0 /\ Memory \in Nat /\ Word > 2 * Memory + 2
ASSUME NoItemAssumption == NoItem \notin Items

VARIABLES
  list,       \* the used part of h->list; its length is h->list_len
  size,       \* h->list_size
  taken,      \* what the last c_heap_get_root returns
  dir,        \* DIR_UP in c_heap_insert, DIR_DOWN in c_heap_get_root,
              \* "none" when nobody holds h->lock
  root        \* the position reheap is called for

heapvars == <<list, size, taken, dir, root>>

At(l, i) == l[i + 1]
Swap(l, i, j) == [l EXCEPT ![i + 1] = At(l, j), ![j + 1] = At(l, i)]
Compare(x, y) == Key[x] - Key[y]

-----------------------------------------------------------------------------
(* A child's position, or 0 if there is none *)
Child(l, i, k) == LET c == (2 * i + k) % Word IN IF c >= Len(l) THEN 0 ELSE c

\* Mutant: the left child is taken without a comparison.
SmallerNotCompared(l, left, right) ==
  IF left = 0 THEN right ELSE left

(* `min', the smaller child; both are not 0 *)
Smaller(l, left, right) ==
  IF left = 0 THEN right
  ELSE IF right = 0 THEN left
  ELSE IF Compare(At(l, left), At(l, right)) > 0 THEN right ELSE left

(* The end of c_heap_get_root gives memory back; realloc may fail. *)
Shrink(len) == IF len + Slack < size THEN {size, len + Grow} ELSE {size}

Return ==
  /\ dir' = "none" /\ root' = 0
  /\ size' \in IF dir = "down" THEN Shrink(Len(list)) ELSE {size}

Call(i) == root' = i /\ UNCHANGED <<dir, size>>

reheap ==
  LET left == Child(list, root, 1)
      right == Child(list, root, 2)
      min == Smaller(list, left, right)
  IN  /\ dir # "none"
      /\ IF (left = 0 /\ right = 0) \/ Compare(At(list, root), At(list, min)) <= 0
         THEN Return /\ UNCHANGED list
         ELSE /\ list' = Swap(list, root, min)
              /\ IF dir = "down" THEN Call(min)
                 ELSE IF root = 0 THEN Return
                 ELSE Call((root - 1) \div 2)
      /\ UNCHANGED taken

-----------------------------------------------------------------------------
HeapInit == list = <<>> /\ size = 0 /\ taken = NoItem /\ dir = "none" /\ root = 0

Parent(index) == ((index - 1) % Word) \div 2

(***************************************************************************)
(* c_heap_insert; a pointer is inserted by the one who took it out.  When  *)
(* realloc fails nothing changes and an error is returned.                 *)
(***************************************************************************)
c_heap_insert(x) ==
  /\ dir = "none"
  /\ x \notin {list[i] : i \in 1..Len(list)}
  /\ Len(list) = size => size + Grow <= Memory
  /\ size' = IF Len(list) = size THEN size + Grow ELSE size
  /\ list' = Append(list, x)
  /\ dir' = "up" /\ root' = Parent(Len(list))
  /\ UNCHANGED taken

(* c_heap_get_root: the last leaf takes the place of the root and sinks *)
c_heap_get_root ==
  /\ dir = "none" /\ list # <<>>
  /\ taken' = list[1]
  /\ root' = 0
  /\ IF Len(list) = 1
     THEN list' = <<>> /\ size' \in Shrink(0) /\ UNCHANGED dir
     ELSE /\ list' = [SubSeq(list, 1, Len(list) - 1) EXCEPT ![1] = list[Len(list)]]
          /\ dir' = "down"
          /\ UNCHANGED size

GetRootEmpty ==
  /\ dir = "none" /\ list = <<>>
  /\ taken' = NoItem
  /\ UNCHANGED <<list, size, dir, root>>

HeapNext == (\E x \in Items : c_heap_insert(x)) \/ c_heap_get_root \/ GetRootEmpty \/ reheap

HeapSpec == HeapInit /\ [][HeapNext]_heapvars

-----------------------------------------------------------------------------
(***************************************************************************)
(* The types, and the assertion of c_heap_insert: list_len <= list_size,   *)
(* also after c_heap_get_root gave memory back, so that no insertion       *)
(* writes outside the array.                                               *)
(***************************************************************************)
HeapTypeOK ==
  /\ list \in Seq(Items)
  /\ size \in Nat
  /\ Len(list) <= size /\ size <= Memory
  /\ taken \in Items \cup {NoItem}
  /\ dir \in {"none", "up", "down"} /\ root \in Nat

(***************************************************************************)
(* No item is in the heap twice: what reheap does is a permutation.        *)
(***************************************************************************)
NoDuplicates == \A i, j \in 1..Len(list) : list[i] = list[j] => i = j

(***************************************************************************)
(* The heap is a priority queue: no item is lost or made up by insertions  *)
(* that sift up (from a parent position that wraps around for the first    *)
(* item) and extractions that sift down, and c_heap_get_root returns an    *)
(* item that no other comes before.  The read scheduler relies on it for   *)
(* the order in which its functions become due.  No item is in the array   *)
(* twice, and the array is as long as list_size says after memory was      *)
(* given back, so that no insertion writes outside of it.                  *)
(***************************************************************************)
Queue == INSTANCE PriorityQueue WITH items <- {list[i] : i \in 1..Len(list)}

ImplementsPriorityQueue == Queue!Spec /\ [](HeapTypeOK /\ NoDuplicates)
=============================================================================
