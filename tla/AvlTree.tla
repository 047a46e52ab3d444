------------------------------ MODULE AvlTree -------------------------------
(***************************************************************************)
(* The AVL tree of utils/avltree/avltree.c, which the value cache, the     *)
(* data sets, the Prometheus families and many plugins keep their entries  *)
(* in.  The nodes and their pointers are modelled one by one: a removal    *)
(* copies the contents of a neighbour and frees the neighbour's node.      *)
(* Callers lock, so each public function is one action.                    *)
(*                                                                         *)
(* A node is [value, height, child, parent] with child["left"] and         *)
(* child["right"], so that the mirrored halves of the code are one         *)
(* definition; node 0 is NULL.  A tree is [root, node].  An address is     *)
(* named by the key the node holds: addresses do not leave the module, so  *)
(* this only makes states that differ by a renaming equal.                 *)
(***************************************************************************)
EXTENDS Integers, Sequences, FiniteSets, Functions

CONSTANTS
  Keys,       \* the keys, positive integers: t->compare is their order
  ValueOf,    \* the value the caller stores with a key
  OK, EEXIST, ENOENT, EOF

VARIABLES
  tree,       \* t->root and the nodes that are allocated
  count,      \* t->size
  answer      \* what the last call returned: [status, key, value]

avlvars == <<tree, count, answer>>

AvlInit ==
  /\ tree = [root |-> 0, node |-> << >>]
  /\ count = 0
  /\ answer = [status |-> OK]

Opposite(d) == IF d = "left" THEN "right" ELSE "left"
HeightOf(T, n) == IF n = 0 THEN 0 ELSE T.node[n].height
Kid(T, n, d) == T.node[n].child[d]
BALANCE(T, n) == HeightOf(T, Kid(T, n, "left")) - HeightOf(T, Kid(T, n, "right"))

calc_height(T, n) ==
  LET l == HeightOf(T, Kid(T, n, "left"))
      r == HeightOf(T, Kid(T, n, "right"))
  IN  (IF l > r THEN l ELSE r) + 1

SetHeight(T, n) == [T EXCEPT !.node[n].height = calc_height(T, n)]

(* Whatever pointed to n, the root or a child pointer of n's parent p, is
   made to point to m. *)
Redirect(T, p, n, m) ==
  IF p = 0 THEN [T EXCEPT !.root = m]
  ELSE [T EXCEPT !.node[p].child[IF Kid(T, p, "left") = n THEN "left" ELSE "right"] = m]

(* rotate_right (d = "right") and rotate_left: x goes down to side d, its
   child y on the other side takes its place, y's inner subtree b changes
   from y to x. *)
Rotate(T, x, d) ==
  LET p == T.node[x].parent
      y == Kid(T, x, Opposite(d))
      b == Kid(T, y, d)
      inner == IF b = 0 THEN T ELSE [T EXCEPT !.node[b].parent = x]
      turned == [inner EXCEPT !.node[x].child[Opposite(d)] = b,
                              !.node[x].parent = y,
                              !.node[y].child[d] = x,
                              !.node[y].parent = p]
  IN  SetHeight(SetHeight(Redirect(turned, p, x, y), x), y)

\* Mutant: the inner subtree of a double rotation is not looked at.
RotateOnce(T, n, d) == Rotate(T, n, Opposite(d))

(* rebalance at a node whose side d is two higher: a single rotation, or a
   double one if the child on that side leans the other way. *)
Straighten(T, n, d) ==
  LET c == Kid(T, n, d)
      leansBack == BALANCE(T, c) = IF d = "left" THEN -1 ELSE 1
  IN  Rotate(IF leansBack THEN Rotate(T, c, d) ELSE T, n, Opposite(d))

RECURSIVE rebalance(_, _)
rebalance(T, n) ==
  IF n = 0 THEN T
  ELSE IF BALANCE(T, n) \in {-2, 2}
  THEN LET S == Straighten(T, n, IF BALANCE(T, n) = 2 THEN "left" ELSE "right")
       IN  rebalance(S, S.node[S.node[n].parent].parent)
  ELSE IF calc_height(T, n) = T.node[n].height THEN T
  ELSE rebalance(SetHeight(T, n), T.node[n].parent)

RECURSIVE Descend(_, _, _)
Descend(T, n, d) == IF Kid(T, n, d) = 0 THEN n ELSE Descend(T, Kid(T, n, d), d)

(* The first ancestor of which n is in the subtree on side d; 0 if none. *)
RECURSIVE Backtrack(_, _, _)
Backtrack(T, n, d) ==
  LET r == T.node[n].parent
  IN  IF r = 0 \/ Kid(T, r, d) = n THEN r ELSE Backtrack(T, r, d)

(* c_avl_node_next (d = "right") and c_avl_node_prev (d = "left"). *)
c_avl_node_step(T, n, d) ==
  IF Kid(T, n, d) = 0 THEN Backtrack(T, n, Opposite(d))
  ELSE Descend(T, Kid(T, n, d), Opposite(d))

Free(T, n) == [T EXCEPT !.node = Restrict(@, DOMAIN @ \ {n})]

(* The end of _remove: n has at most one child, which takes its place. *)
Unlink(T, n) ==
  LET p == T.node[n].parent
      c == IF Kid(T, n, "left") # 0 THEN Kid(T, n, "left") ELSE Kid(T, n, "right")
      linked == Redirect(T, p, n, c)
      S == IF c = 0 THEN linked ELSE [linked EXCEPT !.node[c].parent = p]
  IN  Free(rebalance(S, p), n)

(* Node n now holds key k and is named by it. *)
Rename(T, n, k) ==
  LET name(m) == IF m = n THEN k ELSE m
  IN  [root |-> name(T.root),
       node |-> [m \in {name(x) : x \in DOMAIN T.node} |->
                   LET nd == T.node[IF m = k THEN n ELSE m]
                   IN  [nd EXCEPT !.parent = name(@),
                                  !.child = [d \in DOMAIN @ |-> name(@[d])]]]]

\* Mutant: the key is copied from the neighbour, the value is not.
RemoveCopiesKeyOnly(T, n) ==
  IF Kid(T, n, "left") = 0 \/ Kid(T, n, "right") = 0 THEN Unlink(T, n)
  ELSE LET r == c_avl_node_step(T, n, IF BALANCE(T, n) > 0 THEN "left" ELSE "right")
       IN  Rename(Unlink(T, r), n, r)

(* _remove: a node with two children gets the contents of its neighbour r in
   the higher subtree, and the neighbour's node is unlinked. *)
_remove(T, n) ==
  IF Kid(T, n, "left") = 0 \/ Kid(T, n, "right") = 0 THEN Unlink(T, n)
  ELSE LET r == c_avl_node_step(T, n, IF BALANCE(T, n) > 0 THEN "left" ELSE "right")
       IN  Rename(Unlink([T EXCEPT !.node[n].value = T.node[r].value], r), n, r)

RECURSIVE SearchFrom(_, _, _)
SearchFrom(T, n, k) ==
  IF n = 0 \/ n = k THEN n
  ELSE SearchFrom(T, Kid(T, n, IF k < n THEN "left" ELSE "right"), k)

search(k) == SearchFrom(tree, tree.root, k)

(* The node c_avl_insert hangs the new one under, and the side. *)
RECURSIVE Place(_, _, _)
Place(T, n, k) ==
  LET d == IF n < k THEN "right" ELSE "left"
  IN  IF Kid(T, n, d) = 0 THEN <<n, d>> ELSE Place(T, Kid(T, n, d), k)

WithNode(T, k, v, p) ==
  LET new == [value |-> v, height |-> 1, parent |-> p,
              child |-> [left |-> 0, right |-> 0]]
  IN  [T EXCEPT !.node = [m \in DOMAIN @ \cup {k} |-> IF m = k THEN new ELSE @[m]]]

-----------------------------------------------------------------------------
c_avl_insert(k, v) ==
  IF search(k) # 0
  THEN answer' = [status |-> EEXIST] /\ UNCHANGED <<tree, count>>
  ELSE /\ answer' = [status |-> OK]
       /\ count' = IF tree.root = 0 THEN 1 ELSE count + 1
       /\ IF tree.root = 0
          THEN tree' = [WithNode(tree, k, v, 0) EXCEPT !.root = k]
          ELSE LET at == Place(tree, tree.root, k)
                   hung == [WithNode(tree, k, v, at[1])
                              EXCEPT !.node[at[1]].child[at[2]] = k]
               IN  tree' = rebalance(hung, at[1])

Yield(n) == [status |-> OK, key |-> n, value |-> tree.node[n].value]

c_avl_remove(k) ==
  IF search(k) = 0 THEN answer' = [status |-> ENOENT] /\ UNCHANGED <<tree, count>>
  ELSE /\ answer' = Yield(search(k))
       /\ tree' = _remove(tree, search(k))
       /\ count' = count - 1

c_avl_get(k) ==
  /\ answer' = IF search(k) = 0 THEN [status |-> ENOENT] ELSE Yield(search(k))
  /\ UNCHANGED <<tree, count>>

(* c_avl_pick goes down the higher side to a leaf. *)
RECURSIVE HighLeaf(_)
HighLeaf(n) ==
  LET l == Kid(tree, n, "left")
      r == Kid(tree, n, "right")
  IN  IF l = 0 /\ r = 0 THEN n
      ELSE HighLeaf(IF r = 0 \/ (l # 0 /\ HeightOf(tree, l) > HeightOf(tree, r))
                    THEN l ELSE r)

c_avl_pick ==
  IF tree.root = 0 THEN answer' = [status |-> EOF] /\ UNCHANGED <<tree, count>>
  ELSE LET n == HighLeaf(tree.root)
           p == tree.node[n].parent
       IN  /\ answer' = Yield(n)
           /\ tree' = rebalance(Free(Redirect(tree, p, n, 0), n), p)
           /\ count' = count - 1

AvlNext ==
  \/ \E k \in Keys : c_avl_insert(k, ValueOf[k])
  \/ \E k \in Keys : c_avl_remove(k) \/ c_avl_get(k)
  \/ c_avl_pick

-----------------------------------------------------------------------------
(* c_avl_iterator_next (d = "right") and c_avl_iterator_prev (d = "left"),
   from a new iterator until EOF. *)
RECURSIVE IterateFrom(_, _)
IterateFrom(n, d) ==
  IF n = 0 THEN << >>
  ELSE <<n>> \o IterateFrom(c_avl_node_step(tree, n, d), d)

Iterate(d) ==
  IF tree.root = 0 THEN << >>
  ELSE IterateFrom(Descend(tree, tree.root, Opposite(d)), d)

(* Types; t->size counts the nodes. *)
AvlTypeOK ==
  /\ DOMAIN tree.node \subseteq Keys
  /\ tree.root \in DOMAIN tree.node \cup {0}
  /\ count = Cardinality(DOMAIN tree.node)

(* The assertions of the disabled verify_tree: after any sequence of
   insertions, removals and picks no subtree is higher than its sibling by
   more than one, the heights kept in the nodes are exact although rebalance
   stops early, and parent and child pointers agree.  So iterators visit every
   key once, in ascending order forwards and in descending order backwards,
   through parent pointers only. *)
VerifyTree ==
  LET up == Iterate("right")
      down == Iterate("left")
  IN  /\ AvlTypeOK
      /\ \A n \in DOMAIN tree.node :
           /\ BALANCE(tree, n) \in -1..1
           /\ tree.node[n].height = calc_height(tree, n)
           /\ LET p == tree.node[n].parent
              IN  IF p = 0 THEN tree.root = n
                  ELSE n \in {Kid(tree, p, "left"), Kid(tree, p, "right")}
      /\ Len(up) = Cardinality(DOMAIN tree.node) /\ Len(down) = Len(up)
      /\ {up[i] : i \in DOMAIN up} = DOMAIN tree.node
      /\ \A i \in 1..Len(up) - 1 : up[i] < up[i + 1]
      /\ \A i \in DOMAIN up : down[i] = up[Len(up) + 1 - i]

(* The tree is a finite map: whatever rotations and copies of contents happen
   inside, every call answers as the map does. *)
Map == INSTANCE FiniteMap WITH
         map <- [k \in DOMAIN tree.node |-> tree.node[k].value]

ImplementsFiniteMap == Map!MapSpec
=============================================================================
