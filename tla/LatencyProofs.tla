--------------------------- MODULE LatencyProofs ----------------------------
(***************************************************************************)
(* Proofs about the histogram of latencies, for any number of bins and any *)
(* latencies; and about sums over finite sets, which it needs.             *)
(***************************************************************************)
EXTENDS Latency, FiniteSetTheorems, WellFoundedInduction, TLAPS

(* A nonempty set of natural numbers has a least element: the induction of
   this module is by the least counterexample. *)
LEMMA LeastOf ==
  ASSUME NEW S \in SUBSET Nat, S # {}
  PROVE  \E p \in S : \A q \in S : p <= q
<1> DEFINE R == OpToRel(<, Nat)
<1>1. IsWellFoundedOn(R, Nat)
  BY NatLessThanWellFounded
<1>2. \E x \in S : \A y \in S : <<y, x>> \notin R
  <2> HIDE DEF R
  <2> QED BY Zenon, <1>1, WFMin
<1>3. \A x, y \in Nat : <<y, x>> \notin R => x <= y
  BY DEF OpToRel
<1> QED BY <1>2, <1>3

-----------------------------------------------------------------------------
(***************************************************************************)
(* Sums over finite sets: what SumFunctionOnSet of the community modules   *)
(* computes, from its definition by recursion.                             *)
(***************************************************************************)
Sum(f, S) == SumFunctionOnSet(f, S)
Pick(s) == CHOOSE x \in s : TRUE
SumStep(f, g, s) == IF s = {} THEN 0 ELSE f[Pick(s)] + g[s \ {Pick(s)}]
IsSum(f, g, D) == g = [s \in D |-> SumStep(f, g, s)]

(* What SumFunctionOnSet of the community modules is: the value at S of a
   function that is defined by recursion on the subsets of S. *)
LEMMA SumIs ==
  ASSUME NEW f, NEW S
  PROVE  Sum(f, S) = (CHOOSE g : IsSum(f, g, SUBSET S))[S]
BY Zenon DEF Sum, SumFunctionOnSet, FoldFunctionOnSet, MapThenFoldSet, IsSum, SumStep, Pick

(* The recursion takes an element of the set. *)
LEMMA PickIs == ASSUME NEW s, s # {} PROVE Pick(s) \in s
BY DEF Pick

(* Taking an element out of a finite set makes it smaller by one. *)
LEMMA OneLess ==
  ASSUME NEW S, IsFiniteSet(S), NEW x \in S
  PROVE  /\ IsFiniteSet(S \ {x}) /\ Cardinality(S) \in Nat /\ Cardinality(S \ {x}) \in Nat
         /\ Cardinality(S \ {x}) = Cardinality(S) - 1
BY FS_RemoveElement, FS_CardinalityType

(* For a finite set the recursion defines a function. *)
LEMMA SumFunctionExists ==
  ASSUME NEW f, NEW S, IsFiniteSet(S)
  PROVE  \E g : IsSum(f, g, SUBSET S)
<1> DEFINE Up(n) == {s \in SUBSET S : Cardinality(s) <= n}
           Bad == {n \in Nat : ~ \E g : IsSum(f, g, Up(n))}
<1>1. \A s \in SUBSET S : IsFiniteSet(s) /\ Cardinality(s) \in Nat /\ Cardinality(s) <= Cardinality(S)
  BY FS_Subset, FS_CardinalityType
<1>2. Bad = {}
  <2> SUFFICES ASSUME Bad # {} PROVE FALSE
    OBVIOUS
  <2>1. PICK n \in Bad : \A m \in Bad : n <= m
    <3>1. Bad \in SUBSET Nat
      OBVIOUS
    <3> HIDE DEF Bad
    <3> QED BY Zenon, <3>1, LeastOf
  <2>2. n \in Nat /\ ~ \E g : IsSum(f, g, Up(n))
    OBVIOUS
  <2>3. CASE n = 0
    <3> DEFINE g == [s \in Up(0) |-> 0]
    <3>1. \A s \in Up(0) : s = {}
      <4> TAKE s \in Up(0)
      <4>1. IsFiniteSet(s) /\ Cardinality(s) = 0
        BY <1>1
      <4> QED BY <4>1, FS_EmptySet
    <3>2. \A s \in Up(0) : SumStep(f, g, s) = 0
      BY <3>1 DEF SumStep
    <3> HIDE DEF Up
    <3>3. g = [s \in Up(0) |-> SumStep(f, g, s)]
      BY Zenon, <3>2
    <3> QED BY <2>2, <2>3, <3>3 DEF IsSum
  <2>4. CASE n # 0
    <3>1. PICK g : IsSum(f, g, Up(n - 1))
      <4>1. n - 1 \in Nat /\ n - 1 \notin Bad
        <5> HIDE DEF Bad
        <5> QED BY <2>1, <2>2, <2>4
      <4> HIDE DEF Up
      <4> QED BY Zenon, <4>1
    <3> DEFINE h == [s \in Up(n) |-> SumStep(f, g, s)]
    <3>2. ASSUME NEW s \in Up(n) PROVE SumStep(f, h, s) = SumStep(f, g, s)
      <4>1. CASE s = {}
        BY <4>1 DEF SumStep
      <4>2. CASE s # {}
        <5> DEFINE t == s \ {Pick(s)}
        <5>1. Pick(s) \in s
          BY <4>2, PickIs
        <5>2. t \in Up(n - 1) /\ t \in Up(n)
          <6>1. IsFiniteSet(s) /\ Cardinality(s) \in Nat /\ Cardinality(s) <= n
            BY <1>1
          <6>2. Cardinality(t) \in Nat /\ Cardinality(t) = Cardinality(s) - 1
            BY <5>1, <6>1, OneLess
          <6>3. t \in SUBSET S
            OBVIOUS
          <6> HIDE DEF t
          <6> QED BY <2>2, <6>1, <6>2, <6>3
        <5> HIDE DEF Up
        <5>3. h[t] = SumStep(f, g, t)
          BY <5>2
        <5>4. g[t] = SumStep(f, g, t)
          BY <3>1, <5>2 DEF IsSum
        <5> QED BY <4>2, <5>3, <5>4 DEF SumStep
      <4> QED BY <4>1, <4>2
    <3> HIDE DEF Up
    <3>3. h = [s \in Up(n) |-> SumStep(f, h, s)]
      BY Zenon, <3>2
    <3> QED BY Zenon, <2>2, <3>3 DEF IsSum
  <2> QED BY <2>3, <2>4
<1>3. Cardinality(S) \in Nat /\ Up(Cardinality(S)) = SUBSET S
  BY <1>1, FS_CardinalityType
<1> HIDE DEF Up
<1>4. \E g : IsSum(f, g, Up(Cardinality(S)))
  BY Zenon, <1>2, <1>3
<1> QED BY Zenon, <1>3, <1>4

(* Two functions that sum up the same values agree where both are defined. *)
LEMMA SumFunctionUnique ==
  ASSUME NEW f, NEW e, NEW S, IsFiniteSet(S), \A x \in S : f[x] = e[x],
         NEW D, SUBSET S \subseteq D, NEW g, IsSum(f, g, D),
         NEW h, IsSum(e, h, SUBSET S)
  PROVE  \A s \in SUBSET S : g[s] = h[s]
<1> DEFINE Bad == {n \in Nat : \E s \in SUBSET S : Cardinality(s) = n /\ g[s] # h[s]}
<1>1. \A s \in SUBSET S : IsFiniteSet(s) /\ Cardinality(s) \in Nat
  BY FS_Subset, FS_CardinalityType
<1>2. Bad = {}
  <2> SUFFICES ASSUME Bad # {} PROVE FALSE
    OBVIOUS
  <2>1. PICK n \in Bad : \A m \in Bad : n <= m
    <3>1. Bad \in SUBSET Nat
      OBVIOUS
    <3> HIDE DEF Bad
    <3> QED BY Zenon, <3>1, LeastOf
  <2>2. PICK s \in SUBSET S : Cardinality(s) = n /\ g[s] # h[s]
    OBVIOUS
  <2>3. g[s] = SumStep(f, g, s) /\ h[s] = SumStep(e, h, s)
    BY DEF IsSum
  <2>4. s # {}
    BY <2>2, <2>3 DEF SumStep
  <2> DEFINE t == s \ {Pick(s)}
  <2>5. Pick(s) \in s /\ t \in SUBSET S
    BY <2>4, PickIs
  <2>6. Cardinality(t) \in Nat /\ Cardinality(t) < n
    <3>1. IsFiniteSet(s) /\ n \in Nat
      BY <1>1
    <3>2. Cardinality(t) \in Nat /\ Cardinality(t) = Cardinality(s) - 1
      BY <2>5, <3>1, OneLess
    <3> QED BY <2>2, <3>1, <3>2
  <2>7. g[t] = h[t]
    <3>1. Cardinality(t) \notin Bad
      <4>1. n \in Nat
        OBVIOUS
      <4> HIDE DEF Bad, t
      <4> QED BY <2>1, <2>6, <4>1
    <3> HIDE DEF t
    <3> QED BY Zenon, <2>5, <2>6, <3>1
  <2>8. f[Pick(s)] = e[Pick(s)]
    BY <2>5
  <2> QED BY <2>2, <2>3, <2>4, <2>7, <2>8 DEF SumStep
<1> QED BY Zenon, <1>1, <1>2

(* So the sum is a value of a function that satisfies the recursion. *)
LEMMA SumFunctionIs ==
  ASSUME NEW f, NEW S, IsFiniteSet(S)
  PROVE  \E g : IsSum(f, g, SUBSET S) /\ Sum(f, S) = g[S]
BY Zenon, SumFunctionExists, SumIs

(* The sum over no elements is 0. *)
LEMMA SumEmpty == ASSUME NEW f PROVE Sum(f, {}) = 0
<1>1. IsFiniteSet({})
  BY FS_EmptySet
<1>2. PICK g : IsSum(f, g, SUBSET {}) /\ Sum(f, {}) = g[{}]
  BY Zenon, <1>1, SumFunctionIs
<1>3. {} \in SUBSET {}
  OBVIOUS
<1> QED BY <1>2, <1>3 DEF IsSum, SumStep

(* The sum does not depend on values outside of S. *)
LEMMA SumAgree ==
  ASSUME NEW f, NEW e, NEW S, IsFiniteSet(S), \A x \in S : f[x] = e[x]
  PROVE  Sum(f, S) = Sum(e, S)
<1>1. PICK g : IsSum(f, g, SUBSET S) /\ Sum(f, S) = g[S]
  BY Zenon, SumFunctionIs
<1>2. PICK h : IsSum(e, h, SUBSET S) /\ Sum(e, S) = h[S]
  BY Zenon, SumFunctionIs
<1>3. \A s \in SUBSET S : g[s] = h[s]
  <2> DEFINE D == SUBSET S
  <2>1. SUBSET S \subseteq D /\ IsSum(f, g, D)
    BY <1>1
  <2> HIDE DEF D
  <2> QED BY <1>2, <2>1, SumFunctionUnique
<1> QED BY <1>1, <1>2, <1>3

(* The sum satisfies the recursion. *)
LEMMA SumPick ==
  ASSUME NEW f, NEW S, IsFiniteSet(S), S # {}
  PROVE  Sum(f, S) = f[Pick(S)] + Sum(f, S \ {Pick(S)})
<1> DEFINE T == S \ {Pick(S)}
<1>1. PICK g : IsSum(f, g, SUBSET S) /\ Sum(f, S) = g[S]
  BY Zenon, SumFunctionIs
<1>2. IsFiniteSet(T)
  BY FS_Subset
<1>3. PICK h : IsSum(f, h, SUBSET T) /\ Sum(f, T) = h[T]
  BY Zenon, <1>2, SumFunctionIs
<1>4. SUBSET T \subseteq SUBSET S
  OBVIOUS
<1>5. g[T] = h[T]
  <2> DEFINE D == SUBSET S
  <2>1. SUBSET T \subseteq D /\ IsSum(f, g, D) /\ \A x \in T : f[x] = f[x]
    BY <1>1, <1>4
  <2> HIDE DEF T, D
  <2>2. \A s \in SUBSET T : g[s] = h[s]
    BY <1>2, <1>3, <2>1, SumFunctionUnique
  <2> QED BY <2>2
<1>6. g[S] = SumStep(f, g, S)
  BY <1>1 DEF IsSum
<1> QED BY <1>1, <1>3, <1>5, <1>6 DEF SumStep

(* Induction on the subsets of a finite set, for a set P of them. *)
LEMMA SubsetInduction ==
  ASSUME NEW S, IsFiniteSet(S), NEW P,
         \A T \in SUBSET S : (\A x \in T : T \ {x} \in P) => T \in P
  PROVE  SUBSET S \subseteq P
<1> DEFINE Bad == {n \in Nat : \E T \in SUBSET S : Cardinality(T) = n /\ T \notin P}
<1>1. \A T \in SUBSET S : IsFiniteSet(T) /\ Cardinality(T) \in Nat
  BY FS_Subset, FS_CardinalityType
<1>2. Bad = {}
  <2> SUFFICES ASSUME Bad # {} PROVE FALSE
    OBVIOUS
  <2>1. PICK n \in Bad : \A m \in Bad : n <= m
    <3>1. Bad \in SUBSET Nat
      OBVIOUS
    <3> HIDE DEF Bad
    <3> QED BY Zenon, <3>1, LeastOf
  <2>2. PICK T \in SUBSET S : Cardinality(T) = n /\ T \notin P
    OBVIOUS
  <2>3. PICK x \in T : T \ {x} \notin P
    BY Zenon, <2>2
  <2> DEFINE U == T \ {x}
  <2>4. U \in SUBSET S /\ U \notin P
    BY <2>3
  <2>5. Cardinality(U) \in Nat /\ Cardinality(U) = n - 1 /\ n \in Nat
    <3>1. IsFiniteSet(T) /\ n \in Nat
      BY <1>1
    <3>2. Cardinality(U) \in Nat /\ Cardinality(U) = Cardinality(T) - 1
      BY <3>1, OneLess
    <3> QED BY <2>2, <3>1, <3>2
  <2> HIDE DEF U
  <2>6. Cardinality(U) \in Bad
    BY Zenon, <2>4, <2>5
  <2> HIDE DEF Bad
  <2> QED BY <2>1, <2>5, <2>6
<1> QED BY Zenon, <1>1, <1>2

(* The values of f on S can be summed up. *)
CountsIn(f, S) == \A x \in S : f[x] \in Nat

(* A sum of natural numbers is one. *)
LEMMA SumType ==
  ASSUME NEW f, NEW S, IsFiniteSet(S), CountsIn(f, S)
  PROVE  Sum(f, S) \in Nat
<1> DEFINE P == {T \in SUBSET S : Sum(f, T) \in Nat}
<1>1. ASSUME NEW T \in SUBSET S, \A x \in T : T \ {x} \in P PROVE T \in P
  <2>1. CASE T = {}
    BY <2>1, SumEmpty
  <2>2. CASE T # {}
    <3>1. Pick(T) \in T /\ IsFiniteSet(T)
      BY <2>2, PickIs, FS_Subset
    <3>2. Sum(f, T) = f[Pick(T)] + Sum(f, T \ {Pick(T)})
      BY <2>2, <3>1, SumPick
    <3>3. f[Pick(T)] \in Nat /\ Sum(f, T \ {Pick(T)}) \in Nat
      BY <1>1, <3>1 DEF CountsIn
    <3> QED BY <3>2, <3>3
  <2> QED BY <2>1, <2>2
<1> HIDE DEF P
<1>2. SUBSET S \subseteq P
  BY Zenon, <1>1, SubsetInduction
<1> QED BY <1>2 DEF P

(* Any element can be taken out of a sum. *)
LEMMA SumRemove ==
  ASSUME NEW f, NEW S, IsFiniteSet(S), CountsIn(f, S), NEW y \in S
  PROVE  Sum(f, S) = f[y] + Sum(f, S \ {y})
<1> DEFINE P == {T \in SUBSET S : \A x \in T : Sum(f, T) = f[x] + Sum(f, T \ {x})}
<1>1. ASSUME NEW T \in SUBSET S, \A x \in T : T \ {x} \in P PROVE T \in P
  <2> SUFFICES ASSUME NEW x \in T PROVE Sum(f, T) = f[x] + Sum(f, T \ {x})
    OBVIOUS
  <2> DEFINE c == Pick(T)
  <2>1. c \in T /\ IsFiniteSet(T)
    BY PickIs, FS_Subset
  <2>2. Sum(f, T) = f[c] + Sum(f, T \ {c})
    BY <2>1, SumPick
  <2> HIDE DEF c
  <2>3. CASE x = c
    BY <2>2, <2>3
  <2>4. CASE x # c
    <3> DEFINE U == T \ {x, c}
    <3>1. x \in T \ {c} /\ c \in T \ {x} /\ (T \ {c}) \ {x} = U /\ (T \ {x}) \ {c} = U
      BY <2>1, <2>4
    <3>2. Sum(f, T \ {c}) = f[x] + Sum(f, U) /\ Sum(f, T \ {x}) = f[c] + Sum(f, U)
      BY <1>1, <2>1, <3>1
    <3>3. f[x] \in Nat /\ f[c] \in Nat
      BY <2>1 DEF CountsIn
    <3>4. Sum(f, U) \in Nat
      <4>1. IsFiniteSet(U) /\ CountsIn(f, U)
        BY FS_Subset DEF CountsIn
      <4> QED BY <4>1, SumType
    <3> HIDE DEF U
    <3> QED BY <2>2, <3>2, <3>3, <3>4
  <2> QED BY <2>3, <2>4
<1> HIDE DEF P
<1>2. SUBSET S \subseteq P
  BY Zenon, <1>1, SubsetInduction
<1>3. S \in P
  BY <1>2
<1> QED BY <1>3 DEF P

(* The sum over two disjoint sets is the sum of the sums. *)
LEMMA SumUnion ==
  ASSUME NEW f, NEW U, NEW S, IsFiniteSet(U), IsFiniteSet(S), U \cap S = {},
         CountsIn(f, U), CountsIn(f, S)
  PROVE  Sum(f, U \cup S) = Sum(f, U) + Sum(f, S)
<1> DEFINE P == {T \in SUBSET S : Sum(f, U \cup T) = Sum(f, U) + Sum(f, T)}
<1>1. ASSUME NEW T \in SUBSET S, \A x \in T : T \ {x} \in P PROVE T \in P
  <2>1. CASE T = {}
    <3>1. Sum(f, U) \in Nat /\ U \cup T = U
      BY <2>1, SumType
    <3> QED BY <2>1, <3>1, SumEmpty
  <2>2. CASE T # {}
    <3>1. PICK x \in T : TRUE
      BY <2>2
    <3> DEFINE V == U \cup T
               W == T \ {x}
    <3>2. V \ {x} = U \cup W /\ x \in V
      BY <3>1
    <3>3. IsFiniteSet(V) /\ IsFiniteSet(T) /\ IsFiniteSet(W) /\ CountsIn(f, V) /\ CountsIn(f, T) /\ CountsIn(f, W)
      BY Zenon, FS_Subset, FS_Union DEF CountsIn
    <3>4. Sum(f, U \cup W) = Sum(f, U) + Sum(f, W)
      BY <1>1, <3>1
    <3> HIDE DEF V, W
    <3>5. Sum(f, V) = f[x] + Sum(f, U \cup W)
      BY <3>2, <3>3, SumRemove
    <3>6. Sum(f, T) = f[x] + Sum(f, W)
      BY <3>3, <3>1, SumRemove DEF W
    <3>7. Sum(f, W) \in Nat /\ f[x] \in Nat /\ Sum(f, U) \in Nat
      BY <3>1, <3>3, SumType DEF CountsIn
    <3>8. Sum(f, V) = Sum(f, U) + Sum(f, T)
      BY <3>4, <3>5, <3>6, <3>7
    <3> QED BY <3>8 DEF V
  <2> QED BY <2>1, <2>2
<1> HIDE DEF P
<1>2. SUBSET S \subseteq P
  BY Zenon, <1>1, SubsetInduction
<1>3. S \in P
  BY <1>2
<1> QED BY <1>3 DEF P

(* A sum over fewer elements is not larger, and the same when the others are 0. *)
LEMMA SumSubset ==
  ASSUME NEW f, NEW S, IsFiniteSet(S), CountsIn(f, S), NEW T \in SUBSET S
  PROVE  /\ Sum(f, T) \in Nat /\ Sum(f, S) \in Nat /\ Sum(f, T) <= Sum(f, S)
         /\ (\A x \in S \ T : f[x] = 0) => Sum(f, T) = Sum(f, S)
<1> DEFINE U == S \ T
<1>1. /\ IsFiniteSet(T) /\ IsFiniteSet(U) /\ CountsIn(f, T) /\ CountsIn(f, U)
      /\ T \cap U = {} /\ T \cup U = S
  BY FS_Subset DEF CountsIn
<1>2. Sum(f, S) = Sum(f, T) + Sum(f, U)
  <2> HIDE DEF U
  <2> QED BY <1>1, SumUnion
<1>3. Sum(f, T) \in Nat /\ Sum(f, U) \in Nat /\ Sum(f, S) \in Nat
  <2> HIDE DEF U
  <2> QED BY <1>1, SumType
<1>4. ASSUME \A x \in U : f[x] = 0 PROVE Sum(f, U) = 0
  <2> DEFINE P == {V \in SUBSET U : Sum(f, V) = 0}
  <2>1. ASSUME NEW V \in SUBSET U, \A x \in V : V \ {x} \in P PROVE V \in P
    <3>1. CASE V = {}
      BY <3>1, SumEmpty
    <3>2. CASE V # {}
      <4>1. PICK x \in V : TRUE
        BY <3>2
      <4>2. IsFiniteSet(V) /\ CountsIn(f, V)
        BY <1>1, FS_Subset DEF CountsIn
      <4>3. Sum(f, V) = f[x] + Sum(f, V \ {x})
        BY <4>1, <4>2, SumRemove
      <4>4. f[x] = 0 /\ Sum(f, V \ {x}) = 0
        BY <1>4, <2>1, <4>1
      <4> QED BY <4>3, <4>4
    <3> QED BY <3>1, <3>2
  <2> HIDE DEF P, U
  <2>2. SUBSET U \subseteq P
    BY Zenon, <1>1, <2>1, SubsetInduction
  <2>3. U \in P
    BY <2>2
  <2> QED BY <2>3 DEF P
<1> HIDE DEF U
<1> QED BY <1>2, <1>3, <1>4 DEF U

(* Adding one to one value adds one to the sum. *)
LEMMA SumIncrement ==
  ASSUME NEW f, NEW e, NEW S, IsFiniteSet(S), CountsIn(f, S), NEW y,
         \A x \in S : e[x] = IF x = y THEN f[x] + 1 ELSE f[x]
  PROVE  Sum(e, S) = IF y \in S THEN Sum(f, S) + 1 ELSE Sum(f, S)
<1>1. CASE y \notin S
  <2>1. \A x \in S : e[x] = f[x]
    BY <1>1
  <2>2. Sum(e, S) = Sum(f, S)
    BY <2>1, SumAgree
  <2> QED BY <1>1, <2>2
<1>2. CASE y \in S
  <2> DEFINE T == S \ {y}
  <2>1. IsFiniteSet(T) /\ CountsIn(f, T) /\ \A x \in T : e[x] = f[x]
    BY FS_Subset DEF CountsIn
  <2>2. CountsIn(e, S) /\ e[y] = f[y] + 1 /\ f[y] \in Nat
    BY <1>2 DEF CountsIn
  <2>3. Sum(f, S) = f[y] + Sum(f, T) /\ Sum(e, S) = e[y] + Sum(e, T)
    BY <1>2, <2>2, SumRemove
  <2> HIDE DEF T
  <2>4. Sum(e, T) = Sum(f, T) /\ Sum(f, T) \in Nat
    BY <2>1, SumAgree, SumType
  <2>5. Sum(e, S) = Sum(f, S) + 1
    BY <2>2, <2>3, <2>4
  <2> QED BY <1>2, <2>5
<1> QED BY <1>1, <1>2

(* The sum of the sums of disjoint blocks is the sum of all of them. *)
LEMMA SumBlocks ==
  ASSUME NEW f, NEW S, IsFiniteSet(S), CountsIn(f, S), NEW B, IsFiniteSet(B),
         NEW g, NEW F, \A b \in B : F[b] \in SUBSET S /\ g[b] = Sum(f, F[b]),
         \A b, c \in B : b # c => F[b] \cap F[c] = {}
  PROVE  Sum(g, B) = Sum(f, UNION {F[b] : b \in B})
<1> DEFINE All(C) == UNION {F[b] : b \in C}
           P == {C \in SUBSET B : Sum(g, C) = Sum(f, All(C))}
<1>0. \A T \in SUBSET S : IsFiniteSet(T) /\ CountsIn(f, T) /\ Sum(f, T) \in Nat
  BY FS_Subset, SumType DEF CountsIn
<1>1. ASSUME NEW C \in SUBSET B, \A x \in C : C \ {x} \in P PROVE C \in P
  <2>1. CASE C = {}
    <3>1. All(C) = {}
      BY <2>1
    <3> QED BY <2>1, <3>1, SumEmpty
  <2>2. CASE C # {}
    <3>1. PICK x \in C : TRUE
      BY <2>2
    <3>2. IsFiniteSet(C) /\ CountsIn(g, C)
      <4>1. IsFiniteSet(C)
        BY FS_Subset
      <4>2. \A b \in C : F[b] \in SUBSET S /\ g[b] = Sum(f, F[b])
        OBVIOUS
      <4> QED BY Zenon, <1>0, <4>1, <4>2 DEF CountsIn
    <3>3. Sum(g, C) = g[x] + Sum(g, C \ {x})
      BY <3>1, <3>2, SumRemove
    <3> DEFINE U == F[x]
               V == All(C \ {x})
    <3>4. U \in SUBSET S /\ V \in SUBSET S /\ U \cap V = {} /\ U \cup V = All(C)
      BY <3>1
    <3>5. Sum(g, C \ {x}) = Sum(f, V) /\ g[x] = Sum(f, U)
      BY <1>1, <3>1
    <3> HIDE DEF U, V, All
    <3>6. Sum(f, U \cup V) = Sum(f, U) + Sum(f, V)
      BY <1>0, <3>4, SumUnion
    <3> QED BY Zenon, <3>3, <3>4, <3>5, <3>6
  <2> QED BY <2>1, <2>2
<1> HIDE DEF P
<1>2. SUBSET B \subseteq P
  BY Zenon, <1>1, SubsetInduction
<1>3. B \in P
  BY <1>2
<1> QED BY <1>3 DEF P

-----------------------------------------------------------------------------
(***************************************************************************)
(* Latency: the bins, through every change of their width.                 *)
(***************************************************************************)
BinOf(l, w) == (l - 1) \div w

InBin(b, w) == {l \in Latencies : BinOf(l, w) = b}

(* What the integer division of the bins computes. *)
LEMMA Division ==
  ASSUME NEW x \in Int, NEW w \in Nat \ {0}
  PROVE  /\ x \div w \in Int /\ w * (x \div w) <= x /\ x < w * (x \div w) + w
         /\ \A b \in Int : w * b <= x /\ x < w * b + w => x \div w = b
<1>1. x % w \in 0..w - 1 /\ x = w * (x \div w) + (x % w) /\ x \div w \in Int
  BY Z3
<1>2. x \div w \in Int /\ w * (x \div w) <= x /\ x < w * (x \div w) + w
  BY <1>1, Z3
<1> DEFINE d == x \div w
<1>3. ASSUME NEW b \in Int, w * b <= x, x < w * b + w PROVE d = b
  <2> HIDE DEF d
  <2>1. d \in Int /\ w * d <= x /\ x < w * d + w
    BY <1>2 DEF d
  <2>2. w * (d - b) < w /\ w * (b - d) < w
    BY <1>3, <2>1, Z3
  <2>3. d - b < 1 /\ b - d < 1
    BY <2>1, <2>2, Z3
  <2> QED BY <2>1, <2>3
<1> QED BY <1>2, <1>3

(* Bin b holds the latencies in (b * w, (b + 1) * w]. *)
LEMMA BinBounds ==
  ASSUME NEW l \in Nat, NEW w \in Nat \ {0}, NEW b \in Int
  PROVE  BinOf(l, w) = b <=> b * w < l /\ l <= (b + 1) * w
<1> DEFINE x == l - 1
<1>1. x \in Int
  OBVIOUS
<1>2. /\ x \div w \in Int /\ w * (x \div w) <= x /\ x < w * (x \div w) + w
      /\ w * b <= x /\ x < w * b + w => x \div w = b
  <2> HIDE DEF x
  <2> QED BY <1>1, Division
<1>3. b * w = w * b /\ (b + 1) * w = w * b + w /\ w * b \in Int
  BY Z3
<1> QED BY <1>2, <1>3 DEF BinOf

(* When the new width is a multiple of the old one, a latency goes from its
   old bin into the bin it would have had. *)
LEMMA NestedBins ==
  ASSUME NEW x \in Int, NEW v \in Nat \ {0}, NEW q \in Nat \ {0}
  PROVE  ((x \div v) * v) \div (v * q) = x \div (v * q)
<1> DEFINE w == v * q
           i == x \div v
           k == x \div w
<1>1. w \in Nat \ {0}
  BY Z3
<1>2. i \in Int /\ v * i <= x /\ x < v * i + v
  BY Division
<1>3. k \in Int /\ w * k <= x /\ x < w * k + w
  <2> HIDE DEF w
  <2> QED BY <1>1, Division
<1>4. i * v \in Int /\ i * v = v * i
  <2> HIDE DEF i
  <2> QED BY <1>2, Z3
<1>5. v * (q * k) <= x
  <2> HIDE DEF k
  <2>1. v * (q * k) = w * k
    BY <1>3, Z3 
  <2> QED BY <1>3, <2>1
<1>6. q * k <= i
  <2> HIDE DEF i, k
  <2>1. q * k \in Int
    BY <1>3, Z3
  <2> DEFINE m == q * k
  <2> HIDE DEF m
  <2>2. m \in Int /\ v * m <= x
    BY <1>5, <2>1 DEF m
  <2>3. v * (m - i) < v
    BY <1>2, <2>2, Z3
  <2>4. m - i < 1
    BY <1>2, <2>2, <2>3, Z3
  <2> QED BY <1>2, <2>2, <2>4 DEF m
<1>7. w * k <= i * v
  <2> HIDE DEF i, k
  <2>1. w * k = (q * k) * v
    BY <1>3, Z3
  <2> DEFINE m == q * k
  <2>2. m \in Int
    BY <1>3, Z3
  <2> HIDE DEF m
  <2>3. m * v <= i * v
    BY <1>2, <1>6, <2>2, Z3 DEF m
  <2> QED BY <2>1, <2>3 DEF m
<1> HIDE DEF w, i, k
<1>8. i * v < w * k + w
  BY <1>1, <1>2, <1>3, <1>4, Z3
<1>9. (i * v) \div w = k
  BY <1>1, <1>3, <1>4, <1>7, <1>8, Division
<1> QED BY <1>9 DEF w, i, k

(* A latency is in one of the first n bins when it is at most n * w. *)
LEMMA InRange ==
  ASSUME NEW l \in Nat, NEW w \in Nat \ {0}, NEW n \in Nat
  PROVE  BinOf(l, w) \in 0..n - 1 <=> 0 < l /\ l <= n * w
<1> DEFINE x == l - 1
           d == x \div w
<1>1. x \in Int
  OBVIOUS
<1>2. d \in Int /\ w * d <= x /\ x < w * d + w
  <2> HIDE DEF x
  <2> QED BY <1>1, Division
<1>3. n * w = w * n /\ w * n \in Nat
  BY Z3
<1> HIDE DEF d
<1>4. ASSUME d \in 0..n - 1 PROVE 0 < l /\ l <= n * w
  <2>1. w * d >= 0 /\ w * d + w <= w * n
    <3>1. w * d >= 0
      BY <1>2, <1>4, Z3
    <3>2. w * (d + 1) <= w * n
      BY <1>2, <1>4, Z3
    <3>3. w * (d + 1) = w * d + w
      BY <1>2, Z3
    <3> QED BY <3>1, <3>2, <3>3
  <2> QED BY <1>2, <1>3, <2>1
<1>5. ASSUME 0 < l, l <= n * w PROVE d \in 0..n - 1
  <2>1. x >= 0 /\ x < w * n
    BY <1>3, <1>5
  <2>2. d >= 0
    <3>1. 0 < w * d + w
      BY <1>2, <2>1
    <3>2. w * (d + 1) > 0
      BY <1>2, <3>1, Z3
    <3>3. d + 1 > 0
      BY <1>2, <3>2, Z3
    <3> QED BY <1>2, <3>3
  <2>3. d < n
    <3>1. w * d < w * n
      BY <1>2, <1>3, <2>1, Z3
    <3>2. w * (n - d) > 0
      BY <1>2, <3>1, Z3
    <3>3. n - d > 0
      BY <1>2, <3>2, Z3
    <3> QED BY <1>2, <3>3
  <2> QED BY <1>2, <2>2, <2>3
<1> QED BY <1>4, <1>5 DEF BinOf, d

(* What the bins of width w hold when the latencies were added as in a *)
BinsHold(h, a, w) ==
  /\ h \in [Bins -> Nat]
  /\ \A b \in Bins : h[b] = Sum(a, InBin(b, w))
  /\ \A l \in Latencies : a[l] # 0 => BinOf(l, w) \in Bins

(* latency_counter_t *)
LatencyCounters == [num : Nat, min : Nat, max : Nat, bin_width : Widths, histogram : [Bins -> Nat]]

(* The counter c has counted the latencies a, and all of them have a bin. *)
CountsAll(c, a) ==
  /\ c \in LatencyCounters /\ a \in [Latencies -> Nat]
  /\ Sum(a, Latencies) = c.num
  /\ BinsHold(c.histogram, a, c.bin_width)

(* The inductive invariant: the counter has counted what was added. *)
LatencyInv == CountsAll(lc, added)

(* The counts of the latencies can be summed up. *)
LEMMA LatenciesAre ==
  ASSUME NEW a \in [Latencies -> Nat], NEW T \in SUBSET Latencies
  PROVE  IsFiniteSet(T) /\ CountsIn(a, T) /\ Sum(a, T) \in Nat
<1>1. IsFiniteSet(T) /\ CountsIn(a, T)
  BY Zenon, LatencyAssumption, FS_Subset DEF CountsIn
<1> QED BY <1>1, SumType

(* The bins are finitely many, the widths positive. *)
LEMMA BinsAre ==
  /\ NumBins \in Nat \ {0} /\ IsFiniteSet(Bins) /\ Bins \subseteq Nat
  /\ \A w \in Widths : w \in Nat \ {0}
<1>1. NumBins \in Nat \ {0} /\ \A w \in Widths : w \in Nat \ {0}
  BY LatencyAssumption, WidthsAssumption
<1>2. IsFiniteSet(0..NumBins - 1)
  BY <1>1, FS_Interval
<1> QED BY <1>1, <1>2 DEF Bins

(* change_bin_width: bins that are merged into wider ones hold what wide bins
   would have counted. *)
LEMMA WiderBins ==
  ASSUME NEW h, NEW a \in [Latencies -> Nat], NEW v \in Widths, NEW w \in Widths, v < w,
         BinsHold(h, a, v), NEW g,
         g = [b \in Bins |-> SumFunctionOnSet(h, {i \in Bins : (i * v) \div w = b})]
  PROVE  BinsHold(g, a, w)
<1>1. PICK q \in Nat \ {0} : w = v * q
  BY WidthsAssumption
<1>2. v \in Nat \ {0} /\ w \in Nat \ {0} /\ Latencies \subseteq Nat
  BY BinsAre, LatencyAssumption
<1>3. ASSUME NEW l \in Latencies PROVE BinOf(l, w) = (BinOf(l, v) * v) \div w
  <2> DEFINE x == l - 1
  <2>1. x \in Int
    BY <1>2
  <2> HIDE DEF x
  <2>2. ((x \div v) * v) \div (v * q) = x \div (v * q)
    BY <1>1, <1>2, <2>1, NestedBins
  <2> QED BY <1>1, <2>2 DEF BinOf, x
<1>4. ASSUME NEW l \in Latencies, BinOf(l, v) \in Bins PROVE BinOf(l, w) \in Bins
  <2>1. 0 < l /\ l <= NumBins * v
    BY <1>2, <1>4, BinsAre, InRange DEF Bins
  <2>2. NumBins * v <= NumBins * w /\ NumBins * v \in Nat /\ NumBins * w \in Nat
    BY <1>2, BinsAre, Z3
  <2>3. l <= NumBins * w /\ l \in Nat
    BY <1>2, <2>1, <2>2
  <2> QED BY <1>2, <2>1, <2>3, BinsAre, InRange DEF Bins
<1>5. ASSUME NEW b \in Bins PROVE g[b] = Sum(a, InBin(b, w)) /\ g[b] \in Nat
  <2> DEFINE B == {i \in Bins : (i * v) \div w = b}
             F == [i \in B |-> InBin(i, v)]
             U == UNION {F[i] : i \in B}
  <2>1. IsFiniteSet(B) /\ g[b] = Sum(h, B)
    <3>1. IsFiniteSet(B)
      <4>1. IsFiniteSet(Bins) /\ B \in SUBSET Bins
        BY BinsAre
      <4> HIDE DEF B
      <4> QED BY <4>1, FS_Subset
    <3>2. g[b] = Sum(h, B)
      BY Zenon DEF Sum
    <3> QED BY <3>1, <3>2
  <2>2. \A i \in B : F[i] \in SUBSET Latencies /\ h[i] = Sum(a, F[i])
    BY DEF BinsHold, InBin
  <2>3. \A i, j \in B : i # j => F[i] \cap F[j] = {}
    BY DEF InBin
  <2>4. U = {l \in Latencies : BinOf(l, v) \in B}
    <3> HIDE DEF B
    <3>1. \A i \in B : F[i] = {l \in Latencies : BinOf(l, v) = i}
      BY DEF InBin
    <3> HIDE DEF F
    <3>2. U \subseteq {l \in Latencies : BinOf(l, v) \in B}
      BY <3>1
    <3>3. ASSUME NEW l \in Latencies, BinOf(l, v) \in B PROVE l \in U
      <4>1. l \in F[BinOf(l, v)]
        BY <3>1, <3>3
      <4> QED BY <3>3, <4>1
    <3> HIDE DEF U
    <3> QED BY Zenon, <3>2, <3>3
  <2>5. U \in SUBSET InBin(b, w)
    BY <1>3, <2>4 DEF InBin
  <2>6. \A l \in InBin(b, w) \ U : a[l] = 0
    BY <1>3, <2>4 DEF InBin, BinsHold
  <2> HIDE DEF B, F
  <2>7. Sum(h, B) = Sum(a, U)
    <3>1. IsFiniteSet(Latencies) /\ CountsIn(a, Latencies)
      BY LatenciesAre
    <3> QED BY <2>1, <2>2, <2>3, <3>1, SumBlocks
  <2> HIDE DEF U
  <2>8. InBin(b, w) \in SUBSET Latencies
    BY DEF InBin
  <2> DEFINE I == InBin(b, w)
  <2>9. IsFiniteSet(I) /\ CountsIn(a, I) /\ Sum(a, I) \in Nat
    <3> HIDE DEF I
    <3> QED BY <2>8, LatenciesAre DEF I
  <2>10. Sum(a, U) = Sum(a, I)
    <3>1. U \in SUBSET I /\ \A l \in I \ U : a[l] = 0
      BY <2>5, <2>6
    <3> HIDE DEF I
    <3> QED BY <2>9, <3>1, SumSubset
  <2> QED BY <2>1, <2>7, <2>9, <2>10
<1>6. g \in [Bins -> Nat]
  BY <1>5
<1> QED BY <1>4, <1>5, <1>6 DEF BinsHold

(* The least element of a nonempty set of natural numbers. *)
LEMMA MinIs ==
  ASSUME NEW S \in SUBSET Nat, S # {}
  PROVE  Min(S) \in S /\ \A y \in S : Min(S) <= y
BY Zenon, LeastOf DEF Min

(* A counter that was reset has counted nothing. *)
LEMMA FreshCounts ==
  ASSUME NEW w \in Widths
  PROVE  CountsAll(Fresh(w), [l \in Latencies |-> 0])
<1> DEFINE a == [l \in Latencies |-> 0]
<1>1. a \in [Latencies -> Nat] /\ \A l \in Latencies : a[l] = 0
  OBVIOUS
<1> HIDE DEF a
<1>2. \A T \in SUBSET Latencies : Sum(a, T) = 0
  <2> TAKE T \in SUBSET Latencies
  <2>1. IsFiniteSet(T) /\ CountsIn(a, T)
    BY <1>1, LatenciesAre
  <2>2. {} \in SUBSET T /\ \A x \in T \ {} : a[x] = 0
    BY <1>1
  <2>3. Sum(a, {}) = Sum(a, T)
    BY <2>1, <2>2, SumSubset
  <2> QED BY <2>3, SumEmpty
<1>3. Fresh(w) \in LatencyCounters
  BY DEF Fresh, LatencyCounters
<1>4. /\ Fresh(w).num = 0 /\ Fresh(w).bin_width = w
      /\ Fresh(w).histogram = [b \in Bins |-> 0]
  BY DEF Fresh
<1>5. \A b \in Bins : InBin(b, w) \in SUBSET Latencies
  BY DEF InBin
<1>6. BinsHold(Fresh(w).histogram, a, w)
  BY <1>1, <1>2, <1>4, <1>5 DEF BinsHold
<1>7. CountsAll(Fresh(w), a)
  BY <1>1, <1>2, <1>3, <1>4, <1>6 DEF CountsAll
<1> QED BY <1>7 DEF a

(* One more latency adds one to the sums it is part of. *)
LEMMA OneMore ==
  ASSUME NEW a \in [Latencies -> Nat], NEW l \in Latencies, NEW T \in SUBSET Latencies
  PROVE  LET e == [a EXCEPT ![l] = @ + 1] IN
         e \in [Latencies -> Nat] /\ Sum(e, T) = IF l \in T THEN Sum(a, T) + 1 ELSE Sum(a, T)
<1> DEFINE e == [a EXCEPT ![l] = @ + 1]
<1>1. e \in [Latencies -> Nat] /\ \A x \in T : e[x] = IF x = l THEN a[x] + 1 ELSE a[x]
  OBVIOUS
<1>2. IsFiniteSet(T) /\ CountsIn(a, T)
  BY LatenciesAre
<1> HIDE DEF e
<1>3. Sum(e, T) = IF l \in T THEN Sum(a, T) + 1 ELSE Sum(a, T)
  BY <1>1, <1>2, SumIncrement
<1> QED BY <1>1, <1>3 DEF e

(* Adding one to the bin of a latency counts it. *)
LEMMA AddToBin ==
  ASSUME NEW h, NEW a \in [Latencies -> Nat], NEW w \in Widths, NEW l \in Latencies,
         BinsHold(h, a, w), BinOf(l, w) \in Bins
  PROVE  BinsHold([h EXCEPT ![BinOf(l, w)] = @ + 1], [a EXCEPT ![l] = @ + 1], w)
<1> DEFINE e == [a EXCEPT ![l] = @ + 1]
           g == [h EXCEPT ![BinOf(l, w)] = @ + 1]
<1>1. h \in [Bins -> Nat] /\ \A b \in Bins : h[b] = Sum(a, InBin(b, w))
  BY DEF BinsHold
<1>2. g \in [Bins -> Nat] /\ \A b \in Bins : g[b] = IF b = BinOf(l, w) THEN h[b] + 1 ELSE h[b]
  BY <1>1
<1>3. ASSUME NEW b \in Bins PROVE g[b] = Sum(e, InBin(b, w))
  <2> DEFINE T == InBin(b, w)
  <2>1. T \in SUBSET Latencies /\ (l \in T <=> b = BinOf(l, w))
    BY DEF InBin
  <2> HIDE DEF T
  <2>2. Sum(e, T) = IF l \in T THEN Sum(a, T) + 1 ELSE Sum(a, T)
    BY Zenon, <2>1, OneMore
  <2> HIDE DEF g, e
  <2> QED BY <1>1, <1>2, <2>1, <2>2 DEF T
<1>4. \A x \in Latencies : e[x] # 0 => BinOf(x, w) \in Bins
  BY DEF BinsHold
<1> QED BY Zenon, <1>2, <1>3, <1>4 DEF BinsHold

(* latency_counter_add counts the latency before it looks for its bin. *)
LEMMA CountedIs ==
  ASSUME NEW c \in LatencyCounters, NEW l \in Nat
  PROVE  /\ Counted(c, l) \in LatencyCounters /\ Counted(c, l).num = c.num + 1
         /\ Counted(c, l).bin_width = c.bin_width /\ Counted(c, l).histogram = c.histogram
<1> DEFINE first == c.min = 0 /\ c.max = 0
           low == IF first \/ c.min > l THEN l ELSE c.min
           high == IF first \/ c.max < l THEN l ELSE c.max
<1>1. low \in Nat /\ high \in Nat /\ c.num + 1 \in Nat
  BY DEF LatencyCounters
<1>2. Counted(c, l) = [c EXCEPT !.num = c.num + 1, !.min = low, !.max = high]
  BY DEF Counted, LatencyCounters
<1> HIDE DEF low, high
<1> QED BY Zenon, <1>1, <1>2 DEF LatencyCounters

(* A latency that does not fit gets a wider width, and fits it. *)
LEMMA NewWidth ==
  ASSUME NEW v \in Widths, NEW l \in Latencies, BinOf(l, v) >= NumBins,
         NEW w, w = Min({x \in Widths : x * NumBins >= l + 1})
  PROVE  w \in Widths /\ v < w /\ BinOf(l, w) \in Bins
<1> DEFINE S == {x \in Widths : x * NumBins >= l + 1}
<1>0. /\ l \in Nat /\ v \in Nat \ {0} /\ NumBins \in Nat \ {0}
      /\ \A x \in Widths : x \in Nat \ {0}
  BY LatencyAssumption, BinsAre
<1>1. S \in SUBSET Nat /\ S # {}
  BY Zenon, <1>0, WidthsAssumption
<1>2. w \in S
  <2> HIDE DEF S
  <2> QED BY <1>1, MinIs DEF S
<1>3. w \in Nat \ {0} /\ w \in Widths /\ w * NumBins >= l + 1
  BY <1>0, <1>2
<1> HIDE DEF S
<1>4. w * NumBins = NumBins * w /\ v * NumBins = NumBins * v /\ NumBins * w \in Nat /\ NumBins * v \in Nat
  BY <1>0, <1>3, Z3
<1>5. l > 0 /\ BinOf(l, v) \notin Bins
  <2> DEFINE x == l - 1
  <2>1. x \in Int
    BY <1>0
  <2>2. x \div v \in Int /\ v * (x \div v) <= x
    <3> HIDE DEF x
    <3> QED BY <1>0, <2>1, Division
  <2>3. BinOf(l, v) = x \div v
    BY DEF BinOf
  <2> DEFINE d == x \div v
  <2> HIDE DEF d
  <2>4. d \in Int /\ v * d <= x /\ d >= NumBins
    BY <2>2, <2>3 DEF d
  <2>5. v * d >= 0
    BY <1>0, <2>4, Z3
  <2> QED BY <1>0, <2>3, <2>4, <2>5 DEF Bins, d
<1>6. BinOf(l, w) \in Bins
  BY <1>0, <1>3, <1>4, <1>5, InRange DEF Bins
<1>7. l > NumBins * v
  <2>1. ~(l <= NumBins * v)
    BY <1>0, <1>5, InRange DEF Bins
  <2> QED BY <1>0, <1>4, <2>1
<1>8. v < w
  <2>1. NumBins * v < NumBins * w
    BY <1>0, <1>3, <1>4, <1>7
  <2>2. NumBins * (w - v) > 0
    BY <1>0, <1>3, <2>1, Z3
  <2>3. w - v > 0
    BY <1>0, <1>3, <2>2, Z3
  <2> QED BY <1>0, <1>3, <2>3
<1> QED BY <1>3, <1>6, <1>8

(* latency_counter_add keeps the invariant, with and without a new width. *)
LEMMA AddCounts ==
  ASSUME LatencyInv, NEW l \in Latencies, latency_counter_add(l)
  PROVE  LatencyInv'
<1> DEFINE c1 == Counted(lc, l)
           v == lc.bin_width
           e == [added EXCEPT ![l] = @ + 1]
<1>1. /\ lc \in LatencyCounters /\ added \in [Latencies -> Nat] /\ l \in Nat
      /\ v \in Widths /\ lc.num \in Nat
      /\ Sum(added, Latencies) = lc.num /\ BinsHold(lc.histogram, added, v)
  BY LatencyAssumption DEF LatencyInv, CountsAll, LatencyCounters
<1>2. /\ c1 \in LatencyCounters /\ c1.num = lc.num + 1
      /\ c1.bin_width = v /\ c1.histogram = lc.histogram
  BY <1>1, CountedIs
<1>3. e \in [Latencies -> Nat] /\ Sum(e, Latencies) = lc.num + 1
  BY Zenon, <1>1, OneMore
<1> DEFINE w == Min({x \in Widths : x * NumBins >= l + 1})
           c2 == IF BinOf(l, v) >= NumBins THEN change_bin_width(c1, l) ELSE c1
<1>4. BinOf(l, v) \in Int /\ (BinOf(l, v) < NumBins => BinOf(l, v) \in Bins)
  <2> DEFINE x == l - 1
  <2>1. x \in Int /\ v \in Nat \ {0} /\ NumBins \in Nat /\ l # 0
    BY <1>1, BinsAre DEF latency_counter_add
  <2>2. x \div v \in Int /\ x < v * (x \div v) + v
    <3> HIDE DEF x
    <3> QED BY <2>1, Division
  <2> DEFINE d == x \div v
  <2> HIDE DEF d
  <2>3. d >= 0
    <3>0. x >= 0
      BY <1>1, <2>1
    <3>1. v * (d + 1) > 0
      BY <2>1, <2>2, <3>0, Z3 DEF d
    <3>2. d + 1 > 0
      BY <2>1, <2>2, <3>1, Z3 DEF d
    <3> QED BY <2>2, <3>2 DEF d
  <2>4. BinOf(l, v) = d
    BY DEF BinOf, d
  <2>5. d \in Int
    BY SMTT(20), <2>2 DEF d
  <2> QED BY <2>1, <2>3, <2>4, <2>5 DEF Bins
<1>5. /\ c2 \in LatencyCounters /\ c2.num = lc.num + 1
      /\ BinsHold(c2.histogram, added, c2.bin_width) /\ BinOf(l, c2.bin_width) \in Bins
  <2>1. CASE BinOf(l, v) >= NumBins
    <3>1. w \in Widths /\ v < w /\ BinOf(l, w) \in Bins
      BY <1>1, <2>1, NewWidth
    <3> HIDE DEF w
    <3> DEFINE g == [b \in Bins |-> SumFunctionOnSet(c1.histogram, {i \in Bins : (i * c1.bin_width) \div w = b})]
    <3>2. c2 = [c1 EXCEPT !.bin_width = w, !.histogram = g]
      BY <2>1 DEF change_bin_width, Rebinned, w
    <3>3. BinsHold(g, added, w)
      <4>1. g = [b \in Bins |-> SumFunctionOnSet(lc.histogram, {i \in Bins : (i * v) \div w = b})]
        BY Zenon, <1>2
      <4> HIDE DEF g, v
      <4> QED BY <1>1, <3>1, <4>1, WiderBins
    <3>4. g \in [Bins -> Nat]
      <4> HIDE DEF g
      <4> QED BY <3>3 DEF BinsHold
    <3> HIDE DEF g, c2, c1
    <3>5. /\ c2 \in LatencyCounters /\ c2.num = c1.num
          /\ c2.bin_width = w /\ c2.histogram = g
      BY Zenon, <1>2, <3>1, <3>2, <3>4 DEF LatencyCounters
    <3> QED BY <1>2, <3>1, <3>3, <3>5
  <2>2. CASE ~(BinOf(l, v) >= NumBins)
    <3>1. BinOf(l, v) \in Bins
      BY <1>4, <2>2, BinsAre
    <3>2. c2 = c1
      BY <2>2
    <3> QED BY <1>1, <1>2, <3>1, <3>2
  <2> QED BY <2>1, <2>2
<1> DEFINE bin == BinOf(l, c2.bin_width)
           h == [c2.histogram EXCEPT ![bin] = @ + 1]
<1>6. lc' = [c2 EXCEPT !.histogram = h] /\ added' = e
  <2>1. ~(bin >= NumBins)
    <3> HIDE DEF bin
    <3> QED BY <1>5, BinsAre DEF Bins, bin
  <2>2. c1.bin_width = v
    BY SMTT(20), <1>2
  <2>3. lc' = [c2 EXCEPT !.histogram[bin] = @ + 1]
    BY Zenon, <2>1, <2>2 DEF latency_counter_add, BinOf
  <2>4. added' = e
    BY DEF latency_counter_add
  <2> QED BY <2>3, <2>4
<1> HIDE DEF c2
<1>7. BinsHold(h, e, c2.bin_width)
  <2> DEFINE k == c2.bin_width
             a == added
             hist == c2.histogram
  <2>1. k \in Widths
    BY <1>5 DEF LatencyCounters
  <2> HIDE DEF k, hist
  <2>2. BinsHold(hist, added, k) /\ BinOf(l, k) \in Bins
    BY <1>5 DEF k, hist
  <2>3. BinsHold([hist EXCEPT ![BinOf(l, k)] = @ + 1], [added EXCEPT ![l] = @ + 1], k)
    BY Zenon, <1>1, <2>1, <2>2, AddToBin
  <2> QED BY <2>3 DEF k, hist
<1>8. h \in [Bins -> Nat]
  <2> HIDE DEF h
  <2> QED BY <1>7 DEF BinsHold
<1> HIDE DEF h, e
<1>9. /\ lc' \in LatencyCounters /\ lc'.num = c2.num
      /\ lc'.bin_width = c2.bin_width /\ lc'.histogram = h
  BY <1>5, <1>6, <1>8 DEF LatencyCounters
<1>10. CountsAll(lc', added')
  BY <1>3, <1>5, <1>6, <1>7, <1>9 DEF CountsAll
<1> QED BY <1>10 DEF LatencyInv, CountsAll, BinsHold, Sum

(* A new counter satisfies the invariant. *)
LEMMA LatencyInvInit == LatencyInit => LatencyInv
<1>1. DefaultWidth \in Widths
  BY WidthsAssumption
<1> QED BY <1>1, FreshCounts DEF LatencyInit, LatencyInv

(* Adding a latency and resetting the counter keep it. *)
LEMMA LatencyInvNext == LatencyInv /\ [LatencyNext]_latencyvars => LatencyInv'
<1> SUFFICES ASSUME LatencyInv, [LatencyNext]_latencyvars PROVE LatencyInv'
  OBVIOUS
<1>1. ASSUME NEW l \in Latencies, latency_counter_add(l) PROVE LatencyInv'
  BY <1>1, AddCounts
<1>2. CASE latency_counter_reset
  <2>1. lc.bin_width \in Widths
    BY DEF LatencyInv, CountsAll, LatencyCounters
  <2>2. lc.bin_width >= 2 * DefaultWidth => lc.bin_width \div 2 \in Widths
    BY Zenon, <2>1, WidthsAssumption
  <2>3. PICK w \in Widths : lc' = Fresh(w)
    BY <1>2, <2>1, <2>2 DEF latency_counter_reset
  <2>4. CountsAll(lc', added')
    BY <1>2, <2>3, FreshCounts DEF latency_counter_reset
  <2> QED BY <2>4 DEF LatencyInv, CountsAll, BinsHold, Sum
<1>3. CASE UNCHANGED latencyvars
  BY <1>3 DEF latencyvars, LatencyInv, CountsAll, BinsHold, Sum
<1> QED BY <1>1, <1>2, <1>3 DEF LatencyNext

(* The latencies up to b are those in the bins below; all are in some bin. *)
LEMMA BetweenIs ==
  ASSUME LatencyInv
  PROVE  /\ \A x, y \in Int : Between(x, y) \in Nat /\ Between(x, y) <= lc.num
         /\ \A x, y, z \in Int : y <= z => Between(x, y) <= Between(x, z)
         /\ \A b \in Bins : lc.histogram[b] = Between(b * lc.bin_width, (b + 1) * lc.bin_width)
         /\ \A b \in Bins : SumFunctionOnSet(lc.histogram, 0..b) = Between(0, (b + 1) * lc.bin_width)
         /\ Between(0, NumBins * lc.bin_width) = lc.num
<1> DEFINE w == lc.bin_width
           Some(x, y) == {l \in Latencies : x < l /\ l <= y}
<1>1. /\ added \in [Latencies -> Nat] /\ Sum(added, Latencies) = lc.num
      /\ w \in Nat \ {0} /\ BinsHold(lc.histogram, added, w) /\ Latencies \subseteq Nat
      /\ NumBins \in Nat \ {0}
  BY LatencyAssumption, BinsAre DEF LatencyInv, CountsAll, LatencyCounters
<1>2. \A x, y : Between(x, y) = Sum(added, Some(x, y))
  BY Zenon DEF Between, Sum
<1>3. \A T \in SUBSET Latencies : Sum(added, T) \in Nat /\ IsFiniteSet(T) /\ CountsIn(added, T)
  BY <1>1, LatenciesAre
<1>4. \A T \in SUBSET Latencies : \A U \in SUBSET T : Sum(added, U) <= Sum(added, T)
  BY <1>3, SumSubset
<1>5. \A x, y : Some(x, y) \in SUBSET Latencies
  OBVIOUS
<1>6. ASSUME NEW x \in Int, NEW y \in Int, NEW z \in Int, y <= z
      PROVE  Some(x, y) \in SUBSET Some(x, z)
  <2> SUFFICES ASSUME NEW l \in Latencies, x < l, l <= y PROVE l <= z
    BY Zenon
  <2>1. l \in Nat
    BY <1>1
  <2> QED BY <1>6, <2>1
<1> HIDE DEF w
<1>7. \A b \in Int : InBin(b, w) = Some(b * w, (b + 1) * w)
  BY Zenon, <1>1, BinBounds DEF InBin
<1>8. ASSUME NEW n \in Nat, n <= NumBins
      PROVE  Some(0, n * w) = {l \in Latencies : BinOf(l, w) \in 0..n - 1}
  BY Zenon, <1>1, InRange
<1>9. ASSUME NEW n \in Nat, n <= NumBins
      PROVE  Sum(lc.histogram, 0..n - 1) = Sum(added, Some(0, n * w))
  <2> DEFINE B == 0..n - 1
             F == [b \in B |-> InBin(b, w)]
             U == UNION {F[b] : b \in B}
  <2>1. IsFiniteSet(B) /\ B \in SUBSET Bins
    <3>1. IsFiniteSet(B)
      BY FS_Interval
    <3> QED BY <1>1, <1>9, <3>1 DEF Bins
  <2> HIDE DEF B
  <2>2. \A b \in B : F[b] \in SUBSET Latencies /\ lc.histogram[b] = Sum(added, F[b])
    BY <1>1, <2>1 DEF BinsHold, InBin
  <2>3. \A b, c \in B : b # c => F[b] \cap F[c] = {}
    BY DEF InBin
  <2>4. U = {l \in Latencies : BinOf(l, w) \in B}
    <3>1. \A b \in B : F[b] = {l \in Latencies : BinOf(l, w) = b}
      BY DEF InBin
    <3> HIDE DEF F
    <3>2. U \subseteq {l \in Latencies : BinOf(l, w) \in B}
      BY <3>1
    <3>3. ASSUME NEW l \in Latencies, BinOf(l, w) \in B PROVE l \in U
      <4>1. l \in F[BinOf(l, w)]
        BY <3>1, <3>3
      <4> QED BY <3>3, <4>1
    <3> HIDE DEF U
    <3> QED BY Zenon, <3>2, <3>3
  <2> HIDE DEF F
  <2>5. Sum(lc.histogram, B) = Sum(added, U)
    <3>1. IsFiniteSet(Latencies) /\ CountsIn(added, Latencies)
      BY <1>3
    <3> QED BY <2>1, <2>2, <2>3, <3>1, SumBlocks
  <2> QED BY Zenon, <1>8, <1>9, <2>4, <2>5 DEF B
<1>10. Sum(added, Some(0, NumBins * w)) = lc.num
  <2> DEFINE U == Some(0, NumBins * w)
  <2>1. U = {l \in Latencies : BinOf(l, w) \in Bins}
    BY <1>1, <1>8 DEF Bins
  <2> HIDE DEF U
  <2>2. U \in SUBSET Latencies /\ \A l \in Latencies \ U : added[l] = 0
    BY <1>1, <2>1 DEF BinsHold
  <2>3. Sum(added, U) = Sum(added, Latencies)
    BY <1>3, <2>2, SumSubset
  <2> QED BY <1>1, <2>3 DEF U
<1>11. ASSUME NEW b \in Bins PROVE SumFunctionOnSet(lc.histogram, 0..b) = Between(0, (b + 1) * w)
  <2> DEFINE n == b + 1
  <2>1. n \in Nat /\ n <= NumBins /\ n - 1 = b
    BY <1>1 DEF Bins
  <2> HIDE DEF n
  <2>2. Sum(lc.histogram, 0..n - 1) = Sum(added, Some(0, n * w))
    BY <1>9, <2>1
  <2>3. Sum(lc.histogram, 0..b) = Between(0, n * w)
    BY <1>2, <2>1, <2>2
  <2> QED BY <2>3 DEF n, Sum
<1>12. ASSUME NEW b \in Bins PROVE lc.histogram[b] = Between(b * w, (b + 1) * w)
  BY <1>1, <1>2, <1>7, BinsAre DEF BinsHold
<1> HIDE DEF Some
<1>13. \A x, y \in Int : Between(x, y) \in Nat /\ Between(x, y) <= lc.num
  BY <1>1, <1>2, <1>3, <1>4, <1>5
<1>14. \A x, y, z \in Int : y <= z => Between(x, y) <= Between(x, z)
  BY <1>2, <1>4, <1>5, <1>6
<1> QED BY Zenon, <1>2, <1>10, <1>11, <1>12, <1>13, <1>14 DEF w

(* Where the sum reaches n > 0 there is a latency at which it does. *)
LEMMA ReachedAt ==
  ASSUME LatencyInv, NEW n \in Nat, n > 0, NEW y \in Nat, 100 * Between(0, y) >= n
  PROVE  \E l \in Latencies : l <= y /\ 0 < l /\ 100 * Between(0, l) >= n
<1> DEFINE T == {l \in Latencies : 0 < l /\ l <= y}
           D == {d \in Nat : \E l \in T : d = y - l}
<1>1. Latencies \subseteq Nat /\ Between(0, y) \in Nat
  BY LatencyAssumption, BetweenIs
<1>2. T # {}
  <2>1. ASSUME T = {} PROVE FALSE
    <3>1. Between(0, y) = 0
      BY <2>1, SumEmpty DEF Between, Sum
    <3> QED BY <3>1
  <2> QED BY <2>1
<1>3. D \in SUBSET Nat /\ D # {}
  <2>1. PICK l \in T : TRUE
    BY <1>2
  <2>2. l \in Nat /\ l <= y
    BY <1>1
  <2>3. y - l \in Nat
    BY <2>2
  <2>4. y - l \in D
    BY <2>3
  <2>5. D \in SUBSET Nat
    BY Zenon
  <2> QED BY Zenon, <2>4, <2>5
<1>4. PICK d \in D : \A c \in D : d <= c
  <2> HIDE DEF D
  <2> QED BY Zenon, <1>3, LeastOf
<1>5. PICK l \in T : d = y - l
  BY <1>4
<1>6. \A x \in T : x <= l
  <2> TAKE x \in T
  <2>1. x \in Nat /\ l \in Nat /\ y - x \in D
    BY <1>1
  <2> HIDE DEF D
  <2> QED BY <1>4, <1>5, <2>1
<1>7. {x \in Latencies : 0 < x /\ x <= l} = T
  <2>1. \A x \in Latencies : x \in Nat /\ l \in Nat /\ l <= y
    BY <1>1, <1>5
  <2> QED BY <1>6, <2>1
<1>8. Between(0, l) = Between(0, y)
  BY <1>7 DEF Between
<1> QED BY <1>5, <1>8

(* What the invariant says of the bins makes the percentiles right. *)
LEMMA LatencyExact == LatencyInv => HistogramIsExact
<1> SUFFICES ASSUME LatencyInv PROVE HistogramIsExact
  OBVIOUS
<1> DEFINE w == lc.bin_width
<1>1. /\ lc.num \in Nat /\ w \in Nat \ {0} /\ Latencies \subseteq Nat
      /\ NumBins \in Nat \ {0} /\ LatencyPercents \subseteq 1..99
  BY LatencyAssumption, BinsAre DEF LatencyInv, CountsAll, LatencyCounters
<1> HIDE DEF w
<1>2. /\ \A x, y \in Int : Between(x, y) \in Nat /\ Between(x, y) <= lc.num
      /\ \A x, y, z \in Int : y <= z => Between(x, y) <= Between(x, z)
      /\ \A b \in Bins : lc.histogram[b] = Between(b * w, (b + 1) * w)
      /\ \A b \in Bins : SumFunctionOnSet(lc.histogram, 0..b) = Between(0, (b + 1) * w)
      /\ Between(0, NumBins * w) = lc.num
  BY BetweenIs DEF w
<1>3. NumBins - 1 \in Bins /\ (NumBins - 1) + 1 = NumBins /\ Bins = 0..NumBins - 1
  BY <1>1 DEF Bins
<1>4. SumFunctionOnSet(lc.histogram, 0..NumBins - 1) = lc.num
  BY <1>2, <1>3
<1>5. ASSUME lc.num > 0, NEW p \in LatencyPercents
      PROVE  LET exact == Min({l \in Latencies : 100 * Between(0, l) >= p * lc.num})
                 b == PercentileBin(p)
             IN  b * w < exact /\ exact <= (b + 1) * w
  <2> DEFINE N == p * lc.num
             ES == {l \in Latencies : 100 * Between(0, l) >= N}
             BS == {c \in Bins : 100 * SumFunctionOnSet(lc.histogram, 0..c) >= N}
             exact == Min(ES)
             b == PercentileBin(p)
  <2>1. N \in Nat /\ N > 0 /\ N <= 100 * lc.num
    <3>1. p \in 1..99
      BY <1>1
    <3> QED BY <1>1, <1>5, <3>1, Z3
  <2> HIDE DEF N
  <2>2. BS \in SUBSET Nat /\ NumBins - 1 \in BS
    BY <1>1, <1>2, <1>3, <2>1
  <2>3. b \in BS /\ \A c \in BS : b <= c
    <3>1. b = Min(BS)
      BY DEF PercentileBin, N
    <3> HIDE DEF BS, b
    <3> QED BY <2>2, <3>1, MinIs
  <2> HIDE DEF b
  <2>4. /\ b \in Bins /\ b \in Nat /\ 100 * Between(0, (b + 1) * w) >= N
        /\ (b + 1) * w \in Nat /\ b * w \in Nat
    <3>1. b \in Bins /\ b \in Nat
      BY <1>3, <2>3
    <3>2. (b + 1) * w \in Nat /\ b * w \in Nat
      BY <1>1, <3>1, Z3
    <3> QED BY <1>2, <2>3, <3>1, <3>2
  <2>5. PICK l \in ES : l <= (b + 1) * w
    <3> DEFINE y == (b + 1) * w
    <3>1. y \in Nat /\ 100 * Between(0, y) >= N
      BY <2>4
    <3> HIDE DEF y
    <3>2. \E l \in Latencies : l <= y /\ 0 < l /\ 100 * Between(0, l) >= N
      BY <2>1, <3>1, ReachedAt
    <3> QED BY <3>2 DEF y
  <2>6. exact \in ES /\ \A x \in ES : exact <= x
    <3>1. ES \in SUBSET Nat /\ ES # {}
      BY Zenon, <1>1, <2>5
    <3> HIDE DEF ES
    <3> QED BY <3>1, MinIs
  <2> HIDE DEF exact
  <2>7. exact \in Nat /\ 100 * Between(0, exact) >= N
    BY <1>1, <2>6
  <2>8. exact <= (b + 1) * w
    <3>1. l \in Nat /\ exact <= l
      BY <1>1, <2>5, <2>6
    <3> QED BY <2>4, <2>5, <2>7, <3>1
  <2>9. b * w < exact
    <3> SUFFICES ASSUME exact <= b * w PROVE FALSE
      BY <2>4, <2>7
    <3>1. Between(0, exact) <= Between(0, b * w) /\ Between(0, exact) \in Nat /\ Between(0, b * w) \in Nat
      BY <1>2, <2>4, <2>7
    <3>2. 100 * Between(0, b * w) >= N
      BY <2>1, <2>7, <3>1
    <3>3. CASE b = 0
      <4>1. b * w = 0
        BY <1>1, <3>3
      <4>2. \A x \in Latencies : ~ (0 < x /\ x <= 0)
        <5>1. \A x \in Nat : ~ (0 < x /\ x <= 0)
          OBVIOUS
        <5> QED BY <1>1, <5>1
      <4>3. Between(0, 0) = 0
        <5>1. {x \in Latencies : 0 < x /\ x <= 0} = {}
          BY Zenon, <4>2
        <5> QED BY <5>1, SumEmpty DEF Between, Sum
      <4> QED BY <2>1, <3>2, <4>1, <4>3
    <3>4. CASE b # 0
      <4>1. b - 1 \in Bins /\ (b - 1) + 1 = b
        BY <1>1, <1>3, <2>4, <3>4
      <4>2. SumFunctionOnSet(lc.histogram, 0..b - 1) = Between(0, b * w)
        BY <1>2, <4>1
      <4>3. b - 1 \in BS
        BY <3>2, <4>1, <4>2
      <4> HIDE DEF BS
      <4> QED BY <2>3, <2>4, <4>3
    <3> QED BY <3>3, <3>4
  <2> QED BY <2>8, <2>9 DEF exact, N, b
<1> QED BY Zenon, <1>2, <1>3, <1>4, <1>5 DEF HistogramIsExact, w

(***************************************************************************)
(* For any number of bins, any widths that are multiples of each other and *)
(* any latencies: through all changes of the width each bin counts exactly *)
(* its latencies, and a percentile is in the bin that is interpolated.     *)
(***************************************************************************)
THEOREM HistogramCorrect == LatencySpec => []HistogramIsExact
BY LatencyInvInit, LatencyInvNext, LatencyExact, PTL DEF LatencySpec
=============================================================================
