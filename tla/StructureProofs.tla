-------------------------- MODULE StructureProofs ---------------------------
(***************************************************************************)
(* Proofs about data structures whose callers hold a lock or own them: the *)
(* differences of counters, for any widths; the sets of labels, for any    *)
(* names and values; and the heap of the read scheduler, for any items and *)
(* keys.                                                                   *)
(***************************************************************************)
EXTENDS Counter, Heap, LabelSet, WellFoundedInduction, TLAPS

(* A nonempty set of natural numbers has a least element: the induction of
   this module is by the least counterexample. *)
LEMMA LeastOf ==
  ASSUME NEW S \in SUBSET Nat, S # {}
  PROVE  \E p \in S : \A q \in S : p <= q
<1> DEFINE R == OpToRel(<, Nat)
<1>1. IsWellFoundedOn(R, Nat)
  BY NatLessThanWellFounded
<1>2. \E x \in S : \A y \in S : <<y, x>> \notin R
  <2> HIDE DEF R
  <2> QED BY Zenon, <1>1, WFMin
<1>3. \A x, y \in Nat : <<y, x>> \notin R => x <= y
  BY DEF OpToRel
<1> QED BY <1>2, <1>3

(* A value below twice the width of a machine word wraps at most once.     *)
LEMMA ModOnce ==
  ASSUME NEW w \in Nat \ {0}, NEW x \in Nat, x < 2 * w
  PROVE  x % w = IF x < w THEN x ELSE x - w
<1>1. x % w \in 0..w - 1 /\ x = w * (x \div w) + (x % w) /\ x \div w \in Int
  BY Z3
<1>2. x \div w \in {0, 1}
  BY <1>1, Z3
<1> QED BY <1>1, <1>2, Z3

-----------------------------------------------------------------------------
(***************************************************************************)
(* Counter: the difference of two values of a counter that wraps.          *)
(***************************************************************************)
CounterTypeOK ==
  /\ source \in [width : {Low, High}, value : Nat] /\ source.value < source.width
  /\ rawCounter \in (0..source.width - 1) \cup {Unknown}
  /\ counted \in 0..Low - 1

(* Where the source is, seen from the last value the cache was told *)
SourceIsAhead ==
  rawCounter # Unknown /\ ~restarted =>
    source.value = IF rawCounter + counted < source.width THEN rawCounter + counted
                   ELSE rawCounter + counted - source.width

(* The inductive invariant *)
CounterInv == CounterTypeOK /\ SourceIsAhead /\ DifferenceIsExact

(* A counter that was not read yet satisfies the invariant. *)
LEMMA CounterInvInit == CounterInit => CounterInv
BY WidthAssumption, StepsAssumption
DEF CounterInit, CounterInv, CounterTypeOK, SourceIsAhead, DifferenceIsExact

(* Counting, a restart of the source and an update keep it. *)
LEMMA CounterInvNext == CounterInv /\ [CounterNext]_countervars => CounterInv'
<1> SUFFICES ASSUME CounterInv, [CounterNext]_countervars PROVE CounterInv'
  OBVIOUS
<1> USE WidthAssumption, StepsAssumption
    DEF CounterInv, CounterTypeOK, SourceIsAhead, DifferenceIsExact
<1>1. ASSUME NEW d \in Steps, Count(d) PROVE CounterInv'
  <2> DEFINE w == source.width
             x == source.value + d
  <2>1. w \in Nat \ {0} /\ x \in Nat /\ x < 2 * w
    BY <1>1 DEF Count
  <2>2. x % w = IF x < w THEN x ELSE x - w
    <3> HIDE DEF w, x
    <3> QED BY Zenon, <2>1, ModOnce
  <2>3. source'.width = w /\ source'.value = x % w
    BY <1>1 DEF Count
  <2>4. x % w \in Nat
    BY <2>1, <2>2
  <2>5. source' \in [width : {Low, High}, value : Nat]
    BY <1>1, <2>4 DEF Count
  <2> QED BY <2>5, <1>1, <2>1, <2>2, <2>3 DEF Count
<1>2. CASE Restart
  BY <1>2 DEF Restart
<1>3. CASE UpdateCounter
  <2>1. CASE rawCounter = Unknown \/ restarted
    BY <1>3, <2>1 DEF UpdateCounter
  <2>2. CASE rawCounter # Unknown /\ ~restarted
    <3>1. counter_diff(rawCounter, source.value) = counted
      BY <2>2 DEF counter_diff
    <3> QED BY <1>3, <2>2, <3>1 DEF UpdateCounter
  <2> QED BY <2>1, <2>2
<1>4. CASE UNCHANGED countervars
  BY <1>4 DEF countervars
<1> QED BY <1>1, <1>2, <1>3, <1>4 DEF CounterNext

(***************************************************************************)
(* counter_diff is exact for both widths, however large they are, as long  *)
(* as fewer than 2^32 events lie between two values.                       *)
(***************************************************************************)
THEOREM DifferenceCorrect == CounterSpec => []DifferenceIsExact
<1>1. CounterInv => DifferenceIsExact
  BY DEF CounterInv
<1> QED BY <1>1, CounterInvInit, CounterInvNext, PTL DEF CounterSpec

-----------------------------------------------------------------------------
(***************************************************************************)
(* LabelSet: the labels stay sorted, and are the ones that were meant.     *)
(***************************************************************************)
Labels == [name : LabelNames, value : LabelValues]

(* The array is sorted, and no name is in it twice. *)
Ascending(l) == \A i, j \in 1..Len(l) : i < j => l[i].name < l[j].name

(* It holds exactly the labels of the calls; a forbidden name is in neither. *)
Holds(l, m) ==
  /\ \A i \in 1..Len(l) : l[i].name \in DOMAIN m /\ l[i].value = m[l[i].name]
  /\ \A n \in DOMAIN m : \E i \in 1..Len(l) : l[i].name = n

(* l is a sorted list of the labels m *)
Good(l, m) ==
  /\ l \in Seq(Labels)
  /\ Ascending(l) /\ Holds(l, m)
  /\ DOMAIN m \subseteq LabelNames \ BadNames

(* The inductive invariant: until a label is garbled the list is good. *)
LabelInv == Intact => Good(labels, meant)

(* label_set_read finds the label of that name, or -1 when there is none. *)
LEMMA ReadIs ==
  ASSUME NEW name, labels \in Seq(Labels), Holds(labels, meant)
  PROVE  \/ name \notin DOMAIN meant /\ label_set_read(name) = -1
         \/ /\ name \in DOMAIN meant
            /\ label_set_read(name) \in 0..Len(labels) - 1
            /\ labels[label_set_read(name) + 1].name = name
<1> DEFINE found == {i \in 0..Len(labels) - 1 : labels[i + 1].name = name}
<1>1. \A i \in 0..Len(labels) - 1 : i + 1 \in 1..Len(labels)
  OBVIOUS
<1>2. \A i \in 1..Len(labels) : i - 1 \in 0..Len(labels) - 1 /\ (i - 1) + 1 = i
  OBVIOUS
<1>3. found = {} <=> name \notin DOMAIN meant
  <2>1. ASSUME NEW i \in found PROVE name \in DOMAIN meant
    BY <1>1 DEF Holds
  <2>2. ASSUME name \in DOMAIN meant PROVE found # {}
    <3>1. PICK i \in 1..Len(labels) : labels[i].name = name
      BY <2>2 DEF Holds
    <3>2. i - 1 \in found
      BY <1>2, <3>1
    <3> QED BY Zenon, <3>2
  <2> QED BY <2>1, <2>2
<1>4. CASE found = {}
  BY <1>3, <1>4 DEF label_set_read
<1>5. CASE found # {}
  <2>1. label_set_read(name) \in found
    BY <1>5 DEF label_set_read
  <2> QED BY <1>3, <1>5, <2>1
<1> QED BY <1>4, <1>5

(* A sequence with one element to be inserted has an order. *)
Sorting(s, p) == \A i, j \in DOMAIN s : i < j => s[p[i]].name <= s[p[j]].name

(* A sorted list with one more label can be sorted. *)
LEMMA SortingExists ==
  ASSUME NEW l \in Seq(Labels), Ascending(l), NEW x \in Labels,
         \A i \in 1..Len(l) : l[i].name # x.name
  PROVE  \E p \in Bijection(DOMAIN Append(l, x), DOMAIN Append(l, x)) : Sorting(Append(l, x), p)
<1> DEFINE n == Len(l)
           s == Append(l, x)
           D == 1..n + 1
           S == {k \in 0..n : \A j \in 1..n : k < j => x.name < l[j].name}
<1>1. n \in Nat /\ s \in Seq(Labels) /\ Len(s) = n + 1 /\ DOMAIN s = D /\ s[n + 1] = x
  OBVIOUS
<1>2. \A i \in 1..n : s[i] = l[i]
  OBVIOUS
<1>3. \A i \in 1..n : l[i].name \in Int
  <2>1. \A i \in 1..n : l[i] \in Labels
    OBVIOUS
  <2>2. \A y \in Labels : y.name \in Int
    BY Zenon, LabelAssumption DEF Labels
  <2> QED BY <2>1, <2>2
<1>4. x.name \in Int
  BY Zenon, LabelAssumption DEF Labels
<1> HIDE DEF n, s
<1>5. PICK k \in S : \A q \in S : k <= q
  <2>1. S \in SUBSET Nat
    OBVIOUS
  <2>2. n \in S
    BY <1>1
  <2> HIDE DEF S
  <2> QED BY Zenon, <2>1, <2>2, LeastOf
<1>6. k \in 0..n /\ \A j \in 1..n : k < j => x.name < l[j].name
  OBVIOUS
<1>7. \A j \in 1..n : j <= k => l[j].name < x.name
  <2> SUFFICES ASSUME NEW j \in 1..n, j <= k, ~(l[j].name < x.name) PROVE FALSE
    OBVIOUS
  <2>1. x.name < l[j].name
    BY <1>3, <1>4 DEF n
  <2>2. \A i \in 1..n : j < i => l[j].name < l[i].name
    BY DEF Ascending, n
  <2>3. \A i \in 1..n : j <= i => x.name < l[i].name
    BY <1>3, <1>4, <2>1, <2>2
  <2>4. j - 1 \in S
    BY <1>1, <2>3
  <2> QED BY <1>5, <1>6, <2>4
<1> DEFINE p == [i \in D |-> IF i <= k THEN i ELSE IF i = k + 1 THEN n + 1 ELSE i - 1]
<1>8. p \in [D -> D]
  BY <1>1, <1>6
<1>9. \A i, j \in D : p[i] = p[j] => i = j
  BY <1>1, <1>6
<1>10. \A j \in D : \E i \in D : p[i] = j
  <2> TAKE j \in D
  <2>1. CASE j <= k
    BY <1>1, <1>6, <2>1
  <2>2. CASE j = n + 1
    <3>1. k + 1 \in D /\ p[k + 1] = n + 1
      BY <1>1, <1>6
    <3> QED BY <2>2, <3>1
  <2>3. CASE ~(j <= k) /\ j # n + 1
    <3>1. j + 1 \in D /\ p[j + 1] = j
      BY <1>1, <1>6, <2>3
    <3> QED BY <3>1
  <2> QED BY <2>1, <2>2, <2>3
<1>11. p \in Bijection(D, D)
  BY Zenon, <1>8, <1>9, <1>10 DEF Bijection, Injection, Surjection, IsInjective
<1>12. ASSUME NEW i \in D, NEW j \in D, i < j PROVE s[p[i]].name <= s[p[j]].name
  <2>1. /\ p[i] = IF i <= k THEN i ELSE IF i = k + 1 THEN n + 1 ELSE i - 1
        /\ p[j] = IF j <= k THEN j ELSE IF j = k + 1 THEN n + 1 ELSE j - 1
    OBVIOUS
  <2>a. \A y, z \in 1..n : y < z => l[y].name < l[z].name
    BY DEF Ascending, n
  <2>b. \A y \in 1..n : s[y].name = l[y].name /\ s[y].name \in Int
    BY <1>2, <1>3 DEF n
  <2>c. s[n + 1].name = x.name
    BY <1>1
  <2> HIDE DEF p
  <2>2. CASE j <= k
    <3>1. p[i] = i /\ p[j] = j /\ i \in 1..n /\ j \in 1..n
      BY <1>1, <1>6, <1>12, <2>1, <2>2
    <3> QED BY <1>12, <2>a, <2>b, <3>1
  <2>3. CASE j = k + 1
    <3>1. p[i] = i /\ p[j] = n + 1 /\ i \in 1..n /\ i <= k
      BY <1>1, <1>6, <1>12, <2>1, <2>3
    <3> QED BY <1>4, <1>7, <2>b, <2>c, <3>1
  <2>4. CASE j > k + 1 /\ i <= k
    <3>1. p[i] = i /\ p[j] = j - 1 /\ i \in 1..n /\ j - 1 \in 1..n /\ i < j - 1
      BY <1>1, <1>6, <1>12, <2>1, <2>4
    <3> QED BY <2>a, <2>b, <3>1
  <2>5. CASE j > k + 1 /\ i = k + 1
    <3>1. p[i] = n + 1 /\ p[j] = j - 1 /\ j - 1 \in 1..n /\ k < j - 1
      BY <1>1, <1>6, <1>12, <2>1, <2>5
    <3> QED BY SMTT(20), <1>4, <1>6, <2>b, <2>c, <3>1
  <2>6. CASE j > k + 1 /\ i > k + 1
    <3>1. p[i] = i - 1 /\ p[j] = j - 1 /\ i - 1 \in 1..n /\ j - 1 \in 1..n /\ i - 1 < j - 1
      BY <1>1, <1>6, <1>12, <2>1, <2>6
    <3> QED BY SMTT(20), <2>a, <2>b, <3>1
  <2> QED BY SMTT(30), <1>1, <1>6, <2>2, <2>3, <2>4, <2>5, <2>6
<1>13. Sorting(s, p)
  <2> HIDE DEF p
  <2> QED BY SMTT(30), <1>1, <1>12 DEF Sorting
<1> HIDE DEF p
<1> QED BY <1>1, <1>11, <1>13 DEF s

(* Sorting it gives the same labels in ascending order. *)
LEMMA qsortIs ==
  ASSUME NEW l \in Seq(Labels), Ascending(l), NEW x \in Labels,
         \A i \in 1..Len(l) : l[i].name # x.name
  PROVE  LET t == qsort(Append(l, x)) IN
         /\ t \in Seq(Labels) /\ Len(t) = Len(l) + 1
         /\ Ascending(t)
         /\ \A i \in 1..Len(t) : t[i] = x \/ \E j \in 1..Len(l) : t[i] = l[j]
         /\ \E i \in 1..Len(t) : t[i] = x
         /\ \A j \in 1..Len(l) : \E i \in 1..Len(t) : t[i] = l[j]
<1> DEFINE n == Len(l)
           s == Append(l, x)
           D == 1..n + 1
           p == CHOOSE p \in Bijection(DOMAIN s, DOMAIN s) : Sorting(s, p)
           t == qsort(s)
<1>1. n \in Nat /\ s \in Seq(Labels) /\ Len(s) = n + 1 /\ DOMAIN s = D /\ s[n + 1] = x
  OBVIOUS
<1>2. \A i \in 1..n : s[i] = l[i]
  OBVIOUS
<1>3. p \in Bijection(D, D) /\ Sorting(s, p)
  <2>1. \E q \in Bijection(DOMAIN s, DOMAIN s) : Sorting(s, q)
    BY SortingExists
  <2> HIDE DEF s
  <2> QED BY <1>1, <2>1
<1>4. t = [i \in 1..Len(s) |-> s[p[i]]]
  BY DEF qsort, Sorting
<1> HIDE DEF n, s, p, t
<1>5. /\ p \in [D -> D]
      /\ \A i, j \in D : p[i] = p[j] => i = j
      /\ \A j \in D : \E i \in D : p[i] = j
  BY <1>3 DEF Bijection, Injection, Surjection, IsInjective
<1>6. \A i \in D : s[i] \in Labels
  BY <1>1
<1>7. t \in Seq(Labels) /\ Len(t) = n + 1 /\ \A i \in D : t[i] = s[p[i]]
  <2>1. \A i \in D : s[p[i]] \in Labels
    BY <1>5, <1>6
  <2>2. t = [i \in D |-> s[p[i]]] /\ n + 1 \in Nat
    BY <1>1, <1>4
  <2>3. t \in [1..n + 1 -> Labels]
    BY <2>1, <2>2
  <2>4. t \in Seq(Labels)
    BY <2>2, <2>3
  <2> QED BY <2>2, <2>3, <2>4
<1>8. \A i \in D : s[i].name \in Int
  <2>1. \A y \in Labels : y.name \in Int
    BY Zenon, LabelAssumption DEF Labels
  <2> QED BY <1>6, <2>1
<1>9. \A i, j \in D : i # j => s[i].name # s[j].name
  <2>1. \A i, j \in 1..n : i < j => l[i].name < l[j].name
    BY DEF Ascending, n
  <2>2. \A i \in 1..n : l[i].name # x.name /\ s[i] = l[i] /\ i \in D
    BY <1>1, <1>2 DEF n
  <2>3. \A i, j \in 1..n : i # j => s[i].name # s[j].name
    BY <1>8, <2>1, <2>2
  <2>4. \A i \in D : i \in 1..n \/ i = n + 1
    BY <1>1
  <2> QED BY <1>1, <2>2, <2>3, <2>4
<1>10. Ascending(t)
  <2>1. ASSUME NEW i \in D, NEW j \in D, i < j PROVE t[i].name < t[j].name
    <3>1. s[p[i]].name <= s[p[j]].name
      BY SMTT(30), <1>1, <1>3, <2>1 DEF Sorting
    <3>2. p[i] \in D /\ p[j] \in D /\ p[i] # p[j]
      <4>1. i # j
        BY <1>1, <2>1
      <4> QED BY Zenon, <1>5, <4>1
    <3>3. s[p[i]].name # s[p[j]].name /\ s[p[i]].name \in Int /\ s[p[j]].name \in Int
      BY Zenon, <1>8, <1>9, <3>2
    <3> QED BY <1>7, <3>1, <3>3
  <2> QED BY <1>1, <1>7, <2>1 DEF Ascending
<1>11. \A i \in D : t[i] = x \/ \E j \in 1..n : t[i] = l[j]
  <2> TAKE i \in D
  <2>1. p[i] \in D /\ t[i] = s[p[i]]
    BY Zenon, <1>5, <1>7
  <2>2. p[i] = n + 1 \/ p[i] \in 1..n
    BY <1>1, <2>1
  <2> QED BY Zenon, <1>1, <1>2, <2>1, <2>2 DEF n
<1>12. \A j \in D : \E i \in D : t[i] = s[j]
  <2> TAKE j \in D
  <2>1. PICK i \in D : p[i] = j
    BY Zenon, <1>5
  <2> QED BY Zenon, <1>7, <2>1
<1>13. n + 1 \in D /\ \A j \in 1..n : j \in D
  BY <1>1
<1>14. \E i \in D : t[i] = x
  BY Zenon, <1>1, <1>12, <1>13
<1>15. \A j \in 1..n : \E i \in D : t[i] = l[j]
  BY Zenon, <1>2, <1>12, <1>13
<1> QED BY <1>7, <1>10, <1>11, <1>14, <1>15 DEF n, s, t

(* A list that is good has the labels that were meant, in order. *)
LEMMA GoodMatches == Good(labels, meant) => Matches
<1> SUFFICES ASSUME Good(labels, meant) PROVE Matches
  OBVIOUS
<1>1. \A i \in 1..Len(labels) : labels[i] \in Labels
  BY DEF Good
<1>2. ASSUME NEW i \in 1..Len(labels) PROVE labels[i] = Pair(labels[i].name, labels[i].value)
  BY <1>1 DEF Labels, Pair
<1>3. DOMAIN labels = 1..Len(labels) /\ Len(labels) \in Nat
  BY DEF Good
<1>4. \A i \in 1..Len(labels) - 1 : labels[i].name < labels[i + 1].name
  BY <1>3 DEF Good, Ascending
<1>5. \A i \in 1..Len(labels) : labels[i].name \in DOMAIN meant
                               /\ labels[i] = Pair(labels[i].name, meant[labels[i].name])
  BY <1>2 DEF Good, Holds
<1>6. \A n \in DOMAIN meant : \E i \in 1..Len(labels) : labels[i] = Pair(n, meant[n])
  BY SMTT(20), <1>2 DEF Good, Holds
<1> DEFINE A == {labels[i] : i \in DOMAIN labels}
           M == {Pair(n, meant[n]) : n \in DOMAIN meant}
<1>7. A = M
  <2>1. A \subseteq M
    <3> SUFFICES ASSUME NEW i \in DOMAIN labels PROVE labels[i] \in M
      BY Zenon
    <3>1. labels[i].name \in DOMAIN meant /\ labels[i] = Pair(labels[i].name, meant[labels[i].name])
      BY <1>3, <1>5
    <3> QED BY Zenon, <3>1
  <2>2. M \subseteq A
    BY Zenon, <1>3, <1>6
  <2> QED BY Zenon, <2>1, <2>2
<1> QED BY Zenon, <1>4, <1>7 DEF Matches

(* label_set_create adds the label at its place, unless it is there. *)
LEMMA CreateGood ==
  ASSUME Good(labels, meant), NEW name \in LabelNames, NEW value \in LabelValues \cup {NoValue}
  PROVE  Good(label_set_create(name, value),
              IF name \in DOMAIN meant \/ value = NoValue THEN meant ELSE Meaning(name, value))
<1>0. labels \in Seq(Labels) /\ Ascending(labels) /\ Holds(labels, meant)
  BY DEF Good
<1>1. CASE name \in DOMAIN meant \/ value = NoValue
  <2>1. name \in DOMAIN meant => label_set_read(name) >= 0
    BY <1>0, ReadIs
  <2> QED BY <1>1, <2>1 DEF label_set_create
<1>2. CASE name \notin DOMAIN meant /\ value # NoValue /\ name \in BadNames
  BY <1>2 DEF label_set_create, Meaning
<1>3. CASE name \notin DOMAIN meant /\ value # NoValue /\ name \notin BadNames
  <2> DEFINE x == Pair(name, value)
             t == qsort(Append(labels, x))
             m == [n \in DOMAIN meant \cup {name} |-> IF n = name THEN value ELSE meant[n]]
  <2>1. x \in Labels /\ x.name = name /\ x.value = value
    BY <1>3 DEF Labels, Pair
  <2>2. label_set_create(name, value) = t /\ Meaning(name, value) = m
    <3>1. label_set_read(name) = -1
      BY <1>0, <1>3, ReadIs
    <3> QED BY <1>3, <3>1 DEF label_set_create, Meaning
  <2>3. \A i \in 1..Len(labels) : labels[i].name \in DOMAIN meant /\ labels[i].value = meant[labels[i].name]
    BY <1>0 DEF Holds
  <2>4. \A i \in 1..Len(labels) : labels[i].name # x.name
    BY <1>3, <2>1, <2>3
  <2> HIDE DEF x
  <2>5. /\ t \in Seq(Labels) /\ Ascending(t)
        /\ \A i \in 1..Len(t) : t[i] = x \/ \E j \in 1..Len(labels) : t[i] = labels[j]
        /\ \E i \in 1..Len(t) : t[i] = x
        /\ \A j \in 1..Len(labels) : \E i \in 1..Len(t) : t[i] = labels[j]
    BY <1>0, <2>1, <2>4, qsortIs
  <2> HIDE DEF t
  <2>6. DOMAIN m = DOMAIN meant \cup {name} /\ m[name] = value
        /\ \A n \in DOMAIN meant : m[n] = meant[n]
    BY <1>3
  <2> HIDE DEF m
  <2>7. ASSUME NEW i \in 1..Len(t) PROVE t[i].name \in DOMAIN m /\ t[i].value = m[t[i].name]
    <3>1. CASE t[i] = x
      BY <2>1, <2>6, <3>1
    <3>2. CASE t[i] # x
      <4>1. PICK j \in 1..Len(labels) : t[i] = labels[j]
        BY <2>5, <3>2
      <4> QED BY <2>3, <2>6, <4>1
    <3> QED BY <3>1, <3>2
  <2>8. ASSUME NEW n \in DOMAIN m PROVE \E i \in 1..Len(t) : t[i].name = n
    <3>1. CASE n = name
      BY <2>1, <2>5, <3>1
    <3>2. CASE n # name
      <4>1. PICK j \in 1..Len(labels) : labels[j].name = n
        BY <1>0, <2>6, <3>2 DEF Holds
      <4> QED BY <2>5, <4>1
    <3> QED BY <3>1, <3>2
  <2>9. Good(t, m)
    BY <1>3, <2>5, <2>6, <2>7, <2>8 DEF Good, Holds
  <2> QED BY <1>3, <2>2, <2>9
<1> QED BY <1>1, <1>2, <1>3

(* label_set_delete removes the last label, or garbles the one it is given. *)
LEMMA DeleteGood ==
  ASSUME Good(labels, meant), NEW i \in 0..Len(labels) - 1
  PROVE  \/ Good(label_set_delete(i), Restrict(meant, DOMAIN meant \ {labels[i + 1].name}))
         \/ \E j \in DOMAIN label_set_delete(i) : label_set_delete(i)[j] = Garbled
<1> DEFINE n == Len(labels)
           s == SubSeq(labels, 1, n - 1)
           name == labels[i + 1].name
           m == Restrict(meant, DOMAIN meant \ {name})
<1>1. /\ labels \in Seq(Labels) /\ Ascending(labels) /\ Holds(labels, meant)
      /\ n \in Nat /\ n - 1 \in Nat /\ n \in 1..n
  <2>1. labels \in Seq(Labels) /\ Ascending(labels) /\ Holds(labels, meant) /\ n \in Nat
    BY DEF Good
  <2> HIDE DEF n
  <2>2. i \in 0..n - 1
    BY DEF n
  <2> QED BY <2>1, <2>2
<1>2. s \in Seq(Labels) /\ Len(s) = n - 1 /\ \A j \in 1..n - 1 : s[j] = labels[j]
  <2> DEFINE k == n - 1
  <2>1. k \in Nat /\ k <= Len(labels)
    BY <1>1
  <2>2. \A j \in 1..k : j \in 1..Len(labels) /\ labels[j] \in Labels
    BY <1>1, <2>1
  <2> HIDE DEF k
  <2>3. /\ SubSeq(labels, 1, k) \in Seq(Labels) /\ Len(SubSeq(labels, 1, k)) = k
        /\ \A j \in 1..k : SubSeq(labels, 1, k)[j] = labels[j]
    BY <1>1, <2>1, <2>2
  <2> QED BY <2>3 DEF k
<1> HIDE DEF s
<1>3. CASE i = n - 1
  <2>1. label_set_delete(i) = s /\ name = labels[n].name
    BY <1>1, <1>3 DEF label_set_delete, s
  <2>2. DOMAIN m = DOMAIN meant \ {name} /\ \A x \in DOMAIN m : m[x] = meant[x]
    BY DEF Restrict
  <2>3. \A j \in 1..n - 1 : j \in 1..n /\ j < n
    BY <1>1
  <2>4. \A j \in 1..n : labels[j].name \in Int
    <3>1. \A y \in Labels : y.name \in Int
      BY Zenon, LabelAssumption DEF Labels
    <3> QED BY <1>1, <3>1
  <2> HIDE DEF n, m, name
  <2>5. \A j \in 1..n - 1 : labels[j].name # name
    <3>1. \A j \in 1..n - 1 : labels[j].name < labels[n].name
      BY <1>1, <2>3 DEF Ascending, n
    <3> QED BY <1>1, <2>1, <2>3, <2>4, <3>1
  <2>6. Ascending(s)
    BY <1>1, <1>2, <2>3 DEF Ascending, n
  <2>7. ASSUME NEW j \in 1..n - 1 PROVE s[j].name \in DOMAIN m /\ s[j].value = m[s[j].name]
    <3>1. labels[j].name \in DOMAIN meant /\ labels[j].value = meant[labels[j].name]
      BY Zenon, <1>1, <2>3 DEF Holds, n
    <3> QED BY <1>2, <2>2, <2>5, <3>1
  <2>8. ASSUME NEW x \in DOMAIN m PROVE \E j \in 1..n - 1 : s[j].name = x
    <3>1. PICK j \in 1..n : labels[j].name = x
      BY <1>1, <2>2 DEF Holds, n
    <3>2. j # n
      BY <2>1, <2>2, <3>1
    <3>3. j \in 1..n - 1
      BY <1>1, <3>2
    <3> QED BY <1>2, <3>1, <3>3
  <2>9. DOMAIN m \subseteq LabelNames \ BadNames
    BY <2>2 DEF Good
  <2>10. Good(s, m)
    BY <1>2, <2>6, <2>7, <2>8, <2>9 DEF Good, Holds
  <2> QED BY <2>1, <2>10 DEF m, name
<1>4. CASE i # n - 1
  <2>1. i + 1 \in 1..n - 1
    BY <1>1, <1>4
  <2>2. label_set_delete(i) = [s EXCEPT ![i + 1] = Garbled]
    BY <1>4 DEF label_set_delete, s
  <2>3. DOMAIN s = 1..n - 1
    BY <1>2
  <2> QED BY Zenon, <2>1, <2>2, <2>3
<1> QED BY <1>3, <1>4

(* Replacing the value of a label changes what it means and nothing else. *)
LEMMA ChangeGood ==
  ASSUME Good(labels, meant), NEW i \in 0..Len(labels) - 1, NEW value \in LabelValues
  PROVE  LET name == labels[i + 1].name IN
         Good([labels EXCEPT ![i + 1].value = value],
              [n \in DOMAIN meant \cup {name} |-> IF n = name THEN value ELSE meant[n]])
<1> DEFINE name == labels[i + 1].name
           t == [labels EXCEPT ![i + 1].value = value]
           m == [n \in DOMAIN meant \cup {name} |-> IF n = name THEN value ELSE meant[n]]
           N == Len(labels)
<1>1. /\ labels \in Seq(Labels) /\ Ascending(labels) /\ Holds(labels, meant)
      /\ N \in Nat /\ i + 1 \in 1..N
  BY DEF Good
<1>2. name \in DOMAIN meant
  BY <1>1 DEF Holds
<1>3. DOMAIN m = DOMAIN meant /\ m[name] = value
      /\ \A n \in DOMAIN meant : n # name => m[n] = meant[n]
  BY SMTT(20), <1>2
<1>4. /\ DOMAIN t = 1..N
      /\ t[i + 1] = [labels[i + 1] EXCEPT !.value = value]
      /\ \A j \in 1..N : j # i + 1 => t[j] = labels[j]
  BY <1>1
<1>5. \A j \in 1..N : labels[j] \in Labels
  BY <1>1
<1>6. t[i + 1] \in Labels /\ t[i + 1].name = name /\ t[i + 1].value = value
  <2>1. labels[i + 1] \in Labels
    BY <1>1, <1>5
  <2> QED BY <1>4, <2>1 DEF Labels
<1>7. t \in Seq(Labels) /\ Len(t) = N
  <2>1. labels[i + 1] \in Labels /\ [labels[i + 1] EXCEPT !.value = value] \in Labels
    BY <1>1, <1>5, <1>4, <1>6
  <2> QED BY <1>1, <2>1
<1> HIDE DEF t, m, N, name
<1>8. \A j \in 1..N : t[j].name = labels[j].name
  BY Zenon, <1>4, <1>6 DEF name
<1>9. Ascending(t)
  BY <1>1, <1>7, <1>8 DEF Ascending, N
<1>10. ASSUME NEW j \in 1..N PROVE t[j].name \in DOMAIN m /\ t[j].value = m[t[j].name]
  <2>1. CASE j = i + 1
    BY <1>2, <1>3, <1>6, <2>1
  <2>2. CASE j # i + 1
    <3>1. labels[j].name # name
      <4>1. \A y \in Labels : y.name \in Int
        BY Zenon, LabelAssumption DEF Labels
      <4>2. labels[j].name \in Int /\ name \in Int
        BY <1>1, <1>5, <4>1 DEF name
      <4>3. j < i + 1 \/ i + 1 < j
        BY <1>1, <2>2
      <4>4. labels[j].name < name \/ name < labels[j].name
        BY <1>1, <4>3 DEF Ascending, N, name
      <4> QED BY <4>2, <4>4
    <3>2. labels[j].name \in DOMAIN meant /\ labels[j].value = meant[labels[j].name]
      BY <1>1 DEF Holds, N
    <3> QED BY <1>3, <1>4, <2>2, <3>1, <3>2
  <2> QED BY <2>1, <2>2
<1>11. ASSUME NEW n \in DOMAIN m PROVE \E j \in 1..N : t[j].name = n
  BY Zenon, <1>1, <1>3, <1>8 DEF Holds, N
<1>12. Good(t, m)
  BY Zenon, <1>3, <1>7, <1>9, <1>10, <1>11 DEF Good, Holds
<1> QED BY <1>12 DEF t, m, name

(* An empty label set is good. *)
LEMMA LabelInvInit == LabelInit => LabelInv
BY DEF LabelInit, LabelInv, Good, Ascending, Holds

(* label_set_add creates, changes or deletes a label as it is meant, or
   garbles one. *)
LEMMA AddGood ==
  ASSUME Good(labels, meant), NEW name \in LabelNames, NEW value \in LabelValues \cup {NoValue}
  PROVE  \/ Good(label_set_add(name, value), Meaning(name, value))
         \/ \E j \in DOMAIN label_set_add(name, value) : label_set_add(name, value)[j] = Garbled
<1> DEFINE i == label_set_read(name)
<1>0. labels \in Seq(Labels) /\ Holds(labels, meant) /\ DOMAIN meant \subseteq LabelNames \ BadNames
  BY DEF Good
<1>1. CASE name \notin DOMAIN meant
  <2>1. i = -1
    BY <1>0, <1>1, ReadIs
  <2>2. CASE value = NoValue
    <3> DEFINE m == Restrict(meant, DOMAIN meant \ {name})
    <3>1. label_set_add(name, value) = labels
      BY <2>1, <2>2 DEF label_set_add
    <3>2. DOMAIN m = DOMAIN meant /\ \A n \in DOMAIN meant : m[n] = meant[n]
      BY <1>1 DEF Restrict
    <3>3. Meaning(name, value) \in {m, meant}
      BY <2>2 DEF Meaning
    <3> HIDE DEF m
    <3>4. Good(labels, m)
      BY <3>2 DEF Good, Holds
    <3> QED BY <3>1, <3>3, <3>4
  <2>3. CASE value # NoValue
    <3>1. label_set_add(name, value) = label_set_create(name, value)
      BY <2>1, <2>3 DEF label_set_add
    <3> QED BY <1>1, <2>3, <3>1, CreateGood
  <2> QED BY <2>2, <2>3
<1>2. CASE name \in DOMAIN meant
  <2>1. i \in 0..Len(labels) - 1 /\ labels[i + 1].name = name /\ ~(i < 0)
    <3>1. i \in 0..Len(labels) - 1 /\ labels[i + 1].name = name
      BY <1>0, <1>2, ReadIs
    <3> QED BY <3>1
  <2>2. name \notin BadNames
    BY <1>0, <1>2
  <2> HIDE DEF i
  <2>3. CASE value = NoValue
    <3>1. label_set_add(name, value) = label_set_delete(i)
      BY <2>1, <2>3 DEF label_set_add, i
    <3>2. Meaning(name, value) = Restrict(meant, DOMAIN meant \ {name})
      BY <2>2, <2>3 DEF Meaning
    <3> QED BY <2>1, <3>1, <3>2, DeleteGood
  <2>4. CASE value # NoValue
    <3>1. label_set_add(name, value) = [labels EXCEPT ![i + 1].value = value]
      BY <2>1, <2>4 DEF label_set_add, i
    <3>2. Meaning(name, value) =
            [n \in DOMAIN meant \cup {name} |-> IF n = name THEN value ELSE meant[n]]
      BY <2>2, <2>4 DEF Meaning
    <3>3. value \in LabelValues
      BY <2>4
    <3>4. Good([labels EXCEPT ![i + 1].value = value],
               [n \in DOMAIN meant \cup {labels[i + 1].name} |->
                  IF n = labels[i + 1].name THEN value ELSE meant[n]])
      BY Zenon, <2>1, <3>3, ChangeGood
    <3> QED BY Zenon, <2>1, <3>1, <3>2, <3>4
  <2> QED BY <2>3, <2>4
<1> QED BY <1>1, <1>2

(* Every operation keeps the invariant. *)
LEMMA LabelInvNext == LabelInv /\ [LabelNext]_labelvars => LabelInv'
<1> SUFFICES ASSUME LabelInv, [LabelNext]_labelvars PROVE LabelInv'
  OBVIOUS
<1>1. ASSUME NEW n \in LabelNames, NEW v \in LabelValues \cup {NoValue}, AddLabel(n, v)
      PROVE  LabelInv'
  <2>1. Good(labels, meant)
    BY <1>1 DEF AddLabel, LabelInv
  <2>2. labels' = label_set_add(n, v) /\ meant' = Meaning(n, v)
    BY <1>1 DEF AddLabel
  <2>3. Good(labels', meant') \/ \E j \in DOMAIN labels' : labels'[j] = Garbled
    BY <2>1, <2>2, AddGood
  <2> QED BY <2>3 DEF LabelInv, Intact, Good, Holds, Ascending
<1>2. ASSUME NEW n \in LabelNames, NEW v \in LabelValues \cup {NoValue}, CreateLabel(n, v)
      PROVE  LabelInv'
  <2>1. Good(labels, meant)
    BY <1>2 DEF CreateLabel, LabelInv
  <2>2. Good(labels', meant')
    BY <1>2, <2>1, CreateGood DEF CreateLabel
  <2> QED BY <2>2 DEF LabelInv, Good, Holds, Ascending
<1>3. CASE label_set_reset
  BY <1>3 DEF label_set_reset, LabelInv, Good, Ascending, Holds
<1>4. CASE UNCHANGED labelvars
  BY <1>4 DEF labelvars, LabelInv, Intact, Good, Ascending, Holds
<1> QED BY SMTT(20), <1>1, <1>2, <1>3, <1>4 DEF LabelNext

(***************************************************************************)
(* For any names and values: unless label_set_delete garbles it, a label set *)
(* has exactly the labels that were meant, once each and sorted by name, so *)
(* that the binary search of label_set_read finds them.                    *)
(***************************************************************************)
THEOREM LabelsCorrect == LabelSpec => []LabelsUnlessGarbled
<1>1. LabelInv => LabelsUnlessGarbled
  BY GoodMatches DEF LabelInv, LabelsUnlessGarbled
<1> QED BY <1>1, LabelInvInit, LabelInvNext, PTL DEF LabelSpec

-----------------------------------------------------------------------------
(***************************************************************************)
(* Heap: reheap, level by level, and the refinement of the priority queue. *)
(***************************************************************************)
(***************************************************************************)
(* The order of a heap, on the keys a of its n positions.                  *)
(***************************************************************************)
KeysOf(l) == [i \in Nat |-> IF i < Len(l) THEN Key[l[i + 1]] ELSE 0]

(* Position i does not go after its children. *)
OrderAt(a, n, i) ==
  /\ 2 * i + 1 < n => a[i] <= a[2 * i + 1]
  /\ 2 * i + 2 < n => a[i] <= a[2 * i + 2]

(* Everything but position r is in order. *)
OrderBut(a, n, r) == \A i \in Nat : i # r => OrderAt(a, n, i)

(* The position x, when there is one, holds no key before v. *)
NotBefore(a, n, x, v) == x < n => v <= a[x]

(* While reheap goes up: r may be above one smaller child, and goes before
   what is below its children. *)
GoingUp(a, n, r) ==
  /\ OrderBut(a, n, r)
  /\ NotBefore(a, n, 4 * r + 3, a[r]) /\ NotBefore(a, n, 4 * r + 4, a[r])
  /\ NotBefore(a, n, 4 * r + 5, a[r]) /\ NotBefore(a, n, 4 * r + 6, a[r])
  /\ NotBefore(a, n, 2 * r + 1, a[r]) \/ NotBefore(a, n, 2 * r + 2, a[r])

(* While it goes down: what is above r goes before r's children. *)
GoingDown(a, n, r) ==
  /\ OrderBut(a, n, r)
  /\ \A p \in Nat : r \in {2 * p + 1, 2 * p + 2} =>
       NotBefore(a, n, 2 * r + 1, a[p]) /\ NotBefore(a, n, 2 * r + 2, a[p])

(* Everything is in order. *)
IsHeap(a, n) == \A i \in Nat : OrderAt(a, n, i)

(* m is the smaller child of r, and smaller than r. *)
SmallerChild(a, n, r, m) ==
  /\ m < n
  /\ m = 2 * r + 1 \/ m = 2 * r + 2
  /\ a[m] < a[r]
  /\ NotBefore(a, n, 2 * r + 1, a[m]) /\ NotBefore(a, n, 2 * r + 2, a[m])

(* b is a with r and m exchanged. *)
Swap2(a, b, r, m) ==
  /\ b[r] = a[m] /\ b[m] = a[r]
  /\ \A i \in Nat : i # r /\ i # m => b[i] = a[i]

(* One level of reheap (dir = "up"): after the swap of r with its smaller
   child, the only place that may be out of order is the parent p of r. *)
LEMMA StepUp ==
  ASSUME NEW n \in Nat, NEW a, NEW b, NEW r \in Nat, NEW m \in Nat,
         \A i \in Nat : a[i] \in Nat, 
         GoingUp(a, n, r), SmallerChild(a, n, r, m), Swap2(a, b, r, m), NEW p \in Nat,
         r = 2 * p + 1 \/ r = 2 * p + 2
  PROVE  GoingUp(b, n, p)
<1>1. p < r /\ r < m
  BY DEF SmallerChild
<1>c. OrderAt(a, n, p) /\ OrderAt(a, n, m) /\ OrderAt(a, n, 2 * p + 1 + 2 * p + 2 - r)
  BY <1>1 DEF GoingUp, OrderBut
<1>2. ASSUME NEW i \in Nat, i # p PROVE OrderAt(b, n, i)
  <2>1. CASE i = r
    BY <1>1,  <2>1 DEF OrderAt, GoingUp, SmallerChild, NotBefore, Swap2
  <2>2. CASE i = m
    BY <1>1, <2>2 DEF OrderAt, GoingUp, SmallerChild, NotBefore, Swap2
  <2>3. CASE i # r /\ i # m
    <3>1. OrderAt(a, n, i)
      BY <2>3 DEF GoingUp, OrderBut
    <3> QED BY <1>1, <1>2, <2>3, <3>1 DEF OrderAt, SmallerChild, Swap2
  <2> QED BY <2>1, <2>2, <2>3
<1>3. NotBefore(b, n, 2 * p + 1, b[p]) \/ NotBefore(b, n, 2 * p + 2, b[p])
  BY SMTT(20), <1>1, <1>c DEF OrderAt, NotBefore, SmallerChild, Swap2
<1>4. ASSUME NEW x \in {4 * p + 3, 4 * p + 4, 4 * p + 5, 4 * p + 6}
      PROVE  NotBefore(b, n, x, b[p])
  BY SMTT(20), <1>1, <1>c DEF OrderAt, NotBefore, SmallerChild, GoingUp, Swap2
<1> QED BY <1>2, <1>3, <1>4 DEF GoingUp, OrderBut

(* One level of reheap (dir = "down"): after the swap, only the child m may
   be out of order. *)
LEMMA StepDown ==
  ASSUME NEW n \in Nat, NEW a, NEW b, NEW r \in Nat, NEW m \in Nat,
         \A i \in Nat : a[i] \in Nat,
         GoingDown(a, n, r), SmallerChild(a, n, r, m), Swap2(a, b, r, m)
  PROVE  GoingDown(b, n, m)
<1>1. r < m
  BY DEF SmallerChild
<1>2. ASSUME NEW i \in Nat, i # m PROVE OrderAt(b, n, i)
  <2>1. CASE i = r
    BY <1>1, <2>1 DEF OrderAt, SmallerChild, NotBefore, Swap2
  <2>2. CASE i # r
    <3>1. OrderAt(a, n, i)
      BY <2>2 DEF GoingDown, OrderBut
    <3>2. CASE r \in {2 * i + 1, 2 * i + 2}
      <4>1. NotBefore(a, n, 2 * r + 1, a[i]) /\ NotBefore(a, n, 2 * r + 2, a[i])
        BY <3>2 DEF GoingDown
      <4> QED BY <1>1, <1>2, <2>2, <3>1, <3>2, <4>1 DEF OrderAt, SmallerChild, NotBefore, Swap2
    <3>3. CASE r \notin {2 * i + 1, 2 * i + 2}
      BY <1>1, <1>2, <2>2, <3>1, <3>3 DEF OrderAt, SmallerChild, Swap2
    <3> QED BY <3>2, <3>3
  <2> QED BY <2>1, <2>2
<1>3. ASSUME NEW p \in Nat, m \in {2 * p + 1, 2 * p + 2}
      PROVE  NotBefore(b, n, 2 * m + 1, b[p]) /\ NotBefore(b, n, 2 * m + 2, b[p])
  <2>1. p = r
    BY <1>3 DEF SmallerChild
  <2>2. OrderAt(a, n, m)
    BY <1>1 DEF GoingDown, OrderBut
  <2> QED BY <1>1, <2>1, <2>2 DEF OrderAt, NotBefore, Swap2
<1> QED BY <1>2, <1>3 DEF GoingDown, OrderBut

(* At the top, going up ends: after the swap everything is in order. *)
LEMMA TopUp ==
  ASSUME NEW n \in Nat, NEW a, NEW b, NEW m \in Nat,
         \A i \in Nat : a[i] \in Nat,
         GoingUp(a, n, 0), SmallerChild(a, n, 0, m), Swap2(a, b, 0, m)
  PROVE  IsHeap(b, n)
<1> SUFFICES ASSUME NEW i \in Nat PROVE OrderAt(b, n, i)
  BY DEF IsHeap
<1>1. CASE i = 0
  BY <1>1 DEF OrderAt, SmallerChild, NotBefore, Swap2
<1>2. CASE i # 0 /\ i = m
  BY <1>2 DEF OrderAt, SmallerChild, NotBefore, Swap2, GoingUp
<1>3. CASE i # 0 /\ i # m
  <2>1. OrderAt(a, n, i)
    BY <1>3 DEF GoingUp, OrderBut
  <2> QED BY <1>3, <2>1 DEF OrderAt, SmallerChild, Swap2
<1> QED BY <1>1, <1>2, <1>3

(* reheap returns when the children of its root are not smaller: then
   everything is in order. *)
LEMMA Settled ==
  ASSUME NEW n \in Nat, NEW a, NEW r \in Nat, OrderBut(a, n, r), OrderAt(a, n, r)
  PROVE  IsHeap(a, n)
BY DEF IsHeap, OrderBut

(* c_heap_insert appends a leaf: only its parent may be out of order. *)
LEMMA AddLeaf ==
  ASSUME NEW n \in Nat, NEW a, NEW b, NEW p \in Nat, n = 2 * p + 1 \/ n = 2 * p + 2,
         \A i \in Nat : a[i] \in Nat,
         IsHeap(a, n), \A i \in Nat : i < n => b[i] = a[i]
  PROVE  GoingUp(b, n + 1, p)
<1>1. ASSUME NEW i \in Nat, i # p PROVE OrderAt(b, n + 1, i)
  BY <1>1 DEF IsHeap, OrderAt
<1>2. OrderAt(a, n, p)
  BY DEF IsHeap
<1> QED BY <1>1, <1>2 DEF GoingUp, OrderBut, OrderAt, NotBefore

(* c_heap_get_root moves the last leaf to the top: only the top may be out
   of order. *)
LEMMA ReplaceTop ==
  ASSUME NEW n \in Nat, NEW a, NEW b, 
         IsHeap(a, n + 1), \A i \in Nat : i # 0 /\ i < n => b[i] = a[i]
  PROVE  GoingDown(b, n, 0)
<1>1. ASSUME NEW i \in Nat, i # 0 PROVE OrderAt(b, n, i)
  <2>1. OrderAt(a, n + 1, i)
    BY DEF IsHeap
  <2> QED BY <1>1, <2>1 DEF OrderAt
<1> QED BY <1>1 DEF GoingDown, OrderBut

(* In a heap nothing goes before the item at the top. *)
LEMMA TopIsFirst ==
  ASSUME NEW n \in Nat, NEW a, \A i \in Nat : a[i] \in Nat, IsHeap(a, n)
  PROVE  \A i \in Nat : i < n => a[0] <= a[i]
<1> DEFINE S == {i \in Nat : i < n /\ a[i] < a[0]}
<1>1. SUFFICES ASSUME S # {} PROVE FALSE
  OBVIOUS
<1>2. PICK p \in S : \A q \in S : p <= q
  <2>1. S \in SUBSET Nat
    OBVIOUS
  <2> HIDE DEF S
  <2> QED BY Zenon, <1>1, <2>1, LeastOf
<1>3. p # 0 /\ p \in Nat
  OBVIOUS
<1>4. PICK q \in Nat : p = 2 * q + 1 \/ p = 2 * q + 2
  <2>1. (p - 1) \div 2 \in Nat /\ (p = 2 * ((p - 1) \div 2) + 1 \/ p = 2 * ((p - 1) \div 2) + 2)
    BY <1>3
  <2> QED BY <2>1
<1>5. a[q] <= a[p] /\ q < p
  <2>1. OrderAt(a, n, q)
    BY DEF IsHeap
  <2> QED BY <2>1, <1>4, <1>3 DEF OrderAt
<1>6. q \in S
  BY <1>4, <1>5
<1> QED BY <1>2, <1>5, <1>6

-----------------------------------------------------------------------------
(* The inductive invariant: between calls the list is a heap; during one, it is
   a heap but for the position at which reheap is. *)
HeapInv ==
  /\ HeapTypeOK /\ NoDuplicates
  /\ dir = "none" => IsHeap(KeysOf(list), Len(list))
  /\ dir = "up" => \/ root < Len(list) /\ GoingUp(KeysOf(list), Len(list), root)
                   \/ root = Parent(0) /\ Len(list) = 1
  /\ dir = "down" => root < Len(list) /\ GoingDown(KeysOf(list), Len(list), root)

(* No item is in the list twice. *)
Distinct(l) == \A i, j \in 1..Len(l) : l[i] = l[j] => i = j

ItemsOf(l) == {l[i] : i \in 1..Len(l)}

(* What reheap computes as the position of a child. *)
LEMMA ChildIs ==
  ASSUME NEW l \in Seq(Items), Len(l) <= Memory, NEW i \in Nat, i < Len(l), NEW k \in 1..2
  PROVE  Child(l, i, k) = IF 2 * i + k < Len(l) THEN 2 * i + k ELSE 0
<1>1. Word \in Nat \ {0} /\ 2 * i + k \in Nat /\ 2 * i + k < Word
  BY WordAssumption
<1> DEFINE c == 2 * i + k
<1>2. c % Word = c
  <2>1. c \in Nat /\ c < Word /\ c < 2 * Word
    BY <1>1
  <2> HIDE DEF c
  <2> QED BY Zenon, <1>1, <2>1, ModOnce
<1>3. Child(l, i, k) = IF c >= Len(l) THEN 0 ELSE c
  <2> HIDE DEF c
  <2>1. Child(l, i, k) = IF c % Word >= Len(l) THEN 0 ELSE c % Word
    BY DEF Child, c
  <2> QED BY <1>2, <2>1
<1> QED BY <1>1, <1>3

(* The first insertion starts at a position without children. *)
LEMMA FirstHasNoChild ==
  ASSUME NEW l \in Seq(Items), Len(l) = 1, NEW k \in 1..2
  PROVE  Parent(0) \in Nat /\ Parent(0) > 0 /\ Child(l, Parent(0), k) = 0
<1>1. Word \in Nat /\ Word > 2 /\ Word % 2 = 0
  BY WordAssumption
<1> DEFINE h == Word \div 2
<1>2. h \in Nat /\ Word = 2 * h /\ h > 1
  BY <1>1
<1>3. (0 - 1) % Word = Word - 1
  <2>1. (-1) % Word \in 0..Word - 1 /\ -1 = Word * ((-1) \div Word) + ((-1) % Word) /\ (-1) \div Word \in Int
    BY <1>1, Z3
  <2> QED BY <2>1, <1>1, Z3
<1>4. Parent(0) = h - 1
  BY <1>2, <1>3 DEF Parent
<1>5. (2 * h - 1) % Word = Word - 1 /\ (2 * h) % Word = 0
  <2>1. Word \in Nat \ {0} /\ Word - 1 \in Nat 
    BY <1>1
  <2>2. Word % Word = 0 /\ (Word - 1) % Word = Word - 1
    <3> DEFINE x == Word - 1
    <3>1. x \in Nat /\ x < Word /\ x < 2 * Word
      BY <1>1
    <3>2. x % Word = x
      <4> HIDE DEF x
      <4> QED BY <2>1, <3>1, ModOnce
    <3> QED BY <2>1, <3>2, ModOnce
  <2> QED BY <2>2, <1>2
<1>6. 2 * (h - 1) + 1 = 2 * h - 1 /\ 2 * (h - 1) + 2 = 2 * h
  BY <1>2
<1>7. CASE k = 1
  BY SMTT(20), <1>1, <1>2, <1>4, <1>5, <1>6, <1>7 DEF Child
<1>8. CASE k = 2
  BY <1>1, <1>2, <1>4, <1>5, <1>6, <1>8 DEF Child
<1> QED BY <1>2, <1>4, <1>7, <1>8

(* The keys of a list of items are natural numbers. *)
LEMMA KeysAre ==
  ASSUME NEW l \in Seq(Items)
  PROVE  /\ \A i \in Nat : KeysOf(l)[i] \in Nat
         /\ \A i \in Nat : i < Len(l) => KeysOf(l)[i] = Key[At(l, i)] /\ At(l, i) \in Items
BY KeyAssumption DEF KeysOf, At

(* Exchanging two items of the list exchanges their keys, and keeps the set of
   items and their being different. *)
LEMMA SwapIs ==
  ASSUME NEW l \in Seq(Items), NEW r \in Nat, NEW m \in Nat, r < Len(l), m < Len(l), r # m
  PROVE  /\ Swap(l, r, m) \in Seq(Items)
         /\ Len(Swap(l, r, m)) = Len(l)
         /\ ItemsOf(Swap(l, r, m)) = ItemsOf(l)
         /\ Distinct(l) => Distinct(Swap(l, r, m))
         /\ Swap2(KeysOf(l), KeysOf(Swap(l, r, m)), r, m)
<1> DEFINE s == Swap(l, r, m)
<1>1. s \in Seq(Items) /\ Len(s) = Len(l) /\ Len(l) \in Nat
  BY DEF Swap, At
<1>2. /\ r + 1 \in 1..Len(l) /\ m + 1 \in 1..Len(l)
      /\ s[r + 1] = l[m + 1] /\ s[m + 1] = l[r + 1]
      /\ \A i \in 1..Len(l) : i # r + 1 /\ i # m + 1 => s[i] = l[i]
  BY SMTT(20) DEF Swap, At
<1> HIDE DEF s
<1>3. ItemsOf(s) = ItemsOf(l)
  <2>1. \A i \in 1..Len(l) : s[i] \in ItemsOf(l)
    BY <1>2 DEF ItemsOf
  <2>2. \A i \in 1..Len(l) : l[i] \in ItemsOf(s)
    BY <1>1, <1>2 DEF ItemsOf
  <2> QED BY Zenon, <1>1, <2>1, <2>2 DEF ItemsOf
<1>4. Distinct(l) => Distinct(s)
  BY <1>1, <1>2 DEF Distinct
<1>5. Swap2(KeysOf(l), KeysOf(s), r, m)
  <2>1. \A i \in Nat : i < Len(l) => i + 1 \in 1..Len(l)
    BY SMTT(20), <1>1
  <2> QED BY <1>1, <1>2, <2>1 DEF KeysOf, Swap2
<1> QED BY <1>1, <1>3, <1>4, <1>5 DEF s

(* The comparisons of reheap find the smaller child, or that there is none. *)
LEMMA SmallerIs ==
  ASSUME NEW l \in Seq(Items), Len(l) <= Memory, NEW r \in Nat, r < Len(l), NEW m,
         m = Smaller(l, Child(l, r, 1), Child(l, r, 2))
  PROVE  /\ (Child(l, r, 1) = 0 /\ Child(l, r, 2) = 0) \/ Compare(At(l, r), At(l, m)) <= 0
              => OrderAt(KeysOf(l), Len(l), r)
         /\ ~((Child(l, r, 1) = 0 /\ Child(l, r, 2) = 0) \/ Compare(At(l, r), At(l, m)) <= 0)
              => m \in Nat /\ SmallerChild(KeysOf(l), Len(l), r, m)
<1> DEFINE a == KeysOf(l)
           n == Len(l)
<1>1. /\ \A i \in Nat : a[i] \in Nat
      /\ \A i \in Nat : i < n => a[i] = Key[At(l, i)] 
      /\ n \in Nat
  BY KeysAre
<1>2. /\ Child(l, r, 1) = IF 2 * r + 1 < n THEN 2 * r + 1 ELSE 0
      /\ Child(l, r, 2) = IF 2 * r + 2 < n THEN 2 * r + 2 ELSE 0
  BY ChildIs
<1> HIDE DEF a, n
<1> DEFINE left == Child(l, r, 1)
           right == Child(l, r, 2)
<1>3. r < n
  BY DEF n
<1>4. CASE ~ 2 * r + 1 < n
  <2>1. left = 0 /\ right = 0
    BY <1>1, <1>2, <1>4
  <2> QED BY <1>1, <1>4, <2>1 DEF OrderAt, a, n
<1>5. CASE 2 * r + 1 < n /\ ~ 2 * r + 2 < n
  <2>1. m = 2 * r + 1 /\ left = 2 * r + 1 /\ left # 0
    BY <1>1, <1>2, <1>5 DEF Smaller
  <2>2. Compare(At(l, r), At(l, m)) = a[r] - a[m]
    BY SMTT(20), <1>1, <1>3, <1>5, <2>1 DEF Compare
  <2>3. /\ a[r] - a[m] <= 0 => OrderAt(a, n, r)
        /\ ~(a[r] - a[m] <= 0) => m \in Nat /\ SmallerChild(a, n, r, m)
    <3>1. a[r] \in Nat /\ a[m] \in Nat
      BY <1>1, <2>1
    <3>2. a[r] - a[m] <= 0 => a[r] <= a[m]
      BY <3>1
    <3>3. ~(a[r] - a[m] <= 0) => a[m] < a[r]
      BY <3>1
    <3>4. a[m] <= a[m] /\ m \in Nat
      BY <2>1, <3>1
    <3> QED BY SMTT(20), <1>5, <2>1, <3>2, <3>3, <3>4, <1>1 DEF OrderAt, SmallerChild, NotBefore
  <2> QED BY Zenon, <2>1, <2>2, <2>3 DEF a, n
<1>6. CASE 2 * r + 2 < n
  <2>1. left = 2 * r + 1 /\ left # 0 /\ right = 2 * r + 2 /\ right # 0
    BY SMTT(20), <1>1, <1>2, <1>6
  <2>2. m = IF a[2 * r + 1] - a[2 * r + 2] > 0 THEN 2 * r + 2 ELSE 2 * r + 1
    BY <1>1, <1>6, <2>1 DEF Smaller, Compare
  <2>3. Compare(At(l, r), At(l, m)) = a[r] - a[m]
    BY SMTT(20), <1>1, <1>3, <1>6, <2>2 DEF Compare
  <2>4. /\ a[r] - a[m] <= 0 => OrderAt(a, n, r)
        /\ ~(a[r] - a[m] <= 0) => m \in Nat /\ SmallerChild(a, n, r, m)
    <3>1. /\ a[r] \in Nat /\ a[2 * r + 1] \in Nat /\ a[2 * r + 2] \in Nat
          /\ 2 * r + 1 < n /\ 2 * r + 1 \in Nat /\ 2 * r + 2 \in Nat
      BY <1>1, <1>6
    <3>2. /\ m = 2 * r + 1 \/ m = 2 * r + 2
          /\ a[m] <= a[2 * r + 1] /\ a[m] <= a[2 * r + 2]
      BY <2>2, <3>1
    <3>3. a[m] \in Nat /\ m \in Nat /\ m < n
      BY SMTT(20), <1>1, <1>6, <3>1, <3>2
    <3>4. a[r] - a[m] <= 0 => a[r] <= a[2 * r + 1] /\ a[r] <= a[2 * r + 2]
      BY SMTT(20), <3>1, <3>2, <3>3
    <3>5. ~(a[r] - a[m] <= 0) => a[m] < a[r]
      BY <3>1, <3>3
    <3> QED BY <3>2, <3>3, <3>4, <3>5 DEF OrderAt, SmallerChild, NotBefore
  <2> QED BY Zenon, <2>1, <2>3, <2>4 DEF a, n
<1> QED BY <1>1, <1>4, <1>5, <1>6

-----------------------------------------------------------------------------
(* An empty heap satisfies the invariant. *)
LEMMA HeapInvInit == HeapInit => HeapInv
<1> SUFFICES ASSUME HeapInit PROVE HeapInv
  OBVIOUS
<1>1. list = <<>> /\ Len(list) = 0 /\ dir = "none" /\ HeapTypeOK
  BY WordAssumption DEF HeapInit, HeapTypeOK
<1>2. IsHeap(KeysOf(list), 0)
  BY DEF IsHeap, OrderAt
<1> QED BY <1>1, <1>2 DEF HeapInv, NoDuplicates

(* The size of the array never falls below the number of its items. *)
LEMMA ShrinkIs ==
  ASSUME NEW n \in Nat, size \in Nat, n <= size, NEW s \in Shrink(n)
  PROVE  s \in Nat /\ n <= s /\ s <= size
BY GrowAssumption DEF Shrink

(* A level of reheap keeps the invariant and the set of items. *)
LEMMA ReheapInv ==
  ASSUME HeapInv, reheap
  PROVE  HeapInv' /\ ItemsOf(list)' = ItemsOf(list)
<1> DEFINE left == Child(list, root, 1)
           right == Child(list, root, 2)
           min == Smaller(list, left, right)
           done == (left = 0 /\ right = 0) \/ Compare(At(list, root), At(list, min)) <= 0
           a == KeysOf(list)
           n == Len(list)
<1>1. /\ list \in Seq(Items) /\ size \in Nat /\ n \in Nat /\ n <= size /\ root \in Nat
      /\ Memory \in Nat /\ size <= Memory /\ n <= Memory
      /\ taken \in Items \cup {NoItem} /\ Distinct(list) /\ taken' = taken
      /\ dir \in {"up", "down"}
  BY WordAssumption DEF HeapInv, HeapTypeOK, NoDuplicates, Distinct, reheap
<1>r. ASSUME Return, Len(list') = n PROVE size' \in Nat /\ n <= size' /\ size' <= Memory
  BY SMTT(30), <1>1, <1>r, ShrinkIs DEF Return
<1>2. CASE ~ root < n
  <2>1. root = Parent(0) /\ n = 1
    BY <1>1, <1>2 DEF HeapInv
  <2>2. done
    BY <1>1, <2>1, FirstHasNoChild
  <2>3. list' = list /\ Return
    BY <2>2 DEF reheap
  <2>4. IsHeap(a, n)
    BY <2>1 DEF IsHeap, OrderAt
  <2> QED BY <1>1, <1>r, <2>3, <2>4 DEF HeapInv, HeapTypeOK, NoDuplicates, Distinct, Return, ItemsOf
<1>u. root < n => /\ dir = "up" => GoingUp(a, n, root)
                  /\ dir = "down" => GoingDown(a, n, root)
  <2>1. n = 1 => Parent(0) > 0
    BY <1>1, FirstHasNoChild
  <2>2. /\ dir = "up" => (root < n /\ GoingUp(a, n, root)) \/ (root = Parent(0) /\ n = 1)
        /\ dir = "down" => GoingDown(a, n, root)
    BY DEF HeapInv
  <2>3. root = Parent(0) /\ n = 1 => ~ root < n
    BY SMTT(20), <1>1, <2>1
  <2> QED BY Zenon, <2>2, <2>3
<1>3. CASE root < n /\ done
  <2>1. OrderAt(a, n, root)
    BY SMTT(20), <1>1, <1>3, SmallerIs
  <2>2. OrderBut(a, n, root)
    BY <1>1, <1>3, <1>u DEF GoingUp, GoingDown
  <2>3. IsHeap(a, n)
    BY SMTT(20), <1>1, <2>1, <2>2, Settled
  <2>4. list' = list /\ Return
    BY <1>3 DEF reheap
  <2> QED BY SMTT(20), <1>1, <1>r, <2>3, <2>4 DEF HeapInv, HeapTypeOK, NoDuplicates, Distinct, Return, ItemsOf
<1>4. CASE root < n /\ ~done
  <2>1. min \in Nat /\ SmallerChild(a, n, root, min)
    BY <1>1, <1>4, SmallerIs
  <2>2. /\ list' = Swap(list, root, min)
        /\ dir = "down" => Call(min)
        /\ dir = "up" /\ root = 0 => Return
        /\ dir = "up" /\ root # 0 => Call((root - 1) \div 2)
    BY <1>1, <1>4 DEF reheap
  <2> HIDE DEF min, a, n, left, right, done
  <2>3. min < n /\ root # min
    BY <1>1, <2>1 DEF SmallerChild
  <2>4. /\ list' \in Seq(Items) /\ Len(list') = n
        /\ ItemsOf(list') = ItemsOf(list) /\ Distinct(list')
        /\ Swap2(a, KeysOf(list'), root, min)
    <3>1. root < Len(list) /\ min < Len(list) /\ list \in Seq(Items) /\ min \in Nat
      BY <1>1, <1>4, <2>1, <2>3 DEF n
    <3> QED BY Zenon, <1>1, <2>2, <2>3, <3>1, SwapIs DEF a, n
  <2>5. \A i \in Nat : a[i] \in Nat
    BY <1>1, KeysAre DEF a
  <2>6. NoDuplicates' /\ ItemsOf(list)' = ItemsOf(list)
    BY Zenon, <2>4 DEF NoDuplicates, Distinct, ItemsOf
  <2>7. CASE dir = "down"
    <3>1. GoingDown(KeysOf(list'), n, min)
      BY SMTT(20), <1>1, <1>4, <1>u, <2>1, <2>4, <2>5, <2>7, StepDown
    <3> QED BY SMTT(20), <1>1, <2>1, <2>2, <2>3, <2>4, <2>6, <2>7, <3>1 DEF HeapInv, HeapTypeOK, Call
  <2>8. CASE dir = "up" /\ root = 0
    <3>1. IsHeap(KeysOf(list'), n)
      BY SMTT(20), <1>1, <1>4, <1>u, <2>1, <2>4, <2>5, <2>8, TopUp
    <3> QED BY SMTT(20), <1>1, <1>r, <2>1, <2>2, <2>3, <2>4, <2>6, <2>8, <3>1 DEF HeapInv, HeapTypeOK, Return
  <2>9. CASE dir = "up" /\ root # 0
    <3> DEFINE p == (root - 1) \div 2
    <3>1. p \in Nat /\ (root = 2 * p + 1 \/ root = 2 * p + 2) /\ p < root
      BY <1>1, <2>9
    <3>2. root' = p /\ dir' = "up" /\ size' = size
      BY SMTT(20), <2>2, <2>9 DEF Call
    <3> HIDE DEF p
    <3>3. GoingUp(KeysOf(list'), n, p)
      BY SMTT(20), <1>1, <1>4, <1>u, <2>1, <2>4, <2>5, <2>9, <3>1, StepUp
    <3>4. p < n
      BY <1>1, <1>4, <3>1
    <3> QED BY SMTT(20), <1>1, <2>1, <2>4, <2>6, <3>1, <3>2, <3>3, <3>4 DEF HeapInv, HeapTypeOK
  <2> QED BY SMTT(20), <1>1, <2>7, <2>8, <2>9
<1> QED BY SMTT(20), <1>2, <1>3, <1>4

(* c_heap_insert, up to its call of reheap, keeps the invariant. *)
LEMMA InsertInv ==
  ASSUME HeapInv, NEW x \in Items, c_heap_insert(x)
  PROVE  HeapInv' /\ x \notin ItemsOf(list) /\ ItemsOf(list)' = ItemsOf(list) \cup {x}
<1> DEFINE n == Len(list)
           l == Append(list, x)
<1>1. /\ list \in Seq(Items) /\ size \in Nat /\ n \in Nat /\ n <= size
      /\ Memory \in Nat /\ size <= Memory /\ n <= Memory
      /\ taken \in Items \cup {NoItem} /\ Distinct(list) /\ taken' = taken
      /\ dir = "none" /\ IsHeap(KeysOf(list), n)
      /\ x \notin ItemsOf(list) /\ list' = l
      /\ dir' = "up" /\ root' = Parent(n)
  BY SMTT(20), WordAssumption DEF HeapInv, HeapTypeOK, NoDuplicates, Distinct, c_heap_insert, ItemsOf
<1>2. /\ l \in Seq(Items) /\ Len(l) = n + 1 /\ l[n + 1] = x
      /\ \A i \in 1..n : l[i] = list[i]
  BY SMTT(20), <1>1
<1>4. size' \in Nat /\ n + 1 <= size' /\ size' <= Memory
  BY SMTT(20), <1>1, GrowAssumption DEF c_heap_insert
<1> HIDE DEF l, n
<1>3. Distinct(l) /\ ItemsOf(l) = ItemsOf(list) \cup {x}
  <2>1. \A i \in 1..n + 1 : i \in 1..n \/ i = n + 1
    BY <1>1
  <2>2. \A i \in 1..n : i \in 1..n + 1
    BY <1>1
  <2>3. n + 1 \in 1..n + 1
    BY <1>1
  <2>4. \A i \in 1..n : l[i] \in ItemsOf(list) /\ l[i] # x
    BY Zenon, <1>1, <1>2 DEF ItemsOf, n
  <2>5. \A i, j \in 1..n : l[i] = l[j] => i = j
    BY Zenon, <1>1, <1>2 DEF Distinct, n
  <2>6. Distinct(l)
    BY Zenon, <1>2, <2>1, <2>4, <2>5 DEF Distinct
  <2>7. ItemsOf(l) \subseteq ItemsOf(list) \cup {x}
    BY Zenon, <1>2, <2>1, <2>4 DEF ItemsOf
  <2>8. ItemsOf(list) \subseteq ItemsOf(l)
    BY Zenon, <1>2, <2>2 DEF ItemsOf, n
  <2>9. x \in ItemsOf(l)
    BY Zenon, <1>2, <2>3 DEF ItemsOf
  <2> QED BY Zenon, <2>6, <2>7, <2>8, <2>9
<1>5. NoDuplicates' /\ ItemsOf(list)' = ItemsOf(list) \cup {x}
  <2>1. NoDuplicates'
    BY <1>1, <1>3 DEF NoDuplicates, Distinct
  <2>2. ItemsOf(list)' = ItemsOf(l)
    BY <1>1 DEF ItemsOf
  <2> QED BY <1>3, <2>1, <2>2
<1>6. CASE n = 0
  <2>1. Parent(0) \in Nat
    BY SMTT(20), <1>2, <1>6, FirstHasNoChild
  <2>2. HeapTypeOK'
    BY SMTT(20), <1>1, <1>2, <1>4, <1>6, <2>1 DEF HeapTypeOK
  <2>3. root' = Parent(0) /\ Len(list') = 1
    BY <1>1, <1>2, <1>6
  <2>4. Parent(0)' = Parent(0)
    BY SMTT(20) DEF Parent
  <2> QED BY <1>1, <1>5, <2>2, <2>3, <2>4 DEF HeapInv
<1>7. CASE n # 0
  <2> DEFINE p == (n - 1) \div 2
  <2>1. p \in Nat /\ (n = 2 * p + 1 \/ n = 2 * p + 2) /\ p < n + 1
    BY <1>1, <1>7
  <2>2. Parent(n) = p
    <3> DEFINE y == n - 1
    <3>1. Word \in Nat \ {0} /\ y \in Nat /\ y < Word /\ y < 2 * Word
      BY SMTT(20), <1>1, <1>7, WordAssumption
    <3>2. y % Word = y
      <4> HIDE DEF y
      <4> QED BY SMTT(20), <3>1, ModOnce
    <3> QED BY <3>2 DEF Parent
  <2>3. \A i \in Nat : i < n => KeysOf(l)[i] = KeysOf(list)[i]
    <3> SUFFICES ASSUME NEW i \in Nat, i < n PROVE KeysOf(l)[i] = KeysOf(list)[i]
      OBVIOUS
    <3>1. i + 1 \in 1..n /\ i < Len(l) /\ i < Len(list)
      BY <1>1, <1>2 DEF n
    <3>2. l[i + 1] = list[i + 1]
      BY <1>2, <3>1
    <3> QED BY Zenon, <3>1, <3>2 DEF KeysOf
  <2>4. \A i \in Nat : KeysOf(list)[i] \in Nat
    BY <1>1, KeysAre
  <2> HIDE DEF p
  <2>5. GoingUp(KeysOf(l), n + 1, p)
    BY SMTT(20), <1>1, <2>1, <2>3, <2>4, AddLeaf
  <2> QED BY SMTT(20), <1>1, <1>2, <1>4, <1>5, <2>1, <2>2, <2>5 DEF HeapInv, HeapTypeOK
<1> QED BY SMTT(20), <1>1, <1>5, <1>6, <1>7

(* c_heap_get_root, up to its call of reheap, keeps the invariant and takes
   an item that nothing goes before. *)
LEMMA GetRootInv ==
  ASSUME HeapInv, c_heap_get_root
  PROVE  /\ HeapInv'
         /\ list[1] \in ItemsOf(list) /\ list[1] \in Items /\ taken' = list[1]
         /\ \A y \in ItemsOf(list) : Key[list[1]] <= Key[y]
         /\ ItemsOf(list)' = ItemsOf(list) \ {list[1]}
<1> DEFINE n == Len(list)
           l == [SubSeq(list, 1, n - 1) EXCEPT ![1] = list[n]]
<1>1. /\ list \in Seq(Items) /\ size \in Nat /\ n \in Nat /\ n <= size /\ n # 0
      /\ Memory \in Nat /\ size <= Memory
      /\ Distinct(list) /\ dir = "none" /\ IsHeap(KeysOf(list), n)
      /\ taken' = list[1] /\ root' = 0
  BY WordAssumption DEF HeapInv, HeapTypeOK, NoDuplicates, Distinct, c_heap_get_root
<1>2. 1 \in 1..n /\ list[1] \in Items /\ list[1] \in ItemsOf(list)
  BY <1>1 DEF ItemsOf
<1>3. \A y \in ItemsOf(list) : Key[list[1]] <= Key[y]
  <2>1. \A i \in Nat : KeysOf(list)[i] \in Nat
    BY <1>1, KeysAre
  <2>2. \A i \in Nat : i < n => KeysOf(list)[0] <= KeysOf(list)[i]
    <3> HIDE DEF n
    <3> QED BY SMTT(20), <1>1, <2>1, TopIsFirst
  <2>3. \A i \in 1..n : i - 1 \in Nat /\ i - 1 < n /\ KeysOf(list)[i - 1] = Key[list[i]]
    BY <1>1 DEF KeysOf
  <2>4. KeysOf(list)[0] = Key[list[1]]
    BY <1>2, <2>3
  <2>5. \A i \in 1..n : Key[list[1]] <= Key[list[i]]
    BY SMTT(20), <2>2, <2>3, <2>4
  <2> QED BY <2>5 DEF ItemsOf
<1>4. CASE n = 1
  <2>1. list' = <<>> /\ dir' = "none" /\ size' \in Shrink(0)
    BY <1>1, <1>4 DEF c_heap_get_root
  <2>2. size' \in Nat /\ size' <= Memory
    <3>1. 0 <= size
      BY <1>1
    <3>2. size' \in Nat /\ size' <= size
      BY SMTT(20), <1>1, <2>1, <3>1, ShrinkIs
    <3> QED BY <1>1, <3>2
  <2>3. ItemsOf(list)' = {} /\ ItemsOf(list) = {list[1]}
    BY <1>1, <1>4, <2>1 DEF ItemsOf
  <2>4. IsHeap(KeysOf(<<>>), 0)
    BY SMTT(20) DEF IsHeap, OrderAt
  <2>5. HeapInv'
    BY SMTT(20), <1>1, <1>2, <2>1, <2>2, <2>4 DEF HeapInv, HeapTypeOK, NoDuplicates
  <2> QED BY <1>1, <1>2, <1>3, <2>3, <2>5
<1>5. CASE n # 1
  <2>1. list' = l /\ dir' = "down" /\ size' = size
    BY <1>1, <1>5 DEF c_heap_get_root
  <2>2. /\ l \in Seq(Items) /\ Len(l) = n - 1 /\ l[1] = list[n]
        /\ \A i \in 2..n - 1 : l[i] = list[i]
    <3> DEFINE t == SubSeq(list, 1, n - 1)
    <3>1. /\ t \in Seq(Items) /\ Len(t) = n - 1 /\ 1 \in 1..Len(t) /\ list[n] \in Items
          /\ \A i \in 1..n - 1 : t[i] = list[i]
      <4>1. n - 1 \in Nat /\ n - 1 <= n /\ 1 <= n - 1 /\ n \in 1..n
        <5> HIDE DEF n
        <5> QED BY <1>1, <1>5
      <4>2. list[n] \in Items
        BY <1>1, <4>1
      <4> QED BY <1>1, <4>1, <4>2
    <3> HIDE DEF t
    <3>2. l = [t EXCEPT ![1] = list[n]]
      BY DEF t
    <3> QED BY <3>1, <3>2
  <2> HIDE DEF l
  <2>3. Distinct(l)
    BY SMTT(20), <1>1, <2>2 DEF Distinct
  <2>4. ItemsOf(l) = ItemsOf(list) \ {list[1]}
    <3>1. \A i \in 1..n - 1 : l[i] \in ItemsOf(list) /\ l[i] # list[1]
      BY SMTT(20), <1>1, <1>5, <2>2 DEF ItemsOf, Distinct
    <3>2. \A i \in 1..n : i # 1 => list[i] \in ItemsOf(l)
      BY <1>1, <1>5, <2>2 DEF ItemsOf
    <3>3. ItemsOf(l) \subseteq ItemsOf(list) \ {list[1]}
      BY <2>2, <3>1 DEF ItemsOf
    <3>4. ItemsOf(list) \ {list[1]} \subseteq ItemsOf(l)
      BY <3>2 DEF ItemsOf
    <3> QED BY <3>3, <3>4
  <2>5. \A i \in Nat : i # 0 /\ i < n - 1 => KeysOf(l)[i] = KeysOf(list)[i]
    <3> SUFFICES ASSUME NEW i \in Nat, i # 0, i < n - 1 PROVE KeysOf(l)[i] = KeysOf(list)[i]
      BY Zenon
    <3>1. l[i + 1] = list[i + 1] /\ i < Len(l) /\ i < Len(list)
      BY SMTT(20), <1>1, <2>2
    <3>2. KeysOf(l)[i] = Key[l[i + 1]] /\ KeysOf(list)[i] = Key[list[i + 1]]
      <4> HIDE DEF l, n
      <4> QED BY <3>1 DEF KeysOf
    <3> QED BY Zenon, <3>1, <3>2
  <2>6. GoingDown(KeysOf(l), n - 1, 0)
    <3> DEFINE m == n - 1
    <3>1. m \in Nat /\ n = m + 1
      BY <1>1
    <3> HIDE DEF m
    <3>2. IsHeap(KeysOf(list), m + 1) /\ \A i \in Nat : i # 0 /\ i < m => KeysOf(l)[i] = KeysOf(list)[i]
      BY <1>1, <2>5, <3>1 DEF m
    <3>3. GoingDown(KeysOf(l), m, 0)
      BY SMTT(20), <3>1, <3>2, ReplaceTop
    <3> QED BY <3>3 DEF m
  <2>7. HeapInv' /\ ItemsOf(list)' = ItemsOf(list) \ {list[1]}
    <3>1. 0 < n - 1 /\ n - 1 <= size
      <4> HIDE DEF n
      <4> QED BY <1>1, <1>5
    <3>2. NoDuplicates' /\ ItemsOf(list)' = ItemsOf(list) \ {list[1]}
      BY Zenon, <2>1, <2>3, <2>4 DEF NoDuplicates, Distinct, ItemsOf
    <3> QED BY <1>1, <1>2, <2>1, <2>2, <2>6, <3>1, <3>2 DEF HeapInv, HeapTypeOK
  <2> QED BY <1>1, <1>2, <1>3, <2>7
<1> QED BY <1>4, <1>5

(* Every step keeps the invariant. *)
LEMMA HeapInvNext == HeapInv /\ [HeapNext]_heapvars => HeapInv'
<1> SUFFICES ASSUME HeapInv, [HeapNext]_heapvars PROVE HeapInv'
  OBVIOUS
<1>1. ASSUME NEW x \in Items, c_heap_insert(x) PROVE HeapInv'
  BY <1>1, InsertInv
<1>2. CASE c_heap_get_root
  BY SMTT(20), <1>2, GetRootInv
<1>3. CASE GetRootEmpty
  BY <1>3 DEF GetRootEmpty, HeapInv, HeapTypeOK, NoDuplicates
<1>4. CASE reheap
  BY SMTT(20), <1>4, ReheapInv
<1>5. CASE UNCHANGED heapvars
  BY <1>5 DEF heapvars, HeapInv, HeapTypeOK, NoDuplicates
<1> QED BY <1>1, <1>2, <1>3, <1>4, <1>5 DEF HeapNext

(* Every step of the heap is a step of the priority queue or leaves it as it is. *)
LEMMA QueueStep == HeapInv /\ [HeapNext]_heapvars => [Queue!Next]_<<ItemsOf(list), taken>>
<1> SUFFICES ASSUME HeapInv, [HeapNext]_heapvars
             PROVE  [Queue!Next]_<<ItemsOf(list), taken>>
  OBVIOUS
<1>1. ASSUME NEW x \in Items, c_heap_insert(x) PROVE Queue!Next
  <2>1. Queue!Insert(x)
    BY Zenon, <1>1, InsertInv DEF Queue!Insert, c_heap_insert, ItemsOf
  <2> QED BY SMTT(20), <2>1 DEF Queue!Next
<1>2. ASSUME c_heap_get_root PROVE Queue!Next
  <2>1. PICK x \in Items : x = list[1]
    BY SMTT(20), <1>2, GetRootInv
  <2>2. Queue!GetRoot(x)
    <3>1. /\ x \in ItemsOf(list) /\ taken' = x
          /\ \A y \in ItemsOf(list) : Key[x] <= Key[y]
          /\ ItemsOf(list)' = ItemsOf(list) \ {x}
      BY Zenon, <1>2, <2>1, GetRootInv
    <3> QED BY Zenon, <3>1 DEF Queue!GetRoot, ItemsOf
  <2> QED BY <2>2 DEF Queue!Next
<1>3. ASSUME GetRootEmpty PROVE Queue!Next
  <2>1. Queue!Empty
    BY <1>3 DEF Queue!Empty, GetRootEmpty
  <2> QED BY <2>1 DEF Queue!Next
<1>4. CASE reheap
  BY <1>4, ReheapInv DEF reheap
<1>5. CASE UNCHANGED heapvars
  BY Zenon, <1>5 DEF heapvars, ItemsOf
<1> QED BY <1>1, <1>2, <1>3, <1>4, <1>5 DEF HeapNext

(***************************************************************************)
(* For any number of items and any keys, the heap that the read scheduler  *)
(* takes its next plugin from is a priority queue: between the calls of    *)
(* reheap nothing is lost or doubled, and c_heap_get_root takes an item that *)
(* no other item goes before.                                              *)
(***************************************************************************)
THEOREM HeapIsPriorityQueue == HeapSpec => ImplementsPriorityQueue
<1>1. HeapInit => Queue!Init
  BY DEF HeapInit, Queue!Init
<1>2. HeapInv => HeapTypeOK /\ NoDuplicates
  BY DEF HeapInv
<1>3. HeapInv /\ [HeapNext]_heapvars => [Queue!Next]_<<{list[i] : i \in 1..Len(list)}, taken>>
  BY Zenon, QueueStep DEF ItemsOf
<1> QED BY <1>1, <1>2, <1>3, HeapInvInit, HeapInvNext, PTL
        DEF HeapSpec, ImplementsPriorityQueue, Queue!Spec
=============================================================================
