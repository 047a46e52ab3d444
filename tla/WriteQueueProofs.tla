-------------------------- MODULE WriteQueueProofs --------------------------
(***************************************************************************)
(* Proofs about WriteQueue, for any number of dispatchers, write threads   *)
(* and families, and any limits.                                           *)
(***************************************************************************)
EXTENDS WriteQueue, FiniteSetTheorems, SequenceTheorems, TLAPS

(* Whatever the options are, plugin_init_all computes 0 <= Low <= High.    *)
LEMMA HighIsNat == High \in Nat
BY OptionsAssumption DEF High

LEMMA LowInRange == Low \in 0..High
<1>1. High \div 2 \in 0..High
  BY HighIsNat
<1> QED BY <1>1, HighIsNat, OptionsAssumption DEF Low

(* What a dispatcher is about to hand over is a family.                    *)
LEMMA CurrentIsFamily ==
  ASSUME TypeOK, NEW d \in Dispatchers, sent[d] < MaxFamilies
  PROVE  Current(d) \in Families /\ sent[d] + 1 \in 0..MaxFamilies
BY MaxFamiliesAssumption DEF TypeOK, Current, Families

-----------------------------------------------------------------------------
(***************************************************************************)
(* Types.  A dispatcher is between the drop decision and the enqueue only  *)
(* while it has families left, which the bound on sent needs, and the      *)
(* counter is exact, without which it could become negative.               *)
(***************************************************************************)
InsideHasMore == \A d \in Dispatchers : dpc[d] = "enqueue" => sent[d] < MaxFamilies

TypeInv == TypeOK /\ InsideHasMore /\ LengthIsExact

(* The first branch of write_queue_enqueue sets write_queue_length to 1    *)
(* instead of adding 1, which is right because the counter was exact.      *)
LEMMA LengthStep == TypeOK /\ LengthIsExact /\ [Next]_vars => LengthIsExact'
<1> SUFFICES ASSUME TypeOK, LengthIsExact, [Next]_vars PROVE LengthIsExact'
  OBVIOUS
<1> USE DEF LengthIsExact
<1>1. ASSUME NEW d \in Dispatchers, Enqueue(d) PROVE LengthIsExact'
  <2>1. Len(queue') = Len(queue) + 1
    BY <1>1 DEF Enqueue, TypeOK
  <2>2. queue = <<>> => Len(queue) = 0
    OBVIOUS
  <2> QED BY <1>1, <2>1, <2>2 DEF Enqueue
<1>2. ASSUME NEW w \in Writers, Dequeue(w) PROVE LengthIsExact'
  BY <1>2 DEF Dequeue, TypeOK
<1>3. CASE DiscardRest
  BY <1>3 DEF DiscardRest
<1>4. CASE UNCHANGED <<queue, length>>
  BY <1>4
<1> QED
  BY <1>1, <1>2, <1>3, <1>4
  DEF Next, DispatcherStep, WriterStep, MainStep, Terminated, CheckDrop, EnqueueFails,
      TestLoop, Dispatch, SpuriousWakeup, StartWriteThreads, StopWriteThreads, vars

LEMMA TypeInit == Init => TypeInv
BY MaxFamiliesAssumption DEF Init, TypeInv, TypeOK, InsideHasMore, LengthIsExact

LEMMA TypeStep == TypeInv /\ [Next]_vars => TypeInv'
<1> SUFFICES ASSUME TypeOK, InsideHasMore, LengthIsExact, LengthIsExact', [Next]_vars
             PROVE  TypeOK' /\ InsideHasMore'
  BY LengthStep DEF TypeInv
<1> USE MaxFamiliesAssumption DEF InsideHasMore
<1>1. ASSUME NEW d \in Dispatchers, CheckDrop(d) PROVE TypeOK' /\ InsideHasMore'
  <2>1. Current(d) \in Families /\ sent[d] + 1 \in 0..MaxFamilies
    BY <1>1, CurrentIsFamily DEF CheckDrop
  <2> QED BY Zenon, <1>1, <2>1 DEF CheckDrop, TypeOK
<1>2. ASSUME NEW d \in Dispatchers, Enqueue(d) PROVE TypeOK' /\ InsideHasMore'
  <2>1. Current(d) \in Families /\ sent[d] + 1 \in 0..MaxFamilies
    BY <1>2, CurrentIsFamily DEF Enqueue
  <2>2. wpc' \in [Writers -> {"absent", "test", "dequeue", "wait", "dispatch", "exit"}]
    BY SMTT(30), <1>2 DEF Enqueue, Signal, TypeOK
  <2> QED BY <1>2, <2>1, <2>2 DEF Enqueue, TypeOK
<1>3. ASSUME NEW d \in Dispatchers, EnqueueFails(d) PROVE TypeOK' /\ InsideHasMore'
  <2>1. Current(d) \in Families /\ sent[d] + 1 \in 0..MaxFamilies
    BY <1>3, CurrentIsFamily DEF EnqueueFails
  <2> QED BY <1>3, <2>1 DEF EnqueueFails, TypeOK
<1>4. ASSUME NEW w \in Writers, TestLoop(w) PROVE TypeOK' /\ InsideHasMore'
  BY <1>4 DEF TestLoop, TypeOK
<1>5. ASSUME NEW w \in Writers, Dequeue(w) PROVE TypeOK' /\ InsideHasMore'
  <2>1. CASE queue = <<>>
    BY <1>5, <2>1 DEF Dequeue, TypeOK
  <2>2. CASE queue # <<>>
    <3>1. queue \in Seq(Families)
      BY DEF TypeOK
    <3>2. Head(queue) \in Families /\ Tail(queue) \in Seq(Families)
      BY <2>2, <3>1, HeadTailProperties
    <3>3. queue' \in Seq(Families)
      <4>1. queue' = Tail(queue)
        BY <1>5, <2>2 DEF Dequeue
      <4> QED BY <4>1, <3>2, Zenon
    <3>4. held' \in [Writers -> SUBSET Families]
      <4>1. held' = [held EXCEPT ![w] = {Head(queue)}]
        BY <1>5, <2>2 DEF Dequeue
      <4>2. held \in [Writers -> SUBSET Families]
        BY DEF TypeOK
      <4>3. {Head(queue)} \in SUBSET Families
        BY <3>2
      <4> QED BY <4>1, <4>2, <4>3, Zenon
    <3>5. length' \in Nat
      BY <3>3, LenProperties DEF LengthIsExact
    <3> QED BY SMTT(30), <1>5, <2>2, <3>3, <3>4, <3>5 DEF Dequeue, TypeOK
  <2> QED BY <2>1, <2>2
<1>6. ASSUME NEW w \in Writers, Dispatch(w) PROVE TypeOK' /\ InsideHasMore'
  BY <1>6 DEF Dispatch, TypeOK
<1>7. ASSUME NEW w \in Writers, SpuriousWakeup(w) PROVE TypeOK' /\ InsideHasMore'
  BY <1>7 DEF SpuriousWakeup, TypeOK
<1>8. CASE StartWriteThreads
  BY <1>8 DEF StartWriteThreads, TypeOK
<1>9. CASE StopWriteThreads
  BY Zenon, <1>9 DEF StopWriteThreads, TypeOK
<1>10. CASE DiscardRest
  BY <1>10 DEF DiscardRest, TypeOK, Contents
<1>11. CASE UNCHANGED vars
  BY <1>11 DEF vars, TypeOK
<1> QED
  BY <1>1, <1>2, <1>3, <1>4, <1>5, <1>6, <1>7, <1>8, <1>9, <1>10, <1>11
  DEF Next, DispatcherStep, WriterStep, MainStep, Terminated

(* Every action of the write queue keeps every variable in its type.       *)
THEOREM TypeCorrect == Spec => []TypeOK
<1> QED BY TypeInit, TypeStep, PTL DEF Spec, TypeInv

(* write_queue_length is the number of elements of the list in every       *)
(* reachable state, so the assertion of plugin_write_dequeue holds.        *)
THEOREM LengthCorrect == Spec => []LengthIsExact
<1> QED BY TypeInit, TypeStep, PTL DEF Spec, TypeInv

-----------------------------------------------------------------------------
(***************************************************************************)
(* The bound on the queue.  QueueBounded alone is not inductive: it says   *)
(* nothing of the dispatchers that have decided to enqueue and have not    *)
(* yet done so.  The list and those dispatchers together are bounded: the  *)
(* decision is taken with at most High - 1 elements in the list, and no    *)
(* more than all the dispatchers can be waiting to add theirs.             *)
(***************************************************************************)
Deciders == {d \in Dispatchers : dpc[d] = "enqueue"}

BoundInv ==
  High # 0 => Len(queue) + Cardinality(Deciders) <= High - 1 + Cardinality(Dispatchers)

LEMMA DecidersFinite ==
  /\ IsFiniteSet(Deciders)
  /\ Cardinality(Deciders) \in Nat
  /\ Cardinality(Dispatchers) \in Nat
  /\ Cardinality(Deciders) <= Cardinality(Dispatchers)
BY DispatchersAssumption, FS_Subset, FS_CardinalityType DEF Deciders

LEMMA BoundInit == Init => BoundInv
<1> SUFFICES ASSUME Init, High # 0 PROVE BoundInv
  BY DEF BoundInv
<1>1. Deciders = {} /\ Len(queue) = 0
  BY DEF Init, Deciders
<1> QED BY <1>1, FS_EmptySet, DecidersFinite, HighIsNat DEF BoundInv

LEMMA BoundStep == TypeInv /\ BoundInv /\ [Next]_vars => BoundInv'
<1> SUFFICES ASSUME TypeOK, LengthIsExact, BoundInv, [Next]_vars, High # 0 PROVE BoundInv'
  BY DEF BoundInv, TypeInv
<1>a. High \in Nat /\ Len(queue) \in Nat
  BY HighIsNat DEF TypeOK
<1>b. Cardinality(Deciders') \in Nat /\ Cardinality(Deciders') <= Cardinality(Dispatchers)
  BY DispatchersAssumption, FS_Subset, FS_CardinalityType DEF Deciders
<1>1. ASSUME NEW d \in Dispatchers, CheckDrop(d) PROVE BoundInv'
  <2>1. CASE dpc' = dpc
    BY <1>1, <2>1 DEF CheckDrop, BoundInv, Deciders
  <2>2. CASE dpc' # dpc
    <3>1. Len(queue') < High
      BY <1>1, <2>2, <1>a, LowInRange DEF CheckDrop, Drops, LengthIsExact
    <3> QED BY <1>1, <3>1, <1>a, <1>b, DecidersFinite DEF CheckDrop, BoundInv
  <2> QED BY <2>1, <2>2
<1>2. ASSUME NEW d \in Dispatchers, Enqueue(d) PROVE BoundInv'
  <2>1. Len(queue') = Len(queue) + 1
    BY <1>2 DEF Enqueue, TypeOK
  <2>2. Deciders' = Deciders \ {d} /\ d \in Deciders
    BY <1>2 DEF Enqueue, Deciders, TypeOK
  <2>3. Cardinality(Deciders') = Cardinality(Deciders) - 1
    BY Zenon, <2>2, FS_RemoveElement, DecidersFinite
  <2> QED BY <2>1, <2>3, <1>a, DecidersFinite DEF BoundInv
<1>3. ASSUME NEW d \in Dispatchers, EnqueueFails(d) PROVE BoundInv'
  <2>1. Deciders' = Deciders \ {d} /\ d \in Deciders
    BY <1>3 DEF EnqueueFails, Deciders, TypeOK
  <2>2. Cardinality(Deciders') = Cardinality(Deciders) - 1
    BY Zenon, <2>1, FS_RemoveElement, DecidersFinite
  <2> QED BY <1>3, <2>2, <1>a, DecidersFinite DEF EnqueueFails, BoundInv
<1>4. ASSUME NEW w \in Writers, Dequeue(w) PROVE BoundInv'
  <2>1. Len(queue') <= Len(queue) /\ Len(queue') \in Nat /\ Deciders' = Deciders
    BY <1>4 DEF Dequeue, TypeOK, Deciders
  <2> QED BY <2>1, <1>a, DecidersFinite DEF BoundInv
<1>5. CASE DiscardRest
  <2>1. Len(queue') = 0 /\ Deciders' = Deciders
    BY <1>5 DEF DiscardRest, Deciders
  <2> QED BY <2>1, <1>a, DecidersFinite DEF BoundInv
<1>6. CASE UNCHANGED <<queue, dpc>>
  BY <1>6 DEF BoundInv, Deciders
<1> QED
  BY <1>1, <1>2, <1>3, <1>4, <1>5, <1>6
  DEF Next, DispatcherStep, WriterStep, MainStep, Terminated, TestLoop, Dispatch,
      SpuriousWakeup, StartWriteThreads, StopWriteThreads, vars

(* With a limit set, the list never holds more than the limit and one      *)
(* family for each further dispatcher.                                     *)
THEOREM BoundCorrect == Spec => []QueueBounded
<1>1. BoundInv /\ TypeOK => QueueBounded
  BY DecidersFinite, HighIsNat DEF BoundInv, QueueBounded, TypeOK
<1> QED
  BY <1>1, TypeInit, TypeStep, BoundInit, BoundStep, PTL DEF Spec, TypeInv
-----------------------------------------------------------------------------
(***************************************************************************)
(* Where the families are.  Sequences first: what appending and taking the *)
(* head do to the contents of the list.                                    *)
(***************************************************************************)
LEMMA ContentsAppend ==
  ASSUME NEW A, NEW s \in Seq(A), NEW f \in A
  PROVE  Contents(Append(s, f)) = Contents(s) \cup {f}
BY DEF Contents

LEMMA ContentsHeadTail ==
  ASSUME NEW A, NEW s \in Seq(A), s # <<>>
  PROVE  Contents(s) = {Head(s)} \cup Contents(Tail(s))
<1>1. Len(s) \in Nat /\ Len(s) >= 1 /\ Len(Tail(s)) = Len(s) - 1 /\ Head(s) = s[1]
  OBVIOUS
<1>2. \A i \in 1..Len(Tail(s)) : Tail(s)[i] = s[i + 1]
  OBVIOUS
<1>3. \A i \in 1..Len(s) : i = 1 \/ (i - 1 \in 1..Len(Tail(s)) /\ s[i] = Tail(s)[i - 1])
  BY <1>1, <1>2
<1>4. Contents(s) \subseteq {Head(s)} \cup Contents(Tail(s))
  BY <1>1, <1>3 DEF Contents
<1>5. {Head(s)} \cup Contents(Tail(s)) \subseteq Contents(s)
  BY <1>1, <1>2 DEF Contents
<1> QED BY <1>4, <1>5

(* The families that write threads have in hand, and the ones that are     *)
(* finished from the point of view of their dispatchers.                   *)
Taken == UNION {held[w] : w \in Writers}

Finished == {f \in Families : f[2] <= sent[f[1]]}

LEMMA FinishedGrows ==
  ASSUME TypeOK, NEW d \in Dispatchers, sent[d] < MaxFamilies,
         sent' = [sent EXCEPT ![d] = @ + 1]
  PROVE  Finished' = Finished \cup {Current(d)} /\ Current(d) \notin Finished
<1>1. Current(d) \in Families
  BY CurrentIsFamily
<1>2. \A f \in Families : f[1] \in Dispatchers /\ f[2] \in 1..MaxFamilies /\ f = <<f[1], f[2]>>
  BY DEF Families
<1>3. \A e \in Dispatchers : sent[e] \in 0..MaxFamilies
  BY DEF TypeOK
<1>4. \A f \in Families : f[2] <= sent'[f[1]] <=> f[2] <= sent[f[1]] \/ f = <<d, sent[d] + 1>>
  BY <1>2, <1>3, MaxFamiliesAssumption DEF TypeOK
<1>5. Current(d) \notin Finished
  BY <1>3, MaxFamiliesAssumption DEF Finished, Current
<1> QED BY <1>1, <1>4, <1>5 DEF Finished, Current

(***************************************************************************)
(* The inductive invariant: the places are a partition of what is finished,*)
(* the list and what has left it are in the order of each dispatcher, a    *)
(* write thread has one family in hand exactly while it dispatches, and    *)
(* there are no write threads before the start and none after the join.    *)
(***************************************************************************)
Partition ==
  /\ Contents(queue) \cup Taken \cup written \cup discarded \cup dropped \cup failed = Finished
  /\ Contents(queue) \cap (Taken \cup written \cup discarded \cup dropped \cup failed) = {}
  /\ Taken \cap (written \cup discarded \cup dropped \cup failed) = {}
  /\ written \cap (discarded \cup dropped \cup failed) = {}
  /\ discarded \cap (dropped \cup failed) = {}
  /\ dropped \cap failed = {}

Sorted ==
  \A i, j \in 1..Len(queue) :
    i < j /\ queue[i][1] = queue[j][1] => queue[i][2] < queue[j][2]

Behind ==
  \A f \in Contents(queue), g \in written \cup Taken : f[1] = g[1] => g[2] < f[2]

Hands ==
  /\ \A w \in Writers : IF wpc[w] = "dispatch" THEN \E f \in Families : held[w] = {f}
                        ELSE held[w] = {}
  /\ \A v, w \in Writers : v # w => held[v] \cap held[w] = {}

Joined ==
  /\ spc = "init" => \A w \in Writers : wpc[w] = "absent"
  /\ \A w \in Writers : w \notin started => wpc[w] = "absent"
  /\ spc = "stopped" => \A w \in started : wpc[w] = "exit"

PlaceInv == Partition /\ Sorted /\ Behind /\ Hands /\ Joined

LEMMA PlaceInit == Init => PlaceInv
<1> SUFFICES ASSUME Init PROVE PlaceInv
  OBVIOUS
<1>1. Contents(queue) = {} /\ Taken = {} /\ Len(queue) = 0
  BY DEF Init, Contents, Taken
<1>2. Finished = {}
  BY DEF Init, Finished, Families
<1>3. Partition /\ Behind
  BY <1>1, <1>2 DEF Init, Partition, Behind
<1> QED BY <1>1, <1>3 DEF Init, PlaceInv, Sorted, Hands, Joined

(* A step that only moves write threads, none of them to or from the       *)
(* dispatch of a family, leaves all places alone.                          *)
LEMMA PlacesSame ==
  ASSUME Partition, Sorted, Behind,
         UNCHANGED <<queue, sent, held, written, discarded, dropped, failed>>
  PROVE  (Partition /\ Sorted /\ Behind)'
<1>1. Contents(queue)' = Contents(queue) /\ Taken' = Taken /\ Finished' = Finished
  BY DEF Contents, Taken, Finished
<1> QED BY <1>1 DEF Partition, Sorted, Behind

(* A family that a dispatcher gives up, because it is dropped or because   *)
(* there is no memory.                                                     *)
LEMMA PlacesRefuse ==
  ASSUME TypeOK, Partition, Sorted, Behind,
         NEW d \in Dispatchers, sent[d] < MaxFamilies,
         sent' = [sent EXCEPT ![d] = @ + 1],
         UNCHANGED <<queue, held, written, discarded>>,
         \/ dropped' = dropped \cup {Current(d)} /\ failed' = failed
         \/ failed' = failed \cup {Current(d)} /\ dropped' = dropped
  PROVE  (Partition /\ Sorted /\ Behind)'
<1>1. Contents(queue)' = Contents(queue) /\ Taken' = Taken
  BY DEF Contents, Taken
<1>2. Finished' = Finished \cup {Current(d)} /\ Current(d) \notin Finished
  BY Zenon, FinishedGrows
<1>3. Partition'
  BY <1>1, <1>2 DEF Partition
<1> QED BY <1>1, <1>3 DEF Sorted, Behind

LEMMA PlacesEnqueue ==
  ASSUME TypeOK, InsideHasMore, Partition, Sorted, Behind, NEW d \in Dispatchers, Enqueue(d)
  PROVE  (Partition /\ Sorted /\ Behind)'
<1> DEFINE c == Current(d)
<1>0. sent[d] < MaxFamilies /\ sent[d] \in Nat
  BY DEF Enqueue, InsideHasMore, TypeOK
<1>1. c \in Families /\ c[1] = d /\ c[2] = sent[d] + 1
  BY <1>0, CurrentIsFamily DEF Current
<1>2. Finished' = Finished \cup {c} /\ c \notin Finished
  BY Zenon, <1>0, FinishedGrows DEF Enqueue
<1>3. queue' = Append(queue, c) /\ queue \in Seq(Families)
  BY DEF Enqueue, TypeOK
<1>4. Contents(queue)' = Contents(queue) \cup {c}
  BY <1>1, <1>3, ContentsAppend DEF Contents
<1>5. Taken' = Taken /\ UNCHANGED <<written, discarded, dropped, failed>>
  BY DEF Enqueue, Taken
<1>6. Partition'
  BY <1>2, <1>4, <1>5 DEF Partition
<1>7. \A g \in Finished : g[1] = d => g[2] < c[2]
  BY <1>0, <1>1 DEF Finished, Families
<1>8. \A i \in 1..Len(queue) : queue[i] \in Finished
  BY DEF Partition, Contents
<1>9. Sorted'
  <2>1. Len(queue') = Len(queue) + 1 /\ Len(queue) \in Nat
    BY <1>3
  <2>2. \A i \in 1..Len(queue) : queue'[i] = queue[i]
    BY <1>3
  <2>3. queue'[Len(queue) + 1] = c
    BY <1>3
  <2> SUFFICES ASSUME NEW i \in 1..Len(queue'), NEW j \in 1..Len(queue'),
                      i < j, queue'[i][1] = queue'[j][1]
               PROVE  queue'[i][2] < queue'[j][2]
    BY DEF Sorted
  <2>4. i \in 1..Len(queue)
    BY <2>1
  <2>5. CASE j \in 1..Len(queue)
    BY <2>2, <2>4, <2>5 DEF Sorted
  <2>6. CASE j = Len(queue) + 1
    BY <2>2, <2>3, <2>4, <2>6, <1>1, <1>7, <1>8
  <2> QED BY <2>1, <2>5, <2>6
<1>10. Behind'
  <2>1. written \cup Taken \subseteq Finished
    BY DEF Partition
  <2> QED BY <1>1, <1>4, <1>5, <1>7, <2>1 DEF Behind
<1> QED BY <1>6, <1>9, <1>10

(* The head of the list goes into the hands of a write thread.             *)
LEMMA PlacesTake ==
  ASSUME TypeOK, Partition, Sorted, Behind, Hands,
         NEW w \in Writers, Dequeue(w), queue # <<>>
  PROVE  /\ (Partition /\ Sorted /\ Behind)'
         /\ Taken' = Taken \cup {Head(queue)}
         /\ Head(queue) \in Families /\ Head(queue) \notin Taken
<1> DEFINE h == Head(queue)
<1>1. queue \in Seq(Families) /\ queue' = Tail(queue) /\ wpc[w] = "dequeue"
  BY DEF TypeOK, Dequeue
<1>2. /\ Len(queue) \in Nat /\ Len(queue) >= 1 /\ Len(queue') = Len(queue) - 1
      /\ h = queue[1]
      /\ \A i \in 1..Len(queue') : queue'[i] = queue[i + 1]
  BY <1>1
<1>3. Contents(queue) = {h} \cup Contents(queue)'
  BY <1>1, ContentsHeadTail DEF Contents
<1>4. \A f \in Contents(queue)' : f[1] = h[1] => h[2] < f[2]
  BY SMTT(30), <1>2 DEF Contents, Sorted
<1>5. h \in Families /\ h[2] \in Nat
  <2>1. h \in Families
    BY <1>1, HeadTailProperties
  <2> QED BY <2>1 DEF Families
<1>6. h \notin Contents(queue)'
  BY <1>4, <1>5
<1>7. held[w] = {} /\ held' = [held EXCEPT ![w] = {h}] /\ held \in [Writers -> SUBSET Families]
  BY <1>1 DEF Hands, Dequeue, TypeOK
<1>8. Taken' = Taken \cup {h}
  BY <1>7 DEF Taken
<1>9. UNCHANGED <<sent, written, discarded, dropped, failed>>
  BY DEF Dequeue
<1>10. Finished' = Finished
  BY <1>9 DEF Finished
<1>11. h \notin Taken
  BY <1>3 DEF Partition
<1>12. Partition'
  <2>1. h \notin written \cup discarded \cup dropped \cup failed
    BY <1>3 DEF Partition
  <2> QED BY <2>1, <1>3, <1>6, <1>8, <1>9, <1>10 DEF Partition
<1>13. Sorted'
  BY SMTT(30), <1>2 DEF Sorted
<1>14. Behind'
  BY <1>3, <1>4, <1>8, <1>9 DEF Behind
<1> QED BY <1>5, <1>8, <1>11, <1>12, <1>13, <1>14

(* A write thread is done with its family.                                 *)
LEMMA PlacesFinish ==
  ASSUME TypeOK, Partition, Sorted, Behind, Hands,
         NEW w \in Writers, Dispatch(w), NEW f, held[w] = {f}
  PROVE  /\ (Partition /\ Sorted /\ Behind)'
         /\ f \in Taken /\ Taken' = Taken \ {f} /\ written' = written \cup {f}
<1>1. held' = [held EXCEPT ![w] = {}] /\ held \in [Writers -> SUBSET Families]
  BY DEF Dispatch, TypeOK
<1>2. f \in Taken
  BY DEF Taken
<1>3. \A v \in Writers : v # w => f \notin held[v]
  BY DEF Hands
<1>4. Taken' = Taken \ {f}
  BY <1>1, <1>3 DEF Taken
<1>5. UNCHANGED <<queue, sent, discarded, dropped, failed>> /\ written' = written \cup {f}
  BY DEF Dispatch
<1>6. Finished' = Finished /\ Contents(queue)' = Contents(queue)
  BY <1>5 DEF Finished, Contents
<1>7. Partition'
  BY <1>2, <1>4, <1>5, <1>6 DEF Partition
<1>8. written' \cup Taken' = written \cup Taken
  BY <1>2, <1>4, <1>5
<1>9. Sorted' /\ Behind'
  BY <1>5, <1>6, <1>8 DEF Sorted, Behind
<1> QED BY <1>2, <1>4, <1>5, <1>7, <1>9

(* The rest of the list is thrown away.                                    *)
LEMMA PlacesDiscard ==
  ASSUME Partition, Sorted, Behind, DiscardRest
  PROVE  (Partition /\ Sorted /\ Behind)'
<1>1. Contents(queue)' = {} /\ Len(queue') = 0
  BY DEF DiscardRest, Contents
<1>2. Taken' = Taken /\ Finished' = Finished
  BY DEF DiscardRest, Taken, Finished
<1>3. Partition'
  BY <1>1, <1>2 DEF DiscardRest, Partition
<1> QED BY <1>1, <1>3 DEF Sorted, Behind

-----------------------------------------------------------------------------
LEMMA HandsStep ==
  TypeOK /\ Partition /\ Sorted /\ Behind /\ Hands /\ Joined /\ [Next]_vars => Hands'
<1> SUFFICES ASSUME TypeOK, Partition, Sorted, Behind, Hands, Joined, [Next]_vars PROVE Hands'
  OBVIOUS
<1>1. ASSUME held' = held,
             \A w \in Writers : wpc'[w] = "dispatch" <=> wpc[w] = "dispatch"
      PROVE  Hands'
  BY <1>1 DEF Hands
<1>2. ASSUME NEW d \in Dispatchers, CheckDrop(d) \/ EnqueueFails(d) PROVE Hands'
  BY <1>1, <1>2 DEF CheckDrop, EnqueueFails
<1>3. ASSUME NEW d \in Dispatchers, Enqueue(d) PROVE Hands'
  <2>1. held' = held /\ Signal
    BY <1>3 DEF Enqueue
  <2>2. \A w \in Writers : wpc'[w] = "dispatch" <=> wpc[w] = "dispatch"
    BY <2>1 DEF Signal, TypeOK
  <2> QED BY <1>1, <2>1, <2>2
<1>4. ASSUME NEW w \in Writers, TestLoop(w) \/ SpuriousWakeup(w) PROVE Hands'
  <2>1. \A v \in Writers : wpc'[v] = "dispatch" <=> wpc[v] = "dispatch"
    BY <1>4 DEF TestLoop, SpuriousWakeup, TypeOK
  <2> QED BY <1>1, <1>4, <2>1 DEF TestLoop, SpuriousWakeup
<1>5. ASSUME NEW w \in Writers, Dequeue(w) PROVE Hands'
  <2>1. CASE queue = <<>>
    <3>1. \A v \in Writers : wpc'[v] = "dispatch" <=> wpc[v] = "dispatch"
      BY <1>5, <2>1 DEF Dequeue, TypeOK
    <3> QED BY <1>1, <1>5, <2>1, <3>1 DEF Dequeue
  <2>2. CASE queue # <<>>
    <3>1. Head(queue) \in Families /\ Head(queue) \notin Taken
      BY <1>5, <2>2, PlacesTake
    <3>2. held' = [held EXCEPT ![w] = {Head(queue)}] /\ wpc' = [wpc EXCEPT ![w] = "dispatch"]
      BY <1>5, <2>2 DEF Dequeue
    <3>3. \A v \in Writers : Head(queue) \notin held[v]
      BY <3>1 DEF Taken
    <3> QED BY SMTT(30), <3>1, <3>2, <3>3 DEF Hands, TypeOK
  <2> QED BY <2>1, <2>2
<1>6. ASSUME NEW w \in Writers, Dispatch(w) PROVE Hands'
  BY <1>6 DEF Dispatch, Hands, TypeOK
<1>7. CASE StartWriteThreads
  <2>1. \A v \in Writers : wpc'[v] # "dispatch" /\ wpc[v] # "dispatch"
    BY <1>7 DEF StartWriteThreads, Joined
  <2> QED BY <1>1, <1>7, <2>1 DEF StartWriteThreads
<1>8. CASE StopWriteThreads
  <2>1. \A v \in Writers : wpc'[v] = "dispatch" <=> wpc[v] = "dispatch"
    BY <1>8 DEF StopWriteThreads
  <2> QED BY <1>1, <1>8, <2>1 DEF StopWriteThreads
<1>9. CASE DiscardRest \/ UNCHANGED vars
  BY <1>1, <1>9 DEF DiscardRest, vars
<1> QED
  BY <1>2, <1>3, <1>4, <1>5, <1>6, <1>7, <1>8, <1>9
  DEF Next, DispatcherStep, WriterStep, MainStep, Terminated

LEMMA JoinedStep == TypeOK /\ Joined /\ [Next]_vars => Joined'
<1> SUFFICES ASSUME TypeOK, Joined, [Next]_vars PROVE Joined'
  OBVIOUS
<1>1. ASSUME NEW d \in Dispatchers, CheckDrop(d) \/ EnqueueFails(d) PROVE Joined'
  BY <1>1 DEF CheckDrop, EnqueueFails, Joined
<1>2. ASSUME NEW d \in Dispatchers, Enqueue(d) PROVE Joined'
  <2>1. UNCHANGED <<spc, started>> /\ Signal
    BY <1>2 DEF Enqueue
  <2>2. \A w \in Writers : wpc'[w] = wpc[w] \/ wpc[w] = "wait"
    BY <2>1 DEF Signal, TypeOK
  <2> QED BY <2>1, <2>2 DEF Joined, TypeOK
<1>3. ASSUME NEW w \in Writers, WriterStep(w) \/ SpuriousWakeup(w) PROVE Joined'
  <2>1. /\ UNCHANGED <<spc, started>> /\ wpc[w] \notin {"absent", "exit"}
        /\ \A v \in Writers : v # w => wpc'[v] = wpc[v]
    BY <1>3 DEF WriterStep, TestLoop, Dequeue, Dispatch, SpuriousWakeup, TypeOK
  <2>2. w \in started /\ spc \notin {"init", "stopped"}
    BY <2>1 DEF Joined
  <2> QED BY <2>1, <2>2 DEF Joined
<1>4. CASE StartWriteThreads
  BY <1>4 DEF StartWriteThreads, Joined
<1>5. CASE StopWriteThreads
  BY <1>5 DEF StopWriteThreads, Joined
<1>6. CASE DiscardRest
  BY <1>6 DEF DiscardRest, Joined
<1>7. CASE UNCHANGED vars
  BY <1>7 DEF vars, Joined
<1> QED
  BY <1>1, <1>2, <1>3, <1>4, <1>5, <1>6, <1>7
  DEF Next, DispatcherStep, WriterStep, MainStep, Terminated

LEMMA PlaceStep == TypeInv /\ PlaceInv /\ [Next]_vars => PlaceInv'
<1> SUFFICES ASSUME TypeOK, InsideHasMore, PlaceInv, [Next]_vars
             PROVE  (Partition /\ Sorted /\ Behind)'
  BY HandsStep, JoinedStep DEF TypeInv, PlaceInv
<1>p. Partition /\ Sorted /\ Behind /\ Hands
  BY DEF PlaceInv
<1>1. ASSUME NEW d \in Dispatchers, CheckDrop(d) PROVE (Partition /\ Sorted /\ Behind)'
  <2>1. sent[d] < MaxFamilies /\ UNCHANGED <<queue, held, written, discarded, failed>>
    BY <1>1 DEF CheckDrop
  <2>2. \/ UNCHANGED <<dropped, sent>>
        \/ dropped' = dropped \cup {Current(d)} /\ sent' = [sent EXCEPT ![d] = @ + 1]
    BY <1>1 DEF CheckDrop
  <2> QED BY <1>p, <2>1, <2>2, PlacesSame, PlacesRefuse
<1>2. ASSUME NEW d \in Dispatchers, Enqueue(d) PROVE (Partition /\ Sorted /\ Behind)'
  BY <1>p, <1>2, PlacesEnqueue
<1>3. ASSUME NEW d \in Dispatchers, EnqueueFails(d) PROVE (Partition /\ Sorted /\ Behind)'
  BY Zenon, <1>p, <1>3, PlacesRefuse DEF EnqueueFails, InsideHasMore
<1>4. ASSUME NEW w \in Writers, Dequeue(w) PROVE (Partition /\ Sorted /\ Behind)'
  <2>1. CASE queue = <<>>
    BY <1>p, <1>4, <2>1, PlacesSame DEF Dequeue
  <2>2. CASE queue # <<>>
    BY <1>p, <1>4, <2>2, PlacesTake
  <2> QED BY <2>1, <2>2
<1>5. ASSUME NEW w \in Writers, Dispatch(w) PROVE (Partition /\ Sorted /\ Behind)'
  <2>1. \E f \in Families : held[w] = {f}
    BY <1>p, <1>5 DEF Hands, Dispatch
  <2> QED BY <1>p, <1>5, <2>1, PlacesFinish
<1>6. CASE DiscardRest
  BY <1>p, <1>6, PlacesDiscard
<1>7. CASE UNCHANGED <<queue, sent, held, written, discarded, dropped, failed>>
  BY <1>p, <1>7, PlacesSame
<1> QED
  BY Zenon, <1>1, <1>2, <1>3, <1>4, <1>5, <1>6, <1>7
  DEF Next, DispatcherStep, WriterStep, MainStep, Terminated, TestLoop, SpuriousWakeup,
      StartWriteThreads, StopWriteThreads, vars

LEMMA PlaceAlways == Spec => [](TypeInv /\ PlaceInv)
<1> QED BY TypeInit, TypeStep, PlaceInit, PlaceStep, PTL DEF Spec

(* The conjuncts of OnceAndInOrder, from the invariant.                    *)
LEMMA PlaceImplies == TypeOK /\ PlaceInv => OnceAndInOrder
<1> SUFFICES ASSUME TypeOK, Partition, Sorted, Behind, Hands PROVE OnceAndInOrder
  BY DEF PlaceInv
<1>1. /\ Places[1] = Contents(queue) /\ Places[2] = Taken /\ Places[3] = written
      /\ Places[4] = discarded /\ Places[5] = dropped /\ Places[6] = failed
  BY DEF Places, Taken
<1>2. \A i \in 1..6 : i = 1 \/ i = 2 \/ i = 3 \/ i = 4 \/ i = 5 \/ i = 6
  OBVIOUS
<1>3. UNION {Places[i] : i \in 1..6}
        = Places[1] \cup Places[2] \cup Places[3] \cup Places[4] \cup Places[5] \cup Places[6]
  BY <1>2
<1>4. UNION {Places[i] : i \in 1..6} = {f \in Families : f[2] <= sent[f[1]]}
  BY SMTT(30), <1>1, <1>3 DEF Partition, Finished
<1>5. \A i, j \in 1..6 : i # j => Places[i] \cap Places[j] = {}
  BY <1>1, <1>2 DEF Partition
<1>6. \A i, j \in 1..Len(queue) : i # j => queue[i] # queue[j]
  <2>1. Len(queue) \in Nat /\ \A i \in 1..Len(queue) : queue[i] \in Families
    BY DEF TypeOK
  <2>2. \A i \in 1..Len(queue) : queue[i][2] \in Nat
    BY <2>1 DEF Families
  <2>3. \A i, j \in 1..Len(queue) : i < j => queue[i] # queue[j]
    BY <2>1, <2>2 DEF Sorted
  <2> QED BY <2>1, <2>3
<1>7. \A f \in Contents(queue), g \in written \cup UNION {held[w] : w \in Writers} :
        f[1] = g[1] => g[2] < f[2]
  BY DEF Behind, Taken
<1> QED BY SMTT(30), <1>4, <1>5, <1>6, <1>7 DEF OnceAndInOrder, Hands, Sorted

(* Every dispatched family is in exactly one place, and the families of a  *)
(* dispatcher leave the list in their order, for every number of threads   *)
(* and families.                                                           *)
THEOREM OnceCorrect == Spec => []OnceAndInOrder
<1>1. TypeInv /\ PlaceInv => OnceAndInOrder
  BY PlaceImplies DEF TypeInv
<1> QED BY PlaceAlways, <1>1, PTL

-----------------------------------------------------------------------------
(***************************************************************************)
(* The threads implement LossyQueue: every step of theirs is a step of the *)
(* channel or leaves it alone.                                             *)
(***************************************************************************)
LEMMA ChannelStep ==
  TypeInv /\ PlaceInv /\ [Next]_vars => [Abstract!Next]_(Abstract!vars)
<1> SUFFICES ASSUME TypeOK, InsideHasMore, PlaceInv, [Next]_vars
             PROVE  Abstract!Next \/ UNCHANGED Abstract!vars
  BY DEF TypeInv
<1>p. Partition /\ Sorted /\ Behind /\ Hands /\ Joined
  BY DEF PlaceInv
<1>k. Abstract!Known = Finished
  BY <1>p DEF Abstract!Known, Abstract!Pending, Partition, Contents, Taken
<1>1. ASSUME NEW d \in Dispatchers, sent[d] < MaxFamilies,
             sent' = [sent EXCEPT ![d] = @ + 1],
             dropped' \cup failed' = dropped \cup failed \cup {Current(d)},
             UNCHANGED <<queue, held, written, discarded, spc>>
      PROVE  Abstract!Next
  <2>1. Current(d) \in Families /\ Current(d) \notin Finished
    BY Zenon, <1>1, CurrentIsFamily, FinishedGrows
  <2>2. Abstract!Refuse(Current(d))
    BY SMTT(30), <1>1, <1>k, <2>1 DEF Abstract!Refuse
  <2> QED BY <2>1, <2>2 DEF Abstract!Next
<1>2. ASSUME UNCHANGED <<queue, held, written, discarded, dropped, failed>>,
             spc' = "stopped" <=> spc = "stopped"
      PROVE  UNCHANGED Abstract!vars
  BY SMTT(30), <1>2 DEF Abstract!vars
<1>3. ASSUME NEW d \in Dispatchers, CheckDrop(d) PROVE Abstract!Next \/ UNCHANGED Abstract!vars
  <2>1. \/ UNCHANGED <<dropped, sent>>
        \/ dropped' = dropped \cup {Current(d)} /\ sent' = [sent EXCEPT ![d] = @ + 1]
    BY <1>3 DEF CheckDrop
  <2>2. sent[d] < MaxFamilies /\ UNCHANGED <<queue, held, written, discarded, failed, spc>>
    BY <1>3 DEF CheckDrop
  <2> QED BY <1>1, <1>2, <2>1, <2>2
<1>4. ASSUME NEW d \in Dispatchers, EnqueueFails(d) PROVE Abstract!Next
  BY Zenon, <1>1, <1>4 DEF EnqueueFails, InsideHasMore
<1>5. ASSUME NEW d \in Dispatchers, Enqueue(d) PROVE Abstract!Next
  <2>1. Current(d) \in Families /\ Current(d) \notin Finished
    BY Zenon, <1>5, CurrentIsFamily, FinishedGrows DEF Enqueue, InsideHasMore
  <2>2. Abstract!Accept(Current(d))
    BY <1>5, <1>k, <2>1 DEF Enqueue, Abstract!Accept
  <2> QED BY <2>1, <2>2 DEF Abstract!Next
<1>6. ASSUME NEW w \in Writers, Dequeue(w) PROVE Abstract!Next \/ UNCHANGED Abstract!vars
  <2>1. CASE queue = <<>>
    BY <1>2, <1>6, <2>1 DEF Dequeue
  <2>2. CASE queue # <<>>
    <3>1. Taken' = Taken \cup {Head(queue)}
      BY <1>p, <1>6, <2>2, PlacesTake
    <3>2. spc # "stopped"
      BY <1>p, <1>6 DEF Dequeue, Joined
    <3>3. /\ UNCHANGED <<written, discarded, dropped, failed, spc>>
          /\ queue' = Tail(queue)
      BY <1>6, <2>2 DEF Dequeue
    <3>4. Abstract!Take
      BY Zenon, <2>2, <3>1, <3>2, <3>3 DEF Abstract!Take, Taken
    <3> QED BY <3>4 DEF Abstract!Next
  <2> QED BY <2>1, <2>2
<1>7. ASSUME NEW w \in Writers, Dispatch(w) PROVE Abstract!Next
  <2>1. PICK f \in Families : held[w] = {f}
    BY <1>p, <1>7 DEF Hands, Dispatch
  <2>2. f \in Taken /\ Taken' = Taken \ {f} /\ written' = written \cup {f}
    BY SMTT(30), <1>p, <1>7, <2>1, PlacesFinish
  <2>3. Abstract!Finish(f)
    BY Zenon, <1>7, <2>2 DEF Dispatch, Abstract!Finish, Taken
  <2> QED BY <2>3 DEF Abstract!Next
<1>8. ASSUME DiscardRest PROVE Abstract!Next
  <2>1. Taken = {}
    BY SMTT(30), <1>p, <1>8 DEF DiscardRest, Hands, Joined, Taken
  <2>2. Abstract!Close
    BY <1>8, <2>1 DEF DiscardRest, Abstract!Close, Abstract!Pending, Contents, Taken
  <2> QED BY <2>2 DEF Abstract!Next
<1>9. ASSUME NEW w \in Writers, TestLoop(w) \/ SpuriousWakeup(w) PROVE UNCHANGED Abstract!vars
  BY <1>2, <1>9 DEF TestLoop, SpuriousWakeup
<1>10. CASE StartWriteThreads \/ StopWriteThreads \/ UNCHANGED vars
  BY SMTT(30), <1>2, <1>10 DEF StartWriteThreads, StopWriteThreads, vars
<1> QED
  BY <1>3, <1>4, <1>5, <1>6, <1>7, <1>8, <1>9, <1>10
  DEF Next, DispatcherStep, WriterStep, MainStep, Terminated

(* Dispatchers, lock, counter and write threads together behave as a lossy *)
(* FIFO channel that hands out nothing after it is closed.                 *)
THEOREM ChannelCorrect == Spec => ImplementsLossyQueue
<1>1. Init => Abstract!Init
  BY DEF Init, Abstract!Init
<1> QED BY <1>1, ChannelStep, PlaceAlways, PTL DEF Spec, ImplementsLossyQueue, Abstract!Spec
=============================================================================
