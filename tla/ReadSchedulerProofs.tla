------------------------ MODULE ReadSchedulerProofs ------------------------
(***************************************************************************)
(* Proofs about ReadScheduler, for any threads, read functions, names,     *)
(* groups and intervals, with and without -T.                              *)
(***************************************************************************)
EXTENDS ReadScheduler, TLAPS

Pcs == {"absent", "test", "get", "wait", "sleep", "decide", "call", "exit"}
Holding == {"sleep", "decide", "call"}

(***************************************************************************)
(* Ownership.  OneOwner is inductive together with the types.  What each   *)
(* action does to it is what it does to the heap and to the functions the  *)
(* threads hold.                                                           *)
(***************************************************************************)
(* A thread that gives up its function leaves the others what they hold.   *)
LEMMA HeldFacts ==
  ASSUME TypeOK
  PROVE  /\ Held \subseteq Funcs
         /\ \A t \in Threads : rf[t] # NoFunc => rf[t] \in Held
         /\ \A r \in Held : \E t \in Threads : rf[t] = r
BY DEF TypeOK, Held


LEMMA OwnerInit == Init => OneOwner
<1> SUFFICES ASSUME Init PROVE OneOwner
  OBVIOUS
<1>1. Held = {}
  BY DEF Init, Held
<1>2. \A t \in Threads : tpc[t] \in {"absent", "test"} /\ rf[t] = NoFunc
  BY DEF Init
<1> QED BY <1>1, <1>2 DEF Init, OneOwner

(* A step that leaves the heap, the threads' functions and the sets of     *)
(* created, freed and lost functions alone keeps OneOwner, if no thread    *)
(* moves between holding and not holding.                                  *)
LEMMA OwnerUnchanged ==
  ASSUME OneOwner, UNCHANGED <<heap, rf, created, freed, lost>>,
         \A t \in Threads : tpc'[t] \in Holding <=> tpc[t] \in Holding
  PROVE  OneOwner'
<1>1. Held' = Held
  BY DEF Held
<1> QED BY <1>1 DEF OneOwner, Holding

(* A thread that lets go of its function.                                  *)
LEMMA HeldAfterRelease ==
  ASSUME TypeOK, OneOwner, NEW t \in Threads, rf[t] # NoFunc,
         rf' = [rf EXCEPT ![t] = NoFunc]
  PROVE  /\ rf[t] \in Funcs /\ rf[t] \in Held
         /\ Held' = Held \ {rf[t]}
<1>1. rf[t] \in Held /\ rf[t] \in Funcs
  BY DEF Held, TypeOK
<1>2. ASSUME NEW r \in Held' PROVE r \in Held \ {rf[t]}
  <2>1. PICK u \in Threads : rf'[u] = r /\ r # NoFunc
    BY <1>2 DEF Held
  <2>2. u # t /\ rf[u] = r
    BY <2>1 DEF TypeOK
  <2> QED BY <2>1, <2>2 DEF Held, OneOwner
<1>3. ASSUME NEW r \in Held \ {rf[t]} PROVE r \in Held'
  <2>1. PICK u \in Threads : rf[u] = r /\ r # NoFunc
    BY <1>3 DEF Held
  <2>2. u # t /\ rf'[u] = r
    BY <1>3, <2>1 DEF TypeOK
  <2> QED BY <2>1, <2>2 DEF Held
<1> QED BY <1>1, <1>2, <1>3

LEMMA OwnerStep == TypeOK /\ OneOwner /\ [Next]_vars => OneOwner'
<1> SUFFICES ASSUME TypeOK, OneOwner, [Next]_vars PROVE OneOwner'
  OBVIOUS
<1>1. ASSUME NEW r \in Funcs, InsertRead(r) PROVE OneOwner'
  <2>1. Held' = Held /\ r \notin heap \cup Held \cup freed \cup lost
    BY <1>1 DEF InsertRead, Held, OneOwner
  <2>2. \A t \in Threads : tpc'[t] \in Holding <=> tpc[t] \in Holding
    BY <1>1 DEF InsertRead, Broadcast, TypeOK, Holding
  <2> QED BY <1>1, <2>1, <2>2 DEF InsertRead, OneOwner, Holding
<1>2. ASSUME NEW S, MarkRemoved(S) PROVE OneOwner'
  BY <1>2, OwnerUnchanged DEF MarkRemoved
<1>3. ASSUME NEW t \in Threads, TestLoop(t) \/ SpuriousWakeup(t) PROVE OneOwner'
  BY <1>3, OwnerUnchanged DEF TestLoop, SpuriousWakeup, funcVars, Holding, TypeOK
<1>4. ASSUME NEW t \in Threads, EndSleep(t) \/ StartCallback(t) PROVE OneOwner'
  BY <1>4, OwnerUnchanged DEF EndSleep, StartCallback, funcVars, Holding, TypeOK
<1>5. ASSUME NEW t \in Threads, GetRoot(t) PROVE OneOwner'
  <2>1. CASE heap = {} /\ UNCHANGED <<heap, rf>> /\ tpc' = [tpc EXCEPT ![t] = "wait"]
    BY <1>5, <2>1, OwnerUnchanged DEF GetRoot, Holding, TypeOK
  <2>2. ASSUME NEW r \in heap, heap' = heap \ {r}, rf' = [rf EXCEPT ![t] = r],
               tpc' = [tpc EXCEPT ![t] = "sleep"]
        PROVE  OneOwner'
    <3>1. rf[t] = NoFunc /\ r \in Funcs /\ r # NoFunc /\ r \notin Held
      BY <1>5, FuncsAssumption DEF GetRoot, OneOwner, TypeOK
    <3>2. Held' = Held \cup {r}
      <4>1. ASSUME NEW s \in Held' PROVE s \in Held \cup {r}
        BY <2>2, <4>1 DEF Held, TypeOK
      <4>2. ASSUME NEW s \in Held PROVE s \in Held'
        <5>1. PICK u \in Threads : rf[u] = s /\ s # NoFunc
          BY <4>2 DEF Held
        <5> QED BY <5>1, <2>2, <3>1 DEF Held, TypeOK
      <4>3. r \in Held'
        BY <2>2, <3>1 DEF Held, TypeOK
      <4> QED BY <4>1, <4>2, <4>3
    <3>3. \A u, v \in Threads : u # v /\ rf'[u] # NoFunc => rf'[u] # rf'[v]
      BY <2>2, <3>1 DEF OneOwner, Held, TypeOK
    <3>4. \A u \in Threads : rf'[u] # NoFunc <=> tpc'[u] \in {"sleep", "decide", "call"}
      BY <2>2, <3>1 DEF OneOwner, TypeOK
    <3> QED BY <1>5, <2>2, <3>1, <3>2, <3>3, <3>4 DEF GetRoot, OneOwner
  <2> QED BY <1>5, <2>1, <2>2 DEF GetRoot
<1>6. ASSUME NEW t \in Threads, StopThread(t) \/ CallbackReturns(t) PROVE OneOwner'
  <2>1. rf[t] # NoFunc /\ rf' = [rf EXCEPT ![t] = NoFunc] /\ UNCHANGED <<created, freed>>
    BY <1>6 DEF StopThread, CallbackReturns, OneOwner
  <2>2. rf[t] \in Held /\ Held' = Held \ {rf[t]}
    BY Zenon, <2>1, HeldAfterRelease
  <2>3. \/ heap' = heap \cup {rf[t]} /\ UNCHANGED lost
        \/ lost' = lost \cup {rf[t]} /\ UNCHANGED heap
    BY <1>6 DEF StopThread, CallbackReturns, HeapInsert
  <2>4. tpc'[t] \notin Holding /\ \A u \in Threads : u # t => tpc'[u] = tpc[u]
    BY <1>6 DEF StopThread, CallbackReturns, TypeOK, Holding
  <2>5. \A u \in Threads : rf'[u] = IF u = t THEN NoFunc ELSE rf[u]
    BY <2>1 DEF TypeOK
  <2> QED BY <2>1, <2>2, <2>3, <2>4, <2>5 DEF OneOwner, Holding
<1>7. ASSUME NEW t \in Threads, FreeRemoved(t) PROVE OneOwner'
  <2>1. rf[t] # NoFunc /\ rf' = [rf EXCEPT ![t] = NoFunc]
    BY <1>7 DEF FreeRemoved, OneOwner
  <2>2. rf[t] \in Held /\ Held' = Held \ {rf[t]}
    BY Zenon, <2>1, HeldAfterRelease
  <2>3. freed' = freed \cup {rf[t]} /\ UNCHANGED <<heap, created, lost>>
    BY <1>7 DEF FreeRemoved
  <2>4. tpc'[t] \notin Holding /\ \A u \in Threads : u # t => tpc'[u] = tpc[u]
    BY <1>7 DEF FreeRemoved, TypeOK, Holding
  <2>5. \A u \in Threads : rf'[u] = IF u = t THEN NoFunc ELSE rf[u]
    BY <2>1 DEF TypeOK
  <2> QED BY <2>2, <2>3, <2>4, <2>5 DEF OneOwner, Holding
<1>8. CASE StopReadThreads
  BY <1>8, OwnerUnchanged DEF StopReadThreads, Broadcast, funcVars, Holding, TypeOK
<1>9. CASE DestroyList \/ ReadOnceEnds \/ Tick
  BY <1>9, OwnerUnchanged DEF DestroyList, ReadOnceEnds, Tick, threadVars, funcVars
<1>10. CASE DestroyReadHeap
  <2>1. Held' = Held
    BY <1>10 DEF DestroyReadHeap, threadVars, Held
  <2> QED BY <1>10, <2>1 DEF DestroyReadHeap, threadVars, OneOwner
<1>11. CASE ReadOnce
  <2>1. Held' = Held
    BY <1>11 DEF ReadOnce, threadVars, Held
  <2> QED BY <1>11, <2>1 DEF ReadOnce, threadVars, OneOwner
<1>12. CASE UNCHANGED vars
  BY <1>12, OwnerUnchanged DEF vars
<1> QED
  BY Zenon, <1>1, <1>2, <1>3, <1>4, <1>5, <1>6, <1>7, <1>8, <1>9, <1>10, <1>11, <1>12
  DEF Next, ThreadStep, UnregisterRead, UnregisterReadGroup

-----------------------------------------------------------------------------
(***************************************************************************)
(* Types.  rf_next_read of a function that is being called is not in the   *)
(* future, which bounds the next one.                                      *)
(***************************************************************************)
CalledIsDue ==
  \A t \in Threads :
    /\ tpc[t] = "decide" /\ readLoop => due[rf[t]] <= 0
    /\ tpc[t] = "call" => due[rf[t]] <= 0

TypeInv == TypeOK /\ OneOwner /\ CalledIsDue

LEMMA TypeInit == Init => TypeInv
<1> SUFFICES ASSUME Init PROVE TypeInv
  OBVIOUS
<1>1. eff \in [Funcs -> 1..Late]
  BY IntervalAssumption DEF Init
<1>2. tpc \in [Threads -> {"absent", "test"}]
  BY DEF Init
<1> QED
  BY <1>1, <1>2, OwnerInit, FuncsAssumption, IntervalAssumption, MayFailAssumption
  DEF Init, TypeInv, TypeOK, CalledIsDue

LEMMA NewIntervalType ==
  ASSUME TypeOK, NEW r \in Funcs, NEW ok \in BOOLEAN
  PROVE  NewInterval(r, ok) \in 1..Late
<1>1. Interval[r] \in 1..Late /\ MaxReadInterval \in 1..Late /\ eff[r] \in 1..Late /\ Late \in Nat
  BY IntervalAssumption DEF TypeOK
<1> QED BY <1>1 DEF NewInterval, Least

LEMMA TypeStep == TypeInv /\ [Next]_vars => TypeInv'
<1> SUFFICES ASSUME TypeOK, OneOwner, CalledIsDue, [Next]_vars
             PROVE  TypeOK' /\ CalledIsDue'
  BY OwnerStep DEF TypeInv
<1>h. \A t \in Threads : tpc[t] \in Holding => rf[t] \in Funcs
  BY DEF OneOwner, TypeOK, Holding
<1>i. Late \in Nat /\ \A r \in Funcs : Interval[r] \in 1..Late
  BY IntervalAssumption
<1> USE <1>h DEF CalledIsDue, Holding
<1>1. ASSUME NEW r \in Funcs, InsertRead(r) PROVE TypeOK' /\ CalledIsDue'
  BY <1>1, <1>i DEF InsertRead, Broadcast, TypeOK
<1>2. ASSUME NEW S, S \subseteq Funcs, MarkRemoved(S) PROVE TypeOK' /\ CalledIsDue'
  BY <1>2 DEF MarkRemoved, TypeOK
<1>3. ASSUME NEW t \in Threads, TestLoop(t) PROVE TypeOK' /\ CalledIsDue'
  BY <1>3 DEF TestLoop, funcVars, TypeOK
<1>4. ASSUME NEW t \in Threads, GetRoot(t) PROVE TypeOK' /\ CalledIsDue'
  BY <1>4 DEF GetRoot, TypeOK
<1>5. ASSUME NEW t \in Threads, SpuriousWakeup(t) PROVE TypeOK' /\ CalledIsDue'
  BY <1>5 DEF SpuriousWakeup, funcVars, TypeOK
<1>6. ASSUME NEW t \in Threads, EndSleep(t) PROVE TypeOK' /\ CalledIsDue'
  BY <1>6 DEF EndSleep, funcVars, TypeOK
<1>7. ASSUME NEW t \in Threads, StopThread(t) PROVE TypeOK' /\ CalledIsDue'
  BY <1>7 DEF StopThread, HeapInsert, TypeOK
<1>8. ASSUME NEW t \in Threads, FreeRemoved(t) PROVE TypeOK' /\ CalledIsDue'
  BY <1>8, <1>i DEF FreeRemoved, TypeOK
<1>9. ASSUME NEW t \in Threads, StartCallback(t) PROVE TypeOK' /\ CalledIsDue'
  <2>1. lateCalls' \in [Funcs -> 0..2]
    BY <1>9 DEF StartCallback, CountCall, Least, TypeOK
  <2> QED BY <1>9, <2>1 DEF StartCallback, TypeOK
<1>10. ASSUME NEW t \in Threads, CallbackReturns(t) PROVE TypeOK' /\ CalledIsDue'
  <2>1. PICK ok \in BOOLEAN :
          /\ eff' = [eff EXCEPT ![rf[t]] = NewInterval(rf[t], ok)]
          /\ due' = [due EXCEPT ![rf[t]] = Most(@ + NewInterval(rf[t], ok), 0)]
          /\ HeapInsert(rf[t])
    BY Zenon, <1>10 DEF CallbackReturns
  <2>2. rf[t] \in Funcs /\ due[rf[t]] \in -Late..0
    BY <1>10, <1>i DEF CallbackReturns, TypeOK
  <2>3. NewInterval(rf[t], ok) \in 1..Late
    BY <2>2, NewIntervalType
  <2>4. eff' \in [Funcs -> 1..Late]
    BY <2>1, <2>2, <2>3 DEF TypeOK
  <2>5. Most(due[rf[t]] + NewInterval(rf[t], ok), 0) \in 0..Late
    BY <2>2, <2>3, <1>i DEF Most
  <2>6. due' \in [Funcs -> -Late..Late]
    BY <2>1, <2>2, <2>5, <1>i DEF TypeOK
  <2>7. TypeOK'
    BY <1>10, <2>1, <2>2, <2>4, <2>6 DEF CallbackReturns, HeapInsert, TypeOK
  <2>8. \A u \in Threads : u # t /\ rf[u] # NoFunc => due'[rf[u]] = due[rf[u]]
    BY <2>1, <2>2 DEF OneOwner, TypeOK
  <2>9. CalledIsDue'
    BY SMTT(30), <1>10, <2>8, FuncsAssumption DEF CallbackReturns, OneOwner, TypeOK
  <2> QED BY <2>7, <2>9
<1>11. CASE StopReadThreads
  BY Zenon, <1>11 DEF StopReadThreads, Broadcast, funcVars, TypeOK
<1>12. CASE DestroyList
  BY <1>12 DEF DestroyList, threadVars, TypeOK
<1>13. CASE DestroyReadHeap
  BY <1>13 DEF DestroyReadHeap, threadVars, TypeOK
<1>14. CASE ReadOnce
  <2>1. lateCalls' \in [Funcs -> 0..2]
    BY <1>14 DEF ReadOnce, CountCall, Least, TypeOK
  <2> QED BY <1>14, <2>1 DEF ReadOnce, threadVars, TypeOK
<1>15. CASE ReadOnceEnds
  BY <1>15 DEF ReadOnceEnds, threadVars, funcVars, TypeOK
<1>16. CASE Tick
  <2>1. due' \in [Funcs -> -Late..Late] /\ \A r \in Funcs : due'[r] <= due[r]
    BY <1>16, <1>i DEF Tick, TypeOK
  <2> QED BY <1>16, <2>1, <1>i DEF Tick, threadVars, TypeOK
<1>17. CASE UNCHANGED vars
  BY <1>17 DEF vars, TypeOK
<1>18. ASSUME NEW r \in Funcs, UnregisterRead(NameOf[r]) \/ UnregisterReadGroup(GroupOf[r])
       PROVE TypeOK' /\ CalledIsDue'
  BY <1>18, <1>2 DEF UnregisterRead, UnregisterReadGroup, Registered, TypeOK
<1> QED
  BY SMTT(30), <1>1, <1>3, <1>4, <1>5, <1>6, <1>7, <1>8, <1>9, <1>10, <1>11, <1>12, <1>13, <1>14,
     <1>15, <1>16, <1>17, <1>18
  DEF Next, ThreadStep

(* Every action of the read scheduler keeps every variable in its type: in *)
(* particular the effective interval stays between 1 and the largest       *)
(* configured one, and nothing is scheduled further ahead than that.       *)
THEOREM TypeCorrect == Spec => []TypeOK
<1> QED BY TypeInit, TypeStep, PTL DEF Spec, TypeInv

(* A read function is in the heap, in the hands of one read thread, freed  *)
(* or lost, never in two of these places: no concurrent calls of one       *)
(* callback, no double free, no use after free by a read thread.           *)
THEOREM OwnerCorrect == Spec => []OneOwner
<1> QED BY TypeInit, TypeStep, PTL DEF Spec, TypeInv

-----------------------------------------------------------------------------
(***************************************************************************)
(* The list.  A thread that has read RF_REMOVE holds a marked function,    *)
(* and marking happens together with the removal from the list; so what a  *)
(* thread frees is not in the list.                                        *)
(***************************************************************************)
SnapIsRight == \A t \in Threads : snap[t] = "remove" => rf[t] # NoFunc /\ rtype[rf[t]] = "remove"

NewIsUnmarked ==
  /\ read_list \subseteq created
  /\ \A r \in Funcs \ created : rtype[r] = "read"

ListIsDestroyed == spc \in {"destroying", "done"} => read_list = {}

(* Once the list is destroyed every thread is gone, and with it whoever     *)
(* could still register a function.                                        *)
JoinedIsGone ==
  spc \in {"destroying", "done"} => \A t \in Threads : tpc[t] \in {"absent", "exit"}

LEMMA JoinedStep == TypeOK /\ JoinedIsGone /\ [Next]_vars => JoinedIsGone'
<1> SUFFICES ASSUME TypeOK, JoinedIsGone, [Next]_vars PROVE JoinedIsGone'
  OBVIOUS
<1>1. ASSUME Broadcast, spc' = spc \/ spc' = "joining" PROVE JoinedIsGone'
  BY <1>1 DEF Broadcast, JoinedIsGone
<1>2. CASE \E r \in Funcs : InsertRead(r)
  BY <1>1, <1>2 DEF InsertRead
<1>3. CASE StopReadThreads
  BY <1>1, <1>3 DEF StopReadThreads
<1>4. ASSUME NEW S, MarkRemoved(S) PROVE JoinedIsGone'
  BY <1>4 DEF MarkRemoved, JoinedIsGone
<1>5. CASE \E r \in Funcs : UnregisterRead(NameOf[r]) \/ UnregisterReadGroup(GroupOf[r])
  BY Zenon, <1>4, <1>5 DEF UnregisterRead, UnregisterReadGroup
<1>6. ASSUME NEW t \in Threads, ThreadStep(t) \/ SpuriousWakeup(t) PROVE JoinedIsGone'
  <2>1. spc' = spc /\ tpc[t] \notin {"absent", "exit"}
    BY <1>6 DEF ThreadStep, TestLoop, GetRoot, EndSleep, StopThread, FreeRemoved,
                StartCallback, CallbackReturns, SpuriousWakeup
  <2> QED BY <2>1 DEF JoinedIsGone
<1>7. CASE DestroyList
  BY <1>7 DEF DestroyList, Started, threadVars, JoinedIsGone
<1>8. CASE DestroyReadHeap \/ ReadOnce \/ ReadOnceEnds \/ Tick \/ UNCHANGED vars
  BY <1>8 DEF DestroyReadHeap, ReadOnce, ReadOnceEnds, Tick, vars, threadVars, JoinedIsGone
<1> QED BY Zenon, <1>2, <1>3, <1>5, <1>6, <1>7, <1>8 DEF Next

ListInv == SnapIsRight /\ NewIsUnmarked /\ ListIsDestroyed /\ ListIsLive

LEMMA ListInit == Init => ListInv
BY FuncsAssumption
DEF Init, ListInv, SnapIsRight, NewIsUnmarked, ListIsDestroyed, ListIsLive

(* A step that leaves the list and what it says of its entries alone.      *)
LEMMA ListUnchanged ==
  ASSUME ListInv, UNCHANGED <<read_list, rtype, created>>, spc' = spc \/ read_list = {},
         \A r \in read_list : r \in freed' => r \in freed \/ spc' \in {"testing", "tested"},
         SnapIsRight'
  PROVE  ListInv'
BY DEF ListInv, NewIsUnmarked, ListIsDestroyed, ListIsLive

LEMMA ListStep == TypeInv /\ JoinedIsGone /\ ListInv /\ [Next]_vars => ListInv'
<1> SUFFICES ASSUME TypeOK, OneOwner, JoinedIsGone, ListInv, [Next]_vars PROVE ListInv'
  BY DEF TypeInv
<1>s. /\ SnapIsRight /\ NewIsUnmarked /\ ListIsDestroyed /\ ListIsLive
      /\ freed \subseteq created /\ read_list \subseteq created
      /\ \A t \in Threads : tpc[t] \in Holding => rf[t] \in Funcs /\ rf[t] # NoFunc
  BY DEF ListInv, NewIsUnmarked, OneOwner, Holding, TypeOK
<1>1. ASSUME NEW r \in Funcs, InsertRead(r) PROVE ListInv'
  <2>1. SnapIsRight'
    BY <1>1, <1>s DEF InsertRead, SnapIsRight
  <2>2. NewIsUnmarked' /\ ListIsDestroyed'
    BY <1>1, <1>s DEF InsertRead, MayRegister, NewIsUnmarked, ListIsDestroyed, JoinedIsGone
  <2>3. ListIsLive'
    BY <1>1, <1>s DEF InsertRead, Registered, NewIsUnmarked, ListIsLive
  <2> QED BY <2>1, <2>2, <2>3 DEF ListInv
<1>2. ASSUME NEW S, S \subseteq read_list, MarkRemoved(S) PROVE ListInv'
  <2>1. \A r \in Funcs : rtype'[r] = IF r \in S THEN "remove" ELSE rtype[r]
    BY <1>2 DEF MarkRemoved
  <2>2. SnapIsRight'
    BY <1>2, <2>1, <1>s DEF MarkRemoved, SnapIsRight, TypeOK
  <2>3. NewIsUnmarked' /\ ListIsDestroyed'
    BY <1>2, <2>1, <1>s DEF MarkRemoved, NewIsUnmarked, ListIsDestroyed
  <2>4. ListIsLive'
    BY <1>2, <2>1, <1>s DEF MarkRemoved, ListIsLive, TypeOK
  <2> QED BY <2>2, <2>3, <2>4 DEF ListInv
<1>3. ASSUME NEW t \in Threads, TestLoop(t) \/ SpuriousWakeup(t) \/ StartCallback(t) PROVE ListInv'
  BY <1>3, <1>s, ListUnchanged DEF TestLoop, SpuriousWakeup, StartCallback, funcVars, SnapIsRight
<1>4. ASSUME NEW t \in Threads, GetRoot(t) PROVE ListInv'
  <2>1. snap[t] = "read"
    BY <1>4, <1>s DEF GetRoot, SnapIsRight, OneOwner, TypeOK
  <2>2. SnapIsRight'
    BY <1>4, <2>1, <1>s DEF GetRoot, SnapIsRight, TypeOK
  <2> QED BY <1>4, <2>2, ListUnchanged DEF GetRoot
<1>5. ASSUME NEW t \in Threads, EndSleep(t) PROVE ListInv'
  <2>1. SnapIsRight'
    BY <1>5, <1>s DEF EndSleep, funcVars, SnapIsRight, TypeOK, Holding
  <2> QED BY SMTT(30), <1>5, <2>1, ListUnchanged DEF EndSleep, funcVars
<1>6. ASSUME NEW t \in Threads, StopThread(t) \/ CallbackReturns(t) PROVE ListInv'
  <2>1. SnapIsRight'
    BY <1>6, <1>s DEF StopThread, CallbackReturns, SnapIsRight, TypeOK
  <2> QED BY SMTT(30), <1>6, <2>1, ListUnchanged DEF StopThread, CallbackReturns
<1>7. ASSUME NEW t \in Threads, FreeRemoved(t) PROVE ListInv'
  <2>1. SnapIsRight'
    BY <1>7, <1>s DEF FreeRemoved, SnapIsRight, TypeOK
  <2>2. rtype[rf[t]] = "remove"
    BY <1>7, <1>s DEF FreeRemoved, SnapIsRight
  <2>3. \A r \in read_list : r \in freed' => r \in freed \/ spc' \in {"testing", "tested"}
    BY <1>7, <2>2, <1>s DEF FreeRemoved, ListIsLive
  <2> QED BY <1>7, <2>1, <2>3, ListUnchanged DEF FreeRemoved
<1>8. CASE StopReadThreads
  BY <1>8, <1>s DEF StopReadThreads, funcVars, ListInv, SnapIsRight, NewIsUnmarked, ListIsDestroyed, ListIsLive
<1>9. CASE DestroyList
  BY <1>9, <1>s DEF DestroyList, threadVars, ListInv, SnapIsRight, NewIsUnmarked, ListIsDestroyed, ListIsLive
<1>10. CASE DestroyReadHeap
  BY SMTT(30), <1>10, <1>s, ListUnchanged DEF DestroyReadHeap, threadVars, SnapIsRight, ListIsDestroyed
<1>11. CASE ReadOnce
  BY <1>11, <1>s, ListUnchanged DEF ReadOnce, threadVars, SnapIsRight
<1>12. CASE ReadOnceEnds
  BY <1>12, <1>s DEF ReadOnceEnds, threadVars, funcVars, ListInv, SnapIsRight, NewIsUnmarked, ListIsDestroyed, ListIsLive
<1>13. CASE Tick \/ UNCHANGED vars
  BY <1>13, <1>s, ListUnchanged DEF Tick, vars, threadVars, SnapIsRight
<1>14. ASSUME NEW r \in Funcs, UnregisterRead(NameOf[r]) \/ UnregisterReadGroup(GroupOf[r])
       PROVE  ListInv'
  BY <1>14, <1>2 DEF UnregisterRead, UnregisterReadGroup, Registered
<1> QED
  BY Zenon, <1>1, <1>3, <1>4, <1>5, <1>6, <1>7, <1>8, <1>9, <1>10, <1>11, <1>12, <1>13, <1>14
  DEF Next, ThreadStep

(* plugin_unregister_read finds only live, unmarked functions in           *)
(* read_list, and at most one of each name, however registrations,         *)
(* removals and the freeing in the read threads interleave.                *)
THEOREM ListCorrect == Spec => []ListIsLive
<1>1. Init => TypeInv /\ JoinedIsGone /\ ListInv
  BY TypeInit, ListInit DEF Init, JoinedIsGone
<1>2. TypeInv /\ JoinedIsGone /\ ListInv /\ [Next]_vars => (TypeInv /\ JoinedIsGone /\ ListInv)'
  BY TypeStep, JoinedStep, ListStep DEF TypeInv
<1>3. ListInv => ListIsLive
  BY DEF ListInv
<1> QED BY <1>1, <1>2, <1>3, PTL DEF Spec

-----------------------------------------------------------------------------
(***************************************************************************)
(* Late calls.  A function that was called after it was marked is not      *)
(* called again: whoever takes it from the heap reads RF_REMOVE, and -T    *)
(* frees it at once.                                                       *)
(***************************************************************************)
Spent(r) ==
  /\ lateCalls[r] <= 1
  /\ lateCalls[r] = 1 =>
       /\ rtype[r] = "remove" /\ r \in created
       /\ \A t \in Threads : rf[t] = r /\ tpc[t] = "decide" => snap[t] = "remove"
       /\ spc = "testing" => r \notin heap

TestHasNoThreads == spc = "testing" => \A t \in Threads : tpc[t] = "absent"

LateInv == TestHasNoThreads /\ \A r \in Funcs : Spent(r)

LEMMA LateInit == Init => LateInv
BY DEF Init, LateInv, TestHasNoThreads, Spent

LEMMA LateStep == TypeInv /\ LateInv /\ [Next]_vars => LateInv'
<1> SUFFICES ASSUME TypeOK, OneOwner, LateInv, [Next]_vars PROVE LateInv'
  BY DEF TypeInv
<1>s. /\ TestHasNoThreads /\ \A r \in Funcs : Spent(r)
      /\ \A r \in Funcs : lateCalls[r] \in 0..2
      /\ \A t \in Threads : tpc[t] \in Holding => rf[t] \in Funcs /\ rf[t] # NoFunc
  BY DEF LateInv, OneOwner, Holding, TypeOK
<1> USE DEF Spent
<1>1. ASSUME NEW r \in Funcs, InsertRead(r) PROVE LateInv'
  <2>1. TestHasNoThreads'
    BY <1>1, <1>s DEF InsertRead, Broadcast, TestHasNoThreads
  <2>2. \A t \in Threads : tpc'[t] = "decide" => tpc[t] = "decide"
    BY SMTT(30), <1>1 DEF InsertRead, Broadcast
  <2>3. \A s \in Funcs : Spent(s)'
    BY <1>1, <1>s, <2>2 DEF InsertRead
  <2> QED BY SMTT(30), <2>1, <2>3 DEF LateInv
<1>2. ASSUME NEW S, S \subseteq read_list, MarkRemoved(S) PROVE LateInv'
  BY <1>2, <1>s DEF MarkRemoved, LateInv, TestHasNoThreads
<1>3. ASSUME NEW t \in Threads, TestLoop(t) \/ SpuriousWakeup(t) PROVE LateInv'
  BY SMTT(30), <1>3, <1>s DEF TestLoop, SpuriousWakeup, funcVars, LateInv, TestHasNoThreads, TypeOK
<1>4. ASSUME NEW t \in Threads, GetRoot(t) PROVE LateInv'
  BY <1>4, <1>s DEF GetRoot, LateInv, TestHasNoThreads, TypeOK
<1>5. ASSUME NEW t \in Threads, EndSleep(t) PROVE LateInv'
  BY <1>5, <1>s DEF EndSleep, funcVars, LateInv, TestHasNoThreads, TypeOK
<1>6. ASSUME NEW t \in Threads, StopThread(t) \/ CallbackReturns(t) PROVE LateInv'
  <2>1. spc # "testing" /\ UNCHANGED <<rtype, created, lateCalls, spc>>
    BY SMTT(30), <1>6, <1>s DEF StopThread, CallbackReturns, TestHasNoThreads
  <2>2. \A u \in Threads : tpc'[u] = "decide" =>
          tpc[u] = "decide" /\ rf'[u] = rf[u] /\ snap'[u] = snap[u]
    BY <1>6 DEF StopThread, CallbackReturns, TypeOK
  <2> QED BY SMTT(30), <2>1, <2>2, <1>s DEF LateInv, TestHasNoThreads
<1>7. ASSUME NEW t \in Threads, FreeRemoved(t) PROVE LateInv'
  <2>1. spc # "testing" /\ UNCHANGED <<rtype, created, lateCalls, spc>>
    BY SMTT(30), <1>7, <1>s DEF FreeRemoved, TestHasNoThreads
  <2>2. \A u \in Threads : tpc'[u] = "decide" =>
          tpc[u] = "decide" /\ rf'[u] = rf[u] /\ snap'[u] = snap[u]
    BY <1>7 DEF FreeRemoved, TypeOK
  <2> QED BY <2>1, <2>2, <1>s DEF LateInv, TestHasNoThreads
<1>8. ASSUME NEW t \in Threads, StartCallback(t) PROVE LateInv'
  <2> DEFINE r == rf[t]
  <2>1. r \in Held /\ r \in Funcs /\ r \in created /\ lateCalls[r] = 0
    BY SMTT(30), <1>8, <1>s DEF StartCallback, Holding, Held, OneOwner
  <2>2. spc # "testing" /\ UNCHANGED <<rtype, created, rf, snap, spc>>
    BY <1>8, <1>s DEF StartCallback, TestHasNoThreads
  <2>3. \A u \in Threads : tpc'[u] = "decide" => tpc[u] = "decide" /\ u # t
    BY <1>8 DEF StartCallback, TypeOK
  <2>4. \A u \in Threads : u # t => rf[u] # r
    BY <2>1, <1>s, <1>8 DEF StartCallback, OneOwner, Holding
  <2>5. /\ lateCalls'[r] \in 0..1 /\ (lateCalls'[r] = 1 => rtype[r] = "remove")
        /\ \A s \in Funcs : s # r => lateCalls'[s] = lateCalls[s]
    BY <1>8, <2>1 DEF StartCallback, CountCall, Least, TypeOK
  <2> HIDE DEF r
  <2>6. \A s \in Funcs : Spent(s)'
    BY <2>1, <2>2, <2>3, <2>4, <2>5, <1>s
  <2> QED BY <2>2, <2>6 DEF LateInv, TestHasNoThreads
<1>9. CASE StopReadThreads
  <2>1. \A t \in Threads : tpc'[t] = "decide" => tpc[t] = "decide"
    BY <1>9 DEF StopReadThreads, Broadcast
  <2> QED BY SMTT(30), <1>9, <2>1, <1>s DEF StopReadThreads, funcVars, LateInv, TestHasNoThreads
<1>10. CASE DestroyList \/ DestroyReadHeap \/ ReadOnceEnds
  BY <1>10, <1>s DEF DestroyList, DestroyReadHeap, ReadOnceEnds, threadVars, funcVars, LateInv, TestHasNoThreads
<1>11. CASE ReadOnce
  <2>1. PICK r \in heap : heap' = heap \ {r} /\ CountCall(r)
    BY <1>11 DEF ReadOnce
  <2>2. r \in Funcs /\ r \in created /\ r \notin Held /\ lateCalls[r] = 0
    BY <1>11, <1>s DEF ReadOnce, OneOwner, TypeOK
  <2>3. /\ lateCalls'[r] \in 0..1 /\ (lateCalls'[r] = 1 => rtype[r] = "remove")
        /\ \A s \in Funcs : s # r => lateCalls'[s] = lateCalls[s]
    BY <2>1, <2>2 DEF CountCall, Least, TypeOK
  <2>4. \A t \in Threads : tpc[t] # "decide"
    BY <1>11, <1>s DEF ReadOnce, TestHasNoThreads
  <2>5. UNCHANGED <<rtype, created, tpc, rf, snap, spc>>
    BY <1>11 DEF ReadOnce, threadVars
  <2>6. \A s \in Funcs : Spent(s)'
    BY <2>1, <2>2, <2>3, <2>4, <2>5, <1>s
  <2> QED BY SMTT(30), <2>5, <2>6, <1>s DEF LateInv, TestHasNoThreads
<1>12. CASE Tick \/ UNCHANGED vars
  BY <1>12, <1>s DEF Tick, vars, threadVars, LateInv, TestHasNoThreads
<1>13. ASSUME NEW r \in Funcs, UnregisterRead(NameOf[r]) \/ UnregisterReadGroup(GroupOf[r])
       PROVE  LateInv'
  BY <1>13, <1>2 DEF UnregisterRead, UnregisterReadGroup, Registered
<1> QED
  BY Zenon, <1>1, <1>3, <1>4, <1>5, <1>6, <1>7, <1>8, <1>9, <1>10, <1>11, <1>12, <1>13
  DEF Next, ThreadStep

(* However many threads there are, a function is called at most once after *)
(* plugin_unregister_read has returned.                                    *)
THEOREM LateCorrect == Spec => []AtMostOneLateCall
<1>1. Init => TypeInv /\ LateInv
  BY TypeInit, LateInit
<1>2. TypeInv /\ LateInv /\ [Next]_vars => (TypeInv /\ LateInv)'
  BY TypeStep, LateStep
<1>3. LateInv => AtMostOneLateCall
  BY DEF LateInv, Spent, AtMostOneLateCall
<1> QED BY <1>1, <1>2, <1>3, PTL DEF Spec
=============================================================================
