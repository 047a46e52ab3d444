-------------------------- MODULE ValueCacheProofs --------------------------
(***************************************************************************)
(* Proofs about the value cache, for any write threads, names, callbacks,  *)
(* times and lifetimes.                                                    *)
(***************************************************************************)
EXTENDS ValueCache, TLAPS

(***************************************************************************)
(* A thread between the lock and the end of uc_update_metric has a metric  *)
(* in hand, so the functions below are applied to a name.                  *)
(***************************************************************************)
InHand == \A w \in Writers : wpc[w] # "idle" => metric[w] \in Names

(* Between two passes of uc_check_timeout the array `expired' is empty. *)
NoPass == cpc = "idle" => expired = {}

TypeInv == TypeOK /\ InHand /\ NoPass

(* No entry is in the cache at the start. *)
LEMMA TypeInit == Init => TypeInv
BY InterestedAssumption, MissingAssumption, MaxTimeAssumption,
   LifetimeAssumption, NoNameAssumption
   DEF Init, TypeInv, TypeOK, InHand, NoPass, Events, NoEvent, Times

(* A dispatched event is an event. *)
LEMMA DispatchType ==
  ASSUME NEW type \in {"NEW", "UPDATE", "EXPIRED"}, NEW n \in Names,
         NEW S \in SUBSET Callbacks, Dispatch(type, n, S)
  PROVE  event' \in Events
BY DEF Dispatch, Receivers, Events

(* What Free does to the entries keeps their types. *)
LEMMA FreeType ==
  ASSUME TypeOK, NEW S \in SUBSET Names, Free(S)
  PROVE  /\ tree' \subseteq Names
         /\ last' \in [Names -> 0..MaxTime]
         /\ age' \in [Names -> Nat] /\ \A n \in Names : age'[n] <= Lifetime[n]
         /\ mask' \in [Names -> SUBSET Callbacks]
         /\ accepted' \in [Names -> Seq(Times)]
         /\ \A n \in Names \ tree' : last'[n] = 0 /\ age'[n] = 0 /\ mask'[n] = {}
<1>1. 0 \in 0..MaxTime
  BY MaxTimeAssumption
<1>2. \A n \in Names : 0 <= Lifetime[n]
  BY LifetimeAssumption
<1>3. <<>> \in Seq(Times)
  OBVIOUS
<1>4. /\ tree' \subseteq Names
      /\ last' \in [Names -> 0..MaxTime]
      /\ age' \in [Names -> Nat] /\ \A n \in Names : age'[n] <= Lifetime[n]
      /\ mask' \in [Names -> SUBSET Callbacks]
      /\ \A n \in Names \ tree' : last'[n] = 0 /\ age'[n] = 0 /\ mask'[n] = {}
  BY <1>1, <1>2 DEF Free, TypeOK
<1>5. accepted' \in [Names -> Seq(Times)]
  BY <1>3 DEF Free, TypeOK
<1> QED
  BY <1>4, <1>5

(* Every step keeps the types. *)
LEMMA TypeStep == TypeInv /\ [Next]_vars => TypeInv'
<1> SUFFICES ASSUME TypeInv, [Next]_vars PROVE TypeInv'
  OBVIOUS
<1> USE DEF TypeInv, TypeOK, InHand, NoPass, checkVars, writerVars
<1>1. ASSUME NEW w \in Writers, NEW n \in Names, NEW t \in Times, Insert(w, n, t)
      PROVE  TypeInv'
  <2>1. t \in 0..MaxTime /\ 0 <= Lifetime[n] /\ <<t>> \in Seq(Times)
    BY <1>1, MaxTimeAssumption, LifetimeAssumption DEF Times
  <2>2. accepted' \in [Names -> Seq(Times)]
    BY <1>1, <2>1 DEF Insert
  <2> QED
    BY <1>1, <2>1, <2>2 DEF Insert
<1>2. ASSUME NEW w \in Writers, NEW n \in Names, NEW t \in Times, Update(w, n, t)
      PROVE  TypeInv'
  <2>1. t \in 0..MaxTime /\ 0 <= Lifetime[n]
    BY <1>2, MaxTimeAssumption, LifetimeAssumption DEF Times
  <2>2. Append(accepted[n], t) \in Seq(Times)
    BY <1>2
  <2>3. accepted' \in [Names -> Seq(Times)]
    BY <1>2, <2>2 DEF Update, Store
  <2>4. /\ last' \in [Names -> 0..MaxTime]
        /\ age' \in [Names -> Nat] /\ \A m \in Names : age'[m] <= Lifetime[m]
        /\ \A m \in Names \ tree' : last'[m] = 0 /\ age'[m] = 0 /\ mask'[m] = {}
    BY <1>2, <2>1 DEF Update, Store
  <2>5. /\ wpc' \in [Writers -> {"idle", "new", "mask", "update"}]
        /\ metric' \in [Writers -> Names \cup {NoName}]
        /\ wmask' \in [Writers -> SUBSET Callbacks]
        /\ InHand'
    BY ZenonT(60), <1>2 DEF Update, Store
  <2> QED
    BY <1>2, <2>3, <2>4, <2>5 DEF Update, Store
<1>3. ASSUME NEW w \in Writers, AnnounceNew(w) PROVE TypeInv'
  <2>1. metric[w] \in Names /\ Interested[metric[w]] \in SUBSET Callbacks
    BY <1>3, InterestedAssumption DEF AnnounceNew
  <2>2. event' \in Events
    BY <1>3, <2>1, DispatchType DEF AnnounceNew
  <2>3. heard' \subseteq Callbacks \X Names
    BY <1>3, <2>1 DEF AnnounceNew
  <2> QED
    BY ZenonT(60), <1>3, <2>1, <2>2, <2>3 DEF AnnounceNew, WriterReturns
<1>4. ASSUME NEW w \in Writers, SetCallbacksMask(w) PROVE TypeInv'
  BY <1>4 DEF SetCallbacksMask, WriterReturns
<1>5. ASSUME NEW w \in Writers, AnnounceUpdate(w) PROVE TypeInv'
  <2>1. metric[w] \in Names /\ wmask[w] \in SUBSET Callbacks
    BY <1>5 DEF AnnounceUpdate
  <2>2. event' \in Events
    BY <1>5, <2>1, DispatchType DEF AnnounceUpdate
  <2> QED
    BY <1>5, <2>2 DEF AnnounceUpdate, WriterReturns
<1>6. ASSUME Collect PROVE TypeInv'
  BY <1>6 DEF Collect, Stale
<1>7. ASSUME NEW n \in Names, CallMissing(n) PROVE TypeInv'
  <2>1. event' \in Events
    BY <1>7, DispatchType DEF CallMissing
  <2>2. told' \in [Names -> 0..MissingNum] /\ unparsed' \subseteq called'
    BY <1>7, MissingAssumption DEF CallMissing
  <2> QED
    BY <1>7, <2>1, <2>2 DEF CallMissing
<1>8. ASSUME Remove PROVE TypeInv'
  <2>1. 0 \in 0..MissingNum
    BY MissingAssumption
  <2> HIDE DEF Free
  <2> QED
    BY <1>8, <2>1, FreeType DEF Remove
<1>9. ASSUME Tick PROVE TypeInv'
  BY SMTT(30), <1>9, LifetimeAssumption DEF Tick
<1>10. CASE UNCHANGED vars
  BY <1>10 DEF vars
<1> QED
  BY Zenon, <1>1, <1>2, <1>3, <1>4, <1>5, <1>6, <1>7, <1>8, <1>9, <1>10
     DEF Next, WriterFinishes, CheckTimeout

(***************************************************************************)
(* The cache stays well typed: in particular a name without an entry has   *)
(* no time, no age and no mask left over from an earlier entry.            *)
(***************************************************************************)
THEOREM TypeCorrect == Spec => []TypeOK
<1>1. TypeInv => TypeOK
  BY DEF TypeInv
<1> QED
  BY <1>1, TypeInit, TypeStep, PTL DEF Spec

-----------------------------------------------------------------------------
(***************************************************************************)
(* Every step keeps the collected entries in the cache: only Remove takes  *)
(* entries out, and it empties the list it took them from.                 *)
(***************************************************************************)
LEMMA CachedStep ==
  TypeInv /\ ExpiredStillCached /\ [Next]_vars => ExpiredStillCached'
<1> SUFFICES ASSUME TypeInv, ExpiredStillCached, [Next]_vars
             PROVE  ExpiredStillCached'
  OBVIOUS
<1> USE DEF ExpiredStillCached, checkVars
<1>1. ASSUME NEW w \in Writers, NEW n \in Names, NEW t \in Times,
             Insert(w, n, t) \/ Update(w, n, t)
      PROVE  ExpiredStillCached'
  BY <1>1 DEF Insert, Update, Store
<1>2. ASSUME NEW w \in Writers, WriterFinishes(w) PROVE ExpiredStillCached'
  BY <1>2 DEF WriterFinishes, AnnounceNew, SetCallbacksMask, AnnounceUpdate
<1>3. ASSUME Collect PROVE ExpiredStillCached'
  BY <1>3 DEF Collect, Stale
<1>4. ASSUME NEW n \in Names, CallMissing(n) PROVE ExpiredStillCached'
  BY <1>4 DEF CallMissing
<1>5. ASSUME Remove PROVE ExpiredStillCached'
  BY <1>5 DEF Remove
<1>6. ASSUME Tick PROVE ExpiredStillCached'
  BY <1>6 DEF Tick
<1>7. CASE UNCHANGED vars
  BY <1>7 DEF vars
<1> QED
  BY <1>1, <1>2, <1>3, <1>4, <1>5, <1>6, <1>7 DEF Next, CheckTimeout

(***************************************************************************)
(* The callbacks uc_check_timeout calls find the entry they are called for *)
(* in the cache, and its last loop finds every entry it removes.           *)
(***************************************************************************)
THEOREM CachedCorrect == Spec => []ExpiredStillCached
<1>1. Init => ExpiredStillCached
  BY DEF Init, ExpiredStillCached
<1> QED
  BY <1>1, TypeInit, TypeStep, CachedStep, PTL DEF Spec

-----------------------------------------------------------------------------
(***************************************************************************)
(* Masks.  A mask that is set, in an entry or in the hand of a thread, is  *)
(* the one the callbacks asked for; so it does not matter which of two     *)
(* threads that created entries of the same name writes last.              *)
(***************************************************************************)
MaskInv ==
  /\ \A n \in Names : mask[n] \in {{}, Interested[n]}
  /\ \A w \in Writers : wpc[w] = "mask" => wmask[w] = Interested[metric[w]]
  /\ MaskSettles

(* A step that leaves the masks and the creators alone keeps MaskInv. *)
LEMMA MaskUnchanged ==
  ASSUME MaskInv, UNCHANGED <<tree, mask, wpc, wmask, metric>>
  PROVE  MaskInv'
BY DEF MaskInv, MaskSettles, Creating

(***************************************************************************)
(* A step of thread w keeps MaskInv if it only writes right masks and, for *)
(* the names it creates or has been creating, leaves a right mask or goes  *)
(* on creating.                                                            *)
(***************************************************************************)
Busy(w, n) == metric[w] = n /\ wpc[w] \in {"new", "mask"}

LEMMA MaskByWriter ==
  ASSUME MaskInv, NEW w \in Writers,
         \A v \in Writers : v # w => /\ wpc'[v] = wpc[v]
                                     /\ metric'[v] = metric[v]
                                     /\ wmask'[v] = wmask[v],
         wpc'[w] = "mask" => wmask'[w] = Interested[metric'[w]],
         \A n \in Names : mask'[n] \in {{}, Interested[n]},
         \A n \in tree' : Busy(w, n) \/ n \notin tree
                            => mask'[n] = Interested[n] \/ Busy(w, n)',
         \A n \in tree' : mask[n] = Interested[n] => mask'[n] = Interested[n]
  PROVE  MaskInv'
<1>1. (\A v \in Writers : wpc[v] = "mask" => wmask[v] = Interested[metric[v]])'
  BY DEF MaskInv
<1>2. ASSUME NEW n \in tree' PROVE Creating(n)' \/ mask'[n] = Interested[n]
  <2>1. CASE Busy(w, n) \/ n \notin tree
    BY <2>1 DEF Creating, Busy
  <2>2. CASE n \in tree /\ mask[n] = Interested[n]
    BY <2>2
  <2>3. CASE ~Busy(w, n) /\ n \in tree /\ mask[n] # Interested[n]
    <3>1. PICK v \in Writers : metric[v] = n /\ wpc[v] \in {"new", "mask"}
      BY SMTT(30), <2>3 DEF MaskInv, MaskSettles, Creating
    <3>2. metric'[v] = n /\ wpc'[v] \in {"new", "mask"}
      BY SMTT(30), <2>3, <3>1 DEF Busy
    <3> QED
      BY <3>2 DEF Creating
  <2> QED
    BY <2>1, <2>2, <2>3
<1> QED
  BY <1>1, <1>2 DEF MaskInv, MaskSettles

(* Every step keeps the masks right. *)
LEMMA MaskStep == TypeInv /\ MaskInv /\ [Next]_vars => MaskInv'
<1> SUFFICES ASSUME TypeInv, MaskInv, [Next]_vars PROVE MaskInv'
  OBVIOUS
<1> USE DEF TypeInv, TypeOK, InHand
<1>1. ASSUME NEW w \in Writers, NEW n \in Names, NEW t \in Times, Insert(w, n, t)
      PROVE  MaskInv'
  <2>1. Busy(w, n)' /\ wpc'[w] # "mask" /\ wpc[w] = "idle"
    BY <1>1 DEF Insert, Busy
  <2> QED
    BY Zenon, <1>1, <2>1, MaskByWriter DEF Insert, MaskInv, Busy
<1>2. ASSUME NEW w \in Writers, NEW n \in Names, NEW t \in Times, Update(w, n, t)
      PROVE  MaskInv'
  <2>1. /\ wpc[w] = "idle" /\ wpc'[w] # "mask"
        /\ \A v \in Writers : v # w => /\ wpc'[v] = wpc[v]
                                       /\ metric'[v] = metric[v]
                                       /\ wmask'[v] = wmask[v]
    BY <1>2 DEF Update, Store, writerVars
  <2> QED
    BY Zenon, <1>2, <2>1, MaskByWriter DEF Update, Store, MaskInv, Busy
<1>3. ASSUME NEW w \in Writers, AnnounceNew(w) PROVE MaskInv'
  <2>1. \A v \in Writers : v # w => /\ wpc'[v] = wpc[v]
                                    /\ metric'[v] = metric[v]
                                    /\ wmask'[v] = wmask[v]
    BY <1>3 DEF AnnounceNew, WriterReturns
  <2>2. CASE Interested[metric[w]] = {}
    <3>1. wpc'[w] = "idle" /\ mask[metric[w]] = Interested[metric[w]]
      BY Zenon, <1>3, <2>2 DEF AnnounceNew, WriterReturns, MaskInv
    <3> QED
      BY ZenonT(60), <1>3, <2>1, <3>1, MaskByWriter DEF AnnounceNew, MaskInv, Busy
  <2>3. CASE Interested[metric[w]] # {}
    <3>1. /\ wpc'[w] = "mask" /\ metric'[w] = metric[w]
          /\ wmask'[w] = Interested[metric[w]]
      BY <1>3, <2>3 DEF AnnounceNew
    <3> QED
      BY ZenonT(60), <1>3, <2>1, <3>1, MaskByWriter DEF AnnounceNew, MaskInv, Busy
  <2> QED
    BY <2>2, <2>3
<1>4. ASSUME NEW w \in Writers, SetCallbacksMask(w) PROVE MaskInv'
  <2>1. \A v \in Writers : v # w => /\ wpc'[v] = wpc[v]
                                    /\ metric'[v] = metric[v]
                                    /\ wmask'[v] = wmask[v]
    BY <1>4 DEF SetCallbacksMask, WriterReturns
  <2>2. /\ metric[w] \in Names /\ wmask[w] = Interested[metric[w]]
        /\ wpc'[w] = "idle" /\ tree' = tree
    BY <1>4 DEF SetCallbacksMask, WriterReturns, MaskInv
  <2>3. \A n \in Names : n # metric[w] => mask'[n] = mask[n]
    BY <1>4 DEF SetCallbacksMask
  <2>4. /\ mask'[metric[w]] \in {{}, Interested[metric[w]]}
        /\ metric[w] \in tree => mask'[metric[w]] = Interested[metric[w]]
    BY <1>4, <2>2 DEF SetCallbacksMask, MaskInv
  <2>5. \A n \in Names : mask'[n] \in {{}, Interested[n]}
    BY Zenon, <2>3, <2>4 DEF MaskInv
  <2>6. \A n \in tree' : Busy(w, n) \/ n \notin tree => mask'[n] = Interested[n]
    BY <2>2, <2>4 DEF Busy
  <2>7. \A n \in tree' : mask[n] = Interested[n] => mask'[n] = Interested[n]
    BY <2>2, <2>3, <2>4
  <2>8. wpc'[w] # "mask"
    BY <2>2
  <2> QED
    BY Zenon, <2>1, <2>5, <2>6, <2>7, <2>8, MaskByWriter
<1>5. ASSUME NEW w \in Writers, AnnounceUpdate(w) PROVE MaskInv'
  <2>1. /\ wpc'[w] = "idle" /\ wpc[w] = "update"
        /\ \A v \in Writers : v # w => /\ wpc'[v] = wpc[v]
                                       /\ metric'[v] = metric[v]
                                       /\ wmask'[v] = wmask[v]
    BY <1>5 DEF AnnounceUpdate, WriterReturns
  <2> QED
    BY Zenon, <1>5, <2>1, MaskByWriter DEF AnnounceUpdate, MaskInv, Busy
<1>6. ASSUME Collect \/ Tick \/ \E n \in Names : CallMissing(n) PROVE MaskInv'
  BY <1>6, MaskUnchanged DEF Collect, Tick, CallMissing, writerVars
<1>7. ASSUME Remove PROVE MaskInv'
  <2>1. UNCHANGED writerVars /\ tree' = tree \ expired
    BY <1>7 DEF Remove, Free
  <2>2. \A n \in Names : mask'[n] = IF n \in expired THEN {} ELSE mask[n]
    BY <1>7 DEF Remove, Free
  <2> QED
    BY Zenon, <2>1, <2>2 DEF writerVars, MaskInv, MaskSettles, Creating
<1>8. CASE UNCHANGED vars
  BY <1>8, MaskUnchanged DEF vars
<1> QED
  BY <1>1, <1>2, <1>3, <1>4, <1>5, <1>6, <1>7, <1>8
     DEF Next, WriterFinishes, CheckTimeout

(***************************************************************************)
(* When nobody is busy with the NEW event of a name, its entry's           *)
(* callbacks_mask is what the callbacks asked for.                         *)
(***************************************************************************)
THEOREM MaskCorrect == Spec => []MaskSettles
<1>1. Init => MaskInv
  BY DEF Init, MaskInv, MaskSettles
<1>2. MaskInv => MaskSettles
  BY DEF MaskInv
<1> QED
  BY <1>1, <1>2, TypeInit, TypeStep, MaskStep, PTL DEF Spec

-----------------------------------------------------------------------------
(***************************************************************************)
(* NEW comes first.  Wherever a mask is kept -- in an entry, in the hands  *)
(* of a thread, in the array of uc_check_timeout -- every callback has     *)
(* been sent NEW for that name.                                            *)
(***************************************************************************)
Known(n) == \A c \in Callbacks : <<c, n>> \in heard

HeardInv ==
  /\ \A n \in Names : mask[n] # {} \/ emask[n] # {} => Known(n)
  /\ \A w \in Writers : wpc[w] \in {"mask", "update"} => Known(metric[w])
  /\ event.type \in {"UPDATE", "EXPIRED"} => Known(event.name)

(* Every step keeps it; heard only grows. *)
LEMMA HeardStep == TypeInv /\ HeardInv /\ [Next]_vars => HeardInv'
<1> SUFFICES ASSUME TypeInv, HeardInv, [Next]_vars PROVE HeardInv'
  OBVIOUS
<1> USE DEF TypeInv, TypeOK, InHand, HeardInv, Known, writerVars, checkVars
<1>1. ASSUME NEW w \in Writers, NEW n \in Names, NEW t \in Times, Insert(w, n, t)
      PROVE  HeardInv'
  BY Zenon, <1>1 DEF Insert
<1>2. ASSUME NEW w \in Writers, NEW n \in Names, NEW t \in Times, Update(w, n, t)
      PROVE  HeardInv'
  BY Zenon, <1>2 DEF Update, Store
<1>3. ASSUME NEW w \in Writers, AnnounceNew(w) PROVE HeardInv'
  <2>1. /\ \A c \in Callbacks : <<c, metric[w]>> \in heard'
        /\ \A n \in Names : Known(n) => Known(n)'
    BY <1>3 DEF AnnounceNew
  <2>2. event'.type = "NEW" /\ mask' = mask /\ emask' = emask
    BY SMTT(30), <1>3 DEF AnnounceNew, Dispatch
  <2>3. \A v \in Writers : /\ v # w => wpc'[v] = wpc[v] /\ metric'[v] = metric[v]
                           /\ wpc'[w] = "idle" \/ metric'[w] = metric[w]
    BY SMTT(30), <1>3 DEF AnnounceNew, WriterReturns
  <2>4. ASSUME NEW v \in Writers, wpc'[v] \in {"mask", "update"}
        PROVE  Known(metric[v])'
    <3>1. CASE v = w
      BY <2>1, <2>3, <2>4, <3>1
    <3>2. CASE v # w
      <4>1. metric'[v] = metric[v] /\ Known(metric[v]) /\ metric[v] \in Names
        BY <2>3, <2>4, <3>2
      <4> QED
        BY Zenon, <2>1, <4>1
    <3> QED
      BY <3>1, <3>2
  <2> QED
    BY Zenon, <2>1, <2>2, <2>4
<1>4. ASSUME NEW w \in Writers, SetCallbacksMask(w) PROVE HeardInv'
  BY Zenon, <1>4 DEF SetCallbacksMask, WriterReturns
<1>5. ASSUME NEW w \in Writers, AnnounceUpdate(w) PROVE HeardInv'
  <2>1. event'.name = metric[w] /\ Known(metric[w]) /\ heard' = heard
    BY <1>5 DEF AnnounceUpdate, Dispatch
  <2>2. \A v \in Writers : wpc'[v] \in {"mask", "update"}
                           => wpc'[v] = wpc[v] /\ metric'[v] = metric[v]
    BY <1>5 DEF AnnounceUpdate, WriterReturns
  <2>3. mask' = mask /\ emask' = emask
    BY <1>5 DEF AnnounceUpdate
  <2> QED
    BY Zenon, <2>1, <2>2, <2>3
<1>6. ASSUME Collect PROVE HeardInv'
  BY Zenon, <1>6 DEF Collect, Stale
<1>7. ASSUME NEW n \in Names, CallMissing(n) PROVE HeardInv'
  <2>1. event' = event \/ (event'.name = n /\ emask[n] # {})
    BY <1>7 DEF CallMissing, Dispatch
  <2> QED
    BY Zenon, <1>7, <2>1 DEF CallMissing
<1>8. ASSUME Remove PROVE HeardInv'
  BY Zenon, <1>8 DEF Remove, Free
<1>9. ASSUME Tick PROVE HeardInv'
  BY Zenon, <1>9 DEF Tick
<1>10. CASE UNCHANGED vars
  BY Zenon, <1>10 DEF vars
<1> QED
  BY Zenon, <1>1, <1>2, <1>3, <1>4, <1>5, <1>6, <1>7, <1>8, <1>9, <1>10
     DEF Next, WriterFinishes, CheckTimeout

(***************************************************************************)
(* No callback is sent UPDATE or EXPIRED for a metric it was never sent    *)
(* NEW for.                                                                *)
(***************************************************************************)
THEOREM NewComesFirstCorrect == Spec => []NewComesFirst
<1>1. Init => HeardInv
  BY DEF Init, HeardInv, NoEvent
<1>2. TypeInv /\ HeardInv => NewComesFirst
  BY DEF TypeInv, TypeOK, HeardInv, Known, NewComesFirst, Events
<1> QED
  BY <1>1, <1>2, TypeInit, TypeStep, HeardStep, PTL DEF Spec

-----------------------------------------------------------------------------
(***************************************************************************)
(* What an entry takes is in order.                                        *)
(***************************************************************************)
Ordered(s) == \A i, j \in 1..Len(s) : i < j => s[i] < s[j]

OrderInv ==
  \A n \in tree : /\ accepted[n] # <<>>
                  /\ Ordered(accepted[n])
                  /\ last[n] = accepted[n][Len(accepted[n])]

(* Appending a time beyond the last one keeps a sequence in order. *)
LEMMA AppendOrdered ==
  ASSUME NEW s \in Seq(Times), s # <<>>, Ordered(s), NEW t \in Times,
         s[Len(s)] < t
  PROVE  /\ Append(s, t) # <<>> /\ Ordered(Append(s, t))
         /\ Append(s, t)[Len(Append(s, t))] = t
<1> USE MaxTimeAssumption DEF Times
<1>1. Len(Append(s, t)) = Len(s) + 1 /\ Append(s, t)[Len(s) + 1] = t
  OBVIOUS
<1>2. \A i \in 1..Len(s) : Append(s, t)[i] = s[i] /\ s[i] \in 1..MaxTime
  OBVIOUS
<1>3. Len(s) \in Nat /\ Len(s) > 0
  OBVIOUS
<1>4. \A i \in 1..Len(s) : s[i] <= s[Len(s)]
  <2> TAKE i \in 1..Len(s)
  <2>1. Len(s) \in 1..Len(s) /\ s[i] \in Nat /\ s[Len(s)] \in Nat
    BY <1>2, <1>3
  <2>2. CASE i = Len(s)
    BY <2>1, <2>2
  <2>3. CASE i < Len(s)
    BY SMTT(30), <2>1, <2>3 DEF Ordered
  <2> QED
    BY <1>3, <2>2, <2>3
<1>5. ASSUME NEW i \in 1..Len(s)+1, NEW j \in 1..Len(s)+1, i < j
      PROVE  Append(s, t)[i] < Append(s, t)[j]
  <2>1. i \in 1..Len(s)
    BY <1>3, <1>5
  <2>2. CASE j = Len(s) + 1
    BY <1>1, <1>2, <1>3, <1>4, <2>1, <2>2
  <2>3. CASE j # Len(s) + 1
    <3>1. j \in 1..Len(s)
      BY <1>3, <2>3
    <3> QED
      BY <1>2, <1>5, <2>1, <3>1 DEF Ordered
  <2> QED
    BY <2>2, <2>3
<1>6. Ordered(Append(s, t))
  BY <1>1, <1>5 DEF Ordered
<1>7. Append(s, t) # <<>>
  BY <1>1, <1>3
<1> QED
  BY <1>1, <1>6, <1>7

(* Every step keeps the order. *)
LEMMA OrderStep == TypeInv /\ OrderInv /\ [Next]_vars => OrderInv'
<1> SUFFICES ASSUME TypeInv, OrderInv, [Next]_vars PROVE OrderInv'
  OBVIOUS
<1> USE DEF TypeInv, TypeOK
<1>1. ASSUME NEW w \in Writers, NEW n \in Names, NEW t \in Times, Insert(w, n, t)
      PROVE  OrderInv'
  <2>1. accepted'[n] = <<t>> /\ last'[n] = t /\ tree' = tree \cup {n}
    BY <1>1 DEF Insert
  <2>2. \A m \in tree : m # n => accepted'[m] = accepted[m] /\ last'[m] = last[m]
    BY <1>1 DEF Insert
  <2>3. <<t>> # <<>> /\ Ordered(<<t>>) /\ <<t>>[Len(<<t>>)] = t
    BY DEF Ordered
  <2> QED
    BY Zenon, <2>1, <2>2, <2>3 DEF OrderInv
<1>2. ASSUME NEW w \in Writers, NEW n \in Names, NEW t \in Times, Update(w, n, t)
      PROVE  OrderInv'
  <2>1. accepted'[n] = Append(accepted[n], t) /\ last'[n] = t /\ tree' = tree
    BY <1>2 DEF Update, Store
  <2>2. \A m \in tree : m # n => accepted'[m] = accepted[m] /\ last'[m] = last[m]
    BY <1>2 DEF Update, Store
  <2>3. /\ n \in tree /\ accepted[n] \in Seq(Times)
        /\ accepted[n][Len(accepted[n])] < t
    BY <1>2 DEF Update, OrderInv
  <2>4. /\ Append(accepted[n], t) # <<>> /\ Ordered(Append(accepted[n], t))
        /\ Append(accepted[n], t)[Len(Append(accepted[n], t))] = t
    BY SMTT(30), <1>2, <2>3, AppendOrdered DEF OrderInv
  <2> QED
    BY Zenon, <2>1, <2>2, <2>3, <2>4 DEF OrderInv
<1>3. ASSUME UNCHANGED <<tree, last, accepted>> PROVE OrderInv'
  BY <1>3 DEF OrderInv, Ordered
<1>4. ASSUME NEW w \in Writers, WriterFinishes(w) PROVE OrderInv'
  BY SMTT(30), <1>3, <1>4 DEF WriterFinishes, AnnounceNew, SetCallbacksMask, AnnounceUpdate
<1>5. ASSUME Collect \/ Tick \/ \E n \in Names : CallMissing(n) PROVE OrderInv'
  BY <1>3, <1>5 DEF Collect, Tick, CallMissing
<1>6. ASSUME Remove PROVE OrderInv'
  <2>1. tree' = tree \ expired
    BY <1>6 DEF Remove, Free
  <2>2. \A n \in Names \ expired : accepted'[n] = accepted[n] /\ last'[n] = last[n]
    BY <1>6 DEF Remove, Free
  <2> QED
    BY SMTT(30), <2>1, <2>2 DEF OrderInv
<1>7. CASE UNCHANGED vars
  BY <1>3, <1>7 DEF vars
<1> QED
  BY <1>1, <1>2, <1>4, <1>5, <1>6, <1>7 DEF Next, CheckTimeout

(***************************************************************************)
(* Whatever order the write threads bring metrics in, an entry takes them  *)
(* in the order of their times, each at most once.                         *)
(***************************************************************************)
THEOREM OrderCorrect == Spec => []AcceptedInOrder
<1>1. Init => OrderInv
  BY DEF Init, OrderInv
<1>2. OrderInv => AcceptedInOrder
  BY DEF OrderInv, Ordered, AcceptedInOrder
<1> QED
  BY <1>1, <1>2, TypeInit, TypeStep, OrderStep, PTL DEF Spec

-----------------------------------------------------------------------------
(***************************************************************************)
(* An entry disappears in silence only if its identity does not parse.     *)
(***************************************************************************)
ToldInv == MissingNum > 0 => \A n \in called : told[n] > 0 \/ n \in unparsed

ToldStep ==
  MissingNum > 0 => \A n \in tree \ tree' : told[n] > 0 \/ n \in unparsed

(* Every step keeps ToldInv, and removes only entries the second loop of
   uc_check_timeout is done with. *)
LEMMA ToldStepHolds ==
  TypeInv /\ ToldInv /\ [Next]_vars => ToldInv' /\ [ToldStep]_vars
<1> SUFFICES ASSUME TypeInv, ToldInv, [Next]_vars
             PROVE  ToldInv' /\ [ToldStep]_vars
  OBVIOUS
<1> USE DEF TypeInv, TypeOK, ToldInv, ToldStep, checkVars
<1>1. ASSUME NEW w \in Writers, NEW n \in Names, NEW t \in Times,
             Insert(w, n, t) \/ Update(w, n, t)
      PROVE  ToldInv' /\ ToldStep
  BY SMTT(30), <1>1 DEF Insert, Update, Store
<1>2. ASSUME NEW w \in Writers, WriterFinishes(w) PROVE ToldInv' /\ ToldStep
  BY SMTT(30), <1>2 DEF WriterFinishes, AnnounceNew, SetCallbacksMask, AnnounceUpdate
<1>3. ASSUME Collect \/ Tick PROVE ToldInv' /\ ToldStep
  BY SMTT(30), <1>3 DEF Collect, Tick
<1>4. ASSUME NEW n \in Names, CallMissing(n) PROVE ToldInv' /\ ToldStep
  BY <1>4, MissingAssumption DEF CallMissing
<1>5. ASSUME Remove PROVE ToldInv' /\ ToldStep
  BY <1>5 DEF Remove, Free
<1>6. CASE UNCHANGED vars
  BY <1>6 DEF vars
<1> QED
  BY SMTT(30), <1>1, <1>2, <1>3, <1>4, <1>5, <1>6 DEF Next, CheckTimeout

(***************************************************************************)
(* An entry is removed only after the first missing callback was called    *)
(* for it in the same pass of uc_check_timeout, or after                   *)
(* metric_parse_identity had failed for its name.                          *)
(***************************************************************************)
THEOREM ToldCorrect == Spec => ToldBeforeRemoved
<1>1. Init => ToldInv
  BY DEF Init, ToldInv
<1>2. Spec => [][ToldStep]_vars
  BY <1>1, TypeInit, TypeStep, ToldStepHolds, PTL DEF Spec
<1>3. (Spec => ToldBeforeRemoved) <=> (Spec => [][ToldStep]_vars)
  BY PTL DEF ToldBeforeRemoved, ToldStep
<1> QED
  BY <1>2, <1>3, PTL
=============================================================================
