---------------------------- MODULE DaemonProofs ----------------------------
(***************************************************************************)
(* Proofs about Daemon, for any plugins, callbacks, plugin threads and     *)
(* detached threads.                                                       *)
(***************************************************************************)
EXTENDS Daemon, WellFoundedInduction, TLAPS

Early == {"init", "initing", "start"}
Looping == {"test", "missing", "notifying", "retest", "sleep"}
Late == {"next", "joining", "free", "free_rest", "freed", "exited"}

Places == (Kinds \X Plugins) \cup {None}

TypeOK ==
  /\ pc \in Early \cup Looping \cup Late
            \cup {"destroy_init", "join_read", "join_write", "flush", "shutdown"}
  /\ lists \in [Kinds -> SUBSET Plugins]
  /\ at \in [Walkers -> Places]
  /\ left \in ({"shutdown"} \X Plugins) \cup {None}
  /\ alive \subseteq Walkers
  /\ failed \subseteq Plugins /\ down \subseteq Plugins /\ stopping \subseteq Plugins
  /\ bad \subseteq Kinds \X Walkers

(***************************************************************************)
(* Who walks which list, and when.                                         *)
(***************************************************************************)
(* the main thread, by what it does *)
MainWalks ==
  IF at["main"] = None
  THEN pc \notin {"initing", "missing", "notifying", "flush", "joining"}
  ELSE <<pc, at["main"][1]>> \in
         {<<"initing", "init">>, <<"missing", "missing">>, <<"notifying", "notification">>,
          <<"flush", "flush">>, <<"joining", "shutdown">>}

ReaderWalks ==
  /\ at["reader"] # None => "reader" \in alive /\ at["reader"][1] \in {"read", "flush"}
  /\ "reader" \in alive => pc \in Looping \cup {"destroy_init", "join_read"}

WriterWalks ==
  /\ at["writer"] # None => "writer" \in alive /\ at["writer"][1] \in {"write", "notification"}
  /\ "writer" \in alive => pc \in Looping \cup {"destroy_init", "join_read", "join_write"}

OthersWalk ==
  /\ at["flusher"] # None => at["flusher"][1] = "flush"
  /\ \A q \in Threaded : at[q] # None => q \in alive /\ at[q][1] = "notification"
  /\ \A d \in Detached : at[d] # None => at[d][1] \in {"flush", "notification"}

WalkInv == TypeOK /\ MainWalks /\ ReaderWalks /\ WriterWalks /\ OthersWalk

(***************************************************************************)
(* What is known of plugins that failed or are shut down.                  *)
(***************************************************************************)
FailedIsNotRead ==
  /\ failed \cap SameName \cap lists["read"] = {}
  /\ at["reader"] # None /\ at["reader"][1] = "read" => at["reader"][2] \notin failed \cap SameName

ShutdownIsLate == down \cup stopping # {} => pc \in Late

LifeInv == FailedIsNotRead /\ ShutdownIsLate

(***************************************************************************)
(* Nobody stands on a freed entry but those who may.                       *)
(***************************************************************************)
MayStray(w) == w = "flusher" \/ w \in Detached \/ (w \in Threaded /\ Unregistering # {})

StandsFirm == \A w \in Walkers : at[w] # None => Linked(at[w]) \/ MayStray(w)

LeftIsLinked ==
  left # None =>
    /\ pc \in {"next", "joining"}
    /\ Linked(left)
    /\ pc = "joining" => Rank[left[2]] > Rank[at["main"][2]]

(* The threads that are joined are joined in time: the walk of             *)
(* list_shutdown is at or before the plugin of every one that runs.        *)
ThreadsAreListed ==
  /\ alive \cap Threaded \subseteq lists["shutdown"]
  /\ pc \in Early => lists["shutdown"] = Has["shutdown"]

JoinedInOrder ==
  pc \in Late => \A q \in alive \cap Threaded :
    \/ left # None /\ Rank[left[2]] <= Rank[q]
    \/ pc = "joining" /\ at["main"][2] = q

JoinInv == LeftIsLinked /\ ThreadsAreListed /\ JoinedInOrder

FreedInv == StandsFirm /\ FreedIsReadOnlyBy

-----------------------------------------------------------------------------
(* A nonempty set of plugins has a first one.                              *)
LEMMA LeastExists ==
  ASSUME NEW S \in SUBSET Nat, S # {}
  PROVE  \E p \in S : \A q \in S : p <= q
<1> DEFINE R == OpToRel(<, Nat)
<1>1. IsWellFoundedOn(R, Nat)
  BY NatLessThanWellFounded
<1>2. \E x \in S : \A y \in S : <<y, x>> \notin R
  <2> HIDE DEF R
  <2> QED BY Zenon, <1>1, WFMin
<1>3. \A x, y \in Nat : <<y, x>> \notin R => x <= y
  BY DEF OpToRel
<1> QED BY <1>2, <1>3

LEMMA RankType == Rank \in [Plugins -> Nat]
BY Zenon, DaemonAssumption DEF Injection

LEMMA FirstOfSet ==
  ASSUME NEW k \in Kinds, NEW S \in SUBSET Plugins
  PROVE  /\ S = {} => FirstOf(k, S) = None
         /\ S # {} => \E p \in S : /\ FirstOf(k, S) = <<k, p>> /\ FirstOf(k, S) # None
                                  /\ \A q \in S : Rank[p] <= Rank[q]
<1>1. CASE S = {}
  BY <1>1 DEF FirstOf
<1>2. CASE S # {}
  <2>1. {Rank[p] : p \in S} \in SUBSET Nat /\ {Rank[p] : p \in S} # {}
    BY <1>2, RankType
  <2>r. PICK r \in {Rank[p] : p \in S} : \A x \in {Rank[p] : p \in S} : r <= x
    BY Zenon, <2>1, LeastExists
  <2>2. \E p \in S : \A q \in S : Rank[p] <= Rank[q]
    BY <2>r
  <2> DEFINE p == CHOOSE p \in S : \A q \in S : Rank[p] <= Rank[q]
  <2>3. p \in S /\ \A q \in S : Rank[p] <= Rank[q]
    BY <2>2
  <2> QED BY Zenon, <1>2, <2>3, DaemonAssumption DEF FirstOf
<1> QED BY <1>1, <1>2

(* llist_head: the first entry, which is linked.                           *)
LEMMA FirstIsLinked ==
  ASSUME TypeOK, NEW k \in Kinds, First(k) # None
  PROVE  /\ First(k) \in Kinds \X Plugins /\ First(k)[1] = k
         /\ Linked(First(k))
<1>1. lists[k] \in SUBSET Plugins
  BY DEF TypeOK
<1>2. PICK p \in lists[k] : First(k) = <<k, p>>
  BY <1>1, FirstOfSet DEF First
<1> QED BY <1>1, <1>2 DEF Linked

(* le->next: a later entry of the same list, which is linked.              *)
LEMMA AfterIsLinked ==
  ASSUME TypeOK, NEW e \in Kinds \X Plugins, After(e) # None
  PROVE  /\ After(e) \in Kinds \X Plugins /\ After(e)[1] = e[1]
         /\ Linked(After(e))
         /\ Rank[After(e)[2]] > Rank[e[2]]
<1>1. e[1] \in Kinds /\ lists[e[1]] \in SUBSET Plugins
  BY DEF TypeOK
<1> DEFINE S == {p \in lists[e[1]] : Rank[p] > Rank[e[2]]}
<1>2. S \in SUBSET Plugins /\ After(e) = FirstOf(e[1], S)
  BY <1>1 DEF After
<1> HIDE DEF S
<1>3. PICK p \in S : After(e) = <<e[1], p>>
  BY <1>1, <1>2, FirstOfSet
<1>4. p \in lists[e[1]] /\ p \in Plugins /\ Rank[p] > Rank[e[2]]
  BY <1>1, <1>3 DEF S
<1> QED BY <1>1, <1>3, <1>4 DEF Linked

(* Nothing of the list comes before its head or between an entry and its   *)
(* successor.                                                              *)
LEMMA FirstIsLeast ==
  ASSUME TypeOK, NEW k \in Kinds, NEW q \in lists[k]
  PROVE  First(k) # None /\ Rank[First(k)[2]] <= Rank[q]
<1>1. lists[k] \in SUBSET Plugins /\ lists[k] # {}
  BY DEF TypeOK
<1>2. PICK p \in lists[k] : First(k) = <<k, p>> /\ First(k) # None /\ Rank[p] <= Rank[q]
  BY <1>1, FirstOfSet DEF First
<1> QED BY <1>2

LEMMA AfterIsLeast ==
  ASSUME TypeOK, NEW e \in Kinds \X Plugins, NEW q \in lists[e[1]], Rank[q] > Rank[e[2]]
  PROVE  After(e) # None /\ Rank[After(e)[2]] <= Rank[q]
<1> DEFINE S == {p \in lists[e[1]] : Rank[p] > Rank[e[2]]}
<1>1. e[1] \in Kinds /\ S \in SUBSET Plugins /\ q \in S /\ After(e) = FirstOf(e[1], S)
  BY DEF TypeOK, After
<1> HIDE DEF S
<1>2. PICK p \in S : /\ FirstOf(e[1], S) = <<e[1], p>> /\ FirstOf(e[1], S) # None
                     /\ Rank[p] <= Rank[q]
  BY <1>1, FirstOfSet
<1> QED BY <1>1, <1>2

(* What a walker that stands on an entry does next.                        *)
LEMMA StepWalks ==
  ASSUME TypeOK, NEW w \in Walkers, at[w] # None, Step(w)
  PROVE  /\ at' \in [Walkers -> Places]
         /\ at[w] \in Kinds \X Plugins
         /\ \A v \in Walkers : v # w => at'[v] = at[v]
         /\ at'[w] # None => at'[w][1] = at[w][1] /\ Linked(at'[w])
         /\ bad' = IF Linked(at[w]) THEN bad ELSE bad \cup {<<at[w][1], w>>}
         /\ bad' \subseteq Kinds \X Walkers
<1>1. at[w] \in Kinds \X Plugins
  BY DEF TypeOK, Places
<1>2. CASE Linked(at[w])
  <2>1. at' = [at EXCEPT ![w] = After(at[w])] /\ bad' = bad
    BY <1>2 DEF Step
  <2>2. CASE After(at[w]) = None
    BY <1>1, <1>2, <2>1, <2>2 DEF TypeOK, Places
  <2>3. CASE After(at[w]) # None
    BY <1>1, <1>2, <2>1, <2>3, AfterIsLinked DEF TypeOK, Places
  <2> QED BY <2>2, <2>3
<1>3. CASE ~Linked(at[w])
  <2>1. at' = [at EXCEPT ![w] = None] /\ bad' = bad \cup {<<at[w][1], w>>}
    BY <1>3 DEF Step
  <2> QED BY <1>1, <1>3, <2>1 DEF TypeOK, Places
<1> QED BY <1>2, <1>3

(* A walker that is sent to the beginning of a list.                       *)
LEMMA EnterWalks ==
  ASSUME TypeOK, NEW w \in Walkers, NEW k \in Kinds, at' = [at EXCEPT ![w] = First(k)]
  PROVE  /\ at' \in [Walkers -> Places]
         /\ \A v \in Walkers : v # w => at'[v] = at[v]
         /\ at'[w] = First(k)
         /\ at'[w] # None => at'[w][1] = k /\ Linked(at'[w])
<1>1. CASE First(k) = None
  BY <1>1 DEF TypeOK, Places
<1>2. CASE First(k) # None
  BY <1>2, FirstIsLinked DEF TypeOK, Places
<1> QED BY <1>1, <1>2

LEMMA WalkerNames ==
  /\ {"main", "reader", "writer", "flusher"} \subseteq Walkers
  /\ Threaded \subseteq Walkers /\ Threaded \subseteq Plugins
  /\ Detached \subseteq Walkers
  /\ \A q \in Threaded \cup Detached : q \notin {"main", "reader", "writer", "flusher"}
  /\ \A q \in Threaded : q \notin Detached
BY DaemonAssumption DEF Walkers, Kinds
-----------------------------------------------------------------------------
LEMMA WalkInit == Init => WalkInv
BY WalkerNames, DaemonAssumption
DEF Init, WalkInv, TypeOK, Places, Early, MainWalks, ReaderWalks, WriterWalks, OthersWalk

LEMMA WalkStep == WalkInv /\ [Next]_vars => WalkInv'
<1> SUFFICES ASSUME WalkInv, [Next]_vars PROVE WalkInv'
  OBVIOUS
<1> USE WalkerNames DEF WalkInv
<1>k. "init" \in Kinds /\ "missing" \in Kinds /\ "flush" \in Kinds /\ "notification" \in Kinds
      /\ "write" \in Kinds /\ "read" \in Kinds /\ "shutdown" \in Kinds
  BY DEF Kinds
<1>1. CASE EnterInit
  <2>1. at' = [at EXCEPT !["main"] = First("init")]
    BY <1>1 DEF EnterInit, Begin
  <2>2. /\ at' \in [Walkers -> Places] /\ \A v \in Walkers : v # "main" => at'[v] = at[v]
        /\ at'["main"] = First("init") /\ (at'["main"] # None => at'["main"][1] = "init")
    BY ZenonT(60), <1>k, <2>1, EnterWalks
  <2>3. TypeOK'
    BY <1>1, <2>2 DEF EnterInit, TypeOK, Early
  <2>4. MainWalks'
    BY <1>1, <2>2 DEF EnterInit, MainWalks
  <2>5. ReaderWalks' /\ WriterWalks' /\ OthersWalk'
    BY <1>1, <2>2 DEF EnterInit, ReaderWalks, WriterWalks, OthersWalk, Looping
  <2> QED BY <2>3, <2>4, <2>5
<1>2. CASE InitReturns
  <2>1. at["main"] # None /\ at["main"][1] = "init" /\ Step("main")
    BY <1>2 DEF InitReturns, MainWalks
  <2>2. /\ at' \in [Walkers -> Places] /\ at["main"] \in Kinds \X Plugins
        /\ \A v \in Walkers : v # "main" => at'[v] = at[v]
        /\ at'["main"] # None => at'["main"][1] = "init"
        /\ bad' \subseteq Kinds \X Walkers
    BY <2>1, StepWalks DEF TypeOK
  <2>3. TypeOK'
    BY <1>2, <2>2, <1>k DEF InitReturns, TypeOK, Early, AfterFailure
  <2>4. MainWalks'
    BY <1>2, <2>2 DEF InitReturns, MainWalks
  <2>5. "reader" \notin alive' /\ "writer" \notin alive' /\ alive \subseteq alive'
    BY <1>2 DEF InitReturns, ReaderWalks, WriterWalks, Looping
  <2>6. ReaderWalks' /\ WriterWalks' /\ OthersWalk'
    BY <1>2, <2>2, <2>5 DEF InitReturns, ReaderWalks, WriterWalks, OthersWalk, Looping
  <2> QED BY <2>3, <2>4, <2>6
<1>3. CASE StartThreads
  <2>1. TypeOK' /\ MainWalks'
    BY <1>3 DEF StartThreads, TypeOK, Looping, MainWalks
  <2>2. ReaderWalks' /\ WriterWalks' /\ OthersWalk'
    BY <1>3 DEF StartThreads, ReaderWalks, WriterWalks, OthersWalk, Looping
  <2> QED BY <2>1, <2>2
<1>4. CASE TestLoop
  <2>1. CASE UNCHANGED at /\ pc' \in {"destroy_init", "retest"}
    <3>1. TypeOK' /\ MainWalks'
      BY <1>4, <2>1 DEF TestLoop, TypeOK, Looping, MainWalks
    <3>2. ReaderWalks' /\ WriterWalks' /\ OthersWalk'
      BY <1>4, <2>1 DEF TestLoop, ReaderWalks, WriterWalks, OthersWalk, Looping
    <3> QED BY <3>1, <3>2
  <2>2. CASE Begin("main", "missing") /\ pc' = IF First("missing") = None THEN "retest" ELSE "missing"
    <3>1. /\ at' \in [Walkers -> Places] /\ \A v \in Walkers : v # "main" => at'[v] = at[v]
          /\ at'["main"] = First("missing") /\ (at'["main"] # None => at'["main"][1] = "missing")
      BY Zenon, <1>k, <2>2, EnterWalks DEF Begin
    <3>2. TypeOK' /\ MainWalks'
      BY <1>4, <2>2, <3>1 DEF TestLoop, TypeOK, Looping, MainWalks
    <3>3. ReaderWalks' /\ WriterWalks' /\ OthersWalk'
      BY <1>4, <2>2, <3>1 DEF TestLoop, ReaderWalks, WriterWalks, OthersWalk, Looping
    <3> QED BY <3>2, <3>3
  <2> QED BY <1>4, <2>1, <2>2 DEF TestLoop
<1>5. CASE MissingReturns
  <2>1. at["main"] # None /\ at["main"][1] = "missing"
    BY <1>5 DEF MissingReturns, MainWalks
  <2>2. /\ at' \in [Walkers -> Places]
        /\ \A v \in Walkers : v # "main" => at'[v] = at[v]
        /\ at'["main"] # None => at'["main"][1] \in {"missing", "notification"}
        /\ bad' \subseteq Kinds \X Walkers
    <3>1. CASE Step("main")
      BY <2>1, <3>1, StepWalks DEF TypeOK
    <3>2. CASE at' = [at EXCEPT !["main"] = None] /\ bad' = bad
      BY <3>2 DEF TypeOK, Places
    <3>3. CASE at' = [at EXCEPT !["main"] = First("notification")] /\ bad' = bad
      BY ZenonT(60), <3>3, <1>k, EnterWalks DEF TypeOK
    <3> QED BY <1>5, <3>1, <3>2, <3>3 DEF MissingReturns
  <2>3. TypeOK' /\ MainWalks'
    BY <1>5, <2>2 DEF MissingReturns, TypeOK, Looping, MainWalks
  <2>4. ReaderWalks' /\ WriterWalks' /\ OthersWalk'
    BY <1>5, <2>2 DEF MissingReturns, ReaderWalks, WriterWalks, OthersWalk, Looping
  <2> QED BY <2>3, <2>4
<1>6. CASE NotificationReturns \/ FlushReturns
  <2>1. at["main"] # None /\ Step("main") /\ (pc = "notifying" => at["main"][1] = "notification")
        /\ (pc = "flush" => at["main"][1] = "flush")
    BY <1>6 DEF NotificationReturns, FlushReturns, MainWalks
  <2>2. /\ at' \in [Walkers -> Places]
        /\ \A v \in Walkers : v # "main" => at'[v] = at[v]
        /\ at'["main"] # None => at'["main"][1] = at["main"][1]
        /\ bad' \subseteq Kinds \X Walkers
    BY <2>1, StepWalks DEF TypeOK
  <2>3. TypeOK' /\ MainWalks'
    BY <1>6, <2>1, <2>2 DEF NotificationReturns, FlushReturns, TypeOK, Looping, MainWalks
  <2>4. ReaderWalks' /\ WriterWalks' /\ OthersWalk'
    BY <1>6, <2>2 DEF NotificationReturns, FlushReturns, ReaderWalks, WriterWalks, OthersWalk, Looping
  <2> QED BY <2>3, <2>4
<1>7. CASE RetestLoop \/ Wake \/ Term
  <2>1. TypeOK' /\ MainWalks'
    BY <1>7 DEF RetestLoop, Wake, Term, TypeOK, Looping, MainWalks
  <2>2. ReaderWalks' /\ WriterWalks' /\ OthersWalk'
    BY <1>7 DEF RetestLoop, Wake, Term, ReaderWalks, WriterWalks, OthersWalk, Looping
  <2> QED BY <2>1, <2>2
<1>8. CASE Usr1
  <2>1. /\ at' \in [Walkers -> Places] /\ \A v \in Walkers : v # "flusher" => at'[v] = at[v]
        /\ at'["flusher"] # None => at'["flusher"][1] = "flush"
    BY Zenon, <1>8, <1>k, EnterWalks DEF Usr1, Begin
  <2>2. TypeOK' /\ MainWalks'
    BY <1>8, <2>1 DEF Usr1, TypeOK, MainWalks
  <2>3. ReaderWalks' /\ WriterWalks' /\ OthersWalk'
    BY <1>8, <2>1 DEF Usr1, TypeOK, ReaderWalks, WriterWalks, OthersWalk
  <2> QED BY <2>2, <2>3
<1>9. CASE Flusher
  <2>1. CASE at["flusher"] = None
    BY <1>9, <2>1 DEF Flusher, TypeOK, MainWalks, ReaderWalks, WriterWalks, OthersWalk
  <2>2. CASE at["flusher"] # None
    <3>1. /\ at' \in [Walkers -> Places] /\ \A v \in Walkers : v # "flusher" => at'[v] = at[v]
          /\ at'["flusher"] # None => at'["flusher"][1] = at["flusher"][1]
          /\ bad' \subseteq Kinds \X Walkers
      BY <1>9, <2>2, StepWalks DEF Flusher, TypeOK
    <3> QED BY <1>9, <2>2, <3>1 DEF Flusher, TypeOK, MainWalks, ReaderWalks, WriterWalks, OthersWalk
  <2> QED BY <2>1, <2>2
<1>10. CASE Reader
  <2>1. /\ at' \in [Walkers -> Places] /\ \A v \in Walkers : v # "reader" => at'[v] = at[v]
        /\ at'["reader"] # None => at'["reader"][1] \in {"read", "flush"}
        /\ bad' \subseteq Kinds \X Walkers
    BY <1>10, <1>k DEF Reader, TypeOK, Places
  <2> QED BY <1>10, <2>1 DEF Reader, TypeOK, MainWalks, ReaderWalks, WriterWalks, OthersWalk
<1>11. CASE Writer
  <2>1. /\ at' \in [Walkers -> Places] /\ \A v \in Walkers : v # "writer" => at'[v] = at[v]
        /\ at'["writer"] # None => at'["writer"][1] \in {"write", "notification"}
        /\ bad' \subseteq Kinds \X Walkers
    <3>1. CASE Begin("writer", "write") /\ UNCHANGED bad
      BY ZenonT(60), <3>1, <1>k, EnterWalks DEF Begin, TypeOK
    <3>2. CASE at["writer"] # None /\ Step("writer")
      BY <3>2, StepWalks DEF TypeOK, WriterWalks
    <3>3. CASE at' = [at EXCEPT !["writer"] = First("notification")] /\ UNCHANGED bad
      BY ZenonT(60), <3>3, <1>k, EnterWalks DEF TypeOK
    <3> QED BY <1>11, <3>1, <3>2, <3>3 DEF Writer
  <2> QED BY <1>11, <2>1 DEF Writer, TypeOK, MainWalks, ReaderWalks, WriterWalks, OthersWalk
<1>12. ASSUME NEW q \in Threaded, PluginThread(q) PROVE WalkInv'
  <2>1. /\ at' \in [Walkers -> Places] /\ \A v \in Walkers : v # q => at'[v] = at[v]
        /\ at'[q] # None => at'[q][1] = "notification"
        /\ bad' \subseteq Kinds \X Walkers
    <3>1. CASE UNCHANGED <<at, bad>>
      BY <3>1 DEF TypeOK, OthersWalk
    <3>2. CASE Begin(q, "notification") /\ UNCHANGED bad
      BY Zenon, <3>2, <1>k, EnterWalks DEF Begin, TypeOK
    <3>3. CASE at[q] # None /\ Step(q)
      BY <3>3, StepWalks DEF TypeOK, OthersWalk
    <3> QED BY <1>12, <3>1, <3>2, <3>3 DEF PluginThread
  <2>2. TypeOK' /\ MainWalks'
    BY <1>12, <2>1 DEF PluginThread, TypeOK, MainWalks
  <2>3. ReaderWalks' /\ WriterWalks' /\ OthersWalk'
    BY <1>12, <2>1 DEF PluginThread, ReaderWalks, WriterWalks, OthersWalk
  <2> QED BY <2>2, <2>3
<1>21. ASSUME NEW q \in Threaded, PluginThreadEnds(q) PROVE WalkInv'
  BY <1>21 DEF PluginThreadEnds, TypeOK, MainWalks, ReaderWalks, WriterWalks, OthersWalk
<1>22. ASSUME NEW d \in Detached, Spawn(d) PROVE WalkInv'
  BY <1>22 DEF Spawn, TypeOK, MainWalks, ReaderWalks, WriterWalks, OthersWalk
<1>23. ASSUME NEW d \in Detached, DetachedThread(d) PROVE WalkInv'
  <2>1. /\ at' \in [Walkers -> Places] /\ \A v \in Walkers : v # d => at'[v] = at[v]
        /\ at'[d] # None => at'[d][1] \in {"flush", "notification"}
        /\ bad' \subseteq Kinds \X Walkers
    <3>1. CASE UNCHANGED <<at, bad>>
      BY <3>1 DEF TypeOK, OthersWalk
    <3>2. ASSUME NEW k \in {"notification", "flush"}, Begin(d, k) /\ UNCHANGED bad
          PROVE  /\ at' \in [Walkers -> Places] /\ \A v \in Walkers : v # d => at'[v] = at[v]
                 /\ at'[d] # None => at'[d][1] = k
                 /\ bad' \subseteq Kinds \X Walkers
      BY Zenon, <3>2, <1>k, EnterWalks DEF Begin, TypeOK
    <3>3. CASE at[d] # None /\ Step(d)
      BY <3>3, StepWalks DEF TypeOK, OthersWalk
    <3> QED BY <1>23, <3>1, <3>2, <3>3 DEF DetachedThread
  <2>2. alive' \subseteq alive /\ \A v \in alive : v # d => v \in alive'
    BY <1>23 DEF DetachedThread
  <2>3. TypeOK' /\ MainWalks'
    BY <1>23, <2>1, <2>2 DEF DetachedThread, TypeOK, MainWalks
  <2>4. ReaderWalks' /\ WriterWalks' /\ OthersWalk'
    BY <1>23, <2>1, <2>2 DEF DetachedThread, ReaderWalks, WriterWalks, OthersWalk
  <2> QED BY <2>3, <2>4
<1>13. CASE DestroyInit
  BY Zenon, <1>13 DEF DestroyInit, TypeOK, MainWalks, ReaderWalks, WriterWalks, OthersWalk, Looping
<1>14. CASE JoinRead
  BY Zenon, <1>14 DEF JoinRead, JoinedRead, TypeOK, MainWalks, ReaderWalks, WriterWalks, OthersWalk, Looping
<1>15. CASE JoinWrite
  <2>1. /\ at' \in [Walkers -> Places] /\ \A v \in Walkers : v # "main" => at'[v] = at[v]
        /\ at'["main"] = First("flush") /\ (at'["main"] # None => at'["main"][1] = "flush")
    BY Zenon, <1>15, <1>k, EnterWalks DEF JoinWrite, Begin
  <2>2. TypeOK' /\ MainWalks'
    BY <1>15, <2>1 DEF JoinWrite, TypeOK, MainWalks
  <2>3. ReaderWalks' /\ WriterWalks' /\ OthersWalk'
    BY <1>15, <2>1 DEF JoinWrite, JoinedWrite, ReaderWalks, WriterWalks, OthersWalk, Looping
  <2> QED BY <2>2, <2>3
<1>16. CASE EnterShutdown
  <2>1. left' \in ({"shutdown"} \X Plugins) \cup {None}
    BY <1>16, <1>k, FirstIsLinked DEF EnterShutdown
  <2> QED BY <1>16, <2>1
    DEF EnterShutdown, TypeOK, Late, MainWalks, ReaderWalks, WriterWalks, OthersWalk, Looping
<1>17. CASE CallShutdown
  <2>1. CASE UNCHANGED at /\ pc' = "free" /\ left' = None
    BY <1>17, <2>1, <1>k
    DEF CallShutdown, TypeOK, Late, MainWalks, ReaderWalks, WriterWalks, OthersWalk, Looping
  <2>2. CASE left # None /\ Linked(left)
    <3>1. left \in Kinds \X Plugins /\ left[1] = "shutdown" /\ left[2] \in Plugins
      BY <2>2, <1>k DEF TypeOK
    <3>2. left' \in ({"shutdown"} \X Plugins) \cup {None}
      BY <1>17, <2>2, <3>1, AfterIsLinked DEF CallShutdown, LeftDuringCall
    <3>3. /\ at' \in [Walkers -> Places] /\ at'["main"] = left
          /\ \A v \in Walkers : v # "main" => at'[v] = at[v]
      BY <1>17, <2>2, <3>1 DEF CallShutdown, TypeOK, Places
    <3>4. TypeOK' /\ MainWalks'
      BY Zenon, <1>17, <2>2, <3>1, <3>2, <3>3 DEF CallShutdown, TypeOK, Late, MainWalks
    <3>5. ReaderWalks' /\ WriterWalks' /\ OthersWalk'
      BY <1>17, <2>2, <3>3 DEF CallShutdown, ReaderWalks, WriterWalks, OthersWalk, Looping
    <3> QED BY <3>4, <3>5
  <2> QED BY <1>17, <2>1, <2>2 DEF CallShutdown
<1>18. CASE ShutdownReturns
  <2>1. at["main"] \in Kinds \X Plugins /\ at["main"][2] \in Plugins
    BY <1>18 DEF ShutdownReturns, MainWalks, TypeOK, Places
  <2>2. lists' \in [Kinds -> SUBSET Plugins]
    BY <1>18 DEF ShutdownReturns, TypeOK
  <2>3. TypeOK' /\ MainWalks'
    BY <1>18, <2>1, <2>2 DEF ShutdownReturns, TypeOK, Places, Late, MainWalks
  <2>4. ReaderWalks' /\ WriterWalks' /\ OthersWalk'
    BY <1>18 DEF ShutdownReturns, TypeOK, ReaderWalks, WriterWalks, OthersWalk, Looping
  <2> QED BY <2>3, <2>4
<1>19. CASE DestroyFlush \/ DestroyRest \/ Exit
  BY <1>19 DEF DestroyFlush, DestroyRest, Exit, TypeOK, Late, MainWalks, ReaderWalks, WriterWalks, OthersWalk, Looping
<1>20. CASE UNCHANGED vars
  BY <1>20 DEF vars, TypeOK, MainWalks, ReaderWalks, WriterWalks, OthersWalk
<1> QED
  BY Zenon, <1>1, <1>2, <1>3, <1>4, <1>5, <1>6, <1>7, <1>8, <1>9, <1>10, <1>11, <1>12, <1>13, <1>14,
     <1>15, <1>16, <1>17, <1>18, <1>19, <1>20, <1>21, <1>22, <1>23
  DEF Next, Main, plugin_shutdown_all
-----------------------------------------------------------------------------
(* Entries are only ever taken out of the lists, an initialisation fails   *)
(* only while there are no read threads, and plugins are shut down last.   *)
LEMMA LifeStep == WalkInv /\ LifeInv /\ [Next]_vars => LifeInv'
<1> SUFFICES ASSUME WalkInv, LifeInv, [Next]_vars PROVE LifeInv'
  OBVIOUS
<1>t. /\ TypeOK /\ MainWalks /\ ReaderWalks /\ "read" \in Kinds /\ "main" \in Walkers /\ "reader" \in Walkers
      /\ FailedIsNotRead /\ ShutdownIsLate /\ at \in [Walkers -> Places]
  BY WalkerNames DEF WalkInv, LifeInv, TypeOK, Kinds
<1>1. CASE InitReturns
  <2>1. at["main"] # None /\ Step("main") /\ at["reader"] = None
    BY <1>1, <1>t DEF InitReturns, MainWalks, ReaderWalks, Looping
  <2>2. at'["reader"] = None
    BY <2>1, <1>t, StepWalks
  <2>3. failed' \cap SameName \cap lists'["read"] = {}
    BY <1>1, <1>t DEF InitReturns, AfterFailure, FailedIsNotRead, TypeOK
  <2>4. ShutdownIsLate'
    BY <1>1, <1>t DEF InitReturns, ShutdownIsLate, Late
  <2> QED BY <2>2, <2>3, <2>4 DEF LifeInv, FailedIsNotRead
<1>2. ASSUME UNCHANGED failed, lists'["read"] \subseteq lists["read"],
             \/ at'["reader"] = at["reader"]
             \/ at'["reader"] = None
             \/ at'["reader"][1] = "flush"
             \/ at'["reader"][1] = "read" /\ at'["reader"][2] \in lists["read"]
      PROVE  FailedIsNotRead'
  BY <1>2, <1>t DEF FailedIsNotRead
<1>3. ASSUME UNCHANGED <<down, stopping>>, pc \in Late => pc' \in Late PROVE ShutdownIsLate'
  BY <1>3, <1>t DEF ShutdownIsLate
<1>5. ASSUME NEW w \in Walkers, w # "reader", at[w] # None, Step(w)
      PROVE  at'["reader"] = at["reader"]
  BY <1>5, <1>t, StepWalks
<1>6. CASE EnterInit \/ TestLoop \/ JoinWrite \/ Usr1
  <2>1. UNCHANGED <<failed, lists, down, stopping>> /\ (pc \in Late => pc' \in Late)
    BY <1>6 DEF EnterInit, TestLoop, JoinWrite, Usr1, Late
  <2>2. at'["reader"] = at["reader"]
    BY <1>6, <1>t, WalkerNames DEF EnterInit, TestLoop, JoinWrite, Usr1, Begin
  <2> QED BY <1>2, <1>3, <2>1, <2>2 DEF LifeInv
<1>7. CASE MissingReturns \/ NotificationReturns \/ FlushReturns
  <2>1. UNCHANGED <<failed, lists, down, stopping>> /\ (pc \in Late => pc' \in Late)
    BY <1>7 DEF MissingReturns, NotificationReturns, FlushReturns, Late
  <2>2. at["main"] # None
    BY <1>7, <1>t DEF MissingReturns, NotificationReturns, FlushReturns, MainWalks
  <2>3. at'["reader"] = at["reader"]
    BY <1>7, <1>5, <1>t, <2>2 DEF MissingReturns, NotificationReturns, FlushReturns
  <2> QED BY <1>2, <1>3, <2>1, <2>3 DEF LifeInv
<1>8. CASE \/ Flusher \/ Writer
           \/ \E q \in Threaded : PluginThread(q)
           \/ \E d \in Detached : DetachedThread(d)
  <2>1. UNCHANGED <<failed, lists, down, stopping, pc>>
    BY <1>8 DEF Flusher, Writer, PluginThread, DetachedThread
  <2>2. at'["reader"] = at["reader"]
    BY <1>8, <1>5, <1>t, WalkerNames DEF Flusher, Writer, PluginThread, DetachedThread, Begin
  <2> QED BY <1>2, <1>3, <2>1, <2>2 DEF LifeInv
<1>9. CASE Reader
  <2>1. UNCHANGED <<failed, lists, down, stopping, pc>>
    BY <1>9 DEF Reader
  <2>2. \/ at'["reader"] = None
        \/ at'["reader"][1] = "flush"
        \/ at'["reader"][1] = "read" /\ at'["reader"][2] \in lists["read"]
    BY <1>9, <1>t DEF Reader
  <2> QED BY <1>2, <1>3, <2>1, <2>2 DEF LifeInv
<1>10. CASE \/ StartThreads \/ RetestLoop \/ Wake \/ Term \/ EnterShutdown \/ Exit \/ UNCHANGED vars
            \/ \E q \in Threaded : PluginThreadEnds(q)
            \/ \E d \in Detached : Spawn(d)
  <2>1. UNCHANGED <<failed, lists, down, stopping, at>> /\ (pc \in Late => pc' \in Late)
    BY <1>10 DEF StartThreads, RetestLoop, Wake, Term, EnterShutdown, Exit, PluginThreadEnds, Spawn,
                 vars, Late
  <2> QED BY <1>2, <1>3, <2>1 DEF LifeInv
<1>11. CASE DestroyInit \/ JoinRead \/ DestroyFlush \/ DestroyRest
  <2>1. UNCHANGED <<failed, down, stopping, at>> /\ (pc \in Late => pc' \in Late)
    BY <1>11 DEF DestroyInit, JoinRead, DestroyFlush, DestroyRest, Late
  <2>2. lists'["read"] \subseteq lists["read"]
    BY <1>11, <1>t DEF DestroyInit, JoinRead, DestroyFlush, DestroyRest, TypeOK
  <2> QED BY <1>2, <1>3, <2>1, <2>2 DEF LifeInv
<1>12. CASE CallShutdown \/ ShutdownReturns
  <2>1. UNCHANGED failed /\ pc' \in Late /\ at'["reader"] = at["reader"]
    BY <1>12, <1>t DEF CallShutdown, ShutdownReturns, Late
  <2>2. lists'["read"] \subseteq lists["read"]
    BY <1>12, <1>t DEF CallShutdown, ShutdownReturns, TypeOK
  <2> QED BY <1>2, <2>1, <2>2 DEF LifeInv, ShutdownIsLate
<1> QED
  BY Zenon, <1>1, <1>6, <1>7, <1>8, <1>9, <1>10, <1>11, <1>12
  DEF Next, Main, plugin_shutdown_all

(* Read, write and missing callbacks run between the last init callback    *)
(* and the plugin's own shutdown callback, and a read callback with the    *)
(* name of an init callback that failed never, whatever plugins, callbacks *)
(* and threads, joined or detached, there are and whenever the signals     *)
(* come.                                                                   *)
THEOREM LifeCorrect == Spec => []CallbacksWithinLife
<1>1. Init => WalkInv /\ LifeInv
  <2>1. Init => LifeInv
    BY WalkerNames DEF Init, LifeInv, FailedIsNotRead, ShutdownIsLate
  <2> QED BY <2>1, WalkInit
<1>2. WalkInv /\ LifeInv /\ [Next]_vars => (WalkInv /\ LifeInv)'
  BY WalkStep, LifeStep
<1>3. WalkInv /\ LifeInv => CallbacksWithinLife
  <2> SUFFICES ASSUME WalkInv, LifeInv, NEW w \in Walkers, at[w] # None
               PROVE  /\ at[w][1] \in {"read", "write", "missing"} => pc \notin Early
                      /\ at[w][1] = "read" => at[w][2] \notin failed \cap SameName
                      /\ at[w][2] \in down \cup stopping /\ w # "main" =>
                           \/ at[w][1] = "flush" /\ w \in {"flusher"} \cup Detached
                           \/ at[w][1] = "notification" /\ w \in Threaded \cup Detached
    BY DEF CallbacksWithinLife, Early
  <2> USE DEF WalkInv, LifeInv
  <2>1. CASE w = "main"
    BY <2>1 DEF MainWalks, Early
  <2>2. CASE w = "reader"
    BY <2>2 DEF ReaderWalks, FailedIsNotRead, ShutdownIsLate, Early, Looping, Late
  <2>3. CASE w = "writer"
    BY <2>3 DEF WriterWalks, ShutdownIsLate, Early, Looping, Late
  <2>4. CASE w = "flusher" \/ w \in Threaded \/ w \in Detached
    BY <2>4 DEF OthersWalk
  <2> QED BY SMTT(30), <2>1, <2>2, <2>3, <2>4 DEF Walkers
<1> QED BY <1>1, <1>2, <1>3, PTL DEF Spec
-----------------------------------------------------------------------------
(* The walk of list_shutdown stands on linked entries, and comes to every  *)
(* plugin whose thread runs before the lists are freed.                    *)
LEMMA JoinStep == WalkInv /\ JoinInv /\ [Next]_vars => JoinInv'
<1> SUFFICES ASSUME WalkInv, JoinInv, [Next]_vars PROVE JoinInv'
  OBVIOUS
<1>t. /\ TypeOK /\ MainWalks /\ LeftIsLinked /\ ThreadsAreListed /\ JoinedInOrder
      /\ "main" \in Walkers /\ "shutdown" \in Kinds /\ "read" \in Kinds
  BY WalkerNames DEF WalkInv, JoinInv, Kinds
<1>q. ASSUME UNCHANGED left, alive' \cap Threaded \subseteq alive,
             lists'["shutdown"] = lists["shutdown"], pc' \in Early => pc \in Early,
             \/ pc \notin Late /\ pc' \notin Late
             \/ UNCHANGED pc /\ at'["main"] = at["main"]
      PROVE  JoinInv'
  <2>1. LeftIsLinked'
    BY <1>q, <1>t DEF LeftIsLinked, Linked, Late, TypeOK
  <2>2. ThreadsAreListed'
    BY <1>q, <1>t DEF ThreadsAreListed
  <2>3. JoinedInOrder'
    BY <1>q, <1>t DEF JoinedInOrder
  <2> QED BY <2>1, <2>2, <2>3 DEF JoinInv
<1>1. CASE \/ EnterInit \/ StartThreads \/ TestLoop \/ RetestLoop \/ Wake
           \/ DestroyInit \/ JoinRead \/ JoinWrite
  <2>1. UNCHANGED left /\ alive' \cap Threaded \subseteq alive
    BY <1>1, WalkerNames DEF EnterInit, StartThreads, TestLoop, RetestLoop, Wake, DestroyInit,
                             JoinRead, JoinWrite
  <2>2. lists'["shutdown"] = lists["shutdown"]
    BY <1>1, <1>t DEF EnterInit, StartThreads, TestLoop, RetestLoop, Wake, DestroyInit,
                      JoinRead, JoinWrite, TypeOK
  <2>3. pc \notin Late /\ pc' \notin Late /\ (pc' \in Early => pc \in Early)
    BY <1>1 DEF EnterInit, StartThreads, TestLoop, RetestLoop, Wake, DestroyInit,
                JoinRead, JoinWrite, Early, Late
  <2> QED BY <1>q, <2>1, <2>2, <2>3
<1>2. CASE MissingReturns \/ NotificationReturns \/ FlushReturns \/ Term
  <2>1. UNCHANGED <<left, alive, lists>>
    BY <1>2 DEF MissingReturns, NotificationReturns, FlushReturns, Term
  <2>2. /\ pc' \in Early => pc \in Early
        /\ \/ pc \notin Late /\ pc' \notin Late
           \/ UNCHANGED pc /\ at'["main"] = at["main"]
    BY <1>2 DEF MissingReturns, NotificationReturns, FlushReturns, Term, Early, Late
  <2> QED BY <1>q, <2>1, <2>2
<1>3. CASE \/ Usr1 \/ Flusher \/ Reader \/ Writer
           \/ \E q \in Threaded : PluginThread(q) \/ PluginThreadEnds(q)
           \/ \E d \in Detached : Spawn(d) \/ DetachedThread(d)
  <2>1. UNCHANGED <<pc, left, lists>> /\ alive' \cap Threaded \subseteq alive
    BY <1>3, WalkerNames
    DEF Usr1, Flusher, Reader, Writer, PluginThread, PluginThreadEnds, Spawn, DetachedThread
  <2>2. ASSUME NEW w \in Walkers, w # "main", Step(w) PROVE at'["main"] = at["main"]
    BY <2>2, <1>t DEF Step, TypeOK
  <2>3. at'["main"] = at["main"]
    BY <1>3, <1>t, <2>2, WalkerNames
    DEF Usr1, Flusher, Reader, Writer, PluginThread, PluginThreadEnds, Spawn, DetachedThread,
        Begin, TypeOK
  <2> QED BY <1>q, <2>1, <2>3
<1>4. CASE InitReturns
  <2>1. pc \in Early /\ pc' \in Early /\ UNCHANGED left
    BY <1>4 DEF InitReturns, Early
  <2>2. lists'["shutdown"] = lists["shutdown"] /\ alive' \cap Threaded \subseteq alive \cup Threaded
    BY <1>4, <1>t DEF InitReturns, TypeOK
  <2>3. ThreadsAreListed'
    BY <1>t, <2>1, <2>2, DaemonAssumption DEF ThreadsAreListed
  <2>4. LeftIsLinked' /\ JoinedInOrder'
    BY <1>t, <2>1 DEF LeftIsLinked, JoinedInOrder, Early, Late
  <2> QED BY <2>3, <2>4 DEF JoinInv
<1>5. CASE EnterShutdown
  <2>1. /\ UNCHANGED <<alive, lists, at>> /\ pc' = "next" /\ pc = "shutdown"
        /\ left' = First("shutdown")
    BY <1>5 DEF EnterShutdown
  <2>2. left' # None => Linked(left')
    BY <2>1, <1>t, FirstIsLinked
  <2>3. LeftIsLinked'
    BY SMTT(30), <2>1, <2>2 DEF LeftIsLinked, Linked
  <2>4. \A q \in alive' \cap Threaded : left' # None /\ Rank[left'[2]] <= Rank[q]
    BY <2>1, <1>t, FirstIsLeast DEF ThreadsAreListed
  <2>5. ThreadsAreListed' /\ JoinedInOrder'
    BY <2>1, <2>4, <1>t DEF ThreadsAreListed, JoinedInOrder, Early
  <2> QED BY <2>3, <2>5 DEF JoinInv
<1>6. CASE CallShutdown
  <2>1. pc = "next" /\ UNCHANGED <<lists, alive>>
    BY <1>6 DEF CallShutdown
  <2>2. pc' \notin Early
    BY <1>6 DEF CallShutdown, Early
  <2>3. ThreadsAreListed'
    BY <2>1, <2>2, <1>t DEF ThreadsAreListed
  <2>4. CASE left = None
    <3>1. UNCHANGED <<at, left>>
      BY <1>6, <2>4 DEF CallShutdown
    <3>2. alive \cap Threaded = {}
      BY <2>1, <2>4, <1>t DEF JoinedInOrder, Late
    <3> QED BY <2>1, <2>3, <2>4, <3>1, <3>2 DEF JoinInv, LeftIsLinked, JoinedInOrder
  <2>5. CASE left # None
    <3>1. Linked(left) /\ left \in Kinds \X Plugins /\ left[1] = "shutdown" /\ left[2] \in Plugins
      BY <2>5, <1>t DEF LeftIsLinked, TypeOK
    <3>2. at' = [at EXCEPT !["main"] = left] /\ left' = After(left) /\ pc' = "joining"
      BY <1>6, <2>5, <3>1 DEF CallShutdown, LeftDuringCall
    <3>3. at'["main"] = left
      BY <3>2, <1>t DEF TypeOK
    <3>4. left' # None => Linked(left') /\ Rank[left'[2]] > Rank[left[2]]
      BY <3>1, <3>2, <1>t, AfterIsLinked
    <3>5. LeftIsLinked'
      BY <2>1, <3>2, <3>3, <3>4 DEF LeftIsLinked, Linked
    <3>6. ASSUME NEW q \in alive \cap Threaded, q # left[2]
          PROVE  left' # None /\ Rank[left'[2]] <= Rank[q]
      <4>1. q \in lists[left[1]] /\ q \in Plugins
        BY <3>1, <3>6, <1>t, WalkerNames DEF ThreadsAreListed
      <4>2. Rank[left[2]] <= Rank[q]
        BY <2>1, <3>6, <1>t DEF JoinedInOrder, Late
      <4>3. Rank[left[2]] # Rank[q]
        BY <3>1, <3>6, <4>1, DaemonAssumption DEF Injection, IsInjective
      <4>4. Rank[q] > Rank[left[2]]
        BY <3>1, <4>1, <4>2, <4>3, RankType
      <4> QED BY <3>1, <3>2, <4>1, <4>4, <1>t, AfterIsLeast
    <3>7. JoinedInOrder'
      BY <2>1, <3>2, <3>3, <3>6 DEF JoinedInOrder
    <3> QED BY <2>3, <3>5, <3>7 DEF JoinInv
  <2> QED BY <2>4, <2>5
<1>7. CASE ShutdownReturns
  <2> DEFINE p == at["main"][2]
  <2>1. /\ pc = "joining" /\ pc' = "next" /\ UNCHANGED <<left, alive>> /\ p \notin alive
        /\ lists' = IF p \notin Unregistering THEN lists ELSE [k \in Kinds |-> lists[k] \ {p}]
    BY <1>7 DEF ShutdownReturns
  <2>2. left # None => Linked(left) /\ Rank[left[2]] > Rank[p] /\ left[1] \in Kinds /\ left[2] \in Plugins
    BY SMTT(30), <2>1, <1>t DEF LeftIsLinked, TypeOK
  <2>3. \A q \in alive \cap Threaded : left # None /\ Rank[left[2]] <= Rank[q]
    BY <2>1, <1>t DEF JoinedInOrder, Late
  <2> HIDE DEF p
  <2>4. left # None => left[2] # p
    BY <2>2, RankType
  <2>5. left # None => Linked(left)'
    BY SMTT(30), <2>1, <2>2, <2>4 DEF Linked
  <2>6. LeftIsLinked'
    BY <2>1, <2>5 DEF LeftIsLinked, Linked
  <2>7. lists["shutdown"] \ {p} \subseteq lists'["shutdown"]
    BY <2>1, <1>t
  <2>8. ThreadsAreListed' /\ JoinedInOrder'
    BY <2>1, <2>3, <2>7, <1>t DEF ThreadsAreListed, JoinedInOrder, Early
  <2> QED BY <2>6, <2>8 DEF JoinInv
<1>8. CASE DestroyFlush \/ DestroyRest \/ Exit
  <2>1. /\ pc \in {"free", "free_rest", "freed"} /\ pc' \in {"free_rest", "freed", "exited"}
        /\ UNCHANGED <<left, alive>>
    BY <1>8 DEF DestroyFlush, DestroyRest, Exit
  <2>2. left = None /\ alive \cap Threaded = {}
    BY <2>1, <1>t DEF LeftIsLinked, JoinedInOrder, Late
  <2> QED BY <2>1, <2>2 DEF JoinInv, LeftIsLinked, ThreadsAreListed, JoinedInOrder, Early
<1>9. CASE UNCHANGED vars
  BY <1>9, <1>q DEF vars
<1> QED
  BY Zenon, <1>1, <1>2, <1>3, <1>4, <1>5, <1>6, <1>7, <1>8, <1>9 DEF Next, Main, plugin_shutdown_all
-----------------------------------------------------------------------------
(* One walker moves, to a linked entry or to the end, and the lists stay.  *)
LEMMA FirmMove ==
  ASSUME StandsFirm, NEW w \in Walkers, UNCHANGED lists,
         \A v \in Walkers : v # w => at'[v] = at[v],
         at'[w] # None => Linked(at'[w])
  PROVE  StandsFirm'
BY DEF StandsFirm, MayStray, Linked

(* Nobody moves, and the entries that are taken out are of a kind nobody   *)
(* stands on, but for those who may.                                       *)
LEMMA FirmCut ==
  ASSUME StandsFirm, UNCHANGED at,
         \A w \in Walkers : at[w] # None /\ Linked(at[w]) => Linked(at[w])' \/ MayStray(w)'
  PROVE  StandsFirm'
BY DEF StandsFirm, MayStray, Linked

(* What is read in a freed entry is read by those who may stray.           *)
LEMMA BadStep ==
  ASSUME WalkInv, StandsFirm, FreedIsReadOnlyBy, NEW w \in Walkers, at[w] # None,
         bad' = IF Linked(at[w]) THEN bad ELSE bad \cup {<<at[w][1], w>>}
  PROVE  FreedIsReadOnlyBy'
<1>1. CASE Linked(at[w])
  BY <1>1 DEF FreedIsReadOnlyBy
<1>2. CASE ~Linked(at[w])
  <2> DEFINE new == <<at[w][1], w>>
  <2>1. w = "flusher" \/ w \in Detached \/ (w \in Threaded /\ Unregistering # {})
    BY <1>2 DEF StandsFirm, MayStray
  <2>2. \/ new = <<"flush", "flusher">>
        \/ new[1] \in {"flush", "notification"} /\ new[2] \in Detached
        \/ new[1] = "notification" /\ new[2] \in Threaded /\ Unregistering # {}
    BY <2>1 DEF WalkInv, OthersWalk
  <2>3. bad' = bad \cup {new}
    BY <1>2
  <2> HIDE DEF new
  <2> QED BY <2>2, <2>3 DEF FreedIsReadOnlyBy
<1> QED BY <1>1, <1>2

LEMMA FreedStep == WalkInv /\ JoinInv /\ FreedInv /\ [Next]_vars => FreedInv'
<1> SUFFICES ASSUME WalkInv, JoinInv, FreedInv, [Next]_vars PROVE FreedInv'
  OBVIOUS
<1>t. /\ TypeOK /\ MainWalks /\ ReaderWalks /\ WriterWalks /\ OthersWalk
      /\ StandsFirm /\ LeftIsLinked /\ JoinedInOrder /\ FreedIsReadOnlyBy
      /\ {"main", "reader", "writer", "flusher"} \subseteq Walkers
      /\ {"init", "read", "write", "missing", "flush", "notification", "shutdown"} \subseteq Kinds
  BY WalkerNames DEF WalkInv, JoinInv, FreedInv, Kinds
<1>m. /\ at["main"] = None => pc \notin {"initing", "missing", "notifying", "flush", "joining"}
      /\ at["main"] # None => pc \in {"initing", "missing", "notifying", "flush", "joining"}
      /\ pc = "initing" => at["main"][1] = "init"
  <2>1. CASE at["main"] = None
    BY <2>1, <1>t DEF MainWalks
  <2>2. CASE at["main"] # None
    BY <2>2, <1>t DEF MainWalks
  <2> QED BY <2>1, <2>2
<1>b. ASSUME UNCHANGED bad PROVE FreedIsReadOnlyBy'
  BY <1>b, <1>t DEF FreedIsReadOnlyBy
<1>s. ASSUME NEW w \in Walkers, at[w] # None, Step(w), UNCHANGED lists
      PROVE  /\ StandsFirm' /\ FreedIsReadOnlyBy'
             /\ \A v \in Walkers : v # w => at'[v] = at[v]
  <2>1. /\ \A v \in Walkers : v # w => at'[v] = at[v]
        /\ at'[w] # None => Linked(at'[w])
        /\ bad' = IF Linked(at[w]) THEN bad ELSE bad \cup {<<at[w][1], w>>}
    BY SMTT(30), <1>s, <1>t, StepWalks
  <2>2. StandsFirm'
    BY SMTT(30), <1>s, <1>t, <2>1, FirmMove
  <2>3. FreedIsReadOnlyBy'
    BY SMTT(30), <1>s, <1>t, <2>1, BadStep
  <2> QED BY <2>1, <2>2, <2>3
<1>e. ASSUME NEW w \in Walkers, NEW k \in Kinds, at' = [at EXCEPT ![w] = First(k)], UNCHANGED lists
      PROVE  StandsFirm' /\ \A v \in Walkers : v # w => at'[v] = at[v]
  <2>1. /\ \A v \in Walkers : v # w => at'[v] = at[v]
        /\ at'[w] # None => Linked(at'[w])
    BY Zenon, <1>e, <1>t, EnterWalks
  <2> QED BY <1>e, <1>t, <2>1, FirmMove
<1>n. ASSUME NEW w \in Walkers, at' = [at EXCEPT ![w] = None], UNCHANGED lists
      PROVE  StandsFirm' /\ \A v \in Walkers : v # w => at'[v] = at[v]
  <2>1. at'[w] = None /\ \A v \in Walkers : v # w => at'[v] = at[v]
    BY <1>n, <1>t DEF TypeOK
  <2> QED BY <1>n, <1>t, <2>1, FirmMove
<1>u. ASSUME UNCHANGED <<lists, at>> PROVE StandsFirm'
  BY <1>u, <1>t DEF StandsFirm, MayStray, Linked
<1>1. CASE EnterInit \/ (TestLoop /\ ~UNCHANGED at) \/ JoinWrite \/ Usr1
  <2>1. /\ UNCHANGED <<lists, bad>>
        /\ \E w \in Walkers, k \in Kinds : at' = [at EXCEPT ![w] = First(k)]
    BY <1>1, <1>t DEF EnterInit, TestLoop, JoinWrite, Usr1, Begin
  <2> QED BY Zenon, <2>1, <1>t, <1>b, <1>e DEF FreedInv
<1>2. CASE InitReturns
  <2>1. at["main"] # None /\ at["main"][1] = "init" /\ Step("main") /\ pc = "initing"
    <3>1. Step("main") /\ pc = "initing"
      BY <1>2 DEF InitReturns
    <3> QED BY <3>1, <1>m
  <2>2. /\ at' \in [Walkers -> Places] /\ at["main"] \in Kinds \X Plugins
        /\ \A v \in Walkers : v # "main" => at'[v] = at[v]
        /\ at'["main"] # None => at'["main"][1] = "init" /\ Linked(at'["main"])
        /\ bad' = IF Linked(at["main"]) THEN bad ELSE bad \cup {<<at["main"][1], "main">>}
    BY SMTT(30), <2>1, <1>t, StepWalks
  <2>3. \A k \in Kinds : k # "read" => lists'[k] = lists[k]
    BY <1>2, <1>t DEF InitReturns, TypeOK
  <2>4. \A v \in Walkers : at[v] # None => at[v][1] \in Kinds /\ at[v][1] # "read"
    <3>1. at["reader"] = None /\ at["writer"] = None
      BY SMTT(30), <1>2, <1>t DEF InitReturns, ReaderWalks, WriterWalks, Looping
    <3> QED BY <1>t, <2>1, <3>1 DEF Walkers, OthersWalk
  <2>5. \A v \in Walkers : at'[v] # None => Linked(at[v])' \/ MayStray(v)
    BY SMTT(30), <2>1, <2>2, <2>3, <2>4, <1>t DEF StandsFirm, Linked
  <2>6. StandsFirm'
    BY <2>5 DEF StandsFirm, MayStray
  <2>7. FreedIsReadOnlyBy'
    BY SMTT(30), <1>2, <2>1, <2>2, <1>t, BadStep DEF InitReturns
  <2> QED BY <2>6, <2>7 DEF FreedInv
<1>3. CASE \/ StartThreads \/ RetestLoop \/ Wake \/ Term \/ (TestLoop /\ UNCHANGED at)
           \/ EnterShutdown \/ Exit \/ UNCHANGED vars
           \/ \E q \in Threaded : PluginThreadEnds(q)
           \/ \E d \in Detached : Spawn(d)
  <2>1. UNCHANGED <<lists, at, bad>>
    <3>1. CASE StartThreads \/ RetestLoop \/ Wake
      BY <3>1 DEF StartThreads, RetestLoop, Wake
    <3>2. CASE Term \/ (TestLoop /\ UNCHANGED at)
      BY <3>2 DEF Term, TestLoop
    <3>3. CASE EnterShutdown \/ Exit \/ UNCHANGED vars
      BY <3>3 DEF EnterShutdown, Exit, vars
    <3>4. CASE \E q \in Threaded : PluginThreadEnds(q)
      BY <3>4 DEF PluginThreadEnds
    <3>5. CASE \E d \in Detached : Spawn(d)
      BY <3>5 DEF Spawn
    <3> QED BY Zenon, <1>3, <3>1, <3>2, <3>3, <3>4, <3>5
  <2> QED BY <2>1, <1>b, <1>u DEF FreedInv
<1>4. CASE MissingReturns
  <2>1. at["main"] # None /\ UNCHANGED lists
    BY <1>4, <1>t DEF MissingReturns, MainWalks
  <2>2. CASE Step("main")
    BY <2>1, <2>2, <1>s, <1>t DEF FreedInv
  <2>3. CASE at' = [at EXCEPT !["main"] = None] /\ bad' = bad
    BY Zenon, <2>1, <2>3, <1>n, <1>b, <1>t DEF FreedInv
  <2>4. CASE at' = [at EXCEPT !["main"] = First("notification")] /\ bad' = bad
    BY Zenon, <2>1, <2>4, <1>e, <1>b, <1>t DEF FreedInv
  <2> QED BY <1>4, <2>2, <2>3, <2>4 DEF MissingReturns
<1>5. CASE NotificationReturns \/ FlushReturns
  <2>1. at["main"] # None /\ Step("main") /\ UNCHANGED lists
    BY <1>5, <1>t DEF NotificationReturns, FlushReturns, MainWalks
  <2> QED BY <2>1, <1>s, <1>t DEF FreedInv
<1>6. CASE Flusher
  <2>1. CASE at["flusher"] = None
    <3>1. UNCHANGED <<lists, at, bad>>
      BY <1>6, <2>1 DEF Flusher
    <3> QED BY <3>1, <1>u, <1>b DEF FreedInv
  <2>2. CASE at["flusher"] # None
    BY <1>6, <2>2, <1>s, <1>t DEF Flusher, FreedInv
  <2> QED BY <2>1, <2>2
<1>7. CASE Reader
  <2>1. UNCHANGED lists
    BY <1>7 DEF Reader
  <2>2. /\ \A v \in Walkers : v # "reader" => at'[v] = at[v]
        /\ at'["reader"] # None => Linked(at'["reader"])
    BY <1>7, <1>t DEF Reader, TypeOK, Linked
  <2>3. StandsFirm'
    BY SMTT(30), <2>1, <2>2, <1>t, FirmMove
  <2>4. FreedIsReadOnlyBy'
    BY SMTT(30), <1>7, <1>t, <1>b, BadStep DEF Reader
  <2> QED BY <2>3, <2>4 DEF FreedInv
<1>8. CASE Writer
  <2>1. UNCHANGED lists
    BY SMTT(30), <1>8 DEF Writer
  <2>2. CASE \E k \in Kinds : at' = [at EXCEPT !["writer"] = First(k)] /\ UNCHANGED bad
    BY Zenon, <2>1, <2>2, <1>e, <1>b, <1>t DEF FreedInv
  <2>3. CASE at["writer"] # None /\ Step("writer")
    BY <2>1, <2>3, <1>s, <1>t DEF FreedInv
  <2> QED BY <1>8, <2>2, <2>3, <1>t DEF Writer, Begin
<1>9. ASSUME NEW q \in Threaded, PluginThread(q) PROVE FreedInv'
  <2>1. UNCHANGED lists /\ q \in Walkers
    BY <1>9, WalkerNames DEF PluginThread
  <2>2. CASE UNCHANGED <<at, bad>>
    BY <2>1, <2>2, <1>u, <1>b DEF FreedInv
  <2>3. CASE at' = [at EXCEPT ![q] = First("notification")] /\ UNCHANGED bad
    BY Zenon, <2>1, <2>3, <1>e, <1>b, <1>t DEF FreedInv
  <2>4. CASE at[q] # None /\ Step(q)
    BY <2>1, <2>4, <1>s DEF FreedInv
  <2> QED BY <1>9, <2>2, <2>3, <2>4 DEF PluginThread, Begin
<1>10. ASSUME NEW d \in Detached, DetachedThread(d) PROVE FreedInv'
  <2>1. UNCHANGED lists /\ d \in Walkers
    BY <1>10, WalkerNames DEF DetachedThread
  <2>2. CASE UNCHANGED <<at, bad>>
    BY <2>1, <2>2, <1>u, <1>b DEF FreedInv
  <2>3. CASE \E k \in Kinds : at' = [at EXCEPT ![d] = First(k)] /\ UNCHANGED bad
    BY Zenon, <2>1, <2>3, <1>e, <1>b DEF FreedInv
  <2>4. CASE at[d] # None /\ Step(d)
    BY <2>1, <2>4, <1>s DEF FreedInv
  <2> QED BY <1>10, <2>2, <2>3, <2>4, <1>t DEF DetachedThread, Begin
<1>11. CASE DestroyInit \/ JoinRead \/ DestroyFlush
  <2>1. UNCHANGED <<at, bad>> /\ at["main"] = None
    <3>1. UNCHANGED <<at, bad>> /\ pc \in {"destroy_init", "join_read", "free"}
      BY <1>11 DEF DestroyInit, JoinRead, DestroyFlush
    <3> QED BY <3>1, <1>m
  <2>2. PICK k \in {"init", "read", "flush"} :
          /\ lists' = [lists EXCEPT ![k] = {}]
          /\ k # "init" => at["reader"] = None
    BY SMTT(30), <1>11, <1>t
    DEF DestroyInit, JoinRead, DestroyFlush, JoinedRead, ReaderWalks, Looping
  <2>3. \A w \in Walkers : at[w] # None => MayStray(w) \/ (at[w][1] # k /\ at[w][1] \in Kinds)
    <3>1. at["reader"] # None => at["reader"][1] # k
      BY <2>2, <1>t DEF ReaderWalks
    <3>2. \A q \in Threaded : at[q] # None => at[q][1] = "notification"
      BY <1>t DEF OthersWalk
    <3>3. at["writer"] # None => at["writer"][1] \in {"write", "notification"}
      BY <1>t DEF WriterWalks
    <3>4. \A w \in Walkers : at[w] # None => at[w][1] \in Kinds
      BY <1>t DEF TypeOK, Places
    <3> QED BY <2>1, <3>1, <3>2, <3>3, <3>4 DEF Walkers, MayStray
  <2>4. \A w \in Walkers : at[w] # None /\ Linked(at[w]) => Linked(at[w])' \/ MayStray(w)'
    BY <2>1, <2>2, <2>3, <1>t DEF Linked, MayStray, TypeOK
  <2>5. StandsFirm'
    BY <2>1, <2>4, <1>t, FirmCut
  <2> QED BY <2>1, <2>5, <1>b DEF FreedInv
<1>12. CASE DestroyRest
  <2>1. UNCHANGED <<at, bad>> /\ pc = "free_rest"
    BY <1>12 DEF DestroyRest
  <2>2. at["main"] = None /\ at["reader"] = None /\ at["writer"] = None
    BY <2>1, <1>t DEF MainWalks, ReaderWalks, WriterWalks, Looping
  <2>3. \A q \in Threaded : at[q] = None
    BY <2>1, <1>t DEF OthersWalk, JoinedInOrder, LeftIsLinked, Late
  <2>4. StandsFirm'
    BY <2>1, <2>2, <2>3 DEF StandsFirm, MayStray, Walkers
  <2> QED BY <2>1, <2>4, <1>b DEF FreedInv
<1>13. CASE CallShutdown
  <2>1. UNCHANGED lists
    BY <1>13 DEF CallShutdown
  <2>2. CASE left = None
    <3>1. UNCHANGED <<at, bad>>
      BY <1>13, <2>2 DEF CallShutdown
    <3> QED BY <2>1, <3>1, <1>b, <1>u DEF FreedInv
  <2>3. CASE left # None
    <3>1. Linked(left)
      BY <2>3, <1>t DEF LeftIsLinked
    <3>2. at' = [at EXCEPT !["main"] = left] /\ UNCHANGED bad
      BY <1>13, <2>3, <3>1 DEF CallShutdown
    <3>3. at'["main"] = left /\ \A v \in Walkers : v # "main" => at'[v] = at[v]
      BY <3>2, <1>t DEF TypeOK
    <3>4. StandsFirm'
      BY <2>1, <3>1, <3>3, <1>t, FirmMove
    <3> QED BY <3>2, <3>4, <1>b DEF FreedInv
  <2> QED BY <2>2, <2>3
<1>14. CASE ShutdownReturns
  <2> DEFINE p == at["main"][2]
  <2>1. /\ pc = "joining" /\ UNCHANGED bad
        /\ at' = [at EXCEPT !["main"] = None]
        /\ lists' = IF p \notin Unregistering THEN lists ELSE [k \in Kinds |-> lists[k] \ {p}]
    BY <1>14 DEF ShutdownReturns
  <2> HIDE DEF p
  <2>2. at'["main"] = None /\ \A v \in Walkers : v # "main" => at'[v] = at[v]
    BY <2>1, <1>t DEF TypeOK
  <2>3. at["reader"] = None /\ at["writer"] = None
    BY <2>1, <1>t DEF ReaderWalks, WriterWalks, Looping
  <2>4. CASE p \notin Unregistering
    BY <2>1, <2>2, <2>4, <1>t, <1>b, FirmMove DEF FreedInv
  <2>5. CASE p \in Unregistering
    <3>1. StandsFirm'
      BY <2>2, <2>3, <2>5, WalkerNames DEF StandsFirm, MayStray, Walkers
    <3> QED BY <2>1, <3>1, <1>b DEF FreedInv
  <2> QED BY <2>4, <2>5
<1> QED
  BY Zenon, <1>1, <1>2, <1>3, <1>4, <1>5, <1>6, <1>7, <1>8, <1>9, <1>10, <1>11, <1>12, <1>13, <1>14
  DEF Next, Main, plugin_shutdown_all

(* The callback lists are walked without a lock, and nobody reads an entry *)
(* that destroy_all_callbacks or plugin_unregister has freed, but for the  *)
(* thread of SIGUSR1, detached threads of plugins and, with unregistering  *)
(* shutdown callbacks, threads of plugins that are joined.                 *)
THEOREM FreedCorrect == Spec => []FreedIsReadOnlyBy
<1> DEFINE Inv == WalkInv /\ JoinInv /\ FreedInv
<1>1. Init => Inv
  <2>1. Init => JoinInv
    BY WalkerNames DEF Init, JoinInv, LeftIsLinked, ThreadsAreListed, JoinedInOrder, Late
  <2>2. Init => FreedInv
    BY DEF Init, FreedInv, StandsFirm, FreedIsReadOnlyBy
  <2> QED BY <2>1, <2>2, WalkInit
<1>2. Inv /\ [Next]_vars => Inv'
  BY WalkStep, JoinStep, FreedStep
<1>3. Inv => FreedIsReadOnlyBy
  BY DEF FreedInv
<1> QED BY <1>1, <1>2, <1>3, PTL DEF Spec
=============================================================================
