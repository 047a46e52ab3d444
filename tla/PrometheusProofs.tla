-------------------------- MODULE PrometheusProofs --------------------------
(***************************************************************************)
(* Proofs about Prometheus, for any number of write threads, connections,  *)
(* families and metrics and any routing; and, from MonInv on, about        *)
(* Monitor, for any limit and window and any pause that outlasts it.       *)
(***************************************************************************)
EXTENDS Prometheus, Monitor, TLAPS

(* m is exported if and only if its own family holds it.                   *)
LEMMA ExportedByFamily ==
  ASSUME TypeOK, NEW m \in Metrics
  PROVE  m \in Exported <=> m \in prom[FamilyOf[m]]
BY FamilyAssumption DEF TypeOK, Exported

LEMMA ExportedByFamilyNext ==
  ASSUME TypeOK', NEW m \in Metrics
  PROVE  m \in Exported' <=> m \in prom'[FamilyOf[m]]
BY FamilyAssumption DEF TypeOK, Exported

-----------------------------------------------------------------------------
(* The types are inductive by themselves.                                  *)
LEMMA TypeInit == Init => TypeOK
BY Zenon, FamilyAssumption, RoutingsAssumption DEF Init, TypeOK

LEMMA TypeStep == TypeOK /\ [Next]_vars => TypeOK'
<1> SUFFICES ASSUME TypeOK, [Next]_vars PROVE TypeOK'
  OBVIOUS
<1> USE DEF TypeOK, cacheVars, writerVars, history
<1>1. ASSUME NEW w \in Writers, NEW f \in Families, NEW M \in SUBSET Metrics, Dequeue(w, f, M)
      PROVE  TypeOK'
  BY <1>1 DEF Dequeue
<1>2. ASSUME NEW w \in Writers, NEW m \in Metrics, UcUpdate(w, m) PROVE TypeOK'
  <2>1. cached' \subseteq Metrics /\ untold' \subseteq Metrics /\ raced' \subseteq Metrics
    BY <1>2 DEF UcUpdate
  <2> QED BY <1>2, <2>1 DEF UcUpdate
<1>3. ASSUME NEW w \in Writers, Write(w) PROVE TypeOK'
  <2>1. PICK S \in SUBSET Given(w) :
          /\ prom' = [f \in Families |-> prom[f] \cup {m \in S : FamilyOf[m] = f}]
          /\ refused' = (refused \ S) \cup (Given(w) \ (S \cup Exported))
    BY <1>3 DEF Write
  <2>2. Given(w) \subseteq Metrics
    BY DEF Given
  <2>3. /\ prom' \in [Families -> SUBSET Metrics]
        /\ \A f \in Families : \A m \in prom'[f] : FamilyOf[m] = f
    BY <2>1, <2>2
  <2>4. refused' \subseteq Metrics
    BY <2>1, <2>2
  <2> QED BY <1>3, <2>3, <2>4 DEF Write
<1>4. ASSUME NEW S \in SUBSET Metrics, Collect(S) PROVE TypeOK'
  BY <1>4 DEF Collect
<1>5. ASSUME NEW m \in Metrics, CallMissing(m) PROVE TypeOK'
  <2>1. /\ prom' \in [Families -> SUBSET Metrics]
        /\ \A f \in Families : \A n \in prom'[f] : FamilyOf[n] = f
    BY <1>5, FamilyAssumption DEF CallMissing, PromMissing
  <2>2. leaked' \in BOOLEAN /\ late' \in BOOLEAN /\ untold' \subseteq Metrics
    BY Zenon, <1>5 DEF CallMissing, PromMissing
  <2> QED BY <1>5, <2>1, <2>2 DEF CallMissing
<1>6. CASE Remove
  BY <1>6 DEF Remove
<1>7. ASSUME NEW c \in Clients, Request(c) \/ Respond(c) PROVE TypeOK'
  BY <1>7 DEF Request, Respond
<1>8. CASE BeginShutdown \/ Shutdown
  BY <1>8 DEF BeginShutdown, Shutdown, StopWriters, StopDaemon, FreeFamilies
<1>9. CASE UNCHANGED vars
  BY <1>9 DEF vars
<1> HIDE DEF TypeOK
<1> QED
  BY Zenon, <1>1, <1>2, <1>3, <1>4, <1>5, <1>6, <1>7, <1>8, <1>9
  DEF Next, WriteThread, MissingCallbacks

(* Every variable keeps its type, for every value of the constants.        *)
THEOREM TypeCorrect == Spec => []TypeOK
<1>1. TypeOK /\ [Next]_vars => TypeOK'
  BY TypeStep
<1> QED BY TypeInit, <1>1, PTL DEF Spec

-----------------------------------------------------------------------------
(***************************************************************************)
(* What the expiry relies on: metrics are expired only while the callbacks *)
(* are called, and stay cached until then.                                 *)
(***************************************************************************)
ExpiryIsOpen == mpc # "missing" => expired = {}

ExpiredIsCached == expired \subseteq cached

ExportInv == TypeOK /\ ExpiryIsOpen /\ ExpiredIsCached /\ CachedIsExported

LEMMA ExpiryStep ==
  TypeOK /\ ExpiryIsOpen /\ ExpiredIsCached /\ [Next]_vars
    => ExpiryIsOpen' /\ ExpiredIsCached'
<1> SUFFICES ASSUME TypeOK, ExpiryIsOpen, ExpiredIsCached, [Next]_vars
             PROVE  ExpiryIsOpen' /\ ExpiredIsCached'
  OBVIOUS
<1> USE DEF ExpiryIsOpen, ExpiredIsCached, cacheVars
<1>1. ASSUME NEW w \in Writers, NEW m \in Metrics, UcUpdate(w, m)
      PROVE  ExpiryIsOpen' /\ ExpiredIsCached'
  BY <1>1 DEF UcUpdate
<1>2. ASSUME NEW S \in SUBSET Metrics, Collect(S) PROVE ExpiryIsOpen' /\ ExpiredIsCached'
  BY <1>2 DEF Collect
<1>3. CASE Remove
  BY <1>3 DEF Remove
<1>4. CASE BeginShutdown \/ Shutdown
  BY <1>4 DEF BeginShutdown, Shutdown, StopWriters, StopDaemon, FreeFamilies
<1>5. CASE UNCHANGED <<cached, expired, mpc>>
  BY <1>5
<1> QED
  BY <1>1, <1>2, <1>3, <1>4, <1>5
  DEF Next, WriteThread, MissingCallbacks, Dequeue, Write, CallMissing, Request, Respond, vars

(* Every action keeps CachedIsExported: a step that takes a metric out of  *)
(* `called' also takes it out of the cache, and a write exports what it    *)
(* takes out of the hands of its thread.                                   *)
LEMMA ExportStep == ExportInv /\ [Next]_vars => CachedIsExported'
<1> SUFFICES ASSUME ExportInv, [Next]_vars, (mpc # "done")', NEW m \in cached'
             PROVE  m \in Exported' \/ m \in called' \/ Unseen(m)' \/ m \in refused'
  BY DEF CachedIsExported
<1> DEFINE Good == m \in Exported \/ m \in called \/ Unseen(m) \/ m \in refused
<1>t. TypeOK /\ TypeOK' /\ m \in Metrics
  BY TypeStep DEF ExportInv, TypeOK
<1>g. m \in cached /\ mpc # "done" => Good
  BY DEF ExportInv, CachedIsExported
<1>e. m \in Exported <=> m \in prom[FamilyOf[m]]
  BY <1>t, ExportedByFamily
<1>f. m \in Exported' <=> m \in prom'[FamilyOf[m]]
  BY <1>t, ExportedByFamilyNext
<1>h. FamilyOf[m] \in Families
  BY <1>t, FamilyAssumption
<1> USE DEF cacheVars, writerVars, history
<1>1. ASSUME NEW w \in Writers, NEW f \in Families, NEW M \in SUBSET Metrics, Dequeue(w, f, M)
      PROVE  m \in Exported' \/ m \in called' \/ Unseen(m)' \/ m \in refused'
  <2>1. /\ m \in cached /\ mpc # "done" /\ called' = called /\ prom' = prom
        /\ routed' = routed /\ refused' = refused
    BY <1>1 DEF Dequeue
  <2>2. \A v \in Writers : m \in Pending(v) => m \in Pending(v)'
    BY <1>1, <1>t DEF Dequeue, Pending, TypeOK
  <2> QED BY <1>g, <1>e, <1>f, <2>1, <2>2 DEF Unseen
<1>2. ASSUME NEW w \in Writers, NEW n \in Metrics, UcUpdate(w, n)
      PROVE  m \in Exported' \/ m \in called' \/ Unseen(m)' \/ m \in refused'
  <2>1. \A v \in Writers : m \in Pending(v) => m \in Pending(v)'
    BY <1>2, <1>t DEF UcUpdate, Pending, TypeOK
  <2>2. CASE m = n
    <3>1. m \in Pending(w)'
      BY <1>2, <1>t, <2>2 DEF UcUpdate, Pending, TypeOK
    <3> QED BY <3>1 DEF Unseen
  <2>3. CASE m # n
    <3>1. /\ m \in cached /\ mpc # "done" /\ called' = called /\ prom' = prom
          /\ routed' = routed /\ refused' = refused
      BY <1>2, <2>3 DEF UcUpdate
    <3> QED BY <1>g, <1>e, <1>f, <3>1, <2>1 DEF Unseen
  <2> QED BY <2>2, <2>3
<1>3. ASSUME NEW w \in Writers, Write(w)
      PROVE  m \in Exported' \/ m \in called' \/ Unseen(m)' \/ m \in refused'
  <2>1. m \in cached /\ mpc # "done" /\ called' = called /\ routed' = routed
    BY <1>3 DEF Write
  <2>2. PICK S \in SUBSET Given(w) :
          /\ prom' = [f \in Families |-> prom[f] \cup {n \in S : FamilyOf[n] = f}]
          /\ refused' = (refused \ S) \cup (Given(w) \ (S \cup Exported))
    BY <1>3 DEF Write
  <2>3. m \in prom[FamilyOf[m]] \/ m \in S => m \in prom'[FamilyOf[m]]
    BY <2>2, <1>h
  <2>4. \A v \in Writers : m \in Pending(v) => m \in Pending(v)' \/ m \in fam[w]
    BY <1>3, <1>t DEF Write, Pending, TypeOK
  <2>5. m \in fam[w] /\ FamilyOf[m] \in routed => m \in Exported' \/ m \in refused'
    BY <1>e, <1>f, <2>2, <2>3 DEF Given
  <2>6. m \in Exported \/ m \in S => m \in Exported'
    BY <1>e, <1>f, <2>3
  <2>7. m \in refused => m \in refused' \/ m \in Exported'
    BY <2>2, <2>6
  <2> QED BY <1>g, <2>1, <2>4, <2>5, <2>6, <2>7 DEF Unseen
<1>4. ASSUME NEW S \in SUBSET Metrics, Collect(S)
      PROVE  m \in Exported' \/ m \in called' \/ Unseen(m)' \/ m \in refused'
  <2>1. /\ m \in cached /\ mpc # "done" /\ prom' = prom
        /\ routed' = routed /\ refused' = refused
    BY <1>4 DEF Collect
  <2>2. called = {}
    BY <1>4 DEF Collect, ExportInv, ExpiryIsOpen, TypeOK
  <2>3. \A v \in Writers : m \in Pending(v) => m \in Pending(v)'
    BY <1>4 DEF Collect, Pending
  <2> QED BY <1>g, <1>e, <1>f, <2>1, <2>2, <2>3 DEF Unseen
<1>5. ASSUME NEW n \in Metrics, CallMissing(n)
      PROVE  m \in Exported' \/ m \in called' \/ Unseen(m)' \/ m \in refused'
  <2>1. /\ m \in cached /\ mpc # "done" /\ called' = called \cup {n}
        /\ routed' = routed /\ refused' = refused
    BY <1>5 DEF CallMissing
  <2>2. m # n /\ m \in prom[FamilyOf[m]] => m \in prom'[FamilyOf[m]]
    BY <1>5, <1>h, <1>t DEF CallMissing, PromMissing, TypeOK
  <2>3. \A v \in Writers : m \in Pending(v) => m \in Pending(v)'
    BY <1>5 DEF CallMissing, Pending
  <2> QED BY <1>g, <1>e, <1>f, <2>1, <2>2, <2>3 DEF Unseen
<1>6. ASSUME Remove PROVE m \in Exported' \/ m \in called' \/ Unseen(m)' \/ m \in refused'
  <2>1. /\ m \in cached /\ mpc # "done" /\ m \notin called /\ prom' = prom
        /\ routed' = routed /\ refused' = refused
    BY <1>6 DEF Remove
  <2>2. \A v \in Writers : m \in Pending(v) => m \in Pending(v)'
    BY <1>6 DEF Remove, Pending
  <2> QED BY <1>g, <1>e, <1>f, <2>1, <2>2 DEF Unseen
<1>7. ASSUME \/ \E c \in Clients : Request(c) \/ Respond(c)
             \/ BeginShutdown \/ StopWriters \/ StopDaemon
             \/ UNCHANGED vars
      PROVE  m \in Exported' \/ m \in called' \/ Unseen(m)' \/ m \in refused'
  <2>1. /\ m \in cached /\ mpc # "done" /\ called' = called /\ prom' = prom
        /\ routed' = routed /\ fam' = fam /\ todo' = todo /\ refused' = refused
    BY <1>7 DEF Request, Respond, BeginShutdown, StopWriters, StopDaemon, vars
  <2>2. \A v \in Writers : m \in Pending(v) => m \in Pending(v)'
    BY <2>1 DEF Pending
  <2> QED BY <1>g, <1>e, <1>f, <2>1, <2>2 DEF Unseen
<1>8. ~FreeFamilies
  BY DEF FreeFamilies
<1> QED
  BY <1>1, <1>2, <1>3, <1>4, <1>5, <1>6, <1>7, <1>8
  DEF Next, WriteThread, MissingCallbacks, Shutdown

(* What the cache holds is exported, for every number of write threads,    *)
(* connections, families and metrics.                                      *)
THEOREM ExportCorrect == Spec => []CachedIsExported
<1>1. Init => ExportInv
  BY TypeInit DEF Init, ExportInv, ExpiryIsOpen, ExpiredIsCached, CachedIsExported
<1>2. ExportInv /\ [Next]_vars => ExportInv'
  BY TypeStep, ExpiryStep, ExportStep DEF ExportInv
<1>3. ExportInv => CachedIsExported
  BY DEF ExportInv
<1> QED BY <1>1, <1>2, <1>3, PTL DEF Spec

(* The lock of prom_metrics is lost only if an entry expires that          *)
(* prom_write has not seen since it was cached or could not store: what is *)
(* expired is cached, so its family is exported or the metric is unseen or *)
(* refused.                                                                *)
THEOREM LeakCorrect == Spec => []LeakOnlyIfLate
<1> DEFINE Inv == ExportInv /\ LeakOnlyIfLate
<1>1. Init => Inv
  BY TypeInit DEF Init, ExportInv, ExpiryIsOpen, ExpiredIsCached, CachedIsExported, LeakOnlyIfLate
<1>2. Inv /\ [Next]_vars => Inv'
  <2> SUFFICES ASSUME Inv, [Next]_vars PROVE LeakOnlyIfLate'
    BY TypeStep, ExpiryStep, ExportStep DEF ExportInv
  <2>1. ASSUME NEW m \in Metrics, CallMissing(m) PROVE LeakOnlyIfLate'
    <3>1. m \in cached /\ m \notin called /\ mpc # "done"
      BY <2>1 DEF CallMissing, ExportInv, ExpiredIsCached
    <3>2. m \in Exported \/ Unseen(m) \/ m \in refused
      BY <3>1 DEF ExportInv, CachedIsExported
    <3>3. m \in Exported => prom[FamilyOf[m]] # {}
      BY ExportedByFamily DEF ExportInv
    <3>4. CASE UNCHANGED <<leaked, late>>
      BY <3>4 DEF LeakOnlyIfLate
    <3>5. CASE PromMissing(m) /\ late' = (late \/ Unseen(m) \/ m \in refused)
      BY Zenon, <3>2, <3>3, <3>5 DEF PromMissing, LeakOnlyIfLate
    <3> QED BY Zenon, <2>1, <3>4, <3>5 DEF CallMissing
  <2>2. CASE UNCHANGED <<leaked, late>>
    BY <2>2 DEF LeakOnlyIfLate
  <2> QED
    BY <2>1, <2>2
    DEF Next, WriteThread, MissingCallbacks, Shutdown, Dequeue, UcUpdate, Write, Collect,
        Remove, Request, Respond, BeginShutdown, StopWriters, StopDaemon, FreeFamilies,
        vars, history
<1> QED BY <1>1, <1>2, PTL DEF Spec
-----------------------------------------------------------------------------
(***************************************************************************)
(* What a write or a removal may leave behind: a metric on its way to      *)
(* prom_write is cached, was raced by its expiry or failed to be cached,   *)
(* one that is on its way while it expires was raced, and one that is      *)
(* still exported when its callbacks are done was raced or passed over.    *)
(***************************************************************************)
PendingIsCached ==
  \A w \in Writers : \A m \in Pending(w) : m \in cached \/ m \in raced \/ m \in untold

PendingExpiryRaced == \A w \in Writers : \A m \in Pending(w) : m \in expired => m \in raced

CalledIsGone ==
  \A m \in Metrics : m \in called /\ m \in Exported => m \in raced \/ m \in untold

GhostInv == TypeOK /\ NoGhost /\ PendingIsCached /\ PendingExpiryRaced /\ CalledIsGone

LEMMA GhostStep == GhostInv /\ [Next]_vars => GhostInv'
<1> SUFFICES ASSUME GhostInv, [Next]_vars PROVE GhostInv'
  OBVIOUS
<1>t. TypeOK /\ TypeOK'
  BY TypeStep DEF GhostInv
<1>x. Exported \subseteq Metrics /\ Exported' \subseteq Metrics
  BY <1>t DEF TypeOK, Exported
<1> USE DEF cacheVars, writerVars, history
<1>1. ASSUME NEW w \in Writers, NEW f \in Families, NEW M \in SUBSET Metrics, Dequeue(w, f, M)
      PROVE  GhostInv'
  <2>1. \A v \in Writers : Pending(v)' \subseteq Pending(v)
    BY <1>1, <1>t DEF Dequeue, Pending, TypeOK
  <2>2. Exported' = Exported /\ UNCHANGED <<cached, raced, untold, expired, called>>
    BY <1>1 DEF Dequeue, Exported
  <2> QED BY <1>t, <2>1, <2>2
    DEF GhostInv, NoGhost, PendingIsCached, PendingExpiryRaced, CalledIsGone
<1>2. ASSUME NEW w \in Writers, NEW n \in Metrics, UcUpdate(w, n) PROVE GhostInv'
  <2>1. \A v \in Writers : Pending(v)' \subseteq Pending(v) \cup {n}
    BY <1>2, <1>t DEF UcUpdate, Pending, TypeOK
  <2>2. Exported' = Exported /\ expired' = expired /\ called' = called
    BY <1>2 DEF UcUpdate, Exported
  <2>3. \/ /\ cached' = cached \cup {n}
           /\ untold' = untold \ {n}
           /\ raced' = IF n \in expired THEN raced \cup {n} ELSE raced \ {n}
        \/ /\ cached' = cached
           /\ untold' = untold \cup ({n} \ cached)
           /\ raced' = raced \cup ({n} \cap expired)
    BY <1>2 DEF UcUpdate
  <2>4. called \subseteq expired
    BY <1>t DEF TypeOK
  <2>5. NoGhost' /\ CalledIsGone'
    BY <2>2, <2>3, <2>4 DEF GhostInv, NoGhost, CalledIsGone
  <2>6. PendingIsCached' /\ PendingExpiryRaced'
    BY <2>1, <2>2, <2>3 DEF GhostInv, PendingIsCached, PendingExpiryRaced
  <2> QED BY <1>t, <2>5, <2>6 DEF GhostInv
<1>3. ASSUME NEW w \in Writers, Write(w) PROVE GhostInv'
  <2>1. \A v \in Writers : Pending(v)' \subseteq Pending(v)
    BY <1>3, <1>t DEF Write, Pending, TypeOK
  <2>2. /\ UNCHANGED <<cached, untold, expired, called>>
        /\ raced' = raced \cup (fam[w] \cap expired)
    BY <1>3 DEF Write
  <2>3. fam[w] = Pending(w)
    BY <1>3, <1>t DEF Write, Pending, TypeOK
  <2>4. Exported' \subseteq Exported \cup fam[w]
    BY <1>3, <1>t DEF Write, Given, Exported, TypeOK
  <2>5. NoGhost'
    BY <2>2, <2>3, <2>4 DEF GhostInv, NoGhost, PendingIsCached
  <2>6. CalledIsGone'
    BY <1>t, <2>2, <2>4 DEF GhostInv, CalledIsGone, TypeOK
  <2>7. PendingIsCached' /\ PendingExpiryRaced'
    BY <2>1, <2>2 DEF GhostInv, PendingIsCached, PendingExpiryRaced
  <2> QED BY <1>t, <2>5, <2>6, <2>7 DEF GhostInv
<1>4. ASSUME NEW S \in SUBSET Metrics, Collect(S) PROVE GhostInv'
  <2>1. \A v \in Writers : Pending(v)' = Pending(v)
    BY <1>4 DEF Collect, Pending
  <2>2. /\ Exported' = Exported /\ cached' = cached /\ untold' = untold
        /\ called' = {} /\ expired' = S
        /\ raced' = raced \cup {m \in S : \E w \in Writers : m \in Pending(w)}
    BY <1>4 DEF Collect, Exported
  <2> QED BY <1>t, <2>1, <2>2
    DEF GhostInv, NoGhost, PendingIsCached, PendingExpiryRaced, CalledIsGone
<1>5. ASSUME NEW n \in Metrics, CallMissing(n) PROVE GhostInv'
  <2>1. \A v \in Writers : Pending(v)' = Pending(v)
    BY <1>5 DEF CallMissing, Pending
  <2>2. UNCHANGED <<cached, raced, expired>> /\ called' = called \cup {n}
    BY SMTT(20), <1>5 DEF CallMissing
  <2>3. n \in expired
    BY <1>5 DEF CallMissing
  <2>4. CASE untold' = untold \cup {n} /\ prom' = prom
    <3>1. Exported' = Exported
      BY <2>4 DEF Exported
    <3> QED BY <1>t, <2>1, <2>2, <2>4, <3>1
      DEF GhostInv, NoGhost, PendingIsCached, PendingExpiryRaced, CalledIsGone
  <2>5. CASE untold' = untold \ {n} /\ PromMissing(n)
    <3>1. Exported' \subseteq Exported
      BY <2>5, <1>t DEF PromMissing, Exported, TypeOK
    <3>2. n \notin Exported'
      BY <2>5, <1>t, FamilyAssumption, ExportedByFamilyNext DEF PromMissing, TypeOK
    <3>3. NoGhost' /\ CalledIsGone'
      BY <2>2, <2>5, <3>1, <3>2 DEF GhostInv, NoGhost, CalledIsGone
    <3>4. PendingIsCached' /\ PendingExpiryRaced'
      BY <2>1, <2>2, <2>3, <2>5 DEF GhostInv, PendingIsCached, PendingExpiryRaced
    <3> QED BY <1>t, <3>3, <3>4 DEF GhostInv
  <2> QED BY Zenon, <1>5, <2>4, <2>5 DEF CallMissing
<1>6. CASE Remove
  <2>1. \A v \in Writers : Pending(v)' = Pending(v)
    BY <1>6 DEF Remove, Pending
  <2>2. /\ Exported' = Exported /\ raced' = raced /\ untold' = untold /\ called = expired
        /\ expired' = {} /\ called' = {} /\ cached' = cached \ expired
    BY <1>6 DEF Remove, Exported
  <2>3. NoGhost'
    BY <1>x, <2>2 DEF GhostInv, NoGhost, CalledIsGone
  <2> QED BY <1>t, <2>1, <2>2, <2>3
    DEF GhostInv, PendingIsCached, PendingExpiryRaced, CalledIsGone
<1>7. ASSUME \/ \E c \in Clients : Request(c) \/ Respond(c)
             \/ BeginShutdown \/ Shutdown \/ UNCHANGED vars
      PROVE  GhostInv'
  <2>1. UNCHANGED <<cached, raced, untold, expired, called, fam, todo>>
    BY <1>7 DEF Request, Respond, BeginShutdown, Shutdown, StopWriters, StopDaemon,
                FreeFamilies, vars
  <2>2. prom' = prom \/ prom' = [f \in Families |-> {}]
    BY <1>7 DEF Request, Respond, BeginShutdown, Shutdown, StopWriters, StopDaemon,
                FreeFamilies, vars
  <2>3. Exported' \subseteq Exported
    BY <2>2 DEF Exported
  <2>4. \A v \in Writers : Pending(v)' = Pending(v)
    BY <2>1 DEF Pending
  <2> QED BY <1>t, <2>1, <2>3, <2>4
    DEF GhostInv, NoGhost, PendingIsCached, PendingExpiryRaced, CalledIsGone
<1> QED
  BY <1>1, <1>2, <1>3, <1>4, <1>5, <1>6, <1>7 DEF Next, WriteThread, MissingCallbacks

(* Nothing is exported that the cache does not hold, except metrics that   *)
(* were written while uc_check_timeout was expiring them, that uc_insert   *)
(* could not add, or that expired without a call of prom_missing.          *)
THEOREM GhostCorrect == Spec => []NoGhost
<1>1. Init => GhostInv
  BY TypeInit DEF Init, GhostInv, NoGhost, PendingIsCached, PendingExpiryRaced, CalledIsGone,
                  Pending, Exported
<1>2. GhostInv /\ [Next]_vars => GhostInv'
  BY GhostStep
<1>3. GhostInv => NoGhost
  BY DEF GhostInv
<1> QED BY <1>1, <1>2, <1>3, PTL DEF Spec

-----------------------------------------------------------------------------
(***************************************************************************)
(* Monitor: the loop of ncollectdmon, and how often it starts the daemon.  *)
(***************************************************************************)
(***************************************************************************)
(* The counter is at its limit only from the death that reaches it until a *)
(* new window begins: main pauses long enough for the window to pass, or   *)
(* the window has passed, or SIGTERM cut the pause short, after which no   *)
(* daemon is started.                                                      *)
(***************************************************************************)
LimitMeansPause ==
  counter = Limit =>
    \/ age = Window + 1
    \/ monpc = "sleep" /\ age + left > Window
    \/ monpc \in {"respawn", "test", "done"} /\ loop

MonInv == MonTypeOK /\ NoOrphan /\ LimitMeansPause

LEMMA MonInvInit == MonInit => MonInv
<1> SUFFICES ASSUME MonInit PROVE MonInv
  OBVIOUS
<1>1. MonTypeOK
  <2>1. /\ loop \in BOOLEAN /\ restart \in BOOLEAN /\ heeded \in BOOLEAN
        /\ owed \in BOOLEAN /\ missed \in BOOLEAN
    BY Zenon DEF MonInit
  <2>2. age \in 0..Window + 1 /\ counter \in 0..Limit /\ left \in 0..Pause
    BY RespawnAssumption DEF MonInit
  <2>3. starts \in [Recent -> 0..Window + 1]
    BY RespawnAssumption DEF MonInit
  <2> QED BY <2>1, <2>2, <2>3 DEF MonInit, MonTypeOK
<1>2. NoOrphan /\ LimitMeansPause
  BY SMTT(20), RespawnAssumption DEF MonInit, NoOrphan, LimitMeansPause
<1> QED BY <1>1, <1>2 DEF MonInv

LEMMA MonInvNext == MonInv /\ [MonNext]_monvars => MonInv'
<1> SUFFICES ASSUME MonInv, [MonNext]_monvars PROVE MonInv'
  OBVIOUS
<1> USE RespawnAssumption DEF MonInv, MonTypeOK, NoOrphan, LimitMeansPause, flagVars, respawnVars
<1>1. CASE TestLoop
  BY <1>1 DEF TestLoop
<1>2. CASE ncollectd_start
  <2>1. ASSUME NEW k \in Recent, k # 1 PROVE k - 1 \in Recent
    BY <2>1 DEF Recent
  <2>2. starts' \in [Recent -> 0..Window + 1]
    BY SMT, <1>2, <2>1 DEF ncollectd_start
  <2> QED BY <1>2, <2>2 DEF ncollectd_start
<1>3. CASE WaitPid
  BY <1>3 DEF WaitPid
<1>4. CASE Reap
  BY <1>4 DEF Reap
<1>5. CASE ncollectd_stop
  BY <1>5 DEF ncollectd_stop
<1>6. CASE check_respawn
  BY SMTT(30), <1>6 DEF check_respawn
<1>7. CASE Awake
  BY <1>7 DEF Awake
<1>8. CASE ClearRestart
  BY Zenon, <1>8 DEF ClearRestart
<1>9. CASE sig_int_term_handler
  BY <1>9 DEF sig_int_term_handler
<1>10. CASE sig_hup_handler
  BY <1>10 DEF sig_hup_handler
<1>11. CASE Exec
  BY <1>11 DEF Exec
<1>12. CASE Crash
  BY <1>12 DEF Crash
<1>13. CASE Terminate
  BY <1>13 DEF Terminate
<1>14. CASE Tick
  BY <1>14 DEF Tick, Older
<1>15. CASE UNCHANGED monvars
  BY <1>15 DEF monvars
<1> HIDE DEF MonInv
<1> QED
  BY Zenon, <1>1, <1>2, <1>3, <1>4, <1>5, <1>6, <1>7, <1>8, <1>9, <1>10, <1>11, <1>12,
     <1>13, <1>14, <1>15 DEF MonNext, Main

(***************************************************************************)
(* Whatever signals arrive and whenever the daemon dies, check_respawn's   *)
(* counter stays within its limit and every variable keeps its type.       *)
(***************************************************************************)
THEOREM MonTypeCorrect == MonSpec => []MonTypeOK
<1>1. MonInv => MonTypeOK
  BY DEF MonInv
<1> QED BY <1>1, MonInvInit, MonInvNext, PTL DEF MonSpec

(***************************************************************************)
(* ncollectdmon has reaped its daemon whenever it starts one or ends.      *)
(***************************************************************************)
THEOREM OrphanCorrect == MonSpec => []NoOrphan
<1>1. MonInv => NoOrphan
  BY DEF MonInv
<1> QED BY <1>1, MonInvInit, MonInvNext, PTL DEF MonSpec

(***************************************************************************)
(* Why the rate is bounded.  The starts since timestamp are those after    *)
(* the deaths that counter counts; there are at most Limit of them, or the *)
(* pause lies between the last one and the others (PauseSeparates).  The   *)
(* start before them is as old as timestamp (WindowIsOver), and at most    *)
(* Limit starts before timestamp are in the window (FewBefore).            *)
(***************************************************************************)
Started == monpc \in {"wait", "blocked", "interrupted", "reaped"}

SinceTimestamp == counter + (IF Started THEN 1 ELSE 0)

LatestFirst == \A j, k \in Recent : j <= k => starts[j] <= starts[k]

WindowIsOver == starts[SinceTimestamp + 1] >= age

FewBefore == \A k \in Recent : k > SinceTimestamp + Limit => starts[k] > Window

PauseSeparates ==
  counter = Limit =>
    /\ monpc = "sleep" => starts[1] > Window \/ starts[1] + left >= Pause
    /\ monpc \in {"respawn", "test"} => loop \/ starts[1] > Window
    /\ monpc = "start" => starts[1] > Window
    /\ Started => starts[2] > Window

RateInv == LatestFirst /\ WindowIsOver /\ FewBefore /\ PauseSeparates

LEMMA RateInit == MonInit => RateInv
BY RespawnAssumption
DEF MonInit, RateInv, LatestFirst, WindowIsOver, FewBefore, PauseSeparates, SinceTimestamp,
    Started, Recent

LEMMA RateNext == MonInv /\ RateInv /\ [MonNext]_monvars => RateInv'
<1> SUFFICES ASSUME MonInv, RateInv, [MonNext]_monvars PROVE RateInv'
  OBVIOUS
<1> USE RespawnAssumption
    DEF MonInv, MonTypeOK, RateInv, LatestFirst, WindowIsOver, FewBefore, PauseSeparates,
        SinceTimestamp, Started, Recent, flagVars, respawnVars
<1>1. CASE TestLoop
  BY SMTT(20), <1>1 DEF TestLoop
<1>2. CASE ncollectd_start
  <2>1. CASE monpc' = "wait"
    <3>1. /\ monpc = "start" /\ UNCHANGED <<age, counter, left, loop>>
          /\ starts' = [k \in Recent |-> IF k = 1 THEN 0 ELSE starts[k - 1]]
      BY <1>2, <2>1 DEF ncollectd_start
    <3>2. LatestFirst'
      BY SMTT(20), <3>1
    <3>3. WindowIsOver' /\ FewBefore'
      BY SMTT(20), <2>1, <3>1
    <3>4. PauseSeparates'
      BY <2>1, <3>1
    <3> QED BY <3>2, <3>3, <3>4
  <2>2. CASE monpc' = "done"
    BY <1>2, <2>2 DEF ncollectd_start
  <2> QED BY <1>2, <2>1, <2>2 DEF ncollectd_start
<1>3. CASE WaitPid
  BY SMTT(20), <1>3 DEF WaitPid
<1>4. CASE Reap
  BY <1>4 DEF Reap
<1>5. CASE ncollectd_stop
  BY SMTT(20), <1>5 DEF ncollectd_stop
<1>6. CASE check_respawn
  <2>1. monpc = "reaped" /\ UNCHANGED <<loop, starts>>
    BY <1>6 DEF check_respawn
  <2>2. CASE age <= Window
    <3>1. counter # Limit
      BY <2>1, <2>2 DEF LimitMeansPause
    <3> QED BY SMTT(20), <1>6, <2>1, <2>2, <3>1 DEF check_respawn
  <2>3. CASE age = Window + 1
    <3>1. /\ counter' = 0 /\ age' = 0 /\ monpc' = "respawn"
      BY <1>6, <2>3 DEF check_respawn
    <3>2. \A k \in Recent : k > Limit => starts[k] > Window
      BY <2>1, <2>3
    <3> QED BY <2>1, <3>1, <3>2
  <2> QED BY <2>2, <2>3
<1>7. CASE Awake
  BY <1>7 DEF Awake
<1>8. CASE ClearRestart
  BY <1>8 DEF ClearRestart
<1>9. CASE sig_int_term_handler
  BY SMTT(20), <1>9 DEF sig_int_term_handler
<1>10. CASE sig_hup_handler
  BY <1>10 DEF sig_hup_handler
<1>11. CASE Exec
  BY <1>11 DEF Exec
<1>12. CASE Crash
  BY <1>12 DEF Crash
<1>13. CASE Terminate
  BY <1>13 DEF Terminate
<1>14. CASE Tick
  BY SMTT(20), <1>14 DEF Tick, Older
<1>15. CASE UNCHANGED monvars
  BY <1>15 DEF monvars
<1> HIDE DEF MonInv, RateInv
<1> QED
  BY Zenon, <1>1, <1>2, <1>3, <1>4, <1>5, <1>6, <1>7, <1>8, <1>9, <1>10, <1>11, <1>12,
     <1>13, <1>14, <1>15 DEF MonNext, Main

(***************************************************************************)
(* However often and whenever the daemon dies, ncollectdmon starts it at   *)
(* most 2 * Limit times within any window.                                 *)
(***************************************************************************)
THEOREM RateCorrect == MonSpec => []RespawnRate
<1>1. MonInv /\ RateInv => RespawnRate
  BY RespawnAssumption
  DEF MonInv, MonTypeOK, RateInv, LatestFirst, FewBefore, PauseSeparates, SinceTimestamp,
      Started, Recent, RespawnRate
<1> QED BY <1>1, MonInvInit, MonInvNext, RateInit, RateNext, PTL DEF MonSpec
=============================================================================
