-------------------------- MODULE ThresholdProofs ---------------------------
(***************************************************************************)
(* Proofs about Threshold, for any finite number of write threads, any     *)
(* rates and any lists of thresholds.                                      *)
(***************************************************************************)
EXTENDS Threshold, FiniteSetTheorems, TLAPS

(***************************************************************************)
(* The local variables of a write thread: a check is at a threshold of the *)
(* list, and has found a worst one when it comes to its report.            *)
(***************************************************************************)
Located(w) ==
  /\ pc[w] \in {"idle", "rate"} => local[w] = NoLocals
  /\ pc[w] = "rate" => conf # <<>>
  /\ pc[w] = "check" => /\ local[w].th \in 1..Len(conf)
                        /\ local[w].worst = -1 \/ local[w].worst_th \in 1..Len(conf)
  /\ Reporting(w) => local[w].worst \in States /\ local[w].worst_th \in 1..Len(conf)

TypeInv == TypeOK /\ \A w \in Writers : Located(w)

LEMMA ConfIsSeq ==
  ASSUME TypeOK
  PROVE  conf \in Seq(Thresholds) /\ Len(conf) \in Nat /\ DOMAIN conf = 1..Len(conf)
BY ConfigsAssumption DEF TypeOK

LEMMA HitsOptions ==
  ASSUME TypeOK, NEW i \in DOMAIN conf
  PROVE  conf[i].hits \in Int
<1>1. conf[i] \in Thresholds
  BY ConfIsSeq
<1>2. \A t \in Thresholds : t.hits \in Int
  BY DEF Thresholds
<1> QED BY <1>1, <1>2

(* ut_check_one_threshold returns a state.                                 *)
LEMMA JudgeType == \A t, v, prev : check_one_threshold(t, v, prev) \in States
BY DEF check_one_threshold, States

Labels == {"idle", "rate", "check", "hits", "reset", "inc", "old", "set", "notify"}

LocalType == [value : Rates \cup {NaN}, th : Nat, worst : States \cup {-1}, worst_th : Nat]

LEMMA GotoType ==
  ASSUME TypeOK, NEW w \in Writers, NEW l \in Labels, Goto(w, l)
  PROVE  pc' \in [Writers -> Labels] /\ overlap' \in BOOLEAN
<1>1. pc' \in [Writers -> Labels]
  BY DEF Goto, TypeOK, Labels
<1>2. overlap' \in BOOLEAN
  BY DEF Goto
<1> QED BY <1>1, <1>2

LEMMA ReturnType ==
  ASSUME TypeOK, NEW w \in Writers, Return(w)
  PROVE  pc' \in [Writers -> Labels] /\ overlap' \in BOOLEAN /\ local' \in [Writers -> LocalType]
<1>1. local' \in [Writers -> LocalType]
  BY DEF Return, TypeOK, NoLocals, LocalType
<1> QED BY <1>1, GotoType DEF Return, Labels

LEMMA TypeInit == Init => TypeInv
<1> SUFFICES ASSUME Init PROVE TypeInv
  OBVIOUS
<1>1. TypeOK
  BY Zenon DEF Init, TypeOK, NoLocals, States, UNKNOWN
<1>2. \A w \in Writers : Located(w)
  BY DEF Init, Located, Reporting
<1> QED BY <1>1, <1>2 DEF TypeInv

LEMMA TypeStep == TypeInv /\ [Next]_vars => TypeInv'
<1> SUFFICES ASSUME TypeInv, [Next]_vars PROVE TypeInv'
  OBVIOUS
<1>c. conf \in Seq(Thresholds) /\ Len(conf) \in Nat /\ DOMAIN conf = 1..Len(conf)
  BY ConfIsSeq DEF TypeInv
<1> USE DEF TypeInv, entry
<1>1. ASSUME NEW v \in Rates, SourceChanges(v) PROVE TypeInv'
  BY <1>1 DEF SourceChanges, TypeOK, Located, Reporting
<1>2. ASSUME NEW w \in Writers, Update(w) PROVE TypeInv'
  <2>1. TypeOK'
    BY <1>2 DEF Update, Goto, TypeOK, States
  <2>2. \A x \in Writers : Located(x)'
    BY <1>2 DEF Update, Goto, TypeOK, Located, Reporting
  <2> QED BY <2>1, <2>2
<1>3. ASSUME NEW w \in Writers, GetRate(w) PROVE TypeInv'
  <2>1. TypeOK'
    <3>1. CASE present /\ Goto(w, "check")
      <4>1. local' = [local EXCEPT ![w].value = gauge, ![w].th = 1]
        BY <1>3, <3>1 DEF GetRate, Return, Goto, TypeOK
      <4>2. local' \in [Writers -> LocalType]
        BY ZenonT(60), <4>1 DEF TypeOK, LocalType
      <4>3. pc' \in [Writers -> Labels] /\ overlap' \in BOOLEAN
        BY <3>1, GotoType DEF Labels
      <4> QED BY <1>3, <4>2, <4>3 DEF GetRate, TypeOK, Labels, LocalType
    <3>2. CASE Return(w)
      BY <1>3, <3>2, ReturnType DEF GetRate, TypeOK, Labels, LocalType
    <3> QED BY <1>3, <3>1, <3>2 DEF GetRate
  <2>2. \A x \in Writers : Located(x)'
    BY SMTT(30), <1>3, <1>c DEF GetRate, Goto, Return, TypeOK, Located, Reporting, NoLocals
  <2> QED BY <2>1, <2>2
<1>4. ASSUME NEW w \in Writers, Check(w) PROVE TypeInv'
  <2> DEFINE l == IF Worse(w)
                  THEN [local[w] EXCEPT !.worst = Judge(w), !.worst_th = local[w].th]
                  ELSE local[w]
  <2>1. Judge(w) \in States
    BY JudgeType DEF Judge
  <2>2. /\ local[w].th \in 1..Len(conf)
        /\ local[w].worst = -1 \/ local[w].worst_th \in 1..Len(conf)
    BY <1>4 DEF Check, Located
  <2>3. local[w] \in [value : Rates \cup {NaN}, th : Nat,
                      worst : States \cup {-1}, worst_th : Nat]
    BY DEF TypeOK
  <2>4. l.th \in 1..Len(conf) /\ l.worst \in States /\ l.worst_th \in 1..Len(conf)
    BY <2>1, <2>2, <2>3 DEF Worse, States, OKAY, WARNING, ERROR
  <2>5. l \in [value : Rates \cup {NaN}, th : Nat,
               worst : States \cup {-1}, worst_th : Nat]
    BY Zenon, <2>1, <2>2, <2>3, <1>c
  <2>6. CASE /\ l.th < Len(conf)
             /\ local' = [local EXCEPT ![w] = [l EXCEPT !.th = @ + 1]]
             /\ Goto(w, "check")
    <3>1. TypeOK'
      <4> HIDE DEF l
      <4>0. [l EXCEPT !.th = @ + 1] \in LocalType
        BY <2>5 DEF LocalType
      <4>1. local' \in [Writers -> LocalType]
        BY <2>6, <4>0 DEF TypeOK, LocalType
      <4>2. pc' \in [Writers -> Labels] /\ overlap' \in BOOLEAN
        BY <2>6, GotoType DEF Labels
      <4> QED BY <1>4, <4>1, <4>2 DEF Check, TypeOK, Labels, LocalType
    <3>2. \A x \in Writers : Located(x)'
      BY SMTT(30), <1>4, <1>c, <2>4, <2>5, <2>6 DEF Check, Goto, TypeOK, Located, Reporting
    <3> QED BY <3>1, <3>2
  <2>7. CASE /\ l.th = Len(conf)
             /\ local' = [local EXCEPT ![w] = [l EXCEPT !.th = 0, !.value = NaN]]
             /\ Goto(w, IF conf[l.worst_th].hits # 0 THEN "hits" ELSE "old")
    <3>1. TypeOK'
      BY ZenonT(60), <1>4, <2>5, <2>7 DEF Check, Goto, TypeOK
    <3>2. \A x \in Writers : Located(x)'
      BY SMTT(30), <1>4, <1>c, <2>4, <2>5, <2>7 DEF Check, Goto, TypeOK, Located, Reporting
    <3> QED BY <3>1, <3>2
  <2> QED BY <1>4, <2>6, <2>7 DEF Check
<1>5. ASSUME NEW w \in Writers, TestHits(w) \/ ResetHits(w) PROVE TypeInv'
  <2>1. TypeOK'
    <3>1. pc' \in [Writers -> Labels] /\ overlap' \in BOOLEAN
      BY <1>5, GotoType DEF TestHits, ResetHits, Labels
    <3> QED BY <1>5, <3>1 DEF TestHits, ResetHits, TypeOK, Labels
  <2>2. \A x \in Writers : Located(x)'
    BY <1>5 DEF TestHits, ResetHits, Goto, TypeOK, Located, Reporting
  <2> QED BY <2>1, <2>2
<1>6. ASSUME NEW w \in Writers, IncHits(w) PROVE TypeInv'
  <2>1. TypeOK'
    BY <1>6 DEF IncHits, Goto, Return, TypeOK, NoLocals
  <2>2. \A x \in Writers : Located(x)'
    BY <1>6 DEF IncHits, Goto, Return, TypeOK, Located, Reporting
  <2> QED BY <2>1, <2>2
<1>7. ASSUME NEW w \in Writers, GetState(w) PROVE TypeInv'
  <2>1. TypeOK'
    <3>1. pc' \in [Writers -> Labels] /\ overlap' \in BOOLEAN
      BY <1>7, GotoType, ReturnType DEF GetState, Labels
    <3>2. local' \in [Writers -> LocalType]
      BY <1>7, ReturnType DEF GetState, TypeOK, LocalType
    <3> QED BY <1>7, <3>1, <3>2 DEF GetState, TypeOK, Labels, LocalType
  <2>2. \A x \in Writers : Located(x)'
    BY ZenonT(60), <1>7 DEF GetState, Goto, Return, TypeOK, Located, Reporting
  <2> QED BY <2>1, <2>2
<1>8. ASSUME NEW w \in Writers, SetState(w) PROVE TypeInv'
  <2>1. S(w) \in States
    BY <1>8 DEF SetState, Located, Reporting, S
  <2>2. TypeOK'
    BY <1>8, <2>1 DEF SetState, Goto, TypeOK
  <2>3. \A x \in Writers : Located(x)'
    BY <1>8 DEF SetState, Goto, TypeOK, Located, Reporting
  <2> QED BY <2>2, <2>3
<1>9. ASSUME NEW w \in Writers, Notify(w) PROVE TypeInv'
  <2>1. S(w) \in States
    BY <1>9 DEF Notify, Located, Reporting, S
  <2>2. TypeOK'
    BY <1>9, <2>1 DEF Notify, Goto, Return, TypeOK, NoLocals
  <2>3. \A x \in Writers : Located(x)'
    BY <1>9 DEF Notify, Goto, Return, TypeOK, Located, Reporting
  <2> QED BY <2>2, <2>3
<1>10. CASE Expire \/ CallMissing \/ Remove
  <2>1. TypeOK'
    <3>1. CASE Expire
      BY <3>1 DEF Expire, TypeOK
    <3>2. CASE CallMissing
      BY <3>2 DEF CallMissing, TypeOK
    <3>3. CASE Remove
      BY Zenon, <3>3 DEF Remove, TypeOK
    <3> QED BY <1>10, <3>1, <3>2, <3>3
  <2>2. \A x \in Writers : Located(x)'
    BY <1>10 DEF Expire, CallMissing, Remove, Located, Reporting
  <2> QED BY <2>1, <2>2
<1>11. CASE UNCHANGED vars
  BY <1>11 DEF vars, TypeOK, Located, Reporting
<1> QED
  BY <1>1, <1>2, <1>3, <1>4, <1>5, <1>6, <1>7, <1>8, <1>9, <1>10, <1>11
  DEF Next, WriteThread, ReportState

(* Every variable keeps its type, for every value of the constants.        *)
THEOREM TypeCorrect == Spec => []TypeOK
<1>1. TypeInv /\ [Next]_vars => TypeInv'
  BY TypeStep
<1>2. TypeInv => TypeOK
  BY DEF TypeInv
<1> QED BY TypeInit, <1>1, <1>2, PTL DEF Spec
-----------------------------------------------------------------------------
(***************************************************************************)
(* The bound on the hits is not inductive: threads that passed the test    *)
(* but have not increased the counter yet count as hits.                   *)
(***************************************************************************)
Incrementing == {w \in Writers : pc[w] = "inc"}

Promised == hits + Cardinality(Incrementing)

HitsInv ==
  /\ present \/ (hits = 0 /\ state = UNKNOWN)
  /\ \/ Promised <= Cardinality(Writers)
     \/ \E i \in DOMAIN conf : Promised <= conf[i].hits + Cardinality(Writers)

LEMMA IncrementingCount ==
  /\ Cardinality(Writers) \in Nat
  /\ IsFiniteSet(Incrementing) /\ Cardinality(Incrementing) \in Nat
  /\ Cardinality(Incrementing) <= Cardinality(Writers)
  /\ Cardinality(Incrementing)' \in Nat
  /\ Cardinality(Incrementing)' <= Cardinality(Writers)
<1>1. Incrementing \subseteq Writers /\ Incrementing' \subseteq Writers
  BY DEF Incrementing
<1> QED BY <1>1, WritersAssumption, FS_Subset, FS_CardinalityType

LEMMA HitsStep == TypeInv /\ HitsInv /\ [Next]_vars => HitsInv'
<1> SUFFICES ASSUME TypeInv, HitsInv, [Next]_vars PROVE HitsInv'
  OBVIOUS
<1>c. conf \in Seq(Thresholds) /\ Len(conf) \in Nat /\ DOMAIN conf = 1..Len(conf)
  BY ConfIsSeq DEF TypeInv
<1>h. hits \in Nat /\ \A i \in DOMAIN conf : conf[i].hits \in Int
  BY HitsOptions DEF TypeInv, TypeOK
<1>n. /\ Cardinality(Writers) \in Nat /\ Cardinality(Incrementing) \in Nat
      /\ Cardinality(Incrementing)' \in Nat
      /\ Cardinality(Incrementing)' <= Cardinality(Writers)
  BY IncrementingCount
<1> USE DEF entry
<1>1. ASSUME conf' = conf, present' \/ (hits' = 0 /\ state' = UNKNOWN),
             hits' = 0 \/ (hits' = hits /\ Incrementing' = Incrementing)
      PROVE  HitsInv'
  <2>1. CASE hits' = 0
    <3>1. Promised' <= Cardinality(Writers)
      BY <2>1, <1>n DEF Promised
    <3> QED BY <1>1, <3>1 DEF HitsInv
  <2>2. CASE hits' = hits /\ Incrementing' = Incrementing
    <3>1. Promised' = Promised
      BY <2>2 DEF Promised
    <3> QED BY <1>1, <3>1 DEF HitsInv
  <2> QED BY <1>1, <2>1, <2>2
<1>2. ASSUME NEW w \in Writers, Update(w) PROVE HitsInv'
  <2>1. Incrementing' = Incrementing
    BY <1>2 DEF Update, Goto, TypeInv, TypeOK, Incrementing
  <2> QED BY <1>1, <1>2, <2>1 DEF Update
<1>3. ASSUME NEW w \in Writers, GetRate(w) \/ GetState(w) \/ SetState(w) \/ Notify(w)
      PROVE  HitsInv'
  <2>1. Incrementing' = Incrementing
    BY <1>3 DEF GetRate, GetState, SetState, Notify, Goto, Return, TypeInv, TypeOK, Incrementing
  <2>2. conf' = conf /\ hits' = hits /\ present' = present
    BY <1>3 DEF GetRate, GetState, SetState, Notify
  <2>3. present \/ state' = UNKNOWN
    BY <1>3 DEF GetRate, GetState, SetState, Notify, HitsInv
  <2> QED BY <1>1, <2>1, <2>2, <2>3 DEF HitsInv
<1>4. ASSUME NEW w \in Writers, Check(w) PROVE HitsInv'
  <2>1. Incrementing' = Incrementing
    BY <1>4 DEF Check, Goto, TypeInv, TypeOK, Incrementing
  <2> QED BY <1>1, <1>4, <2>1 DEF Check, HitsInv
<1>5. ASSUME NEW w \in Writers, TestHits(w) PROVE HitsInv'
  <2>1. CASE pc' = [pc EXCEPT ![w] = "reset"]
    <3>1. Incrementing' = Incrementing
      BY <1>5, <2>1 DEF TestHits, TypeInv, TypeOK, Incrementing
    <3> QED BY <1>1, <1>5, <3>1 DEF TestHits, HitsInv
  <2>2. CASE pc' # [pc EXCEPT ![w] = "reset"]
    <3>1. ~(HitsOf > T(w).hits)
      BY Zenon, <1>5, <2>2 DEF TestHits, Goto
    <3>2. local[w].worst_th \in DOMAIN conf
      BY <1>5, <1>c DEF TestHits, TypeInv, Located, Reporting
    <3>3. CASE present
      <4>1. hits <= T(w).hits /\ T(w).hits \in Int
        BY <1>h, <3>1, <3>2, <3>3 DEF HitsOf, T
      <4>2. Promised' <= T(w).hits + Cardinality(Writers)
        BY <1>5, <1>h, <1>n, <4>1 DEF TestHits, Promised
      <4>3. Promised' <= conf'[local[w].worst_th].hits + Cardinality(Writers)
        BY <1>5, <4>2 DEF TestHits, T
      <4>4. conf' = conf /\ present'
        BY <1>5, <3>3 DEF TestHits
      <4> QED BY <3>2, <4>3, <4>4 DEF HitsInv
    <3>4. CASE ~present
      BY <1>1, <1>5, <3>4 DEF TestHits, HitsInv
    <3> QED BY <3>3, <3>4
  <2> QED BY <2>1, <2>2
<1>6. ASSUME NEW w \in Writers, ResetHits(w) PROVE HitsInv'
  <2>1. Incrementing' = Incrementing
    BY <1>6 DEF ResetHits, Goto, TypeInv, TypeOK, Incrementing
  <2> QED BY <1>1, <1>6, <2>1 DEF ResetHits, HitsInv
<1>7. ASSUME NEW w \in Writers, IncHits(w) PROVE HitsInv'
  <2>1. Incrementing' = Incrementing \ {w} /\ w \in Incrementing
    BY <1>7 DEF IncHits, Return, Goto, TypeInv, TypeOK, Incrementing
  <2>2. Cardinality(Incrementing)' = Cardinality(Incrementing) - 1
    BY SMTT(30), <2>1, IncrementingCount, FS_RemoveElement
  <2>3. hits' = IF present THEN hits + 1 ELSE hits
    BY <1>7 DEF IncHits
  <2>4. conf' = conf /\ present' = present /\ state' = state
    BY <1>7 DEF IncHits
  <2>5. CASE present
    <3>1. Promised' = Promised
      BY <1>h, <1>n, <2>2, <2>3, <2>5 DEF Promised
    <3> QED BY <2>4, <2>5, <3>1 DEF HitsInv
  <2>6. CASE ~present
    BY <1>1, <2>3, <2>4, <2>6 DEF HitsInv
  <2> QED BY <2>5, <2>6
<1>8. CASE Expire \/ CallMissing \/ Remove \/ (\E v \in Rates : SourceChanges(v)) \/ UNCHANGED vars
  <2>1. Incrementing' = Incrementing
    BY <1>8 DEF Expire, CallMissing, Remove, SourceChanges, vars, Incrementing
  <2> QED BY <1>1, <1>8, <2>1 DEF Expire, CallMissing, Remove, SourceChanges, vars, HitsInv
<1> QED
  BY <1>2, <1>3, <1>4, <1>5, <1>6, <1>7, <1>8 DEF Next, WriteThread, ReportState

(* The hits of an entry exceed the largest Hits option by at most the      *)
(* number of write threads, however the tests and increments interleave.   *)
THEOREM HitsCorrect == Spec => []HitsBounded
<1>1. Init => TypeInv /\ HitsInv
  <2> SUFFICES ASSUME Init PROVE HitsInv
    BY TypeInit
  <2>1. Promised <= Cardinality(Writers)
    BY IncrementingCount DEF Init, Promised
  <2> QED BY <2>1 DEF Init, HitsInv
<1>2. TypeInv /\ HitsInv /\ [Next]_vars => (TypeInv /\ HitsInv)'
  BY TypeStep, HitsStep
<1>3. TypeInv /\ HitsInv => HitsBounded
  <2> SUFFICES ASSUME TypeInv, HitsInv PROVE HitsBounded
    OBVIOUS
  <2>1. hits \in Nat /\ \A i \in DOMAIN conf : conf[i].hits \in Int
    BY HitsOptions DEF TypeInv, TypeOK
  <2>2. Promised \in Nat /\ hits <= Promised /\ Cardinality(Writers) \in Nat
    BY <2>1, IncrementingCount DEF Promised
  <2> QED BY <2>1, <2>2 DEF HitsInv, HitsBounded
<1> QED BY <1>1, <1>2, <1>3, PTL DEF Spec
-----------------------------------------------------------------------------
(***************************************************************************)
(* What keeps the state of an entry and the last notification together: as *)
(* long as reports did not overlap there is one at a time, the state it    *)
(* has stored is the one it is about to report, and otherwise the state    *)
(* was reported.  Between ut_missing and the removal of the entry nothing  *)
(* is promised; afterwards the state is unknown.                           *)
(***************************************************************************)
Alone == \A w, x \in Writers : Reporting(w) /\ Reporting(x) => w = x

AboutToTell == \A w \in Writers : pc[w] = "notify" => S(w) = state

Told == mpc # "remove" => said = state \/ \E w \in Writers : pc[w] = "notify"

ToldInv ==
  /\ present \/ state = UNKNOWN
  /\ ~overlap => Alone /\ (state # UNKNOWN => AboutToTell /\ Told)

LEMMA TwoElements ==
  ASSUME NEW A, IsFiniteSet(A), NEW w \in A, NEW x \in A, w # x
  PROVE  Cardinality(A) > 1
<1>1. IsFiniteSet(A \ {w}) /\ Cardinality(A \ {w}) = Cardinality(A) - 1
  BY FS_RemoveElement
<1>2. Cardinality(A) \in Nat /\ Cardinality(A \ {w}) \in Nat
  BY <1>1, FS_CardinalityType
<1>3. Cardinality(A \ {w}) # 0
  BY <1>1, FS_EmptySet
<1> QED BY <1>1, <1>2, <1>3

(* Goto notices an overlap.                                                *)
LEMMA GotoAlone ==
  ASSUME TypeOK, NEW w \in Writers, NEW l, Goto(w, l), ~overlap'
  PROVE  Alone' /\ ~overlap
<1> DEFINE R == {x \in Writers : Reporting(x)'}
<1>1. IsFiniteSet(R) /\ Cardinality(R) \in Nat
  BY WritersAssumption, FS_Subset, FS_CardinalityType
<1>2. ~(Cardinality(R) > 1) /\ ~overlap
  BY Zenon DEF Goto
<1>3. \A x, y \in R : x = y
  BY <1>1, <1>2, TwoElements
<1> QED BY <1>2, <1>3 DEF Alone

LEMMA ToldStep == TypeInv /\ ToldInv /\ [Next]_vars => ToldInv'
<1> SUFFICES ASSUME TypeInv, ToldInv, [Next]_vars PROVE ToldInv'
  OBVIOUS
<1> USE DEF entry
<1>t. TypeOK
  BY DEF TypeInv
<1>1. ASSUME present' \/ state' = UNKNOWN, ~overlap' => Alone' /\ ~overlap,
             state' = state \/ state' = UNKNOWN, said' = said,
             mpc' = "remove" \/ (mpc' = mpc) \/ (mpc' # "remove" /\ mpc # "remove"),
             \A x \in Writers : pc'[x] = "notify" <=> pc[x] = "notify",
             \A x \in Writers : pc[x] = "notify" => local'[x] = local[x]
      PROVE  ToldInv'
  <2> SUFFICES ASSUME ~overlap', state' # UNKNOWN PROVE (AboutToTell /\ Told)'
    BY <1>1 DEF ToldInv
  <2>1. AboutToTell /\ Told /\ state' = state
    BY <1>1 DEF ToldInv
  <2> QED BY <1>1, <2>1 DEF AboutToTell, Told, S
<1>2. ASSUME NEW w \in Writers, Update(w) PROVE ToldInv'
  <2>1. ~overlap' => Alone' /\ ~overlap
    BY <1>2, <1>t, GotoAlone DEF Update
  <2>2. \A x \in Writers : pc'[x] = "notify" <=> pc[x] = "notify"
    BY <1>2, <1>t DEF Update, Goto, TypeOK
  <2> QED BY <1>1, <1>2, <2>1, <2>2 DEF Update
<1>3. ASSUME NEW w \in Writers,
             GetRate(w) \/ Check(w) \/ TestHits(w) \/ ResetHits(w) \/ IncHits(w)
      PROVE  ToldInv'
  <2>1. ~overlap' => Alone' /\ ~overlap
    BY <1>3, <1>t, GotoAlone DEF GetRate, Check, TestHits, ResetHits, IncHits, Return
  <2>2. \A x \in Writers : /\ pc'[x] = "notify" <=> pc[x] = "notify"
                           /\ pc[x] = "notify" => local'[x] = local[x]
    BY SMTT(30), <1>3, <1>t DEF GetRate, Check, TestHits, ResetHits, IncHits, Return, Goto, TypeOK
  <2>3. UNCHANGED <<present, state, said, mpc>>
    BY <1>3 DEF GetRate, Check, TestHits, ResetHits, IncHits
  <2>4. present' \/ state' = UNKNOWN
    BY <2>3 DEF ToldInv
  <2> QED BY <1>1, <2>1, <2>2, <2>3, <2>4
<1>4. ASSUME NEW w \in Writers, GetState(w) PROVE ToldInv'
  <2> SUFFICES ASSUME ~overlap' PROVE Alone' /\ (state' # UNKNOWN => (AboutToTell /\ Told)')
    BY <1>4 DEF GetState, ToldInv
  <2>1. Alone' /\ ~overlap
    BY <1>4, <1>t, GotoAlone DEF GetState, Return
  <2> SUFFICES ASSUME state' # UNKNOWN PROVE (AboutToTell /\ Told)'
    BY <2>1
  <2>2. /\ UNCHANGED <<present, state, said, mpc>>
        /\ pc[w] = "old" /\ present /\ AboutToTell /\ Told /\ Alone
    BY <1>4, <2>1 DEF GetState, ToldInv
  <2>3. \A x \in Writers : x # w => pc'[x] = pc[x] /\ local'[x] = local[x]
    BY <1>4, <1>t DEF GetState, Return, Goto, TypeOK
  <2>4. \A x \in Writers : pc[x] # "notify"
    BY <2>2 DEF Alone, Reporting
  <2>5. pc'[w] = "notify" => local'[w] = local[w] /\ S(w) = StateOf
    BY <1>4, <1>t DEF GetState, Return, Goto, TypeOK
  <2>6. AboutToTell'
    BY <2>2, <2>3, <2>4, <2>5 DEF AboutToTell, S, StateOf
  <2>7. Told'
    BY <2>2, <2>4 DEF Told
  <2> QED BY <2>6, <2>7
<1>5. ASSUME NEW w \in Writers, SetState(w) PROVE ToldInv'
  <2>1. ~overlap' => Alone' /\ ~overlap
    BY <1>5, <1>t, GotoAlone DEF SetState
  <2>2. /\ present' = present /\ state' = (IF present THEN S(w) ELSE state)
        /\ pc[w] = "set" /\ pc'[w] = "notify" /\ local' = local
    BY <1>5, <1>t DEF SetState, Goto, TypeOK
  <2>3. present' \/ state' = UNKNOWN
    BY <2>2 DEF ToldInv
  <2>4. ASSUME ~overlap', state' # UNKNOWN PROVE (AboutToTell /\ Told)'
    <3>1. state' = S(w)
      BY <2>2, <2>3, <2>4
    <3>2. \A x \in Writers : pc'[x] = "notify" => x = w
      BY <2>1, <2>2, <2>4 DEF Alone, Reporting
    <3> QED BY <2>2, <3>1, <3>2 DEF AboutToTell, Told, S
  <2> QED BY <2>1, <2>3, <2>4 DEF ToldInv
<1>6. ASSUME NEW w \in Writers, Notify(w) PROVE ToldInv'
  <2>1. ~overlap' => Alone' /\ ~overlap
    BY <1>6, <1>t, GotoAlone DEF Notify, Return
  <2>2. /\ UNCHANGED <<present, state, mpc>> /\ said' = S(w)
        /\ pc[w] = "notify" /\ pc'[w] = "idle"
        /\ \A x \in Writers : x # w => pc'[x] = pc[x]
    BY <1>6, <1>t DEF Notify, Return, Goto, TypeOK
  <2>3. ASSUME ~overlap', state' # UNKNOWN PROVE (AboutToTell /\ Told)'
    <3>1. S(w) = state
      BY <2>1, <2>2, <2>3 DEF ToldInv, AboutToTell
    <3>2. \A x \in Writers : pc'[x] # "notify"
      BY <2>1, <2>2, <2>3 DEF ToldInv, Alone, Reporting
    <3> QED BY <2>2, <3>1, <3>2 DEF AboutToTell, Told
  <2>4. present' \/ state' = UNKNOWN
    BY <2>2 DEF ToldInv
  <2> QED BY <2>1, <2>3, <2>4 DEF ToldInv
<1>7. CASE CallMissing
  <2>1. /\ mpc' = "remove" /\ UNCHANGED <<present, state, pc, local, overlap>>
    BY <1>7 DEF CallMissing
  <2> QED BY <2>1 DEF ToldInv, Alone, Reporting, AboutToTell, Told, S
<1>8. CASE Remove
  <2>1. state' = UNKNOWN /\ UNCHANGED <<pc, overlap>>
    BY <1>8 DEF Remove
  <2> QED BY <2>1 DEF ToldInv, Alone, Reporting
<1>9. CASE Expire \/ (\E v \in Rates : SourceChanges(v)) \/ UNCHANGED vars
  <2>1. /\ UNCHANGED <<present, state, pc, local, overlap, said>>
        /\ mpc' = mpc \/ (mpc # "remove" /\ mpc' # "remove")
    BY <1>9 DEF Expire, SourceChanges, vars
  <2> QED BY <2>1 DEF ToldInv, Alone, Reporting, AboutToTell, Told, S
<1> QED
  BY <1>2, <1>3, <1>4, <1>5, <1>6, <1>7, <1>8, <1>9 DEF Next, WriteThread, ReportState

(* As long as reports of the metric did not overlap, the last notification *)
(* reported the state of its entry whenever no report and no timeout is    *)
(* under way.                                                              *)
THEOREM ToldCorrect == Spec => []QuietMeansTold
<1>1. Init => TypeInv /\ ToldInv
  BY TypeInit DEF Init, ToldInv, Alone, Reporting
<1>2. TypeInv /\ ToldInv /\ [Next]_vars => (TypeInv /\ ToldInv)'
  BY TypeStep, ToldStep
<1>3. ToldInv => QuietMeansTold
  BY DEF ToldInv, Told, QuietMeansTold, Reporting
<1> QED BY <1>1, <1>2, <1>3, PTL DEF Spec
=============================================================================
