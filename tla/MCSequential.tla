---------------------------- MODULE MCSequential ----------------------------
(***************************************************************************)
(* The components whose callers serialise all calls, each alone: `part' is *)
(* the one that a behaviour is about, the others rest in their initial     *)
(* states, so that the state spaces add up and do not multiply.            *)
(***************************************************************************)
EXTENDS Heap, AvlTree, LabelSet, Distribution, Latency, Counter, MCFilterChain

VARIABLE part

seqvars == <<part, heapvars, avlvars, labelvars, distvars, latencyvars, countervars,
             chainvars>>

Parts == {"heap", "tree", "labels", "distribution", "latency", "counter", "chains"}

SeqInit ==
  /\ part \in Parts
  /\ HeapInit /\ AvlInit /\ LabelInit /\ DistInit /\ LatencyInit /\ ChainInit
  /\ IF part = "counter" THEN CounterInit
     ELSE CounterInit /\ source = [width |-> Low, value |-> 0]

Rest(p) ==
  /\ part = p /\ UNCHANGED part
  /\ p = "heap" \/ UNCHANGED heapvars
  /\ p = "tree" \/ UNCHANGED avlvars
  /\ p = "labels" \/ UNCHANGED labelvars
  /\ p = "distribution" \/ UNCHANGED distvars
  /\ p = "latency" \/ UNCHANGED latencyvars
  /\ p = "counter" \/ UNCHANGED countervars
  /\ p = "chains" \/ UNCHANGED chainvars

SeqNext ==
  \/ Rest("heap") /\ HeapNext
  \/ Rest("tree") /\ AvlNext
  \/ Rest("labels") /\ LabelNext
  \/ Rest("distribution") /\ DistNext
  \/ Rest("latency") /\ LatencyNext
  \/ Rest("counter") /\ CounterNext
  \/ Rest("chains") /\ ChainNext

SeqSpec == SeqInit /\ [][SeqNext]_seqvars

-----------------------------------------------------------------------------
(* Seven items, three levels, two of them with equal keys *)
MCKey == [x \in Items |-> IF x = 7 THEN 3 ELSE x]

MCValueOf == [k \in Keys |-> 10 * k]
=============================================================================
