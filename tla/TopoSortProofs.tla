--------------------------- MODULE TopoSortProofs ---------------------------
(***************************************************************************)
(* Proofs about TopoSort, for every finite graph.                          *)
(***************************************************************************)
EXTENDS TopoSort, FiniteSetTheorems, TLAPS

-----------------------------------------------------------------------------
(* Sequences as queues.                                                    *)

(* Appending e adds e to the elements, and keeps them distinct if e is new.*)
LEMMA AppendFacts ==
  ASSUME NEW S, NEW s \in Seq(S), NEW e \in S
  PROVE  /\ Append(s, e) \in Seq(S)
         /\ Range(Append(s, e)) = Range(s) \cup {e}
         /\ IsInjective(s) /\ e \notin Range(s) => IsInjective(Append(s, e))
<1>1. /\ Append(s, e) \in Seq(S) /\ Len(Append(s, e)) = Len(s) + 1
      /\ DOMAIN Append(s, e) = 1..(Len(s) + 1) /\ DOMAIN s = 1..Len(s) /\ Len(s) \in Nat
  OBVIOUS
<1>2. \A i \in 1..Len(s) : Append(s, e)[i] = s[i]
  OBVIOUS
<1>3. Append(s, e)[Len(s) + 1] = e
  OBVIOUS
<1>4. Range(Append(s, e)) = Range(s) \cup {e}
  BY <1>1, <1>2, <1>3 DEF Range
<1>5. ASSUME IsInjective(s), e \notin Range(s)
      PROVE  IsInjective(Append(s, e))
  <2> SUFFICES ASSUME NEW i \in 1..(Len(s) + 1), NEW j \in 1..(Len(s) + 1),
                      Append(s, e)[i] = Append(s, e)[j]
               PROVE  i = j
    BY <1>1 DEF IsInjective
  <2>1. \A m \in 1..Len(s) : s[m] # e
    BY <1>1, <1>5 DEF Range
  <2>2. CASE i \in 1..Len(s) /\ j \in 1..Len(s)
    BY <2>2, <1>1, <1>2, <1>5 DEF IsInjective
  <2>3. CASE i = Len(s) + 1 \/ j = Len(s) + 1
    BY <2>1, <2>3, <1>1, <1>2, <1>3
  <2> QED BY <2>2, <2>3, <1>1
<1> QED BY <1>1, <1>4, <1>5

(* Taking the head of a queue of distinct elements removes just that one.  *)
LEMMA TailFacts ==
  ASSUME NEW S, NEW s \in Seq(S), s # <<>>, IsInjective(s)
  PROVE  /\ Head(s) \in S /\ Head(s) \in Range(s)
         /\ Tail(s) \in Seq(S) /\ IsInjective(Tail(s))
         /\ Range(Tail(s)) = Range(s) \ {Head(s)}
<1>1. /\ Len(s) \in Nat \ {0} /\ DOMAIN s = 1..Len(s)
      /\ Tail(s) \in Seq(S) /\ Len(Tail(s)) = Len(s) - 1
      /\ DOMAIN Tail(s) = 1..(Len(s) - 1)
      /\ Head(s) = s[1] /\ \A i \in 1..Len(s) : s[i] \in S
  OBVIOUS
<1>2. \A i \in 1..(Len(s) - 1) : Tail(s)[i] = s[i + 1]
  OBVIOUS
<1>3. Head(s) \in S /\ Head(s) \in Range(s)
  BY <1>1 DEF Range
<1>4. IsInjective(Tail(s))
  BY <1>1, <1>2 DEF IsInjective
<1>5. Range(Tail(s)) \subseteq Range(s) \ {Head(s)}
  BY <1>1, <1>2 DEF Range, IsInjective
<1>6. ASSUME NEW x \in Range(s) \ {Head(s)} PROVE x \in Range(Tail(s))
  <2>1. PICK i \in 1..Len(s) : s[i] = x
    BY <1>1 DEF Range
  <2>2. i - 1 \in 1..(Len(s) - 1) /\ Tail(s)[i - 1] = s[(i - 1) + 1] /\ (i - 1) + 1 = i
    BY <2>1, <1>1, <1>2
  <2> QED BY <2>1, <2>2, <1>1 DEF Range
<1> QED BY <1>1, <1>3, <1>4, <1>5, <1>6

(* Distinct node ids fill a list of length n exactly if they are all there.*)
LEMMA DistinctFill ==
  ASSUME NEW n \in Nat, NEW s \in Seq(1..n), IsInjective(s)
  PROVE  Len(s) = n <=> Range(s) = 1..n
<1>1. Len(s) \in Nat /\ DOMAIN s = 1..Len(s) /\ s \in [1..Len(s) -> 1..n]
  OBVIOUS
<1>2. s \in Injection(1..Len(s), 1..n)
  BY <1>1 DEF Injection
<1>3. /\ IsFiniteSet(1..n) /\ Cardinality(1..n) = n
      /\ IsFiniteSet(1..Len(s)) /\ Cardinality(1..Len(s)) = Len(s)
  <2>1. \A m \in Nat : IsFiniteSet(1..m) /\ Cardinality(1..m) = m
    <3> TAKE m \in Nat
    <3>1. 1 \in Int /\ m \in Int /\ (1 > m => m = 0) /\ (m - 1) + 1 = m
      OBVIOUS
    <3> QED BY <3>1, FS_Interval
  <2> QED BY <1>1, <2>1
<1>4. Cardinality(1..Len(s)) = Cardinality(1..n) <=> s \in Surjection(1..Len(s), 1..n)
  BY <1>2, <1>3, FS_Injection
<1>5. s \in Surjection(1..Len(s), 1..n) <=> Range(s) = 1..n
  BY <1>1 DEF Surjection, Range
<1> QED BY <1>3, <1>4, <1>5

-----------------------------------------------------------------------------
(* The inductive invariant: what each loop has established so far.         *)

(* Nothing is ordered before the drain, nor queued before the seeding, nor *)
(* counted before the edges are.                                           *)
Untouched ==
  /\ pc \in {"entry", "producers", "edges", "seed"} => order = <<>>
  /\ pc \in {"entry", "producers", "edges"} => ready = <<>>
  /\ pc \in {"entry", "producers"} =>
       \A v \in Nodes : adj[v] = <<>> /\ indeg[v] = 0
  /\ pc = "entry" => ni = 1 /\ \A x \in Name : producer[x] = 0
  /\ pc # "entry" /\ pc # "done" => N # 0

(* The producer map holds the outputs of the nodes below m.                *)
Mapped(m) ==
  /\ \A x \in Name, p \in Nodes : producer[x] = p <=> (p < m /\ Produces(graph, p, x))
  /\ \A a, b \in Nodes : (a < m /\ b < m) => DistinctOutputs(graph, a, b)

(* The nodes below m are wired without a defect, and are those whose edges *)
(* the adjacency lists hold, each once.                                    *)
Scanned(m) ==
  /\ \A v \in Nodes : v < m => InputsDefined(graph, v) /\ ~SelfLoop(graph, v)
  /\ \A p \in Nodes :
       /\ IsInjective(adj[p])
       /\ Range(adj[p]) = {v \in Nodes : v < m /\ Edge(graph, p, v)}

Counted(m) ==
  \A v \in Nodes : indeg[v] = IF v < m THEN Cardinality(Preds(graph, v)) ELSE 0

(* The queue holds the nodes below m without predecessors.                 *)
Seeded(m) ==
  /\ IsInjective(ready)
  /\ Range(ready) = {v \in Nodes : v < m /\ indeg[v] = 0}

LoopInv ==
  /\ pc = "producers" => Mapped(ni)
  /\ pc \in {"edges", "seed", "drain", "relax"} => Mapped(N + 1)
  /\ pc = "edges" => Scanned(ni) /\ Counted(ni)
  /\ pc \in {"seed", "drain", "relax"} => Scanned(N + 1)
  /\ pc = "seed" => Counted(N + 1) /\ Seeded(ni)
  /\ pc = "relax" => u \in Emitted /\ k # 0

(* No node of a trap is ever emitted: it would need one emitted before it. *)
TrapsUnplaced == \A S \in SUBSET Nodes : Trap(graph, S) => S \cap Emitted = {}

Returning == status = "none" <=> pc # "done"

IInv ==
  /\ TypeOK /\ Untouched /\ LoopInv
  /\ InDegreesCount /\ QueuedOnce
  /\ PredsFirst /\ TrapsUnplaced
  /\ Returning /\ VerdictExact /\ LeftoverExact

-----------------------------------------------------------------------------
(* What the type of a graph says of its nodes.                             *)
LEMMA GraphFacts ==
  ASSUME graph \in Graph
  PROVE  /\ N \in Nat /\ Nodes = 1..N
         /\ \A v \in Nodes : /\ Inputs(graph, v) \in Seq(Str)
                             /\ Outputs(graph, v) \in Seq(Str)
                             /\ Refs(Inputs(graph, v)) \subseteq Name
                             /\ Refs(Outputs(graph, v)) \subseteq Name
         /\ \A v : Preds(graph, v) \subseteq Nodes
<1>1. graph.nodes \in Seq(Node)
  BY DEF Graph
<1>2. N \in Nat /\ Nodes = 1..N /\ \A v \in Nodes : graph.nodes[v] \in Node
  BY <1>1 DEF N, Nodes, NodeIds
<1>3. ASSUME NEW v \in Nodes
      PROVE  Inputs(graph, v) \in Seq(Str) /\ Outputs(graph, v) \in Seq(Str)
  BY <1>2 DEF Node, Inputs, Outputs
<1>4. ASSUME NEW names \in Seq(Str) PROVE Refs(names) \subseteq Name
  BY DEF Refs, Str
<1>5. \A v : Preds(graph, v) \subseteq Nodes
  BY DEF Preds, Nodes
<1> QED BY <1>2, <1>3, <1>4, <1>5

(* Sets of nodes are finite, so their cardinalities are numbers.           *)
LEMMA FiniteNodes ==
  ASSUME graph \in Graph, NEW S \in SUBSET Nodes
  PROVE  IsFiniteSet(S) /\ Cardinality(S) \in Nat /\ (Cardinality(S) = 0 <=> S = {})
<1>1. 1 \in Int /\ N \in Int /\ Nodes = 1..N
  BY GraphFacts
<1>2. IsFiniteSet(Nodes)
  BY <1>1, FS_Interval
<1>3. IsFiniteSet(S)
  BY <1>2, FS_Subset
<1> QED BY <1>3, FS_CardinalityType, FS_EmptySet

(* The initial states satisfy the invariant.                               *)
LEMMA InitInv == Init => IInv
<1> SUFFICES ASSUME Init PROVE IInv
  OBVIOUS
<1>1. graph \in Graph
  BY GraphsAssumption DEF Init
<1>2. N \in Nat /\ Nodes = 1..N
  BY <1>1, GraphFacts
<1>3. TypeOK
  BY <1>1, <1>2 DEF Init, TypeOK, Verdicts
<1>4. Emitted = {} /\ DOMAIN order = {}
  BY DEF Init, Emitted, Range
<1>5. Untouched /\ LoopInv /\ Returning /\ InDegreesCount /\ QueuedOnce
  BY <1>2 DEF Init, Untouched, LoopInv, Returning, InDegreesCount, QueuedOnce, Draining
<1>6. PredsFirst /\ TrapsUnplaced /\ VerdictExact /\ LeftoverExact
  BY <1>4 DEF Init, PredsFirst, TrapsUnplaced, VerdictExact, LeftoverExact
<1> QED BY <1>3, <1>5, <1>6 DEF IInv

-----------------------------------------------------------------------------
(* Before the drain.                                                       *)

LEMMA EnterEmptyInv == IInv /\ EnterEmpty => IInv'
<1> SUFFICES ASSUME IInv, EnterEmpty PROVE IInv'
  OBVIOUS
<1> USE DEF IInv
<1>1. graph \in Graph /\ graph' = graph /\ N = 0 /\ Nodes = {} /\ Nodes' = {} /\ N' = 0
  BY GraphFacts DEF TypeOK, EnterEmpty, Nodes, N
<1>2. order = <<>> /\ order' = <<>> /\ DOMAIN order = {} /\ pc' = "done" /\ status' = "ok"
  BY DEF EnterEmpty, Return, Untouched
<1>3. TypeOK'
  BY <1>1 DEF TypeOK, EnterEmpty, Return, Verdicts
<1>4. SingleAssignment(graph) /\ (\A v \in Nodes : InputsDefined(graph, v)) /\ ~HasCycle(graph)
  BY <1>1 DEF SingleAssignment, HasCycle, Nodes
<1>5. IsTopoOrder(graph, order)
  BY <1>1, <1>2 DEF IsTopoOrder, Nodes
<1>6. VerdictExact'
  BY <1>1, <1>2, <1>4, <1>5 DEF VerdictExact, AllDefined
<1>7. Untouched' /\ LoopInv' /\ Returning' /\ InDegreesCount' /\ QueuedOnce' /\ LeftoverExact'
  BY <1>2 DEF Untouched, LoopInv, Returning, InDegreesCount, QueuedOnce, Draining, LeftoverExact
<1>8. PredsFirst' /\ TrapsUnplaced'
  BY <1>2 DEF PredsFirst, TrapsUnplaced, Emitted, Range
<1> QED BY <1>3, <1>6, <1>7, <1>8

LEMMA EnterInv == IInv /\ Enter => IInv'
<1> SUFFICES ASSUME IInv, Enter PROVE IInv'
  OBVIOUS
<1> USE DEF IInv
<1>1. graph \in Graph /\ graph' = graph /\ Nodes = 1..N /\ N \in Nat /\ Nodes' = Nodes /\ N' = N /\ N # 0
  BY GraphFacts DEF TypeOK, Enter, Nodes, N
<1>2. pc' = "producers" /\ order' = <<>> /\ DOMAIN order' = {} /\ status' = "none"
  BY DEF Enter, Untouched, Returning
<1>3. TypeOK'
  BY <1>1 DEF TypeOK, Enter
<1>4. Untouched'
  BY <1>1 DEF Untouched, Enter
<1>5. Mapped(ni)'
  BY <1>1 DEF Mapped, Untouched, Enter
<1>6. LoopInv'
  BY <1>2, <1>5 DEF LoopInv
<1>7. Returning' /\ InDegreesCount' /\ QueuedOnce' /\ VerdictExact' /\ LeftoverExact'
  BY <1>2 DEF Returning, InDegreesCount, QueuedOnce, Draining, LeftoverExact, VerdictExact
<1>8. PredsFirst' /\ TrapsUnplaced'
  BY <1>2 DEF PredsFirst, TrapsUnplaced, Emitted, Range
<1> QED BY <1>3, <1>4, <1>6, <1>7, <1>8

(* A clash: one of the two definitions is in the map, or both are here.    *)
LEMMA MapClashInv == IInv /\ MapClash => IInv'
<1> SUFFICES ASSUME IInv, MapClash PROVE IInv'
  OBVIOUS
<1> USE DEF IInv
<1>1. /\ graph \in Graph /\ graph' = graph /\ Nodes = 1..N /\ N \in Nat
      /\ Nodes' = Nodes /\ N' = N /\ ni \in Nodes
  BY GraphFacts DEF TypeOK, MapClash, Nodes, N, Untouched
<1>2. pc' = "done" /\ status' = "multiple" /\ order' = <<>> /\ DOMAIN order' = {}
  BY DEF MapClash, Return, Untouched
<1>3. TypeOK'
  BY <1>1 DEF TypeOK, MapClash, Return, Verdicts
<1>4. ~SingleAssignment(graph)
  <2> DEFINE outs == Outputs(graph, ni)
  <2>1. PICK j \in DOMAIN outs :
          /\ outs[j] # Empty
          /\ producer[outs[j]] # 0 \/ \E i \in 1..(j - 1) : outs[i] = outs[j]
    BY DEF MapClash, Clash
  <2>2. outs \in Seq(Str) /\ DOMAIN outs = 1..Len(outs) /\ Len(outs) \in Nat
    BY <1>1, GraphFacts
  <2>3. outs[j] \in Name /\ producer[outs[j]] \in Nodes \cup {0}
    BY <1>1, <2>1, <2>2 DEF Str, TypeOK
  <2>4. CASE producer[outs[j]] # 0
    <3> DEFINE p == producer[outs[j]]
    <3>1. p \in Nodes /\ p < ni /\ Produces(graph, p, outs[j])
      BY <2>3, <2>4 DEF LoopInv, Mapped, MapClash
    <3>2. PICK i \in DOMAIN Outputs(graph, p) : Outputs(graph, p)[i] = outs[j]
      BY <3>1 DEF Produces, Refs
    <3>3. p # ni
      BY <3>1, <1>1
    <3>4. ~DistinctOutputs(graph, p, ni)
      BY <2>1, <3>2, <3>3 DEF DistinctOutputs
    <3> QED BY <3>1, <3>4, <1>1 DEF SingleAssignment, Nodes
  <2>5. CASE \E i \in 1..(j - 1) : outs[i] = outs[j]
    <3>1. PICK i \in 1..(j - 1) : outs[i] = outs[j]
      BY <2>5
    <3>2. i \in DOMAIN outs /\ i # j
      BY <2>1, <2>2, <3>1
    <3>3. ~DistinctOutputs(graph, ni, ni)
      BY <2>1, <3>1, <3>2 DEF DistinctOutputs
    <3> QED BY <3>3, <1>1 DEF SingleAssignment, Nodes
  <2> QED BY <2>1, <2>4, <2>5
<1>5. VerdictExact'
  BY <1>1, <1>2, <1>4 DEF VerdictExact
<1>6. Untouched' /\ LoopInv' /\ Returning' /\ InDegreesCount' /\ QueuedOnce' /\ LeftoverExact'
  BY <1>2 DEF Untouched, LoopInv, Returning, InDegreesCount, QueuedOnce, Draining, LeftoverExact
<1>7. PredsFirst' /\ TrapsUnplaced'
  BY <1>2 DEF PredsFirst, TrapsUnplaced, Emitted, Range
<1> QED BY <1>3, <1>5, <1>6, <1>7

(* No clash: the outputs of this node are new, and different.              *)
LEMMA NoClash ==
  ASSUME IInv, pc = "producers", ~Clash
  PROVE  /\ \A a \in Nodes : a < ni => /\ DistinctOutputs(graph, a, ni)
                                       /\ DistinctOutputs(graph, ni, a)
         /\ DistinctOutputs(graph, ni, ni)
         /\ \A x \in Name : Produces(graph, ni, x) => producer[x] = 0
<1> DEFINE outs == Outputs(graph, ni)
<1>1. /\ graph \in Graph /\ ni \in Nodes /\ Nodes = 1..N /\ N \in Nat
      /\ outs \in Seq(Str) /\ DOMAIN outs = 1..Len(outs) /\ Len(outs) \in Nat
      /\ \A x \in Name : producer[x] \in Nodes \cup {0}
  BY GraphFacts DEF IInv, TypeOK, Untouched
<1>2. \A j \in DOMAIN outs : outs[j] # Empty =>
        producer[outs[j]] = 0 /\ \A i \in 1..(j - 1) : outs[i] # outs[j]
  BY DEF Clash
<1>3. \A x \in Name : Produces(graph, ni, x) => producer[x] = 0
  BY <1>2 DEF Produces, Refs
<1>4. DistinctOutputs(graph, ni, ni)
  <2> SUFFICES ASSUME NEW i \in 1..Len(outs), NEW j \in 1..Len(outs),
                      outs[i] = outs[j], outs[i] # Empty, i # j
               PROVE  FALSE
    BY <1>1 DEF DistinctOutputs
  <2>1. CASE i < j
    <3>1. i \in 1..(j - 1)
      BY <1>1, <2>1
    <3> QED BY <1>1, <1>2, <3>1
  <2>2. CASE j < i
    <3>1. j \in 1..(i - 1)
      BY <1>1, <2>2
    <3> QED BY <1>1, <1>2, <3>1
  <2> QED BY <1>1, <2>1, <2>2
<1>5. ASSUME NEW a \in Nodes, a < ni,
             NEW i \in DOMAIN Outputs(graph, a), NEW j \in DOMAIN outs,
             Outputs(graph, a)[i] = outs[j], outs[j] # Empty
      PROVE  FALSE
  <2>1. outs[j] \in Name /\ Produces(graph, a, outs[j]) /\ Produces(graph, ni, outs[j])
    BY <1>1, <1>5 DEF Produces, Refs, Str
  <2>2. producer[outs[j]] = a
    BY <2>1, <1>5 DEF IInv, LoopInv, Mapped
  <2> QED BY <2>1, <2>2, <1>1, <1>3
<1>6. \A a \in Nodes : a < ni => DistinctOutputs(graph, a, ni) /\ DistinctOutputs(graph, ni, a)
  BY <1>5 DEF DistinctOutputs
<1> QED BY <1>3, <1>4, <1>6

LEMMA MapNodeInv == IInv /\ MapNode => IInv'
<1> SUFFICES ASSUME IInv, MapNode PROVE IInv'
  OBVIOUS
<1> USE DEF IInv
<1>1. /\ graph \in Graph /\ graph' = graph /\ Nodes = 1..N /\ N \in Nat
      /\ Nodes' = Nodes /\ N' = N /\ ni \in Nodes /\ pc = "producers" /\ ~Clash
  BY GraphFacts DEF TypeOK, MapNode, Nodes, N, Untouched
<1>2. /\ order' = <<>> /\ DOMAIN order' = {} /\ status' = "none" /\ ready' = <<>>
      /\ adj' = adj /\ indeg' = indeg /\ \A v \in Nodes : adj[v] = <<>> /\ indeg[v] = 0
      /\ producer' = [x \in Name |-> IF Produces(graph, ni, x) THEN ni ELSE producer[x]]
  BY <1>1 DEF MapNode, Untouched, Returning
<1>3. \/ ni < N /\ ni' = ni + 1 /\ pc' = "producers"
      \/ ni = N /\ ni' = 1 /\ pc' = "edges"
  BY <1>1 DEF MapNode, Advance
<1>4. ni' \in Nodes /\ ni' \in Nat \ {0}
  BY <1>1, <1>3
<1>5. producer' \in [Name -> Nodes \cup {0}]
  BY <1>1, <1>2 DEF TypeOK
<1>6. TypeOK'
  BY <1>1, <1>3, <1>4, <1>5 DEF TypeOK, MapNode
<1>7. Untouched'
  BY <1>1, <1>2, <1>3 DEF Untouched
<1>8. \A x \in Name, p \in Nodes :
        producer'[x] = p <=> (p < ni + 1 /\ Produces(graph, p, x))
  <2> SUFFICES ASSUME NEW x \in Name, NEW p \in Nodes
               PROVE  producer'[x] = p <=> (p < ni + 1 /\ Produces(graph, p, x))
    OBVIOUS
  <2>1. producer[x] = p <=> (p < ni /\ Produces(graph, p, x))
    BY <1>1 DEF LoopInv, Mapped
  <2>2. CASE Produces(graph, ni, x)
    <3>1. producer'[x] = ni /\ producer[x] = 0
      BY <1>1, <1>2, <2>2, NoClash
    <3> QED BY <1>1, <2>1, <2>2, <3>1
  <2>3. CASE ~Produces(graph, ni, x)
    <3>1. producer'[x] = producer[x]
      BY <1>2, <2>3
    <3> QED BY <1>1, <2>1, <2>3, <3>1
  <2> QED BY <2>2, <2>3
<1>9. \A a, b \in Nodes : (a < ni + 1 /\ b < ni + 1) => DistinctOutputs(graph, a, b)
  <2>1. \A a \in Nodes : a < ni + 1 => a < ni \/ a = ni
    BY <1>1
  <2>2. \A a, b \in Nodes : (a < ni /\ b < ni) => DistinctOutputs(graph, a, b)
    BY <1>1 DEF LoopInv, Mapped
  <2> QED BY <1>1, <2>1, <2>2, NoClash
<1>10. ASSUME ni < N, ni' = ni + 1, pc' = "producers" PROVE LoopInv'
  <2>1. Mapped(ni)'
    BY <1>1, <1>8, <1>9, <1>10 DEF Mapped
  <2> QED BY <2>1, <1>10 DEF LoopInv
<1>11. ASSUME ni = N, ni' = 1, pc' = "edges" PROVE LoopInv'
  <2>1. Mapped(N + 1)'
    BY <1>1, <1>8, <1>9, <1>11 DEF Mapped
  <2>2. Scanned(ni)'
    <3>1. \A v \in Nodes : ~(v < 1)
      BY <1>1
    <3> QED BY <1>1, <1>2, <1>11, <3>1 DEF Scanned, Range, IsInjective
  <2>3. Counted(ni)'
    <3>1. \A v \in Nodes : ~(v < 1)
      BY <1>1
    <3> QED BY <1>1, <1>2, <1>11, <3>1 DEF Counted
  <2> QED BY <2>1, <2>2, <2>3, <1>11 DEF LoopInv
<1>12. LoopInv'
  BY <1>3, <1>10, <1>11
<1>13. Returning' /\ InDegreesCount' /\ QueuedOnce' /\ VerdictExact' /\ LeftoverExact'
  BY <1>2, <1>3 DEF Returning, InDegreesCount, QueuedOnce, Draining, LeftoverExact, VerdictExact
<1>14. PredsFirst' /\ TrapsUnplaced'
  BY <1>2 DEF PredsFirst, TrapsUnplaced, Emitted, Range
<1> QED BY <1>6, <1>7, <1>12, <1>13, <1>14

(* The map is complete, so it tells who produces a value, if anybody does. *)
LEMMA ProducerMap ==
  ASSUME IInv, pc \in {"edges", "seed", "drain", "relax"}
  PROVE  /\ SingleAssignment(graph)
         /\ \A x \in Name : producer[x] \in Nodes \cup {0}
         /\ \A x \in Name, p \in Nodes : producer[x] = p <=> Produces(graph, p, x)
         /\ \A x \in Name : producer[x] = 0 <=> ~IsProduced(graph, x)
<1>1. Nodes = 1..N /\ N \in Nat /\ Mapped(N + 1) /\ producer \in [Name -> Nodes \cup {0}]
  BY GraphFacts DEF IInv, TypeOK, LoopInv
<1>2. \A x \in Name, p \in Nodes : producer[x] = p <=> Produces(graph, p, x)
  BY <1>1 DEF Mapped
<1>3. SingleAssignment(graph)
  BY <1>1 DEF Mapped, SingleAssignment, Nodes
<1>4. \A x \in Name : producer[x] \in Nodes \cup {0}
  BY <1>1
<1>5. \A x \in Name : producer[x] = 0 <=> ~IsProduced(graph, x)
  <2>1. \A p \in Nodes : p # 0
    BY <1>1
  <2> QED BY <1>2, <1>4, <2>1 DEF IsProduced, Nodes
<1> QED BY <1>2, <1>3, <1>4, <1>5

LEMMA ScanRejectInv == IInv /\ ScanReject => IInv'
<1> SUFFICES ASSUME IInv, ScanReject PROVE IInv'
  OBVIOUS
<1> USE DEF IInv
<1>1. /\ graph \in Graph /\ graph' = graph /\ Nodes = 1..N /\ N \in Nat
      /\ Nodes' = Nodes /\ N' = N /\ ni \in Nodes /\ pc = "edges"
  BY GraphFacts DEF TypeOK, ScanReject, Nodes, N, Untouched
<1>2. PICK j \in DOMAIN Inputs(graph, ni) :
        /\ BadInput(Inputs(graph, ni)[j])
        /\ Return(IF OwnOutput(Inputs(graph, ni)[j]) THEN "self_loop" ELSE "undefined")
  BY DEF ScanReject
<1> DEFINE x == Inputs(graph, ni)[j]
<1>3. order' = <<>> /\ DOMAIN order' = {} /\ pc' = "done"
      /\ status' = IF OwnOutput(x) THEN "self_loop" ELSE "undefined"
  BY <1>1, <1>2 DEF ScanReject, Return, Untouched
<1>4. x \in Refs(Inputs(graph, ni)) /\ x \in Name
  <2>1. x # Empty
    BY <1>2 DEF BadInput, UndefinedInput, OwnOutput
  <2>2. x \in Refs(Inputs(graph, ni))
    BY <2>1 DEF Refs
  <2> QED BY <2>2, <1>1, GraphFacts
<1>5. TypeOK'
  BY <1>1, <1>3 DEF TypeOK, ScanReject, Verdicts
<1>6. SingleAssignment(graph)
  BY <1>1, ProducerMap
<1>7. status' = "self_loop" => SelfLoop(graph, ni)
  <2> SUFFICES ASSUME status' = "self_loop" PROVE SelfLoop(graph, ni)
    OBVIOUS
  <2>1. producer[x] = ni
    BY <1>3 DEF OwnOutput
  <2>2. Produces(graph, ni, x)
    BY <2>1, <1>1, <1>4, ProducerMap
  <2> QED BY <2>2, <1>4 DEF SelfLoop, Edge
<1>8. status' = "undefined" => ~InputsDefined(graph, ni)
  <2> SUFFICES ASSUME status' = "undefined" PROVE ~InputsDefined(graph, ni)
    OBVIOUS
  <2>1. producer[x] = 0 /\ ~IsSeed(graph, x)
    BY <1>2, <1>3 DEF BadInput, UndefinedInput
  <2>2. ~IsProduced(graph, x)
    BY <2>1, <1>1, <1>4, ProducerMap
  <2> QED BY <2>1, <2>2, <1>4 DEF InputsDefined
<1>9. VerdictExact'
  BY <1>1, <1>3, <1>6, <1>7, <1>8 DEF VerdictExact, AllDefined
<1>10. Untouched' /\ LoopInv' /\ Returning' /\ InDegreesCount' /\ QueuedOnce' /\ LeftoverExact'
  BY <1>3 DEF Untouched, LoopInv, Returning, InDegreesCount, QueuedOnce, Draining, LeftoverExact
<1>11. PredsFirst' /\ TrapsUnplaced'
  BY <1>3 DEF PredsFirst, TrapsUnplaced, Emitted, Range
<1> QED BY <1>5, <1>9, <1>10, <1>11

(* An accepted node: the predecessors seen are all there are.              *)
LEMMA AcceptedNode ==
  ASSUME IInv, pc = "edges", \A x \in Refs(Inputs(graph, ni)) : ~BadInput(x)
  PROVE  /\ InputsDefined(graph, ni) /\ ~SelfLoop(graph, ni)
         /\ SeenPreds = Preds(graph, ni)
<1>1. /\ ni \in Nodes /\ Nodes = 1..N /\ N \in Nat
      /\ Refs(Inputs(graph, ni)) \subseteq Name
      /\ \A x \in Refs(Inputs(graph, ni)) : x # Empty
  BY GraphFacts DEF IInv, TypeOK, Untouched, Refs
<1>2. InputsDefined(graph, ni)
  BY <1>1, ProducerMap DEF InputsDefined, BadInput, UndefinedInput
<1>3. ~SelfLoop(graph, ni)
  BY <1>1, ProducerMap DEF SelfLoop, Edge, BadInput, OwnOutput
<1>4. ASSUME NEW p PROVE p \in SeenPreds <=> p \in Preds(graph, ni)
  <2>1. p \in SeenPreds <=> \E x \in Refs(Inputs(graph, ni)) : producer[x] = p /\ p # 0
    BY DEF SeenPreds
  <2>2. \A x \in Refs(Inputs(graph, ni)) :
          (producer[x] = p /\ p # 0) <=> (p \in Nodes /\ Produces(graph, p, x))
    <3> TAKE x \in Refs(Inputs(graph, ni))
    <3>1. producer[x] \in Nodes \cup {0} /\ 0 \notin Nodes
      BY <1>1, ProducerMap
    <3>2. p \in Nodes => (producer[x] = p <=> Produces(graph, p, x))
      BY <1>1, ProducerMap
    <3> QED BY <3>1, <3>2
  <2> QED BY <2>1, <2>2 DEF Preds, Edge, Nodes
<1> QED BY <1>2, <1>3, <1>4

LEMMA ScanNodeInv == IInv /\ ScanNode => IInv'
<1> SUFFICES ASSUME IInv, ScanNode PROVE IInv'
  OBVIOUS
<1> USE DEF IInv
<1>1. /\ graph \in Graph /\ graph' = graph /\ Nodes = 1..N /\ N \in Nat
      /\ Nodes' = Nodes /\ N' = N /\ ni \in Nodes /\ pc = "edges"
  BY GraphFacts DEF TypeOK, ScanNode, Nodes, N, Untouched
<1>2. /\ order' = <<>> /\ DOMAIN order' = {} /\ status' = "none" /\ ready' = <<>>
      /\ producer' = producer
  BY <1>1 DEF ScanNode, Untouched, Returning
<1>3. \/ ni < N /\ ni' = ni + 1 /\ pc' = "edges"
      \/ ni = N /\ ni' = 1 /\ pc' = "seed"
  BY <1>1 DEF ScanNode, Advance
<1>4. /\ InputsDefined(graph, ni) /\ ~SelfLoop(graph, ni)
      /\ SeenPreds = Preds(graph, ni)
  BY <1>1, AcceptedNode DEF ScanNode
<1>5. Scanned(ni) /\ Counted(ni) /\ Mapped(N + 1)
  BY <1>1 DEF LoopInv
<1>6. Cardinality(SeenPreds) \in Nat
  BY <1>1, <1>4, GraphFacts, FiniteNodes
<1>7. /\ adj \in [Nodes -> Seq(Nodes)] /\ indeg \in [Nodes -> Nat]
      /\ adj' = [p \in Nodes |-> IF p \in SeenPreds THEN Append(adj[p], ni) ELSE adj[p]]
      /\ indeg' = [indeg EXCEPT ![ni] = @ + Cardinality(SeenPreds)]
  BY DEF TypeOK, ScanNode
<1>8. ASSUME NEW p \in Nodes
      PROVE  /\ adj'[p] \in Seq(Nodes)
             /\ IsInjective(adj'[p])
             /\ Range(adj'[p]) = {v \in Nodes : v < ni + 1 /\ Edge(graph, p, v)}
  <2>1. /\ adj[p] \in Seq(Nodes) /\ IsInjective(adj[p])
        /\ Range(adj[p]) = {v \in Nodes : v < ni /\ Edge(graph, p, v)}
    BY <1>5, <1>7 DEF Scanned
  <2>2. ni \notin Range(adj[p])
    BY <1>1, <2>1
  <2>3. p \in SeenPreds <=> Edge(graph, p, ni)
    BY <1>4 DEF Preds, Nodes
  <2>4. \A v \in Nodes : v < ni + 1 <=> (v < ni \/ v = ni)
    BY <1>1
  <2>5. CASE p \in SeenPreds
    <3>1. adj'[p] = Append(adj[p], ni)
      BY <1>7, <2>5
    <3>2. adj'[p] \in Seq(Nodes) /\ IsInjective(adj'[p])
          /\ Range(adj'[p]) = Range(adj[p]) \cup {ni}
      BY <3>1, <2>1, <2>2, <1>1, AppendFacts
    <3> QED BY <3>2, <2>1, <2>3, <2>4, <2>5, <1>1
  <2>6. CASE p \notin SeenPreds
    <3>1. adj'[p] = adj[p]
      BY <1>7, <2>6
    <3> QED BY <3>1, <2>1, <2>3, <2>4, <2>6
  <2> QED BY <2>5, <2>6
<1>9. \A v \in Nodes : v < ni + 1 => InputsDefined(graph, v) /\ ~SelfLoop(graph, v)
  <2>1. \A v \in Nodes : v < ni + 1 <=> (v < ni \/ v = ni)
    BY <1>1
  <2> QED BY <2>1, <1>4, <1>5 DEF Scanned
<1>10. /\ indeg' \in [Nodes -> Nat]
       /\ \A v \in Nodes : indeg'[v] = IF v < ni + 1 THEN Cardinality(Preds(graph, v)) ELSE 0
  <2>1. indeg[ni] = 0
    BY <1>1, <1>5 DEF Counted
  <2>2. indeg'[ni] = Cardinality(Preds(graph, ni)) /\ indeg'[ni] \in Nat
    BY <2>1, <1>1, <1>4, <1>6, <1>7
  <2>3. \A v \in Nodes : v # ni => indeg'[v] = indeg[v]
    BY <1>7
  <2>4. \A v \in Nodes : v # ni => (v < ni + 1 <=> v < ni)
    BY <1>1
  <2>5. \A v \in Nodes : indeg'[v] = IF v < ni + 1 THEN Cardinality(Preds(graph, v)) ELSE 0
    BY <2>2, <2>3, <2>4, <1>1, <1>5 DEF Counted
  <2> QED BY <2>2, <2>3, <2>5, <1>7
<1>11. TypeOK'
  <2>1. adj' \in [Nodes -> Seq(Nodes)]
    <3> DEFINE new(p) == IF p \in SeenPreds THEN Append(adj[p], ni) ELSE adj[p]
    <3>1. \A p \in Nodes : new(p) \in Seq(Nodes)
      BY <1>7, <1>8
    <3> QED BY <3>1, <1>7
  <2>2. ni' \in Nodes /\ ni' \in Nat \ {0}
    BY <1>1, <1>3
  <2> QED BY <2>1, <2>2, <1>1, <1>3, <1>10 DEF TypeOK, ScanNode
<1>12. Untouched'
  BY <1>1, <1>2, <1>3 DEF Untouched
<1>13. Mapped(N + 1)'
  BY <1>1, <1>2, <1>5 DEF Mapped
<1>14. ASSUME ni < N, ni' = ni + 1, pc' = "edges" PROVE LoopInv'
  <2>1. Scanned(ni)'
    BY <1>1, <1>8, <1>9, <1>14 DEF Scanned
  <2>2. Counted(ni)'
    BY <1>1, <1>10, <1>14 DEF Counted
  <2> QED BY <2>1, <2>2, <1>13, <1>14 DEF LoopInv
<1>15. ASSUME ni = N, ni' = 1, pc' = "seed" PROVE LoopInv'
  <2>1. Scanned(N + 1)'
    BY <1>1, <1>8, <1>9, <1>15 DEF Scanned
  <2>2. Counted(N + 1)'
    BY <1>1, <1>10, <1>15 DEF Counted
  <2>3. Seeded(ni)'
    <3>1. \A v \in Nodes : ~(v < 1)
      BY <1>1
    <3> QED BY <3>1, <1>1, <1>2, <1>15 DEF Seeded, Range, IsInjective
  <2> QED BY <2>1, <2>2, <2>3, <1>13, <1>15 DEF LoopInv
<1>16. LoopInv'
  BY <1>3, <1>14, <1>15
<1>17. Returning' /\ InDegreesCount' /\ QueuedOnce' /\ VerdictExact' /\ LeftoverExact'
  BY <1>2, <1>3 DEF Returning, InDegreesCount, QueuedOnce, Draining, LeftoverExact, VerdictExact
<1>18. PredsFirst' /\ TrapsUnplaced'
  BY <1>2 DEF PredsFirst, TrapsUnplaced, Emitted, Range
<1> QED BY <1>11, <1>12, <1>16, <1>17, <1>18

LEMMA SeedReadyInv == IInv /\ SeedReady => IInv'
<1> SUFFICES ASSUME IInv, SeedReady PROVE IInv'
  OBVIOUS
<1> USE DEF IInv
<1>1. /\ graph \in Graph /\ graph' = graph /\ Nodes = 1..N /\ N \in Nat
      /\ Nodes' = Nodes /\ N' = N /\ ni \in Nodes /\ pc = "seed"
  BY GraphFacts DEF TypeOK, SeedReady, Nodes, N, Untouched
<1>2. /\ order' = <<>> /\ DOMAIN order' = {} /\ status' = "none"
      /\ producer' = producer /\ adj' = adj /\ indeg' = indeg
      /\ ready' = IF indeg[ni] = 0 THEN Append(ready, ni) ELSE ready
  BY <1>1 DEF SeedReady, Untouched, Returning
<1>3. \/ ni < N /\ ni' = ni + 1 /\ pc' = "seed"
      \/ ni = N /\ ni' = 1 /\ pc' = "drain"
  BY <1>1 DEF SeedReady, Advance
<1>4. Scanned(N + 1) /\ Counted(N + 1) /\ Mapped(N + 1) /\ Seeded(ni)
  BY <1>1 DEF LoopInv
<1>5. /\ ready' \in Seq(Nodes) /\ IsInjective(ready')
      /\ Range(ready') = {v \in Nodes : v < ni + 1 /\ indeg[v] = 0}
  <2>1. /\ ready \in Seq(Nodes) /\ IsInjective(ready)
        /\ Range(ready) = {v \in Nodes : v < ni /\ indeg[v] = 0}
    BY <1>4 DEF Seeded, TypeOK
  <2>2. ni \notin Range(ready)
    BY <1>1, <2>1
  <2>3. \A v \in Nodes : v < ni + 1 <=> (v < ni \/ v = ni)
    BY <1>1
  <2>4. CASE indeg[ni] = 0
    <3>1. ready' = Append(ready, ni)
      BY <1>2, <2>4
    <3>2. ready' \in Seq(Nodes) /\ IsInjective(ready') /\ Range(ready') = Range(ready) \cup {ni}
      BY <3>1, <2>1, <2>2, <1>1, AppendFacts
    <3> QED BY <3>2, <2>1, <2>3, <2>4, <1>1
  <2>5. CASE indeg[ni] # 0
    BY <1>2, <2>1, <2>3, <2>5
  <2> QED BY <2>4, <2>5
<1>6. TypeOK'
  <2>1. ni' \in Nodes /\ ni' \in Nat \ {0}
    BY <1>1, <1>3
  <2> QED BY <2>1, <1>1, <1>3, <1>5 DEF TypeOK, SeedReady
<1>7. Untouched'
  BY <1>1, <1>2, <1>3 DEF Untouched
<1>8. Mapped(N + 1)' /\ Scanned(N + 1)' /\ Counted(N + 1)'
  BY <1>1, <1>2, <1>4 DEF Mapped, Scanned, Counted
<1>9. ASSUME ni < N, ni' = ni + 1, pc' = "seed"
      PROVE  LoopInv' /\ InDegreesCount' /\ QueuedOnce'
  <2>1. Seeded(ni)'
    BY <1>1, <1>2, <1>5, <1>9 DEF Seeded
  <2> QED BY <2>1, <1>8, <1>9 DEF LoopInv, InDegreesCount, QueuedOnce, Draining
<1>10. ASSUME ni = N, ni' = 1, pc' = "drain"
       PROVE  LoopInv' /\ InDegreesCount' /\ QueuedOnce'
  <2>1. LoopInv'
    BY <1>8, <1>10 DEF LoopInv
  <2>2. Emitted' = {} /\ IsInjective(order')
    BY <1>2 DEF Emitted, Range, IsInjective
  <2>3. \A v \in Nodes : Waiting(v)' = Preds(graph, v)
    BY <2>2, <1>1 DEF Waiting
  <2>4. \A v \in Nodes : v < N + 1
    BY <1>1
  <2>5. InDegreesCount'
    BY <2>3, <2>4, <1>1, <1>2, <1>4 DEF InDegreesCount, Counted
  <2>6. QueuedOnce'
    BY <2>2, <2>4, <1>1, <1>2, <1>5, <1>10 DEF QueuedOnce, Queued
  <2> QED BY <2>1, <2>5, <2>6
<1>11. LoopInv' /\ InDegreesCount' /\ QueuedOnce'
  BY <1>3, <1>9, <1>10
<1>12. Returning' /\ VerdictExact' /\ LeftoverExact'
  BY <1>2, <1>3 DEF Returning, LeftoverExact, VerdictExact
<1>13. PredsFirst' /\ TrapsUnplaced'
  BY <1>2 DEF PredsFirst, TrapsUnplaced, Emitted, Range
<1> QED BY <1>6, <1>7, <1>11, <1>12, <1>13

-----------------------------------------------------------------------------
(* The drain.                                                              *)

(* In terms of the graph, adj[p] lists the consumers of p.                 *)
LEMMA AdjacencyFacts ==
  ASSUME IInv, pc \in {"seed", "drain", "relax"}, NEW p \in Nodes
  PROVE  /\ adj[p] \in Seq(Nodes) /\ IsInjective(adj[p])
         /\ DOMAIN adj[p] = 1..Len(adj[p]) /\ Len(adj[p]) \in Nat
         /\ \A v \in Nodes : Edge(graph, p, v) <=> \E j \in DOMAIN adj[p] : adj[p][j] = v
<1>1. /\ Nodes = 1..N /\ N \in Nat /\ Scanned(N + 1) /\ adj[p] \in Seq(Nodes)
  BY GraphFacts DEF IInv, TypeOK, LoopInv
<1>2. Range(adj[p]) = {v \in Nodes : Edge(graph, p, v)} /\ IsInjective(adj[p])
  BY <1>1 DEF Scanned
<1>3. \A v \in Nodes : Edge(graph, p, v) <=> \E j \in DOMAIN adj[p] : adj[p][j] = v
  BY <1>2 DEF Range
<1> QED BY <1>1, <1>2, <1>3

(* A queued node waits for nobody: all its predecessors are emitted.       *)
LEMMA QueuedIsReady ==
  ASSUME IInv, pc = "drain", NEW v \in Queued
  PROVE  v \in Nodes /\ v \notin Emitted /\ Preds(graph, v) \subseteq Emitted
<1>1. graph \in Graph /\ ready \in Seq(Nodes) /\ Draining
  BY DEF IInv, TypeOK, Draining
<1>2. v \in Nodes /\ v \notin Emitted /\ indeg[v] = 0
  <2>1. v \in Nodes
    BY <1>1 DEF Queued, Range
  <2> QED BY <2>1, <1>1 DEF IInv, QueuedOnce
<1>3. Cardinality(Waiting(v)) = 0
  BY <1>1, <1>2 DEF IInv, InDegreesCount
<1>4. Waiting(v) \subseteq Nodes
  BY <1>1, GraphFacts DEF Waiting
<1>5. Waiting(v) = {}
  BY <1>1, <1>3, <1>4, FiniteNodes
<1> QED BY <1>2, <1>5 DEF Waiting

LEMMA PopInv == IInv /\ Pop => IInv'
<1> SUFFICES ASSUME IInv, Pop PROVE IInv'
  OBVIOUS
<1> USE DEF IInv
<1> DEFINE v == Head(ready)
<1>1. /\ graph \in Graph /\ graph' = graph /\ Nodes = 1..N /\ N \in Nat
      /\ Nodes' = Nodes /\ N' = N /\ pc = "drain" /\ pc' = "relax" /\ Draining
  BY GraphFacts DEF TypeOK, Pop, Nodes, N, Draining
<1>2. /\ ready \in Seq(Nodes) /\ order \in Seq(Nodes) /\ ready # <<>>
      /\ IsInjective(ready) /\ IsInjective(order) /\ Emitted \cap Queued = {}
      /\ order' = Append(order, v) /\ ready' = Tail(ready) /\ u' = v /\ k' = 1
      /\ adj' = adj /\ indeg' = indeg /\ producer' = producer /\ status' = "none"
  BY <1>1 DEF TypeOK, Pop, QueuedOnce, Returning
<1>3. v \in Nodes /\ v \in Queued /\ ready' \in Seq(Nodes) /\ IsInjective(ready')
      /\ Queued' = Queued \ {v}
  BY <1>2, TailFacts DEF Queued
<1>4. v \notin Emitted /\ Preds(graph, v) \subseteq Emitted
  BY <1>1, <1>3, QueuedIsReady
<1>5. order' \in Seq(Nodes) /\ IsInjective(order') /\ Emitted' = Emitted \cup {v}
  BY <1>2, <1>3, <1>4, AppendFacts DEF Emitted
<1>6. TypeOK'
  <2>1. u' \in Nodes /\ k' \in Nat /\ ni' = ni
    BY <1>2, <1>3 DEF Pop
  <2>2. /\ ni \in Nat \ {0} /\ (N # 0 => ni \in Nodes)
        /\ producer \in [Name -> Nodes \cup {0}] /\ adj \in [Nodes -> Seq(Nodes)]
        /\ indeg \in [Nodes -> Nat]
    BY DEF TypeOK
  <2> QED BY <2>1, <2>2, <1>1, <1>2, <1>3, <1>5 DEF TypeOK
<1>7. Untouched'
  BY <1>1 DEF Untouched
<1>8. LoopInv'
  <2>1. Mapped(N + 1)' /\ Scanned(N + 1)'
    BY <1>1, <1>2 DEF LoopInv, Mapped, Scanned
  <2> QED BY <2>1, <1>1, <1>2, <1>5 DEF LoopInv
<1>9. ASSUME NEW w \in Nodes PROVE Waiting(w)' = Waiting(w)
  <2>1. ASSUME NEW p \in Preds(graph, w)
        PROVE  (p \notin Emitted' \/ StillToRelax(p, w)') <=> p \notin Emitted
    <3>1. p \in Nodes /\ Edge(graph, p, w)
      BY DEF Preds, Nodes
    <3>2. CASE p = v
      <4>1. PICK j \in DOMAIN adj[p] : adj[p][j] = w
        BY <1>1, <3>1, AdjacencyFacts
      <4>2. j >= 1
        BY <1>1, <3>1, AdjacencyFacts
      <4>3. StillToRelax(p, w)'
        BY <4>1, <4>2, <1>1, <1>2, <3>2 DEF StillToRelax
      <4> QED BY <4>3, <3>2, <1>4
    <3>3. CASE p # v
      BY <3>3, <1>2, <1>5 DEF StillToRelax
    <3> QED BY <3>2, <3>3
  <2>2. \A p : ~StillToRelax(p, w)
    BY <1>1 DEF StillToRelax
  <2> QED BY <2>1, <2>2, <1>1 DEF Waiting
<1>10. InDegreesCount'
  BY <1>1, <1>2, <1>9 DEF InDegreesCount
<1>11. QueuedOnce'
  BY <1>1, <1>2, <1>3, <1>5 DEF QueuedOnce
<1>12. PredsFirst'
  <2>1. DOMAIN order = 1..Len(order) /\ Len(order) \in Nat
        /\ DOMAIN order' = 1..(Len(order) + 1)
        /\ order'[Len(order) + 1] = v /\ \A i \in 1..Len(order) : order'[i] = order[i]
    BY <1>2, <1>3
  <2> SUFFICES ASSUME NEW j \in 1..(Len(order) + 1), NEW p \in Preds(graph, order'[j])
               PROVE  \E i \in 1..(j - 1) : order'[i] = p
    BY <2>1, <1>1 DEF PredsFirst
  <2>2. CASE j \in 1..Len(order)
    <3>1. PICK i \in 1..(j - 1) : order[i] = p
      BY <2>1, <2>2 DEF PredsFirst
    <3> QED BY <3>1, <2>1, <2>2
  <2>3. CASE j = Len(order) + 1
    <3>1. p \in Emitted
      BY <2>1, <2>3, <1>4
    <3>2. PICK i \in 1..Len(order) : order[i] = p
      BY <3>1, <2>1 DEF Emitted, Range
    <3> QED BY <3>2, <2>1, <2>3
  <2> QED BY <2>1, <2>2, <2>3
<1>13. TrapsUnplaced'
  <2> SUFFICES ASSUME NEW S \in SUBSET Nodes, Trap(graph, S) PROVE S \cap Emitted' = {}
    BY <1>1 DEF TrapsUnplaced
  <2>1. S \cap Emitted = {}
    BY DEF TrapsUnplaced
  <2>2. v \notin S
    BY <1>4, <2>1 DEF Trap, Preds, Nodes
  <2> QED BY <2>1, <2>2, <1>5
<1>14. Returning' /\ VerdictExact' /\ LeftoverExact'
  BY <1>1, <1>2 DEF Returning, LeftoverExact, VerdictExact
<1> QED BY <1>6, <1>7, <1>8, <1>10, <1>11, <1>12, <1>13, <1>14

(* Relaxing consumer v of u strikes u off the list of what v waits for.    *)
LEMMA RelaxWaiting ==
  ASSUME IInv, Relax, NEW w \in Nodes
  PROVE  Waiting(w)' = IF w = adj[u][k] THEN Waiting(w) \ {u} ELSE Waiting(w)
<1>1. /\ pc = "relax" /\ pc' = "relax" /\ u \in Nodes /\ u' = u /\ k' = k + 1 /\ k \in Nat
      /\ k # 0 /\ k <= Len(adj[u]) /\ adj' = adj /\ graph' = graph /\ order' = order
      /\ u \in Emitted
  BY DEF IInv, TypeOK, LoopInv, Relax
<1>2. /\ IsInjective(adj[u]) /\ DOMAIN adj[u] = 1..Len(adj[u]) /\ Len(adj[u]) \in Nat
  BY <1>1, AdjacencyFacts
<1>3. Emitted' = Emitted
  BY <1>1 DEF Emitted
<1>4. \A p : StillToRelax(p, w)' <=> (p = u /\ \E j \in DOMAIN adj[u] : j >= k + 1 /\ adj[u][j] = w)
  BY <1>1 DEF StillToRelax
<1>5. \A p : StillToRelax(p, w) <=> (p = u /\ \E j \in DOMAIN adj[u] : j >= k /\ adj[u][j] = w)
  BY <1>1 DEF StillToRelax
<1>6. CASE w = adj[u][k]
  <2>1. \A j \in DOMAIN adj[u] : adj[u][j] = w => j = k
    BY <1>1, <1>2, <1>6 DEF IsInjective
  <2>2. \A p : ~StillToRelax(p, w)'
    BY <2>1, <1>1, <1>2, <1>4
  <2>3. \A p : StillToRelax(p, w) => p = u
    BY <1>5
  <2> QED BY <2>2, <2>3, <1>1, <1>3, <1>6 DEF Waiting
<1>7. CASE w # adj[u][k]
  <2>1. \A j \in DOMAIN adj[u] : adj[u][j] = w => (j >= k + 1 <=> j >= k)
    <3> TAKE j \in DOMAIN adj[u]
    <3> HAVE adj[u][j] = w
    <3>1. j # k /\ j \in Nat
      BY <1>2, <1>7
    <3> QED BY <3>1, <1>1
  <2>2. \A p : StillToRelax(p, w)' <=> StillToRelax(p, w)
    BY <2>1, <1>4, <1>5
  <2> QED BY <2>2, <1>1, <1>3, <1>7 DEF Waiting
<1> QED BY <1>6, <1>7

LEMMA RelaxInv == IInv /\ Relax => IInv'
<1> SUFFICES ASSUME IInv, Relax PROVE IInv'
  OBVIOUS
<1> USE DEF IInv
<1> DEFINE v == adj[u][k]
<1>1. /\ graph \in Graph /\ graph' = graph /\ Nodes = 1..N /\ N \in Nat
      /\ Nodes' = Nodes /\ N' = N /\ pc = "relax" /\ pc' = "relax" /\ Draining
  BY GraphFacts DEF TypeOK, Relax, Nodes, N, Draining
<1>2. /\ ready \in Seq(Nodes) /\ u \in Nodes /\ u \in Emitted /\ k \in Nat /\ k # 0
      /\ indeg \in [Nodes -> Nat]
      /\ order' = order /\ u' = u /\ k' = k + 1 /\ k <= Len(adj[u])
      /\ adj' = adj /\ producer' = producer /\ status' = "none" /\ status = "none"
      /\ indeg' = [indeg EXCEPT ![v] = @ - 1]
      /\ ready' = IF indeg[v] = 1 THEN Append(ready, v) ELSE ready
  BY <1>1 DEF TypeOK, Relax, LoopInv, Returning
<1>3. v \in Nodes /\ k \in DOMAIN adj[u] /\ Edge(graph, u, v)
  <2>1. k \in DOMAIN adj[u] /\ adj[u] \in Seq(Nodes)
    BY <1>1, <1>2, AdjacencyFacts
  <2>2. v \in Nodes
    BY <2>1
  <2> QED BY <2>1, <2>2, <1>1, <1>2, AdjacencyFacts
<1>4. u \in Waiting(v)
  <2>1. u \in Preds(graph, v)
    BY <1>2, <1>3 DEF Preds, Nodes
  <2>2. StillToRelax(u, v)
    BY <1>1, <1>2, <1>3 DEF StillToRelax
  <2> QED BY <2>1, <2>2 DEF Waiting
<1>5. \A w \in Nodes : indeg[w] = Cardinality(Waiting(w))
  BY <1>1 DEF InDegreesCount
<1>6. /\ IsFiniteSet(Waiting(v)) /\ Cardinality(Waiting(v)) \in Nat
      /\ Cardinality(Waiting(v)) # 0
      /\ Cardinality(Waiting(v) \ {u}) = Cardinality(Waiting(v)) - 1
  <2>1. Waiting(v) \subseteq Nodes
    BY <1>1, GraphFacts DEF Waiting
  <2>2. /\ IsFiniteSet(Waiting(v)) /\ Cardinality(Waiting(v)) \in Nat
        /\ (Cardinality(Waiting(v)) = 0 <=> Waiting(v) = {})
    BY <2>1, <1>1, FiniteNodes
  <2>3. Cardinality(Waiting(v) \ {u}) = Cardinality(Waiting(v)) - 1
    BY <2>2, <1>4, FS_RemoveElement
  <2> QED BY <2>2, <2>3, <1>4
<1>7. /\ indeg'[v] = indeg[v] - 1 /\ indeg[v] \in Nat \ {0}
      /\ \A w \in Nodes : w # v => indeg'[w] = indeg[w]
      /\ indeg' \in [Nodes -> Nat]
  <2>1. indeg[v] \in Nat \ {0} /\ indeg[v] - 1 \in Nat
    BY <1>3, <1>5, <1>6
  <2> QED BY <2>1, <1>2, <1>3
<1>8. InDegreesCount'
  <2>1. ASSUME NEW w \in Nodes PROVE indeg'[w] = Cardinality(Waiting(w)')
    <3>1. Waiting(w)' = IF w = v THEN Waiting(w) \ {u} ELSE Waiting(w)
      BY RelaxWaiting
    <3>2. CASE w = v
      <4>1. Waiting(w)' = Waiting(v) \ {u}
        BY <3>1, <3>2
      <4>2. indeg'[w] = Cardinality(Waiting(v)) - 1
        BY <3>2, <1>3, <1>5, <1>7
      <4> QED BY <4>1, <4>2, <1>6
    <3>3. CASE w # v
      BY <3>1, <3>3, <1>5, <1>7
    <3> QED BY <3>2, <3>3
  <2> HIDE DEF v
  <2> QED BY <2>1, <1>1 DEF InDegreesCount
<1>9. Emitted' = Emitted
  BY <1>2 DEF Emitted
<1>10. /\ IsInjective(order) /\ IsInjective(ready) /\ Emitted \cap Queued = {}
       /\ \A w \in Nodes : indeg[w] = 0 <=> w \in Emitted \cup Queued
  BY <1>1 DEF QueuedOnce
<1>11. v \notin Emitted /\ v \notin Queued
  BY <1>3, <1>7, <1>10
<1>12. /\ ready' \in Seq(Nodes) /\ IsInjective(ready')
       /\ Queued' = IF indeg[v] = 1 THEN Queued \cup {v} ELSE Queued
  <2>1. CASE indeg[v] = 1
    BY <2>1, <1>2, <1>3, <1>10, <1>11, AppendFacts DEF Queued
  <2>2. CASE indeg[v] # 1
    BY <2>2, <1>2, <1>10 DEF Queued
  <2> QED BY <2>1, <2>2
<1>13. QueuedOnce'
  <2>1. indeg'[v] = 0 <=> indeg[v] = 1
    BY <1>7
  <2>2. \A w \in Nodes : indeg'[w] = 0 <=> w \in Emitted \cup Queued'
    BY <2>1, <1>7, <1>10, <1>11, <1>12
  <2>3. Emitted \cap Queued' = {}
    BY <1>10, <1>11, <1>12
  <2> QED BY <2>2, <2>3, <1>1, <1>2, <1>9, <1>10, <1>12 DEF QueuedOnce
<1>14. TypeOK'
  <2>1. /\ ni \in Nat \ {0} /\ (N # 0 => ni \in Nodes) /\ ni' = ni
        /\ producer \in [Name -> Nodes \cup {0}] /\ adj \in [Nodes -> Seq(Nodes)]
        /\ order \in Seq(Nodes)
    BY DEF TypeOK, Relax
  <2>2. k' \in Nat
    BY <1>2
  <2> QED BY <2>1, <2>2, <1>1, <1>2, <1>7, <1>12 DEF TypeOK
<1>15. Untouched'
  BY <1>1 DEF Untouched
<1>16. LoopInv'
  <2>1. Mapped(N + 1)' /\ Scanned(N + 1)'
    BY <1>1, <1>2 DEF LoopInv, Mapped, Scanned
  <2>2. k' # 0
    BY <1>2
  <2> QED BY <2>1, <2>2, <1>1, <1>2, <1>9 DEF LoopInv
<1>17. PredsFirst' /\ TrapsUnplaced'
  BY <1>1, <1>2, <1>9 DEF PredsFirst, TrapsUnplaced
<1>18. Returning' /\ VerdictExact' /\ LeftoverExact'
  BY <1>1, <1>2 DEF Returning, LeftoverExact, VerdictExact
<1> QED BY <1>8, <1>13, <1>14, <1>15, <1>16, <1>17, <1>18

LEMMA RelaxedInv == IInv /\ Relaxed => IInv'
<1> SUFFICES ASSUME IInv, Relaxed PROVE IInv'
  OBVIOUS
<1> USE DEF IInv
<1>1. /\ graph \in Graph /\ graph' = graph /\ Nodes = 1..N /\ N \in Nat
      /\ Nodes' = Nodes /\ N' = N /\ pc = "relax" /\ pc' = "drain" /\ Draining
  BY GraphFacts DEF TypeOK, Relaxed, Nodes, N, Draining
<1>2. /\ order' = order /\ ready' = ready /\ adj' = adj /\ indeg' = indeg
      /\ producer' = producer /\ status' = "none" /\ status = "none"
      /\ u \in Nodes /\ k \in Nat /\ k > Len(adj[u])
      /\ Emitted' = Emitted /\ Queued' = Queued
  BY <1>1 DEF TypeOK, Relaxed, Returning, Emitted, Queued
<1>3. TypeOK'
  BY <1>1, <1>2 DEF TypeOK, Relaxed
<1>4. \A w \in Nodes : Waiting(w)' = Waiting(w)
  <2>1. \A p, w : ~StillToRelax(p, w)'
    BY <1>1 DEF StillToRelax
  <2>2. DOMAIN adj[u] = 1..Len(adj[u]) /\ Len(adj[u]) \in Nat
    BY <1>1, <1>2, AdjacencyFacts
  <2>3. \A p, w : ~StillToRelax(p, w)
    BY <2>2, <1>2 DEF StillToRelax
  <2> QED BY <2>1, <2>3, <1>1, <1>2 DEF Waiting
<1>5. InDegreesCount'
  BY <1>1, <1>2, <1>4 DEF InDegreesCount
<1>6. QueuedOnce'
  BY <1>1, <1>2 DEF QueuedOnce
<1>7. Untouched'
  BY <1>1 DEF Untouched
<1>8. LoopInv'
  <2>1. Mapped(N + 1)' /\ Scanned(N + 1)'
    BY <1>1, <1>2 DEF LoopInv, Mapped, Scanned
  <2> QED BY <2>1, <1>1 DEF LoopInv
<1>9. PredsFirst' /\ TrapsUnplaced'
  BY <1>1, <1>2 DEF PredsFirst, TrapsUnplaced
<1>10. Returning' /\ VerdictExact' /\ LeftoverExact'
  BY <1>1, <1>2 DEF Returning, LeftoverExact, VerdictExact
<1> QED BY <1>3, <1>5, <1>6, <1>7, <1>8, <1>9, <1>10

(* The queue is empty and the call returns.  A node not emitted waits for  *)
(* a predecessor that is not emitted either, so the nodes left over are a  *)
(* trap; no emitted node is in a trap, so they are the largest one.        *)
LEMMA FinishInv == IInv /\ Finish => IInv'
<1> SUFFICES ASSUME IInv, Finish PROVE IInv'
  OBVIOUS
<1> USE DEF IInv
<1>1. /\ graph \in Graph /\ graph' = graph /\ Nodes = 1..N /\ N \in Nat
      /\ Nodes' = Nodes /\ N' = N /\ pc = "drain" /\ pc' = "done" /\ Draining
      /\ ready = <<>> /\ order' = order /\ status = "none"
      /\ status' = IF Len(order) = N THEN "ok" ELSE "cycle"
      /\ Emitted' = Emitted
  BY GraphFacts DEF TypeOK, Finish, Return, Nodes, N, Draining, Returning, Emitted
<1>2. Len(order) = N <=> Emitted = Nodes
  <2>1. order \in Seq(1..N) /\ IsInjective(order)
    BY <1>1 DEF TypeOK, QueuedOnce
  <2> QED BY <2>1, <1>1, DistinctFill DEF Emitted
<1>3. Emitted \subseteq Nodes /\ order \in Seq(Nodes) /\ IsInjective(order)
  <2>1. order \in Seq(Nodes) /\ IsInjective(order)
    BY <1>1 DEF TypeOK, QueuedOnce
  <2>2. \A i \in DOMAIN order : order[i] \in Nodes
    BY <2>1
  <2> QED BY <2>1, <2>2 DEF Emitted, Range
<1>4. SingleAssignment(graph) /\ AllDefined /\ \A v \in Nodes : ~SelfLoop(graph, v)
  <2>1. Mapped(N + 1) /\ Scanned(N + 1) /\ \A v \in Nodes : v < N + 1
    BY <1>1 DEF LoopInv
  <2> QED BY <2>1 DEF Mapped, Scanned, SingleAssignment, AllDefined, Nodes
<1>5. Trap(graph, Nodes \ Emitted)
  <2> SUFFICES ASSUME NEW v \in Nodes \ Emitted
               PROVE  \E p \in Nodes \ Emitted : Edge(graph, p, v)
    BY DEF Trap
  <2>1. Queued = {}
    BY <1>1 DEF Queued, Range
  <2>2. Cardinality(Waiting(v)) # 0
    BY <2>1, <1>1 DEF QueuedOnce, InDegreesCount
  <2>3. Waiting(v) \subseteq Nodes
    BY <1>1, GraphFacts DEF Waiting
  <2>4. PICK p \in Waiting(v) : TRUE
    BY <2>2, <2>3, <1>1, FiniteNodes
  <2>5. p \in Preds(graph, v) /\ p \notin Emitted
    BY <2>4, <1>1 DEF Waiting, StillToRelax
  <2> QED BY <2>5 DEF Preds, Nodes
<1>6. \A S \in SUBSET Nodes : Trap(graph, S) => S \subseteq Nodes \ Emitted
  BY DEF TrapsUnplaced
<1>7. ASSUME Len(order) = N PROVE VerdictExact' /\ LeftoverExact'
  <2>1. Emitted = Nodes /\ status' = "ok"
    BY <1>1, <1>2, <1>7
  <2>2. ~HasCycle(graph)
    BY <2>1, <1>6 DEF HasCycle, Nodes
  <2>3. DOMAIN order = 1..N /\ \A v \in Nodes : \E i \in DOMAIN order : order[i] = v
    BY <2>1, <1>3, <1>7 DEF Emitted, Range
  <2>4. ASSUME NEW i \in DOMAIN order, NEW j \in DOMAIN order, Edge(graph, order[i], order[j])
        PROVE  i < j
    <3>1. order[i] \in Preds(graph, order[j])
      BY <2>4, <1>3 DEF Preds, Nodes
    <3>2. PICK m \in 1..(j - 1) : order[m] = order[i]
      BY <3>1 DEF PredsFirst
    <3>3. i \in 1..N /\ j \in 1..N /\ m \in DOMAIN order /\ m < j
      BY <2>3, <3>2, <1>1
    <3> QED BY <3>2, <3>3, <1>3 DEF IsInjective
  <2>5. IsTopoOrder(graph, order)
    BY <2>3, <2>4, <1>1 DEF IsTopoOrder, Nodes
  <2> QED BY <2>1, <2>2, <2>5, <1>1, <1>4 DEF VerdictExact, LeftoverExact, AllDefined
<1>8. ASSUME Len(order) # N PROVE VerdictExact' /\ LeftoverExact'
  <2>1. Nodes \ Emitted # {} /\ status' = "cycle"
    BY <1>1, <1>2, <1>3, <1>8
  <2>2. HasCycle(graph)
    BY <2>1, <1>5 DEF HasCycle, Nodes
  <2>3. Nodes \ Emitted = UNION {S \in SUBSET Nodes : Trap(graph, S)}
    BY <1>5, <1>6
  <2>4. LeftoverExact'
    BY <2>3, <1>1 DEF LeftoverExact
  <2> QED BY <2>1, <2>2, <2>4, <1>1, <1>4 DEF VerdictExact, AllDefined
<1>9. TypeOK'
  <2>1. /\ ni' = ni /\ producer' = producer /\ adj' = adj /\ indeg' = indeg
        /\ ready' = ready /\ u' = u /\ k' = k
    BY DEF Finish
  <2> QED BY <2>1, <1>1 DEF TypeOK, Verdicts
<1>10. Untouched' /\ LoopInv' /\ InDegreesCount' /\ QueuedOnce' /\ Returning'
  BY <1>1 DEF Untouched, LoopInv, InDegreesCount, QueuedOnce, Draining, Returning
<1>11. PredsFirst' /\ TrapsUnplaced'
  BY <1>1 DEF PredsFirst, TrapsUnplaced
<1> QED BY <1>7, <1>8, <1>9, <1>10, <1>11

-----------------------------------------------------------------------------
(* The invariant is inductive.                                             *)

LEMMA StutterInv == IInv /\ UNCHANGED vars => IInv'
<1> SUFFICES ASSUME IInv, UNCHANGED vars PROVE IInv'
  OBVIOUS
<1> USE DEF IInv
<1>1. /\ graph' = graph /\ pc' = pc /\ ni' = ni /\ producer' = producer /\ adj' = adj
      /\ indeg' = indeg /\ ready' = ready /\ order' = order /\ u' = u /\ k' = k
      /\ status' = status /\ Nodes' = Nodes /\ N' = N /\ Emitted' = Emitted
      /\ Queued' = Queued
  BY DEF vars, Nodes, N, Emitted, Queued
<1>2. TypeOK'
  BY <1>1 DEF TypeOK
<1>3. Untouched' /\ Returning'
  BY <1>1 DEF Untouched, Returning
<1>4. LoopInv'
  BY <1>1 DEF LoopInv, Mapped, Scanned, Counted, Seeded
<1>5. InDegreesCount'
  <2>1. \A w : Waiting(w)' = Waiting(w)
    BY <1>1 DEF Waiting, StillToRelax
  <2> QED BY <2>1, <1>1 DEF InDegreesCount, Draining
<1>6. QueuedOnce'
  BY <1>1 DEF QueuedOnce, Draining
<1>7. PredsFirst' /\ TrapsUnplaced' /\ VerdictExact' /\ LeftoverExact'
  BY <1>1 DEF PredsFirst, TrapsUnplaced, VerdictExact, LeftoverExact, AllDefined
<1> QED BY <1>2, <1>3, <1>4, <1>5, <1>6, <1>7

LEMMA NextInv == IInv /\ [Next]_vars => IInv'
<1> SUFFICES ASSUME IInv, [Next]_vars PROVE IInv'
  OBVIOUS
<1>1. CASE EnterEmpty
  BY <1>1, EnterEmptyInv
<1>2. CASE Enter
  BY <1>2, EnterInv
<1>3. CASE MapClash
  BY <1>3, MapClashInv
<1>4. CASE MapNode
  BY <1>4, MapNodeInv
<1>5. CASE ScanReject
  BY <1>5, ScanRejectInv
<1>6. CASE ScanNode
  BY <1>6, ScanNodeInv
<1>7. CASE SeedReady
  BY <1>7, SeedReadyInv
<1>8. CASE Pop
  BY <1>8, PopInv
<1>9. CASE Relax
  BY <1>9, RelaxInv
<1>10. CASE Relaxed
  BY <1>10, RelaxedInv
<1>11. CASE Finish
  BY <1>11, FinishInv
<1>12. CASE Returned \/ UNCHANGED vars
  BY <1>12, StutterInv DEF Returned
<1> QED BY <1>1, <1>2, <1>3, <1>4, <1>5, <1>6, <1>7, <1>8, <1>9, <1>10, <1>11, <1>12 DEF Next

LEMMA Inductive == Spec => []IInv
<1>1. Init => IInv
  BY InitInv
<1>2. IInv /\ [Next]_vars => IInv'
  BY NextInv
<1> QED BY <1>1, <1>2, PTL DEF Spec

(* For a caller: on a well-formed graph there is no error but for a cycle. *)
LEMMA ErrorsAreDefects ==
  ASSUME IInv
  PROVE  /\ status \in {"multiple", "undefined"} => ~WellFormed(graph)
         /\ status \in {"self_loop", "cycle"} => HasCycle(graph)
<1>1. ASSUME NEW v \in Nodes, SelfLoop(graph, v) PROVE HasCycle(graph)
  <2>1. {v} \in SUBSET NodeIds(graph) /\ {v} # {} /\ Trap(graph, {v})
    BY <1>1 DEF SelfLoop, Trap, Nodes
  <2> QED BY <2>1 DEF HasCycle
<1>2. status \in {"multiple", "undefined"} => ~WellFormed(graph)
  BY DEF IInv, VerdictExact, AllDefined, Nodes, WellFormed
<1> QED BY <1>1, <1>2 DEF IInv, VerdictExact

-----------------------------------------------------------------------------
(* The order of the queue.  The nodes emitted and the nodes queued behind  *)
(* them form one line, which a pop leaves alone and a relaxation can only  *)
(* lengthen at its end.                                                    *)

Line == order \o ready

(* The last predecessor of v stands at position n of the order; 0 if v has *)
(* none.  All predecessors have been emitted.                              *)
LastAt(v, n) ==
  /\ n \in 0..Len(order)
  /\ \A p \in Preds(graph, v) : \E i \in 1..n : order[i] = p
  /\ n # 0 => order[n] \in Preds(graph, v)

Sooner(v, w) ==
  \E m, n \in 0..Len(order) :
    /\ LastAt(v, m) /\ LastAt(w, n)
    /\ m < n \/ (m = n /\ v < w)

(* While u is relaxed, it is the node emitted last, and only its consumers *)
(* below position k have it as their last predecessor.                     *)
BehindU ==
  pc = "relax" =>
    /\ Len(order) # 0 /\ order[Len(order)] = u
    /\ \A i \in DOMAIN Line : LastAt(Line[i], Len(order)) =>
         \E j \in DOMAIN adj[u] : j < k /\ adj[u][j] = Line[i]

FifoInv ==
  /\ IsInjective(order)
  /\ \A p \in Nodes : \A i, j \in DOMAIN adj[p] : i < j => adj[p][i] < adj[p][j]
  /\ \A i \in DOMAIN Line : \E n \in 0..Len(order) : LastAt(Line[i], n)
  /\ \A i, j \in DOMAIN Line : i < j => Sooner(Line[i], Line[j])
  /\ BehindU

(* The elements of the line.                                               *)
LEMMA LineFacts ==
  ASSUME IInv
  PROVE  /\ order \in Seq(Nodes) /\ ready \in Seq(Nodes) /\ Line \in Seq(Nodes)
         /\ Len(order) \in Nat /\ DOMAIN order = 1..Len(order)
         /\ Len(Line) = Len(order) + Len(ready) /\ Len(Line) \in Nat
         /\ DOMAIN Line = 1..Len(Line)
         /\ \A i \in DOMAIN Line : Line[i] \in Nodes
         /\ \A i \in DOMAIN order : i \in DOMAIN Line /\ Line[i] = order[i]
         /\ order = <<>> => Line = ready
         /\ Nodes = 1..N /\ N \in Nat
<1>1. order \in Seq(Nodes) /\ ready \in Seq(Nodes) /\ graph \in Graph
  BY DEF IInv, TypeOK
<1>2. Line \in Seq(Nodes) /\ Len(Line) = Len(order) + Len(ready)
      /\ Len(order) \in Nat /\ Len(ready) \in Nat
  BY <1>1 DEF Line
<1>3. \A i \in 1..Len(order) : Line[i] = order[i]
  BY <1>1 DEF Line
<1>4. order = <<>> => Line = ready
  BY <1>1 DEF Line
<1>5. \A i \in DOMAIN Line : Line[i] \in Nodes
  BY <1>2
<1>6. DOMAIN Line = 1..Len(Line) /\ DOMAIN order = 1..Len(order)
  BY <1>1, <1>2
<1>7. \A i \in DOMAIN order : i \in DOMAIN Line
  BY <1>2, <1>6
<1>8. Nodes = 1..N /\ N \in Nat
  BY <1>1, GraphFacts
<1> QED BY <1>1, <1>2, <1>3, <1>4, <1>5, <1>6, <1>7, <1>8

(* Popping moves the boundary between the two parts of the line.           *)
LEMMA PopLine ==
  ASSUME NEW S, NEW s \in Seq(S), NEW t \in Seq(S), t # <<>>
  PROVE  Append(s, Head(t)) \o Tail(t) = s \o t
<1> DEFINE a == Append(s, Head(t)) \o Tail(t)
<1>1. /\ Len(s) \in Nat /\ Len(t) \in Nat \ {0} /\ Head(t) = t[1] /\ Head(t) \in S
      /\ Tail(t) \in Seq(S) /\ Len(Tail(t)) = Len(t) - 1
      /\ Append(s, Head(t)) \in Seq(S) /\ Len(Append(s, Head(t))) = Len(s) + 1
  OBVIOUS
<1> DEFINE b == s \o t
<1>2. a \in Seq(S) /\ b \in Seq(S) /\ Len(a) = Len(s) + Len(t) /\ Len(b) = Len(s) + Len(t)
  BY <1>1
<1>3. ASSUME NEW i \in 1..(Len(s) + Len(t)) PROVE a[i] = (s \o t)[i]
  <2>1. CASE i <= Len(s)
    <3>1. a[i] = Append(s, Head(t))[i] /\ (s \o t)[i] = s[i]
      BY <2>1, <1>1
    <3>2. Append(s, Head(t))[i] = s[i]
      BY <2>1, <1>1
    <3> QED BY <3>1, <3>2
  <2>2. CASE i = Len(s) + 1
    <3>1. a[i] = Append(s, Head(t))[i] /\ (s \o t)[i] = t[i - Len(s)]
      BY <2>2, <1>1
    <3>2. Append(s, Head(t))[i] = t[1] /\ i - Len(s) = 1
      BY <2>2, <1>1
    <3> QED BY <3>1, <3>2
  <2>3. CASE i > Len(s) + 1
    <3>1. a[i] = Tail(t)[i - (Len(s) + 1)] /\ (s \o t)[i] = t[i - Len(s)]
      BY <2>3, <1>1
    <3>2. i - (Len(s) + 1) \in 1..(Len(t) - 1) /\ (i - (Len(s) + 1)) + 1 = i - Len(s)
      BY <2>3, <1>1
    <3>3. Tail(t)[i - (Len(s) + 1)] = t[(i - (Len(s) + 1)) + 1]
      BY <3>2, <1>1
    <3> QED BY <3>1, <3>2, <3>3
  <2> QED BY <2>1, <2>2, <2>3, <1>1
<1>4. \A i \in 1..(Len(s) + Len(t)) : a[i] = b[i]
  BY <1>3
<1> HIDE DEF a, b
<1>5. DOMAIN a = 1..(Len(s) + Len(t)) /\ DOMAIN b = 1..(Len(s) + Len(t))
      /\ a = [i \in DOMAIN a |-> a[i]] /\ b = [i \in DOMAIN b |-> b[i]]
  BY <1>2
<1>6. a = b
  BY <1>4, <1>5
<1> QED BY <1>6 DEF a, b

(* As long as the order only grows, what is known of the line stays known. *)
LEMMA SoonerStays ==
  ASSUME IInv, IInv', graph' = graph,
         order' = order \/ \E e \in Nodes : order' = Append(order, e)
  PROVE  /\ Len(order) <= Len(order)' /\ Len(order)' \in Nat
         /\ \A v, n : LastAt(v, n) => LastAt(v, n)'
         /\ \A v, w : Sooner(v, w) => Sooner(v, w)'
<1>1. /\ order \in Seq(Nodes) /\ Len(order) \in Nat
      /\ Len(order') \in Nat /\ Len(order) <= Len(order')
      /\ \A i \in 1..Len(order) : order'[i] = order[i]
  <2>1. order \in Seq(Nodes) /\ Len(order) \in Nat
    BY LineFacts
  <2>2. CASE order' = order
    BY <2>1, <2>2
  <2>3. CASE \E e \in Nodes : order' = Append(order, e)
    BY <2>1, <2>3
  <2> QED BY <2>1, <2>2, <2>3
<1>2. ASSUME NEW v, NEW n, LastAt(v, n) PROVE LastAt(v, n)'
  <2>1. n \in 0..Len(order') /\ n \in Nat /\ n <= Len(order)
    BY <1>1, <1>2 DEF LastAt
  <2>2. \A i \in 1..n : order'[i] = order[i]
    BY <2>1, <1>1
  <2>3. n # 0 => n \in 1..n
    BY <2>1
  <2> QED BY <2>1, <2>2, <2>3, <1>2 DEF LastAt
<1>3. ASSUME NEW v, NEW w, Sooner(v, w) PROVE Sooner(v, w)'
  <2>1. PICK m, n \in 0..Len(order) :
          LastAt(v, m) /\ LastAt(w, n) /\ (m < n \/ (m = n /\ v < w))
    BY <1>3 DEF Sooner
  <2>2. m \in 0..Len(order') /\ n \in 0..Len(order')
    BY <1>1
  <2>3. LastAt(v, m)' /\ LastAt(w, n)'
    BY <2>1, <1>2
  <2> QED BY <2>1, <2>2, <2>3 DEF Sooner
<1> QED BY <1>1, <1>2, <1>3

(* A node that joins the end of the line, behind everybody in it.          *)
LEMMA Joins ==
  ASSUME IInv, IInv', FifoInv, graph' = graph, order' = order,
         NEW w \in Nodes, ready' = Append(ready, w),
         \E n \in 0..Len(order) : LastAt(w, n),
         \A i \in DOMAIN Line : Sooner(Line[i], w)
  PROVE  /\ Line' = Append(Line, w)
         /\ (\A i \in DOMAIN Line : \E n \in 0..Len(order) : LastAt(Line[i], n))'
         /\ (\A i, j \in DOMAIN Line : i < j => Sooner(Line[i], Line[j]))'
<1>1. /\ Line \in Seq(Nodes) /\ Len(Line) \in Nat /\ DOMAIN Line = 1..Len(Line)
      /\ order \in Seq(Nodes) /\ ready \in Seq(Nodes)
  BY LineFacts
<1>2. Line' = Append(Line, w)
  BY <1>1 DEF Line
<1>3. /\ DOMAIN Line' = 1..(Len(Line) + 1) /\ Line'[Len(Line) + 1] = w
      /\ \A i \in 1..Len(Line) : Line'[i] = Line[i]
  BY <1>1, <1>2
<1>4. /\ \A v, n : LastAt(v, n) => LastAt(v, n)'
      /\ \A v, x : Sooner(v, x) => Sooner(v, x)'
  BY SoonerStays
<1>5. \A i \in DOMAIN Line' : \E n \in 0..Len(order') : LastAt(Line[i], n)'
  <2> TAKE i \in DOMAIN Line'
  <2>1. CASE i \in 1..Len(Line)
    <3>1. PICK n \in 0..Len(order) : LastAt(Line[i], n)
      BY <2>1, <1>1 DEF FifoInv
    <3> QED BY <3>1, <2>1, <1>3, <1>4
  <2>2. CASE i = Len(Line) + 1
    <3>1. PICK n \in 0..Len(order) : LastAt(w, n)
      OBVIOUS
    <3> QED BY <3>1, <2>2, <1>3, <1>4
  <2> QED BY <2>1, <2>2, <1>1, <1>3
<1>6. \A i, j \in DOMAIN Line' : i < j => Sooner(Line[i], Line[j])'
  <2> SUFFICES ASSUME NEW i \in DOMAIN Line', NEW j \in DOMAIN Line', i < j
               PROVE  Sooner(Line[i], Line[j])'
    OBVIOUS
  <2>1. i \in 1..Len(Line) /\ Line'[i] = Line[i]
    BY <1>1, <1>3
  <2>2. CASE j \in 1..Len(Line)
    <3>1. Sooner(Line[i], Line[j]) /\ Line'[j] = Line[j]
      BY <2>1, <2>2, <1>1, <1>3 DEF FifoInv
    <3> QED BY <3>1, <2>1, <1>4
  <2>3. CASE j = Len(Line) + 1
    <3>1. Sooner(Line[i], w) /\ Line'[j] = w
      BY <2>1, <2>3, <1>1, <1>3
    <3> QED BY <3>1, <2>1, <1>4
  <2> QED BY <2>2, <2>3, <1>1, <1>3
<1> QED BY <1>2, <1>5, <1>6

(* Every step but those that queue, emit or connect leaves the line alone. *)
LEMMA FifoKept ==
  ASSUME IInv, IInv', FifoInv, graph' = graph, order' = order, ready' = ready, adj' = adj,
         pc' = "relax" => pc = "relax" /\ u' = u /\ k' = k
  PROVE  FifoInv'
<1>1. Line' = Line /\ Nodes' = Nodes
  BY DEF Line, Nodes
<1>2. /\ \A v, n : LastAt(v, n)' <=> LastAt(v, n)
      /\ \A v, w : Sooner(v, w)' <=> Sooner(v, w)
  BY DEF LastAt, Sooner
<1>3. BehindU'
  BY <1>1, <1>2 DEF FifoInv, BehindU
<1> QED BY <1>1, <1>2, <1>3 DEF FifoInv

LEMMA FifoInit == Init => FifoInv
<1> SUFFICES ASSUME Init PROVE FifoInv
  OBVIOUS
<1>1. /\ order = <<>> /\ ready = <<>> /\ pc = "entry" /\ \A p \in Nodes : adj[p] = <<>>
  BY DEF Init
<1>2. Line = <<>>
  BY <1>1 DEF Line
<1> QED BY <1>1, <1>2 DEF FifoInv, BehindU, IsInjective

(* A scanned node is appended behind consumers of a smaller index.         *)
LEMMA FifoScan == IInv /\ IInv' /\ FifoInv /\ ScanNode => FifoInv'
<1> SUFFICES ASSUME IInv, IInv', FifoInv, ScanNode PROVE FifoInv'
  OBVIOUS
<1>1. /\ graph' = graph /\ Nodes' = Nodes /\ pc = "edges" /\ pc' # "relax" /\ ni \in Nodes
      /\ order' = <<>> /\ order = <<>> /\ ready' = <<>> /\ ready = <<>>
      /\ adj' = [p \in Nodes |-> IF p \in SeenPreds THEN Append(adj[p], ni) ELSE adj[p]]
      /\ adj \in [Nodes -> Seq(Nodes)] /\ Scanned(ni) /\ Nodes = 1..N /\ N \in Nat
  BY GraphFacts DEF IInv, TypeOK, ScanNode, Advance, Nodes, Untouched, LoopInv
<1>2. Line' = <<>>
  BY <1>1 DEF Line
<1>3. ASSUME NEW p \in Nodes, NEW i \in DOMAIN adj'[p], NEW j \in DOMAIN adj'[p], i < j
      PROVE  adj'[p][i] < adj'[p][j]
  <2>1. /\ adj[p] \in Seq(Nodes) /\ Len(adj[p]) \in Nat /\ DOMAIN adj[p] = 1..Len(adj[p])
        /\ \A m \in DOMAIN adj[p] : adj[p][m] < ni
    <3>1. adj[p] \in Seq(Nodes)
      BY <1>1
    <3>2. Range(adj[p]) = {v \in Nodes : v < ni /\ Edge(graph, p, v)}
      BY <1>1 DEF Scanned
    <3>3. \A m \in DOMAIN adj[p] : adj[p][m] \in Range(adj[p])
      BY DEF Range
    <3>4. \A m \in DOMAIN adj[p] : adj[p][m] < ni
      BY <3>2, <3>3
    <3> QED BY <3>1, <3>4
  <2>2. \A a, b \in DOMAIN adj[p] : a < b => adj[p][a] < adj[p][b]
    BY DEF FifoInv
  <2>3. CASE p \notin SeenPreds
    <3>1. adj'[p] = adj[p]
      BY <2>3, <1>1
    <3> QED BY <3>1, <2>2, <1>3
  <2>4. CASE p \in SeenPreds
    <3>1. adj'[p] = Append(adj[p], ni)
      BY <2>4, <1>1
    <3>2. /\ DOMAIN adj'[p] = 1..(Len(adj[p]) + 1) /\ adj'[p][Len(adj[p]) + 1] = ni
          /\ \A m \in 1..Len(adj[p]) : adj'[p][m] = adj[p][m]
      BY <3>1, <2>1, <1>1
    <3>3. i \in 1..Len(adj[p]) /\ adj'[p][i] = adj[p][i]
      BY <3>2, <2>1, <1>3
    <3>4. CASE j \in 1..Len(adj[p])
      <4>1. adj'[p][j] = adj[p][j] /\ adj[p][i] < adj[p][j]
        BY <3>2, <3>3, <3>4, <2>1, <2>2, <1>3
      <4> QED BY <4>1, <3>3
    <3>5. CASE j = Len(adj[p]) + 1
      BY <3>2, <3>3, <3>5, <2>1
    <3> QED BY <3>2, <3>4, <3>5, <2>1
  <2> QED BY <2>3, <2>4
<1>4. BehindU' /\ IsInjective(order')
  BY <1>1 DEF BehindU, IsInjective
<1> QED BY <1>1, <1>2, <1>3, <1>4 DEF FifoInv

(* A seeded node has no predecessor and a larger index than those queued.  *)
LEMMA FifoSeed == IInv /\ IInv' /\ FifoInv /\ SeedReady => FifoInv'
<1> SUFFICES ASSUME IInv, IInv', FifoInv, SeedReady PROVE FifoInv'
  OBVIOUS
<1>1. /\ graph \in Graph /\ graph' = graph /\ Nodes' = Nodes /\ pc = "seed" /\ pc' # "relax"
      /\ ni \in Nodes /\ order' = order /\ order = <<>> /\ adj' = adj
      /\ ready' = IF indeg[ni] = 0 THEN Append(ready, ni) ELSE ready
      /\ Counted(N + 1) /\ Seeded(ni) /\ Nodes = 1..N /\ N \in Nat
  BY GraphFacts DEF IInv, TypeOK, SeedReady, Advance, Nodes, Untouched, LoopInv
<1>2. CASE indeg[ni] # 0
  BY <1>1, <1>2, FifoKept
<1>3. CASE indeg[ni] = 0
  <2>1. \A v \in Nodes : indeg[v] = 0 => LastAt(v, 0)
    <3> SUFFICES ASSUME NEW v \in Nodes, indeg[v] = 0 PROVE LastAt(v, 0)
      OBVIOUS
    <3>1. Cardinality(Preds(graph, v)) = 0
      BY <1>1 DEF Counted
    <3>2. Preds(graph, v) = {}
      BY <3>1, <1>1, GraphFacts, FiniteNodes
    <3> QED BY <3>2, <1>1 DEF LastAt
  <2>2. Line = ready
    BY <1>1, LineFacts
  <2>3. \A i \in DOMAIN Line : Line[i] \in Nodes /\ Line[i] < ni /\ indeg[Line[i]] = 0
    BY <2>2, <1>1 DEF Seeded, Range
  <2>4. LastAt(ni, 0) /\ 0 \in 0..Len(order)
    BY <2>1, <1>1, <1>3
  <2>5. \A i \in DOMAIN Line : Sooner(Line[i], ni)
    BY <2>1, <2>3, <2>4 DEF Sooner
  <2>6. /\ (\A i \in DOMAIN Line : \E n \in 0..Len(order) : LastAt(Line[i], n))'
        /\ (\A i, j \in DOMAIN Line : i < j => Sooner(Line[i], Line[j]))'
    BY <2>4, <2>5, <1>1, <1>3, Joins
  <2>7. BehindU'
    BY <1>1 DEF BehindU
  <2> QED BY <2>6, <2>7, <1>1 DEF FifoInv
<1> QED BY <1>2, <1>3

(* A popped node was not emitted before, so nobody in the line has it as a *)
(* predecessor.                                                            *)
LEMMA FifoPop == IInv /\ IInv' /\ FifoInv /\ Pop => FifoInv'
<1> SUFFICES ASSUME IInv, IInv', FifoInv, Pop PROVE FifoInv'
  OBVIOUS
<1> DEFINE v == Head(ready)
<1>1. /\ graph' = graph /\ Nodes' = Nodes /\ adj' = adj /\ pc = "drain" /\ pc' = "relax"
      /\ ready # <<>> /\ order' = Append(order, v) /\ ready' = Tail(ready) /\ u' = v
      /\ order \in Seq(Nodes) /\ ready \in Seq(Nodes) /\ v \in Nodes /\ Len(order) \in Nat
  BY LineFacts DEF Pop, Nodes
<1>2. Line' = Line
  BY <1>1, PopLine DEF Line
<1>3. IsInjective(order') /\ v \notin Emitted
  <2>1. Draining' /\ v \in Queued
    BY <1>1, TailFacts DEF Draining, Queued, IInv, QueuedOnce
  <2> QED BY <2>1, <1>1, QueuedIsReady DEF IInv, QueuedOnce
<1>4. /\ \A x, n : LastAt(x, n) => LastAt(x, n)'
      /\ \A x, y : Sooner(x, y) => Sooner(x, y)'
      /\ \A n \in 0..Len(order) : n \in 0..Len(order')
  <2>1. Len(order') = Len(order) + 1
    BY <1>1
  <2> QED BY <2>1, <1>1, SoonerStays
<1>5. \A i \in DOMAIN Line' : \E n \in 0..Len(order') : LastAt(Line[i], n)'
  <2> TAKE i \in DOMAIN Line'
  <2>1. PICK n \in 0..Len(order) : LastAt(Line[i], n)
    BY <1>2 DEF FifoInv
  <2> QED BY <2>1, <1>2, <1>4
<1>6. \A i, j \in DOMAIN Line' : i < j => Sooner(Line[i], Line[j])'
  BY <1>2, <1>4 DEF FifoInv
<1>7. Len(order') = Len(order) + 1 /\ order'[Len(order')] = v
  BY <1>1
<1>8. ASSUME NEW i \in DOMAIN Line', LastAt(Line[i], Len(order))' PROVE FALSE
  <2>1. v \in Preds(graph, Line[i])
    BY <1>1, <1>2, <1>7, <1>8 DEF LastAt
  <2>2. PICK n \in 0..Len(order) : LastAt(Line[i], n)
    BY <1>2, <1>8 DEF FifoInv
  <2>3. PICK m \in 1..n : order[m] = v
    BY <2>1, <2>2 DEF LastAt
  <2>4. m \in DOMAIN order
    BY <2>2, <2>3, LineFacts
  <2> QED BY <2>3, <2>4, <1>3 DEF Emitted, Range
<1>9. BehindU'
  BY <1>1, <1>7, <1>8 DEF BehindU
<1> QED BY <1>1, <1>3, <1>5, <1>6, <1>9 DEF FifoInv

(* The node that relaxing u queues has u, the node emitted last, as its    *)
(* last predecessor; others in the line that do are earlier in adj[u].     *)
LEMMA FifoRelax == IInv /\ IInv' /\ FifoInv /\ Relax => FifoInv'
<1> SUFFICES ASSUME IInv, IInv', FifoInv, Relax, NEW w, w = adj[u][k] PROVE FifoInv'
  OBVIOUS
<1> DEFINE last == Len(order)
<1>1. /\ graph \in Graph /\ graph' = graph /\ Nodes' = Nodes /\ adj' = adj /\ order' = order
      /\ u' = u /\ k' = k + 1 /\ k \in Nat /\ k # 0 /\ k <= Len(adj[u]) /\ pc = "relax" /\ pc' = "relax"
      /\ indeg' = [indeg EXCEPT ![w] = @ - 1] /\ indeg \in [Nodes -> Nat]
      /\ ready' = IF indeg[w] = 1 THEN Append(ready, w) ELSE ready
      /\ last \in Nat /\ order \in Seq(Nodes) /\ u \in Nodes
  BY LineFacts DEF Relax, Nodes, IInv, TypeOK, LoopInv
<1>2. k \in DOMAIN adj[u] /\ w \in Nodes /\ Edge(graph, u, w) /\ DOMAIN adj[u] \subseteq Nat
      /\ adj[u] \in Seq(Nodes)
  <2>1. k \in DOMAIN adj[u] /\ adj[u] \in Seq(Nodes) /\ DOMAIN adj[u] \subseteq Nat
    BY <1>1, AdjacencyFacts
  <2>2. w \in Nodes
    BY <2>1
  <2> QED BY <2>1, <2>2, <1>1, AdjacencyFacts
<1>3. /\ \A x, n : LastAt(x, n)' <=> LastAt(x, n)
      /\ \A x, y : Sooner(x, y)' <=> Sooner(x, y)
  BY <1>1 DEF LastAt, Sooner
<1>4. /\ last # 0 /\ order[last] = u
      /\ \A i \in DOMAIN Line : LastAt(Line[i], last) => \E j \in DOMAIN adj[u] : j < k /\ adj[u][j] = Line[i]
  BY <1>1 DEF FifoInv, BehindU
<1>5. CASE indeg[w] # 1
  <2>1. Line' = Line
    BY <1>1, <1>5 DEF Line
  <2>2. \A j \in DOMAIN adj[u] : j < k => j < k'
    BY <1>1, <1>2
  <2>3. BehindU'
    BY <2>1, <2>2, <1>1, <1>3, <1>4 DEF BehindU
  <2> QED BY <2>1, <2>3, <1>1, <1>3 DEF FifoInv
<1>6. CASE indeg[w] = 1
  <2>1. LastAt(w, last) /\ last \in 0..last
    <3>1. indeg'[w] = 0
      BY <1>1, <1>2, <1>6
    <3>2. Waiting(w)' = {}
      <4>1. Cardinality(Waiting(w)') = 0
        <5>1. Draining' /\ InDegreesCount' /\ w \in Nodes'
          BY <1>1, <1>2 DEF Draining, IInv
        <5>2. (Draining => \A x \in Nodes : indeg[x] = Cardinality(Waiting(x)))'
          BY <5>1 DEF InDegreesCount
        <5>3. \A x \in Nodes' : indeg'[x] = Cardinality(Waiting(x)')
          BY <5>1, <5>2
        <5> QED BY <5>1, <5>3, <3>1
      <4>2. Waiting(w)' \subseteq Nodes
        <5>1. Waiting(w)' \subseteq Preds(graph, w)
          BY <1>1 DEF Waiting
        <5> QED BY <5>1, <1>1, GraphFacts
      <4> QED BY <4>1, <4>2, <1>1, FiniteNodes
    <3>3. Preds(graph, w) \subseteq Emitted'
      BY <3>2, <1>1 DEF Waiting
    <3>4. \A p \in Preds(graph, w) : \E i \in 1..last : order[i] = p
      BY <3>3, <1>1, LineFacts DEF Emitted, Range
    <3>5. u \in Preds(graph, w)
      BY <1>1, <1>2 DEF Preds, Nodes
    <3>6. last \in 0..last
      BY <1>1
    <3> QED BY <3>4, <3>5, <3>6, <1>4 DEF LastAt
  <2>2. ASSUME NEW i \in DOMAIN Line PROVE Sooner(Line[i], w)
    <3>1. PICK n \in 0..last : LastAt(Line[i], n)
      BY DEF FifoInv
    <3>2. CASE n < last
      BY <3>1, <3>2, <2>1 DEF Sooner
    <3>3. CASE n = last
      <4>1. PICK j \in DOMAIN adj[u] : j < k /\ adj[u][j] = Line[i]
        BY <3>1, <3>3, <1>4
      <4>2. Line[i] < w
        BY <4>1, <1>1, <1>2 DEF FifoInv
      <4> QED BY <4>2, <3>1, <3>3, <2>1 DEF Sooner
    <3> QED BY <3>2, <3>3, <1>1
  <2>3. /\ Line' = Append(Line, w)
        /\ (\A i \in DOMAIN Line : \E n \in 0..Len(order) : LastAt(Line[i], n))'
        /\ (\A i, j \in DOMAIN Line : i < j => Sooner(Line[i], Line[j]))'
    BY <2>1, <2>2, <1>1, <1>2, <1>6, Joins
  <2>4. BehindU'
    <3> SUFFICES ASSUME NEW i \in DOMAIN Line', LastAt(Line[i], last)'
                 PROVE  \E j \in DOMAIN adj[u] : j < k + 1 /\ adj[u][j] = Line'[i]
      BY <1>1, <1>4 DEF BehindU
    <3>1. /\ Len(Line) \in Nat /\ DOMAIN Line = 1..Len(Line) /\ Line \in Seq(Nodes)
          /\ DOMAIN Line' = 1..(Len(Line) + 1)
      BY <2>3, LineFacts
    <3>2. CASE i \in DOMAIN Line
      <4>1. Line'[i] = Line[i]
        BY <3>1, <3>2, <2>3
      <4>2. LastAt(Line[i], last)
        BY <4>1, <1>1, <1>3
      <4>3. PICK j \in DOMAIN adj[u] : j < k /\ adj[u][j] = Line[i]
        BY <4>2, <3>2, <1>4
      <4>4. j < k + 1
        BY <4>3, <1>1, <1>2
      <4> QED BY <4>1, <4>3, <4>4
    <3>3. CASE i = Len(Line) + 1
      <4>1. Line'[i] = w
        BY <3>1, <3>3, <2>3
      <4>2. k < k + 1
        BY <1>1
      <4> QED BY <4>1, <4>2, <1>2
    <3> QED BY <3>1, <3>2, <3>3
  <2> QED BY <2>3, <2>4, <1>1 DEF FifoInv
<1> QED BY <1>5, <1>6

LEMMA FifoNext == IInv /\ IInv' /\ FifoInv /\ [Next]_vars => FifoInv'
<1> SUFFICES ASSUME IInv, IInv', FifoInv, [Next]_vars PROVE FifoInv'
  OBVIOUS
<1>1. CASE ScanNode
  BY <1>1, FifoScan
<1>2. CASE SeedReady
  BY <1>2, FifoSeed
<1>3. CASE Pop
  BY <1>3, FifoPop
<1>4. CASE Relax
  BY <1>4, FifoRelax
<1>5. CASE EnterEmpty \/ MapClash \/ ScanReject \/ Finish
  <2>1. pc' # "relax"
    BY <1>5 DEF EnterEmpty, MapClash, ScanReject, Finish, Return
  <2>2. graph' = graph /\ order' = order /\ ready' = ready /\ adj' = adj
    BY <1>5 DEF EnterEmpty, MapClash, ScanReject, Finish
  <2> QED BY <2>1, <2>2, FifoKept
<1>6. CASE Enter \/ MapNode \/ Relaxed
  <2>1. pc' # "relax"
    BY <1>6 DEF Enter, MapNode, Relaxed, Advance
  <2>2. graph' = graph /\ order' = order /\ ready' = ready /\ adj' = adj
    BY <1>6 DEF Enter, MapNode, Relaxed
  <2> QED BY <2>1, <2>2, FifoKept
<1>7. CASE Returned \/ UNCHANGED vars
  BY <1>7, FifoKept DEF Returned, vars
<1> QED BY <1>1, <1>2, <1>3, <1>4, <1>5, <1>6, <1>7 DEF Next

(* In an order without repetitions LastPred is the n of LastAt.            *)
LEMMA LastPredIs ==
  ASSUME IInv, IsInjective(order), NEW v, NEW n, LastAt(v, n)
  PROVE  LastPred(v) = n
<1> DEFINE at == {0} \cup {PositionOf(p) : p \in Preds(graph, v)}
<1>1. DOMAIN order = 1..Len(order) /\ Len(order) \in Nat /\ n \in 0..Len(order)
  BY LineFacts DEF LastAt
<1>2. \A i \in DOMAIN order : PositionOf(order[i]) = i
  BY DEF PositionOf, IsInjective
<1>3. \A p \in Preds(graph, v) : PositionOf(p) \in 1..n
  <2> TAKE p \in Preds(graph, v)
  <2>1. PICK i \in 1..n : order[i] = p
    BY DEF LastAt
  <2>2. i \in DOMAIN order
    BY <2>1, <1>1
  <2> QED BY <2>1, <2>2, <1>2
<1>4. n \in at
  <2>1. CASE n = 0
    BY <2>1
  <2>2. CASE n # 0
    <3>1. n \in DOMAIN order /\ order[n] \in Preds(graph, v)
      BY <2>2, <1>1 DEF LastAt
    <3> QED BY <3>1, <1>2
  <2> QED BY <2>1, <2>2
<1>5. \A j \in at : j \in Nat /\ j <= n
  BY <1>1, <1>3
<1>6. \A i \in at : (\A j \in at : j <= i) => i = n
  BY <1>1, <1>4, <1>5
<1> HIDE DEF at
<1>7. n = CHOOSE i \in at : \A j \in at : j <= i
  BY <1>4, <1>5, <1>6
<1> QED BY <1>7 DEF LastPred, at

LEMMA FifoSorted == IInv /\ FifoInv => FifoOrder
<1> SUFFICES ASSUME IInv, FifoInv, NEW i \in DOMAIN order, NEW j \in DOMAIN order, i < j
             PROVE  \/ LastPred(order[i]) < LastPred(order[j])
                    \/ LastPred(order[i]) = LastPred(order[j]) /\ order[i] < order[j]
  BY DEF FifoOrder
<1>1. Sooner(order[i], order[j])
  BY LineFacts DEF FifoInv
<1>2. PICK m, n \in 0..Len(order) :
        /\ LastAt(order[i], m) /\ LastAt(order[j], n)
        /\ m < n \/ (m = n /\ order[i] < order[j])
  BY <1>1 DEF Sooner
<1>3. LastPred(order[i]) = m /\ LastPred(order[j]) = n
  BY <1>2, LastPredIs DEF FifoInv
<1> QED BY <1>2, <1>3

-----------------------------------------------------------------------------
(* The refinement of TopoSpec.                                             *)

(* TopoSpec means the same by its words, and sees the nodes emitted.       *)
LEMMA AbstractNames ==
  /\ Abstract!Graph = Graph
  /\ Abstract!NodeIds(graph) = Nodes
  /\ Abstract!SingleAssignment(graph) <=> SingleAssignment(graph)
  /\ \A v : Abstract!InputsDefined(graph, v) <=> InputsDefined(graph, v)
  /\ \A v : Abstract!SelfLoop(graph, v) <=> SelfLoop(graph, v)
  /\ \A v : Abstract!Preds(graph, v) = Preds(graph, v)
  /\ Abstract!Placed = Emitted
<1>1. /\ Abstract!Str = Str /\ Abstract!Node = Node
      /\ \A g, i : Abstract!Inputs(g, i) = Inputs(g, i)
      /\ \A g, i : Abstract!Outputs(g, i) = Outputs(g, i)
      /\ \A names : Abstract!Refs(names) = Refs(names)
      /\ \A g, x : Abstract!IsSeed(g, x) <=> IsSeed(g, x)
      /\ \A g : Abstract!NodeIds(g) = NodeIds(g)
  BY DEF Abstract!Str, Str, Abstract!Node, Node, Abstract!Inputs, Inputs, Abstract!Outputs,
         Outputs, Abstract!Refs, Refs, Abstract!IsSeed, IsSeed, Abstract!NodeIds, NodeIds
<1>2. /\ \A g, i, x : Abstract!Produces(g, i, x) <=> Produces(g, i, x)
      /\ \A g, a, b : Abstract!DistinctOutputs(g, a, b) <=> DistinctOutputs(g, a, b)
  BY <1>1 DEF Abstract!Produces, Produces, Abstract!DistinctOutputs, DistinctOutputs
<1>3. /\ \A g, x : Abstract!IsProduced(g, x) <=> IsProduced(g, x)
      /\ \A g, a, b : Abstract!Edge(g, a, b) <=> Edge(g, a, b)
  BY <1>1, <1>2 DEF Abstract!IsProduced, IsProduced, Abstract!Edge, Edge
<1>4. Abstract!Graph = Graph
  BY <1>1 DEF Abstract!Graph, Graph
<1>5. Abstract!SingleAssignment(graph) <=> SingleAssignment(graph)
  BY <1>1, <1>2 DEF Abstract!SingleAssignment, SingleAssignment
<1>6. \A v : Abstract!InputsDefined(graph, v) <=> InputsDefined(graph, v)
  BY <1>1, <1>3 DEF Abstract!InputsDefined, InputsDefined
<1>7. \A v : /\ Abstract!SelfLoop(graph, v) <=> SelfLoop(graph, v)
             /\ Abstract!Preds(graph, v) = Preds(graph, v)
  BY <1>1, <1>3 DEF Abstract!SelfLoop, SelfLoop, Abstract!Preds, Preds
<1>8. Abstract!Placed = Emitted
  BY DEF Abstract!Placed, Emitted, Range
<1> QED BY <1>1, <1>4, <1>5, <1>6, <1>7, <1>8 DEF Nodes

LEMMA AbstractInit == Init => Abstract!Init
BY AbstractNames, GraphsAssumption DEF Init, Abstract!Init

(* The graph is well wired once the first two loops have let it pass.      *)
LEMMA DrainWired ==
  ASSUME IInv, pc = "drain"
  PROVE  Abstract!WellWired
<1>1. /\ Mapped(N + 1) /\ Scanned(N + 1) /\ N \in Nat /\ Nodes = 1..N
  BY GraphFacts DEF IInv, LoopInv, TypeOK
<1>2. \A v \in Nodes : v < N + 1
  BY <1>1
<1>3. SingleAssignment(graph)
  BY <1>1, <1>2 DEF Mapped, SingleAssignment, Nodes
<1>4. \A v \in Nodes : InputsDefined(graph, v) /\ ~SelfLoop(graph, v)
  BY <1>1, <1>2 DEF Scanned
<1> QED BY <1>3, <1>4, AbstractNames DEF Abstract!WellWired

(* A pop emits a node that can run.                                        *)
LEMMA PopEmits == IInv /\ Pop => Abstract!Next
<1> SUFFICES ASSUME IInv, Pop PROVE Abstract!Next
  OBVIOUS
<1>1. /\ pc = "drain" /\ status = "none" /\ ready \in Seq(Nodes) /\ ready # <<>>
      /\ IsInjective(ready)
      /\ order' = Append(order, Head(ready)) /\ graph' = graph /\ status' = status
  BY DEF Pop, IInv, TypeOK, Returning, QueuedOnce, Draining
<1>2. Head(ready) \in Queued
  BY <1>1, TailFacts DEF Queued
<1>3. /\ Head(ready) \in Nodes /\ Head(ready) \notin Emitted
      /\ Preds(graph, Head(ready)) \subseteq Emitted
  BY <1>1, <1>2, QueuedIsReady
<1>4. Abstract!CanRun(Head(ready))
  BY <1>3, AbstractNames DEF Abstract!CanRun
<1>5. Abstract!Emit(Head(ready))
  BY <1>1, <1>4, DrainWired DEF Abstract!Emit
<1> QED BY <1>3, <1>5, AbstractNames DEF Abstract!Next

(* With an empty queue nobody can run: the call accepts a complete order   *)
(* and reports a cycle otherwise.                                          *)
LEMMA FinishDecides == IInv /\ Finish => Abstract!Next
<1> SUFFICES ASSUME IInv, Finish PROVE Abstract!Next
  OBVIOUS
<1>1. /\ pc = "drain" /\ status = "none" /\ graph \in Graph /\ N \in Nat /\ Nodes = 1..N
      /\ order' = order /\ graph' = graph /\ Draining /\ ready = <<>>
      /\ status' = IF Len(order) = N THEN "ok" ELSE "cycle"
      /\ order \in Seq(1..N) /\ IsInjective(order)
  BY GraphFacts DEF Finish, Return, IInv, TypeOK, Returning, QueuedOnce, Draining
<1>2. Len(order) = N <=> Emitted = Nodes
  BY <1>1, DistinctFill DEF Emitted
<1>3. Abstract!WellWired
  BY <1>1, DrainWired
<1>4. ASSUME NEW v \in Nodes PROVE ~Abstract!CanRun(v)
  <2> SUFFICES ASSUME v \notin Emitted, Preds(graph, v) \subseteq Emitted PROVE FALSE
    BY AbstractNames DEF Abstract!CanRun
  <2>1. Queued = {}
    BY <1>1 DEF Queued, Range
  <2>2. Waiting(v) = {}
    BY <1>1 DEF Waiting, StillToRelax
  <2>3. Cardinality(Waiting(v)) = 0
    BY <2>2, <1>1, FiniteNodes
  <2> QED BY <2>1, <2>3, <1>1 DEF IInv, QueuedOnce, InDegreesCount
<1>5. CASE Len(order) = N
  BY <1>1, <1>2, <1>3, <1>5, AbstractNames DEF Abstract!Accept, Abstract!Next
<1>6. CASE Len(order) # N
  <2>1. Abstract!RejectCycle
    BY <1>1, <1>2, <1>3, <1>4, <1>6, AbstractNames DEF Abstract!RejectCycle
  <2> QED BY <2>1 DEF Abstract!Next
<1> QED BY <1>5, <1>6

(* A call that fails before the drain reports a defect that is there.      *)
LEMMA RejectNames ==
  ASSUME IInv, IInv', status = "none", order = <<>>, graph' = graph, order' = order,
         status' \in {"multiple", "undefined", "self_loop"}
  PROVE  Abstract!Next
<1>1. VerdictExact'
  BY DEF IInv
<1>2. Nodes' = Nodes
  BY DEF Nodes
<1>3. /\ status' = "multiple" => ~SingleAssignment(graph)
      /\ status' = "undefined" =>
           SingleAssignment(graph) /\ \E v \in Nodes : ~InputsDefined(graph, v)
      /\ status' = "self_loop" =>
           SingleAssignment(graph) /\ \E v \in Nodes : SelfLoop(graph, v)
  BY <1>1, <1>2 DEF VerdictExact, AllDefined
<1>4. Abstract!RejectIllFormed
  BY <1>3, AbstractNames DEF Abstract!RejectIllFormed
<1> QED BY <1>4 DEF Abstract!Next

LEMMA AbstractStep ==
  IInv /\ IInv' /\ [Next]_vars => [Abstract!Next]_(Abstract!specVars)
<1> SUFFICES ASSUME IInv, IInv', [Next]_vars
             PROVE  Abstract!Next \/ UNCHANGED <<graph, order, status>>
  BY DEF Abstract!specVars
<1>1. CASE EnterEmpty
  <2>1. /\ Nodes = {} /\ status = "none" /\ status' = "ok" /\ order = <<>>
        /\ order' = order /\ graph' = graph
    BY <1>1, GraphFacts DEF EnterEmpty, Return, IInv, TypeOK, Returning, Untouched
  <2>2. Abstract!WellWired
    BY <2>1, AbstractNames DEF Abstract!WellWired, SingleAssignment, Nodes
  <2>3. Emitted = {}
    BY <2>1 DEF Emitted, Range
  <2> QED BY <2>1, <2>2, <2>3, AbstractNames DEF Abstract!Accept, Abstract!Next
<1>2. CASE MapClash
  BY <1>2, RejectNames DEF MapClash, Return, IInv, Returning, Untouched
<1>3. CASE ScanReject
  BY <1>3, RejectNames DEF ScanReject, Return, IInv, Returning, Untouched
<1>4. CASE Pop
  BY <1>4, PopEmits
<1>5. CASE Finish
  BY <1>5, FinishDecides
<1>6. CASE Enter \/ MapNode \/ ScanNode \/ SeedReady \/ Relax \/ Relaxed \/ Returned \/ UNCHANGED vars
  BY <1>6 DEF Enter, MapNode, ScanNode, SeedReady, Relax, Relaxed, Returned, vars
<1> QED BY <1>1, <1>2, <1>3, <1>4, <1>5, <1>6 DEF Next

-----------------------------------------------------------------------------
(* The results, for every set of graphs.                                   *)

(* ComputeTopoOrder keeps its variables in their types; in particular no   *)
(* in-degree, a size_t that is only decremented, ever wraps around.        *)
THEOREM TypeCorrect == Spec => []TypeOK
<1>1. IInv => TypeOK
  BY DEF IInv
<1> QED BY <1>1, Inductive, PTL

(* In the drain, in_degree[v] is the number of v's distinct predecessors   *)
(* whose edge the drain has not consumed.                                  *)
THEOREM CountersExact == Spec => []InDegreesCount
<1>1. IInv => InDegreesCount
  BY DEF IInv
<1> QED BY <1>1, Inductive, PTL

(* No node is queued or emitted twice, and every node whose in-degree is 0 *)
(* has been queued.                                                        *)
THEOREM QueueExact == Spec => []QueuedOnce
<1>1. IInv => QueuedOnce
  BY DEF IInv
<1> QED BY <1>1, Inductive, PTL

(* At every moment an emitted node has all its producers before it.        *)
THEOREM ProducersFirst == Spec => []PredsFirst
<1>1. IInv => PredsFirst
  BY DEF IInv
<1> QED BY <1>1, Inductive, PTL

(* The call returns ok exactly on the single-assignment, wired, acyclic    *)
(* graphs, with a topological order of all nodes, and each error it        *)
(* returns names a defect that the graph has.                              *)
THEOREM VerdictsExact == Spec => []VerdictExact
<1>1. IInv => VerdictExact
  BY DEF IInv
<1> QED BY <1>1, Inductive, PTL

(* A cycle error leaves out just the nodes that can never run.             *)
THEOREM LeftoverIsExact == Spec => []LeftoverExact
<1>1. IInv => LeftoverExact
  BY DEF IInv
<1> QED BY <1>1, Inductive, PTL

(* "we use FIFO for determinism": at every moment the order is sorted by   *)
(* the position of the last producer, then by node index, so a graph has   *)
(* one possible order.                                                     *)
THEOREM OrderIsDeterministic == Spec => []FifoOrder
<1>1. Init => FifoInv
  BY FifoInit
<1>2. IInv /\ IInv' /\ FifoInv /\ [Next]_vars => FifoInv'
  BY FifoNext
<1>3. IInv /\ FifoInv => FifoOrder
  BY FifoSorted
<1> QED BY <1>1, <1>2, <1>3, Inductive, PTL DEF Spec

(* The call is one of those that topo_sort.h promises: it starts and goes  *)
(* on as TopoSpec does, or pauses.  (That it does go on is fairness, which *)
(* TLC checks with ImplementsTopoSpec.)                                    *)
THEOREM EmitsOnlyRunnable ==
  Spec => Abstract!Init /\ [][Abstract!Next]_(Abstract!specVars)
<1>1. Init => Abstract!Init
  BY AbstractInit
<1>2. IInv /\ IInv' /\ [Next]_vars => [Abstract!Next]_(Abstract!specVars)
  BY AbstractStep
<1> QED BY <1>1, <1>2, Inductive, PTL DEF Spec
=============================================================================
