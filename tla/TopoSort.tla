------------------------------ MODULE TopoSort ------------------------------
(***************************************************************************)
(* ComputeTopoOrder (src/ir/topo_sort.cpp), one behaviour per graph.       *)
(*                                                                         *)
(* The call builds the producer map, then the edges and in-degrees, seeds  *)
(* a FIFO queue with the nodes of in-degree 0 and drains it.  A step is    *)
(* one iteration of a loop: a node in the first two loops (an iteration    *)
(* that returns an error leaves the maps as they were, nobody sees them),  *)
(* a node index in the seeding loop, and in the drain one pop or one       *)
(* consumer of the popped node.                                            *)
(***************************************************************************)
EXTENDS GraphIR, FiniteSets, Functions

CONSTANT Graphs   \* the graphs the function may be called with

ASSUME GraphsAssumption == Graphs \subseteq Graph

VARIABLES
  graph,      \* the argument, const in the code
  pc,         \* the loop the call is in
  ni,         \* the node index of the loop over the nodes
  producer,   \* value name -> node, 0 where the map has no entry
  adj,        \* adj[u]: the consumers of u, in order of insertion
  indeg,      \* indeg[v]: the predecessors of v that are still to be emitted
  ready,      \* the FIFO queue of nodes with in-degree 0
  order,      \* the nodes emitted so far
  u,          \* the node popped last
  k,          \* the position in adj[u] of the consumer to relax next
  status      \* "none" until the call returns

vars == <<graph, pc, ni, producer, adj, indeg, ready, order, u, k, status>>

Nodes == NodeIds(graph)
N == Len(graph.nodes)

Verdicts == {"ok", "multiple", "undefined", "self_loop", "cycle"}

-----------------------------------------------------------------------------
Init ==
  /\ graph \in Graphs
  /\ pc = "entry"
  /\ ni = 1
  /\ producer = [x \in Name |-> 0]
  /\ adj = [i \in Nodes |-> <<>>]
  /\ indeg = [i \in Nodes |-> 0]
  /\ ready = <<>>
  /\ order = <<>>
  /\ u = 0
  /\ k = 0
  /\ status = "none"

Return(verdict) == pc' = "done" /\ status' = verdict

(* The early return for an empty graph, else the call proper begins.       *)
EnterEmpty ==
  /\ pc = "entry"
  /\ N = 0
  /\ Return("ok")
  /\ UNCHANGED <<graph, ni, producer, adj, indeg, ready, order, u, k>>

Enter ==
  /\ pc = "entry"
  /\ N # 0
  /\ pc' = "producers"
  /\ UNCHANGED <<graph, ni, producer, adj, indeg, ready, order, u, k, status>>

(* A loop over the nodes goes on with the next node, or gives way to the   *)
(* next loop, which starts again at the first node.                        *)
Advance(next) ==
  IF ni < N THEN ni' = ni + 1 /\ pc' = pc ELSE ni' = 1 /\ pc' = next

-----------------------------------------------------------------------------
(* BuildProducerMap: an output whose emplace finds the name present.       *)
Clash ==
  LET outs == Outputs(graph, ni)
  IN  \E j \in DOMAIN outs :
        /\ outs[j] # Empty
        /\ \/ producer[outs[j]] # 0
           \/ \E i \in 1..(j - 1) : outs[i] = outs[j]

MapClash ==
  /\ pc = "producers"
  /\ Clash
  /\ Return("multiple")
  /\ UNCHANGED <<graph, ni, producer, adj, indeg, ready, order, u, k>>

MapNode ==
  /\ pc = "producers"
  /\ ~Clash
  /\ producer' = [x \in Name |-> IF Produces(graph, ni, x) THEN ni ELSE producer[x]]
  /\ Advance("edges")
  /\ UNCHANGED <<graph, adj, indeg, ready, order, u, k, status>>

-----------------------------------------------------------------------------
(* The two ways an input of the current node ends the call.                *)
UndefinedInput(x) == x # Empty /\ producer[x] = 0 /\ ~IsSeed(graph, x)
OwnOutput(x) == x # Empty /\ producer[x] = ni

BadInput(x) == UndefinedInput(x) \/ OwnOutput(x)

(* The first bad input, in list order, decides which error is returned.    *)
ScanReject ==
  /\ pc = "edges"
  /\ \E j \in DOMAIN Inputs(graph, ni) :
       LET x == Inputs(graph, ni)[j]
       IN  /\ BadInput(x)
           /\ \A i \in 1..(j - 1) : ~BadInput(Inputs(graph, ni)[i])
           /\ Return(IF OwnOutput(x) THEN "self_loop" ELSE "undefined")
  /\ UNCHANGED <<graph, ni, producer, adj, indeg, ready, order, u, k>>

(* seen_pred: a predecessor counts once however many inputs it feeds.      *)
SeenPreds == {producer[x] : x \in Refs(Inputs(graph, ni))} \ {0}

(* Mutant: an edge is counted for every input, duplicates included.        *)
ScanEveryInput ==
  /\ pc = "edges"
  /\ \A x \in Refs(Inputs(graph, ni)) : ~BadInput(x)
  /\ adj' = [p \in Nodes |-> IF p \in SeenPreds THEN Append(adj[p], ni) ELSE adj[p]]
  /\ indeg' = [indeg EXCEPT ![ni] =
                 @ + Cardinality({j \in DOMAIN Inputs(graph, ni) :
                       /\ Inputs(graph, ni)[j] # Empty
                       /\ producer[Inputs(graph, ni)[j]] # 0})]
  /\ Advance("seed")
  /\ UNCHANGED <<graph, producer, ready, order, u, k, status>>

(* Mutant: the in-degree says whether there are predecessors, not how many.*)
ScanCountsOne ==
  /\ pc = "edges"
  /\ \A x \in Refs(Inputs(graph, ni)) : ~BadInput(x)
  /\ adj' = [p \in Nodes |-> IF p \in SeenPreds THEN Append(adj[p], ni) ELSE adj[p]]
  /\ indeg' = [indeg EXCEPT ![ni] = IF SeenPreds = {} THEN 0 ELSE 1]
  /\ Advance("seed")
  /\ UNCHANGED <<graph, producer, ready, order, u, k, status>>

ScanNode ==
  /\ pc = "edges"
  /\ \A x \in Refs(Inputs(graph, ni)) : ~BadInput(x)
  /\ adj' = [p \in Nodes |-> IF p \in SeenPreds THEN Append(adj[p], ni) ELSE adj[p]]
  /\ indeg' = [indeg EXCEPT ![ni] = @ + Cardinality(SeenPreds)]
  /\ Advance("seed")
  /\ UNCHANGED <<graph, producer, ready, order, u, k, status>>

-----------------------------------------------------------------------------
SeedReady ==
  /\ pc = "seed"
  /\ ready' = IF indeg[ni] = 0 THEN Append(ready, ni) ELSE ready
  /\ Advance("drain")
  /\ UNCHANGED <<graph, producer, adj, indeg, order, u, k, status>>

(* Mutant: the last node of the ready set is taken, a stack for the queue. *)
PopLast ==
  /\ pc = "drain"
  /\ ready # <<>>
  /\ u' = ready[Len(ready)]
  /\ ready' = SubSeq(ready, 1, Len(ready) - 1)
  /\ order' = Append(order, ready[Len(ready)])
  /\ k' = 1
  /\ pc' = "relax"
  /\ UNCHANGED <<graph, ni, producer, adj, indeg, status>>

(* Mutant: the loop over the consumers starts at the second one.           *)
PopSkipFirst ==
  /\ pc = "drain"
  /\ ready # <<>>
  /\ u' = Head(ready)
  /\ ready' = Tail(ready)
  /\ order' = Append(order, Head(ready))
  /\ k' = 2
  /\ pc' = "relax"
  /\ UNCHANGED <<graph, ni, producer, adj, indeg, status>>

Pop ==
  /\ pc = "drain"
  /\ ready # <<>>
  /\ u' = Head(ready)
  /\ ready' = Tail(ready)
  /\ order' = Append(order, Head(ready))
  /\ k' = 1
  /\ pc' = "relax"
  /\ UNCHANGED <<graph, ni, producer, adj, indeg, status>>

(* Mutant: a consumer is queued when one predecessor is still missing, and *)
(* again when none is.                                                     *)
RelaxEarly ==
  /\ pc = "relax"
  /\ k <= Len(adj[u])
  /\ LET v == adj[u][k]
     IN  /\ indeg' = [indeg EXCEPT ![v] = @ - 1]
         /\ ready' = IF indeg[v] <= 2 THEN Append(ready, v) ELSE ready
  /\ k' = k + 1
  /\ UNCHANGED <<graph, pc, ni, producer, adj, order, u, status>>

Relax ==
  /\ pc = "relax"
  /\ k <= Len(adj[u])
  /\ LET v == adj[u][k]
     IN  /\ indeg' = [indeg EXCEPT ![v] = @ - 1]
         /\ ready' = IF indeg[v] = 1 THEN Append(ready, v) ELSE ready
  /\ k' = k + 1
  /\ UNCHANGED <<graph, pc, ni, producer, adj, order, u, status>>

(* Mutant: the outer loop is not resumed.                                  *)
RelaxedForever ==
  /\ pc = "relax"
  /\ k > Len(adj[u])
  /\ UNCHANGED vars

Relaxed ==
  /\ pc = "relax"
  /\ k > Len(adj[u])
  /\ pc' = "drain"
  /\ UNCHANGED <<graph, ni, producer, adj, indeg, ready, order, u, k, status>>

(* Mutant: the number of nodes emitted is not looked at.                   *)
FinishUnchecked ==
  /\ pc = "drain"
  /\ ready = <<>>
  /\ Return("ok")
  /\ UNCHANGED <<graph, ni, producer, adj, indeg, ready, order, u, k>>

Finish ==
  /\ pc = "drain"
  /\ ready = <<>>
  /\ Return(IF Len(order) = N THEN "ok" ELSE "cycle")
  /\ UNCHANGED <<graph, ni, producer, adj, indeg, ready, order, u, k>>

(* The call has returned; nothing happens any more.                        *)
Returned == pc = "done" /\ UNCHANGED vars

Next ==
  \/ EnterEmpty \/ Enter
  \/ MapClash \/ MapNode
  \/ ScanReject \/ ScanNode
  \/ SeedReady
  \/ Pop \/ Relax \/ Relaxed
  \/ Finish \/ Returned

(* The call is sequential code: it runs until it returns.                  *)
Spec == Init /\ [][Next]_vars /\ WF_vars(Next)
-----------------------------------------------------------------------------
Emitted == Range(order)

Queued == Range(ready)

(* The popped node p is not yet relaxed into v while v stands at position  *)
(* k of adj[p] or later.                                                   *)
StillToRelax(p, v) ==
  pc = "relax" /\ p = u /\ \E j \in DOMAIN adj[u] : j >= k /\ adj[u][j] = v

(* The predecessors whose edge into v the drain has not consumed.          *)
Waiting(v) == {p \in Preds(graph, v) : p \notin Emitted \/ StillToRelax(p, v)}

Draining == pc \in {"drain", "relax"}

-----------------------------------------------------------------------------
(* Every variable keeps its type; an in-degree is a size_t that is only    *)
(* decremented, so "is a natural number" says it never wraps around.       *)
TypeOK ==
  /\ graph \in Graph
  /\ pc \in {"entry", "producers", "edges", "seed", "drain", "relax", "done"}
  /\ ni \in Nat \ {0}
  /\ N # 0 => ni \in Nodes
  /\ producer \in [Name -> Nodes \cup {0}]
  /\ adj \in [Nodes -> Seq(Nodes)]
  /\ indeg \in [Nodes -> Nat]
  /\ ready \in Seq(Nodes)
  /\ order \in Seq(Nodes)
  /\ u \in Nodes \cup {0}
  /\ pc = "relax" => u \in Nodes
  /\ k \in Nat
  /\ status \in Verdicts \cup {"none"}

(* While the queue is drained, the in-degree of a node is the number of    *)
(* distinct predecessors whose edge is not consumed yet: the counters, the *)
(* adjacency lists and the position in the inner loop never drift apart.   *)
InDegreesCount ==
  Draining => \A v \in Nodes : indeg[v] = Cardinality(Waiting(v))

(* A node enters the queue exactly when its in-degree reaches 0, and once: *)
(* none is lost by the drain, none is emitted twice.                       *)
QueuedOnce ==
  Draining =>
    /\ IsInjective(order) /\ IsInjective(ready) /\ Emitted \cap Queued = {}
    /\ \A v \in Nodes : indeg[v] = 0 <=> v \in Emitted \cup Queued

(* "every producer runs before every consumer of a value" (topo_sort.h),   *)
(* at every moment of the drain: an emitted node has all its predecessors  *)
(* before it.                                                              *)
PredsFirst ==
  \A j \in DOMAIN order : \A p \in Preds(graph, order[j]) :
    \E i \in 1..(j - 1) : order[i] = p

(* The call succeeds exactly on the single-assignment, completely wired,   *)
(* acyclic graphs, with a topological order of all nodes; and an error     *)
(* names a defect that the graph has, in the order the code looks for them *)
(* (topo_sort.h, lines 20-23).                                             *)
AllDefined == \A v \in Nodes : InputsDefined(graph, v)

VerdictExact ==
  /\ status = "ok" =>
       /\ SingleAssignment(graph) /\ AllDefined /\ ~HasCycle(graph)
       /\ IsTopoOrder(graph, order)
  /\ status = "multiple" => ~SingleAssignment(graph)
  /\ status = "undefined" => SingleAssignment(graph) /\ ~AllDefined
  /\ status = "self_loop" =>
       SingleAssignment(graph) /\ \E v \in Nodes : SelfLoop(graph, v)
  /\ status = "cycle" =>
       /\ SingleAssignment(graph) /\ AllDefined /\ HasCycle(graph)
       /\ \A v \in Nodes : ~SelfLoop(graph, v)

(* The nodes a cycle error leaves out are those that can never run: the    *)
(* union of all traps, which is the nodes on a cycle or behind one.  The   *)
(* count "ordered K" of the message is as large as it can be.              *)
LeftoverExact ==
  status = "cycle" =>
    Nodes \ Emitted = UNION {S \in SUBSET Nodes : Trap(graph, S)}

(* "we use FIFO for determinism" (line 111): the order is sorted by the    *)
(* position of the last predecessor and then by node index, which leaves   *)
(* one possible order for each graph.                                      *)
PositionOf(v) == CHOOSE i \in DOMAIN order : order[i] = v

LastPred(v) ==
  LET at == {0} \cup {PositionOf(p) : p \in Preds(graph, v)}
  IN  CHOOSE i \in at : \A j \in at : j <= i

FifoOrder ==
  \A i, j \in DOMAIN order :
    i < j => \/ LastPred(order[i]) < LastPred(order[j])
             \/ LastPred(order[i]) = LastPred(order[j]) /\ order[i] < order[j]

(* The drain implements the abstract emission of ready nodes, and the call *)
(* reaches a verdict on every graph, as the abstract one does.             *)
Abstract == INSTANCE TopoSpec
ImplementsTopoSpec == Abstract!Spec
=============================================================================
