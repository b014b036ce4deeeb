----------------------------- MODULE PrepareSpec -----------------------------
(***************************************************************************)
(* What PrepareGraphStructure promises its caller (include/eduort/         *)
(* topo_sort.h, lines 26-29): a call that succeeds leaves a topological    *)
(* order of the graph in topo_order, a call that fails leaves none, and it *)
(* succeeds exactly on the well-formed acyclic graphs.  Between calls the  *)
(* owner may change the graph.                                             *)
(***************************************************************************)
EXTENDS GraphIR

VARIABLES graph, topo_order, result

specVars == <<graph, topo_order, result>>

Sortable == WellFormed(graph) /\ ~HasCycle(graph)

Init == graph \in Graph /\ topo_order = <<>> /\ result = "none"

Edit ==
  /\ result # "running"
  /\ graph' \in Graph
  /\ result' = "none"
  /\ UNCHANGED topo_order

Call ==
  /\ result # "running"
  /\ result' = "running"
  /\ topo_order' = <<>>
  /\ UNCHANGED graph

Succeed ==
  /\ result = "running"
  /\ Sortable
  /\ IsTopoOrder(graph, topo_order')
  /\ result' = "ok"
  /\ UNCHANGED graph

Fail ==
  /\ result = "running"
  /\ ~Sortable
  /\ result' = "error"
  /\ UNCHANGED <<graph, topo_order>>

Next == Edit \/ Call \/ Succeed \/ Fail

Spec == Init /\ [][Next]_specVars
=============================================================================
