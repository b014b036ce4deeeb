------------------------------ MODULE TopoSpec ------------------------------
(***************************************************************************)
(* What ComputeTopoOrder promises (include/eduort/topo_sort.h), without    *)
(* its maps, counters and queue: nodes of a well-formed graph are emitted  *)
(* one by one, any node whose producers are all emitted may be next, and   *)
(* the call ends with the whole order, with a cycle error when no node can *)
(* be next, or with an error about a defect of an ill-formed graph.        *)
(***************************************************************************)
EXTENDS GraphIR

VARIABLES graph, order, status

specVars == <<graph, order, status>>

Placed == {order[i] : i \in DOMAIN order}

WellWired ==
  /\ SingleAssignment(graph)
  /\ \A v \in NodeIds(graph) : InputsDefined(graph, v) /\ ~SelfLoop(graph, v)

(* Node v may be the next to run.                                          *)
CanRun(v) == v \notin Placed /\ Preds(graph, v) \subseteq Placed

Init ==
  /\ graph \in Graph
  /\ order = <<>>
  /\ status = "none"

Emit(v) ==
  /\ status = "none"
  /\ WellWired
  /\ CanRun(v)
  /\ order' = Append(order, v)
  /\ UNCHANGED <<graph, status>>

Accept ==
  /\ status = "none"
  /\ WellWired
  /\ Placed = NodeIds(graph)
  /\ status' = "ok"
  /\ UNCHANGED <<graph, order>>

RejectCycle ==
  /\ status = "none"
  /\ WellWired
  /\ Placed # NodeIds(graph)
  /\ \A v \in NodeIds(graph) : ~CanRun(v)
  /\ status' = "cycle"
  /\ UNCHANGED <<graph, order>>

RejectIllFormed ==
  /\ status = "none"
  /\ order = <<>>
  /\ \/ ~SingleAssignment(graph) /\ status' = "multiple"
     \/ /\ SingleAssignment(graph)
        /\ \E v \in NodeIds(graph) :
             \/ ~InputsDefined(graph, v) /\ status' = "undefined"
             \/ SelfLoop(graph, v) /\ status' = "self_loop"
  /\ UNCHANGED <<graph, order>>

Next ==
  \/ \E v \in NodeIds(graph) : Emit(v)
  \/ Accept \/ RejectCycle \/ RejectIllFormed

(* A verdict is reached: a call that can go on does go on.                 *)
Spec == Init /\ [][Next]_specVars /\ WF_specVars(Next)
=============================================================================
