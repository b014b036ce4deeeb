---------------------------- MODULE PrepareGraph ----------------------------
(***************************************************************************)
(* PrepareGraphStructure (src/ir/topo_sort.cpp, lines 145-152) and the     *)
(* owner of the graph.  A call clears topo_order, runs ValidateStructure,  *)
(* then ComputeTopoOrder, and assigns the order.  The steps of the two     *)
(* callees are those of their own modules, on the same graph; a callee's   *)
(* local variables exist while it runs.  Between two calls the owner may   *)
(* replace the graph's contents, which leaves topo_order as it is (the     *)
(* tests prepare a graph, break it and prepare it again).                  *)
(***************************************************************************)
EXTENDS GraphIR

CONSTANT Graphs   \* the graphs the owner may build

ASSUME GraphsAssumption == Graphs \subseteq Graph

VARIABLES
  graph,        \* the graph, without its topo_order
  topo_order,   \* graph.topo_order
  phase,        \* "idle", "validating" or "sorting"
  result,       \* of the last call; "none" after an edit, "running" in a call
  vpc, at, todo, seeds, defined, vproducer, vstatus,              \* ValidateStructure
  tpc, ni, producer, adj, indeg, ready, order, u, k, tstatus      \* ComputeTopoOrder

vLocals == <<vpc, at, todo, seeds, defined, vproducer, vstatus>>
tLocals == <<tpc, ni, producer, adj, indeg, ready, order, u, k, tstatus>>
vars == <<graph, topo_order, phase, result, vLocals, tLocals>>

V == INSTANCE Validate WITH pc <- vpc, producer <- vproducer, status <- vstatus
T == INSTANCE TopoSort WITH pc <- tpc, status <- tstatus

(* The locals of a callee when it is entered, or with loop = "idle" and no *)
(* elements when it is not running.                                        *)
FreshValidate(loop, inits) ==
  /\ vpc' = loop /\ at' = 1 /\ todo' = inits
  /\ seeds' = {} /\ defined' = {} /\ vproducer' = {}
  /\ vstatus' = "none"

FreshSort(loop, ids) ==
  /\ tpc' = loop /\ ni' = 1 /\ producer' = [x \in Name |-> 0]
  /\ adj' = [i \in ids |-> <<>>] /\ indeg' = [i \in ids |-> 0]
  /\ ready' = <<>> /\ order' = <<>>
  /\ u' = 0 /\ k' = 0
  /\ tstatus' = "none"

-----------------------------------------------------------------------------
Init ==
  /\ graph \in Graphs
  /\ topo_order = <<>> /\ phase = "idle" /\ result = "none"
  /\ vpc = "idle" /\ at = 1 /\ todo = {}
  /\ seeds = {} /\ defined = {} /\ vproducer = {} /\ vstatus = "none"
  /\ tpc = "idle" /\ ni = 1 /\ producer = [x \in Name |-> 0]
  /\ adj = <<>> /\ indeg = <<>> /\ ready = <<>> /\ order = <<>>
  /\ u = 0 /\ k = 0 /\ tstatus = "none"

Edit ==
  /\ phase = "idle"
  /\ graph' \in Graphs
  /\ result' = "none"
  /\ UNCHANGED <<topo_order, phase, vLocals, tLocals>>

(* Mutant: topo_order is not cleared first.                                *)
CallWithoutClear ==
  /\ phase = "idle"
  /\ phase' = "validating"
  /\ result' = "running"
  /\ FreshValidate("graph_inputs", graph.initializers)
  /\ UNCHANGED <<graph, topo_order, tLocals>>

Call ==
  /\ phase = "idle"
  /\ phase' = "validating"
  /\ result' = "running"
  /\ topo_order' = <<>>
  /\ FreshValidate("graph_inputs", graph.initializers)
  /\ UNCHANGED <<graph, tLocals>>

Validating ==
  /\ phase = "validating"
  /\ vstatus = "none"
  /\ V!Next
  /\ UNCHANGED <<topo_order, phase, result, tLocals>>

(* EDUORT_RETURN_IF_ERROR on the Status of ValidateStructure.              *)
ValidateFailed ==
  /\ phase = "validating"
  /\ vstatus \notin {"none", "ok"}
  /\ phase' = "idle"
  /\ result' = "error"
  /\ FreshValidate("idle", {})
  /\ UNCHANGED <<graph, topo_order, tLocals>>

(* Mutant: the Status of ValidateStructure is not looked at.               *)
SortAnyway ==
  /\ phase = "validating"
  /\ vstatus # "none"
  /\ phase' = "sorting"
  /\ FreshValidate("idle", {})
  /\ FreshSort("entry", NodeIds(graph))
  /\ UNCHANGED <<graph, topo_order, result>>

BeginSort ==
  /\ phase = "validating"
  /\ vstatus = "ok"
  /\ phase' = "sorting"
  /\ FreshValidate("idle", {})
  /\ FreshSort("entry", NodeIds(graph))
  /\ UNCHANGED <<graph, topo_order, result>>

Sorting ==
  /\ phase = "sorting"
  /\ tstatus = "none"
  /\ T!Next
  /\ UNCHANGED <<topo_order, phase, result, vLocals>>

(* Mutant: the nodes ordered before a cycle was met are stored.            *)
SortFailedPartially ==
  /\ phase = "sorting"
  /\ tstatus \notin {"none", "ok"}
  /\ phase' = "idle"
  /\ topo_order' = order
  /\ result' = "error"
  /\ FreshSort("idle", {})
  /\ UNCHANGED <<graph, vLocals>>

(* EDUORT_ASSIGN_OR_RETURN on the StatusOr of ComputeTopoOrder.            *)
SortFailed ==
  /\ phase = "sorting"
  /\ tstatus \notin {"none", "ok"}
  /\ phase' = "idle"
  /\ result' = "error"
  /\ FreshSort("idle", {})
  /\ UNCHANGED <<graph, topo_order, vLocals>>

StoreOrder ==
  /\ phase = "sorting"
  /\ tstatus = "ok"
  /\ phase' = "idle"
  /\ topo_order' = order
  /\ result' = "ok"
  /\ FreshSort("idle", {})
  /\ UNCHANGED <<graph, vLocals>>

CallSteps ==
  \/ Validating \/ ValidateFailed
  \/ BeginSort \/ Sorting \/ SortFailed \/ StoreOrder

Next == Edit \/ Call \/ CallSteps

(* A call is sequential code and goes on until it returns; the owner need  *)
(* not do anything.                                                        *)
Spec == Init /\ [][Next]_vars /\ WF_vars(CallSteps)

-----------------------------------------------------------------------------
(* The two passes agree on what a definition is: on a graph that passed    *)
(* ValidateStructure, ComputeTopoOrder fails only for a cycle, a self-loop *)
(* included ("Cycles are reported by the topological sort", validate.h).   *)
SortFailsOnlyOnCycles ==
  phase = "sorting" =>
    /\ tstatus \in {"none", "ok", "self_loop", "cycle"}
    /\ tstatus \in {"self_loop", "cycle"} => HasCycle(graph)

(* "a failed prepare never leaves a stale order" (topo_sort.h, line 27):   *)
(* whatever was prepared and edited before, an order that is present after *)
(* a return or at any step of a call is the order of this very graph.      *)
NoStaleOrder ==
  /\ phase # "idle" => topo_order = <<>>
  /\ result = "error" => topo_order = <<>>
  /\ result = "ok" => IsTopoOrder(graph, topo_order)

(* A call that began returns.                                              *)
CallReturns == result = "running" ~> result \in {"ok", "error"}

(* The two passes and the assignment implement the promise of the header.  *)
Abstract == INSTANCE PrepareSpec
ImplementsPrepareSpec == Abstract!Spec
=============================================================================
