------------------------------ MODULE GraphIR ------------------------------
(***************************************************************************)
(* The graph IR that the loader builds and that the structure passes read  *)
(* (include/eduort/graph.h), and what its documents say of a graph: which  *)
(* values are seeds, who produces and consumes a value, when a graph is    *)
(* single-assignment, completely wired and acyclic.                        *)
(*                                                                         *)
(* A value name is a member of Name, or Empty for the empty string, which  *)
(* as an input means "optional input omitted".  Node i of a graph is the   *)
(* C++ node of index i - 1.  The fields no structure pass reads (names for *)
(* diagnostics, domains, attributes, tensors, shape hints, versions) are   *)
(* left out; topo_order is a variable of the module that writes it.        *)
(***************************************************************************)
EXTENDS Naturals, Sequences

CONSTANTS Name,   \* the non-empty strings a graph may use
          Empty   \* the empty string

ASSUME EmptyAssumption == Empty \notin Name

Str == Name \cup {Empty}

Node == [op_type : Str, inputs : Seq(Str), outputs : Seq(Str)]

Graph == [nodes         : Seq(Node),
          initializers  : SUBSET Str,
          graph_inputs  : Seq(Str),
          graph_outputs : Seq(Str)]

-----------------------------------------------------------------------------
NodeIds(g) == 1..Len(g.nodes)

(* The non-empty names in a list of names.                                 *)
Refs(names) == {names[j] : j \in DOMAIN names} \ {Empty}

Outputs(g, i) == g.nodes[i].outputs
Inputs(g, i) == g.nodes[i].inputs

(* IsSeedValue: initializers and graph inputs are defined before any node. *)
IsSeed(g, x) ==
  \/ x \in g.initializers
  \/ \E j \in DOMAIN g.graph_inputs : g.graph_inputs[j] = x

Produces(g, i, x) == x \in Refs(Outputs(g, i))

IsProduced(g, x) == \E i \in NodeIds(g) : Produces(g, i, x)

(* "if node A produces T and node B consumes T, there is an edge A -> B"   *)
Edge(g, a, b) == \E x \in Refs(Inputs(g, b)) : Produces(g, a, x)

Preds(g, v) == {p \in NodeIds(g) : Edge(g, p, v)}

-----------------------------------------------------------------------------
(* Each value has at most one definition among the node outputs, so no     *)
(* name occurs twice in all the output lists together.                     *)
DistinctOutputs(g, a, b) ==
  \A i \in DOMAIN Outputs(g, a), j \in DOMAIN Outputs(g, b) :
    (Outputs(g, a)[i] = Outputs(g, b)[j] /\ Outputs(g, a)[i] # Empty)
      => (a = b /\ i = j)

SingleAssignment(g) == \A a, b \in NodeIds(g) : DistinctOutputs(g, a, b)

(* Every non-empty input of node v is a seed or some node's output.        *)
InputsDefined(g, v) ==
  \A x \in Refs(Inputs(g, v)) : IsProduced(g, x) \/ IsSeed(g, x)

NonEmptyNames(names) == \A j \in DOMAIN names : names[j] # Empty

(* The list in validate.h of what makes a graph structurally well-formed.  *)
WellFormed(g) ==
  /\ NonEmptyNames(g.graph_inputs) /\ Empty \notin g.initializers
  /\ \A i \in NodeIds(g) :
       /\ g.nodes[i].op_type # Empty
       /\ NonEmptyNames(Outputs(g, i))
       /\ \A x \in Refs(Outputs(g, i)) : ~IsSeed(g, x)
  /\ SingleAssignment(g)
  /\ \A v \in NodeIds(g) : InputsDefined(g, v)
  /\ NonEmptyNames(g.graph_outputs)
  /\ \A x \in Refs(g.graph_outputs) : IsProduced(g, x) \/ IsSeed(g, x)

SelfLoop(g, v) == Edge(g, v, v)

(* A trap: no member can be the first of the set to run.  A finite graph   *)
(* has a cycle if and only if it has a non-empty trap.                     *)
Trap(g, S) == \A v \in S : \E p \in S : Edge(g, p, v)

HasCycle(g) == \E S \in SUBSET NodeIds(g) : S # {} /\ Trap(g, S)

(* "every producer runs before every consumer of a value" (topo_sort.h)    *)
IsTopoOrder(g, s) ==
  /\ DOMAIN s = NodeIds(g)
  /\ \A v \in NodeIds(g) : \E i \in DOMAIN s : s[i] = v
  /\ \A i, j \in DOMAIN s : Edge(g, s[i], s[j]) => i < j
=============================================================================
