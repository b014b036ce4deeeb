------------------------------ MODULE Validate ------------------------------
(***************************************************************************)
(* ValidateStructure (src/ir/validate.cpp), one behaviour per graph and    *)
(* per order in which the hash map of initializers is traversed.           *)
(*                                                                         *)
(* Five loops follow each other: graph inputs, initializers, node outputs, *)
(* node inputs, graph outputs.  A step is one iteration of a loop over     *)
(* names, or one node.  Each loop either returns the error of the first    *)
(* defect it meets or records what it saw in the sets the next loops read. *)
(***************************************************************************)
EXTENDS GraphIR, FiniteSets

CONSTANT Graphs   \* the graphs the function may be called with

ASSUME GraphsAssumption == Graphs \subseteq Graph

VARIABLES
  graph,      \* the argument, const in the code
  pc,         \* the loop the call is in
  at,         \* the position of the loop over a vector
  todo,       \* the initializers not visited yet
  seeds,      \* graph inputs and initializers
  defined,    \* seeds and node outputs seen so far
  producer,   \* the keys of the producer map (its values are for messages)
  status      \* "none" until the call returns

vars == <<graph, pc, at, todo, seeds, defined, producer, status>>

NodeCount == Len(graph.nodes)

Verdicts == {"ok", "empty_input", "empty_initializer", "empty_op_type",
             "empty_output", "redefines_seed", "multiple", "undefined",
             "empty_graph_output", "undefined_graph_output"}

Init ==
  /\ graph \in Graphs
  /\ pc = "graph_inputs"
  /\ at = 1
  /\ todo = graph.initializers
  /\ seeds = {}
  /\ defined = {}
  /\ producer = {}
  /\ status = "none"

Return(verdict) ==
  /\ pc' = "done"
  /\ status' = verdict
  /\ UNCHANGED <<graph, at, todo, seeds, defined, producer>>

(* A loop whose vector is exhausted gives way to the next one.             *)
LeaveLoop(loop, size, next) ==
  /\ pc = loop
  /\ at > size
  /\ pc' = next
  /\ at' = 1
  /\ UNCHANGED <<graph, todo, seeds, defined, producer, status>>

-----------------------------------------------------------------------------
AtGraphInput == pc = "graph_inputs" /\ at <= Len(graph.graph_inputs)

RejectGraphInput ==
  /\ AtGraphInput
  /\ graph.graph_inputs[at] = Empty
  /\ Return("empty_input")

SeedGraphInput ==
  /\ AtGraphInput
  /\ graph.graph_inputs[at] # Empty
  /\ seeds' = seeds \cup {graph.graph_inputs[at]}
  /\ defined' = defined \cup {graph.graph_inputs[at]}
  /\ at' = at + 1
  /\ UNCHANGED <<graph, pc, todo, producer, status>>

(* The hash map is traversed in some order: any initializer may be next.   *)
VisitInitializer(x) ==
  /\ pc = "initializers"
  /\ x \in todo
  /\ \/ x = Empty /\ Return("empty_initializer")
     \/ /\ x # Empty
        /\ todo' = todo \ {x}
        /\ seeds' = seeds \cup {x}
        /\ defined' = defined \cup {x}
        /\ UNCHANGED <<graph, pc, at, producer, status>>

LeaveInitializers ==
  /\ pc = "initializers"
  /\ todo = {}
  /\ pc' = "node_outputs"
  /\ UNCHANGED <<graph, at, todo, seeds, defined, producer, status>>

-----------------------------------------------------------------------------
AtNode(loop) == pc = loop /\ at <= NodeCount

(* The error for output j of the current node, in the order of the checks; *)
(* outputs 1..j-1 of the node are in the producer map already.             *)
OutputDefect(j) ==
  LET outs == Outputs(graph, at)
  IN  IF outs[j] = Empty THEN "empty_output"
      ELSE IF outs[j] \in seeds THEN "redefines_seed"
      ELSE IF outs[j] \in producer \/ \E i \in 1..(j - 1) : outs[i] = outs[j]
           THEN "multiple"
      ELSE "none"

RejectOutputs ==
  /\ AtNode("node_outputs")
  /\ \/ graph.nodes[at].op_type = Empty /\ Return("empty_op_type")
     \/ /\ graph.nodes[at].op_type # Empty
        /\ \E j \in DOMAIN Outputs(graph, at) :
             /\ OutputDefect(j) # "none"
             /\ \A i \in 1..(j - 1) : OutputDefect(i) = "none"
             /\ Return(OutputDefect(j))

(* Mutant: the check against the seeds is left out.                        *)
DefineRedefiningSeeds ==
  /\ AtNode("node_outputs")
  /\ graph.nodes[at].op_type # Empty
  /\ \A j \in DOMAIN Outputs(graph, at) : OutputDefect(j) \in {"none", "redefines_seed"}
  /\ producer' = producer \cup Refs(Outputs(graph, at))
  /\ defined' = defined \cup Refs(Outputs(graph, at))
  /\ at' = at + 1
  /\ UNCHANGED <<graph, pc, todo, seeds, status>>

(* Mutant: the outputs are not recorded as defined.                        *)
ProduceOutputsOnly ==
  /\ AtNode("node_outputs")
  /\ graph.nodes[at].op_type # Empty
  /\ \A j \in DOMAIN Outputs(graph, at) : OutputDefect(j) = "none"
  /\ producer' = producer \cup Refs(Outputs(graph, at))
  /\ at' = at + 1
  /\ UNCHANGED <<graph, pc, todo, seeds, defined, status>>

DefineOutputs ==
  /\ AtNode("node_outputs")
  /\ graph.nodes[at].op_type # Empty
  /\ \A j \in DOMAIN Outputs(graph, at) : OutputDefect(j) = "none"
  /\ producer' = producer \cup Refs(Outputs(graph, at))
  /\ defined' = defined \cup Refs(Outputs(graph, at))
  /\ at' = at + 1
  /\ UNCHANGED <<graph, pc, todo, seeds, status>>

-----------------------------------------------------------------------------
RejectInputs ==
  /\ AtNode("node_inputs")
  /\ \E x \in Refs(Inputs(graph, at)) : x \notin defined
  /\ Return("undefined")

AcceptInputs ==
  /\ AtNode("node_inputs")
  /\ Refs(Inputs(graph, at)) \subseteq defined
  /\ at' = at + 1
  /\ UNCHANGED <<graph, pc, todo, seeds, defined, producer, status>>

AtGraphOutput == pc = "graph_outputs" /\ at <= Len(graph.graph_outputs)

RejectGraphOutput ==
  /\ AtGraphOutput
  /\ graph.graph_outputs[at] \notin defined \ {Empty}
  /\ Return(IF graph.graph_outputs[at] = Empty THEN "empty_graph_output"
                                               ELSE "undefined_graph_output")

AcceptGraphOutput ==
  /\ AtGraphOutput
  /\ graph.graph_outputs[at] \in defined \ {Empty}
  /\ at' = at + 1
  /\ UNCHANGED <<graph, pc, todo, seeds, defined, producer, status>>

Finish ==
  /\ pc = "graph_outputs"
  /\ at > Len(graph.graph_outputs)
  /\ Return("ok")

LeaveVectorLoop ==
  \/ LeaveLoop("graph_inputs", Len(graph.graph_inputs), "initializers")
  \/ LeaveLoop("node_outputs", NodeCount, "node_inputs")
  \/ LeaveLoop("node_inputs", NodeCount, "graph_outputs")

(* The call has returned; nothing happens any more.                        *)
Returned == pc = "done" /\ UNCHANGED vars

Next ==
  \/ RejectGraphInput \/ SeedGraphInput
  \/ \E x \in graph.initializers : VisitInitializer(x)
  \/ LeaveInitializers
  \/ RejectOutputs \/ DefineOutputs
  \/ RejectInputs \/ AcceptInputs
  \/ RejectGraphOutput \/ AcceptGraphOutput
  \/ LeaveVectorLoop
  \/ Finish \/ Returned

(* The call is sequential code: it runs until it returns.                  *)
Spec == Init /\ [][Next]_vars

-----------------------------------------------------------------------------
(* Every variable keeps its type, and the two sets of names never drift:   *)
(* what counts as defined is the seeds and the produced names.             *)
TypeOK ==
  /\ graph \in Graph
  /\ pc \in {"graph_inputs", "initializers", "node_outputs", "node_inputs",
             "graph_outputs", "done"}
  /\ at \in Nat \ {0}
  /\ todo \in SUBSET graph.initializers
  /\ seeds \in SUBSET Name
  /\ producer \in SUBSET Name
  /\ defined = seeds \cup producer
  /\ status \in Verdicts \cup {"none"}

(* What each loop establishes when it does not fail.                       *)
SeedsNamed == NonEmptyNames(graph.graph_inputs) /\ Empty \notin graph.initializers

OutputsSound ==
  /\ SeedsNamed
  /\ SingleAssignment(graph)
  /\ \A i \in NodeIds(graph) :
       /\ graph.nodes[i].op_type # Empty
       /\ NonEmptyNames(Outputs(graph, i))
       /\ \A x \in Refs(Outputs(graph, i)) : ~IsSeed(graph, x)

InputsSound ==
  OutputsSound /\ \A v \in NodeIds(graph) : InputsDefined(graph, v)

(* What a verdict says of the graph.                                       *)
Justified(verdict) ==
  /\ verdict = "ok" => WellFormed(graph)
  /\ verdict = "empty_input" => ~NonEmptyNames(graph.graph_inputs)
  /\ verdict = "empty_initializer" =>
       NonEmptyNames(graph.graph_inputs) /\ Empty \in graph.initializers
  /\ verdict = "empty_op_type" =>
       SeedsNamed /\ \E i \in NodeIds(graph) : graph.nodes[i].op_type = Empty
  /\ verdict = "empty_output" =>
       SeedsNamed /\ \E i \in NodeIds(graph) : ~NonEmptyNames(Outputs(graph, i))
  /\ verdict = "redefines_seed" =>
       /\ SeedsNamed
       /\ \E i \in NodeIds(graph) : \E x \in Refs(Outputs(graph, i)) : IsSeed(graph, x)
  /\ verdict = "multiple" => SeedsNamed /\ ~SingleAssignment(graph)
  /\ verdict = "undefined" =>
       OutputsSound /\ \E v \in NodeIds(graph) : ~InputsDefined(graph, v)
  /\ verdict = "empty_graph_output" =>
       InputsSound /\ ~NonEmptyNames(graph.graph_outputs)
  /\ verdict = "undefined_graph_output" =>
       /\ InputsSound
       /\ \E x \in Refs(graph.graph_outputs) : ~IsProduced(graph, x) /\ ~IsSeed(graph, x)

(* "Passes when" (validate.h, lines 18-23): the call succeeds exactly on   *)
(* the well-formed graphs, whatever the order of the initializers, and an  *)
(* error names a defect of the graph that no earlier loop looks for.       *)
VerdictExact == Justified(status)
=============================================================================
