--------------------------- MODULE ValidateProofs ---------------------------
(***************************************************************************)
(* Proofs about Validate, for every set of graphs and every order in which *)
(* the initializers are traversed.                                         *)
(***************************************************************************)
EXTENDS Validate, TLAPS

-----------------------------------------------------------------------------
(* The inductive invariant: what the loops that are over have established, *)
(* and what the present one has for the positions below at.                *)

InputNames == {graph.graph_inputs[j] : j \in DOMAIN graph.graph_inputs}

InputsSeeded(m) ==
  /\ \A j \in DOMAIN graph.graph_inputs : j < m => graph.graph_inputs[j] # Empty
  /\ seeds = {graph.graph_inputs[j] : j \in {i \in DOMAIN graph.graph_inputs : i < m}}
  /\ todo = graph.initializers

InitializersSeeded ==
  /\ NonEmptyNames(graph.graph_inputs)
  /\ Empty \notin graph.initializers \ todo
  /\ seeds = InputNames \cup (graph.initializers \ todo)

AllSeeded == SeedsNamed /\ seeds = InputNames \cup graph.initializers

(* Node i is no reason for the loop over the outputs to fail.              *)
NodeSound(i) ==
  /\ graph.nodes[i].op_type # Empty
  /\ NonEmptyNames(Outputs(graph, i))
  /\ \A x \in Refs(Outputs(graph, i)) : ~IsSeed(graph, x)

OutputsDefined(m) ==
  /\ \A i \in NodeIds(graph) : i < m => NodeSound(i)
  /\ \A a, b \in NodeIds(graph) : a < m /\ b < m => DistinctOutputs(graph, a, b)
  /\ \A x : x \in producer <=> \E i \in NodeIds(graph) : i < m /\ Produces(graph, i, x)

(* The names that count as defined are the seeds and the produced names.   *)
AllProduced ==
  /\ OutputsSound
  /\ \A x \in Name : x \in defined <=> IsProduced(graph, x) \/ IsSeed(graph, x)

InputsChecked(m) == \A v \in NodeIds(graph) : v < m => InputsDefined(graph, v)

GraphOutputsChecked(m) ==
  \A j \in DOMAIN graph.graph_outputs : j < m =>
    graph.graph_outputs[j] \in defined \ {Empty}

LoopInv ==
  /\ pc = "graph_inputs" => InputsSeeded(at)
  /\ pc = "initializers" => InitializersSeeded
  /\ pc \in {"graph_inputs", "initializers"} => producer = {}
  /\ pc = "initializers" => at = 1
  /\ pc = "node_outputs" => AllSeeded /\ OutputsDefined(at)
  /\ pc \in {"node_inputs", "graph_outputs"} => AllProduced
  /\ pc = "node_inputs" => InputsChecked(at)
  /\ pc = "graph_outputs" => InputsSound /\ GraphOutputsChecked(at)

Returning == status = "none" <=> pc # "done"

IInv == TypeOK /\ LoopInv /\ Returning /\ VerdictExact

-----------------------------------------------------------------------------
(* What the type of a graph says of its parts.                             *)
LEMMA GraphFacts ==
  ASSUME graph \in Graph
  PROVE  /\ NodeCount \in Nat /\ NodeIds(graph) = 1..NodeCount
         /\ \A v \in NodeIds(graph) : /\ Inputs(graph, v) \in Seq(Str)
                                      /\ Outputs(graph, v) \in Seq(Str)
         /\ graph.graph_inputs \in Seq(Str) /\ graph.graph_outputs \in Seq(Str)
         /\ graph.initializers \in SUBSET Str
<1>1. graph.nodes \in Seq(Node)
  BY DEF Graph
<1>2. NodeCount \in Nat /\ NodeIds(graph) = 1..NodeCount /\ \A v \in NodeIds(graph) : graph.nodes[v] \in Node
  BY <1>1 DEF NodeCount, NodeIds
<1>3. ASSUME NEW v \in NodeIds(graph)
      PROVE  Inputs(graph, v) \in Seq(Str) /\ Outputs(graph, v) \in Seq(Str)
  BY <1>2 DEF Node, Inputs, Outputs
<1> QED BY <1>2, <1>3 DEF Graph

(* A list of names has a first position after its end, and its references  *)
(* are the members of Name at its positions.                               *)
LEMMA NameLists ==
  ASSUME NEW names \in Seq(Str)
  PROVE  /\ Len(names) \in Nat /\ DOMAIN names = 1..Len(names)
         /\ \A j \in DOMAIN names : names[j] \in Str
         /\ Refs(names) \subseteq Name
         /\ NonEmptyNames(names) => Refs(names) = {names[j] : j \in DOMAIN names}
<1>1. Len(names) \in Nat /\ DOMAIN names = 1..Len(names) /\ \A j \in DOMAIN names : names[j] \in Str
  OBVIOUS
<1> QED BY <1>1 DEF Refs, Str, NonEmptyNames

(* The seeds are the graph inputs and the initializers.                    *)
LEMMA SeedNames == \A x : IsSeed(graph, x) <=> x \in InputNames \cup graph.initializers
BY DEF IsSeed, InputNames

LEMMA InitInv == Init => IInv
<1> SUFFICES ASSUME Init PROVE IInv
  OBVIOUS
<1>1. graph \in Graph
  BY GraphsAssumption DEF Init
<1>2. graph.graph_inputs \in Seq(Str)
  BY <1>1, GraphFacts
<1>3. TypeOK
  BY <1>1 DEF Init, TypeOK
<1>4. {i \in DOMAIN graph.graph_inputs : i < 1} = {}
  BY <1>2, NameLists
<1>5. LoopInv
  BY <1>4 DEF Init, LoopInv, InputsSeeded
<1> QED BY <1>3, <1>5 DEF Init, IInv, Returning, VerdictExact, Justified

-----------------------------------------------------------------------------
(* An error leaves everything but pc and status alone, so it is enough     *)
(* that the graph has the defect the error names.                          *)

LEMMA ReturnInv ==
  ASSUME IInv, NEW verdict \in Verdicts, Return(verdict), Justified(verdict)
  PROVE  IInv'
<1>1. /\ pc' = "done" /\ status' = verdict /\ graph' = graph /\ at' = at /\ todo' = todo
      /\ seeds' = seeds /\ defined' = defined /\ producer' = producer
  BY DEF Return
<1>2. TypeOK'
  BY <1>1 DEF IInv, TypeOK
<1>3. LoopInv' /\ Returning'
  BY <1>1 DEF LoopInv, Returning, Verdicts
<1>4. VerdictExact'
  BY <1>1 DEF VerdictExact, Justified, SeedsNamed, OutputsSound, InputsSound
<1> QED BY <1>2, <1>3, <1>4 DEF IInv

-----------------------------------------------------------------------------
(* Graph inputs and initializers.                                          *)

LEMMA RejectGraphInputInv == IInv /\ RejectGraphInput => IInv'
<1> SUFFICES ASSUME IInv, RejectGraphInput PROVE IInv'
  OBVIOUS
<1>1. graph.graph_inputs[at] = Empty /\ at \in DOMAIN graph.graph_inputs
  <2>1. graph.graph_inputs \in Seq(Str) /\ at \in Nat \ {0}
    BY GraphFacts DEF IInv, TypeOK
  <2> QED BY <2>1, NameLists DEF RejectGraphInput, AtGraphInput
<1>2. Justified("empty_input")
  BY <1>1 DEF Justified, NonEmptyNames
<1> QED BY <1>2, ReturnInv DEF RejectGraphInput, Verdicts

LEMMA SeedGraphInputInv == IInv /\ SeedGraphInput => IInv'
<1> SUFFICES ASSUME IInv, SeedGraphInput PROVE IInv'
  OBVIOUS
<1> USE DEF IInv
<1> DEFINE x == graph.graph_inputs[at]
<1>1. /\ graph.graph_inputs \in Seq(Str) /\ at \in Nat \ {0}
      /\ Len(graph.graph_inputs) \in Nat
      /\ DOMAIN graph.graph_inputs = 1..Len(graph.graph_inputs)
  BY GraphFacts, NameLists DEF TypeOK
<1>2. /\ at \in DOMAIN graph.graph_inputs /\ x \in Name /\ x # Empty
      /\ pc = "graph_inputs" /\ pc' = pc /\ graph' = graph /\ todo' = todo
      /\ producer' = producer /\ status' = status /\ at' = at + 1
      /\ seeds' = seeds \cup {x} /\ defined' = defined \cup {x}
  <2>1. at \in DOMAIN graph.graph_inputs
    BY <1>1 DEF SeedGraphInput, AtGraphInput
  <2> QED BY <2>1, <1>1 DEF SeedGraphInput, AtGraphInput, Str
<1>3. TypeOK'
  BY <1>1, <1>2 DEF TypeOK
<1>4. \A j \in DOMAIN graph.graph_inputs : j < at + 1 <=> j < at \/ j = at
  BY <1>1
<1>5. InputsSeeded(at)'
  <2>1. InputsSeeded(at)
    BY <1>2 DEF LoopInv
  <2> QED BY <2>1, <1>2, <1>4 DEF InputsSeeded
<1>6. LoopInv'
  BY <1>2, <1>5 DEF LoopInv
<1>7. Returning' /\ VerdictExact'
  BY <1>2 DEF Returning, VerdictExact, Justified
<1> QED BY <1>3, <1>6, <1>7

LEMMA VisitInitializerInv ==
  ASSUME IInv, NEW x \in graph.initializers, VisitInitializer(x)
  PROVE  IInv'
<1>1. CASE x = Empty
  <2>1. Return("empty_initializer")
    BY <1>1 DEF VisitInitializer
  <2>2. Justified("empty_initializer")
    BY <1>1 DEF Justified, VisitInitializer, IInv, LoopInv, InitializersSeeded
  <2> QED BY <2>1, <2>2, ReturnInv DEF Verdicts
<1>2. CASE x # Empty
  <2> USE DEF IInv
  <2>1. /\ pc = "initializers" /\ pc' = pc /\ graph' = graph /\ at' = at /\ todo' = todo \ {x}
        /\ seeds' = seeds \cup {x} /\ defined' = defined \cup {x} /\ producer' = producer
        /\ status' = status /\ x \in todo
    BY <1>2 DEF VisitInitializer
  <2>2. x \in Name
    BY <1>2, GraphFacts DEF TypeOK, Str
  <2>3. TypeOK'
    BY <2>1, <2>2 DEF TypeOK
  <2>4. InitializersSeeded'
    <3>1. InitializersSeeded
      BY <2>1 DEF LoopInv
    <3> QED BY <3>1, <2>1, <1>2 DEF InitializersSeeded, InputNames
  <2>5. LoopInv'
    BY <2>1, <2>4 DEF LoopInv
  <2>6. Returning' /\ VerdictExact'
    BY <2>1 DEF Returning, VerdictExact, Justified
  <2> QED BY <2>3, <2>5, <2>6
<1> QED BY <1>1, <1>2

LEMMA LeaveInitializersInv == IInv /\ LeaveInitializers => IInv'
<1> SUFFICES ASSUME IInv, LeaveInitializers PROVE IInv'
  OBVIOUS
<1> USE DEF IInv
<1>1. /\ pc = "initializers" /\ pc' = "node_outputs" /\ todo = {} /\ graph' = graph
      /\ at' = at /\ todo' = todo /\ seeds' = seeds /\ defined' = defined
      /\ producer' = producer /\ status' = status
  BY DEF LeaveInitializers
<1>2. TypeOK'
  BY <1>1 DEF TypeOK
<1>3. AllSeeded'
  <2>1. InitializersSeeded
    BY <1>1 DEF LoopInv
  <2> QED BY <2>1, <1>1 DEF InitializersSeeded, AllSeeded, SeedsNamed, InputNames
<1>4. OutputsDefined(at)'
  <2>1. at = 1 /\ producer = {} /\ \A i \in NodeIds(graph) : ~(i < 1)
    BY <1>1, GraphFacts DEF LoopInv, TypeOK
  <2> QED BY <2>1, <1>1 DEF OutputsDefined
<1>5. LoopInv'
  BY <1>1, <1>3, <1>4 DEF LoopInv
<1>6. Returning' /\ VerdictExact'
  BY <1>1 DEF Returning, VerdictExact, Justified
<1> QED BY <1>2, <1>5, <1>6

-----------------------------------------------------------------------------
(* Node outputs.                                                           *)

(* The first bad output decides, and it is bad for the reason given.       *)
LEMMA RejectOutputsInv == IInv /\ RejectOutputs => IInv'
<1> SUFFICES ASSUME IInv, RejectOutputs PROVE IInv'
  OBVIOUS
<1> DEFINE outs == Outputs(graph, at)
<1>1. /\ at \in NodeIds(graph) /\ outs \in Seq(Str) /\ Len(outs) \in Nat
      /\ DOMAIN outs = 1..Len(outs)
  <2>1. graph \in Graph /\ at \in Nat \ {0}
    BY DEF IInv, TypeOK
  <2>2. at \in NodeIds(graph)
    BY <2>1, GraphFacts DEF RejectOutputs, AtNode
  <2>3. outs \in Seq(Str)
    BY <2>1, <2>2, GraphFacts
  <2> QED BY <2>2, <2>3, NameLists
<1>2. AllSeeded /\ OutputsDefined(at)
  BY DEF RejectOutputs, AtNode, IInv, LoopInv
<1>3. CASE graph.nodes[at].op_type = Empty
  <2>1. Return("empty_op_type")
    BY <1>3 DEF RejectOutputs
  <2>2. Justified("empty_op_type")
    BY <1>1, <1>2, <1>3 DEF Justified, AllSeeded
  <2> QED BY <2>1, <2>2, ReturnInv DEF Verdicts
<1>4. CASE graph.nodes[at].op_type # Empty
  <2>1. PICK j \in DOMAIN outs : OutputDefect(j) # "none" /\ Return(OutputDefect(j))
    BY <1>4 DEF RejectOutputs
  <2>2. outs[j] \in Str
    BY <1>1, NameLists
  <2>3. CASE outs[j] = Empty
    <3>1. OutputDefect(j) = "empty_output"
      BY <2>3 DEF OutputDefect
    <3>2. ~NonEmptyNames(outs)
      BY <2>3 DEF NonEmptyNames
    <3>3. Justified("empty_output")
      BY <3>2, <1>1, <1>2 DEF Justified, AllSeeded
    <3> QED BY <2>1, <3>1, <3>3, ReturnInv DEF Verdicts
  <2>4. CASE outs[j] # Empty /\ outs[j] \in seeds
    <3>1. OutputDefect(j) = "redefines_seed"
      BY <2>4 DEF OutputDefect
    <3>2. outs[j] \in Refs(outs) /\ IsSeed(graph, outs[j])
      BY <2>4, <1>2, SeedNames DEF Refs, AllSeeded
    <3>3. Justified("redefines_seed")
      BY <3>2, <1>1, <1>2 DEF Justified, AllSeeded
    <3> QED BY <2>1, <3>1, <3>3, ReturnInv DEF Verdicts
  <2>5. CASE outs[j] # Empty /\ outs[j] \notin seeds
    <3>1. /\ OutputDefect(j) = "multiple"
          /\ outs[j] \in producer \/ \E i \in 1..(j - 1) : outs[i] = outs[j]
      BY <2>1, <2>5 DEF OutputDefect
    <3>2. ASSUME outs[j] \in producer PROVE ~SingleAssignment(graph)
      <4>1. PICK i \in NodeIds(graph) : i < at /\ Produces(graph, i, outs[j])
        BY <3>2, <1>2 DEF OutputsDefined
      <4>2. PICK m \in DOMAIN Outputs(graph, i) : Outputs(graph, i)[m] = outs[j]
        BY <4>1 DEF Produces, Refs
      <4>3. i # at
        BY <4>1, <1>1, GraphFacts DEF IInv, TypeOK
      <4>4. ~DistinctOutputs(graph, i, at)
        BY <4>2, <4>3, <2>5 DEF DistinctOutputs
      <4> QED BY <4>4, <1>1 DEF SingleAssignment
    <3>3. ASSUME \E i \in 1..(j - 1) : outs[i] = outs[j] PROVE ~SingleAssignment(graph)
      <4>1. PICK i \in 1..(j - 1) : outs[i] = outs[j]
        BY <3>3
      <4>2. i \in DOMAIN outs /\ i # j
        BY <4>1, <1>1
      <4>3. ~DistinctOutputs(graph, at, at)
        BY <4>1, <4>2, <2>5 DEF DistinctOutputs
      <4> QED BY <4>3, <1>1 DEF SingleAssignment
    <3>4. ~SingleAssignment(graph)
      BY <3>1, <3>2, <3>3
    <3>5. Justified("multiple")
      BY <3>4, <1>2 DEF Justified, AllSeeded
    <3> QED BY <2>1, <3>1, <3>5, ReturnInv DEF Verdicts
  <2> QED BY <2>3, <2>4, <2>5
<1> QED BY <1>3, <1>4

(* No defect: the outputs are sound, new and different.                    *)
LEMMA NoDefect ==
  ASSUME IInv, AtNode("node_outputs"), graph.nodes[at].op_type # Empty,
         \A j \in DOMAIN Outputs(graph, at) : OutputDefect(j) = "none"
  PROVE  /\ at \in NodeIds(graph) /\ NodeSound(at)
         /\ Refs(Outputs(graph, at)) \subseteq Name
         /\ DistinctOutputs(graph, at, at)
         /\ \A a \in NodeIds(graph) : a < at =>
              DistinctOutputs(graph, a, at) /\ DistinctOutputs(graph, at, a)
<1> DEFINE outs == Outputs(graph, at)
<1>1. /\ at \in NodeIds(graph) /\ outs \in Seq(Str) /\ Len(outs) \in Nat
      /\ DOMAIN outs = 1..Len(outs) /\ Refs(outs) \subseteq Name
  <2>1. graph \in Graph /\ at \in Nat \ {0}
    BY DEF IInv, TypeOK
  <2>2. at \in NodeIds(graph)
    BY <2>1, GraphFacts DEF AtNode
  <2>3. outs \in Seq(Str)
    BY <2>1, <2>2, GraphFacts
  <2> QED BY <2>2, <2>3, NameLists
<1>2. AllSeeded /\ OutputsDefined(at)
  BY DEF AtNode, IInv, LoopInv
<1>3. \A j \in DOMAIN outs :
        /\ outs[j] # Empty /\ outs[j] \notin seeds /\ outs[j] \notin producer
        /\ \A i \in 1..(j - 1) : outs[i] # outs[j]
  BY DEF OutputDefect
<1>4. NodeSound(at)
  BY <1>2, <1>3, SeedNames DEF NodeSound, NonEmptyNames, Refs, AllSeeded
<1>5. DistinctOutputs(graph, at, at)
  <2> SUFFICES ASSUME NEW i \in 1..Len(outs), NEW j \in 1..Len(outs), outs[i] = outs[j], i # j
               PROVE  FALSE
    BY <1>1 DEF DistinctOutputs
  <2>1. i \in 1..(j - 1) \/ j \in 1..(i - 1)
    BY <1>1
  <2> QED BY <2>1, <1>1, <1>3
<1>6. ASSUME NEW a \in NodeIds(graph), a < at,
             NEW i \in DOMAIN Outputs(graph, a), NEW j \in DOMAIN outs,
             Outputs(graph, a)[i] = outs[j]
      PROVE  FALSE
  <2>1. Produces(graph, a, outs[j])
    BY <1>3, <1>6 DEF Produces, Refs
  <2> QED BY <2>1, <1>2, <1>3, <1>6 DEF OutputsDefined
<1>7. \A a \in NodeIds(graph) : a < at =>
        DistinctOutputs(graph, a, at) /\ DistinctOutputs(graph, at, a)
  BY <1>6 DEF DistinctOutputs
<1> QED BY <1>1, <1>4, <1>5, <1>7

LEMMA DefineOutputsInv == IInv /\ DefineOutputs => IInv'
<1> SUFFICES ASSUME IInv, DefineOutputs PROVE IInv'
  OBVIOUS
<1>1. /\ at \in NodeIds(graph) /\ NodeSound(at)
      /\ Refs(Outputs(graph, at)) \subseteq Name
      /\ DistinctOutputs(graph, at, at)
      /\ \A a \in NodeIds(graph) : a < at =>
           DistinctOutputs(graph, a, at) /\ DistinctOutputs(graph, at, a)
  BY NoDefect DEF DefineOutputs
<1> USE DEF IInv
<1>2. /\ pc = "node_outputs" /\ pc' = pc /\ graph' = graph /\ at' = at + 1 /\ todo' = todo
      /\ producer' = producer \cup Refs(Outputs(graph, at)) /\ seeds' = seeds
      /\ defined' = defined \cup Refs(Outputs(graph, at)) /\ status' = status
  BY DEF DefineOutputs, AtNode
<1>3. \A i \in NodeIds(graph) : i < at + 1 <=> i < at \/ i = at
  BY <1>1, GraphFacts DEF TypeOK
<1>4. TypeOK'
  BY <1>1, <1>2 DEF TypeOK
<1>5. AllSeeded /\ OutputsDefined(at)
  BY <1>2 DEF LoopInv
<1>6. AllSeeded'
  BY <1>2, <1>5 DEF AllSeeded, SeedsNamed, InputNames
<1>7. OutputsDefined(at)'
  <2>1. \A i \in NodeIds(graph) : i < at + 1 => NodeSound(i)
    BY <1>1, <1>3, <1>5 DEF OutputsDefined
  <2>2. \A a, b \in NodeIds(graph) : a < at + 1 /\ b < at + 1 => DistinctOutputs(graph, a, b)
    BY <1>1, <1>3, <1>5 DEF OutputsDefined
  <2>3. \A x : x \in producer' <=> \E i \in NodeIds(graph) : i < at + 1 /\ Produces(graph, i, x)
    BY <1>1, <1>2, <1>3, <1>5 DEF OutputsDefined, Produces
  <2> QED BY <2>1, <2>2, <2>3, <1>2 DEF OutputsDefined, NodeSound
<1>8. LoopInv'
  BY <1>2, <1>6, <1>7 DEF LoopInv
<1>9. Returning' /\ VerdictExact'
  BY <1>2 DEF Returning, VerdictExact, Justified
<1> QED BY <1>4, <1>8, <1>9

-----------------------------------------------------------------------------
(* Node inputs and graph outputs.                                          *)

(* A loop over a vector is left with what it has for all positions.        *)
LEMMA LeaveVectorLoopInv == IInv /\ LeaveVectorLoop => IInv'
<1> SUFFICES ASSUME IInv, LeaveVectorLoop PROVE IInv'
  OBVIOUS
<1> USE DEF IInv
<1>1. /\ graph' = graph /\ at' = 1 /\ todo' = todo /\ seeds' = seeds /\ defined' = defined
      /\ producer' = producer /\ status' = status
      /\ at \in Nat \ {0} /\ NodeCount \in Nat /\ NodeIds(graph) = 1..NodeCount
      /\ graph.graph_inputs \in Seq(Str) /\ graph.graph_outputs \in Seq(Str)
  <2>1. graph \in Graph /\ at \in Nat \ {0}
    BY DEF TypeOK
  <2>2. /\ graph' = graph /\ at' = 1 /\ todo' = todo /\ seeds' = seeds /\ defined' = defined
        /\ producer' = producer /\ status' = status
    BY DEF LeaveVectorLoop, LeaveLoop
  <2> QED BY <2>1, <2>2, GraphFacts
<1>2. VerdictExact'
  BY <1>1 DEF VerdictExact, Justified, Returning, LeaveVectorLoop, LeaveLoop
<1>3. CASE LeaveLoop("graph_inputs", Len(graph.graph_inputs), "initializers")
  <2>1. pc = "graph_inputs" /\ pc' = "initializers" /\ at > Len(graph.graph_inputs)
    BY <1>3 DEF LeaveLoop
  <2>2. \A j \in DOMAIN graph.graph_inputs : j < at
    BY <2>1, <1>1, NameLists
  <2>3. InitializersSeeded'
    <3>1. InputsSeeded(at)
      BY <2>1 DEF LoopInv
    <3> QED BY <3>1, <2>2, <1>1 DEF InputsSeeded, InitializersSeeded, NonEmptyNames, InputNames
  <2>4. TypeOK'
    BY <2>1, <1>1 DEF TypeOK
  <2> QED BY <2>1, <2>3, <2>4, <1>1, <1>2 DEF LoopInv, Returning
<1>4. CASE LeaveLoop("node_outputs", NodeCount, "node_inputs")
  <2>1. pc = "node_outputs" /\ pc' = "node_inputs" /\ at > NodeCount
    BY <1>4 DEF LeaveLoop
  <2>2. AllSeeded /\ OutputsDefined(at) /\ \A i \in NodeIds(graph) : i < at
    BY <2>1, <1>1 DEF LoopInv
  <2>3. OutputsSound
    BY <2>2 DEF OutputsSound, OutputsDefined, AllSeeded, SingleAssignment, NodeSound
  <2>4. \A x : x \in producer <=> IsProduced(graph, x)
    BY <2>2 DEF OutputsDefined, IsProduced
  <2>5. \A x : x \in seeds <=> IsSeed(graph, x)
    BY <2>2, SeedNames DEF AllSeeded
  <2>6. AllProduced
    BY <2>3, <2>4, <2>5 DEF AllProduced, TypeOK
  <2>7. AllProduced'
    BY <2>6, <1>1 DEF AllProduced, OutputsSound, SeedsNamed
  <2>8. InputsChecked(at)'
    <3>1. \A v \in NodeIds(graph) : ~(v < 1)
      BY <1>1
    <3> QED BY <3>1, <1>1 DEF InputsChecked
  <2>9. TypeOK'
    BY <2>1, <1>1 DEF TypeOK
  <2> QED BY <2>1, <2>7, <2>8, <2>9, <1>1, <1>2 DEF LoopInv, Returning
<1>5. CASE LeaveLoop("node_inputs", NodeCount, "graph_outputs")
  <2>1. pc = "node_inputs" /\ pc' = "graph_outputs" /\ at > NodeCount
    BY <1>5 DEF LeaveLoop
  <2>2. AllProduced /\ InputsChecked(at) /\ \A i \in NodeIds(graph) : i < at
    BY <2>1, <1>1 DEF LoopInv
  <2>3. AllProduced' /\ InputsSound'
    BY <2>2, <1>1 DEF AllProduced, OutputsSound, SeedsNamed, InputsSound, InputsChecked
  <2>4. GraphOutputsChecked(at)'
    <3>1. \A j \in DOMAIN graph.graph_outputs : ~(j < 1)
      BY <1>1, NameLists
    <3> QED BY <3>1, <1>1 DEF GraphOutputsChecked
  <2>5. TypeOK'
    BY <2>1, <1>1 DEF TypeOK
  <2> QED BY <2>1, <2>3, <2>4, <2>5, <1>1, <1>2 DEF LoopInv, Returning
<1> QED BY <1>3, <1>4, <1>5 DEF LeaveVectorLoop

LEMMA RejectInputsInv == IInv /\ RejectInputs => IInv'
<1> SUFFICES ASSUME IInv, RejectInputs PROVE IInv'
  OBVIOUS
<1>1. /\ at \in NodeIds(graph) /\ Inputs(graph, at) \in Seq(Str)
      /\ Refs(Inputs(graph, at)) \subseteq Name
  <2>1. graph \in Graph /\ at \in NodeIds(graph)
    BY GraphFacts DEF IInv, TypeOK, RejectInputs, AtNode
  <2> QED BY <2>1, GraphFacts, NameLists
<1>2. PICK x \in Refs(Inputs(graph, at)) : x \notin defined
  BY DEF RejectInputs
<1>3. AllProduced
  BY DEF RejectInputs, AtNode, IInv, LoopInv
<1>4. ~InputsDefined(graph, at)
  BY <1>1, <1>2, <1>3 DEF AllProduced, InputsDefined
<1>5. Justified("undefined")
  BY <1>1, <1>3, <1>4 DEF Justified, AllProduced
<1> QED BY <1>5, ReturnInv DEF RejectInputs, Verdicts

LEMMA AcceptInputsInv == IInv /\ AcceptInputs => IInv'
<1> SUFFICES ASSUME IInv, AcceptInputs PROVE IInv'
  OBVIOUS
<1> USE DEF IInv
<1>1. /\ pc = "node_inputs" /\ pc' = pc /\ graph' = graph /\ at' = at + 1 /\ todo' = todo
      /\ seeds' = seeds /\ defined' = defined /\ producer' = producer /\ status' = status
      /\ Refs(Inputs(graph, at)) \subseteq defined
  BY DEF AcceptInputs, AtNode
<1>2. /\ graph \in Graph /\ at \in NodeIds(graph)
      /\ \A i \in NodeIds(graph) : i < at + 1 <=> i < at \/ i = at
  BY GraphFacts DEF TypeOK, AcceptInputs, AtNode
<1>3. Refs(Inputs(graph, at)) \subseteq Name
  BY <1>2, GraphFacts, NameLists
<1>4. TypeOK'
  BY <1>1 DEF TypeOK
<1>5. AllProduced /\ InputsChecked(at)
  BY <1>1 DEF LoopInv
<1>6. AllProduced'
  BY <1>1, <1>5 DEF AllProduced, OutputsSound, SeedsNamed
<1>7. InputsDefined(graph, at)
  BY <1>1, <1>3, <1>5 DEF AllProduced, InputsDefined
<1>8. InputsChecked(at)'
  BY <1>1, <1>2, <1>5, <1>7 DEF InputsChecked
<1> QED BY <1>1, <1>4, <1>6, <1>8 DEF LoopInv, Returning, VerdictExact, Justified

LEMMA RejectGraphOutputInv == IInv /\ RejectGraphOutput => IInv'
<1> SUFFICES ASSUME IInv, RejectGraphOutput PROVE IInv'
  OBVIOUS
<1> DEFINE x == graph.graph_outputs[at]
<1>1. /\ at \in DOMAIN graph.graph_outputs /\ x \in Str
      /\ x \notin defined \ {Empty} /\ AllProduced /\ InputsSound
  <2>1. graph.graph_outputs \in Seq(Str) /\ at \in Nat \ {0}
    BY GraphFacts DEF IInv, TypeOK
  <2> QED BY <2>1, NameLists DEF RejectGraphOutput, AtGraphOutput, IInv, LoopInv
<1>2. CASE x = Empty
  <2>1. Return("empty_graph_output")
    BY <1>2 DEF RejectGraphOutput
  <2>2. Justified("empty_graph_output")
    BY <1>1, <1>2 DEF Justified, NonEmptyNames
  <2> QED BY <2>1, <2>2, ReturnInv DEF Verdicts
<1>3. CASE x # Empty
  <2>1. Return("undefined_graph_output")
    BY <1>3 DEF RejectGraphOutput
  <2>2. x \in Name /\ x \in Refs(graph.graph_outputs) /\ x \notin defined
    BY <1>1, <1>3 DEF Str, Refs
  <2>3. ~IsProduced(graph, x) /\ ~IsSeed(graph, x)
    BY <1>1, <2>2 DEF AllProduced
  <2>4. Justified("undefined_graph_output")
    BY <1>1, <2>2, <2>3 DEF Justified
  <2> QED BY <2>1, <2>4, ReturnInv DEF Verdicts
<1> QED BY <1>2, <1>3

LEMMA AcceptGraphOutputInv == IInv /\ AcceptGraphOutput => IInv'
<1> SUFFICES ASSUME IInv, AcceptGraphOutput PROVE IInv'
  OBVIOUS
<1> USE DEF IInv
<1>1. /\ pc = "graph_outputs" /\ pc' = pc /\ graph' = graph /\ at' = at + 1 /\ todo' = todo
      /\ seeds' = seeds /\ defined' = defined /\ producer' = producer /\ status' = status
      /\ graph.graph_outputs[at] \in defined \ {Empty}
  BY DEF AcceptGraphOutput, AtGraphOutput
<1>2. \A j \in DOMAIN graph.graph_outputs : j < at + 1 => j < at \/ j = at
  BY GraphFacts, NameLists DEF TypeOK
<1>3. TypeOK'
  BY <1>1 DEF TypeOK
<1>4. AllProduced /\ InputsSound /\ GraphOutputsChecked(at)
  BY <1>1 DEF LoopInv
<1>5. AllProduced' /\ InputsSound'
  BY <1>1, <1>4 DEF AllProduced, InputsSound, OutputsSound, SeedsNamed
<1>6. GraphOutputsChecked(at)'
  BY <1>1, <1>2, <1>4 DEF GraphOutputsChecked
<1> QED BY <1>1, <1>3, <1>5, <1>6 DEF LoopInv, Returning, VerdictExact, Justified

(* All loops are over: the graph is what validate.h asks for.              *)
LEMMA FinishInv == IInv /\ Finish => IInv'
<1> SUFFICES ASSUME IInv, Finish PROVE IInv'
  OBVIOUS
<1>1. AllProduced /\ InputsSound /\ GraphOutputsChecked(at)
  BY DEF Finish, IInv, LoopInv
<1>2. graph.graph_outputs \in Seq(Str) /\ at \in Nat
  BY GraphFacts DEF IInv, TypeOK
<1>3. \A j \in DOMAIN graph.graph_outputs : graph.graph_outputs[j] \in defined \ {Empty}
  <2>1. \A j \in DOMAIN graph.graph_outputs : j < at
    BY <1>2, NameLists DEF Finish
  <2> QED BY <2>1, <1>1 DEF GraphOutputsChecked
<1>4. NonEmptyNames(graph.graph_outputs)
  BY <1>3 DEF NonEmptyNames
<1>5. \A x \in Refs(graph.graph_outputs) : IsProduced(graph, x) \/ IsSeed(graph, x)
  BY <1>1, <1>2, <1>3, NameLists DEF AllProduced, Refs
<1>6. WellFormed(graph)
  BY <1>1, <1>4, <1>5 DEF WellFormed, InputsSound, OutputsSound, SeedsNamed
<1>7. Justified("ok")
  BY <1>6 DEF Justified
<1> QED BY <1>7, ReturnInv DEF Finish, Verdicts

LEMMA StutterInv == IInv /\ UNCHANGED vars => IInv'
BY DEF IInv, TypeOK, LoopInv, InputsSeeded, InitializersSeeded, AllSeeded, OutputsDefined,
       AllProduced, InputsChecked, GraphOutputsChecked, NodeSound, SeedsNamed, InputNames,
       OutputsSound, InputsSound, Returning, VerdictExact, Justified, vars

-----------------------------------------------------------------------------
(* The invariant is inductive.                                             *)

LEMMA NextInv == IInv /\ [Next]_vars => IInv'
<1> SUFFICES ASSUME IInv, [Next]_vars PROVE IInv'
  OBVIOUS
<1>1. CASE RejectGraphInput \/ SeedGraphInput
  BY <1>1, RejectGraphInputInv, SeedGraphInputInv
<1>2. CASE \E x \in graph.initializers : VisitInitializer(x)
  BY <1>2, VisitInitializerInv
<1>3. CASE LeaveInitializers \/ LeaveVectorLoop
  BY <1>3, LeaveInitializersInv, LeaveVectorLoopInv
<1>4. CASE RejectOutputs \/ DefineOutputs
  BY <1>4, RejectOutputsInv, DefineOutputsInv
<1>5. CASE RejectInputs \/ AcceptInputs
  BY <1>5, RejectInputsInv, AcceptInputsInv
<1>6. CASE RejectGraphOutput \/ AcceptGraphOutput
  BY <1>6, RejectGraphOutputInv, AcceptGraphOutputInv
<1>7. CASE Finish
  BY <1>7, FinishInv
<1>8. CASE Returned \/ UNCHANGED vars
  BY <1>8, StutterInv DEF Returned
<1> QED BY <1>1, <1>2, <1>3, <1>4, <1>5, <1>6, <1>7, <1>8 DEF Next

LEMMA Inductive == Spec => []IInv
<1>1. Init => IInv
  BY InitInv
<1>2. IInv /\ [Next]_vars => IInv'
  BY NextInv
<1> QED BY <1>1, <1>2, PTL DEF Spec

(* For a caller: an error is a sign that the graph is not well-formed.     *)
LEMMA ErrorsAreDefects ==
  ASSUME IInv
  PROVE  /\ status = "ok" => WellFormed(graph)
         /\ status \notin {"none", "ok"} => ~WellFormed(graph)
BY DEF IInv, TypeOK, Verdicts, VerdictExact, Justified, WellFormed, SeedsNamed, OutputsSound,
       InputsSound

-----------------------------------------------------------------------------
(* The results, for every set of graphs.                                   *)

(* ValidateStructure keeps its variables in their types, and what it takes *)
(* for defined is the seeds and the produced names, never more or less.    *)
THEOREM TypeCorrect == Spec => []TypeOK
<1>1. IInv => TypeOK
  BY DEF IInv
<1> QED BY <1>1, Inductive, PTL

(* It succeeds only on well-formed graphs, and each error names a defect   *)
(* of the graph that no earlier loop looks for: a call that returns on a   *)
(* well-formed graph succeeds, in whatever order the hash map of the       *)
(* initializers is traversed.                                              *)
THEOREM VerdictsExact == Spec => []VerdictExact
<1>1. IInv => VerdictExact
  BY DEF IInv
<1> QED BY <1>1, Inductive, PTL
=============================================================================
