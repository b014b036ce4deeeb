----------------------------- MODULE MCValidate -----------------------------
(***************************************************************************)
(* Instances of Validate for TLC: up to two nodes, with every defect the   *)
(* passes look for, alone and in combination.                              *)
(***************************************************************************)
EXTENDS Validate

CONSTANTS a, b, s, w   \* value names

MCNodes ==
  {[op_type |-> a, inputs |-> i, outputs |-> o] :
     i \in {<<>>, <<a>>, <<s>>, <<Empty, b>>},
     o \in {<<>>, <<a>>, <<b, a>>, <<b, Empty>>, <<a, a>>}}
  \cup {[op_type |-> Empty, inputs |-> <<>>, outputs |-> <<b>>]}

NodeLists == {<<>>} \cup {<<m>> : m \in MCNodes} \cup {<<m, n>> : m, n \in MCNodes}

MCGraphs ==
  {[nodes |-> nodes, initializers |-> inits,
    graph_inputs |-> gins, graph_outputs |-> gouts] :
     nodes \in NodeLists,
     inits \in {{}, {s}, {w, b}, {w, Empty}},
     gins \in {<<>>, <<s>>, <<s, Empty>>, <<b>>},
     gouts \in {<<>>, <<a>>, <<s, Empty>>, <<w, b>>}}
=============================================================================
