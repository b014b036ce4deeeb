--------------------------- MODULE MCPrepareGraph ---------------------------
(***************************************************************************)
(* Instances of PrepareGraph for TLC: three well-named nodes in every      *)
(* one-input wiring (self-loops and cycles included), next to graphs with  *)
(* one naming defect each; the owner may go from any graph to any other.   *)
(***************************************************************************)
EXTENDS PrepareGraph

CONSTANTS t1, t2, t3, seed   \* value names

Op(ins, outs) == [op_type |-> seed, inputs |-> ins, outputs |-> outs]

Ir(nodes, inits, gins, gouts) ==
  [nodes |-> nodes, initializers |-> inits, graph_inputs |-> gins, graph_outputs |-> gouts]

Choices == {<<>>, <<seed>>, <<t1>>, <<t2>>, <<t3>>}

Wirings ==
  {Ir(<<Op(i1, <<t1>>), Op(i2, <<t2>>), Op(i3, <<t3>>)>>, {}, <<seed>>, <<t3>>) :
     i1, i2, i3 \in Choices}

TwoNodes == {Ir(<<Op(<<t2, seed>>, <<t1>>), Op(i, o)>>, inits, <<seed>>, gouts) :
               i \in {<<>>, <<t1>>, <<t3>>},
               o \in {<<t2>>, <<t1>>, <<seed>>, <<Empty>>},
               inits \in {{}, {t2}},
               gouts \in {<<t2>>, <<t3>>}}

MCGraphs == Wirings \cup TwoNodes \cup {Ir(<<>>, {}, <<>>, <<>>)}
=============================================================================
