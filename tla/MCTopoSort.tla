----------------------------- MODULE MCTopoSort -----------------------------
(***************************************************************************)
(* Instances of TopoSort for TLC.                                          *)
(***************************************************************************)
EXTENDS TopoSort

CONSTANTS t1, t2, t3, t4   \* value names

-----------------------------------------------------------------------------
(* Wiring: four nodes, node i produces the i-th name and consumes any set  *)
(* of the names the other nodes produce: every loop-free digraph.          *)
Tensor == <<t1, t2, t3, t4>>

(* The members of a subset of the first four tensors, in index order.      *)
Listed(ids) ==
  LET in(i) == IF i \in ids THEN <<Tensor[i]>> ELSE <<>>
  IN  in(1) \o in(2) \o in(3) \o in(4)

Wired(i, ids) == [op_type |-> t1, inputs |-> Listed(ids), outputs |-> <<Tensor[i]>>]

Bare(nodes, inits, gins) ==
  [nodes |-> nodes, initializers |-> inits, graph_inputs |-> gins, graph_outputs |-> <<>>]

Digraphs ==
  {Bare([i \in 1..4 |-> Wired(i, pred[i])], {}, <<>>) :
     pred \in {f \in [1..4 -> SUBSET (1..4)] : \A i \in 1..4 : i \notin f[i]}}

-----------------------------------------------------------------------------
(* Naming: up to two nodes whose lists hold produced, seeded, undefined    *)
(* and empty names, with repetitions.                                      *)
Lists == {<<>>} \cup {<<x>> : x \in {t1, t2, t3}}
              \cup {<<x, y>> : x \in {t1, t3}, y \in {t1, t2, t3, Empty}}

OutLists == {<<>>, <<t1>>, <<t2>>, <<t1, t2>>, <<t1, t1>>, <<Empty, t2>>}

NamedNodes == {[op_type |-> t1, inputs |-> i, outputs |-> o] : i \in Lists, o \in OutLists}

Seedings == {<<{}, <<>> >>, <<{t3}, <<>> >>, <<{}, <<t1, t3>> >>}

Namings ==
  {Bare(nodes, s[1], s[2]) : s \in Seedings,
     nodes \in {<<>>} \cup {<<m>> : m \in NamedNodes}
                   \cup {<<m, n>> : m, n \in NamedNodes}}

MCGraphs == Digraphs \cup Namings

-----------------------------------------------------------------------------
(* The usual reading of a cycle: a path of edges from a node to itself.    *)
(* Paths of up to four edges are all that four nodes need.                 *)
Doubled(R, V) == R \cup {e \in V \X V : \E m \in V : <<e[1], m>> \in R /\ <<m, e[2]>> \in R}

Paths(g) ==
  LET V == NodeIds(g)
  IN  Doubled(Doubled({e \in V \X V : Edge(g, e[1], e[2])}, V), V)

OnCycle(g, v) == <<v, v>> \in Paths(g)

(* The traps of GraphIR, by which LeftoverExact and VerdictExact speak of  *)
(* cycles, are the cycles: there is one exactly when a path leads from a   *)
(* node to itself, and together they are what is on such a path or behind. *)
ASSUME TrapsAreCycles ==
  \A g \in MCGraphs :
    /\ HasCycle(g) = \E v \in NodeIds(g) : OnCycle(g, v)
    /\ UNION {S \in SUBSET NodeIds(g) : Trap(g, S)} =
         {v \in NodeIds(g) : \E c \in NodeIds(g) : OnCycle(g, c) /\ (c = v \/ <<c, v>> \in Paths(g))}
=============================================================================
