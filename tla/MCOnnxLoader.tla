---------------------------- MODULE MCOnnxLoader ----------------------------
(***************************************************************************)
(* Instances of OnnxLoader for TLC: a sound model, and families of models  *)
(* that vary one or two of its parts through every choice of a small set,  *)
(* defects included.                                                       *)
(***************************************************************************)
EXTENDS OnnxLoader

CONSTANTS x, y, w   \* value names; w is an operator as well

UpTo(n, S) == UNION {[1..k -> S] : k \in 0..n}

Import(domain, version) == [domain |-> domain, version |-> version]
Weight(name, tensor) == [name |-> name, tensor |-> tensor]
Value(name, dims) == [name |-> name, has_shape |-> TRUE, dims |-> dims]
Untyped(name) == [name |-> name, has_shape |-> FALSE, dims |-> <<>>]
Attr(type, has, tensor) == [type |-> type, has |-> has, tensor |-> tensor]
Op(op_type, domain, attributes) ==
  [op_type |-> op_type, domain |-> domain, attribute |-> attributes,
   input |-> <<x>>, output |-> <<y>>]

Base == [has_graph |-> TRUE, opset_import |-> <<Import("", MinOpset)>>,
         initializer |-> <<Weight(w, "ok")>>, input |-> <<Value(x, <<2>>)>>,
         output |-> <<Untyped(y)>>, value_info |-> <<>>,
         node |-> <<Op(w, "", <<>>)>>]

Imports == [domain : Domain, version : {MinOpset - 1, MinOpset, MaxOpset}]
Weights == {Weight(n, t) : n \in {Empty, x, w}, t \in TensorVerdict}
Values == {Value(n, d) : n \in {x, y}, d \in {<<>>, <<3, 4>>}} \cup {Untyped(x)}
BadDims == UpTo(2, {2, -1, Symbolic, Missing})
Attributes ==
  {Attr(t, {}, "bad_tensor") : t \in {"TENSOR", "FLOAT", "INT", "INTS", "STRING", "OTHER"}}
    \cup {Attr("TENSOR", {"t"}, "ok")}
    \cup {Attr("UNDEFINED", has, v) : has \in SUBSET Field, v \in TensorVerdict}
AttributePairs == {a \in Attributes : a.type # "UNDEFINED" \/ a.has \in {{}, {"t"}, {"i"}}}
Ops == {Op(o, d, <<>>) : o \in {Empty, w}, d \in {"", "ai.onnx", "other"}}

MCModels ==
  {[Base EXCEPT !.has_graph = b, !.opset_import = i] : b \in BOOLEAN, i \in UpTo(2, Imports)}
  \cup {[Base EXCEPT !.opset_import = [j \in 1..3 |-> i[j]]] :
          i \in [1..3 -> {Import("", MinOpset), Import("ai.onnx", MinOpset), Import("", MaxOpset)}]}
  \cup {[Base EXCEPT !.initializer = i] : i \in UpTo(2, Weights)}
  \cup {[Base EXCEPT !.input = i, !.output = o, !.value_info = v] :
          i \in UpTo(2, Values), o \in UpTo(1, Values), v \in UpTo(1, Values)}
  \cup {[Base EXCEPT !.input = <<Value(x, a)>>, !.value_info = <<Value(y, b)>>] :
          a, b \in BadDims}
  \cup {[Base EXCEPT !.output = <<Value(y, a)>>] : a \in BadDims}
  \cup {[Base EXCEPT !.node = <<Op(w, "", <<a, b>>)>>] : a, b \in AttributePairs}
  \cup {[Base EXCEPT !.node = <<Op(w, "", <<a>>)>>] : a \in Attributes}
  \cup {[Base EXCEPT !.node = n] : n \in UpTo(2, Ops)}
  \cup {[Base EXCEPT !.initializer = <<i>>, !.output = <<Value(y, d)>>, !.node = <<n>>] :
          i \in Weights, d \in {<<2>>, <<Symbolic>>}, n \in Ops}
=============================================================================
