--------------------------- MODULE MCLoadPipeline ---------------------------
(***************************************************************************)
(* Instances of LoadPipeline for TLC: files of up to three bytes of two    *)
(* values.  Up to two bytes protobuf takes; they are one string that does  *)
(* not parse and models: empty, sound with the nodes in order and in       *)
(* reverse, cyclic, without an operator, with an unnamed initializer.      *)
(***************************************************************************)
EXTENDS LoadPipeline

CONSTANTS x, y, w

Node2(in, out) ==
  [op_type |-> w, domain |-> "", attribute |-> <<>>, input |-> <<in>>, output |-> <<out>>]

With(nodes) ==
  [has_graph |-> TRUE, opset_import |-> <<[domain |-> "", version |-> MinOpset]>>,
   initializer |-> <<>>, input |-> <<[name |-> w, has_shape |-> FALSE, dims |-> <<>>]>>,
   output |-> <<>>, value_info |-> <<>>, node |-> nodes]

MCParses(c) == c # <<0>>

MCModelOf(c) ==
  CASE c = <<>> -> [With(<<>>) EXCEPT !.has_graph = FALSE]
    [] c = <<1>> -> With(<<Node2(x, y), Node2(w, x)>>)
    [] c = <<1, 1>> -> With(<<Node2(w, x), Node2(x, y)>>)
    [] c = <<1, 0>> -> With(<<Node2(x, y), Node2(y, x)>>)
    [] c = <<0, 1>> -> With(<<[Node2(w, x) EXCEPT !.op_type = Empty]>>)
    [] OTHER -> [With(<<>>) EXCEPT !.initializer = <<[name |-> Empty, tensor |-> "ok"]>>]
=============================================================================
