-------------------------- MODULE MCTensorFromProto --------------------------
(***************************************************************************)
(* Instances of TensorFromProto for TLC: words of six bits, shapes on both *)
(* sides of the overflow limits, payloads that are right, short, long,     *)
(* missing, of the wrong field or of several fields.                       *)
(***************************************************************************)
EXTENDS TensorFromProto

Lists(S) == {<<>>} \cup {<<a>> : a \in S} \cup {<<a, b>> : a, b \in S}

MCSignedDims == Lists({-1, 0, 1, 2, 3, 8, 16, 31}) \cup {<<8, 8, 0>>, <<0, 31, 31>>}

Lengths(t, raws, floats, ints) ==
  [data_type : {t}, raw_data : raws, float_data : floats, int64_data : ints]

MCPayloads ==
  Lengths("FLOAT", {0, 4, 8, 12, 24}, {0, 1, 2, 6}, {0, 1})
  \cup Lengths("INT64", {0, 4, 8, 16, 24}, {0, 1}, {0, 1, 2, 3, 6})
  \cup Lengths("OTHER", {0, 4}, {0}, {0})
=============================================================================
