---------------------------- MODULE MCTensorSize ----------------------------
(***************************************************************************)
(* Instances of TensorSize for TLC: words of six bits, and dims on both    *)
(* sides of the quotients 63/4, 63/8 and of the square root of 63.         *)
(***************************************************************************)
EXTENDS TensorSize

Lists(S) == {<<>>} \cup {<<a>> : a \in S} \cup {<<a, b>> : a, b \in S}
                   \cup {<<a, b, c>> : a, b, c \in S}

MCDims == Lists({0, 1, 2, 3, 7, 8, 9, 15, 16, 21, 32, 63})
MCSignedDims == Lists({-32, -1, 0, 2, 7, 8, 31})
=============================================================================
