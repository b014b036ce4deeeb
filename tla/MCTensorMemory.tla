--------------------------- MODULE MCTensorMemory ---------------------------
(***************************************************************************)
(* Instances of TensorMemory for TLC.  Handles are interchangeable, and so *)
(* are blocks; the properties are invariants, for which symmetry is sound. *)
(***************************************************************************)
EXTENDS TensorMemory, TLC

CONSTANTS h1, h2, h3, b1, b2, blob

Interchangeable == Permutations(Handle) \cup Permutations(Block)
=============================================================================
