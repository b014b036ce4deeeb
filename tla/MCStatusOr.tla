----------------------------- MODULE MCStatusOr -----------------------------
(***************************************************************************)
(* The instance of StatusOr for TLC: three objects, two values and the     *)
(* codes kOk, kRuntime and one more.                                       *)
(***************************************************************************)
EXTENDS StatusOr, TLC

(* No definition tells one object, or one value, from another.             *)
ObjectsAndValues == Permutations(Object) \cup Permutations(Value)
=============================================================================
