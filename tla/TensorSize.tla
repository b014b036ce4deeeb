----------------------------- MODULE TensorSize -----------------------------
(***************************************************************************)
(* How the size of a tensor is computed on the way to a buffer             *)
(* (src/tensor.cpp): FromSignedDims, the loop of NumElementsChecked and    *)
(* ComputeNBytes, with the multiplications done on machine words.          *)
(*                                                                         *)
(* A behaviour sizes one shape.  It enters with the signed dims of a model *)
(* file or with the unsigned dims of a TensorShape built in place.  Create *)
(* and FromHostBlob run the counting loop twice (ValidateShape, then       *)
(* ComputeNBytes) on the same dims; the second pass repeats the first.     *)
(* uint64_t and size_t have the same width.                                *)
(***************************************************************************)
EXTENDS Integers, Sequences

CONSTANTS
  MaxWord,     \* the greatest value of an unsigned word, 2^64 - 1 in the code
  SignedDims,  \* lists of dims as int64_t that a model may hold
  Dims         \* lists of dims as uint64_t that a TensorShape may be built from

ASSUME MaxWordAssumption == MaxWord \in Nat \ {0}
ASSUME DimsAssumption ==
  /\ SignedDims \subseteq Seq(Int)
  /\ Dims \subseteq Seq(0..MaxWord)
  /\ \A d \in SignedDims : \A j \in DOMAIN d : d[j] <= MaxWord

DataType == {"kFloat32", "kInt64"}

SizeOfDataType(dt) == IF dt = "kFloat32" THEN 4 ELSE 8

VARIABLES dims, dtype, pc, i, product, nbytes, status

vars == <<dims, dtype, pc, i, product, nbytes, status>>

Wrap(n) == n % (MaxWord + 1)

Init ==
  /\ dtype \in DataType
  /\ \/ dims \in SignedDims /\ pc = "convert"
     \/ dims \in Dims /\ pc = "count"
  /\ i = 1
  /\ product = 1
  /\ nbytes = 0
  /\ status = "none"

Return(verdict) == pc' = "done" /\ status' = verdict

-----------------------------------------------------------------------------
(* FromSignedDims: the first negative dim ends the conversion.             *)
RejectNegative ==
  /\ pc = "convert"
  /\ i <= Len(dims)
  /\ dims[i] < 0
  /\ Return("negative_dim")
  /\ UNCHANGED <<dims, dtype, i, product, nbytes>>

ConvertDim ==
  /\ pc = "convert"
  /\ i <= Len(dims)
  /\ dims[i] >= 0
  /\ i' = i + 1
  /\ UNCHANGED <<dims, dtype, pc, product, nbytes, status>>

Converted ==
  /\ pc = "convert"
  /\ i > Len(dims)
  /\ pc' = "count"
  /\ i' = 1
  /\ UNCHANGED <<dims, dtype, product, nbytes, status>>

-----------------------------------------------------------------------------
(* NumElementsChecked: a zero dim answers at once, whatever follows it.    *)
ZeroDim ==
  /\ pc = "count"
  /\ i <= Len(dims)
  /\ dims[i] = 0
  /\ product' = 0
  /\ pc' = "bytes"
  /\ UNCHANGED <<dims, dtype, i, nbytes, status>>

(* Mutant: a product that just fits is refused.                            *)
ReachesLimit(d) == product >= MaxWord \div d

Overflows(d) == product > MaxWord \div d

RejectCount ==
  /\ pc = "count"
  /\ i <= Len(dims)
  /\ dims[i] # 0
  /\ Overflows(dims[i])
  /\ Return("elements_overflow")
  /\ UNCHANGED <<dims, dtype, i, product, nbytes>>

(* Mutant: the product is tested after the multiplication.                 *)
MultiplyUnchecked ==
  /\ pc = "count"
  /\ i <= Len(dims)
  /\ dims[i] # 0
  /\ Wrap(product * dims[i]) >= product
  /\ product' = Wrap(product * dims[i])
  /\ i' = i + 1
  /\ UNCHANGED <<dims, dtype, pc, nbytes, status>>

Multiply ==
  /\ pc = "count"
  /\ i <= Len(dims)
  /\ dims[i] # 0
  /\ ~Overflows(dims[i])
  /\ product' = Wrap(product * dims[i])
  /\ i' = i + 1
  /\ UNCHANGED <<dims, dtype, pc, nbytes, status>>

Counted ==
  /\ pc = "count"
  /\ i > Len(dims)
  /\ pc' = "bytes"
  /\ UNCHANGED <<dims, dtype, i, product, nbytes, status>>

-----------------------------------------------------------------------------
(* ComputeNBytes: the count times the element size must fit in size_t.     *)
RejectBytes ==
  /\ pc = "bytes"
  /\ product > MaxWord \div SizeOfDataType(dtype)
  /\ Return("bytes_overflow")
  /\ UNCHANGED <<dims, dtype, i, product, nbytes>>

Sized ==
  /\ pc = "bytes"
  /\ product <= MaxWord \div SizeOfDataType(dtype)
  /\ nbytes' = Wrap(product * SizeOfDataType(dtype))
  /\ Return("ok")
  /\ UNCHANGED <<dims, dtype, i, product>>

(* The size has been returned; nothing happens any more.                   *)
Returned == pc = "done" /\ UNCHANGED vars

Next ==
  \/ RejectNegative \/ ConvertDim \/ Converted
  \/ ZeroDim \/ RejectCount \/ Multiply \/ Counted
  \/ RejectBytes \/ Sized \/ Returned

Spec == Init /\ [][Next]_vars

-----------------------------------------------------------------------------
(* The product of the first n dims, in unbounded arithmetic.               *)
Products == LET p[n \in 0..Len(dims)] == IF n = 0 THEN 1 ELSE p[n - 1] * dims[n] IN p
TrueCount == Products[Len(dims)]

NonNegative == \A j \in DOMAIN dims : dims[j] >= 0

(* Every variable keeps its type.                                          *)
TypeOK ==
  /\ dims \in Seq(Int)
  /\ dtype \in DataType
  /\ pc \in {"convert", "count", "bytes", "done"}
  /\ i \in 1..(Len(dims) + 1)
  /\ product \in 0..MaxWord
  /\ nbytes \in 0..MaxWord
  /\ status \in {"none", "ok", "negative_dim", "elements_overflow", "bytes_overflow"}

(* A size that is returned is the true size: no multiplication on the way  *)
(* wrapped around, and no negative dim became a huge unsigned one.         *)
SizeIsTrue ==
  status = "ok" =>
    /\ NonNegative
    /\ product = TrueCount
    /\ nbytes = TrueCount * SizeOfDataType(dtype)

(* An error is returned only for a shape that is negative or too large,    *)
(* where the dims in front of the first 0 count for the element test.      *)
ErrorsJustified ==
  /\ status = "negative_dim" => ~NonNegative
  /\ status = "elements_overflow" =>
       \E n \in DOMAIN dims :
         Products[n] > MaxWord /\ \A j \in 1..n : dims[j] > 0
  /\ status = "bytes_overflow" => TrueCount * SizeOfDataType(dtype) > MaxWord

(* "Product of dims. ... Fails only on multiply overflow" (tensor.h, line  *)
(* 65), and "A dim of 0 is legal" (line 51): the element test fails only   *)
(* when the product does not fit.                                          *)
FailsOnlyOnOverflow == status = "elements_overflow" => TrueCount > MaxWord
=============================================================================
