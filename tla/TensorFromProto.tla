--------------------------- MODULE TensorFromProto ---------------------------
(***************************************************************************)
(* TensorFromTensorProto (src/ir/onnx_loader.cpp), one behaviour per       *)
(* TensorProto: the element type, the shape (the steps of TensorSize), the *)
(* byte count the loader multiplies itself, the buffer that Tensor::Create *)
(* allocates and leaves uninitialised, and the copy of the payload into it.*)
(*                                                                         *)
(* Of a payload only the lengths of its fields are kept: raw_data in       *)
(* bytes, float_data and int64_data in elements.                           *)
(***************************************************************************)
EXTENDS TensorSize

CONSTANT Payloads   \* the data types and field lengths a TensorProto may hold

Payload == [data_type : {"FLOAT", "INT64", "OTHER"},
            raw_data : Nat, float_data : Nat, int64_data : Nat]

ASSUME PayloadsAssumption == Payloads \subseteq Payload

VARIABLES
  proto,      \* the argument, const in the code, but for its dims
  stage,      \* how far the call is
  size,       \* its local nbytes
  written,    \* the bytes of the buffer written so far, from the front
  result      \* "none" until the call returns

sizeVars == vars   \* of TensorSize, run by the shape and by Create
protoVars == <<sizeVars, proto, stage, size, written, result>>

DataTypeOf == [FLOAT |-> "kFloat32", INT64 |-> "kInt64"]

(* The dims come from the model: they are signed.                          *)
ProtoInit ==
  /\ Init /\ pc = "convert"
  /\ proto \in Payloads
  /\ dtype = IF proto.data_type = "OTHER" THEN "kFloat32" ELSE DataTypeOf[proto.data_type]
  /\ stage = "type" /\ size = 0 /\ written = 0
  /\ result = "none"

Element == SizeOfDataType(dtype)

Answer(verdict) == stage' = "done" /\ result' = verdict

Enter(next) == stage' = next /\ UNCHANGED result

-----------------------------------------------------------------------------
(* MapElemType.                                                            *)
MapElemType ==
  /\ stage = "type"
  /\ \/ proto.data_type = "OTHER" /\ Answer("bad_tensor")
     \/ proto.data_type # "OTHER" /\ Enter("shape")
  /\ UNCHANGED <<sizeVars, proto, size, written>>

(* FromSignedDims and NumElementsChecked, up to the number of elements.    *)
Shape ==
  /\ stage = "shape"
  /\ \/ RejectNegative \/ ConvertDim \/ Converted
     \/ ZeroDim \/ RejectCount \/ Multiply \/ Counted
  /\ IF pc' = "done" THEN Answer("bad_tensor") ELSE UNCHANGED <<stage, result>>
  /\ UNCHANGED <<proto, size, written>>

(* Mutant of MultiplySize: a product that does not wrap.                   *)
MultiplySizeWide ==
  /\ stage = "shape" /\ pc = "bytes"
  /\ size' = product * Element
  /\ Enter("create")
  /\ UNCHANGED <<sizeVars, proto, written>>

(* nbytes = ne * elem, on size_t and without a test.                       *)
MultiplySize ==
  /\ stage = "shape" /\ pc = "bytes"
  /\ size' = Wrap(product * Element)
  /\ Enter("create")
  /\ UNCHANGED <<sizeVars, proto, written>>

(* Tensor::Create: ComputeNBytes, then the allocations, one of which may   *)
(* fail (a Status) or throw.  The bytes it allocates are nbytes.           *)
Create ==
  /\ stage = "create"
  /\ RejectBytes \/ Sized
  /\ IF status' # "ok" THEN Answer("bad_tensor")
     ELSE Answer("oom") \/ Enter("fill")
  /\ UNCHANGED <<proto, size, written>>

-----------------------------------------------------------------------------
NoBytes ==
  /\ stage = "fill" /\ size = 0
  /\ Answer("ok")
  /\ UNCHANGED <<sizeVars, proto, size, written>>

(* Mutants of RawFits: no test of the length; a short payload is accepted. *)
RawFitsAlways == TRUE
RawFitsBelow == proto.raw_data <= size

RawFits == proto.raw_data = size

(* raw_data is preferred, whatever other field is set.                     *)
CopyRaw ==
  /\ stage = "fill" /\ size > 0 /\ proto.raw_data > 0
  /\ IF RawFits THEN written' = proto.raw_data /\ Answer("ok")
     ELSE Answer("bad_tensor") /\ UNCHANGED written
  /\ UNCHANGED <<sizeVars, proto, size>>

Elements == IF dtype = "kFloat32" THEN proto.float_data ELSE proto.int64_data

(* Mutant of CheckElements: a tensor without any data passes.              *)
CheckElementsIfAny ==
  /\ stage = "fill" /\ size > 0 /\ proto.raw_data = 0
  /\ IF Elements \in {0, product} THEN Enter("copy") ELSE Answer("bad_tensor")
  /\ UNCHANGED <<sizeVars, proto, size, written>>

CheckElements ==
  /\ stage = "fill" /\ size > 0 /\ proto.raw_data = 0
  /\ IF Elements = product THEN Enter("copy") ELSE Answer("bad_tensor")
  /\ UNCHANGED <<sizeVars, proto, size, written>>

(* One iteration of out[i] = float_data(i), or the int64_t loop.           *)
CopyElement ==
  /\ stage = "copy"
  /\ IF written < Elements * Element
     THEN written' = written + Element /\ UNCHANGED <<stage, result>>
     ELSE Answer("ok") /\ UNCHANGED written
  /\ UNCHANGED <<sizeVars, proto, size>>

(* The tensor or the error has been returned.                              *)
Answered == stage = "done" /\ UNCHANGED protoVars

ProtoNext ==
  \/ MapElemType \/ Shape \/ MultiplySize \/ Create
  \/ NoBytes \/ CopyRaw \/ CheckElements \/ CopyElement \/ Answered

(* Sequential code runs until it returns.                                  *)
ProtoSpec == ProtoInit /\ [][ProtoNext]_protoVars

-----------------------------------------------------------------------------
HasBuffer == stage \in {"fill", "copy"} \/ result = "ok"

ProtoTypeOK ==
  /\ TypeOK
  /\ proto \in Payloads
  /\ stage \in {"type", "shape", "create", "fill", "copy", "done"}
  /\ size \in 0..MaxWord /\ written \in Nat
  /\ result \in {"none", "ok", "bad_tensor", "oom"} /\ (result = "none") = (stage # "done")
  /\ HasBuffer => status = "ok"

(* The copies go by the loader's own unguarded product, the buffer by the  *)
(* guarded one of Tensor::Create.  Once there is a buffer both are the     *)
(* true size of the shape, and no copy ever writes behind the buffer.      *)
NoOverrun ==
  /\ HasBuffer => size = nbytes /\ nbytes = TrueCount * Element
  /\ written > 0 => written <= nbytes

(* The buffer of a tensor that is handed out has no byte left that nobody  *)
(* wrote.                                                                  *)
FullyWritten == result = "ok" => written = nbytes

(* What the loader above relies on: but for memory, the verdict is a       *)
(* function of the TensorProto, in unbounded arithmetic.                   *)
Convertible ==
  LET count == TrueCount
      bytes == count * Element
  IN  /\ proto.data_type # "OTHER"
      /\ NonNegative
      /\ \A n \in DOMAIN dims : (\A j \in 1..n : dims[j] > 0) => Products[n] <= MaxWord
      /\ bytes <= MaxWord
      /\ \/ bytes = 0
         \/ proto.raw_data = bytes
         \/ proto.raw_data = 0 /\ Elements = count

VerdictExact == stage = "done" /\ result # "oom" => (result = "ok") = Convertible
=============================================================================
