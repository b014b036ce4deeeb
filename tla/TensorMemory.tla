---------------------------- MODULE TensorMemory ----------------------------
(***************************************************************************)
(* Tensors and the buffers they share (src/tensor.cpp, src/allocator.cpp). *)
(*                                                                         *)
(* A client holds tensors in variables (Handle).  Tensor::Create allocates *)
(* a block and wraps it in a shared_ptr whose deleter gives the block back *)
(* to the allocator; FromHostBlob wraps memory of the caller with a        *)
(* deleter that does nothing; copies share the buffer, a move empties its  *)
(* source.  Create takes two steps, since the control block of the         *)
(* shared_ptr is an allocation of its own that may fail after the first.   *)
(*                                                                         *)
(* A size is 0 or 1: empty or not.  The shape checks are TensorSize's; here*)
(* they fail or not.  The reference counts, copies and moves are those of  *)
(* std::shared_ptr and of the implicit members of Tensor.  The elements of *)
(* a block are written through the typed accessors of any of its tensors.  *)
(***************************************************************************)
EXTENDS Naturals, FiniteSets

CONSTANTS
  Handle,   \* variables of the client that can hold a Tensor
  Block,    \* addresses the CPU allocator can hand out
  Blob,     \* host arrays of the caller
  Null      \* the null pointer

Addr == Block \cup Blob
Aborted == "aborted"

ASSUME AddressAssumption == Block \cap Blob = {} /\ Null \notin Addr /\ Aborted \notin Addr
ASSUME HandleAssumption == IsFiniteSet(Handle)

VARIABLES
  tensors,   \* handle -> the tensor in it, or NoTensor
  held,      \* the addresses that are allocated
  uses,      \* address -> use_count of the shared_ptr that will free it
  making,    \* the block of the Create in progress, Null, or Aborted
  content,   \* block -> the type its elements were written as last
  outcome    \* of the last call

vars == <<tensors, held, uses, making, content, outcome>>

DataType == {"kFloat32", "kInt64"}

(* frees: the deleter gives the block back; moved: the tensor was the      *)
(* source of a move, which only the history of the object tells.           *)
Buffer == [ptr : Addr \cup {Null}, frees : BOOLEAN]
Tensor == [dtype : DataType, buffer : Buffer, nbytes : {0, 1}, owns : BOOLEAN, moved : BOOLEAN]

NoTensor == [none |-> TRUE]
EmptyBuffer == [ptr |-> Null, frees |-> FALSE]

MakeTensor(dt, buf, size, own) ==
  [dtype |-> dt, buffer |-> buf, nbytes |-> size, owns |-> own, moved |-> FALSE]

Present(h) == tensors[h] # NoTensor
Counted(a, h) ==
  Present(h) /\ tensors[h].buffer = [ptr |-> a, frees |-> TRUE]

Init ==
  /\ tensors = [h \in Handle |-> NoTensor]
  /\ held = Blob
  /\ uses = [a \in Addr |-> 0]
  /\ making = Null
  /\ content = [a \in Block |-> "unwritten"]
  /\ outcome = "none"

-----------------------------------------------------------------------------
(* Ownership passes through here: gained and lost are the buffers of which *)
(* an owner appears and disappears.  The last owner to go runs the deleter.*)
Bump(a, gained, lost) ==
  uses[a] + (IF gained = [ptr |-> a, frees |-> TRUE] THEN 1 ELSE 0)
          - (IF lost = [ptr |-> a, frees |-> TRUE] THEN 1 ELSE 0)

Share(gained, lost) ==
  /\ uses' = [a \in Addr |-> Bump(a, gained, lost)]
  /\ held' = held \ {a \in Addr : uses[a] > 0 /\ Bump(a, gained, lost) = 0}

BufferIn(h) == IF Present(h) THEN tensors[h].buffer ELSE EmptyBuffer

-----------------------------------------------------------------------------
(* Create: arguments that fail a check, an empty tensor, or a block.       *)
CreateInvalid ==
  /\ making = Null
  /\ outcome' = "invalid"
  /\ UNCHANGED <<tensors, held, uses, making, content>>

CreateEmpty(h) ==
  /\ making = Null
  /\ ~Present(h)
  /\ \E dt \in DataType :
       tensors' = [tensors EXCEPT ![h] = MakeTensor(dt, EmptyBuffer, 0, TRUE)]
  /\ outcome' = "ok"
  /\ UNCHANGED <<held, uses, making, content>>

Allocate(a) ==
  /\ making = Null
  /\ \E h \in Handle : ~Present(h)
  /\ a \notin held
  /\ making' = a
  /\ held' = held \cup {a}
  /\ content' = [content EXCEPT ![a] = "unwritten"]
  /\ UNCHANGED <<tensors, uses, outcome>>

(* operator new (nothrow) may fail at any time.                            *)
AllocateFails ==
  /\ making = Null
  /\ outcome' = "kRuntime"
  /\ UNCHANGED <<tensors, held, uses, making, content>>

(* MakeAllocatedBuffer, and the tensor is stored in a fresh variable.      *)
WrapBlock(h) ==
  /\ making \in Block
  /\ ~Present(h)
  /\ LET buf == [ptr |-> making, frees |-> TRUE]
     IN  /\ \E dt \in DataType :
              tensors' = [tensors EXCEPT ![h] = MakeTensor(dt, buf, 1, TRUE)]
         /\ Share(buf, EmptyBuffer)
  /\ making' = Null
  /\ outcome' = "ok"
  /\ UNCHANGED content

(* Mutant: the block is dropped on the floor when the wrapping fails.      *)
WrapThrowsAndLeaks ==
  /\ making \in Block
  /\ making' = Null
  /\ outcome' = "bad_alloc"
  /\ UNCHANGED <<tensors, uses, held, content>>

(* The control block cannot be allocated: the constructor of shared_ptr    *)
(* runs the deleter and throws, and Create does not catch.                 *)
WrapThrows ==
  /\ making \in Block
  /\ held' = held \ {making}
  /\ making' = Null
  /\ outcome' = "bad_alloc"
  /\ UNCHANGED <<tensors, uses, content>>

-----------------------------------------------------------------------------
(* FromHostBlob: data of null with bytes to read, or the wrong number of   *)
(* bytes, is an error.                                                     *)
FromHostBlobInvalid(data, size, bytes) ==
  /\ making = Null
  /\ bytes # size \/ (size > 0 /\ data = Null)
  /\ outcome' = "invalid"
  /\ UNCHANGED <<tensors, held, uses, making, content>>

(* Mutant: the blob is wrapped with the deleter of allocated buffers.      *)
FromHostBlobAdopting(h, data, size, bytes) ==
  /\ making = Null
  /\ ~Present(h)
  /\ bytes = size /\ (size > 0 => data # Null)
  /\ LET buf == [ptr |-> data, frees |-> data # Null]
     IN  /\ \E dt \in DataType :
              tensors' = [tensors EXCEPT ![h] = MakeTensor(dt, buf, size, FALSE)]
         /\ Share(buf, EmptyBuffer)
  /\ outcome' = "ok"
  /\ UNCHANGED <<making, content>>

(* Mutant: null data is not looked at.                                     *)
FromHostBlobUnchecked(h, data, size, bytes) ==
  /\ making = Null
  /\ ~Present(h)
  /\ bytes = size
  /\ \E dt \in DataType :
       tensors' = [tensors EXCEPT ![h] =
                     MakeTensor(dt, [ptr |-> data, frees |-> FALSE], size, FALSE)]
  /\ outcome' = "ok"
  /\ UNCHANGED <<held, uses, making, content>>

FromHostBlob(h, data, size, bytes) ==
  /\ making = Null
  /\ ~Present(h)
  /\ bytes = size /\ (size > 0 => data # Null)
  /\ \E dt \in DataType :
       tensors' = [tensors EXCEPT ![h] =
                     MakeTensor(dt, [ptr |-> data, frees |-> FALSE], size, FALSE)]
  /\ outcome' = "ok"
  /\ UNCHANGED <<held, uses, making, content>>

(* The shared_ptr over a blob, null or not, needs a control block as well. *)
FromHostBlobThrows ==
  /\ making = Null
  /\ outcome' = "blob_bad_alloc"
  /\ UNCHANGED <<tensors, held, uses, making, content>>

-----------------------------------------------------------------------------
(* Copy construction or assignment of g's tensor into h, which gives up    *)
(* what it held.                                                           *)
CopyTensor(g, h) ==
  /\ making = Null
  /\ Present(g)
  /\ Share(BufferIn(g), BufferIn(h))
  /\ tensors' = [tensors EXCEPT ![h] = tensors[g]]
  /\ outcome' = "ok"
  /\ UNCHANGED <<making, content>>

(* Mutant: the move leaves the buffer with its source as well.             *)
MoveKeepingBuffer(g, h) ==
  /\ making = Null
  /\ g # h
  /\ Present(g)
  /\ Share(EmptyBuffer, BufferIn(h))
  /\ tensors' = [tensors EXCEPT ![h] = tensors[g]]
  /\ outcome' = "ok"
  /\ UNCHANGED <<making, content>>

(* Move construction or assignment: g keeps its size and flags and loses   *)
(* its buffer.                                                             *)
MoveTensor(g, h) ==
  /\ making = Null
  /\ g # h
  /\ Present(g)
  /\ Share(EmptyBuffer, BufferIn(h))
  /\ tensors' = [tensors EXCEPT ![h] = tensors[g],
                                ![g].buffer = EmptyBuffer, ![g].moved = TRUE]
  /\ outcome' = "ok"
  /\ UNCHANGED <<making, content>>

Destroy(h) ==
  /\ making = Null
  /\ Present(h)
  /\ Share(EmptyBuffer, BufferIn(h))
  /\ tensors' = [tensors EXCEPT ![h] = NoTensor]
  /\ UNCHANGED <<making, content, outcome>>

(* Mutant of CheckDtype: the wrong accessor goes through.                  *)
CheckDtypeNever(h, dt) == TRUE

CheckDtype(h, dt) == tensors[h].dtype = dt

(* mutable_data_f32 or mutable_data_i64, and a write through the pointer   *)
(* by a client that knows there are elements; another dtype aborts.        *)
Write(h, dt) ==
  /\ making = Null
  /\ Present(h)
  /\ tensors[h].buffer.ptr \in Block
  /\ CheckDtype(h, dt)
  /\ content' = [content EXCEPT ![tensors[h].buffer.ptr] = dt]
  /\ UNCHANGED <<tensors, held, uses, making, outcome>>

AccessorAborts(h, dt) ==
  /\ making = Null
  /\ Present(h)
  /\ ~CheckDtype(h, dt)
  /\ making' = Aborted
  /\ UNCHANGED <<tensors, held, uses, content, outcome>>

(* The process is gone.                                                    *)
Gone == making = Aborted /\ UNCHANGED vars

Next ==
  \/ CreateInvalid \/ AllocateFails \/ WrapThrows \/ FromHostBlobThrows
  \/ \E a \in Block : Allocate(a)
  \/ \E h \in Handle : CreateEmpty(h) \/ WrapBlock(h) \/ Destroy(h)
  \/ \E data \in Blob \cup {Null}, size, bytes \in {0, 1} :
       \/ FromHostBlobInvalid(data, size, bytes)
       \/ \E h \in Handle : FromHostBlob(h, data, size, bytes)
  \/ \E g, h \in Handle : CopyTensor(g, h) \/ MoveTensor(g, h)
  \/ \E h \in Handle, dt \in DataType : Write(h, dt) \/ AccessorAborts(h, dt)
  \/ Gone

Spec == Init /\ [][Next]_vars

-----------------------------------------------------------------------------
(* Every variable keeps its type; a use count never goes below zero.       *)
TypeOK ==
  /\ tensors \in [Handle -> Tensor \cup {NoTensor}]
  /\ held \in SUBSET Addr
  /\ uses \in [Addr -> Nat]
  /\ making \in Block \cup {Null, Aborted}
  /\ content \in [Block -> DataType \cup {"unwritten"}]
  /\ outcome \in {"none", "ok", "invalid", "kRuntime", "bad_alloc",
                 "blob_bad_alloc"}

(* A block is allocated exactly as long as a tensor shares it or a Create  *)
(* is wrapping it, and its use count is the number of tensors sharing it:  *)
(* no leak, no double free, no tensor on freed memory, through every       *)
(* sequence of creations, copies, moves, assignments and failures.         *)
BlocksLiveWhileShared ==
  \A a \in Block :
    /\ uses[a] = Cardinality({h \in Handle : Counted(a, h)})
    /\ a \in held <=> (uses[a] > 0 \/ making = a)

(* "The caller still owns the memory; Tensor must not free it"             *)
(* (allocator.h, line 76).                                                 *)
BlobsNeverFreed == Blob \subseteq held

(* A tensor with bytes has a buffer to read them from, unless it was moved *)
(* from: "Empty tensors (0 elements) may return nullptr" (tensor.h, 108).  *)
(* Its ownership flag tells an allocated block from a blob of the caller,  *)
(* also in copies and behind moves.                                        *)
BytesHaveABuffer ==
  \A h \in Handle :
    Present(h) =>
      LET ptr == tensors[h].buffer.ptr IN
      /\ tensors[h].nbytes > 0 /\ ~tensors[h].moved => ptr \in held
      /\ ptr # Null => (tensors[h].owns <=> ptr \in Block)

(* Whatever accessor lets a client through to a block shows it elements of *)
(* the type they were written as, through every copy that shares the       *)
(* block.  A block that was just allocated counts as unwritten.            *)
ReadAsWritten ==
  \A h \in Handle, dt \in DataType :
    (Present(h) /\ tensors[h].buffer.ptr \in Block /\ CheckDtype(h, dt))
      => content[tensors[h].buffer.ptr] \in {"unwritten", dt}

(* "True if this tensor does not free its buffer (FromHostBlob)", the      *)
(* comment on owns_data() (tensor.h, line 115).                            *)
OwnsDataComment ==
  \A h \in Handle :
    (Present(h) /\ tensors[h].buffer.ptr # Null)
      => (tensors[h].owns <=> ~tensors[h].buffer.frees)

(* "kRuntime on OOM" (tensor.h, line 92): running out of memory in Create  *)
(* is reported in its Status.                                              *)
OomIsAStatus == outcome # "bad_alloc"
=============================================================================
