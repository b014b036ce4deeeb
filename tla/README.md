# eduort in TLA+

`eduort` is a small C++17 ONNX runtime written to be read. At this commit it
loads a model file into a graph IR, checks and orders the graph, and has
tensors with CPU buffers; sessions, kernels and execution providers are design
text only. This directory holds TLA+ modules of the parts whose correctness is
a matter of many steps, TLC configurations that check them on small instances,
and TLAPS proofs of what holds for every instance.

Paths below are relative to the repository root: `src/ir/topo_sort.cpp` is the
file that `PROJECT.json` names `src/src/ir/topo_sort.cpp`.

    tlc -workers 2 -config MCTopoSort.cfg MCTopoSort
    tlapm TopoSortProofs.tla

## 1. Inventory

The library itself is sequential: no thread, no callback, no I/O except one file
read, during which other processes may write to the file. Apart from that what
is hard is not interleaving but the length of the computations: maps, counters
and queues updated in different loops that must agree, defects that must be
found in one order by passes written apart, objects that are edited and
prepared again, machine words, shared ownership, failing allocations, and
objects that an exception leaves half assigned.

| component | state it keeps | operations | correct when |
|---|---|---|---|
| Graph IR (`include/eduort/graph.h`) | nodes, initializers, inputs, outputs, `topo_order` | filled by the loader, read by the passes | the documents' predicates: single assignment, wired, acyclic |
| `ComputeTopoOrder` (`src/ir/topo_sort.cpp`) | producer map, adjacency, in-degrees, FIFO queue, order | one call per graph | a topological order exactly on acyclic well-wired graphs; deterministic; an error that names a real defect |
| `ValidateStructure` (`src/ir/validate.cpp`) | seeds, defined, producer map | one call per graph | accepts exactly what `validate.h` lists, in any hash order |
| `PrepareGraphStructure` (`src/ir/topo_sort.cpp`) | writes `Graph::topo_order` | called again and again on a graph its owner edits | never a stale or partial order; the two passes agree |
| Shapes and sizes (`src/tensor.cpp`) | one dims vector, a running product | `FromSignedDims`, `NumElementsChecked`, `ComputeNBytes` | the size returned is the true size, nothing wraps |
| Tensors and buffers (`src/tensor.cpp`, `src/allocator.cpp`) | shared buffers, ownership flag | `Create`, `FromHostBlob`, copy, move, destroy | no leak, no double free, no tensor on freed memory, the caller's memory untouched, elements read as they were written |
| Status, StatusOr, macros (`status.h`, `macros.h`) | a code, and a value or none | construct, copy, move, assign, read, early return | an absent value is never read; a failure arrives as a failure, with its code |
| File reading (`src/file_utils.cpp`) | the stream, a vector | measure, limit, read | within the limit, no invented byte, harmless appends, always returns |
| ModelProto parsing (`src/model_proto.cpp`) | none | size limit, parse | an error for what protobuf refuses |
| ONNX loader (`src/ir/onnx_loader.cpp`) | the graph being built | opset, initializers, inputs, outputs, shapes, nodes | the graph the model stands for, or a defect of the first bad part |
| Tensor conversion (`src/ir/onnx_loader.cpp`) | a buffer being filled | type, shape, size, allocate, copy | no write behind the buffer, no unwritten byte, a verdict that depends on the TensorProto alone |
| Version, tools, scripts, build | constants | - | - |

How they interact: file -> ModelProto -> loader -> Graph -> validate -> sort.
Each stage is called by the next one up and returns a `Status` or `StatusOr`;
the macros of `macros.h` turn an error into an early return, and this is how
errors travel everywhere. Tensors are made by the loader (initializers,
attributes) and by clients, and share their buffers when copied. The Graph is
the one object with a life of several calls: its owner may edit it and call
`PrepareGraphStructure` again.

The hazards, each at its line and with the properties aimed at it, are listed
in `PROJECT.json`.

## 2. Modules

| module | models |
|---|---|
| `GraphIR` | Node and Graph as records, and what the documents say of a graph (`Edge`, `SingleAssignment`, `InputsDefined`, `WellFormed`, `Trap`, `HasCycle`, `IsTopoOrder`) |
| `TopoSpec` | abstract: nodes are emitted one by one, any node whose producers are all out may be next, the call ends with the full order, a cycle error when nothing can be next, or an error about an ill-formed graph |
| `TopoSort` | `ComputeTopoOrder`, loop by loop |
| `Validate` | `ValidateStructure`, loop by loop |
| `PrepareSpec` | abstract: what `topo_sort.h` promises the caller of `PrepareGraphStructure` |
| `PrepareGraph` | `PrepareGraphStructure`: composes `Validate` and `TopoSort` (by INSTANCE, on the same graph) with the owner who edits the graph |
| `TensorSize` | shapes to byte counts on machine words |
| `TensorMemory` | tensors, shared buffers, typed accessors, the CPU allocator and its failures |
| `ModelProto` | the parts of an `onnx::ModelProto` as records, the defects each part can have (`Loadable`, `FirstDefects`) and the graph a model stands for (`GraphOf`, `KindsOf`, `ShapesOf`) |
| `LoaderSpec` | abstract: one answer, the graph of a loadable model or a defect of the first part that has one, or out of memory |
| `OnnxLoader` | `LoadGraphFromModelProto`, loop by loop |
| `TensorFromProto` | `TensorFromTensorProto`: extends `TensorSize` and runs its steps between its own type check, byte count and copies (`ProtoInit`, `ProtoNext`, `ProtoSpec`) |
| `ModelFile` | `LoadModelProtoFromFile` with other processes writing to the file |
| `LoadPipeline` | `LoadGraphFromFile` and the caller who prepares the graph: extends `ModelFile` and composes it with `LoaderSpec` and `PrepareSpec` |
| `StatusOr` | `Status`, `StatusOr` and the macros |
| `MC*` | the instances TLC checks |
| `*Proofs` | proofs about the module of that name; `LoadPipelineProofs` and `TensorFromProtoProofs` also have those about `ModelFile` and `TensorSize`, which these modules extend |

Correspondence, where it is not plain from the names (`PROJECT.json` "map" has
the lines of every definition):

* Value names are members of `Name`; `Empty` is the empty string, an omitted
  optional input. Node `i` is the C++ node of index `i - 1`. A producer map
  entry of 0 means "not in the map".
* A step of `TopoSort` is one iteration of a loop: a node in the loops that
  build the producer map (`MapNode`, `MapClash`) and the edges (`ScanNode`,
  `ScanReject`), an index in the seeding loop (`SeedReady`), and in the drain
  one pop (`Pop`) or one consumer (`Relax`, `Relaxed`). An iteration that
  returns an error leaves the maps alone in the model; in the code the maps are
  locals that the return destroys. The first bad input in list order decides the
  error, as the inner loop does.
* `seen_pred` is the set `SeenPreds`: a producer that feeds several inputs of a
  node is one edge. Only its size and its members matter, since the edges of
  one node go to different lists.
* `Validate` visits the initializers in any order (`VisitInitializer`), as the
  hash map may. Inside one node the outputs are checked in list order,
  each against the seeds and then against the outputs before it.
* `PrepareGraph` runs the steps of the two callees as they are; a callee's
  locals are reset when it is entered and when it returns. `Edit` is external:
  the owner replaces the graph's contents and `topo_order` stays as it is,
  because `Graph` is a plain struct.
* In `TensorMemory` a size is empty or not, an address is a model value, and
  `uses` is the use count of the `shared_ptr`. `Create` takes two steps because
  `shared_ptr` allocates a control block of its own after the data block, and
  this second allocation may throw. Reference counting and the implicit copy
  and move members are external (the standard's semantics). A moved-from tensor
  keeps `nbytes_` and `owns_data_` and has no buffer, as in the code.
* `TensorSize` counts once where the code counts twice on the same dims
  (`ValidateShape`, then `ComputeNBytes`). `uint64_t` and `size_t` have one width.
* In `ModelProto` a tensor inside a model is its verdict, "ok" or "bad_tensor";
  `TensorFromProto` shows (`VerdictExact`) that the verdict is a function of the
  TensorProto but for memory. An allocation for a tensor may fail, as a status
  or as `bad_alloc`: both are "oom". Dims are integers or `Symbolic` or
  `Missing`; a domain is "", "ai.onnx" or "other"; of an attribute the type and
  the set of fields present are kept. Where loader and specification share a
  decision, each says it in its own way: the loader probes fields one after
  the other and overwrites map entries, the specification takes the least
  probe and the last declaration. They do share `AttributeDefect`, `NodeOf` and
  `CanonicalizeDomain`, which translate one test, record or spelling of the code
  each; the refinement cannot contradict these.
* In `TensorFromProto` a payload is its lengths, and `written` counts the bytes
  written from the front of the buffer. `size` is the loader's own product,
  which wraps; `nbytes` is the guarded one of `Tensor::Create`. `CopyRaw` counts
  the payload's length, which its guard makes the `nbytes` of the `memcpy`.
* In `ModelFile` the stream delivers the bytes in any number of reads, each of
  which sees the content of that moment; the writers act between any two steps
  until the call returns. `measured`, `ever` and `appended` are history
  variables. Whether protobuf accepts bytes is the constant `Parses`. The
  stream also fails when the device does (`ReadFails`), with bytes still in the
  file; the code reports both failures in the same words, the model keeps them
  apart because only one of them is about the length of the file.
* `LoadPipeline` uses the abstract loader and preparation, which `OnnxLoader` and
  `PrepareGraph` are shown to implement, and the detailed file.
* In `StatusOr` an object is a code and what the optional holds. Three history
  variables say what should be true of it: `given` is what the program last put,
  or tried to put, into each object (a value, or the code a failure was born
  with), `torn` the objects left by an assignment that threw, and `out` what
  came out last, with both. `given` follows the program's intent, `obj` the
  code's assignments. No code at this commit assigns a `StatusOr`; the class
  allows it. The two tests in `ok()` are what makes it safe: with either one
  alone `ReadsWhatWasGiven` fails, without the test of the code, when a
  failure is assigned over a value and its message cannot be copied; without the
  test of the optional, when a value is assigned over a failure and cannot be.
* In `TensorMemory` `content` is the type a block's elements were last written
  as; a block just allocated is unwritten, whatever its address held before,
  because what a new allocation holds is indeterminate. An accessor of another
  type aborts the process (`Gone`). `ReadAsWritten` is therefore about tensors that
  share a block, not about what an address held before.

A definition whose comment begins with "Mutant" is not part of a
specification: it is a plausible bug, named in `PROJECT.json`, with which the
property beside it must fail.

## 3. Runs

| run | instance | shows |
|---|---|---|
| `sort` | all 4096 loop-free digraphs of four nodes, one tensor per node; up to two nodes whose inputs and outputs have repeated, seeded, undefined, empty and clashing names | in-degrees count the unconsumed predecessors at every step (`InDegreesCount`), no node is lost or queued twice (`QueuedOnce`), predecessors come first (`PredsFirst`), the order is the one FIFO order (`FifoOrder`), a cycle error leaves out exactly what cannot run (`LeftoverExact`), the verdict is exact (`VerdictExact`), and `TopoSort` implements `TopoSpec`, which reaches a verdict. The assumption `TrapsAreCycles`, evaluated on the same graphs, says that traps are cycles in the sense of paths |
| `validate` | up to two nodes with each defect alone and combined | success exactly on `WellFormed` graphs, whatever the hash order, and errors that name a defect no earlier loop looks for |
| `prepare` | 174 graphs, three nodes in every one-input wiring and two-node graphs with naming defects; any edit between calls | no stale or partial order (`NoStaleOrder`), the second pass fails only on cycles after the first accepted (`SortFailsOnlyOnCycles`), calls return, and the call implements `PrepareSpec` |
| `tensor_size` | words of six bits, up to three dims | what is returned is the true product and byte count, an error has its reason |
| `tensor_size_zero_dim` | the same | violation: finding 1 |
| `tensor_memory` | three tensor variables, two blocks, one blob | blocks live exactly as long as they are shared, blobs are never freed, bytes have a live buffer, the ownership flag tells blocks from blobs, no tensor that shares a block shows its elements as another type (`ReadAsWritten`) |
| `owns_data_comment`, `create_oom` | the same | violations: findings 2 and 3 |
| `loader` | 2181 models that vary one or two parts of a sound one through every choice of a small set | all imports agree with the version used later (`OneVersion`); the loader implements `LoaderSpec`: it returns, with the graph and the last declared shapes, or with a defect of the first bad part |
| `tensor_from_proto` | words of six bits; 6900 pairs of shape and payload | both products are the true size once there is a buffer and no copy leaves it (`NoOverrun`), no unwritten byte is handed out (`FullyWritten`), the verdict is exact |
| `load_pipeline` | files of up to three bytes of two values, limits 0, 2 and 3, an int of at most 2; each content of up to two bytes a model of its own | the limit and the vector hold (`WithinLimit`), bytes parsed were in the file at their position during the call (`NoInventedBytes`), appending never makes a read end early and leaves the measured content (`AppendsAreHarmless`), no stage runs after a failure (`FirstFailureEnds`), the order is one of the model that was in the file if it was only appended to (`OrderFitsTheFile`), and so are the refusal of its bytes, the defect reported and the failure to order it (`ErrorsFitTheFile`), the caller is answered whatever the writers do |
| `status_or` | three objects, two values, three codes | what is read was last put there, and never from an object that was last given a failure (`ReadsWhatWasGiven`), status and value agree unless an assignment threw (`StatusAgrees`), an early return carries the code the failure was born with (`FailureArrives`) |

**Bounds.** Four nodes are the least with two disjoint 2-cycles, a cycle with a
tail of two, and a diamond, where a node has two predecessors emitted at
different times; all digraphs of that size are covered, and the proofs of
section 5 remove the bound for the invariants. Self-loops are in the namings,
where error precedence matters, and in `prepare`. Two nodes suffice for the
naming defects: each defect relates at most two definitions or a definition and
a use. `Validate`'s loops are over names, and two per list give every order of
a good and a bad one. Six-bit words with dims at and around 63/4, 63/8 and the
square root of 63 hit the exact limits of both overflow tests; the tests use
only `MaxWord \div d` and so do not depend on the width. Two blocks and three
variables allow a block to be shared, moved and overwritten while the other is
being wrapped. `tensor_memory` uses symmetry of variables and blocks, which is
sound for its invariants; `status_or` uses that of objects and values, which no
definition tells apart.

The models vary parts alone and in the pairs that can interact: two imports in
every spelling and version and three in the ones that can conflict, two
initializers, two inputs with one output and one value_info, two attributes,
two nodes, and an initializer, an output and a node that may all be bad, which
shows the order of the parts. Six-bit words let the byte count of 16 floats
wrap to 0 exactly as 2^62 floats do. Three bytes are the least with a read in
several calls in which an already read and a not yet read byte can change; a
limit below, at and above what the writers make of the file is among the three.
Three `StatusOr` objects are the least for an assignment that throws, a copy of
what it leaves, and a result built from that; two values tell an old one from
the one that should have replaced it. No run but `load_pipeline`
bounds a counter: `MaxLen` bounds what the writers write.

**What is not promised.** When the file is overwritten while it is read, the
bytes parsed may mix two contents: `NoInventedBytes` is all that holds then.
For a torn object (`StatusOr`), a function that returns a plain `Status` may
return OK from `EDUORT_ASSIGN_OR_RETURN`: `FailureArrives` names this as the one
way in which a failure is lost. When an assignment has thrown, the value read
may be an older one.

**Fairness.** `TopoSort` and `OnnxLoader` are sequential code that runs until it
returns, which is weak fairness of `Next`; `TopoSpec` states the same of the
abstract call, and the refinement run shows that it is inherited. In `PrepareGraph` only the steps of
a running call are fair: the owner need never edit or call. In
`LoadPipeline` the call is fair and the writers are not: they may stop or write
for ever, and the device need not fail. `LoaderSpec` states that the call answers as `<>`, so that the
refinement needs no ENABLED of the abstract step. `PrepareSpec` and
the modules without liveness properties assume none. No run switches the
deadlock check off: a returned call stutters through an explicit `Returned`.

## 4. Findings

All are documents or comments that say something else than the code does. The
first three are the runs that expect a violation.

1. `include/eduort/tensor.h:65` says that `NumElementsChecked` "fails only on
   multiply overflow" of the product. `[2^32, 2^32, 0]` has the product 0 and is
   refused; `[0, 2^32, 2^32]` is accepted.
2. `include/eduort/tensor.h:115` describes `owns_data()` the wrong way round.
3. `include/eduort/tensor.h:92` promises `kRuntime` on OOM. When the control
   block of the `shared_ptr` cannot be allocated, `Create` throws `bad_alloc`.
   The data block is not leaked (`BlocksLiveWhileShared`).

Two more are settled by what the passing runs say of the code:

* `src/ir/topo_sort.cpp:134` says that leftover nodes with a positive in-degree
  "participate in a cycle". Nodes behind a cycle are left over too:
  `LeftoverExact` states what the code really leaves out.
* `docs/design.md:339` says that when the default domain is imported under both
  spellings, they "must agree or we take `ai.onnx`'s version and warn". The
  loader refuses every disagreement (`src/ir/onnx_loader.cpp:80`): `OneVersion`
  states what it lets through.

## 5. Proofs

Each theorem has the form `Spec => []property`, for all values of the constants
(`ProtoSpec` and `PipeSpec` in the second parts of `TensorFromProtoProofs` and
`LoadPipelineProofs`), but for the refinements of `TopoSpec` and `LoaderSpec`:

| theorem | property |
|---|---|
| `TopoSortProofs`, for every set of finite graphs over any names | |
| `TypeCorrect` | `TypeOK`; in particular the decremented in-degrees never go below 0 |
| `CountersExact` | `InDegreesCount` |
| `QueueExact` | `QueuedOnce` |
| `ProducersFirst` | `PredsFirst` |
| `VerdictsExact` | `VerdictExact` |
| `LeftoverIsExact` | `LeftoverExact` |
| `OrderIsDeterministic` | `FifoOrder` |
| `EmitsOnlyRunnable` | `Spec => Abstract!Init /\ [][Abstract!Next]_(Abstract!specVars)`, the safety part of `ImplementsTopoSpec` |
| `ValidateProofs`, for every set of finite graphs and every hash order | |
| `TypeCorrect` | `TypeOK` |
| `VerdictsExact` | `VerdictExact` |
| `PrepareGraphProofs`, for every set of graphs to edit between | |
| `PassesAgree` | `SortFailsOnlyOnCycles` |
| `OrdersAreFresh` | `NoStaleOrder` |
| `PrepareRefines` | `ImplementsPrepareSpec` |
| `OnnxLoaderProofs`, for models with parts of any length, any names, dims and versions | |
| `TypeCorrect` | `TypeOK` |
| `OpsetIsResolved` | `OneVersion` |
| `AnswersAreRight` | `Spec => Abstract!Init /\ [][Abstract!Next]_(Abstract!specVars)`, the safety part of `ImplementsLoaderSpec` |
| `TensorFromProtoProofs`, part 1, for every word and every list of dims | |
| `SizesAreTrue` | `SizeIsTrue` |
| `ErrorsAreJustified` | `ErrorsJustified` |
| `TensorFromProtoProofs`, part 2, for every word, list of dims and payload | |
| `TypeCorrect` | `ProtoTypeOK` |
| `CopiesFit` | `NoOverrun` |
| `BuffersAreFull` | `FullyWritten` |
| `VerdictsExact` | `VerdictExact` |
| `TensorMemoryProofs`, for every finite set of tensors, any blocks and blobs | |
| `TypeCorrect` | `TypeOK` |
| `NoLeakNoDanglingTensor` | `BlocksLiveWhileShared` |
| `CallersKeepTheirBlobs` | `BlobsNeverFreed` |
| `BytesAreReadable` | `BytesHaveABuffer` |
| `AccessorsAgree` | `ReadAsWritten` |
| `LoadPipelineProofs`, part 1, for files, limits and ints of any size | |
| `TypeCorrect` | `TypeOK` |
| `LimitsHold` | `WithinLimit` |
| `NothingInvented` | `NoInventedBytes` |
| `AppendingIsHarmless` | `AppendsAreHarmless` |
| `LoadPipelineProofs`, part 2, for any file, protobuf and model | |
| `NothingAfterAFailure` | `FirstFailureEnds` |
| `OrderIsOfTheFile` | `OrderFitsTheFile` |
| `ErrorsAreOfTheFile` | `ErrorsFitTheFile` |
| `StatusOrProofs`, for any objects, values and error codes | |
| `TypeCorrect` | `TypeOK` |
| `ReadsAreOfWhatWasPut` | `ReadsWhatWasGiven` |
| `StatusIsTrue` | `StatusAgrees` |
| `FailuresArrive` | `FailureArrives` |

They rest on the assumptions of the modules only: the empty string is not in
`Name`, the arguments are graphs, a vector is filled with a byte, limits and
lengths are natural numbers, what protobuf accepts stands for a model (`ModelOf`
is in `Model`, as is each model the loader is called with), a dim that is not
set is no integer, the opset limits are natural numbers, the largest word is at
least 1 and dims are integers, the tensor variables of a client are finitely many, blocks and blobs are different addresses and neither
null nor the mark of an abort, and values, codes and markers of `StatusOr` are
different things.

**The argument for the sort.** None of the properties is inductive alone. `VerdictExact`
speaks of the last state only, and the counters mean nothing without what the
earlier loops put into the maps. `IInv` adds, for each loop, what it has
established for the nodes below its index:

* `Mapped(m)`: the producer map holds exactly the outputs of nodes below `m`,
  which define no name twice. A clash is then a violation of single assignment,
  and no clash extends the map by one node.
* `Scanned(m)`: the nodes below `m` are wired and have no self-loop, and
  `adj[p]` lists, each once, the nodes below `m` that consume from `p`.
  `Counted(m)`: their in-degrees are the numbers of their predecessors.
* `Seeded(m)`: the queue holds exactly the nodes below `m` of in-degree 0.
* In the drain `InDegreesCount` carries the counters. The set `Waiting(v)`
  tells the whole story: the predecessors of `v` not emitted, plus the popped
  node `u` while position `k` of its list has not passed `v`. A pop moves `u`
  from the first kind to the second and changes no `Waiting`; a relaxation
  removes `u` from one `Waiting` set (`RelaxWaiting`), which lowers its
  cardinality by one as the code lowers the counter.
* `QueuedOnce` follows the counters to 0, and a queued node has an empty
  `Waiting` set, so its predecessors are out (`QueuedIsReady`): `PredsFirst`.
* `TrapsUnplaced`: no member of a trap (a set in which every node has a
  predecessor in the set) is ever emitted. When the queue runs dry, the nodes
  left over form a trap by the counters, and all traps are among them: the
  leftover is the largest trap. It is empty just when the order is full
  (`DistinctFill`: distinct numbers from `1..n` fill a list of length `n` exactly
  if all are there), which makes success and the cycle error exact.

Each action has a lemma (`PopInv`, `RelaxInv`, ...), `NextInv` joins them, and
`IInv` was checked by TLC on the digraphs and the namings before it was proved.

**The argument for the one order.** `FifoOrder` compares two emitted nodes by
the position of their last producer, then by index. `FifoInv` says it of
`Line`, the order with the queue behind it, in which nothing ever changes
places: every node of the line has its last producer at a definite position
(`LastAt`), neighbours and all others are sorted by it (`Sooner`), and the nodes
that the popped node has made ready so far come before the consumers it has yet
to visit. For this the adjacency lists must be increasing, which they are
because the scan visits the consumers in index order (`FifoScan`). A relaxation
that queues a node is the case that needs all of it (`FifoRelax`).

**The argument for the sort as a specification.** A step of `TopoSpec` emits a
node with all its producers out, and so does the relaxation or the seeding that
puts a node in the queue. `EmitsOnlyRunnable` maps the emission to the pop
(`emitted` is the order), where `QueuedIsReady` is the guard, the returns to the
verdicts, where `VerdictExact` and `TrapsUnplaced` are the guards, and all other
steps to a stutter. That `TopoSort` also inherits the fairness of `TopoSpec` is
left to TLC.

**The argument for the validation.** One set of names grows in three loops and
is read in two others; `LoopInv` says for each loop what the set holds and what
has been found sound below the present position. While the initializers are
visited it speaks of `todo`, the ones still to come, and so holds for every hash
order. `NoDefect` is the step that matters: the producer set stands for all
outputs of the earlier nodes, so a name that is not in it clashes with none.

**The argument for the preparation.** `PrepareGraphProofs` instantiates the proof
modules of the two callees. A call is made of their steps, so their invariants
hold while they run (`ValidatingInv`, `SortingInv`), and the graph stays as it is
from the call to the return. The first pass hands over a well-formed graph,
which leaves of the verdicts of the second only success and a cycle:
`PassesAgree`. `OrdersAreFresh` follows from the verdicts of both, with
`topo_order` empty until the last step. `PrepareRefines` has one case per action.

**The argument for the loader.** `IInv`, which TLC first checked on the models of
the run, says of each part of the model how far its loop has come (`Read`: all of
it once the loop is over, none of it before) and that what has been read has no
defect and is what has been built: names, nodes and attribute kinds position by
position, the initializers as a set. It holds until the call returns, after which
only `TypeOK` and `OneVersion` remain.

* `ShapeDefectIs`, `NodeDefectIs` and `KindIs` relate the code's tests, which stop
  at the first bad dim or attribute, to the defects the documents list;
  `ValuesSound`, `NodesSound`, `InitializersSound` and `ImportsSound` say that a loop
  that reaches its end leaves a part without defect.
* A rejection is then right because the earlier parts have no defect
  (`EarlierParts`), so that a defect of the present part is a first one
  (`FirstDefectsAre`): this is where the order of the loops matters, and it is
  why `TypeOK`, which speaks of `FirstDefects`, needs all of `IInv`.
* The three loops over values share one map. `Declared` puts their lists end to
  end, `NextDeclared` says that the loops read it in order, and `Hints` that the
  map has for each name the shape of its last declaration so far. `HintsGrow` is
  the overwriting assignment; `AllHintsAre` turns it into `ShapesOf` at the end.
* `AnswersAreRight` maps the return of the last step to the abstract acceptance
  (`BuiltIs`: the four things built are `Loaded(model)`), a rejection to a rejection
  and a failed allocation to `OutOfMemory`, whose guard is that a tensor was
  reached; all other steps stutter.

**The argument for the sizes.** The true product is a recursive function over
the dims and the guarded one a loop over words. `ProductsDef` proves that the
function exists and satisfies its equations; the loop invariant says that the
running word is the true product so far (`NextProduct`), and `DivisionTest` that
`p <= MaxWord \div d` asks exactly whether `p * d` fits. Once a product is zero
or too large, it stays so (`ZeroSticks`), which justifies the early returns. Two
of these are inductions over the length of the list. They use a set of numbers in
the place of a predicate: `LeastNat` is `WFMin` of the library for the order on
`Nat`, and `Induction` follows from it.

**The argument for the conversion.** `TensorFromProto` runs the steps of
`TensorSize`, so the invariant of part 1 holds while they run (`SizeGoesOn`). The
loader's own product is not guarded: `Stages` says that it is the wrapped one
(`Multiplied`) and that whoever has a buffer has passed the guarded
computation, where nothing wraps, so that both sizes agree (`BufferSize`).
`written` is a multiple of the element size below `size` while elements are
copied, so the next one fits (`CopyElementInv`), and there is no remainder when
the last one is out.

**The argument for the tensors.** No property of `TensorMemory` is inductive
alone. `IInv`, which TLC first checked on the instance of the run, says that a
use count is the number of the tensors that share the block (`CountsExact`, a
cardinality, which is why the handles must be finitely many), that a block is
held for its sharers or for a `Create` and not for both (`HeldForUse`), that the
deleter and the ownership flag go by the address (`AllConsistent`) and that the
sharers of a block agree on its type (`OneType`). An operation changes the tensor
of one variable, or of two in a move: the lemmas about `Sharing` show that the
number of sharers changes by what the new tensor claims less what the old one
did, and the code's increments and decrements are the same numbers.
When an address comes back, the block is unwritten and its `Create` holds it
alone (`HeldForUse`), so no tensor of another type is left to break `OneType`.

**The argument for the file.** `NoInventedBytes` speaks of bytes already in the
vector, `AppendsAreHarmless` of the whole content; both need to know of the bytes
not read yet. `IInv` of part 1 of `LoadPipelineProofs` has, beside types and sizes,
`Delivered` (the bytes delivered, and those in the file now, have been
remembered) and `Prefix` (a file only appended to begins with the measured
content, and so does what was delivered). A writer may break the file at any
step, so `WriteInv` shows once, for any new content, that remembering it is
enough; the three writers are instances. A short read then contradicts
`Prefix`, and a full vector equals the measured content (`WholeContent`).

**The argument for the pipeline.** `Stages` says that each stage has its input
from the one before and only if that succeeded, and that an error is about its
input: the bytes are refused (`Refused`), a defect reported is a first one of
the model, a graph not ordered cannot be. `WholeContent` carries the order and
the errors back to the file.

**The argument for StatusOr.** What comes out is right because what is inside
is: `GivenKept` says that every object has the code due to what was given to it
(`CodeDue`: OK for a value, for a failure its code, or `kRuntime` if that was OK)
and, unless torn, its value too. The code survives even an assignment that
throws, since it is assigned first; this is why a read never shows something in
the place of a failure, and why a failure that comes out has its code. The
value does not survive, and there the test of `has_value` is what is left
(`ValueComesOut`). `FailureComesOut` has the reverse: an object that fails `ok()`
was given a failure, or is torn. `StatusAgrees` follows from `GivenKept` alone.

**Only model-checked.** Liveness (`CallReturns`, `Answered`) and the fairness in
`ImplementsTopoSpec` and `ImplementsLoaderSpec` stay with TLC: the prover has no
rule for fairness or ENABLED. The assumption
`TrapsAreCycles`, which relates the traps the proofs speak of to paths, is
evaluated on the instance. The proofs about the sort speak of traps alone and
do not need it.

## 6. Not modelled, and the plan

Left out for good: version strings, message texts, `ToString`, the build, the
scripts and the tools (no state); protobuf itself (third-party); the parts of
`docs/design.md` without code (session, kernel registry, CUDA, CLI).

Within the modelled parts: the text of messages, the numbers inside attributes
and tensors, and diagnostic names, which nothing decides on; the `ir_version`
warning, which changes nothing; a caller who frees an array that a tensor still
borrows, against which the code has no defence.

Every safety property of a passing run has its theorem now. Next come an abstract
specification of `TensorMemory` (tensors as owners of their blocks, without
counts) with the code's reference counting as its refinement, and the safety
part of the loader's and the preparation's refinements carried over to a
pipeline of the detailed modules.
