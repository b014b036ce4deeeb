------------------------- MODULE PrepareGraphProofs -------------------------
(***************************************************************************)
(* Proofs about PrepareGraph from the lemmas of its two callees: a call is *)
(* the composition of their steps, so their invariants hold while they run *)
(* and their verdicts are those the call acts on.                          *)
(***************************************************************************)
EXTENDS PrepareGraph, TLAPS

VP == INSTANCE ValidateProofs WITH pc <- vpc, producer <- vproducer, status <- vstatus
TP == INSTANCE TopoSortProofs WITH pc <- tpc, status <- tstatus

-----------------------------------------------------------------------------
(* The callees' invariants, in the names of this module.                   *)

(* The constants satisfy the assumptions of the callees' modules.          *)
LEMMA CalleeAssumptions ==
  /\ VP!EmptyAssumption /\ VP!GraphsAssumption
  /\ TP!EmptyAssumption /\ TP!GraphsAssumption
BY EmptyAssumption, GraphsAssumption
   DEF VP!EmptyAssumption, VP!GraphsAssumption, TP!EmptyAssumption, TP!GraphsAssumption,
       Graph, Node, Str, VP!Graph, VP!Node, VP!Str, TP!Graph, TP!Node, TP!Str

(* V and VP are instances of one module, as are T and TP.                  *)
LEMMA ValidateSteps == V!Next => VP!Next
BY DEF V!vars, VP!vars, V!NodeCount, VP!NodeCount, V!Return, VP!Return,
       V!LeaveLoop, VP!LeaveLoop, V!AtGraphInput, VP!AtGraphInput,
       V!RejectGraphInput, VP!RejectGraphInput, V!SeedGraphInput,
       VP!SeedGraphInput, V!VisitInitializer, VP!VisitInitializer,
       V!LeaveInitializers, VP!LeaveInitializers, V!AtNode, VP!AtNode,
       V!OutputDefect, VP!OutputDefect, V!RejectOutputs, VP!RejectOutputs,
       V!DefineOutputs, VP!DefineOutputs, V!RejectInputs, VP!RejectInputs,
       V!AcceptInputs, VP!AcceptInputs, V!AtGraphOutput, VP!AtGraphOutput,
       V!RejectGraphOutput, VP!RejectGraphOutput, V!AcceptGraphOutput,
       VP!AcceptGraphOutput, V!Finish, VP!Finish, V!LeaveVectorLoop,
       VP!LeaveVectorLoop, V!Returned, VP!Returned, V!Next, VP!Next,
       V!NodeIds, VP!NodeIds, V!Refs, VP!Refs, V!Outputs, VP!Outputs,
       V!Inputs, VP!Inputs

LEMMA SortSteps == T!Next => TP!Next
BY DEF T!vars, TP!vars, T!Nodes, TP!Nodes, T!N, TP!N, T!Return, TP!Return,
       T!EnterEmpty, TP!EnterEmpty, T!Enter, TP!Enter, T!Advance, TP!Advance,
       T!Clash, TP!Clash, T!MapClash, TP!MapClash, T!MapNode, TP!MapNode,
       T!UndefinedInput, TP!UndefinedInput, T!OwnOutput, TP!OwnOutput,
       T!BadInput, TP!BadInput, T!ScanReject, TP!ScanReject, T!SeenPreds,
       TP!SeenPreds, T!ScanNode, TP!ScanNode, T!SeedReady, TP!SeedReady,
       T!Pop, TP!Pop, T!Relax, TP!Relax, T!Relaxed, TP!Relaxed, T!Finish,
       TP!Finish, T!Returned, TP!Returned, T!Next, TP!Next, T!NodeIds,
       TP!NodeIds, T!Refs, TP!Refs, T!Outputs, TP!Outputs, T!Inputs,
       TP!Inputs, T!Produces, TP!Produces, T!IsSeed, TP!IsSeed, T!Cardinality,
       TP!Cardinality

LEMMA ValidateStarts == VP!Init => VP!IInv
BY CalleeAssumptions, VP!InitInv

LEMMA ValidateGoesOn == VP!IInv /\ V!Next => VP!IInv'
BY CalleeAssumptions, ValidateSteps, VP!NextInv

LEMMA SortStarts == TP!Init => TP!IInv
BY CalleeAssumptions, TP!InitInv

LEMMA SortGoesOn == TP!IInv /\ T!Next => TP!IInv'
BY CalleeAssumptions, SortSteps, TP!NextInv

(* What the documents say of a graph is said in each module's own names.   *)
LEMMA SameWellFormed ==
  /\ VP!WellFormed(graph) <=> WellFormed(graph)
  /\ TP!WellFormed(graph) <=> WellFormed(graph)
<1>1. VP!WellFormed(graph) <=> WellFormed(graph)
  BY DEF WellFormed, VP!WellFormed, NonEmptyNames, VP!NonEmptyNames, NodeIds,
         VP!NodeIds, Outputs, VP!Outputs, Inputs, VP!Inputs, Refs, VP!Refs,
         IsSeed, VP!IsSeed, SingleAssignment, VP!SingleAssignment,
         DistinctOutputs, VP!DistinctOutputs, InputsDefined, VP!InputsDefined,
         IsProduced, VP!IsProduced, Produces, VP!Produces
<1>2. TP!WellFormed(graph) <=> WellFormed(graph)
  BY DEF WellFormed, TP!WellFormed, NonEmptyNames, TP!NonEmptyNames, NodeIds,
         TP!NodeIds, Outputs, TP!Outputs, Inputs, TP!Inputs, Refs, TP!Refs,
         IsSeed, TP!IsSeed, SingleAssignment, TP!SingleAssignment,
         DistinctOutputs, TP!DistinctOutputs, InputsDefined, TP!InputsDefined,
         IsProduced, TP!IsProduced, Produces, TP!Produces
<1> QED BY <1>1, <1>2

LEMMA SameOrders ==
  /\ TP!HasCycle(graph) <=> HasCycle(graph)
  /\ TP!IsTopoOrder(graph, order) <=> IsTopoOrder(graph, order)
<1>1. TP!HasCycle(graph) <=> HasCycle(graph)
  BY DEF HasCycle, TP!HasCycle, Trap, TP!Trap, Edge, TP!Edge, IsTopoOrder,
         TP!IsTopoOrder, NodeIds, TP!NodeIds, Outputs, TP!Outputs, Inputs,
         TP!Inputs, Refs, TP!Refs, Produces, TP!Produces
<1>2. TP!IsTopoOrder(graph, order) <=> IsTopoOrder(graph, order)
  BY DEF HasCycle, TP!HasCycle, Trap, TP!Trap, Edge, TP!Edge, IsTopoOrder,
         TP!IsTopoOrder, NodeIds, TP!NodeIds, Outputs, TP!Outputs, Inputs,
         TP!Inputs, Refs, TP!Refs, Produces, TP!Produces
<1> QED BY <1>1, <1>2

(* The verdicts of the callees.                                            *)
LEMMA ValidateVerdicts ==
  ASSUME VP!IInv
  PROVE  /\ vstatus = "ok" => WellFormed(graph)
         /\ vstatus \notin {"none", "ok"} => ~WellFormed(graph)
BY CalleeAssumptions, SameWellFormed, VP!ErrorsAreDefects

LEMMA SortVerdicts ==
  ASSUME TP!IInv, WellFormed(graph)
  PROVE  /\ tstatus = "ok" => IsTopoOrder(graph, order) /\ ~HasCycle(graph)
         /\ tstatus \notin {"none", "ok"} =>
              tstatus \in {"self_loop", "cycle"} /\ HasCycle(graph)
<1>1. tstatus \in {"none", "ok", "multiple", "undefined", "self_loop", "cycle"}
  BY DEF TP!IInv, TP!TypeOK, TP!Verdicts
<1>2. tstatus = "ok" => TP!IsTopoOrder(graph, order) /\ ~TP!HasCycle(graph)
  BY DEF TP!IInv, TP!VerdictExact
<1>3. /\ tstatus \in {"multiple", "undefined"} => ~TP!WellFormed(graph)
      /\ tstatus \in {"self_loop", "cycle"} => TP!HasCycle(graph)
  BY CalleeAssumptions, TP!ErrorsAreDefects
<1> QED BY <1>1, <1>2, <1>3, SameWellFormed, SameOrders

-----------------------------------------------------------------------------
(* The inductive invariant.                                                *)

(* A call is running exactly while it is in one of the two passes.         *)
PhaseOK ==
  /\ graph \in Graphs
  /\ phase \in {"idle", "validating", "sorting"}
  /\ phase = "idle" => result \in {"none", "ok", "error"}
  /\ phase # "idle" => result = "running"

(* While a pass runs its own invariant holds, and the second pass runs on  *)
(* what the first has accepted.                                            *)
PassInv ==
  /\ phase = "validating" => VP!IInv
  /\ phase = "sorting" => TP!IInv /\ WellFormed(graph)

IInv == PhaseOK /\ PassInv /\ NoStaleOrder

LEMMA InitInv == Init => IInv
BY DEF Init, IInv, PhaseOK, PassInv, NoStaleOrder

LEMMA EditInv == IInv /\ Edit => IInv'
BY DEF IInv, PhaseOK, PassInv, NoStaleOrder, Edit

LEMMA CallInv == IInv /\ Call => IInv'
<1> SUFFICES ASSUME IInv, Call PROVE IInv'
  OBVIOUS
<1>1. VP!Init'
  BY DEF Call, FreshValidate, VP!Init, IInv, PhaseOK
<1>2. VP!IInv'
  BY <1>1, ValidateStarts, PTL
<1> QED BY <1>2 DEF Call, IInv, PhaseOK, PassInv, NoStaleOrder

LEMMA ValidatingInv == IInv /\ Validating => IInv' /\ graph' = graph
<1> SUFFICES ASSUME IInv, Validating PROVE IInv' /\ graph' = graph
  OBVIOUS
<1>1. VP!IInv'
  BY ValidateGoesOn DEF Validating, IInv, PassInv
<1>2. graph' = graph
  BY DEF Validating, V!Next, V!RejectGraphInput, V!SeedGraphInput, V!VisitInitializer,
         V!LeaveInitializers, V!RejectOutputs, V!DefineOutputs, V!RejectInputs,
         V!AcceptInputs, V!RejectGraphOutput, V!AcceptGraphOutput, V!LeaveVectorLoop,
         V!LeaveLoop, V!Finish, V!Returned, V!Return, V!vars
<1> QED BY <1>1, <1>2 DEF Validating, IInv, PhaseOK, PassInv, NoStaleOrder

LEMMA ValidateFailedInv == IInv /\ ValidateFailed => IInv'
BY DEF IInv, PhaseOK, PassInv, NoStaleOrder, ValidateFailed

LEMMA BeginSortInv == IInv /\ BeginSort => IInv'
<1> SUFFICES ASSUME IInv, BeginSort PROVE IInv'
  OBVIOUS
<1>1. TP!Init'
  <2>1. TP!NodeIds(graph) = NodeIds(graph)
    BY DEF TP!NodeIds, NodeIds
  <2> QED BY <2>1 DEF BeginSort, FreshSort, TP!Init, TP!Nodes, TP!NodeIds, NodeIds, IInv, PhaseOK
<1>2. TP!IInv'
  BY <1>1, SortStarts, PTL
<1>3. WellFormed(graph)
  BY ValidateVerdicts DEF BeginSort, IInv, PassInv
<1> QED BY <1>2, <1>3 DEF BeginSort, IInv, PhaseOK, PassInv, NoStaleOrder

LEMMA SortingInv == IInv /\ Sorting => IInv' /\ graph' = graph
<1> SUFFICES ASSUME IInv, Sorting PROVE IInv' /\ graph' = graph
  OBVIOUS
<1>1. TP!IInv'
  BY SortGoesOn DEF Sorting, IInv, PassInv
<1>2. graph' = graph
  BY DEF Sorting, T!Next, T!EnterEmpty, T!Enter, T!MapClash, T!MapNode, T!ScanReject,
         T!ScanNode, T!SeedReady, T!Pop, T!Relax, T!Relaxed, T!Finish, T!Returned, T!vars
<1> QED BY <1>1, <1>2 DEF Sorting, IInv, PhaseOK, PassInv, NoStaleOrder

LEMMA SortFailedInv == IInv /\ SortFailed => IInv'
BY DEF IInv, PhaseOK, PassInv, NoStaleOrder, SortFailed

LEMMA StoreOrderInv == IInv /\ StoreOrder => IInv'
<1> SUFFICES ASSUME IInv, StoreOrder PROVE IInv'
  OBVIOUS
<1>1. IsTopoOrder(graph, order)
  BY SortVerdicts DEF StoreOrder, IInv, PassInv
<1> QED BY <1>1 DEF StoreOrder, IInv, PhaseOK, PassInv, NoStaleOrder

LEMMA StutterInv == IInv /\ UNCHANGED vars => IInv'
<1> SUFFICES ASSUME IInv, UNCHANGED vars PROVE IInv'
  OBVIOUS
<1>1. UNCHANGED VP!vars /\ UNCHANGED TP!vars /\ graph' = graph
  BY DEF vars, vLocals, tLocals, VP!vars, TP!vars
<1>2. VP!IInv => VP!IInv'
  BY <1>1, CalleeAssumptions, VP!StutterInv
<1>3. TP!IInv => TP!IInv'
  BY <1>1, CalleeAssumptions, TP!StutterInv
<1> QED BY <1>1, <1>2, <1>3 DEF vars, IInv, PhaseOK, PassInv, NoStaleOrder

LEMMA NextInv == IInv /\ [Next]_vars => IInv'
BY EditInv, CallInv, ValidatingInv, ValidateFailedInv, BeginSortInv, SortingInv,
   SortFailedInv, StoreOrderInv, StutterInv DEF Next, CallSteps

LEMMA Inductive == Spec => []IInv
<1>1. Init => IInv
  BY InitInv
<1>2. IInv /\ [Next]_vars => IInv'
  BY NextInv
<1> QED BY <1>1, <1>2, PTL DEF Spec

-----------------------------------------------------------------------------
(* The results, for every set of graphs the owner may build.               *)

(* After a return and at every step of a call, an order that is present is *)
(* a topological order of the present graph: no failed call leaves one,    *)
(* and none survives from an earlier graph.                                *)
THEOREM OrdersAreFresh == Spec => []NoStaleOrder
<1>1. IInv => NoStaleOrder
  BY DEF IInv
<1> QED BY <1>1, Inductive, PTL

(* On a graph that ValidateStructure accepted, ComputeTopoOrder fails only *)
(* for a cycle or a self-loop, and the graph has one.                      *)
THEOREM PassesAgree == Spec => []SortFailsOnlyOnCycles
<1>1. IInv => SortFailsOnlyOnCycles
  <2> SUFFICES ASSUME IInv, phase = "sorting"
               PROVE  /\ tstatus \in {"none", "ok", "self_loop", "cycle"}
                      /\ tstatus \in {"self_loop", "cycle"} => HasCycle(graph)
    BY DEF SortFailsOnlyOnCycles
  <2> QED BY SortVerdicts DEF IInv, PassInv
<1> QED BY <1>1, Inductive, PTL

-----------------------------------------------------------------------------
(* The refinement.                                                         *)

LEMMA AbstractNames ==
  /\ Abstract!Graph = Graph
  /\ Abstract!Sortable <=> WellFormed(graph) /\ ~HasCycle(graph)
  /\ Abstract!IsTopoOrder(graph, order) <=> IsTopoOrder(graph, order)
<1>1. Abstract!Graph = Graph
  BY DEF Graph, Abstract!Graph, Node, Abstract!Node, Str, Abstract!Str
<1>2. Abstract!Sortable <=> WellFormed(graph) /\ ~HasCycle(graph)
  BY DEF Abstract!Sortable, WellFormed, Abstract!WellFormed, NonEmptyNames,
         Abstract!NonEmptyNames, NodeIds, Abstract!NodeIds, Outputs,
         Abstract!Outputs, Inputs, Abstract!Inputs, Refs, Abstract!Refs, IsSeed,
         Abstract!IsSeed, SingleAssignment, Abstract!SingleAssignment,
         DistinctOutputs, Abstract!DistinctOutputs, InputsDefined,
         Abstract!InputsDefined, IsProduced, Abstract!IsProduced, Produces,
         Abstract!Produces, HasCycle, Abstract!HasCycle, Trap, Abstract!Trap,
         Edge, Abstract!Edge, IsTopoOrder, Abstract!IsTopoOrder
<1>3. Abstract!IsTopoOrder(graph, order) <=> IsTopoOrder(graph, order)
  BY DEF WellFormed, Abstract!WellFormed, NonEmptyNames, Abstract!NonEmptyNames,
         NodeIds, Abstract!NodeIds, Outputs, Abstract!Outputs, Inputs,
         Abstract!Inputs, Refs, Abstract!Refs, IsSeed, Abstract!IsSeed,
         SingleAssignment, Abstract!SingleAssignment, DistinctOutputs,
         Abstract!DistinctOutputs, InputsDefined, Abstract!InputsDefined,
         IsProduced, Abstract!IsProduced, Produces, Abstract!Produces, HasCycle,
         Abstract!HasCycle, Trap, Abstract!Trap, Edge, Abstract!Edge,
         IsTopoOrder, Abstract!IsTopoOrder
<1> QED BY <1>1, <1>2, <1>3

(* A step of a pass is a stutter; a pass that fails is the abstract        *)
(* failure, and storing the order the abstract success.                    *)
LEMMA StepRefines == IInv /\ [Next]_vars => [Abstract!Next]_(Abstract!specVars)
<1> SUFFICES ASSUME IInv, [Next]_vars PROVE [Abstract!Next]_(Abstract!specVars)
  OBVIOUS
<1> USE DEF IInv, Abstract!specVars, Abstract!Next
<1>1. CASE Edit
  BY <1>1, AbstractNames, GraphsAssumption DEF Edit, Abstract!Edit, PhaseOK
<1>2. CASE Call
  BY <1>2 DEF Call, Abstract!Call, PhaseOK
<1>3. CASE Validating
  BY <1>3, ValidatingInv DEF Validating
<1>4. CASE ValidateFailed
  <2>1. ~WellFormed(graph)
    BY <1>4, ValidateVerdicts DEF ValidateFailed, PassInv
  <2> QED BY <2>1, <1>4, AbstractNames DEF ValidateFailed, Abstract!Fail, PhaseOK
<1>5. CASE BeginSort
  BY <1>5 DEF BeginSort
<1>6. CASE Sorting
  BY <1>6, SortingInv DEF Sorting
<1>7. CASE SortFailed
  <2>1. HasCycle(graph)
    BY <1>7, SortVerdicts DEF SortFailed, PassInv
  <2> QED BY <2>1, <1>7, AbstractNames DEF SortFailed, Abstract!Fail, PhaseOK
<1>8. CASE StoreOrder
  <2>1. WellFormed(graph) /\ ~HasCycle(graph) /\ IsTopoOrder(graph, order)
    BY <1>8, SortVerdicts DEF StoreOrder, PassInv
  <2> QED BY <2>1, <1>8, AbstractNames DEF StoreOrder, Abstract!Succeed, PhaseOK
<1>9. CASE UNCHANGED vars
  BY <1>9 DEF vars
<1> QED BY <1>1, <1>2, <1>3, <1>4, <1>5, <1>6, <1>7, <1>8, <1>9 DEF Next, CallSteps

(* The two passes and the assignment implement what topo_sort.h promises.  *)
THEOREM PrepareRefines == Spec => ImplementsPrepareSpec
<1>1. Init => Abstract!Init
  BY AbstractNames, GraphsAssumption DEF Init, Abstract!Init
<1>2. IInv /\ [Next]_vars => [Abstract!Next]_(Abstract!specVars)
  BY StepRefines
<1> QED BY <1>1, <1>2, Inductive, PTL DEF Spec, ImplementsPrepareSpec, Abstract!Spec
=============================================================================
