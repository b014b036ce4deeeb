---------------------------- MODULE LoadPipeline ----------------------------
(***************************************************************************)
(* From a file to an execution order, as docs/04-graph-and-topo.md and     *)
(* tests/topo_sort_test.cpp put the parts together: LoadGraphFromFile      *)
(* reads and parses the file (ModelFile, while others write to it) and     *)
(* maps the model (LoaderSpec, which OnnxLoader implements); the caller    *)
(* takes the graph and prepares it (PrepareSpec, which PrepareGraph        *)
(* implements).                                                            *)
(***************************************************************************)
EXTENDS ModelFile, ModelProto

CONSTANTS
  ModelOf(_),   \* the model that bytes protobuf accepts stand for
  NoModel       \* the unique_ptr before the parse

ASSUME ModelAssumption == \A n \in 0..MaxLen : \A c \in [1..n -> Byte] : ModelOf(c) \in Model

VARIABLES
  model, loaded, status,      \* of LoaderSpec
  graph, topo_order, result   \* of PrepareSpec

fileVars == vars   \* of ModelFile
loadVars == <<model, loaded, status>>
prepareVars == <<graph, topo_order, result>>
pipeVars == <<fileVars, loadVars, prepareVars>>

Loader == INSTANCE LoaderSpec
Prepare == INSTANCE PrepareSpec

EmptyGraph == [nodes |-> <<>>, initializers |-> {}, graph_inputs |-> <<>>, graph_outputs |-> <<>>]

PipeInit ==
  /\ Init
  /\ model = NoModel /\ loaded = Loader!Nothing /\ status = "none"
  /\ graph = EmptyGraph /\ topo_order = <<>> /\ result = "none"

-----------------------------------------------------------------------------
Read == Reader /\ UNCHANGED <<loadVars, prepareVars>>

(* What the caller does not do: the writers and the device.                *)
Others == (Writer \/ ReadFails) /\ UNCHANGED <<loadVars, prepareVars>>

(* Mutant of HaveModel: a parse that failed is not looked at.              *)
HaveModelAnyway == outcome \in {"ok", "bad_bytes"}

HaveModel == outcome = "ok"

(* LoadGraphFromFile: the first macro returns, or the model is passed on.  *)
PassModel ==
  /\ HaveModel /\ model = NoModel
  /\ model' = ModelOf(buf)
  /\ UNCHANGED <<fileVars, loaded, status, prepareVars>>

Map ==
  /\ model # NoModel
  /\ Loader!Accept \/ Loader!Reject \/ Loader!OutOfMemory
  /\ UNCHANGED <<fileVars, prepareVars>>

(* The caller moves the graph out and calls PrepareGraphStructure.         *)
CallPrepare ==
  /\ status = "ok" /\ result = "none"
  /\ graph' = loaded.graph
  /\ topo_order' = <<>> /\ result' = "running"
  /\ UNCHANGED <<fileVars, loadVars>>

PrepareOrder ==
  /\ \E s \in [NodeIds(graph) -> NodeIds(graph)] : topo_order' = s /\ Prepare!Succeed
  /\ UNCHANGED <<fileVars, loadVars>>

PrepareFails == Prepare!Fail /\ UNCHANGED <<fileVars, loadVars>>

Call == Read \/ PassModel \/ Map \/ CallPrepare \/ PrepareOrder \/ PrepareFails

(* A stage has failed, or the last one has succeeded.                      *)
Ended ==
  \/ outcome \notin {"none", "ok"}
  \/ status \notin {"none", "ok"}
  \/ result \in {"ok", "error"}

PipeNext == Call \/ Others \/ (Ended /\ UNCHANGED pipeVars)

(* The caller runs on, whatever the other processes and the device do.     *)
PipeSpec == PipeInit /\ [][PipeNext]_pipeVars /\ WF_pipeVars(Call)

-----------------------------------------------------------------------------
(* The first stage that fails is the last: what the later ones work on     *)
(* stays as it was before, and no graph is seen of a load that failed.     *)
FirstFailureEnds ==
  /\ outcome # "ok" => model = NoModel
  /\ status # "ok" => loaded = Loader!Nothing /\ graph = EmptyGraph
  /\ result # "ok" => topo_order = <<>>

(* Whatever was appended to the file in the meantime, the order handed out *)
(* is a topological order of the model the file held when its size was     *)
(* measured.                                                               *)
OrderFitsTheFile ==
  result = "ok" /\ appended =>
    IsTopoOrder(GraphOf(ModelOf(measured)), topo_order)

(* So are the errors: bytes that protobuf refused, a defect that the       *)
(* loader reported and a graph that could not be ordered are those of what *)
(* the file held then, and never of a mixture of contents.                 *)
ErrorsFitTheFile ==
  appended =>
    /\ outcome = "bad_bytes" => ~Parses(measured)
    /\ status \notin {"none", "ok", "oom"} => status \in Loader!FirstDefects(ModelOf(measured))
    /\ result = "error" => LET g == GraphOf(ModelOf(measured))
                           IN  ~Prepare!WellFormed(g) \/ Prepare!HasCycle(g)

(* The caller gets an order or an error, however the file changes while it *)
(* is read.                                                                *)
Answered == <>Ended
=============================================================================
