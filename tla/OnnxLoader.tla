----------------------------- MODULE OnnxLoader -----------------------------
(***************************************************************************)
(* LoadGraphFromModelProto (src/ir/onnx_loader.cpp), one behaviour per     *)
(* model: the opset imports, the initializers, the declared values and the *)
(* nodes are read one by one into the graph being built, and the first     *)
(* defect ends the call.  A step is one iteration of a loop.  "oom" is the *)
(* failure of an allocation for a tensor, returned or thrown; the small    *)
(* allocations of names and lists are taken to succeed.                    *)
(***************************************************************************)
EXTENDS ModelProto

CONSTANT Models   \* the models the function may be called with

ASSUME ModelsAssumption == Models \subseteq Model

VARIABLES
  model,    \* the argument, const in the code
  pc,       \* the loop the call is in
  at,       \* the position of the loop
  found,    \* ResolveOpset: the version seen last, -1 before the first
  graph,    \* the graph being built
  kinds,    \* the kinds of the attributes of its nodes
  shapes,   \* its value_shapes
  status    \* "none" until the call returns

vars == <<model, pc, at, found, graph, kinds, shapes, status>>

EmptyGraph == [nodes |-> <<>>, initializers |-> {}, graph_inputs |-> <<>>, graph_outputs |-> <<>>]

Init ==
  /\ model \in Models
  /\ pc = "entry" /\ at = 1
  /\ found = -1
  /\ graph = EmptyGraph /\ kinds = <<>> /\ shapes = <<>>
  /\ status = "none"

Return(verdict) ==
  /\ pc' = "done" /\ status' = verdict
  /\ UNCHANGED <<model, at, found, graph, kinds, shapes>>

(* The loops in their order, and the list each of them goes through.       *)
Lists == [opset_import |-> model.opset_import, initializer |-> model.initializer,
          input |-> model.input, output |-> model.output,
          value_info |-> model.value_info, node |-> model.node]

After == [opset_import |-> "range", initializer |-> "input", input |-> "output",
          output |-> "value_info", value_info |-> "node", node |-> "built"]

In(loop) == pc = loop /\ at <= Len(Lists[loop])
Item == Lists[pc][at]

Advance == at' = at + 1 /\ UNCHANGED <<model, pc, status>>

(* Mutant of LeaveLoop: the next loop starts where the last one ended.     *)
LeaveLoopInPlace ==
  /\ pc \in DOMAIN Lists /\ at > Len(Lists[pc])
  /\ pc' = After[pc]
  /\ UNCHANGED <<model, at, found, graph, kinds, shapes, status>>

LeaveLoop ==
  /\ pc \in DOMAIN Lists
  /\ at > Len(Lists[pc])
  /\ pc' = After[pc] /\ at' = 1
  /\ UNCHANGED <<model, found, graph, kinds, shapes, status>>

-----------------------------------------------------------------------------
Enter ==
  /\ pc = "entry"
  /\ \/ ~model.has_graph /\ Return("no_graph")
     \/ /\ model.has_graph
        /\ pc' = "opset_import"
        /\ UNCHANGED <<model, at, found, graph, kinds, shapes, status>>

(* ResolveOpset.  saw_default is at > 1: every import read was default.    *)
(* Mutant of Conflict: only imports of one spelling are compared.          *)
ConflictOfSpelling ==
  \E i \in 1..(at - 1) : /\ Lists[pc][i].domain = Item.domain
                          /\ Lists[pc][i].version # Item.version

Conflict == at > 1 /\ found # Item.version

ResolveImport ==
  /\ In("opset_import")
  /\ \/ CanonicalizeDomain(Item.domain) # "" /\ Return("bad_domain")
     \/ CanonicalizeDomain(Item.domain) = "" /\ Conflict /\ Return("opset_conflict")
     \/ /\ CanonicalizeDomain(Item.domain) = "" /\ ~Conflict
        /\ found' = Item.version
        /\ Advance /\ UNCHANGED <<graph, kinds, shapes>>

OpsetInRange == found \in MinOpset..MaxOpset

CheckRange ==
  /\ pc = "range"
  /\ \/ model.opset_import = <<>> /\ Return("no_opset")
     \/ model.opset_import # <<>> /\ ~OpsetInRange /\ Return("opset_range")
     \/ /\ model.opset_import # <<>> /\ OpsetInRange
        /\ pc' = "initializer"
        /\ UNCHANGED <<model, at, found, graph, kinds, shapes, status>>

-----------------------------------------------------------------------------
(* The name, then the tensor, whose memory may run out, then the map.      *)
InitializerDefect ==
  IF Item.name = Empty THEN "unnamed_initializer"
  ELSE IF Item.tensor # "ok" THEN Item.tensor
  ELSE IF Item.name \in graph.initializers THEN "duplicate_initializer"
  ELSE "none"

MapInitializer ==
  /\ In("initializer")
  /\ \/ InitializerDefect # "none" /\ Return(InitializerDefect)
     \/ Item.name # Empty /\ Return("oom")
     \/ /\ InitializerDefect = "none"
        /\ graph' = [graph EXCEPT !.initializers = @ \cup {Item.name}]
        /\ Advance /\ UNCHANGED <<found, kinds, shapes>>

-----------------------------------------------------------------------------
(* ShapeFromValueInfo: the first dim without a value decides, and only     *)
(* when all have one does FromSignedDims look for a negative dim.          *)
ShapeDefect(vi) ==
  LET open == {j \in DOMAIN vi.dims : vi.dims[j] \in {Symbolic, Missing}}
  IN  IF ~vi.has_shape THEN "none"
      ELSE IF open # {}
           THEN IF vi.dims[Min(open)] = Symbolic THEN "symbolic_dim" ELSE "missing_dim"
      ELSE IF \E j \in DOMAIN vi.dims : vi.dims[j] < 0 THEN "negative_dim"
      ELSE "none"

(* g.value_shapes[name] = shape; a value without a shape leaves the map    *)
(* alone.                                                                  *)
(* Mutant of Hint: emplace, which keeps the shape that is there.           *)
HintOnce(vi) ==
  IF ~vi.has_shape \/ vi.name \in DOMAIN shapes THEN shapes
  ELSE [x \in DOMAIN shapes \cup {vi.name} |-> IF x = vi.name THEN vi.dims ELSE shapes[x]]

Hint(vi) ==
  IF ~vi.has_shape THEN shapes
  ELSE [x \in DOMAIN shapes \cup {vi.name} |-> IF x = vi.name THEN vi.dims ELSE shapes[x]]

DeclareValue(loop) ==
  /\ In(loop)
  /\ \/ ShapeDefect(Item) # "none" /\ Return(ShapeDefect(Item))
     \/ /\ ShapeDefect(Item) = "none"
        /\ graph' = CASE loop = "input" -> [graph EXCEPT !.graph_inputs = Append(@, Item.name)]
                      [] loop = "output" -> [graph EXCEPT !.graph_outputs = Append(@, Item.name)]
                      [] OTHER -> graph
        /\ shapes' = Hint(Item)
        /\ Advance /\ UNCHANGED <<found, kinds>>

-----------------------------------------------------------------------------
(* MapNode: the operator, the domain, then the attributes in order.        *)
NodeDefect(np) ==
  LET bad == {j \in DOMAIN np.attribute : AttributeDefect(np.attribute[j]) # "none"}
  IN  IF np.op_type = Empty THEN "no_op_type"
      ELSE IF CanonicalizeDomain(np.domain) # "" THEN "bad_node_domain"
      ELSE IF bad # {} THEN AttributeDefect(np.attribute[Min(bad)])
      ELSE "none"

(* MapAttribute: the type decides; without one the fields are probed.      *)
Probe(ap) ==
  IF "t" \in ap.has THEN "t" ELSE IF "f" \in ap.has THEN "f" ELSE IF "i" \in ap.has THEN "i"
  ELSE IF "ints" \in ap.has THEN "ints" ELSE "s"

MapAttribute(ap) == IF ap.type = "UNDEFINED" THEN Probe(ap) ELSE KindOfType[ap.type]

(* The tensor attributes up to the first bad attribute are converted.      *)
ConvertsTensor(np) ==
  /\ np.op_type # Empty /\ CanonicalizeDomain(np.domain) = ""
  /\ \E j \in DOMAIN np.attribute :
       /\ \A i \in 1..(j - 1) : AttributeDefect(np.attribute[i]) = "none"
       /\ TensorAttribute(np.attribute[j])

MapNode ==
  /\ In("node")
  /\ \/ NodeDefect(Item) # "none" /\ Return(NodeDefect(Item))
     \/ ConvertsTensor(Item) /\ Return("oom")
     \/ /\ NodeDefect(Item) = "none"
        /\ graph' = [graph EXCEPT !.nodes = Append(@, NodeOf(Item))]
        /\ kinds' = Append(kinds, [j \in DOMAIN Item.attribute |-> MapAttribute(Item.attribute[j])])
        /\ Advance /\ UNCHANGED <<found, shapes>>

Finish == pc = "built" /\ Return("ok")

(* The call has returned; nothing happens any more.                        *)
Returned == pc = "done" /\ UNCHANGED vars

Next ==
  \/ Enter \/ LeaveLoop
  \/ ResolveImport \/ CheckRange
  \/ MapInitializer
  \/ \E loop \in {"input", "output", "value_info"} : DeclareValue(loop)
  \/ MapNode
  \/ Finish \/ Returned

(* The call is sequential code: it runs until it returns.                  *)
Spec == Init /\ [][Next]_vars /\ WF_vars(Next)

-----------------------------------------------------------------------------
(* The position never leaves the list by more than one, and a call has a   *)
(* status exactly when it has returned.                                    *)
TypeOK ==
  /\ model \in Model
  /\ pc \in DOMAIN Lists \cup {"entry", "range", "built", "done"}
  /\ at \in Nat \ {0} /\ (pc \in DOMAIN Lists => at <= Len(Lists[pc]) + 1)
  /\ found \in Int
  /\ graph \in Graph /\ DOMAIN kinds = NodeIds(graph)
  /\ DOMAIN shapes \subseteq Str /\ \A x \in DOMAIN shapes : shapes[x] \in Seq(Nat)
  /\ status \in FirstDefects(model) \cup {"none", "ok", "oom"}
  /\ (pc = "done") = (status # "none")

(* ResolveOpset lets exactly the models through whose imports, in whatever *)
(* order, number and spelling of the default domain, are all of one        *)
(* version, and the version that all later steps work with is that one.    *)
OneVersion ==
  (pc \notin {"entry", "opset_import", "range"} /\ status \notin {"no_graph"} \cup OpsetDefects(model))
    => {id.version : id \in Listed(model.opset_import)} = {found}

(* The call implements its abstract specification: it returns, and what it *)
(* returns is the graph the model stands for, with the shape each value is *)
(* declared with last, or a defect of the first part that has one.         *)
Abstract == INSTANCE LoaderSpec WITH
  loaded <- IF status = "ok"
            THEN [opset |-> found, graph |-> graph, kinds |-> kinds, shapes |-> shapes]
            ELSE [opset |-> -1]

ImplementsLoaderSpec == Abstract!Spec
=============================================================================
