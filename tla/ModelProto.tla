----------------------------- MODULE ModelProto -----------------------------
(***************************************************************************)
(* onnx::ModelProto as src/ir/onnx_loader.cpp reads it, and what the       *)
(* documents say a model must be to be loaded and what graph it stands for *)
(* (docs/02-what-is-onnx.md, docs/design.md "Opset policy").               *)
(*                                                                         *)
(* A tensor inside a model is its verdict: TensorFromTensorProto converts  *)
(* it or refuses it (module TensorFromProto).  Names for diagnostics, the  *)
(* IR version (which only warns) and attribute payloads are left out; a    *)
(* domain is "", "ai.onnx" or "other".                                     *)
(***************************************************************************)
EXTENDS GraphIR, Integers, FiniteSetsExt

CONSTANTS
  Symbolic,    \* a dim with a dim_param and no dim_value
  Missing,     \* a dim with neither
  MinOpset,    \* kMinOpset
  MaxOpset     \* kMaxOpset

ASSUME DimAssumption == {Symbolic, Missing} \cap Int = {}
ASSUME OpsetAssumption == MinOpset \in Nat /\ MaxOpset \in Nat

Domain == {"", "ai.onnx", "other"}
CanonicalizeDomain(domain) == IF domain = "ai.onnx" THEN "" ELSE domain

TensorVerdict == {"ok", "bad_tensor"}

OperatorSetId == [domain : Domain, version : Int]
Initializer == [name : Str, tensor : TensorVerdict]
ValueInfo == [name : Str, has_shape : BOOLEAN, dims : Seq(Int \cup {Symbolic, Missing})]

(* has: the data fields that are set; tensor: the verdict on the field t,  *)
(* which when it is not set is a TensorProto without a data type.          *)
Field == {"t", "f", "i", "ints", "s"}
AttributeProto == [type   : {"TENSOR", "FLOAT", "INT", "INTS", "STRING", "UNDEFINED", "OTHER"},
                   has    : SUBSET Field,
                   tensor : TensorVerdict]

NodeProto == [op_type : Str, domain : Domain, attribute : Seq(AttributeProto),
              input : Seq(Str), output : Seq(Str)]

Model == [has_graph    : BOOLEAN,
          opset_import : Seq(OperatorSetId),
          initializer  : Seq(Initializer),
          input        : Seq(ValueInfo),
          output       : Seq(ValueInfo),
          value_info   : Seq(ValueInfo),
          node         : Seq(NodeProto)]

-----------------------------------------------------------------------------
(* MapAttribute: the declared type decides; an attribute of UNDEFINED type *)
(* is of the kind of the first field set, in the order of the probes.      *)
ProbeOrder == <<"t", "f", "i", "ints", "s">>

KindOfType == [TENSOR |-> "t", FLOAT |-> "f", INT |-> "i", INTS |-> "ints", STRING |-> "s"]

Kind(ap) ==
  IF ap.type \in DOMAIN KindOfType THEN KindOfType[ap.type]
  ELSE ProbeOrder[Min({j \in DOMAIN ProbeOrder : ProbeOrder[j] \in ap.has})]

TensorAttribute(ap) ==
  ap.type = "TENSOR" \/ (ap.type = "UNDEFINED" /\ "t" \in ap.has)

AttributeDefect(ap) ==
  CASE ap.type = "OTHER" -> "unsupported_attribute"
    [] ap.type = "UNDEFINED" /\ ap.has = {} -> "undefined_attribute"
    [] OTHER -> IF TensorAttribute(ap) /\ ap.tensor # "ok" THEN ap.tensor ELSE "none"

-----------------------------------------------------------------------------
(* The defects of each part of a model, in no order.                       *)
Listed(list) == {list[j] : j \in DOMAIN list}

OpsetDefects(m) ==
  LET imports == Listed(m.opset_import)
      versions == {id.version : id \in imports}
  IN  {d \in {"bad_domain", "opset_conflict", "no_opset", "opset_range"} :
         \/ d = "bad_domain" /\ \E id \in imports : CanonicalizeDomain(id.domain) # ""
         \/ d = "opset_conflict" /\ \E v, w \in versions : v # w
         \/ d = "no_opset" /\ imports = {}
         \/ d = "opset_range" /\ imports # {}
                              /\ \A v \in versions : v \notin MinOpset..MaxOpset}

InitializerDefects(m) ==
  {d \in {"unnamed_initializer", "bad_tensor", "duplicate_initializer"} :
     \E j \in DOMAIN m.initializer :
       \/ d = "unnamed_initializer" /\ m.initializer[j].name = Empty
       \/ d = "bad_tensor" /\ m.initializer[j].tensor # "ok"
       \/ d = "duplicate_initializer" /\ \E i \in 1..(j - 1) :
            m.initializer[i].name = m.initializer[j].name}

ValueDefects(list) ==
  {d \in {"symbolic_dim", "missing_dim", "negative_dim"} :
     \E vi \in Listed(list) : vi.has_shape /\ \E dim \in Listed(vi.dims) :
       \/ d = "symbolic_dim" /\ dim = Symbolic
       \/ d = "missing_dim" /\ dim = Missing
       \/ d = "negative_dim" /\ dim \in Int /\ dim < 0}

NodeDefects(m) ==
  UNION {{d \in {"no_op_type", "bad_node_domain"} :
            \/ d = "no_op_type" /\ np.op_type = Empty
            \/ d = "bad_node_domain" /\ CanonicalizeDomain(np.domain) # ""}
         \cup ({AttributeDefect(ap) : ap \in Listed(np.attribute)} \ {"none"})
         : np \in Listed(m.node)}

(* The parts in the order in which the loader looks at them.               *)
Parts(m) == <<IF m.has_graph THEN {} ELSE {"no_graph"},
              OpsetDefects(m), InitializerDefects(m), ValueDefects(m.input),
              ValueDefects(m.output), ValueDefects(m.value_info), NodeDefects(m)>>

Loadable(m) == \A p \in DOMAIN Parts(m) : Parts(m)[p] = {}

(* A defect of the first part that has one.                                *)
FirstDefects(m) ==
  UNION {Parts(m)[p] : p \in {q \in DOMAIN Parts(m) : \A r \in 1..(q - 1) : Parts(m)[r] = {}}}

(* Converting a tensor, good or bad, takes memory.                         *)
HasTensor(m) ==
  \/ m.initializer # <<>>
  \/ \E np \in Listed(m.node) : \E ap \in Listed(np.attribute) : TensorAttribute(ap)

-----------------------------------------------------------------------------
(* The graph a loadable model stands for.                                  *)
NodeOf(np) == [op_type |-> np.op_type, inputs |-> np.input, outputs |-> np.output]

Names(list) == [j \in DOMAIN list |-> list[j].name]

GraphOf(m) ==
  [nodes         |-> [j \in DOMAIN m.node |-> NodeOf(m.node[j])],
   initializers  |-> {i.name : i \in Listed(m.initializer)},
   graph_inputs  |-> Names(m.input),
   graph_outputs |-> Names(m.output)]

(* The attributes kept for each node are the kinds of its attributes.      *)
KindsOf(np) == [j \in DOMAIN np.attribute |-> Kind(np.attribute[j])]

(* A value declared several times has the shape declared last, where       *)
(* inputs come before outputs and outputs before the value_info list.      *)
ShapesOf(m) ==
  LET all == m.input \o m.output \o m.value_info
      shaped(x) == {j \in DOMAIN all : all[j].name = x /\ all[j].has_shape}
  IN  [x \in {vi.name : vi \in {v \in Listed(all) : v.has_shape}} |-> all[Max(shaped(x))].dims]
=============================================================================
