-------------------------- MODULE OnnxLoaderProofs --------------------------
(***************************************************************************)
(* Proofs about OnnxLoader, for every set of models: parts of any length,  *)
(* any names, dims and versions.                                           *)
(***************************************************************************)
EXTENDS OnnxLoader, WellFoundedInduction, TLAPS

-----------------------------------------------------------------------------
(* The inductive invariant: what the loops have read so far has no defect, *)
(* and what they have built is what the specification says of it.          *)

Rank(p) ==
  CASE p = "entry" -> 0 [] p = "opset_import" -> 1 [] p = "range" -> 2
    [] p = "initializer" -> 3 [] p = "input" -> 4 [] p = "output" -> 5
    [] p = "value_info" -> 6 [] p = "node" -> 7 [] OTHER -> 8

(* How much of a list its loop has read.                                   *)
Read(loop, list) ==
  IF pc = loop THEN at - 1 ELSE IF Rank(pc) > Rank(loop) THEN Len(list) ELSE 0

ImportsRead(n) ==
  /\ n = 0 => found = -1
  /\ \A i \in 1..n : /\ CanonicalizeDomain(model.opset_import[i].domain) = ""
                     /\ model.opset_import[i].version = found

OpsetFits == pc \notin {"entry", "opset_import", "range"} =>
               model.opset_import # <<>> /\ OpsetInRange

InitializersRead(n) ==
  LET list == model.initializer
  IN  /\ graph.initializers = {list[i].name : i \in 1..n}
      /\ \A i \in 1..n : list[i].name # Empty /\ list[i].tensor = "ok"
      /\ \A i, j \in 1..n : i < j => list[i].name # list[j].name

ValuesRead(list, n) == \A i \in 1..n : ShapeDefect(list[i]) = "none"

(* Inputs, outputs and value_infos, in the order in which their shapes are *)
(* put into the map.                                                       *)
Declared == model.input \o model.output \o model.value_info

Shaped(n) == {i \in 1..n : Declared[i].has_shape}

(* The map has the names of the first n values with a shape, and each name *)
(* the shape of the last of them.                                          *)
Hints(f, n) ==
  /\ f = [x \in DOMAIN f |-> f[x]]
  /\ DOMAIN f = {Declared[i].name : i \in Shaped(n)}
  /\ \A i \in Shaped(n) :
       (\A j \in Shaped(n) : j > i => Declared[j].name # Declared[i].name)
         => f[Declared[i].name] = Declared[i].dims

NodesRead(n) ==
  /\ \A i \in 1..n : NodeDefect(model.node[i]) = "none"
  /\ graph.nodes = [i \in 1..n |-> NodeOf(model.node[i])]
  /\ kinds = [i \in 1..n |-> KindsOf(model.node[i])]

(* The parts, each as far as its loop has come.                            *)
ImportsDone == ImportsRead(Read("opset_import", model.opset_import))

InitializersDone == InitializersRead(Read("initializer", model.initializer))

InputsDone ==
  /\ ValuesRead(model.input, Read("input", model.input))
  /\ graph.graph_inputs = [i \in 1..Read("input", model.input) |-> model.input[i].name]

OutputsDone ==
  /\ ValuesRead(model.output, Read("output", model.output))
  /\ graph.graph_outputs = [i \in 1..Read("output", model.output) |-> model.output[i].name]

InfosDone == ValuesRead(model.value_info, Read("value_info", model.value_info))

DeclaredRead == Read("input", model.input) + Read("output", model.output)
                  + Read("value_info", model.value_info)

HintsDone == Hints(shapes, DeclaredRead)

NodesDone == NodesRead(Read("node", model.node))

Progress ==
  /\ pc # "entry" => model.has_graph
  /\ pc \in {"entry", "range"} => at = 1
  /\ ImportsDone /\ OpsetFits
  /\ InitializersDone
  /\ InputsDone /\ OutputsDone /\ InfosDone /\ HintsDone
  /\ NodesDone

IInv == TypeOK /\ OneVersion /\ (pc # "done" => Progress)

-----------------------------------------------------------------------------
(* The least and the greatest of a set of numbers.                         *)

LEMMA MinIs ==
  ASSUME NEW S \in SUBSET Nat, S # {}
  PROVE  Min(S) \in S /\ \A y \in S : Min(S) <= y
<1> DEFINE R == OpToRel(<, Nat)
<1>1. \E x \in S : \A y \in S : ~ (<<y, x>> \in R)
  <2>1. IsWellFoundedOn(R, Nat)
    BY NatLessThanWellFounded
  <2> HIDE DEF R
  <2> QED BY <2>1, WFMin
<1>2. \A x \in S, y \in S : y < x => <<y, x>> \in R
  BY DEF OpToRel
<1>3. \E x \in S : \A y \in S : x <= y
  <2> HIDE DEF R
  <2>1. \E x \in S : \A y \in S : ~(y < x)
    BY <1>1, <1>2
  <2> QED BY <2>1
<1> QED BY <1>3 DEF Min

LEMMA MaxIs ==
  ASSUME NEW S \in SUBSET Nat, NEW m \in S, \A y \in S : y <= m
  PROVE  Max(S) = m
<1>1. /\ m \in S /\ \A y \in S : m >= y
      /\ \A x \in S : (\A y \in S : x >= y) => x = m
  OBVIOUS
<1> QED BY <1>1 DEF Max

-----------------------------------------------------------------------------
(* Models and their parts.                                                 *)

LEMMA ModelFacts ==
  ASSUME model \in Model
  PROVE  /\ model.has_graph \in BOOLEAN
         /\ model.opset_import \in Seq(OperatorSetId)
         /\ model.initializer \in Seq(Initializer)
         /\ model.input \in Seq(ValueInfo) /\ model.output \in Seq(ValueInfo)
         /\ model.value_info \in Seq(ValueInfo)
         /\ model.node \in Seq(NodeProto)
BY DEF Model

LEMMA ListedIs ==
  ASSUME NEW S, NEW list \in Seq(S)
  PROVE  /\ Len(list) \in Nat /\ DOMAIN list = 1..Len(list)
         /\ \A i \in 1..Len(list) : list[i] \in S /\ list[i] \in Listed(list)
         /\ \A x \in Listed(list) : x \in S /\ \E i \in 1..Len(list) : x = list[i]
BY DEF Listed

LEMMA ListFacts ==
  /\ DOMAIN Lists = {"opset_import", "initializer", "input", "output", "value_info", "node"}
  /\ Lists["opset_import"] = model.opset_import /\ Lists["initializer"] = model.initializer
  /\ Lists["input"] = model.input /\ Lists["output"] = model.output
  /\ Lists["value_info"] = model.value_info /\ Lists["node"] = model.node
BY DEF Lists

(* The defects of a part are first defects when no earlier part has any.   *)
LEMMA FirstDefectsAre ==
  ASSUME NEW m
  PROVE  /\ ~m.has_graph => "no_graph" \in FirstDefects(m)
         /\ m.has_graph => OpsetDefects(m) \subseteq FirstDefects(m)
         /\ m.has_graph /\ OpsetDefects(m) = {} =>
              /\ InitializerDefects(m) \subseteq FirstDefects(m)
              /\ InitializerDefects(m) = {} =>
                   /\ ValueDefects(m.input) \subseteq FirstDefects(m)
                   /\ ValueDefects(m.input) = {} =>
                        /\ ValueDefects(m.output) \subseteq FirstDefects(m)
                        /\ ValueDefects(m.output) = {} =>
                             /\ ValueDefects(m.value_info) \subseteq FirstDefects(m)
                             /\ ValueDefects(m.value_info) = {} =>
                                  NodeDefects(m) \subseteq FirstDefects(m)
<1> DEFINE P == Parts(m)
<1>1. /\ DOMAIN P = 1..7
      /\ P[1] = (IF m.has_graph THEN {} ELSE {"no_graph"})
      /\ P[2] = OpsetDefects(m) /\ P[3] = InitializerDefects(m)
      /\ P[4] = ValueDefects(m.input) /\ P[5] = ValueDefects(m.output)
      /\ P[6] = ValueDefects(m.value_info) /\ P[7] = NodeDefects(m)
  BY DEF Parts
<1>2. ASSUME NEW p \in 1..7, \A r \in 1..(p - 1) : P[r] = {}
      PROVE  P[p] \subseteq FirstDefects(m)
  BY <1>1, <1>2 DEF FirstDefects
<1> HIDE DEF P
<1>3. ~m.has_graph => "no_graph" \in FirstDefects(m)
  BY <1>1, <1>2
<1>4. \A p \in 1..7 : (\A r \in 1..(p - 1) : P[r] = {}) => P[p] \subseteq FirstDefects(m)
  BY <1>2
<1>5. ASSUME m.has_graph PROVE P[1] = {} /\ OpsetDefects(m) \subseteq FirstDefects(m)
  BY <1>1, <1>4, <1>5
<1>6. ASSUME P[1] = {}, P[2] = {} PROVE P[3] \subseteq FirstDefects(m)
  BY <1>4, <1>6
<1>7. ASSUME P[1] = {}, P[2] = {}, P[3] = {} PROVE P[4] \subseteq FirstDefects(m)
  BY <1>4, <1>7
<1>8. ASSUME P[1] = {}, P[2] = {}, P[3] = {}, P[4] = {} PROVE P[5] \subseteq FirstDefects(m)
  BY <1>4, <1>8
<1>9. ASSUME P[1] = {}, P[2] = {}, P[3] = {}, P[4] = {}, P[5] = {}
      PROVE  P[6] \subseteq FirstDefects(m)
  BY <1>4, <1>9
<1>10. ASSUME P[1] = {}, P[2] = {}, P[3] = {}, P[4] = {}, P[5] = {}, P[6] = {}
       PROVE  P[7] \subseteq FirstDefects(m)
  BY <1>4, <1>10
<1> QED BY <1>1, <1>3, <1>5, <1>6, <1>7, <1>8, <1>9, <1>10

LEMMA LoadableIs ==
  ASSUME NEW m, m.has_graph, OpsetDefects(m) = {}, InitializerDefects(m) = {},
         ValueDefects(m.input) = {}, ValueDefects(m.output) = {},
         ValueDefects(m.value_info) = {}, NodeDefects(m) = {}
  PROVE  Loadable(m)
BY DEF Loadable, Parts

-----------------------------------------------------------------------------
(* What the loops test, and the defects of the documents.                  *)

LEMMA ShapeDefectIs ==
  ASSUME NEW vi \in ValueInfo
  PROVE  /\ ShapeDefect(vi) \in {"none", "symbolic_dim", "missing_dim", "negative_dim"}
         /\ ShapeDefect(vi) = "none" =>
              /\ vi.has_shape => vi.dims \in Seq(Nat)
              /\ ~ (vi.has_shape /\ \E dim \in Listed(vi.dims) :
                      dim = Symbolic \/ dim = Missing \/ (dim \in Int /\ dim < 0))
         /\ ShapeDefect(vi) # "none" =>
              vi.has_shape /\ \E dim \in Listed(vi.dims) :
                \/ ShapeDefect(vi) = "symbolic_dim" /\ dim = Symbolic
                \/ ShapeDefect(vi) = "missing_dim" /\ dim = Missing
                \/ ShapeDefect(vi) = "negative_dim" /\ dim \in Int /\ dim < 0
<1> DEFINE open == {j \in DOMAIN vi.dims : vi.dims[j] \in {Symbolic, Missing}}
<1>1. /\ vi.has_shape \in BOOLEAN /\ vi.dims \in Seq(Int \cup {Symbolic, Missing})
      /\ Len(vi.dims) \in Nat /\ DOMAIN vi.dims = 1..Len(vi.dims)
      /\ \A j \in DOMAIN vi.dims : vi.dims[j] \in Int \cup {Symbolic, Missing}
  BY DEF ValueInfo
<1>2. \A j \in DOMAIN vi.dims : vi.dims[j] \in Listed(vi.dims)
  BY DEF Listed
<1>3. CASE ~vi.has_shape
  BY <1>3 DEF ShapeDefect
<1>4. CASE vi.has_shape /\ open # {}
  <2>1. open \in SUBSET Nat
    BY <1>1
  <2>2. Min(open) \in open
    BY <2>1, <1>4, MinIs
  <2>3. ShapeDefect(vi) = IF vi.dims[Min(open)] = Symbolic THEN "symbolic_dim" ELSE "missing_dim"
    BY <1>4 DEF ShapeDefect
  <2> QED BY <2>2, <2>3, <1>2, <1>4
<1>5. CASE vi.has_shape /\ open = {}
  <2>1. \A j \in DOMAIN vi.dims : vi.dims[j] \in Int
    BY <1>1, <1>5
  <2>2. ShapeDefect(vi) = IF \E j \in DOMAIN vi.dims : vi.dims[j] < 0 THEN "negative_dim" ELSE "none"
    BY <1>5 DEF ShapeDefect
  <2>3. CASE \E j \in DOMAIN vi.dims : vi.dims[j] < 0
    BY <2>1, <2>2, <2>3, <1>2, <1>5
  <2>4. CASE ~ \E j \in DOMAIN vi.dims : vi.dims[j] < 0
    <3>1. vi.dims \in Seq(Nat)
      BY <2>1, <2>4, <1>1
    <3>2. \A dim \in Listed(vi.dims) : dim \in Nat
      BY <2>1, <2>4 DEF Listed
    <3> QED BY <3>1, <3>2, <2>2, <2>4, DimAssumption
  <2> QED BY <2>3, <2>4
<1> QED BY <1>1, <1>3, <1>4, <1>5

LEMMA ValuesSound ==
  ASSUME NEW list \in Seq(ValueInfo), ValuesRead(list, Len(list))
  PROVE  ValueDefects(list) = {}
<1>1. \A vi \in Listed(list) : vi \in ValueInfo /\ ShapeDefect(vi) = "none"
  BY DEF Listed, ValuesRead
<1> QED BY <1>1, ShapeDefectIs DEF ValueDefects

LEMMA ValueUnsound ==
  ASSUME NEW list \in Seq(ValueInfo), NEW vi \in Listed(list), ShapeDefect(vi) # "none"
  PROVE  ShapeDefect(vi) \in ValueDefects(list)
<1>1. vi \in ValueInfo
  BY DEF Listed
<1> QED BY <1>1, ShapeDefectIs DEF ValueDefects

(* The probes find the first field of ProbeOrder that is set.              *)
LEMMA KindIs ==
  ASSUME NEW ap \in AttributeProto, AttributeDefect(ap) = "none"
  PROVE  MapAttribute(ap) = Kind(ap)
<1>1. ap.type \in {"TENSOR", "FLOAT", "INT", "INTS", "STRING", "UNDEFINED", "OTHER"}
      /\ ap.has \in SUBSET Field
  BY DEF AttributeProto
<1>2. ap.type # "OTHER" /\ (ap.type = "UNDEFINED" => ap.has # {})
  BY DEF AttributeDefect
<1>3. CASE ap.type # "UNDEFINED"
  BY <1>1, <1>2, <1>3 DEF MapAttribute, Kind, KindOfType
<1>4. CASE ap.type = "UNDEFINED"
  <2> DEFINE S == {j \in DOMAIN ProbeOrder : ProbeOrder[j] \in ap.has}
  <2>1. /\ DOMAIN ProbeOrder = 1..5
        /\ ProbeOrder[1] = "t" /\ ProbeOrder[2] = "f" /\ ProbeOrder[3] = "i"
        /\ ProbeOrder[4] = "ints" /\ ProbeOrder[5] = "s"
    BY DEF ProbeOrder
  <2>2. S \in SUBSET Nat /\ S # {}
    BY <2>1, <1>1, <1>2, <1>4 DEF Field
  <2>3. Min(S) \in S /\ \A y \in S : Min(S) <= y
    BY <2>2, MinIs
  <2>4. Kind(ap) = ProbeOrder[Min(S)]
    BY <1>4 DEF Kind, KindOfType
  <2>5. /\ "t" \in ap.has => 1 \in S
        /\ "f" \in ap.has => 2 \in S
        /\ "i" \in ap.has => 3 \in S
        /\ "ints" \in ap.has => 4 \in S
    BY <2>1
  <2>6. Min(S) \in 1..5 /\ ProbeOrder[Min(S)] \in ap.has
    BY <2>1, <2>3
  <2>7. MapAttribute(ap) = Probe(ap)
    BY <1>4 DEF MapAttribute
  <2> HIDE DEF S
  <2>8. \/ Min(S) = 1 \/ Min(S) = 2 \/ Min(S) = 3 \/ Min(S) = 4 \/ Min(S) = 5
    BY <2>6
  <2> QED BY <2>1, <2>3, <2>4, <2>5, <2>6, <2>7, <2>8 DEF Probe
<1> QED BY <1>3, <1>4

LEMMA NodeDefectIs ==
  ASSUME NEW np \in NodeProto
  PROVE  /\ NodeDefect(np) = "none" =>
              /\ np.op_type # Empty /\ CanonicalizeDomain(np.domain) = ""
              /\ \A ap \in Listed(np.attribute) : AttributeDefect(ap) = "none"
              /\ [j \in DOMAIN np.attribute |-> MapAttribute(np.attribute[j])] = KindsOf(np)
         /\ NodeDefect(np) # "none" =>
              \/ NodeDefect(np) = "no_op_type" /\ np.op_type = Empty
              \/ NodeDefect(np) = "bad_node_domain" /\ CanonicalizeDomain(np.domain) # ""
              \/ NodeDefect(np) \in {AttributeDefect(ap) : ap \in Listed(np.attribute)}
<1> DEFINE bad == {j \in DOMAIN np.attribute : AttributeDefect(np.attribute[j]) # "none"}
<1>1. /\ np.attribute \in Seq(AttributeProto) /\ DOMAIN np.attribute = 1..Len(np.attribute)
      /\ Len(np.attribute) \in Nat
      /\ \A j \in DOMAIN np.attribute : np.attribute[j] \in AttributeProto
  BY DEF NodeProto
<1>2. CASE np.op_type = Empty
  BY <1>2 DEF NodeDefect
<1>3. CASE np.op_type # Empty /\ CanonicalizeDomain(np.domain) # ""
  BY <1>3 DEF NodeDefect
<1>4. CASE np.op_type # Empty /\ CanonicalizeDomain(np.domain) = "" /\ bad # {}
  <2>1. NodeDefect(np) = AttributeDefect(np.attribute[Min(bad)])
    BY <1>4 DEF NodeDefect
  <2>2. bad \in SUBSET Nat
    BY <1>1
  <2>3. Min(bad) \in bad
    BY <2>2, <1>4, MinIs
  <2> QED BY <2>1, <2>3 DEF Listed
<1>5. CASE np.op_type # Empty /\ CanonicalizeDomain(np.domain) = "" /\ bad = {}
  <2>1. NodeDefect(np) = "none"
    BY <1>5 DEF NodeDefect
  <2>2. \A j \in DOMAIN np.attribute : AttributeDefect(np.attribute[j]) = "none"
    BY <1>5
  <2>3. \A j \in DOMAIN np.attribute : MapAttribute(np.attribute[j]) = Kind(np.attribute[j])
    BY <2>2, <1>1, KindIs
  <2> QED BY <2>1, <2>2, <2>3, <1>5 DEF Listed, KindsOf
<1> QED BY <1>2, <1>3, <1>4, <1>5

LEMMA NodesSound ==
  ASSUME NEW m \in Model, \A i \in 1..Len(m.node) : NodeDefect(m.node[i]) = "none"
  PROVE  NodeDefects(m) = {}
<1>1. \A np \in Listed(m.node) : np \in NodeProto /\ NodeDefect(np) = "none"
  <2>1. m.node \in Seq(NodeProto)
    BY DEF Model
  <2> QED BY <2>1, ListedIs
<1>2. \A np \in Listed(m.node) :
        /\ np.op_type # Empty /\ CanonicalizeDomain(np.domain) = ""
        /\ \A ap \in Listed(np.attribute) : AttributeDefect(ap) = "none"
  BY <1>1, NodeDefectIs
<1> QED BY <1>2 DEF NodeDefects

LEMMA NodeUnsound ==
  ASSUME NEW m \in Model, NEW np \in Listed(m.node), NodeDefect(np) # "none"
  PROVE  NodeDefect(np) \in NodeDefects(m)
<1> DEFINE own == {d \in {"no_op_type", "bad_node_domain"} :
                     \/ d = "no_op_type" /\ np.op_type = Empty
                     \/ d = "bad_node_domain" /\ CanonicalizeDomain(np.domain) # ""}
                  \cup ({AttributeDefect(ap) : ap \in Listed(np.attribute)} \ {"none"})
<1>1. np \in NodeProto
  <2>1. m.node \in Seq(NodeProto)
    BY DEF Model
  <2> QED BY <2>1, ListedIs
<1>2. NodeDefect(np) \in own
  BY <1>1, NodeDefectIs
<1>3. own \subseteq NodeDefects(m)
  BY DEF NodeDefects
<1> QED BY <1>2, <1>3

LEMMA InitializersSound ==
  ASSUME model \in Model, InitializersRead(Len(model.initializer))
  PROVE  InitializerDefects(model) = {}
<1>1. /\ DOMAIN model.initializer = 1..Len(model.initializer) /\ Len(model.initializer) \in Nat
  BY ModelFacts
<1> QED BY <1>1 DEF InitializersRead, InitializerDefects

(* All imports are of the version found last, which is in the range.       *)
LEMMA ImportsSound ==
  ASSUME model \in Model, ImportsRead(Len(model.opset_import)),
         model.opset_import # <<>>
  PROVE  /\ {id.version : id \in Listed(model.opset_import)} = {found}
         /\ model.opset_import[1].version = found
         /\ OpsetInRange => OpsetDefects(model) = {}
         /\ ~OpsetInRange => "opset_range" \in OpsetDefects(model)
<1> DEFINE imports == Listed(model.opset_import)
           versions == {id.version : id \in imports}
<1>1. /\ DOMAIN model.opset_import = 1..Len(model.opset_import) /\ Len(model.opset_import) \in Nat
      /\ Len(model.opset_import) # 0
  BY ModelFacts
<1>2. /\ \A id \in imports : CanonicalizeDomain(id.domain) = "" /\ id.version = found
      /\ model.opset_import[1] \in imports
  <2>1. model.opset_import \in Seq(OperatorSetId)
    BY ModelFacts
  <2>2. \A id \in imports : \E i \in 1..Len(model.opset_import) : id = model.opset_import[i]
    BY <2>1, ListedIs
  <2>3. model.opset_import[1] \in imports
    BY <2>1, <1>1, ListedIs
  <2> HIDE DEF imports
  <2> QED BY <2>2, <2>3 DEF ImportsRead
<1> HIDE DEF imports
<1>3. versions = {found} /\ imports # {}
  BY <1>2
<1>4. \A d : d \in OpsetDefects(model) <=>
        /\ d \in {"bad_domain", "opset_conflict", "no_opset", "opset_range"}
        /\ \/ d = "bad_domain" /\ \E id \in imports : CanonicalizeDomain(id.domain) # ""
           \/ d = "opset_conflict" /\ \E v, w \in versions : v # w
           \/ d = "no_opset" /\ imports = {}
           \/ d = "opset_range" /\ imports # {}
                                /\ \A v \in versions : v \notin MinOpset..MaxOpset
  BY DEF OpsetDefects, imports
<1> HIDE DEF versions
<1>5. OpsetInRange => OpsetDefects(model) = {}
  BY <1>2, <1>3, <1>4 DEF OpsetInRange
<1>6. ~OpsetInRange => "opset_range" \in OpsetDefects(model)
  BY <1>3, <1>4 DEF OpsetInRange
<1> QED BY <1>2, <1>3, <1>5, <1>6 DEF versions, imports

-----------------------------------------------------------------------------
(* What does not change.                                                   *)

LEMMA HintsAgain ==
  ASSUME model' = model, NEW f, NEW n, Hints(f, n), shapes' = f, DeclaredRead' = n
  PROVE  HintsDone'
<1> DEFINE shaped == Shaped(DeclaredRead)
<1>1. Declared' = Declared
  BY DEF Declared
<1>2. shaped' = Shaped(n)
  BY <1>1 DEF Shaped
<1>3. HintsDone' <=>
        /\ shapes' = [x \in DOMAIN shapes' |-> shapes'[x]]
        /\ DOMAIN shapes' = {Declared[i].name' : i \in shaped'}
        /\ \A i \in shaped' :
             (\A j \in shaped' : j > i => Declared[j].name' # Declared[i].name')
               => shapes'[Declared[i].name'] = Declared[i].dims'
  BY DEF HintsDone, Hints
<1> HIDE DEF shaped
<1> QED BY <1>1, <1>2, <1>3 DEF Hints

(* A part stays as it is when its loop does not advance and the graph has  *)
(* what it had of the part.                                                *)
LEMMA Keep ==
  ASSUME model' = model
  PROVE  /\ (/\ ImportsDone /\ found' = found
             /\ Read("opset_import", model.opset_import)' = Read("opset_import", model.opset_import))
            => ImportsDone'
         /\ (/\ InitializersDone /\ graph.initializers' = graph.initializers
             /\ Read("initializer", model.initializer)' = Read("initializer", model.initializer))
            => InitializersDone'
         /\ (/\ InputsDone /\ graph.graph_inputs' = graph.graph_inputs
             /\ Read("input", model.input)' = Read("input", model.input))
            => InputsDone'
         /\ (/\ OutputsDone /\ graph.graph_outputs' = graph.graph_outputs
             /\ Read("output", model.output)' = Read("output", model.output))
            => OutputsDone'
         /\ (/\ InfosDone
             /\ Read("value_info", model.value_info)' = Read("value_info", model.value_info))
            => InfosDone'
         /\ HintsDone /\ shapes' = shapes /\ DeclaredRead' = DeclaredRead => HintsDone'
         /\ (/\ NodesDone /\ graph.nodes' = graph.nodes /\ kinds' = kinds
             /\ Read("node", model.node)' = Read("node", model.node))
            => NodesDone'
<1>1. ASSUME ImportsDone, found' = found,
             Read("opset_import", model.opset_import)' = Read("opset_import", model.opset_import)
      PROVE  ImportsDone'
  BY <1>1 DEF ImportsDone, ImportsRead
<1>2. ASSUME InitializersDone, graph.initializers' = graph.initializers,
             Read("initializer", model.initializer)' = Read("initializer", model.initializer)
      PROVE  InitializersDone'
  BY <1>2 DEF InitializersDone, InitializersRead
<1>3. ASSUME InputsDone, graph.graph_inputs' = graph.graph_inputs,
             Read("input", model.input)' = Read("input", model.input)
      PROVE  InputsDone'
  BY <1>3 DEF InputsDone, ValuesRead, ShapeDefect
<1>4. ASSUME OutputsDone, graph.graph_outputs' = graph.graph_outputs,
             Read("output", model.output)' = Read("output", model.output)
      PROVE  OutputsDone'
  BY <1>4 DEF OutputsDone, ValuesRead, ShapeDefect
<1>5. ASSUME InfosDone,
             Read("value_info", model.value_info)' = Read("value_info", model.value_info)
      PROVE  InfosDone'
  BY <1>5 DEF InfosDone, ValuesRead, ShapeDefect
<1>6. ASSUME HintsDone, shapes' = shapes, DeclaredRead' = DeclaredRead
      PROVE  HintsDone'
  BY <1>6, HintsAgain DEF HintsDone
<1>7. ASSUME NodesDone, graph.nodes' = graph.nodes, kinds' = kinds,
             Read("node", model.node)' = Read("node", model.node)
      PROVE  NodesDone'
  BY <1>7 DEF NodesDone, NodesRead
<1> QED BY <1>1, <1>2, <1>3, <1>4, <1>5, <1>6, <1>7

(* A call that returns: what the invariant still asks for is the verdict.  *)
LEMMA ReturnInv ==
  ASSUME IInv, pc # "done", NEW verdict, Return(verdict), verdict # "none",
         verdict \in FirstDefects(model) \cup {"ok", "oom"},
         pc \in {"entry", "opset_import", "range"} =>
           verdict \in {"no_graph"} \cup OpsetDefects(model)
  PROVE  IInv'
<1>1. /\ model' = model /\ pc' = "done" /\ at' = at /\ found' = found /\ graph' = graph
      /\ kinds' = kinds /\ shapes' = shapes /\ status' = verdict
  BY DEF Return
<1>2. TypeOK'
  BY <1>1 DEF IInv, TypeOK, Lists
<1>3. status = "none" /\ "none" \notin {"no_graph"} \cup OpsetDefects(model)
  BY DEF IInv, TypeOK, OpsetDefects
<1>4. pc \notin {"entry", "opset_import", "range"} =>
        {id.version : id \in Listed(model.opset_import)} = {found}
  BY <1>3 DEF IInv, OneVersion
<1>5. {id.version : id \in Listed(model.opset_import)}' = {id.version : id \in Listed(model.opset_import)}
  BY <1>1
<1>6. OpsetDefects(model)' = OpsetDefects(model)
  BY <1>1
<1>7. OneVersion'
  BY <1>1, <1>4, <1>5, <1>6 DEF OneVersion
<1> QED BY <1>1, <1>2, <1>7 DEF IInv

(* A call that goes to the next loop: nothing has been read meanwhile.     *)
LEMMA MoveInv ==
  ASSUME IInv, pc # "done", UNCHANGED <<model, found, graph, kinds, shapes, status>>,
         pc' \in DOMAIN Lists \cup {"range", "built"}, at' = 1, model.has_graph,
         Read("opset_import", model.opset_import)' = Read("opset_import", model.opset_import),
         Read("initializer", model.initializer)' = Read("initializer", model.initializer),
         Read("input", model.input)' = Read("input", model.input),
         Read("output", model.output)' = Read("output", model.output),
         Read("value_info", model.value_info)' = Read("value_info", model.value_info),
         Read("node", model.node)' = Read("node", model.node),
         OpsetFits', OneVersion'
  PROVE  IInv'
<1>1. TypeOK'
  <2>1. model \in Model /\ Lists' = Lists /\ pc' # "done"
    BY ListFacts DEF IInv, TypeOK, Lists
  <2>2. pc' \in DOMAIN Lists => Len(Lists[pc']) \in Nat
    BY <2>1, ListFacts, ModelFacts
  <2> QED BY <2>1, <2>2 DEF IInv, TypeOK
<1>2. Progress'
  <2>1. Progress
    BY DEF IInv
  <2>2. DeclaredRead' = DeclaredRead
    BY DEF DeclaredRead
  <2> QED BY <2>1, <2>2, Keep DEF Progress
<1> QED BY <1>1, <1>2 DEF IInv

LEMMA EnterInv == IInv /\ Enter => IInv'
<1> SUFFICES ASSUME IInv, Enter PROVE IInv'
  OBVIOUS
<1>1. pc = "entry" /\ model \in Model /\ Progress /\ at = 1
  BY DEF Enter, IInv, TypeOK, Progress
<1>2. CASE ~model.has_graph /\ Return("no_graph")
  <2>1. "no_graph" \in FirstDefects(model)
    BY <1>2, FirstDefectsAre
  <2> QED BY <2>1, <1>1, <1>2, ReturnInv
<1>3. CASE model.has_graph /\ pc' = "opset_import"
           /\ UNCHANGED <<model, at, found, graph, kinds, shapes, status>>
  <2>1. OpsetFits' /\ OneVersion' /\ pc' \in DOMAIN Lists
    BY <1>3, ListFacts DEF OpsetFits, OneVersion
  <2> QED BY <2>1, <1>1, <1>3, MoveInv DEF Read, Rank
<1> QED BY <1>2, <1>3 DEF Enter

LEMMA LeaveLoopInv == IInv /\ LeaveLoop => IInv'
<1> SUFFICES ASSUME IInv, LeaveLoop PROVE IInv'
  OBVIOUS
<1>1. /\ pc \in DOMAIN Lists /\ at' = 1 /\ pc' = After[pc] /\ at = Len(Lists[pc]) + 1
      /\ UNCHANGED <<model, found, graph, kinds, shapes, status>> /\ model \in Model /\ Progress
  <2>1. pc \in DOMAIN Lists /\ model \in Model /\ Len(Lists[pc]) \in Nat /\ at \in Nat
        /\ at <= Len(Lists[pc]) + 1
    BY ListFacts, ModelFacts DEF LeaveLoop, IInv, TypeOK
  <2> QED BY <2>1, ListFacts DEF LeaveLoop, IInv
<1>2. model.has_graph
  BY <1>1, ListFacts DEF Progress
<1>3. \/ pc = "opset_import" /\ pc' = "range" /\ at - 1 = Len(model.opset_import)
      \/ pc = "initializer" /\ pc' = "input" /\ at - 1 = Len(model.initializer)
      \/ pc = "input" /\ pc' = "output" /\ at - 1 = Len(model.input)
      \/ pc = "output" /\ pc' = "value_info" /\ at - 1 = Len(model.output)
      \/ pc = "value_info" /\ pc' = "node" /\ at - 1 = Len(model.value_info)
      \/ pc = "node" /\ pc' = "built" /\ at - 1 = Len(model.node)
  BY <1>1, ListFacts, ModelFacts DEF After
<1>4. OpsetFits'
  BY <1>1, <1>3 DEF Progress, OpsetFits, OpsetInRange
<1>5. OneVersion'
  <2>1. (pc \notin {"entry", "opset_import", "range"} /\ status \notin {"no_graph"} \cup OpsetDefects(model))
         => {id.version : id \in Listed(model.opset_import)} = {found}
    BY DEF IInv, OneVersion
  <2>2. OpsetDefects(model)' = OpsetDefects(model) /\ Listed(model.opset_import)' = Listed(model.opset_import)
    BY <1>1
  <2> QED BY <2>1, <2>2, <1>1, <1>3 DEF OneVersion
<1>6. pc' \in DOMAIN Lists \cup {"range", "built"}
  BY <1>3, ListFacts
<1>7. /\ Read("opset_import", model.opset_import)' = Read("opset_import", model.opset_import)
      /\ Read("initializer", model.initializer)' = Read("initializer", model.initializer)
      /\ Read("input", model.input)' = Read("input", model.input)
      /\ Read("output", model.output)' = Read("output", model.output)
      /\ Read("value_info", model.value_info)' = Read("value_info", model.value_info)
      /\ Read("node", model.node)' = Read("node", model.node)
  BY <1>1, <1>3 DEF Read, Rank
<1> QED BY <1>1, <1>2, <1>3, <1>4, <1>5, <1>6, <1>7, MoveInv

-----------------------------------------------------------------------------
(* The opset imports.                                                      *)

(* An iteration of a loop, in its own words.                               *)
LEMMA IterationFacts ==
  ASSUME IInv, NEW loop \in DOMAIN Lists, In(loop)
  PROVE  /\ model \in Model /\ Progress /\ pc = loop /\ status = "none" /\ model.has_graph
         /\ at \in Nat \ {0} /\ at <= Len(Lists[loop]) /\ Item = Lists[loop][at]
         /\ loop # "done"
         /\ Advance => /\ model' = model /\ pc' = pc /\ at' = at + 1 /\ status' = status
                       /\ (found' \in Int /\ ((OneVersion /\ found' = found) \/ loop = "opset_import")
                           /\ graph' \in Graph /\ DOMAIN kinds' = NodeIds(graph')
                           /\ DOMAIN shapes' \subseteq Str /\ \A x \in DOMAIN shapes' : shapes'[x] \in Seq(Nat))
                          => TypeOK' /\ OneVersion'
<1>1. /\ pc = loop /\ loop # "done" /\ loop # "entry" /\ at <= Len(Lists[loop])
      /\ Item = Lists[loop][at]
  BY ListFacts DEF In, Item
<1>2. /\ model \in Model /\ Progress /\ status = "none" /\ at \in Nat \ {0}
  BY <1>1 DEF IInv, TypeOK
<1>3. model.has_graph
  BY <1>1, <1>2 DEF Progress
<1>4. ASSUME Advance PROVE model' = model /\ pc' = pc /\ at' = at + 1 /\ status' = status
  BY <1>4 DEF Advance
<1>5. ASSUME Advance, found' \in Int, (OneVersion /\ found' = found) \/ loop = "opset_import",
             graph' \in Graph, DOMAIN kinds' = NodeIds(graph'),
             DOMAIN shapes' \subseteq Str, \A x \in DOMAIN shapes' : shapes'[x] \in Seq(Nat)
      PROVE  TypeOK' /\ OneVersion'
  <2>1. Lists' = Lists /\ Len(Lists[loop]) \in Nat
    BY <1>2, <1>4, <1>5, ListFacts, ModelFacts DEF Lists
  <2>2. TypeOK'
    BY <2>1, <1>1, <1>2, <1>4, <1>5 DEF IInv, TypeOK
  <2>3. OpsetDefects(model)' = OpsetDefects(model)
        /\ {id.version : id \in Listed(model.opset_import)}' = {id.version : id \in Listed(model.opset_import)}
    BY <1>4, <1>5
  <2>4. OneVersion'
    BY <2>3, <1>1, <1>4, <1>5 DEF OneVersion
  <2> QED BY <2>2, <2>4
<1> QED BY <1>1, <1>2, <1>3, <1>4, <1>5

LEMMA ResolveImportInv == IInv /\ ResolveImport => IInv'
<1> SUFFICES ASSUME IInv, ResolveImport PROVE IInv'
  OBVIOUS
<1> DEFINE list == model.opset_import
<1>1. /\ model \in Model /\ Progress /\ pc = "opset_import" /\ model.has_graph
      /\ at \in Nat \ {0} /\ at <= Len(list) /\ Item = list[at]
  BY ListFacts, IterationFacts DEF ResolveImport
<1>2. /\ Len(list) \in Nat /\ list[at] \in OperatorSetId /\ list[at] \in Listed(list)
      /\ at > 1 => list[1] \in Listed(list)
  BY <1>1, ModelFacts, ListedIs
<1>3. \A i \in 1..(at - 1) : CanonicalizeDomain(list[i].domain) = "" /\ list[i].version = found
  BY <1>1 DEF Progress, ImportsDone, Read, ImportsRead
<1>4. \A d \in OpsetDefects(model) : d \in FirstDefects(model) /\ d # "none"
  BY <1>1, FirstDefectsAre DEF OpsetDefects
<1>5. CASE CanonicalizeDomain(Item.domain) # "" /\ Return("bad_domain")
  <2>1. "bad_domain" \in OpsetDefects(model)
    BY <1>1, <1>2, <1>5 DEF OpsetDefects
  <2> QED BY <2>1, <1>1, <1>4, <1>5, ReturnInv
<1>6. CASE Conflict /\ Return("opset_conflict")
  <2>1. at > 1 /\ list[at].version # found
    BY <1>1, <1>6 DEF Conflict
  <2>2. list[1].version = found
    <3>1. 1 \in 1..(at - 1)
      BY <2>1, <1>1
    <3> HIDE DEF list
    <3> QED BY <3>1, <1>3
  <2>3. "opset_conflict" \in OpsetDefects(model)
    BY <2>1, <2>2, <1>2 DEF OpsetDefects
  <2> QED BY <2>3, <1>1, <1>4, <1>6, ReturnInv
<1>7. CASE /\ CanonicalizeDomain(Item.domain) = "" /\ ~Conflict
           /\ found' = Item.version /\ Advance /\ UNCHANGED <<graph, kinds, shapes>>
  <2>1. model' = model /\ pc' = pc /\ at' = at + 1 /\ status' = status
    BY <1>7 DEF Advance
  <2>2. TypeOK' /\ OneVersion'
    <3>1. found' \in Int
      BY <1>1, <1>2, <1>7 DEF OperatorSetId
    <3>2. In("opset_import") /\ "opset_import" \in DOMAIN Lists
      BY ListFacts DEF ResolveImport
    <3> QED BY <3>1, <3>2, <1>7, IterationFacts DEF IInv, TypeOK
  <2>3. Read("opset_import", list)' = at
    BY <2>1, <1>1 DEF Read
  <2>4. ImportsDone'
    <3>1. \A i \in 1..at : CanonicalizeDomain(list[i].domain) = "" /\ list[i].version = found'
      <4>1. list[at].version = found' /\ CanonicalizeDomain(list[at].domain) = ""
        BY <1>1, <1>7
      <4>2. at > 1 => found' = found
        BY <1>7 DEF Conflict
      <4>3. \A i \in 1..at : i = at \/ (i \in 1..(at - 1) /\ at > 1)
        BY <1>1
      <4> HIDE DEF list
      <4> QED BY <4>1, <4>2, <4>3, <1>3
    <3>2. list' = list /\ at # 0
      BY <2>1, <1>1
    <3> QED BY <3>1, <3>2, <2>3 DEF ImportsDone, ImportsRead
  <2>5. /\ Read("initializer", model.initializer)' = Read("initializer", model.initializer)
        /\ Read("input", model.input)' = Read("input", model.input)
        /\ Read("output", model.output)' = Read("output", model.output)
        /\ Read("value_info", model.value_info)' = Read("value_info", model.value_info)
        /\ Read("node", model.node)' = Read("node", model.node)
        /\ DeclaredRead' = DeclaredRead
    BY <2>1, <1>1 DEF Read, Rank, DeclaredRead
  <2>6. Progress'
    BY <2>1, <2>4, <2>5, <1>1, <1>7, Keep DEF Progress, OpsetFits
  <2> QED BY <2>2, <2>6 DEF IInv
<1> QED BY <1>5, <1>6, <1>7 DEF ResolveImport

LEMMA CheckRangeInv == IInv /\ CheckRange => IInv'
<1> SUFFICES ASSUME IInv, CheckRange PROVE IInv'
  OBVIOUS
<1>1. /\ pc = "range" /\ model \in Model /\ Progress /\ at = 1 /\ model.has_graph
      /\ ImportsRead(Len(model.opset_import))
  BY DEF CheckRange, IInv, TypeOK, Progress, ImportsDone, Read, Rank
<1>2. \A d \in OpsetDefects(model) : d \in FirstDefects(model) /\ d # "none"
  BY <1>1, FirstDefectsAre DEF OpsetDefects
<1>3. CASE model.opset_import = <<>> /\ Return("no_opset")
  <2>1. "no_opset" \in OpsetDefects(model)
    BY <1>3 DEF OpsetDefects, Listed
  <2> QED BY <2>1, <1>1, <1>2, <1>3, ReturnInv
<1>4. CASE model.opset_import # <<>> /\ ~OpsetInRange /\ Return("opset_range")
  <2>1. "opset_range" \in OpsetDefects(model)
    BY <1>1, <1>4, ImportsSound
  <2> QED BY <2>1, <1>1, <1>2, <1>4, ReturnInv
<1>5. CASE /\ model.opset_import # <<>> /\ OpsetInRange /\ pc' = "initializer"
           /\ UNCHANGED <<model, at, found, graph, kinds, shapes, status>>
  <2>1. OpsetFits'
    BY <1>5 DEF OpsetFits, OpsetInRange
  <2>2. {id.version : id \in Listed(model.opset_import)} = {found}
    BY <1>1, <1>5, ImportsSound
  <2>3. Listed(model.opset_import)' = Listed(model.opset_import) /\ found' = found
    BY <1>5
  <2>4. OneVersion'
    BY <2>2, <2>3 DEF OneVersion
  <2>5. "initializer" \in DOMAIN Lists
    BY ListFacts
  <2> QED BY <2>1, <2>4, <2>5, <1>1, <1>5, MoveInv DEF Read, Rank
<1> QED BY <1>3, <1>4, <1>5 DEF CheckRange

-----------------------------------------------------------------------------
(* The initializers.                                                       *)

(* The loops that are over have found no defect.                           *)
LEMMA EarlierParts ==
  ASSUME IInv, pc # "done"
  PROVE  /\ Rank(pc) > 2 => model.has_graph /\ OpsetDefects(model) = {}
         /\ Rank(pc) > 3 => InitializerDefects(model) = {}
         /\ Rank(pc) > 4 => ValueDefects(model.input) = {}
         /\ Rank(pc) > 5 => ValueDefects(model.output) = {}
         /\ Rank(pc) > 6 => ValueDefects(model.value_info) = {}
         /\ Rank(pc) > 7 => NodeDefects(model) = {}
<1>1. model \in Model /\ Progress
  BY DEF IInv, TypeOK
<1>2. ASSUME Rank(pc) > 2 PROVE model.has_graph /\ OpsetDefects(model) = {}
  <2>1. pc \notin {"entry", "opset_import", "range"}
    BY <1>2 DEF Rank
  <2>2. ImportsRead(Len(model.opset_import))
    BY <1>1, <1>2, <2>1 DEF Progress, ImportsDone, Read, Rank
  <2> QED BY <2>1, <2>2, <1>1, ImportsSound DEF Progress, OpsetFits
<1>3. ASSUME Rank(pc) > 3 PROVE InitializerDefects(model) = {}
  <2>1. InitializersRead(Len(model.initializer))
    BY <1>1, <1>3 DEF Progress, InitializersDone, Read, Rank
  <2> QED BY <2>1, <1>1, InitializersSound
<1>4. ASSUME Rank(pc) > 4 PROVE ValueDefects(model.input) = {}
  <2>1. ValuesRead(model.input, Len(model.input))
    BY <1>1, <1>4 DEF Progress, InputsDone, Read, Rank
  <2> QED BY <2>1, <1>1, ModelFacts, ValuesSound
<1>5. ASSUME Rank(pc) > 5 PROVE ValueDefects(model.output) = {}
  <2>1. ValuesRead(model.output, Len(model.output))
    BY <1>1, <1>5 DEF Progress, OutputsDone, Read, Rank
  <2> QED BY <2>1, <1>1, ModelFacts, ValuesSound
<1>6. ASSUME Rank(pc) > 6 PROVE ValueDefects(model.value_info) = {}
  <2>1. ValuesRead(model.value_info, Len(model.value_info))
    BY <1>1, <1>6 DEF Progress, InfosDone, Read, Rank
  <2> QED BY <2>1, <1>1, ModelFacts, ValuesSound
<1>7. ASSUME Rank(pc) > 7 PROVE NodeDefects(model) = {}
  <2>1. NodesRead(Len(model.node))
    BY <1>1, <1>7 DEF Progress, NodesDone, Read, Rank
  <2> QED BY <2>1, <1>1, NodesSound DEF NodesRead
<1> QED BY <1>2, <1>3, <1>4, <1>5, <1>6, <1>7

LEMMA MapInitializerInv == IInv /\ MapInitializer => IInv'
<1> SUFFICES ASSUME IInv, MapInitializer PROVE IInv'
  OBVIOUS
<1> DEFINE list == model.initializer
<1>1. /\ model \in Model /\ Progress /\ pc = "initializer" /\ model.has_graph
      /\ at \in Nat \ {0} /\ at <= Len(list) /\ Item = list[at]
  BY ListFacts, IterationFacts DEF MapInitializer
<1>2. /\ Len(list) \in Nat /\ DOMAIN list = 1..Len(list) /\ Item \in Initializer
      /\ at \in DOMAIN list
  BY <1>1, ModelFacts, ListedIs
<1>3. Item.name \in Str /\ Item.tensor \in {"ok", "bad_tensor"}
  BY <1>2 DEF Initializer, TensorVerdict
<1>4. InitializersRead(at - 1)
  BY <1>1 DEF Progress, InitializersDone, Read
<1>5. CASE InitializerDefect # "none" /\ Return(InitializerDefect)
  <2>1. InitializerDefect \in InitializerDefects(model)
    <3>1. CASE Item.name = Empty
      BY <3>1, <1>1, <1>2 DEF InitializerDefect, InitializerDefects
    <3>2. CASE Item.name # Empty /\ Item.tensor # "ok"
      BY <3>2, <1>1, <1>2, <1>3 DEF InitializerDefect, InitializerDefects
    <3>3. CASE Item.name # Empty /\ Item.tensor = "ok" /\ Item.name \in graph.initializers
      <4>1. PICK i \in 1..(at - 1) : list[i].name = Item.name
        BY <3>3, <1>4 DEF InitializersRead
      <4>2. InitializerDefect = "duplicate_initializer"
        BY <3>3 DEF InitializerDefect
      <4> QED BY <4>1, <4>2, <1>1, <1>2 DEF InitializerDefects
    <3> QED BY <3>1, <3>2, <3>3, <1>5 DEF InitializerDefect
  <2>2. InitializerDefects(model) \subseteq FirstDefects(model)
    BY <1>1, EarlierParts, FirstDefectsAre DEF Rank
  <2> QED BY <2>1, <2>2, <1>1, <1>5, ReturnInv
<1>6. CASE Return("oom")
  BY <1>1, <1>6, ReturnInv
<1>7. CASE /\ InitializerDefect = "none"
           /\ graph' = [graph EXCEPT !.initializers = @ \cup {Item.name}]
           /\ Advance /\ UNCHANGED <<found, kinds, shapes>>
  <2>1. model' = model /\ pc' = pc /\ at' = at + 1 /\ status' = status
    BY <1>7 DEF Advance
  <2>2. /\ graph \in Graph /\ graph' \in Graph /\ graph'.nodes = graph.nodes
        /\ graph'.graph_inputs = graph.graph_inputs /\ graph'.graph_outputs = graph.graph_outputs
        /\ graph'.initializers = graph.initializers \cup {Item.name}
    BY <1>3, <1>7 DEF IInv, TypeOK, Graph
  <2>3. TypeOK' /\ OneVersion'
    <3>1. In("initializer") /\ "initializer" \in DOMAIN Lists
      BY ListFacts DEF MapInitializer
    <3>2. NodeIds(graph') = NodeIds(graph)
      BY <2>2 DEF NodeIds
    <3> QED BY <3>1, <3>2, <2>2, <1>7, IterationFacts DEF IInv, TypeOK
  <2>4. Read("initializer", list)' = at
    BY <2>1, <1>1 DEF Read
  <2>5. InitializersDone'
    <3>1. /\ Item.name # Empty /\ Item.tensor = "ok" /\ Item.name \notin graph.initializers
      BY <1>7, <1>3 DEF InitializerDefect
    <3>2. /\ graph.initializers = {list[i].name : i \in 1..(at - 1)}
          /\ \A i \in 1..(at - 1) : list[i].name # Empty /\ list[i].tensor = "ok"
          /\ \A i, j \in 1..(at - 1) : i < j => list[i].name # list[j].name
      BY <1>4 DEF InitializersRead
    <3>3. \A i \in 1..at : i = at \/ i \in 1..(at - 1)
      BY <1>1
    <3>4. at \in 1..at /\ 1..(at - 1) \subseteq 1..at /\ \A i \in 1..(at - 1) : i < at
      BY <1>1
    <3>5. graph'.initializers = {list[i].name : i \in 1..at}
      BY <3>2, <3>3, <3>4, <2>2, <1>1
    <3>6. \A i \in 1..at : list[i].name # Empty /\ list[i].tensor = "ok"
      BY <3>1, <3>2, <3>3, <1>1
    <3>7. ASSUME NEW i \in 1..at, NEW j \in 1..at, i < j PROVE list[i].name # list[j].name
      <4>1. i \in 1..(at - 1)
        BY <3>7, <1>1
      <4>2. CASE j = at
        BY <4>1, <4>2, <3>1, <3>2, <1>1
      <4>3. CASE j \in 1..(at - 1)
        BY <4>1, <4>3, <3>2, <3>7
      <4> QED BY <4>2, <4>3, <3>3
    <3> QED BY <3>5, <3>6, <3>7, <2>1, <2>4 DEF InitializersDone, InitializersRead
  <2>6. /\ Read("opset_import", model.opset_import)' = Read("opset_import", model.opset_import)
        /\ Read("input", model.input)' = Read("input", model.input)
        /\ Read("output", model.output)' = Read("output", model.output)
        /\ Read("value_info", model.value_info)' = Read("value_info", model.value_info)
        /\ Read("node", model.node)' = Read("node", model.node)
        /\ DeclaredRead' = DeclaredRead
    BY <2>1, <1>1 DEF Read, Rank, DeclaredRead
  <2>7. OpsetFits'
    BY <2>1, <1>1, <1>7 DEF Progress, OpsetFits, OpsetInRange
  <2>8. Progress'
    BY <2>1, <2>2, <2>5, <2>6, <2>7, <1>1, <1>7, Keep DEF Progress
  <2> QED BY <2>3, <2>8 DEF IInv
<1> QED BY <1>5, <1>6, <1>7 DEF MapInitializer

-----------------------------------------------------------------------------
(* The declared values.                                                    *)

LEMMA ConcatIs ==
  ASSUME NEW S, NEW a \in Seq(S), NEW b \in Seq(S)
  PROVE  /\ a \o b \in Seq(S) /\ Len(a) \in Nat /\ Len(b) \in Nat
         /\ Len(a \o b) = Len(a) + Len(b)
         /\ \A i \in 1..Len(a) : i \in 1..Len(a \o b) /\ (a \o b)[i] = a[i]
         /\ \A i \in 1..Len(b) : Len(a) + i \in 1..Len(a \o b) /\ (a \o b)[Len(a) + i] = b[i]
OBVIOUS

LEMMA DeclaredIs ==
  ASSUME model \in Model
  PROVE  /\ Declared \in Seq(ValueInfo)
         /\ Len(model.input) \in Nat /\ Len(model.output) \in Nat /\ Len(model.value_info) \in Nat
         /\ Len(Declared) = Len(model.input) + Len(model.output) + Len(model.value_info)
         /\ \A i \in 1..Len(model.input) : Declared[i] = model.input[i]
         /\ \A i \in 1..Len(model.output) : Declared[Len(model.input) + i] = model.output[i]
         /\ \A i \in 1..Len(model.value_info) :
              Declared[Len(model.input) + Len(model.output) + i] = model.value_info[i]
<1>1. /\ model.input \in Seq(ValueInfo) /\ model.output \in Seq(ValueInfo)
      /\ model.value_info \in Seq(ValueInfo)
  BY ModelFacts
<1> DEFINE a == model.input
           b == model.output
           c == model.value_info
           ab == a \o b
<1> HIDE DEF a, b, c
<1>2. a \in Seq(ValueInfo) /\ b \in Seq(ValueInfo) /\ c \in Seq(ValueInfo)
  BY <1>1 DEF a, b, c
<1>3. /\ ab \in Seq(ValueInfo) /\ Len(a) \in Nat /\ Len(b) \in Nat /\ Len(c) \in Nat
      /\ Len(ab) = Len(a) + Len(b)
      /\ \A i \in 1..Len(a) : i \in 1..Len(ab) /\ ab[i] = a[i]
      /\ \A i \in 1..Len(b) : Len(a) + i \in 1..Len(ab) /\ ab[Len(a) + i] = b[i]
  BY <1>2, ConcatIs
<1> HIDE DEF ab
<1>4. /\ ab \o c \in Seq(ValueInfo) /\ Len(ab \o c) = Len(ab) + Len(c)
      /\ \A i \in 1..Len(ab) : (ab \o c)[i] = ab[i]
      /\ \A i \in 1..Len(c) : (ab \o c)[Len(ab) + i] = c[i]
  <2>1. ab \in Seq(ValueInfo) /\ c \in Seq(ValueInfo)
    BY <1>2, <1>3
  <2> HIDE DEF ab
  <2>2. ab \o c \in Seq(ValueInfo) /\ Len(ab \o c) = Len(ab) + Len(c)
    BY <2>1, ConcatIs
  <2>3. \A i \in 1..Len(ab) : (ab \o c)[i] = ab[i]
    BY <2>1, ConcatIs
  <2>4. \A i \in 1..Len(c) : (ab \o c)[Len(ab) + i] = c[i]
    BY <2>1, ConcatIs
  <2> QED BY <2>2, <2>3, <2>4
<1>5. Declared = ab \o c
  BY DEF Declared, ab, a, b, c
<1>6. /\ Len(Declared) = Len(a) + Len(b) + Len(c)
      /\ \A i \in 1..Len(a) : Declared[i] = a[i]
      /\ \A i \in 1..Len(b) : Declared[Len(a) + i] = b[i]
      /\ \A i \in 1..Len(c) : Declared[Len(a) + Len(b) + i] = c[i]
  <2> DEFINE la == Len(a)
             lb == Len(b)
             lc == Len(c)
             lab == Len(ab)
             abc == ab \o c
  <2>1. /\ la \in Nat /\ lb \in Nat /\ lc \in Nat /\ lab = la + lb
        /\ \A i \in 1..la : i \in 1..lab /\ ab[i] = a[i]
        /\ \A i \in 1..lb : la + i \in 1..lab /\ ab[la + i] = b[i]
        /\ Len(abc) = lab + lc /\ \A i \in 1..lab : abc[i] = ab[i]
        /\ \A i \in 1..lc : abc[lab + i] = c[i]
    BY <1>3, <1>4
  <2> HIDE DEF la, lb, lc, lab, abc
  <2>2. /\ Len(abc) = la + lb + lc
        /\ \A i \in 1..la : abc[i] = a[i]
        /\ \A i \in 1..lb : abc[la + i] = b[i]
        /\ \A i \in 1..lc : abc[la + lb + i] = c[i]
    BY <2>1
  <2> QED BY <2>2, <1>5 DEF la, lb, lc, abc
<1> QED BY <1>3, <1>4, <1>5, <1>6 DEF a, b, c

(* One more value with a shape, in the map it goes to.                     *)
LEMMA HintsGrow ==
  ASSUME model \in Model, NEW f, NEW n \in Nat, n < Len(Declared), Hints(f, n),
         NEW vi, vi = Declared[n + 1], vi.has_shape
  PROVE  Hints([x \in DOMAIN f \cup {vi.name} |-> IF x = vi.name THEN vi.dims ELSE f[x]], n + 1)
<1> DEFINE g == [x \in DOMAIN f \cup {vi.name} |-> IF x = vi.name THEN vi.dims ELSE f[x]]
<1>1. /\ \A i \in Shaped(n) : i \in Nat /\ i <= n
      /\ Shaped(n + 1) = Shaped(n) \cup {n + 1}
  BY DEF Shaped
<1>2. DOMAIN f = {Declared[i].name : i \in Shaped(n)}
      /\ \A i \in Shaped(n) :
           (\A j \in Shaped(n) : j > i => Declared[j].name # Declared[i].name)
             => f[Declared[i].name] = Declared[i].dims
  BY DEF Hints
<1>3. DOMAIN g = {Declared[i].name : i \in Shaped(n + 1)}
  BY <1>1, <1>2
<1>4. ASSUME NEW i \in Shaped(n + 1),
             \A j \in Shaped(n + 1) : j > i => Declared[j].name # Declared[i].name
      PROVE  g[Declared[i].name] = Declared[i].dims
  <2>1. CASE i = n + 1
    BY <2>1
  <2>2. CASE i \in Shaped(n)
    <3>1. n + 1 > i /\ vi.name # Declared[i].name
      BY <1>1, <1>4, <2>2
    <3>2. f[Declared[i].name] = Declared[i].dims
      BY <1>1, <1>2, <1>4, <2>2
    <3>3. Declared[i].name \in DOMAIN f
      BY <1>2, <2>2
    <3> QED BY <3>1, <3>2, <3>3
  <2> QED BY <2>1, <2>2, <1>1
<1>5. g = [x \in DOMAIN g |-> g[x]]
  OBVIOUS
<1> HIDE DEF g
<1> QED BY <1>3, <1>4, <1>5 DEF Hints, g

LEMMA HintsStay ==
  ASSUME NEW f, NEW n \in Nat, Hints(f, n), ~Declared[n + 1].has_shape
  PROVE  Hints(f, n + 1)
<1>1. Shaped(n + 1) = Shaped(n)
  BY DEF Shaped
<1> QED BY <1>1 DEF Hints

ValueLoop == {"input", "output", "value_info"}

ReadInOrder ==
  /\ pc = "input" => DeclaredRead = at - 1 + 0 + 0
  /\ pc = "output" => DeclaredRead = Len(model.input) + (at - 1) + 0
  /\ pc = "value_info" => DeclaredRead = Len(model.input) + Len(model.output) + (at - 1)

LEMMA DeclaredReadIs == ReadInOrder
<1>1. Rank("input") = 4 /\ Rank("output") = 5 /\ Rank("value_info") = 6
  BY DEF Rank
<1>2. CASE pc = "input"
  <2>1. Read("input", model.input) = at - 1
    BY <1>2 DEF Read
  <2>2. Read("output", model.output) = 0 /\ Read("value_info", model.value_info) = 0
    BY <1>1, <1>2 DEF Read
  <2> QED BY <2>1, <2>2, <1>2 DEF ReadInOrder, DeclaredRead
<1>3. CASE pc = "output"
  <2>1. Read("output", model.output) = at - 1
    BY <1>3 DEF Read
  <2>2. Read("input", model.input) = Len(model.input) /\ Read("value_info", model.value_info) = 0
    BY <1>1, <1>3 DEF Read
  <2> QED BY <2>1, <2>2, <1>3 DEF ReadInOrder, DeclaredRead
<1>4. CASE pc = "value_info"
  <2>1. Read("value_info", model.value_info) = at - 1
    BY <1>4 DEF Read
  <2>2. Read("input", model.input) = Len(model.input) /\ Read("output", model.output) = Len(model.output)
    BY <1>1, <1>4 DEF Read
  <2> QED BY <2>1, <2>2, <1>4 DEF ReadInOrder, DeclaredRead
<1> QED BY <1>2, <1>3, <1>4 DEF ReadInOrder

(* The loops read the values in the order of Declared.                     *)
LEMMA NextDeclared ==
  ASSUME IInv, NEW loop \in ValueLoop, In(loop)
  PROVE  /\ model \in Model /\ Progress /\ pc = loop /\ model.has_graph
         /\ at \in Nat \ {0} /\ at <= Len(Lists[loop]) /\ Len(Lists[loop]) \in Nat
         /\ Lists[loop] \in Seq(ValueInfo) /\ Item = Lists[loop][at]
         /\ Item \in ValueInfo /\ Item \in Listed(Lists[loop])
         /\ DeclaredRead \in Nat /\ DeclaredRead < Len(Declared) /\ Item = Declared[DeclaredRead + 1]
<1>1. /\ model \in Model /\ Progress /\ pc = loop /\ model.has_graph
      /\ at \in Nat \ {0} /\ at <= Len(Lists[loop]) /\ Item = Lists[loop][at]
  BY ListFacts, IterationFacts DEF ValueLoop
<1>2. Lists[loop] \in Seq(ValueInfo) /\ Len(Lists[loop]) \in Nat
  BY <1>1, ListFacts, ModelFacts DEF ValueLoop
<1>3. Item \in ValueInfo /\ Item \in Listed(Lists[loop])
  BY <1>1, <1>2, ListedIs
<1> DEFINE ins == Len(model.input)
           outs == Len(model.output)
           infos == Len(model.value_info)
<1>4. /\ ins \in Nat /\ outs \in Nat /\ infos \in Nat
      /\ Len(Declared) = ins + outs + infos
      /\ \A i \in 1..ins : Declared[i] = model.input[i]
      /\ \A i \in 1..outs : Declared[ins + i] = model.output[i]
      /\ \A i \in 1..infos : Declared[ins + outs + i] = model.value_info[i]
  BY <1>1, DeclaredIs
<1>5. \/ /\ loop = "input" /\ DeclaredRead = (at - 1) + 0 + 0
         /\ Len(Lists[loop]) = ins /\ Item = model.input[at]
      \/ /\ loop = "output" /\ DeclaredRead = ins + (at - 1) + 0
         /\ Len(Lists[loop]) = outs /\ Item = model.output[at]
      \/ /\ loop = "value_info" /\ DeclaredRead = ins + outs + (at - 1)
         /\ Len(Lists[loop]) = infos /\ Item = model.value_info[at]
  <2>1. loop = "input" \/ loop = "output" \/ loop = "value_info"
    BY DEF ValueLoop
  <2> QED BY <2>1, <1>1, ListFacts, DeclaredReadIs DEF ReadInOrder
<1> DEFINE read == DeclaredRead
           all == Declared
<1>6. read \in Nat /\ read < Len(all) /\ Item = all[read + 1]
  <2> HIDE DEF ins, outs, infos, read, all
  <2>1. at \in 1..Len(Lists[loop])
    BY <1>1, <1>2
  <2>2. \/ read + 1 = at /\ at \in 1..ins /\ Item = model.input[at]
        \/ read + 1 = ins + at /\ at \in 1..outs /\ Item = model.output[at]
        \/ read + 1 = ins + outs + at /\ at \in 1..infos /\ Item = model.value_info[at]
    BY <2>1, <1>1, <1>4, <1>5 DEF read
  <2>3. Item = all[read + 1]
    BY <2>2, <1>4 DEF all
  <2>4. read \in Nat
    BY <1>1, <1>4, <1>5 DEF read
  <2>5. read + 1 <= ins + outs + infos
    BY <2>2, <1>4
  <2>6. Len(all) = ins + outs + infos
    BY <1>4 DEF all
  <2> QED BY <2>3, <2>4, <2>5, <2>6, <1>4
<1> QED BY <1>1, <1>2, <1>3, <1>6

LEMMA RejectValueInv ==
  ASSUME IInv, NEW loop \in ValueLoop, In(loop),
         ShapeDefect(Item) # "none", Return(ShapeDefect(Item))
  PROVE  IInv'
<1>1. ShapeDefect(Item) \in ValueDefects(Lists[loop])
  BY NextDeclared, ValueUnsound
<1>2. ValueDefects(Lists[loop]) \subseteq FirstDefects(model)
  BY NextDeclared, EarlierParts, FirstDefectsAre, ListFacts DEF Rank, ValueLoop
<1>3. pc \notin {"entry", "opset_import", "range", "done"}
  BY NextDeclared DEF ValueLoop
<1> QED BY <1>1, <1>2, <1>3, ReturnInv

LEMMA HintInv ==
  ASSUME IInv, NEW loop \in ValueLoop, In(loop), ShapeDefect(Item) = "none",
         shapes' = Hint(Item), Advance
  PROVE  /\ HintsDone' /\ DOMAIN shapes' \subseteq Str
         /\ \A x \in DOMAIN shapes' : shapes'[x] \in Seq(Nat)
<1> DEFINE n == DeclaredRead
<1>1. /\ Hints(shapes, n) /\ n \in Nat /\ n < Len(Declared) /\ Item = Declared[n + 1]
      /\ Item \in ValueInfo /\ pc = loop /\ model \in Model /\ at \in Nat
      /\ Len(model.input) \in Nat /\ Len(model.output) \in Nat
  BY NextDeclared, DeclaredIs DEF Progress, HintsDone
<1>2. model' = model /\ DeclaredRead' = n + 1
  <2> DEFINE ins == Len(model.input)
             outs == Len(model.output)
             read == DeclaredRead
  <2>1. model' = model /\ pc' = pc /\ at' = at + 1
    BY DEF Advance
  <2>2. loop = "input" \/ loop = "output" \/ loop = "value_info"
    BY DEF ValueLoop
  <2>3. /\ pc' = "input" => read' = at' - 1 + 0 + 0
        /\ pc' = "output" => read' = ins + (at' - 1) + 0
        /\ pc' = "value_info" => read' = ins + outs + (at' - 1)
    <3>1. ReadInOrder'
      BY DeclaredReadIs, PTL
    <3> QED BY <3>1, <2>1 DEF ReadInOrder
  <2>4. /\ pc = "input" => read = at - 1 + 0 + 0
        /\ pc = "output" => read = ins + (at - 1) + 0
        /\ pc = "value_info" => read = ins + outs + (at - 1)
    BY DeclaredReadIs DEF ReadInOrder
  <2>5. ins \in Nat /\ outs \in Nat /\ at \in Nat
    BY <1>1
  <2> HIDE DEF ins, outs, read
  <2>6. read' = read + 1
    BY <2>1, <2>2, <2>3, <2>4, <2>5, <1>1
  <2> QED BY <2>1, <2>6 DEF n, read
<1>3. DOMAIN shapes \subseteq Str /\ \A x \in DOMAIN shapes : shapes[x] \in Seq(Nat)
  BY DEF IInv, TypeOK
<1> HIDE DEF n
<1>4. CASE ~Item.has_shape
  <2>1. shapes' = shapes /\ Hints(shapes, n + 1)
    BY <1>1, <1>4, HintsStay DEF Hint
  <2> QED BY <2>1, <1>2, <1>3, HintsAgain
<1>5. CASE Item.has_shape
  <2>1. /\ shapes' = [x \in DOMAIN shapes \cup {Item.name} |->
                        IF x = Item.name THEN Item.dims ELSE shapes[x]]
        /\ Hints([x \in DOMAIN shapes \cup {Item.name} |->
                   IF x = Item.name THEN Item.dims ELSE shapes[x]], n + 1)
    BY <1>1, <1>5, HintsGrow DEF Hint
  <2>2. HintsDone'
    BY <2>1, <1>2, HintsAgain
  <2>3. Item.name \in Str /\ Item.dims \in Seq(Nat)
    BY <1>1, <1>5, ShapeDefectIs DEF ValueInfo
  <2> QED BY <2>1, <2>2, <2>3, <1>3
<1> QED BY <1>4, <1>5

LEMMA AppendName ==
  ASSUME NEW list \in Seq(ValueInfo), NEW n \in Nat, n < Len(list),
         NEW names, names = [i \in 1..n |-> list[i].name]
  PROVE  /\ names \in Seq(Str)
         /\ Append(names, list[n + 1].name) = [i \in 1..(n + 1) |-> list[i].name]
<1> DEFINE t == [i \in 1..(n + 1) |-> list[i].name]
           x == list[n + 1].name
           y == Append(names, x)
<1>1. \A i \in 1..(n + 1) : list[i].name \in Str
  <2>1. Len(list) \in Nat /\ \A i \in 1..Len(list) : list[i] \in ValueInfo
    BY ListedIs
  <2>2. \A i \in 1..(n + 1) : i \in 1..Len(list)
    BY <2>1
  <2> QED BY <2>1, <2>2 DEF ValueInfo
<1>2. names \in Seq(Str) /\ Len(names) = n /\ \A i \in 1..n : names[i] = list[i].name
  <2>1. \A i \in 1..n : list[i].name \in Str
    BY <1>1
  <2> QED BY <2>1
<1>3. /\ t \in Seq(Str) /\ Len(t) = n + 1 /\ \A i \in 1..n : t[i] = list[i].name
      /\ t[n + 1] = x /\ x \in Str
  BY <1>1
<1> HIDE DEF t, x
<1>4. /\ y \in Seq(Str) /\ Len(y) = n + 1
      /\ \A i \in 1..n : y[i] = names[i]
      /\ y[n + 1] = x
  BY <1>2, <1>3
<1>5. \A i \in 1..(n + 1) : i \in 1..n \/ i = n + 1
  OBVIOUS
<1> HIDE DEF y
<1>6. y = t
  <2>1. \A i \in 1..(n + 1) : y[i] = t[i]
    BY <1>2, <1>3, <1>4, <1>5
  <2> QED BY <2>1, <1>3, <1>4
<1> QED BY <1>2, <1>6 DEF t, x, y

(* What the three loops over values do besides the names they add.         *)
LEMMA ValueRead ==
  ASSUME IInv, NEW loop \in ValueLoop, In(loop), ShapeDefect(Item) = "none",
         shapes' = Hint(Item), Advance, found' = found, kinds' = kinds,
         graph' \in Graph, graph'.initializers = graph.initializers, graph'.nodes = graph.nodes
  PROVE  /\ model' = model /\ pc' = pc /\ at' = at + 1
         /\ TypeOK' /\ OneVersion'
         /\ ImportsDone' /\ OpsetFits' /\ InitializersDone' /\ NodesDone' /\ HintsDone'
         /\ ValuesRead(Lists[loop], at - 1) => ValuesRead(Lists[loop], at)
         /\ loop # "input" => Read("input", model.input)' = Read("input", model.input)
         /\ loop # "output" => Read("output", model.output)' = Read("output", model.output)
         /\ loop # "value_info" =>
              Read("value_info", model.value_info)' = Read("value_info", model.value_info)
<1>1. /\ Progress /\ pc = loop /\ at \in Nat \ {0} /\ Item = Lists[loop][at]
      /\ loop = "input" \/ loop = "output" \/ loop = "value_info"
      /\ loop \in DOMAIN Lists
  BY NextDeclared, ListFacts DEF ValueLoop
<1>2. model' = model /\ pc' = pc /\ at' = at + 1 /\ Lists' = Lists
  BY DEF Advance, Lists
<1>3. /\ Read("opset_import", model.opset_import)' = Read("opset_import", model.opset_import)
      /\ Read("initializer", model.initializer)' = Read("initializer", model.initializer)
      /\ Read("node", model.node)' = Read("node", model.node)
      /\ loop # "input" => Read("input", model.input)' = Read("input", model.input)
      /\ loop # "output" => Read("output", model.output)' = Read("output", model.output)
      /\ loop # "value_info" =>
           Read("value_info", model.value_info)' = Read("value_info", model.value_info)
  BY <1>1, <1>2 DEF Read, Rank
<1>4. OpsetFits'
  BY <1>1, <1>2 DEF Progress, OpsetFits, OpsetInRange
<1>5. ImportsDone' /\ InitializersDone' /\ NodesDone'
  BY <1>1, <1>2, <1>3, Keep DEF Progress
<1>6. /\ HintsDone' /\ DOMAIN shapes' \subseteq Str
      /\ \A x \in DOMAIN shapes' : shapes'[x] \in Seq(Nat)
  BY HintInv
<1>7. TypeOK' /\ OneVersion'
  <2>1. DOMAIN kinds' = NodeIds(graph')
    BY DEF NodeIds, IInv, TypeOK
  <2> QED BY <2>1, <1>1, <1>6, IterationFacts DEF IInv, TypeOK
<1>8. ASSUME ValuesRead(Lists[loop], at - 1) PROVE ValuesRead(Lists[loop], at)
  <2>1. \A i \in 1..at : i = at \/ i \in 1..(at - 1)
    BY <1>1
  <2> QED BY <2>1, <1>1, <1>8 DEF ValuesRead
<1> QED BY <1>2, <1>3, <1>4, <1>5, <1>6, <1>7, <1>8

LEMMA DeclareInputInv ==
  ASSUME IInv, In("input"), ShapeDefect(Item) = "none", shapes' = Hint(Item), Advance,
         found' = found, kinds' = kinds, graph' \in Graph,
         graph'.initializers = graph.initializers, graph'.nodes = graph.nodes,
         graph'.graph_outputs = graph.graph_outputs,
         graph'.graph_inputs = Append(graph.graph_inputs, Item.name)
  PROVE  IInv'
<1> DEFINE list == model.input
<1>0. "input" \in ValueLoop /\ Lists["input"] = list
  BY ListFacts DEF ValueLoop
<1>1. /\ model \in Model /\ Progress /\ pc = "input" /\ model.has_graph /\ at \in Nat \ {0}
      /\ at <= Len(list) /\ Len(list) \in Nat /\ list \in Seq(ValueInfo) /\ Item = list[at]
  BY <1>0, NextDeclared
<1>2. /\ model' = model /\ pc' = pc /\ at' = at + 1 /\ TypeOK' /\ OneVersion'
      /\ ImportsDone' /\ OpsetFits' /\ InitializersDone' /\ NodesDone' /\ HintsDone'
      /\ ValuesRead(list, at - 1) => ValuesRead(list, at)
      /\ Read("output", model.output)' = Read("output", model.output)
      /\ Read("value_info", model.value_info)' = Read("value_info", model.value_info)
  BY <1>0, ValueRead
<1>3. Read("input", list) = at - 1 /\ Read("input", list)' = at
  BY <1>1, <1>2 DEF Read
<1>4. /\ ValuesRead(list, at - 1)
      /\ graph.graph_inputs = [i \in 1..(at - 1) |-> list[i].name]
  BY <1>1, <1>3 DEF Progress, InputsDone
<1>5. graph'.graph_inputs = [i \in 1..at |-> list[i].name]
  <2>1. at - 1 \in Nat /\ at - 1 < Len(list) /\ at - 1 + 1 = at
    BY <1>1
  <2> QED BY <2>1, <1>1, <1>4, AppendName
<1>6. InputsDone'
  BY <1>2, <1>3, <1>4, <1>5 DEF InputsDone, ValuesRead, ShapeDefect
<1>7. OutputsDone' /\ InfosDone'
  BY <1>1, <1>2, Keep DEF Progress
<1>8. Progress'
  BY <1>1, <1>2, <1>6, <1>7 DEF Progress
<1> QED BY <1>2, <1>8 DEF IInv

LEMMA DeclareOutputInv ==
  ASSUME IInv, In("output"), ShapeDefect(Item) = "none", shapes' = Hint(Item), Advance,
         found' = found, kinds' = kinds, graph' \in Graph,
         graph'.initializers = graph.initializers, graph'.nodes = graph.nodes,
         graph'.graph_inputs = graph.graph_inputs,
         graph'.graph_outputs = Append(graph.graph_outputs, Item.name)
  PROVE  IInv'
<1> DEFINE list == model.output
<1>0. "output" \in ValueLoop /\ Lists["output"] = list
  BY ListFacts DEF ValueLoop
<1>1. /\ model \in Model /\ Progress /\ pc = "output" /\ model.has_graph /\ at \in Nat \ {0}
      /\ at <= Len(list) /\ Len(list) \in Nat /\ list \in Seq(ValueInfo) /\ Item = list[at]
  BY <1>0, NextDeclared
<1>2. /\ model' = model /\ pc' = pc /\ at' = at + 1 /\ TypeOK' /\ OneVersion'
      /\ ImportsDone' /\ OpsetFits' /\ InitializersDone' /\ NodesDone' /\ HintsDone'
      /\ ValuesRead(list, at - 1) => ValuesRead(list, at)
      /\ Read("input", model.input)' = Read("input", model.input)
      /\ Read("value_info", model.value_info)' = Read("value_info", model.value_info)
  BY <1>0, ValueRead
<1>3. Read("output", list) = at - 1 /\ Read("output", list)' = at
  BY <1>1, <1>2 DEF Read
<1>4. /\ ValuesRead(list, at - 1)
      /\ graph.graph_outputs = [i \in 1..(at - 1) |-> list[i].name]
  BY <1>1, <1>3 DEF Progress, OutputsDone
<1>5. graph'.graph_outputs = [i \in 1..at |-> list[i].name]
  <2>1. at - 1 \in Nat /\ at - 1 < Len(list) /\ at - 1 + 1 = at
    BY <1>1
  <2> QED BY <2>1, <1>1, <1>4, AppendName
<1>6. OutputsDone'
  BY <1>2, <1>3, <1>4, <1>5 DEF OutputsDone, ValuesRead, ShapeDefect
<1>7. InputsDone' /\ InfosDone'
  BY <1>1, <1>2, Keep DEF Progress
<1>8. Progress'
  BY <1>1, <1>2, <1>6, <1>7 DEF Progress
<1> QED BY <1>2, <1>8 DEF IInv

LEMMA DeclareInfoInv ==
  ASSUME IInv, In("value_info"), ShapeDefect(Item) = "none", shapes' = Hint(Item), Advance,
         found' = found, kinds' = kinds, graph' = graph
  PROVE  IInv'
<1> DEFINE list == model.value_info
<1>0. "value_info" \in ValueLoop /\ Lists["value_info"] = list
  BY ListFacts DEF ValueLoop
<1>1. /\ model \in Model /\ Progress /\ pc = "value_info" /\ model.has_graph
      /\ at \in Nat \ {0} /\ graph \in Graph
  BY <1>0, NextDeclared DEF IInv, TypeOK
<1>2. /\ model' = model /\ pc' = pc /\ at' = at + 1 /\ TypeOK' /\ OneVersion'
      /\ ImportsDone' /\ OpsetFits' /\ InitializersDone' /\ NodesDone' /\ HintsDone'
      /\ ValuesRead(list, at - 1) => ValuesRead(list, at)
      /\ Read("input", model.input)' = Read("input", model.input)
      /\ Read("output", model.output)' = Read("output", model.output)
  BY <1>0, <1>1, ValueRead
<1>3. Read("value_info", list) = at - 1 /\ Read("value_info", list)' = at
  BY <1>1, <1>2 DEF Read
<1>4. ValuesRead(list, at - 1)
  BY <1>1, <1>3 DEF Progress, InfosDone
<1>5. InfosDone'
  BY <1>2, <1>3, <1>4 DEF InfosDone, ValuesRead, ShapeDefect
<1>6. InputsDone' /\ OutputsDone'
  BY <1>1, <1>2, Keep DEF Progress
<1>7. Progress'
  BY <1>1, <1>2, <1>5, <1>6 DEF Progress
<1> QED BY <1>2, <1>7 DEF IInv

(* A name or a node more in a list of the graph.                           *)
LEMMA AppendInput ==
  ASSUME NEW g \in Graph, NEW x \in Str, NEW h, h = [g EXCEPT !.graph_inputs = Append(@, x)]
  PROVE  /\ h \in Graph /\ h.initializers = g.initializers /\ h.nodes = g.nodes
         /\ h.graph_outputs = g.graph_outputs
         /\ h.graph_inputs = Append(g.graph_inputs, x)
<1>1. Append(g.graph_inputs, x) \in Seq(Str)
  BY DEF Graph
<1> QED BY <1>1 DEF Graph

LEMMA AppendOutput ==
  ASSUME NEW g \in Graph, NEW x \in Str, NEW h, h = [g EXCEPT !.graph_outputs = Append(@, x)]
  PROVE  /\ h \in Graph /\ h.initializers = g.initializers /\ h.nodes = g.nodes
         /\ h.graph_inputs = g.graph_inputs
         /\ h.graph_outputs = Append(g.graph_outputs, x)
<1>1. Append(g.graph_outputs, x) \in Seq(Str)
  BY DEF Graph
<1> QED BY <1>1 DEF Graph

LEMMA AppendNode ==
  ASSUME NEW g \in Graph, NEW nd \in Node, NEW h, h = [g EXCEPT !.nodes = Append(@, nd)]
  PROVE  /\ h \in Graph /\ h.initializers = g.initializers
         /\ h.graph_inputs = g.graph_inputs /\ h.graph_outputs = g.graph_outputs
         /\ h.nodes = Append(g.nodes, nd)
<1>1. Append(g.nodes, nd) \in Seq(Node)
  BY DEF Graph
<1> QED BY <1>1 DEF Graph

LEMMA DeclareValueInv ==
  ASSUME IInv, NEW loop \in ValueLoop, DeclareValue(loop)
  PROVE  IInv'
<1>1. In(loop) /\ (loop = "input" \/ loop = "output" \/ loop = "value_info")
  BY DEF DeclareValue, ValueLoop
<1>2. CASE ShapeDefect(Item) # "none" /\ Return(ShapeDefect(Item))
  BY <1>1, <1>2, RejectValueInv
<1>3. CASE /\ ShapeDefect(Item) = "none"
           /\ graph' = CASE loop = "input" -> [graph EXCEPT !.graph_inputs = Append(@, Item.name)]
                         [] loop = "output" -> [graph EXCEPT !.graph_outputs = Append(@, Item.name)]
                         [] OTHER -> graph
           /\ shapes' = Hint(Item)
           /\ Advance /\ UNCHANGED <<found, kinds>>
  <2>1. Item.name \in Str /\ graph \in Graph /\ found' = found /\ kinds' = kinds
    BY <1>1, <1>3, NextDeclared DEF ValueInfo, IInv, TypeOK
  <2>3. CASE loop = "input"
    <3>1. graph' = [graph EXCEPT !.graph_inputs = Append(@, Item.name)]
      BY <1>3, <2>3
    <3>2. /\ graph' \in Graph /\ graph'.initializers = graph.initializers
          /\ graph'.nodes = graph.nodes /\ graph'.graph_outputs = graph.graph_outputs
          /\ graph'.graph_inputs = Append(graph.graph_inputs, Item.name)
      BY <3>1, <2>1, AppendInput
    <3> QED BY <3>2, <1>1, <1>3, <2>1, <2>3, DeclareInputInv
  <2>4. CASE loop = "output"
    <3>1. graph' = [graph EXCEPT !.graph_outputs = Append(@, Item.name)]
      BY <1>3, <2>4
    <3>2. /\ graph' \in Graph /\ graph'.initializers = graph.initializers
          /\ graph'.nodes = graph.nodes /\ graph'.graph_inputs = graph.graph_inputs
          /\ graph'.graph_outputs = Append(graph.graph_outputs, Item.name)
      BY <3>1, <2>1, AppendOutput
    <3> QED BY <3>2, <1>1, <1>3, <2>1, <2>4, DeclareOutputInv
  <2>5. CASE loop = "value_info"
    <3>1. graph' = graph
      BY <1>3, <2>5
    <3> QED BY <3>1, <1>1, <1>3, <2>1, <2>5, DeclareInfoInv
  <2> QED BY <1>1, <2>3, <2>4, <2>5
<1> QED BY <1>2, <1>3 DEF DeclareValue

-----------------------------------------------------------------------------
(* The nodes, the end and the invariant of every step.                     *)

(* A sequence that is a function of the positions, one position longer.    *)
LEMMA AppendIs ==
  ASSUME NEW S, NEW n \in Nat, NEW t \in [1..(n + 1) -> S],
         NEW s, s = [i \in 1..n |-> t[i]], NEW x, x = t[n + 1]
  PROVE  Append(s, x) = t
<1>1. /\ t \in Seq(S) /\ Len(t) = n + 1
      /\ s \in Seq(S) /\ Len(s) = n /\ \A i \in 1..n : s[i] = t[i]
      /\ x \in S
  OBVIOUS
<1> DEFINE y == Append(s, x)
<1>2. /\ y \in Seq(S) /\ Len(y) = n + 1 /\ y[n + 1] = x
      /\ \A i \in 1..n : y[i] = s[i]
  BY <1>1
<1>3. \A i \in 1..(n + 1) : i \in 1..n \/ i = n + 1
  OBVIOUS
<1> HIDE DEF y
<1>4. \A i \in 1..(n + 1) : y[i] = t[i]
  BY <1>1, <1>2, <1>3
<1>5. y = t
  BY <1>1, <1>2, <1>4
<1> QED BY <1>5 DEF y

LEMMA RejectNodeInv ==
  ASSUME IInv, In("node"), NodeDefect(Item) # "none", Return(NodeDefect(Item))
  PROVE  IInv'
<1>1. /\ model \in Model /\ Progress /\ pc = "node" /\ model.has_graph
      /\ Item \in Listed(model.node)
  BY ListFacts, IterationFacts, ModelFacts, ListedIs
<1>2. NodeDefect(Item) \in NodeDefects(model)
  BY <1>1, NodeUnsound
<1>3. NodeDefects(model) \subseteq FirstDefects(model)
  BY <1>1, EarlierParts, FirstDefectsAre DEF Rank
<1> QED BY <1>1, <1>2, <1>3, ReturnInv

LEMMA AcceptNodeInv ==
  ASSUME IInv, In("node"), NodeDefect(Item) = "none", Advance,
         found' = found, shapes' = shapes, graph' \in Graph,
         graph'.initializers = graph.initializers,
         graph'.graph_inputs = graph.graph_inputs, graph'.graph_outputs = graph.graph_outputs,
         graph'.nodes = Append(graph.nodes, NodeOf(Item)),
         kinds' = Append(kinds, KindsOf(Item))
  PROVE  IInv'
<1> DEFINE list == model.node
<1>1. /\ model \in Model /\ Progress /\ pc = "node" /\ model.has_graph /\ at \in Nat \ {0}
      /\ at <= Len(list) /\ Len(list) \in Nat /\ list \in Seq(NodeProto) /\ Item = list[at]
  BY ListFacts, IterationFacts, ModelFacts, ListedIs
<1>2. model' = model /\ pc' = pc /\ at' = at + 1
  BY DEF Advance
<1>3. Read("node", list) = at - 1 /\ Read("node", list)' = at
  BY <1>1, <1>2 DEF Read
<1>4. NodesRead(at - 1)
  BY <1>1, <1>3 DEF Progress, NodesDone
<1>5. at - 1 \in Nat /\ at - 1 + 1 = at
  BY <1>1
<1>6. graph'.nodes = [i \in 1..at |-> NodeOf(list[i])]
  <2> DEFINE t == [i \in 1..at |-> NodeOf(list[i])]
             S == {NodeOf(list[i]) : i \in 1..at}
  <2>1. t \in [1..at -> S] /\ t[at] = NodeOf(Item)
    BY <1>1
  <2>2. graph.nodes = [i \in 1..(at - 1) |-> t[i]]
    BY <1>1, <1>4 DEF NodesRead
  <2> HIDE DEF t, S
  <2>3. Append(graph.nodes, NodeOf(Item)) = t
    BY <2>1, <2>2, <1>5, AppendIs
  <2> QED BY <2>3 DEF t
<1>7. kinds' = [i \in 1..at |-> KindsOf(list[i])]
  <2> DEFINE t == [i \in 1..at |-> KindsOf(list[i])]
             S == {KindsOf(list[i]) : i \in 1..at}
  <2>1. t \in [1..at -> S] /\ t[at] = KindsOf(Item)
    BY <1>1
  <2>2. kinds = [i \in 1..(at - 1) |-> t[i]]
    BY <1>1, <1>4 DEF NodesRead
  <2> HIDE DEF t, S
  <2>3. Append(kinds, KindsOf(Item)) = t
    BY <2>1, <2>2, <1>5, AppendIs
  <2> QED BY <2>3 DEF t
<1>8. \A i \in 1..at : NodeDefect(list[i]) = "none"
  <2>1. \A i \in 1..at : i = at \/ i \in 1..(at - 1)
    BY <1>1
  <2> QED BY <2>1, <1>1, <1>4 DEF NodesRead
<1>9. NodesDone'
  BY <1>2, <1>3, <1>6, <1>7, <1>8 DEF NodesDone, NodesRead
<1>10. /\ Read("opset_import", model.opset_import)' = Read("opset_import", model.opset_import)
       /\ Read("initializer", model.initializer)' = Read("initializer", model.initializer)
       /\ Read("input", model.input)' = Read("input", model.input)
       /\ Read("output", model.output)' = Read("output", model.output)
       /\ Read("value_info", model.value_info)' = Read("value_info", model.value_info)
  BY <1>1, <1>2 DEF Read, Rank
<1>11. DeclaredRead' = DeclaredRead
  BY <1>10 DEF DeclaredRead
<1>12. OpsetFits'
  BY <1>1, <1>2 DEF Progress, OpsetFits, OpsetInRange
<1>13. Progress'
  BY <1>1, <1>2, <1>9, <1>10, <1>11, <1>12, Keep DEF Progress
<1>14. TypeOK' /\ OneVersion'
  <2>1. DOMAIN kinds' = NodeIds(graph')
    <3>1. Len(graph'.nodes) = at
      BY <1>1, <1>6
    <3> QED BY <3>1, <1>7 DEF NodeIds
  <2>2. "node" \in DOMAIN Lists
    BY ListFacts
  <2> QED BY <2>1, <2>2, IterationFacts DEF IInv, TypeOK
<1> QED BY <1>13, <1>14 DEF IInv

LEMMA MapNodeInv == IInv /\ MapNode => IInv'
<1> SUFFICES ASSUME IInv, MapNode PROVE IInv'
  OBVIOUS
<1>1. /\ In("node") /\ pc = "node" /\ Item \in NodeProto /\ graph \in Graph
  BY ListFacts, IterationFacts, ModelFacts, ListedIs DEF MapNode, IInv, TypeOK
<1>2. CASE NodeDefect(Item) # "none" /\ Return(NodeDefect(Item))
  BY <1>1, <1>2, RejectNodeInv
<1>3. CASE Return("oom")
  BY <1>1, <1>3, ReturnInv
<1>4. CASE /\ NodeDefect(Item) = "none"
           /\ graph' = [graph EXCEPT !.nodes = Append(@, NodeOf(Item))]
           /\ kinds' = Append(kinds, [j \in DOMAIN Item.attribute |-> MapAttribute(Item.attribute[j])])
           /\ Advance /\ UNCHANGED <<found, shapes>>
  <2>1. kinds' = Append(kinds, KindsOf(Item))
    BY <1>1, <1>4, NodeDefectIs
  <2>2. NodeOf(Item) \in Node
    BY <1>1 DEF NodeOf, NodeProto, Node
  <2>3. /\ graph' \in Graph /\ graph'.initializers = graph.initializers
        /\ graph'.graph_inputs = graph.graph_inputs /\ graph'.graph_outputs = graph.graph_outputs
        /\ graph'.nodes = Append(graph.nodes, NodeOf(Item))
    BY <2>2, <1>1, <1>4, AppendNode
  <2>4. Advance /\ found' = found /\ shapes' = shapes /\ NodeDefect(Item) = "none"
    BY <1>4
  <2> QED BY <2>1, <2>3, <2>4, <1>1, AcceptNodeInv
<1> QED BY <1>2, <1>3, <1>4 DEF MapNode

LEMMA FinishInv == IInv /\ Finish => IInv'
BY ReturnInv DEF Finish

LEMMA StutterInv == IInv /\ UNCHANGED vars => IInv'
<1> SUFFICES ASSUME IInv, UNCHANGED vars PROVE IInv'
  OBVIOUS
<1>1. /\ model' = model /\ pc' = pc /\ at' = at /\ found' = found /\ graph' = graph
      /\ kinds' = kinds /\ shapes' = shapes /\ status' = status
  BY DEF vars
<1>2. TypeOK'
  BY <1>1 DEF IInv, TypeOK, Lists
<1>3. OneVersion'
  <2>1. {id.version : id \in Listed(model.opset_import)}' = {id.version : id \in Listed(model.opset_import)}
        /\ OpsetDefects(model)' = OpsetDefects(model)
    BY <1>1
  <2> QED BY <2>1, <1>1 DEF IInv, OneVersion
<1>4. ASSUME pc # "done" PROVE Progress'
  <2>1. Progress
    BY <1>4 DEF IInv
  <2>2. /\ Read("opset_import", model.opset_import)' = Read("opset_import", model.opset_import)
        /\ Read("initializer", model.initializer)' = Read("initializer", model.initializer)
        /\ Read("input", model.input)' = Read("input", model.input)
        /\ Read("output", model.output)' = Read("output", model.output)
        /\ Read("value_info", model.value_info)' = Read("value_info", model.value_info)
        /\ Read("node", model.node)' = Read("node", model.node)
        /\ DeclaredRead' = DeclaredRead
    BY <1>1 DEF Read, DeclaredRead
  <2>3. OpsetFits'
    BY <2>1, <1>1 DEF Progress, OpsetFits, OpsetInRange
  <2> QED BY <2>1, <2>2, <2>3, <1>1, Keep DEF Progress
<1> QED BY <1>1, <1>2, <1>3, <1>4 DEF IInv

LEMMA InitInv == Init => IInv
<1> SUFFICES ASSUME Init PROVE IInv
  OBVIOUS
<1>1. /\ model \in Model /\ pc = "entry" /\ at = 1 /\ found = -1 /\ status = "none"
      /\ graph = EmptyGraph /\ kinds = <<>> /\ shapes = <<>>
  BY ModelsAssumption DEF Init
<1>2. graph \in Graph /\ graph.nodes = <<>> /\ graph.initializers = {}
      /\ graph.graph_inputs = <<>> /\ graph.graph_outputs = <<>>
  BY <1>1 DEF EmptyGraph, Graph
<1>3. TypeOK
  BY <1>1, <1>2, ListFacts DEF TypeOK, NodeIds
<1>4. OneVersion
  BY <1>1 DEF OneVersion
<1>5. /\ Read("opset_import", model.opset_import) = 0
      /\ Read("initializer", model.initializer) = 0
      /\ Read("input", model.input) = 0 /\ Read("output", model.output) = 0
      /\ Read("value_info", model.value_info) = 0 /\ Read("node", model.node) = 0
      /\ DeclaredRead = 0
  BY <1>1 DEF Read, Rank, DeclaredRead
<1>6. ImportsDone /\ OpsetFits /\ InitializersDone
  <2>1. ImportsRead(0)
    <3>1. found = -1
      BY <1>1
    <3>2. \A i \in 1..0 : FALSE
      OBVIOUS
    <3> QED BY <3>1, <3>2, Zenon DEF ImportsRead
  <2>2. InitializersRead(0)
    BY <1>2 DEF InitializersRead
  <2> QED BY <2>1, <2>2, <1>1, <1>5 DEF ImportsDone, OpsetFits, InitializersDone
<1>7. InputsDone /\ OutputsDone /\ InfosDone
  BY <1>2, <1>5 DEF InputsDone, OutputsDone, InfosDone, ValuesRead
<1>8. HintsDone
  <2>1. Shaped(0) = {}
    BY DEF Shaped
  <2> QED BY <2>1, <1>1, <1>5 DEF HintsDone, Hints
<1>9. NodesDone
  BY <1>1, <1>2, <1>5 DEF NodesDone, NodesRead
<1> QED BY <1>1, <1>3, <1>4, <1>6, <1>7, <1>8, <1>9 DEF IInv, Progress

LEMMA NextInv == IInv /\ [Next]_vars => IInv'
BY EnterInv, LeaveLoopInv, ResolveImportInv, CheckRangeInv, MapInitializerInv, DeclareValueInv,
   MapNodeInv, FinishInv, StutterInv DEF Next, Returned, ValueLoop

LEMMA Inductive == Spec => []IInv
BY InitInv, NextInv, PTL DEF Spec

(* Every state of every call is of its type: the position is at most one   *)
(* past the list the call goes through, the graph is a graph with kinds    *)
(* for each node, no shape has a negative dim, and what the call returns   *)
(* is "ok", "oom" or a defect of the first part of the model that has one. *)
THEOREM TypeCorrect == Spec => []TypeOK
BY Inductive, PTL DEF IInv

(* Past ResolveOpset all imports of the model are of the one version that  *)
(* was found, whatever their number, order and spelling.                   *)
THEOREM OpsetIsResolved == Spec => []OneVersion
BY Inductive, PTL DEF IInv

-----------------------------------------------------------------------------
(* The refinement.  What the specification's module says of a model is     *)
(* what this module says.                                                  *)

LEMMA AbstractModel == Abstract!Model = Model
BY DEF Model, Abstract!Model, OperatorSetId, Abstract!OperatorSetId, Initializer,
       Abstract!Initializer, ValueInfo, Abstract!ValueInfo, NodeProto, Abstract!NodeProto,
       AttributeProto, Abstract!AttributeProto, Domain, Abstract!Domain, TensorVerdict,
       Abstract!TensorVerdict, Field, Abstract!Field, Str, Abstract!Str

LEMMA AbstractDefects ==
  ASSUME NEW m
  PROVE  /\ Abstract!OpsetDefects(m) = OpsetDefects(m)
         /\ Abstract!InitializerDefects(m) = InitializerDefects(m)
         /\ \A list : Abstract!ValueDefects(list) = ValueDefects(list)
         /\ Abstract!NodeDefects(m) = NodeDefects(m)
         /\ Abstract!FirstDefects(m) = FirstDefects(m)
         /\ Abstract!Loadable(m) = Loadable(m)
         /\ Abstract!HasTensor(m) = HasTensor(m)
<1>1. Abstract!OpsetDefects(m) = OpsetDefects(m)
  BY DEF OpsetDefects, Abstract!OpsetDefects, Listed, Abstract!Listed, CanonicalizeDomain,
         Abstract!CanonicalizeDomain
<1>2. Abstract!InitializerDefects(m) = InitializerDefects(m)
  BY DEF InitializerDefects, Abstract!InitializerDefects
<1>3. \A list : Abstract!ValueDefects(list) = ValueDefects(list)
  BY DEF ValueDefects, Abstract!ValueDefects, Listed, Abstract!Listed
<1>4. Abstract!NodeDefects(m) = NodeDefects(m)
  BY DEF NodeDefects, Abstract!NodeDefects, Listed, Abstract!Listed, CanonicalizeDomain,
         Abstract!CanonicalizeDomain, AttributeDefect, Abstract!AttributeDefect,
         TensorAttribute, Abstract!TensorAttribute
<1>5. Abstract!Parts(m) = Parts(m)
  BY <1>1, <1>2, <1>3, <1>4 DEF Parts, Abstract!Parts
<1>6. Abstract!HasTensor(m) = HasTensor(m)
  BY DEF HasTensor, Abstract!HasTensor, Listed, Abstract!Listed, TensorAttribute,
         Abstract!TensorAttribute
<1> QED BY <1>1, <1>2, <1>3, <1>4, <1>5, <1>6
        DEF FirstDefects, Abstract!FirstDefects, Loadable, Abstract!Loadable

LEMMA AbstractLoaded ==
  ASSUME NEW m
  PROVE  Abstract!Loaded(m) = [opset  |-> m.opset_import[1].version,
                               graph  |-> GraphOf(m),
                               kinds  |-> [j \in DOMAIN m.node |-> KindsOf(m.node[j])],
                               shapes |-> ShapesOf(m)]
<1>1. Abstract!GraphOf(m) = GraphOf(m)
  BY DEF GraphOf, Abstract!GraphOf, NodeOf, Abstract!NodeOf, Names, Abstract!Names,
         Listed, Abstract!Listed
<1>2. \A np : Abstract!KindsOf(np) = KindsOf(np)
  BY DEF KindsOf, Abstract!KindsOf, Kind, Abstract!Kind, KindOfType, Abstract!KindOfType,
         ProbeOrder, Abstract!ProbeOrder, Min, Abstract!Min
<1>3. Abstract!ShapesOf(m) = ShapesOf(m)
  BY DEF ShapesOf, Abstract!ShapesOf, Listed, Abstract!Listed, Max, Abstract!Max
<1> QED BY <1>1, <1>2, <1>3 DEF Abstract!Loaded

(* A bounded set of numbers has a greatest, the least of its bounds.       *)
LEMMA GreatestExists ==
  ASSUME NEW n \in Nat, NEW S \in SUBSET (1..n), S # {}
  PROVE  \E m \in S : \A y \in S : y <= m
<1> DEFINE B == {b \in Nat : \A y \in S : y <= b}
           b == Min(B)
<1>1. n \in B
  OBVIOUS
<1>2. b \in B /\ \A c \in B : b <= c
  BY <1>1, MinIs
<1>3. b \in Nat /\ (\A y \in S : y \in Nat /\ y > 0 /\ y <= b) /\ \A c \in Nat : (\A y \in S : y <= c) => b <= c
  BY <1>2
<1> HIDE DEF b, B
<1>4. b \in S
  <2> SUFFICES ASSUME b \notin S PROVE FALSE
    OBVIOUS
  <2>1. b > 0
    <3>1. PICK y \in S : TRUE
      OBVIOUS
    <3> QED BY <3>1, <1>3
  <2>2. \A y \in S : y <= b - 1
    BY <1>3
  <2>3. b <= b - 1
    BY <1>3, <2>1, <2>2
  <2> QED BY <1>3, <2>3
<1> QED BY <1>3, <1>4

(* All values declared and a map with their hints: the map of the model.   *)
LEMMA AllHintsAre ==
  ASSUME model \in Model, NEW f, Hints(f, Len(Declared))
  PROVE  f = ShapesOf(model)
<1> DEFINE all == model.input \o model.output \o model.value_info
           n == Len(all)
           shaped(x) == {j \in DOMAIN all : all[j].name = x /\ all[j].has_shape}
           names == {vi.name : vi \in {v \in Listed(all) : v.has_shape}}
           T == {i \in 1..n : all[i].has_shape}
<1>1. all = Declared /\ n \in Nat /\ DOMAIN all = 1..n /\ all \in Seq(ValueInfo)
  <2>1. all = Declared
    BY DEF Declared
  <2>2. Declared \in Seq(ValueInfo)
    BY DeclaredIs
  <2> HIDE DEF all
  <2> QED BY <2>1, <2>2
<1>2. /\ f = [x \in DOMAIN f |-> f[x]]
      /\ DOMAIN f = {all[i].name : i \in T}
      /\ \A i \in T : (\A j \in T : j > i => all[j].name # all[i].name)
                        => f[all[i].name] = all[i].dims
  <2>1. Shaped(Len(Declared)) = T
    BY <1>1 DEF Shaped
  <2> HIDE DEF all, T
  <2> QED BY <2>1, <1>1 DEF Hints
<1>3. ShapesOf(model) = [x \in names |-> all[Max(shaped(x))].dims]
  BY DEF ShapesOf
<1> HIDE DEF all, n
<1>4. names = {all[i].name : i \in T}
  BY <1>1 DEF Listed
<1>5. ASSUME NEW x \in names PROVE f[x] = all[Max(shaped(x))].dims
  <2>1. shaped(x) \in SUBSET (1..n) /\ shaped(x) # {}
    BY <1>1, <1>4, <1>5
  <2>2. PICK m \in shaped(x) : \A y \in shaped(x) : y <= m
    BY <2>1, <1>1, GreatestExists
  <2>3. Max(shaped(x)) = m
    <3>1. shaped(x) \in SUBSET Nat
      BY <2>1, <1>1
    <3> HIDE DEF shaped
    <3> QED BY <3>1, <2>2, MaxIs
  <2>4. m \in T /\ all[m].name = x /\ m \in Nat
    BY <2>1, <2>2, <1>1
  <2>5. \A j \in T : j > m => all[j].name # x
    BY <2>2, <2>4, <1>1
  <2> QED BY <2>3, <2>4, <2>5, <1>2
<1> HIDE DEF names, shaped, T
<1>6. f = [x \in names |-> all[Max(shaped(x))].dims]
  BY <1>2, <1>4, <1>5
<1> QED BY <1>3, <1>6

(* A call that has gone through all loops has the graph of the model.      *)
LEMMA BuiltIs ==
  ASSUME IInv, pc = "built"
  PROVE  /\ Loadable(model) /\ found = model.opset_import[1].version
         /\ graph = GraphOf(model)
         /\ kinds = [j \in DOMAIN model.node |-> KindsOf(model.node[j])]
         /\ shapes = ShapesOf(model)
<1>1. model \in Model /\ Progress /\ Rank(pc) = 8 /\ graph \in Graph
  BY DEF IInv, TypeOK, Rank
<1>2. /\ Read("opset_import", model.opset_import) = Len(model.opset_import)
      /\ Read("initializer", model.initializer) = Len(model.initializer)
      /\ Read("input", model.input) = Len(model.input)
      /\ Read("output", model.output) = Len(model.output)
      /\ Read("value_info", model.value_info) = Len(model.value_info)
      /\ Read("node", model.node) = Len(model.node)
  BY DEF Read, Rank
<1>3. Loadable(model)
  BY <1>1, EarlierParts, LoadableIs
<1>4. found = model.opset_import[1].version
  <2>1. ImportsRead(Len(model.opset_import)) /\ model.opset_import # <<>>
    BY <1>1, <1>2 DEF Progress, ImportsDone, OpsetFits
  <2> QED BY <2>1, <1>1, ImportsSound
<1>5. graph.nodes = [j \in DOMAIN model.node |-> NodeOf(model.node[j])]
      /\ kinds = [j \in DOMAIN model.node |-> KindsOf(model.node[j])]
  <2>1. NodesRead(Len(model.node)) /\ DOMAIN model.node = 1..Len(model.node)
    BY <1>1, <1>2, ModelFacts, ListedIs DEF Progress, NodesDone
  <2> QED BY <2>1 DEF NodesRead
<1>6. graph.initializers = {i.name : i \in Listed(model.initializer)}
  <2> DEFINE list == model.initializer
  <2>1. graph.initializers = {list[i].name : i \in 1..Len(list)}
    BY <1>1, <1>2 DEF Progress, InitializersDone, InitializersRead
  <2>2. DOMAIN list = 1..Len(list)
    BY <1>1, ModelFacts, ListedIs
  <2> HIDE DEF list
  <2>3. {list[i].name : i \in 1..Len(list)} = {i.name : i \in Listed(list)}
    BY <2>2 DEF Listed
  <2> QED BY <2>1, <2>3 DEF list
<1>7. graph.graph_inputs = Names(model.input) /\ graph.graph_outputs = Names(model.output)
  <2>1. DOMAIN model.input = 1..Len(model.input) /\ DOMAIN model.output = 1..Len(model.output)
    BY <1>1, ModelFacts, ListedIs
  <2>2. /\ graph.graph_inputs = [i \in 1..Len(model.input) |-> model.input[i].name]
        /\ graph.graph_outputs = [i \in 1..Len(model.output) |-> model.output[i].name]
    BY <1>1, <1>2 DEF Progress, InputsDone, OutputsDone
  <2> QED BY <2>1, <2>2 DEF Names
<1>8. graph = GraphOf(model)
  <2>1. graph = [nodes |-> graph.nodes, initializers |-> graph.initializers,
                 graph_inputs |-> graph.graph_inputs, graph_outputs |-> graph.graph_outputs]
    BY <1>1 DEF Graph
  <2> QED BY <2>1, <1>5, <1>6, <1>7 DEF GraphOf
<1>9. shapes = ShapesOf(model)
  <2>1. DeclaredRead = Len(Declared)
    BY <1>1, <1>2, DeclaredIs DEF DeclaredRead
  <2> QED BY <2>1, <1>1, AllHintsAre DEF Progress, HintsDone
<1> QED BY <1>3, <1>4, <1>5, <1>8, <1>9

(* A return with anything but "ok" and "oom" is a rejection.               *)
LEMMA RejectRefines ==
  ASSUME IInv, IInv', pc # "done", NEW verdict, Return(verdict),
         verdict \notin {"none", "ok", "oom"}
  PROVE  Abstract!Next
<1>1. model' = model /\ status' = verdict /\ status = "none"
  BY DEF Return, IInv, TypeOK
<1>2. status' \in FirstDefects(model)
  <2>1. status' \in FirstDefects(model') \cup {"none", "ok", "oom"}
    BY DEF IInv, TypeOK
  <2> QED BY <2>1, <1>1
<1> QED BY <1>1, <1>2, AbstractDefects DEF Abstract!Next, Abstract!Reject

(* The defects are not taken for anything else.                            *)
LEMMA VerdictsAre ==
  /\ IInv /\ In("initializer") => InitializerDefect \notin {"ok", "oom"}
  /\ \A vi : ShapeDefect(vi) \notin {"ok", "oom"}
  /\ IInv /\ In("node") => NodeDefect(Item) \notin {"ok", "oom"}
<1>1. ASSUME IInv, In("initializer") PROVE InitializerDefect \notin {"ok", "oom"}
  <2>1. Item \in Initializer
    BY <1>1, ListFacts, IterationFacts, ModelFacts, ListedIs
  <2> QED BY <2>1 DEF Initializer, TensorVerdict, InitializerDefect
<1>2. \A vi : ShapeDefect(vi) \notin {"ok", "oom"}
  BY DEF ShapeDefect
<1>3. ASSUME IInv, In("node") PROVE NodeDefect(Item) \notin {"ok", "oom"}
  <2>1. Item \in NodeProto
    BY <1>3, ListFacts, IterationFacts, ModelFacts, ListedIs
  <2>2. \A ap \in AttributeProto : AttributeDefect(ap) \notin {"ok", "oom"}
    BY DEF AttributeProto, TensorVerdict, AttributeDefect
  <2>3. \A ap \in Listed(Item.attribute) : ap \in AttributeProto
    BY <2>1, ListedIs DEF NodeProto
  <2> QED BY <2>1, <2>2, <2>3, NodeDefectIs
<1> QED BY <1>1, <1>2, <1>3

LEMMA OomRefines ==
  ASSUME IInv, pc # "done", Rank(pc) > 2, HasTensor(model), Return("oom")
  PROVE  Abstract!Next
<1>1. model' = model /\ status' = "oom" /\ status = "none"
  BY DEF Return, IInv, TypeOK
<1>2. model.has_graph /\ OpsetDefects(model) = {}
  BY EarlierParts
<1> QED BY <1>1, <1>2, AbstractDefects DEF Abstract!Next, Abstract!OutOfMemory

LEMMA FinishRefines == IInv /\ Finish => Abstract!Next
<1> SUFFICES ASSUME IInv, Finish PROVE Abstract!Next
  OBVIOUS
<1>1. /\ pc = "built" /\ model' = model /\ status' = "ok" /\ status = "none"
      /\ found' = found /\ graph' = graph /\ kinds' = kinds /\ shapes' = shapes
  BY DEF Finish, Return, IInv, TypeOK
<1>2. [opset |-> found, graph |-> graph, kinds |-> kinds, shapes |-> shapes]
        = Abstract!Loaded(model)
  BY <1>1, BuiltIs, AbstractLoaded
<1>3. Abstract!Loadable(model)
  BY <1>1, BuiltIs, AbstractDefects
<1> QED BY <1>1, <1>2, <1>3 DEF Abstract!Next, Abstract!Accept

(* A step within the call is a stutter.                                    *)
LEMMA WithinTheCall ==
  ASSUME IInv, pc # "done", model' = model, status' = status
  PROVE  UNCHANGED Abstract!specVars
<1>1. status = "none" /\ status' = "none"
  BY DEF IInv, TypeOK
<1> QED BY <1>1 DEF Abstract!specVars

LEMMA StepRefines == IInv /\ IInv' /\ [Next]_vars => [Abstract!Next]_(Abstract!specVars)
<1> SUFFICES ASSUME IInv, IInv', [Next]_vars PROVE Abstract!Next \/ UNCHANGED Abstract!specVars
  OBVIOUS
<1>1. CASE Enter
  BY <1>1, RejectRefines, WithinTheCall DEF Enter
<1>2. CASE LeaveLoop
  BY <1>2, ListFacts, WithinTheCall DEF LeaveLoop
<1>3. CASE ResolveImport
  BY <1>3, RejectRefines, WithinTheCall DEF ResolveImport, Advance, In
<1>4. CASE CheckRange
  BY <1>4, RejectRefines, WithinTheCall DEF CheckRange
<1>5. CASE MapInitializer
  <2>1. pc = "initializer" /\ pc # "done"
    BY <1>5 DEF MapInitializer, In
  <2>2. CASE InitializerDefect # "none" /\ Return(InitializerDefect)
    BY <1>5, <2>1, <2>2, VerdictsAre, RejectRefines DEF MapInitializer
  <2>3. CASE Return("oom")
    <3>1. HasTensor(model)
      BY <1>5, ListFacts, IterationFacts DEF MapInitializer, HasTensor
    <3> QED BY <3>1, <2>1, <2>3, OomRefines DEF Rank
  <2>4. CASE Advance
    BY <2>1, <2>4, WithinTheCall DEF Advance
  <2> QED BY <1>5, <2>2, <2>3, <2>4 DEF MapInitializer
<1>6. ASSUME NEW loop \in {"input", "output", "value_info"}, DeclareValue(loop)
      PROVE  Abstract!Next \/ UNCHANGED Abstract!specVars
  <2>1. pc # "done"
    BY <1>6 DEF DeclareValue, In
  <2>2. CASE ShapeDefect(Item) # "none" /\ Return(ShapeDefect(Item))
    BY <2>1, <2>2, VerdictsAre, RejectRefines
  <2>3. CASE Advance
    BY <2>1, <2>3, WithinTheCall DEF Advance
  <2> QED BY <1>6, <2>2, <2>3 DEF DeclareValue
<1>7. CASE MapNode
  <2>1. pc = "node" /\ pc # "done"
    BY <1>7 DEF MapNode, In
  <2>2. CASE NodeDefect(Item) # "none" /\ Return(NodeDefect(Item))
    BY <1>7, <2>1, <2>2, VerdictsAre, RejectRefines DEF MapNode
  <2>3. CASE ConvertsTensor(Item) /\ Return("oom")
    <3>1. Item \in Listed(model.node) /\ Item \in NodeProto
      BY <1>7, ListFacts, IterationFacts, ModelFacts, ListedIs DEF MapNode
    <3>2. \E ap \in Listed(Item.attribute) : TensorAttribute(ap)
      BY <2>3 DEF ConvertsTensor, Listed
    <3>3. HasTensor(model)
      BY <3>1, <3>2 DEF HasTensor
    <3> QED BY <3>3, <2>1, <2>3, OomRefines DEF Rank
  <2>4. CASE Advance
    BY <2>1, <2>4, WithinTheCall DEF Advance
  <2> QED BY <1>7, <2>2, <2>3, <2>4 DEF MapNode
<1>8. CASE Finish
  BY <1>8, FinishRefines
<1>9. CASE UNCHANGED vars
  BY <1>9 DEF vars, Abstract!specVars
<1> QED BY <1>1, <1>2, <1>3, <1>4, <1>5, <1>6, <1>7, <1>8, <1>9 DEF Next, Returned

(* Whatever the call answers is right: a defect is one of the first part   *)
(* of the model that has one, "oom" comes only from a model that gets to a *)
(* tensor, and "ok" only with the graph, the attribute kinds, the shapes   *)
(* and the version that the model stands for.                              *)
THEOREM AnswersAreRight == Spec => Abstract!Init /\ [][Abstract!Next]_(Abstract!specVars)
<1>1. Init => Abstract!Init
  BY AbstractModel, ModelsAssumption DEF Init, Abstract!Init, Abstract!Nothing
<1> QED BY <1>1, StepRefines, Inductive, PTL DEF Spec
=============================================================================
