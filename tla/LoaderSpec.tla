----------------------------- MODULE LoaderSpec -----------------------------
(***************************************************************************)
(* What LoadGraphFromModelProto promises (include/eduort/onnx_loader.h,    *)
(* docs/02-what-is-onnx.md "Policies applied at load"): one answer, the    *)
(* graph the model stands for or a defect that the model has.              *)
(***************************************************************************)
EXTENDS ModelProto

VARIABLES model, loaded, status

specVars == <<model, loaded, status>>

(* What a caller can have of a graph: nothing until the call succeeds.     *)
Nothing == [opset |-> -1]

Loaded(m) == [opset  |-> m.opset_import[1].version,
              graph  |-> GraphOf(m),
              kinds  |-> [j \in DOMAIN m.node |-> KindsOf(m.node[j])],
              shapes |-> ShapesOf(m)]

Init == model \in Model /\ loaded = Nothing /\ status = "none"

Accept ==
  /\ status = "none"
  /\ Loadable(model)
  /\ loaded' = Loaded(model)
  /\ status' = "ok"
  /\ UNCHANGED model

Reject ==
  /\ status = "none"
  /\ status' \in FirstDefects(model)
  /\ UNCHANGED <<model, loaded>>

OutOfMemory ==
  /\ status = "none"
  /\ model.has_graph /\ OpsetDefects(model) = {} /\ HasTensor(model)
  /\ status' = "oom"
  /\ UNCHANGED <<model, loaded>>

Next == Accept \/ Reject \/ OutOfMemory

(* The call answers.                                                       *)
Answers == <>(status # "none")

Spec == Init /\ [][Next]_specVars /\ Answers
=============================================================================
