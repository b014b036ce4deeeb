------------------------- MODULE LoadPipelineProofs -------------------------
(***************************************************************************)
(* Proofs about LoadPipeline and, since its first stage is one, about      *)
(* ModelFile: for files, limits and ints of every size, whatever the other *)
(* processes write to the file, and for every protobuf and every model.    *)
(***************************************************************************)
EXTENDS LoadPipeline, TLAPS

-----------------------------------------------------------------------------
(* Part 1: the read of the file (ModelFile), whatever is written to it.    *)

(* The vector has been made.                                               *)
Measured ==
  pc \in {"read", "parse"} \/ outcome \in {"short_read", "read_error", "too_large_to_parse",
                                         "bad_bytes", "ok"}

(* The vector has been filled.                                             *)
Filled == pc = "parse" \/ outcome \in {"too_large_to_parse", "bad_bytes", "ok"}

(* The types, with the contents as sequences.                              *)
Typed ==
  /\ file \in Seq(Byte) /\ Len(file) <= MaxLen
  /\ measured \in Seq(Byte) /\ Len(measured) <= MaxLen
  /\ buf \in Seq(Byte) /\ Len(buf) <= MaxLen
  /\ max_bytes \in Limits
  /\ pc \in {"open", "read", "parse", "done"}
  /\ got \in Nat
  /\ outcome \in {"none", "unreadable", "too_large", "short_read", "read_error",
                  "too_large_to_parse", "bad_bytes", "ok"}
  /\ (outcome = "none") = (pc # "done")
  /\ ever \in [1..MaxLen -> SUBSET Byte] /\ appended \in BOOLEAN

(* Before the measurement there is no vector; from then on it has the      *)
(* measured size, which was tested against the limit.                      *)
Sizes ==
  /\ got <= Len(buf) /\ Len(buf) <= max_bytes
  /\ pc = "open" => got = 0 /\ buf = <<>>
  /\ Measured => Len(buf) = Len(measured)
  /\ Filled => got = Len(buf)
  /\ outcome \in {"ok", "bad_bytes"} => Len(buf) <= IntMax

(* What has been delivered was in the file, and what is in the file while  *)
(* the call runs has been remembered.                                      *)
Delivered ==
  Measured =>
    /\ \A j \in 1..got : buf[j] \in ever[j]
    /\ pc # "done" => \A j \in 1..Len(file) : file[j] \in ever[j]

(* A file that was at most appended to still begins with what was          *)
(* measured, and so does what has been delivered.                          *)
Prefix ==
  Measured /\ appended =>
    /\ Len(measured) <= Len(file)
    /\ \A j \in 1..Len(measured) : file[j] = measured[j]
    /\ \A j \in 1..got : buf[j] = measured[j]
    /\ outcome # "short_read"

(* Bytes that were refused are refused.                                    *)
Refused == outcome = "bad_bytes" => ~Parses(buf)

IInv == Typed /\ Sizes /\ Delivered /\ Prefix /\ Refused

-----------------------------------------------------------------------------
(* The contents are the sequences of at most MaxLen bytes.                 *)
LEMMA ContentsAre ==
  ASSUME NEW c
  PROVE  c \in Contents <=> c \in Seq(Byte) /\ Len(c) <= MaxLen
<1>1. ASSUME NEW n \in 0..MaxLen, c \in [1..n -> Byte]
      PROVE  c \in Seq(Byte) /\ Len(c) <= MaxLen
  <2>1. c \in Seq(Byte) /\ Len(c) = n
    BY <1>1, BoundAssumption
  <2> QED BY <2>1, BoundAssumption
<1>2. ASSUME c \in Seq(Byte), Len(c) <= MaxLen
      PROVE  \E n \in 0..MaxLen : c \in [1..n -> Byte]
  <2>1. Len(c) \in 0..MaxLen /\ c \in [1..Len(c) -> Byte]
    BY <1>2, BoundAssumption
  <2> QED BY <2>1
<1> QED BY <1>1, <1>2 DEF Contents

LEMMA TypedIsTypeOK == Typed => TypeOK
  BY ContentsAre DEF Typed, TypeOK

(* At most one byte is at a position.                                      *)
LEMMA AtFacts ==
  ASSUME NEW c \in Seq(Byte), NEW j \in 1..MaxLen
  PROVE  /\ At(c, j) \subseteq Byte
         /\ j <= Len(c) => c[j] \in At(c, j)
  BY BoundAssumption DEF At

-----------------------------------------------------------------------------
LEMMA InitInv == Init => IInv
<1> SUFFICES ASSUME Init PROVE IInv
  OBVIOUS
<1>1. file \in Seq(Byte) /\ Len(file) <= MaxLen
  BY ContentsAre DEF Init
<1>2. Typed
  BY <1>1, BoundAssumption DEF Init, Typed
<1>3. Sizes /\ Delivered /\ Prefix /\ Refused
  BY BoundAssumption DEF Init, Sizes, Delivered, Prefix, Refused, Measured, Filled
<1> QED BY <1>2, <1>3 DEF IInv

(* Another process writes.  What it writes is remembered, and if it only   *)
(* appends the file begins as before.                                      *)
LEMMA WriteInv ==
  ASSUME IInv, NEW content \in Seq(Byte), Len(content) <= MaxLen, NEW appends \in BOOLEAN,
         appends => /\ Len(file) <= Len(content)
                    /\ \A j \in 1..Len(file) : content[j] = file[j],
         Write(content, appends)
  PROVE  IInv'
<1> USE DEF IInv
<1>1. Typed'
  <2>1. ever' \in [1..MaxLen -> SUBSET Byte]
    BY AtFacts DEF Write, Typed
  <2>2. file' \in Seq(Byte) /\ Len(file') <= MaxLen /\ appended' \in BOOLEAN
    BY DEF Write, Typed
  <2> QED BY <2>1, <2>2 DEF Write, Typed, reader
<1>2. Sizes'
  BY DEF Write, Sizes, Measured, Filled, reader
<1>3. Delivered'
  <2> SUFFICES ASSUME Measured'
               PROVE  /\ \A j \in 1..got' : buf'[j] \in ever'[j]
                      /\ \A j \in 1..Len(file') : file'[j] \in ever'[j]
    BY DEF Delivered
  <2>1. Measured /\ got' = got /\ buf' = buf /\ file' = content
    BY DEF Write, Measured, reader
  <2>2. \A j \in 1..MaxLen : ever'[j] = ever[j] \cup At(content, j)
    BY DEF Write
  <2>3. \A j \in 1..got : j \in 1..MaxLen /\ buf[j] \in ever[j]
    BY <2>1, BoundAssumption DEF Typed, Sizes, Delivered
  <2>4. \A j \in 1..Len(content) : j \in 1..MaxLen /\ content[j] \in At(content, j)
    BY AtFacts, BoundAssumption
  <2> QED BY <2>1, <2>2, <2>3, <2>4
<1>4. Prefix'
  <2> SUFFICES ASSUME Measured', appended' PROVE Prefix'
    BY DEF Prefix
  <2>1. Measured /\ appended /\ appends
    BY DEF Write, Measured, reader, Typed
  <2>2. /\ got' = got /\ buf' = buf /\ file' = content /\ outcome' = outcome
        /\ measured' = measured
    BY DEF Write, reader
  <2> QED BY <2>1, <2>2 DEF Prefix, Typed
<1>5. Refused'
  BY DEF Write, Refused, reader
<1> QED BY <1>1, <1>2, <1>3, <1>4, <1>5

LEMMA WriterInv == ASSUME IInv, Writer PROVE IInv'
<1>0. file \in Seq(Byte) /\ Len(file) <= MaxLen /\ Len(file) \in Nat /\ MaxLen \in Nat
  BY BoundAssumption DEF IInv, Typed
<1>1. ASSUME NEW b \in Byte, AppendByte(b) PROVE IInv'
  <2>1. /\ Append(file, b) \in Seq(Byte) /\ Len(Append(file, b)) = Len(file) + 1
        /\ \A j \in 1..Len(file) : Append(file, b)[j] = file[j]
    BY <1>0
  <2>2. Len(Append(file, b)) <= MaxLen /\ Len(file) <= Len(Append(file, b))
    BY <2>1, <1>0, <1>1 DEF AppendByte
  <2> QED BY <2>1, <2>2, <1>1, WriteInv DEF AppendByte
<1>2. ASSUME NEW b \in Byte, NEW i \in 1..MaxLen, Overwrite(i, b) PROVE IInv'
  <2>1. [file EXCEPT ![i] = b] \in Seq(Byte) /\ Len([file EXCEPT ![i] = b]) <= MaxLen
    BY <1>0, <1>2 DEF Overwrite
  <2> QED BY <2>1, <1>2, WriteInv DEF Overwrite
<1>3. ASSUME NEW n \in 0..(MaxLen - 1), Truncate(n) PROVE IInv'
  <2>1. SubSeq(file, 1, n) \in Seq(Byte) /\ Len(SubSeq(file, 1, n)) <= MaxLen
    BY <1>0, <1>3 DEF Truncate
  <2> QED BY <2>1, <1>3, WriteInv DEF Truncate
<1> QED BY <1>1, <1>2, <1>3 DEF Writer

-----------------------------------------------------------------------------
(* A return changes the program counter and the outcome only.              *)
LEMMA EarlyReturnInv ==
  ASSUME IInv, pc = "open", NEW verdict \in {"unreadable", "too_large"}, Return(verdict)
  PROVE  IInv'
  BY DEF IInv, Return, Typed, Sizes, Delivered, Prefix, Refused, Measured, Filled, history

LEMMA MeasureInv == ASSUME IInv, Measure PROVE IInv'
<1>1. /\ file \in Seq(Byte) /\ Len(file) \in Nat /\ Len(file) <= MaxLen
      /\ got = 0 /\ max_bytes \in Limits
  BY DEF IInv, Typed, Sizes, Measure
<1>2. /\ buf' \in Seq(Byte) /\ Len(buf') = Len(file)
  BY <1>1, ByteAssumption DEF Measure
<1>3. \A j \in 1..MaxLen : ever'[j] = At(file, j)
  BY DEF Measure
<1>4. Typed'
  <2>1. ever' \in [1..MaxLen -> SUBSET Byte]
    BY <1>1, AtFacts DEF Measure
  <2> QED BY <1>1, <1>2, <2>1 DEF Measure, IInv, Typed
<1>5. Sizes'
  BY <1>1, <1>2 DEF Measure, IInv, Typed, Sizes, Measured, Filled
<1>6. Delivered'
  <2>1. \A j \in 1..Len(file) : j \in 1..MaxLen /\ file[j] \in At(file, j)
    BY <1>1, AtFacts, BoundAssumption
  <2> QED BY <1>1, <1>3, <2>1 DEF Measure, Delivered
<1>7. Prefix'
  BY <1>1 DEF Measure, IInv, Typed, Prefix, Measured
<1>8. Refused'
  BY DEF Measure, IInv, Typed, Refused
<1> QED BY <1>4, <1>5, <1>6, <1>7, <1>8 DEF IInv

(* The bytes of a read are in the file at that moment, so they have been   *)
(* remembered, and they are the measured ones if the file was only         *)
(* appended to.                                                            *)
LEMMA ReadSomeInv == ASSUME IInv, NEW n \in 1..MaxLen, ReadSome(n) PROVE IInv'
<1>1. /\ pc = "read" /\ pc' = "read" /\ got' = got + n /\ got + n <= Len(buf)
      /\ got + n <= Len(file) /\ outcome' = outcome /\ outcome = "none"
      /\ file' = file /\ max_bytes' = max_bytes
      /\ measured' = measured /\ ever' = ever /\ appended' = appended
      /\ got \in Nat /\ n \in Nat /\ Len(buf) \in Nat /\ Len(file) \in Nat
      /\ buf \in Seq(Byte) /\ file \in Seq(Byte)
  BY BoundAssumption DEF ReadSome, Wanted, Start, history, IInv, Typed
<1>2. \A j \in 1..Len(buf) :
        buf'[j] = IF j \in (got + 1)..(got + n) THEN file[j] ELSE buf[j]
  BY <1>1 DEF ReadSome, Start
<1>3. buf' \in Seq(Byte) /\ Len(buf') = Len(buf)
  <2>1. buf' = [j \in 1..Len(buf) |-> IF j \in (got + 1)..(got + n) THEN file[j] ELSE buf[j]]
    BY <1>1 DEF ReadSome, Start
  <2>2. \A j \in 1..Len(buf) :
          (IF j \in (got + 1)..(got + n) THEN file[j] ELSE buf[j]) \in Byte
    BY <1>1
  <2> QED BY <1>1, <2>1, <2>2
<1>4. Typed'
  BY <1>1, <1>3 DEF IInv, Typed
<1>5. Sizes'
  BY <1>1, <1>3 DEF IInv, Sizes, Typed, Measured, Filled
<1>6. \A j \in 1..(got + n) :
        /\ j \in 1..Len(buf) /\ j \in 1..Len(file)
        /\ j \in 1..got \/ j \in (got + 1)..(got + n)
        /\ j \in 1..got => ~(j \in (got + 1)..(got + n))
  BY <1>1
<1>7. Delivered'
  <2>1. /\ \A j \in 1..got : buf[j] \in ever[j]
        /\ \A j \in 1..Len(file) : file[j] \in ever[j]
    BY <1>1 DEF IInv, Delivered, Measured
  <2>2. \A j \in 1..(got + n) : buf'[j] \in ever[j]
    BY <1>2, <1>6, <2>1
  <2> QED BY <1>1, <2>1, <2>2 DEF Delivered
<1>8. Prefix'
  <2> SUFFICES ASSUME appended PROVE Prefix'
    BY <1>1 DEF Prefix
  <2>1. /\ Len(measured) <= Len(file)
        /\ \A j \in 1..Len(measured) : file[j] = measured[j]
        /\ \A j \in 1..got : buf[j] = measured[j]
        /\ Len(buf) = Len(measured)
    BY <1>1 DEF IInv, Prefix, Sizes, Measured
  <2>2. \A j \in 1..(got + n) : buf'[j] = measured[j]
    BY <1>2, <1>6, <2>1
  <2> QED BY <1>1, <2>1, <2>2 DEF Prefix
<1>9. Refused'
  BY <1>1 DEF Refused
<1> QED BY <1>4, <1>5, <1>7, <1>8, <1>9 DEF IInv

(* The end is met early only in a file that was cut: one that was at most  *)
(* appended to holds all the bytes that were measured.                     *)
LEMMA EndOfFileInv == ASSUME IInv, EndOfFile PROVE IInv'
<1>1. /\ pc = "read" /\ got < Len(buf) /\ got >= Len(file)
      /\ got \in Nat /\ Len(buf) \in Nat /\ Len(file) \in Nat
  BY DEF EndOfFile, Wanted, AtEnd, Start, IInv, Typed
<1>2. ~appended
  BY <1>1 DEF IInv, Prefix, Sizes, Measured
<1>3. Typed' /\ Sizes' /\ Delivered'
  BY <1>1 DEF EndOfFile, Return, IInv, Typed, Sizes, Delivered, Measured, Filled, history
<1>4. Prefix' /\ Refused'
  BY <1>2 DEF EndOfFile, Return, Prefix, Refused, history
<1> QED BY <1>3, <1>4 DEF IInv

LEMMA ReadFailsInv == ASSUME IInv, ReadFails PROVE IInv'
<1>1. pc = "read"
  BY DEF ReadFails
<1>2. Typed' /\ Sizes' /\ Delivered'
  BY <1>1 DEF ReadFails, Return, IInv, Typed, Sizes, Delivered, Measured, Filled, history
<1>3. Prefix' /\ Refused'
  BY <1>1 DEF ReadFails, Return, IInv, Prefix, Refused, Measured, history
<1> QED BY <1>2, <1>3 DEF IInv

LEMMA ReadAllInv == ASSUME IInv, ReadAll PROVE IInv'
<1>1. got = Len(buf)
  BY DEF ReadAll, Wanted, IInv, Typed
<1> QED BY <1>1
        DEF ReadAll, IInv, Typed, Sizes, Delivered, Prefix, Refused, Measured, Filled, history

LEMMA ParseInv == ASSUME IInv, Parse PROVE IInv'
<1>1. PICK verdict \in {"too_large_to_parse", "bad_bytes", "ok"} :
        /\ Return(verdict)
        /\ verdict \in {"bad_bytes", "ok"} => Len(buf) <= IntMax
        /\ verdict = "bad_bytes" => ~Parses(buf)
  BY BoundAssumption DEF Parse, IInv, Typed
<1>2. Typed' /\ Sizes' /\ Delivered' /\ Prefix'
  BY <1>1 DEF Parse, Return, IInv, Typed, Sizes, Delivered, Prefix, Measured, Filled, history
<1>3. Refused'
  BY <1>1 DEF Return, Refused
<1> QED BY <1>2, <1>3 DEF IInv

LEMMA NextInv == IInv /\ [Next]_vars => IInv'
<1> SUFFICES ASSUME IInv, [Next]_vars PROVE IInv'
  OBVIOUS
<1>1. CASE Unreadable
  BY <1>1, EarlyReturnInv DEF Unreadable
<1>2. CASE TooLarge
  BY <1>2, EarlyReturnInv DEF TooLarge
<1>3. CASE Measure
  BY <1>3, MeasureInv
<1>4. ASSUME NEW n \in 1..MaxLen, ReadSome(n) PROVE IInv'
  BY <1>4, ReadSomeInv
<1>5. CASE EndOfFile
  BY <1>5, EndOfFileInv
<1>6. CASE ReadAll
  BY <1>6, ReadAllInv
<1>7. CASE Parse
  BY <1>7, ParseInv
<1>8. CASE Writer
  BY <1>8, WriterInv
<1>9. CASE UNCHANGED vars
  BY <1>9 DEF vars, reader, history, IInv, Typed, Sizes, Delivered, Prefix, Refused, Measured,
              Filled
<1>10. CASE ReadFails
  BY <1>10, ReadFailsInv
<1> QED BY <1>1, <1>2, <1>3, <1>4, <1>5, <1>6, <1>7, <1>8, <1>9, <1>10 DEF Next, Reader, Returned

LEMMA Inductive == Spec => []IInv
<1> QED BY InitInv, NextInv, PTL DEF Spec

-----------------------------------------------------------------------------
(* The results about the read, for every limit, length and int.            *)

(* The call keeps its variables in their types and has an outcome exactly  *)
(* when it has returned.                                                   *)
THEOREM TypeCorrect == Spec => []TypeOK
<1>1. IInv => TypeOK
  BY TypedIsTypeOK DEF IInv
<1> QED BY <1>1, Inductive, PTL

(* Though the limit is tested once, and the file may grow afterwards, the  *)
(* vector stays within the limit, the stream within the vector, and what   *)
(* is parsed within an int.                                                *)
THEOREM LimitsHold == Spec => []WithinLimit
<1>1. IInv => WithinLimit
  BY DEF IInv, Sizes, WithinLimit
<1> QED BY <1>1, Inductive, PTL

(* However the file is overwritten, cut and extended during the call, each *)
(* byte that is parsed was in the file at its position at some moment.     *)
THEOREM NothingInvented == Spec => []NoInventedBytes
<1>1. IInv => NoInventedBytes
  BY DEF IInv, Typed, Sizes, Delivered, Measured, Filled, NoInventedBytes
<1> QED BY <1>1, Inductive, PTL

(* If the file is at most appended to from the measurement on, the read    *)
(* does not meet its end too early, and what is parsed is the content that *)
(* was measured.                                                           *)
LEMMA WholeContent == ASSUME IInv, Filled, appended PROVE buf = measured
<1>1. Measured
  BY DEF Filled, Measured
<1>2. /\ buf \in Seq(Byte) /\ measured \in Seq(Byte) /\ Len(buf) = Len(measured)
      /\ \A j \in 1..Len(buf) : buf[j] = measured[j]
  BY <1>1 DEF IInv, Typed, Sizes, Prefix
<1> QED BY <1>2

THEOREM AppendingIsHarmless == Spec => []AppendsAreHarmless
<1>1. IInv => AppendsAreHarmless
  <2> SUFFICES ASSUME IInv, appended
               PROVE  outcome # "short_read" /\ (Filled => buf = measured)
    BY DEF AppendsAreHarmless, Filled
  <2>1. outcome # "short_read"
    BY DEF IInv, Prefix, Measured
  <2> QED BY <2>1, WholeContent
<1> QED BY <1>1, Inductive, PTL

-----------------------------------------------------------------------------
(* Part 2: the pipeline.                                                   *)

Orderable(g) == Prepare!WellFormed(g) /\ ~Prepare!HasCycle(g)

(* Each stage has its input from the one before, and works on it only if   *)
(* that has succeeded.                                                     *)
Stages ==
  /\ outcome # "ok" => model = NoModel
  /\ model # NoModel => model = ModelOf(buf)
  /\ status # "none" => model # NoModel
  /\ status # "ok" => loaded = Loader!Nothing /\ graph = EmptyGraph /\ result = "none"
  /\ status = "ok" => Loader!Loadable(model) /\ loaded = Loader!Loaded(model)
  /\ result # "none" => graph = GraphOf(model)
  /\ status \notin {"none", "ok", "oom"} => status \in Loader!FirstDefects(model)
  /\ result # "ok" => topo_order = <<>>
  /\ result = "error" => ~Orderable(graph)
  /\ result = "ok" => IsTopoOrder(graph, topo_order)

PipeInv == IInv /\ Stages

LEMMA PipeInitInv == PipeInit => PipeInv
<1> SUFFICES ASSUME PipeInit PROVE PipeInv
  OBVIOUS
<1>1. IInv
  BY InitInv DEF PipeInit
<1>2. Stages
  BY DEF PipeInit, Stages
<1> QED BY <1>1, <1>2 DEF PipeInv

(* While the file is read there is no model yet, and once there is one the *)
(* vector it was parsed from does not change.                              *)
LEMMA ReadStages == ASSUME PipeInv, Read PROVE Stages'
<1>1. outcome = "none"
  BY DEF PipeInv, IInv, Typed, Read, Reader, Unreadable, TooLarge, Measure, ReadSome,
         EndOfFile, ReadAll, Parse
<1>2. model = NoModel /\ status = "none" /\ result = "none"
  BY <1>1 DEF PipeInv, Stages
<1> QED BY <1>2 DEF Read, PipeInv, Stages, loadVars, prepareVars

LEMMA OthersStages == ASSUME PipeInv, Others PROVE Stages'
<1>1. UNCHANGED <<loadVars, prepareVars>>
  BY DEF Others
<1>2. CASE Writer
  <2>1. UNCHANGED <<outcome, buf>>
    BY <1>2 DEF Writer, AppendByte, Overwrite, Truncate, Write, reader
  <2> QED BY <1>1, <2>1 DEF PipeInv, Stages, loadVars, prepareVars
<1>3. CASE ReadFails
  <2>1. outcome = "none" /\ buf' = buf
    BY <1>3 DEF ReadFails, Return, PipeInv, IInv, Typed
  <2>2. model = NoModel /\ status = "none" /\ result = "none"
    BY <2>1 DEF PipeInv, Stages
  <2> QED BY <1>1, <2>2 DEF PipeInv, Stages, loadVars, prepareVars
<1> QED BY <1>2, <1>3 DEF Others

LEMMA PassModelStages == ASSUME PipeInv, PassModel PROVE Stages'
<1>1. UNCHANGED <<outcome, buf, loaded, status, prepareVars>>
  BY DEF PassModel, fileVars, vars, reader
<1>2. status = "none" /\ result = "none"
  BY DEF PipeInv, Stages, PassModel
<1> QED BY <1>1, <1>2 DEF PassModel, HaveModel, PipeInv, Stages, prepareVars

(* No defect is called "ok".                                               *)
LEMMA DefectsAreErrors == ASSUME NEW m PROVE "ok" \notin Loader!FirstDefects(m)
<1>1. \A ap : Loader!AttributeDefect(ap) # "ok"
  BY DEF Loader!AttributeDefect
<1>2. "ok" \notin Loader!NodeDefects(m)
  BY <1>1 DEF Loader!NodeDefects
<1>3. /\ "ok" \notin Loader!OpsetDefects(m) /\ "ok" \notin Loader!InitializerDefects(m)
      /\ \A list : "ok" \notin Loader!ValueDefects(list)
  BY DEF Loader!OpsetDefects, Loader!InitializerDefects, Loader!ValueDefects
<1>4. DOMAIN Loader!Parts(m) = 1..7
  BY DEF Loader!Parts
<1>5. \A p \in 1..7 : "ok" \notin Loader!Parts(m)[p]
  BY <1>2, <1>3 DEF Loader!Parts
<1> QED BY <1>4, <1>5 DEF Loader!FirstDefects

LEMMA MapStages == ASSUME PipeInv, Map PROVE Stages'
<1>1. UNCHANGED <<outcome, buf, model, prepareVars>>
  BY DEF Map, fileVars, vars, reader, Loader!Accept, Loader!Reject, Loader!OutOfMemory
<1>2. status = "none" /\ result = "none" /\ model # NoModel
  BY DEF Map, PipeInv, Stages, Loader!Accept, Loader!Reject, Loader!OutOfMemory
<1>3. \/ status' = "ok" /\ Loader!Loadable(model) /\ loaded' = Loader!Loaded(model)
      \/ /\ status' # "ok" /\ loaded' = loaded
         /\ status' = "oom" \/ status' \in Loader!FirstDefects(model)
  <2>1. CASE Loader!Accept
    BY <2>1 DEF Loader!Accept
  <2>2. CASE Loader!Reject
    BY <2>2, DefectsAreErrors DEF Loader!Reject
  <2>3. CASE Loader!OutOfMemory
    BY <2>3 DEF Loader!OutOfMemory
  <2> QED BY <2>1, <2>2, <2>3 DEF Map
<1> QED BY <1>1, <1>2, <1>3 DEF PipeInv, Stages, prepareVars

(* The graph that is prepared is the one the model stands for.             *)
LEMMA SameGraph == ASSUME NEW m PROVE Loader!Loaded(m).graph = GraphOf(m)
  BY DEF Loader!Loaded, Loader!GraphOf, GraphOf, Loader!NodeOf, NodeOf, Loader!Names, Names,
         Loader!Listed, Listed

LEMMA CallPrepareStages == ASSUME PipeInv, CallPrepare PROVE Stages'
<1>1. UNCHANGED <<outcome, buf, loadVars>>
  BY DEF CallPrepare, fileVars, vars, reader
<1>2. graph' = GraphOf(model)
  BY SameGraph DEF CallPrepare, PipeInv, Stages
<1> QED BY <1>1, <1>2 DEF CallPrepare, PipeInv, Stages, loadVars

LEMMA PrepareStages == ASSUME PipeInv, PrepareOrder \/ PrepareFails PROVE Stages'
<1>1. UNCHANGED <<outcome, buf, loadVars, graph>> /\ result = "running"
  BY DEF PrepareOrder, PrepareFails, Prepare!Succeed, Prepare!Fail, fileVars, vars, reader
<1>2. CASE PrepareOrder
  <2>1. result' = "ok" /\ Prepare!IsTopoOrder(graph, topo_order')
    BY <1>2 DEF PrepareOrder, Prepare!Succeed
  <2>2. IsTopoOrder(graph, topo_order')
    BY <2>1 DEF Prepare!IsTopoOrder, IsTopoOrder, Prepare!NodeIds, NodeIds, Prepare!Edge, Edge,
           Prepare!Refs, Refs, Prepare!Inputs, Inputs, Prepare!Outputs, Outputs,
           Prepare!Produces, Produces
  <2> QED BY <1>1, <2>1, <2>2 DEF PipeInv, Stages, loadVars
<1>3. CASE PrepareFails
  <2>1. /\ result' = "error" /\ UNCHANGED <<graph, topo_order>>
        /\ ~Orderable(graph)
    BY <1>3 DEF PrepareFails, Prepare!Fail, Prepare!Sortable, Orderable
  <2> QED BY <1>1, <2>1 DEF PipeInv, Stages, loadVars
<1> QED BY <1>2, <1>3

LEMMA PipeNextInv == PipeInv /\ [PipeNext]_pipeVars => PipeInv'
<1> SUFFICES ASSUME PipeInv, [PipeNext]_pipeVars PROVE PipeInv'
  OBVIOUS
<1>1. IInv'
  <2>1. [Next]_vars
    BY DEF PipeNext, Call, Read, Others, PassModel, Map, CallPrepare, PrepareOrder, PrepareFails,
           pipeVars, fileVars, Next
  <2> QED BY <2>1, NextInv DEF PipeInv
<1>2. Stages'
  <2>1. CASE UNCHANGED pipeVars
    BY <2>1 DEF pipeVars, fileVars, vars, reader, loadVars, prepareVars, PipeInv, Stages
  <2> QED BY <2>1, ReadStages, OthersStages, PassModelStages, MapStages, CallPrepareStages,
             PrepareStages DEF PipeNext, Call
<1> QED BY <1>1, <1>2 DEF PipeInv

LEMMA PipeInductive == PipeSpec => []PipeInv
<1> QED BY PipeInitInv, PipeNextInv, PTL DEF PipeSpec

-----------------------------------------------------------------------------
(* The results about the pipeline, for every file, protobuf and model.     *)

(* The first stage that fails is the last: the later ones have nothing to  *)
(* work on, and no graph or order is seen of a load that failed.           *)
THEOREM NothingAfterAFailure == PipeSpec => []FirstFailureEnds
<1>1. PipeInv => FirstFailureEnds
  BY DEF PipeInv, Stages, FirstFailureEnds
<1> QED BY <1>1, PipeInductive, PTL

(* An order that comes out is a topological order of the model the file    *)
(* held when its size was measured, unless it was overwritten or cut while *)
(* it was read.                                                            *)
THEOREM OrderIsOfTheFile == PipeSpec => []OrderFitsTheFile
<1>1. PipeInv => OrderFitsTheFile
  <2> SUFFICES ASSUME PipeInv, result = "ok", appended
               PROVE  IsTopoOrder(GraphOf(ModelOf(measured)), topo_order)
    BY DEF OrderFitsTheFile
  <2>1. status = "ok" /\ outcome = "ok" /\ model = ModelOf(buf)
    BY DEF PipeInv, Stages
  <2>2. buf = measured
    BY <2>1, WholeContent DEF PipeInv, Filled
  <2> QED BY <2>1, <2>2 DEF PipeInv, Stages
<1> QED BY <1>1, PipeInductive, PTL

(* An error of any stage is about what the file held when its size was     *)
(* measured, with the same exception.                                      *)
THEOREM ErrorsAreOfTheFile == PipeSpec => []ErrorsFitTheFile
<1>1. PipeInv => ErrorsFitTheFile
  <2> SUFFICES ASSUME PipeInv, appended PROVE ErrorsFitTheFile
    BY DEF ErrorsFitTheFile
  <2>1. ASSUME outcome = "bad_bytes" PROVE ~Parses(measured)
    <3>1. ~Parses(buf)
      BY <2>1 DEF PipeInv, IInv, Refused
    <3>2. buf = measured
      BY <2>1, WholeContent DEF PipeInv, Filled
    <3> QED BY <3>1, <3>2
  <2>2. ASSUME model # NoModel PROVE model = ModelOf(measured)
    <3>1. outcome = "ok" /\ model = ModelOf(buf)
      BY <2>2 DEF PipeInv, Stages
    <3>2. buf = measured
      BY <3>1, WholeContent DEF PipeInv, Filled
    <3> QED BY <3>1, <3>2
  <2>3. ASSUME status \notin {"none", "ok", "oom"}
        PROVE  status \in Loader!FirstDefects(ModelOf(measured))
    <3>1. model # NoModel /\ status \in Loader!FirstDefects(model)
      BY <2>3 DEF PipeInv, Stages
    <3> QED BY <2>2, <3>1
  <2>4. ASSUME result = "error"
        PROVE  LET g == GraphOf(ModelOf(measured))
               IN  ~Prepare!WellFormed(g) \/ Prepare!HasCycle(g)
    <3>1. model # NoModel /\ graph = GraphOf(model) /\ ~Orderable(graph)
      BY <2>4 DEF PipeInv, Stages
    <3>2. graph = GraphOf(ModelOf(measured))
      BY <2>2, <3>1
    <3> QED BY <3>1, <3>2 DEF Orderable
  <2> QED BY <2>1, <2>3, <2>4 DEF ErrorsFitTheFile
<1> QED BY <1>1, PipeInductive, PTL
=============================================================================
