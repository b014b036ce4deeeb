------------------------------ MODULE ModelFile ------------------------------
(***************************************************************************)
(* LoadModelProtoFromFile: ReadFileLimited (src/file_utils.cpp) followed   *)
(* by LoadModelProtoFromBytes (src/model_proto.cpp), while other processes *)
(* write to the file.  The size is measured first and the bytes are read   *)
(* afterwards, in as many read calls as the stream makes; the writers may  *)
(* append, overwrite and truncate between any two of them.  A file that is *)
(* replaced by renaming is not written to: the stream keeps the old one.   *)
(***************************************************************************)
EXTENDS Integers, Sequences

CONSTANTS
  Byte,        \* the values of a byte
  Zero,        \* the value a std::vector<char> is filled with
  MaxLen,      \* bound: the writers keep the file at most this long
  Limits,      \* the values of the argument max_bytes
  IntMax,      \* the greatest int, the most ParseFromArray takes
  Parses(_)    \* whether protobuf accepts these bytes (external)

ASSUME ByteAssumption == Zero \in Byte
ASSUME BoundAssumption == MaxLen \in Nat /\ IntMax \in Nat /\ Limits \subseteq Nat
ASSUME ParsesAssumption == \A n \in 0..MaxLen : \A c \in [1..n -> Byte] : Parses(c) \in BOOLEAN

VARIABLES
  file,       \* the content of the file
  max_bytes,  \* the argument
  pc,         \* how far the call is
  buf,        \* the vector, of the measured size once that is known
  got,        \* the bytes the stream has delivered into it
  outcome,    \* "none" until the call returns
  measured,   \* history: the content when the size was measured
  ever,       \* history: the bytes each position has held since
  appended    \* history: since then the file was at most appended to

reader == <<max_bytes, pc, buf, got, outcome>>
history == <<measured, ever, appended>>
vars == <<file, reader, history>>

Contents == UNION {[1..n -> Byte] : n \in 0..MaxLen}

(* The bytes that position j of content c holds, at most one.              *)
At(c, j) == IF j \in DOMAIN c THEN {c[j]} ELSE {}

Init ==
  /\ file \in Contents
  /\ max_bytes \in Limits
  /\ pc = "open"
  /\ buf = <<>> /\ got = 0
  /\ outcome = "none"
  /\ measured = <<>> /\ ever = [j \in 1..MaxLen |-> {}] /\ appended = TRUE

-----------------------------------------------------------------------------
(* The writers, as long as the call runs.                                  *)
Write(content, appends) ==
  /\ pc # "done"
  /\ file' = content
  /\ ever' = [j \in 1..MaxLen |-> ever[j] \cup At(content, j)]
  /\ appended' = (appended /\ appends)
  /\ UNCHANGED <<reader, measured>>

AppendByte(b) == Len(file) < MaxLen /\ Write(Append(file, b), TRUE)

Overwrite(j, b) == j \in DOMAIN file /\ Write([file EXCEPT ![j] = b], FALSE)

Truncate(n) == n < Len(file) /\ Write(SubSeq(file, 1, n), FALSE)

Writer ==
  \/ \E b \in Byte : AppendByte(b) \/ \E j \in 1..MaxLen : Overwrite(j, b)
  \/ \E n \in 0..(MaxLen - 1) : Truncate(n)

-----------------------------------------------------------------------------
Return(verdict) ==
  /\ pc' = "done" /\ outcome' = verdict
  /\ UNCHANGED <<file, max_bytes, buf, got, history>>

(* The path is empty or the file cannot be opened or measured.             *)
Unreadable == pc = "open" /\ Return("unreadable")

TooLarge == pc = "open" /\ Len(file) > max_bytes /\ Return("too_large")

(* tellg at the end, and the vector for that many bytes.                   *)
Measure ==
  /\ pc = "open"
  /\ Len(file) <= max_bytes
  /\ pc' = "read"
  /\ buf' = [j \in 1..Len(file) |-> Zero]
  /\ measured' = file
  /\ ever' = [j \in 1..MaxLen |-> At(file, j)]
  /\ appended' = TRUE
  /\ UNCHANGED <<file, max_bytes, got, outcome>>

(* Mutant of Wanted: the bytes up to the end of the file are read.         *)
WantedToEnd == Len(file) - got

(* The bytes the read call still asks the stream for.                      *)
Wanted == Len(buf) - got

(* Mutant of Start: the stream is left at the end.                         *)
StartAtEnd == Len(measured)

(* Where the stream is when the reading begins, after seekg(0, beg).       *)
Start == 0

AtEnd == Start + got >= Len(file)

(* One read of n bytes that are there.                                     *)
ReadSome(n) ==
  /\ pc = "read"
  /\ n <= Wanted /\ Start + got + n <= Len(file)
  /\ buf' = [j \in DOMAIN buf |-> IF j \in (got + 1)..(got + n) THEN file[Start + j] ELSE buf[j]]
  /\ got' = got + n
  /\ UNCHANGED <<file, max_bytes, pc, outcome, history>>

(* Mutants of EndOfFile: no status is set; the stream's state is not       *)
(* looked at; the call waits for the bytes to come back.                   *)
EndOfFileSilent == pc = "read" /\ Wanted > 0 /\ AtEnd /\ Return("none")

EndOfFileIgnored ==
  /\ pc = "read" /\ Wanted > 0 /\ AtEnd
  /\ pc' = "parse"
  /\ UNCHANGED <<file, max_bytes, buf, got, outcome, history>>

EndOfFileRetry ==
  /\ pc = "read" /\ Wanted > 0 /\ AtEnd
  /\ UNCHANGED vars

(* The file has become shorter than it was: the stream fails, as it does   *)
(* in ReadFails, and the code reports both in the same words.              *)
EndOfFile == pc = "read" /\ Wanted > 0 /\ AtEnd /\ Return("short_read")

(* The device fails while bytes are still wanted, at the seek or in the    *)
(* read: an event of the environment, and no step that must come.          *)
ReadFails == pc = "read" /\ Wanted > 0 /\ Return("read_error")

ReadAll ==
  /\ pc = "read" /\ Wanted = 0
  /\ pc' = "parse"
  /\ UNCHANGED <<file, max_bytes, buf, got, outcome, history>>

(* LoadModelProtoFromBytes: the vector has data, so it is not null.        *)
Parse ==
  /\ pc = "parse"
  /\ Return(CASE Len(buf) > IntMax -> "too_large_to_parse"
              [] Len(buf) <= IntMax /\ ~Parses(buf) -> "bad_bytes"
              [] OTHER -> "ok")

Reader ==
  \/ Unreadable \/ TooLarge \/ Measure
  \/ \E n \in 1..MaxLen : ReadSome(n)
  \/ EndOfFile \/ ReadAll \/ Parse

(* The call has returned.                                                  *)
Returned == pc = "done" /\ UNCHANGED vars

Next == Reader \/ ReadFails \/ Writer \/ Returned

(* The reader runs on; the writers may do anything or nothing, and the     *)
(* device need not fail.                                                   *)
Spec == Init /\ [][Next]_vars /\ WF_vars(Reader)

-----------------------------------------------------------------------------
(* The outcome is set exactly when the call returns, to one of its errors. *)
TypeOK ==
  /\ file \in Contents /\ measured \in Contents
  /\ max_bytes \in Limits
  /\ pc \in {"open", "read", "parse", "done"}
  /\ buf \in Contents /\ got \in Nat
  /\ outcome \in {"none", "unreadable", "too_large", "short_read", "read_error",
                  "too_large_to_parse", "bad_bytes", "ok"}
  /\ (outcome = "none") = (pc # "done")
  /\ ever \in [1..MaxLen -> SUBSET Byte] /\ appended \in BOOLEAN

(* The limit is tested once, on the measured size; whatever the file grows *)
(* to afterwards, the vector stays within it, the stream within the vector *)
(* and what is parsed within an int.                                       *)
WithinLimit ==
  /\ got <= Len(buf) /\ Len(buf) <= max_bytes
  /\ outcome \in {"ok", "bad_bytes"} => Len(buf) <= IntMax

(* Whatever the writers do, no byte that is parsed was made up: each was   *)
(* in the file, at its position, at some moment of the call.               *)
NoInventedBytes ==
  pc = "parse" \/ outcome \in {"ok", "bad_bytes", "too_large_to_parse"} =>
    /\ Len(buf) = Len(measured)
    /\ \A j \in DOMAIN buf : buf[j] \in ever[j]

(* A producer that only appends cannot disturb the call: what is parsed is *)
(* the content at the moment the size was measured, and the read does not  *)
(* meet the end of the file before it has all of it.                       *)
AppendsAreHarmless ==
  appended =>
    /\ outcome # "short_read"
    /\ pc = "parse" \/ outcome \in {"ok", "bad_bytes", "too_large_to_parse"} => buf = measured
=============================================================================
