------------------------------ MODULE StatusOr ------------------------------
(***************************************************************************)
(* Status and StatusOr<T> (include/eduort/status.h, src/status.cpp) and    *)
(* the macros that propagate them (include/eduort/macros.h): objects are   *)
(* made from values and from statuses, copied, moved, assigned, read and   *)
(* propagated, in any order.                                               *)
(*                                                                         *)
(* StatusOr declares no assignment: the compiler's assigns status_ before  *)
(* value_, and in status_ the code before the message.  Copying a message  *)
(* or a value may throw, which leaves what was assigned before.  A message *)
(* is not modelled; copying a T is all or nothing.                         *)
(***************************************************************************)
EXTENDS FiniteSets

CONSTANTS
  Object,      \* the variables of type StatusOr<T>
  Value,       \* the values of T
  ErrorCode,   \* ErrorCode without kOk and kRuntime
  Absent       \* no object

Codes == ErrorCode \cup {"kOk", "kRuntime"}

(* value_ is disengaged, holds a value, or the rest of one moved away.     *)
Held == Value \cup {"none", "moved"}
StatusOrs == [code : Codes, value : Held]

ASSUME ObjectAssumption == IsFiniteSet(Object) /\ Absent \notin StatusOrs \cup Held
ASSUME ValueAssumption == Value \cap {"none", "moved"} = {}
ASSUME CodeAssumption == ErrorCode \cap {"kOk", "kRuntime"} = {} /\ Codes \cap Held = {}

VARIABLES
  obj,       \* the objects
  aborted,   \* std::abort was called
  given,     \* history: what the program last put, or tried to put, into an object
  torn,      \* history: those left, or copied from one left, by an assignment that threw
  out        \* history: what came out last, by a read or by a macro's early return

vars == <<obj, aborted, given, torn, out>>

(* A value, the rest of one, or the code that a failure was born with; an  *)
(* error that was made with the code kOk is remembered by that.            *)
Given == Held \cup Codes

(* The value or the code got comes out of o, to a client or as the result  *)
(* of a function; what was given to o is remembered with it.               *)
ComesOut(o, got, to) ==
  out' = [got |-> got, to |-> to, given |-> given[o], torn |-> o \in torn]

Init ==
  /\ obj = [o \in Object |-> Absent] /\ aborted = FALSE
  /\ given = [o \in Object |-> "none"] /\ torn = {}
  /\ out = Absent

Present(o) == ~aborted /\ obj[o] # Absent
Free(o) == ~aborted /\ obj[o] = Absent

-----------------------------------------------------------------------------
(* Mutants of Ok: only the status is asked for; only the optional.         *)
OkByStatus(s) == s.code = "kOk"
OkByValue(s) == s.value # "none"

Ok(s) == s.code = "kOk" /\ s.value # "none"

(* Status::Error: an error that says OK is one of the runtime.             *)
Error(code) == IF code = "kOk" THEN "kRuntime" ELSE code

(* Mutant of FromStatus: the status is taken as it is.                     *)
FromStatusUnchecked(code) == [code |-> code, value |-> "none"]

(* StatusOr(Status): OK without a value becomes a runtime error.           *)
FromStatus(code) == [code |-> Error(code), value |-> "none"]

FromValue(v) == [code |-> "kOk", value |-> v]

(* Mutants of MovedFrom: the value leaves the optional disengaged; the     *)
(* move ends the life of its source.                                       *)
MovedFromEmpty(s) == [s EXCEPT !.value = "none"]
MovedFromGone(s) == Absent

(* What a move leaves behind: the code, and an optional still engaged.     *)
MovedFrom(s) == IF s.value = "none" THEN s ELSE [s EXCEPT !.value = "moved"]

(* What is left of a thing given once its value has been moved out.        *)
GivenAway(g) == IF g \in Value THEN "moved" ELSE g

(* o becomes s, for g was given to it; it is torn if t says so.            *)
Becomes(o, s, g, t) ==
  /\ obj' = [obj EXCEPT ![o] = s]
  /\ given' = [given EXCEPT ![o] = g]
  /\ torn' = IF t THEN torn \cup {o} ELSE torn \ {o}
  /\ UNCHANGED <<aborted, out>>

-----------------------------------------------------------------------------
Construct(o) ==
  /\ Free(o)
  /\ \/ \E v \in Value : Becomes(o, FromValue(v), v, FALSE)
     \/ \E c \in Codes : Becomes(o, FromStatus(Error(c)), c, FALSE)
     \/ Becomes(o, FromStatus("kOk"), "kOk", FALSE)

Destroy(o) == Present(o) /\ Becomes(o, Absent, "none", FALSE)

(* Mutant of Copy: over an object that is there, the value alone.          *)
CopyValueOnly(o, p) ==
  /\ p # o /\ Present(o)
  /\ Becomes(p, IF Present(p) THEN [obj[p] EXCEPT !.value = obj[o].value] ELSE obj[o],
             given[o], o \in torn)

(* Copy construction and copy assignment that do not throw.                *)
Copy(o, p) == p # o /\ Present(o) /\ Becomes(p, obj[o], given[o], o \in torn)

(* Move construction and move assignment.                                  *)
Move(o, p) ==
  /\ p # o /\ Present(o)
  /\ obj' = [obj EXCEPT ![p] = obj[o], ![o] = MovedFrom(obj[o])]
  /\ given' = [given EXCEPT ![p] = given[o], ![o] = GivenAway(given[o])]
  /\ torn' = IF o \in torn THEN torn \cup {p} ELSE torn \ {p}
  /\ UNCHANGED <<aborted, out>>

(* Copy assignment that throws: at the message of an error or at the       *)
(* value, when p has the code of o already and still its own value.        *)
AssignThrows(o, p) ==
  /\ p # o /\ Present(o) /\ Present(p)
  /\ obj[o].code # "kOk" \/ obj[o].value # "none"
  /\ Becomes(p, [obj[p] EXCEPT !.code = obj[o].code], given[o], TRUE)

-----------------------------------------------------------------------------
(* value() const&, value() &, operator* and operator->: CheckOk first.     *)
Read(o) ==
  /\ Present(o)
  /\ IF Ok(obj[o]) THEN ComesOut(o, obj[o].value, "client") /\ UNCHANGED aborted
     ELSE aborted' = TRUE /\ UNCHANGED out
  /\ UNCHANGED <<obj, given, torn>>

(* value() && and ValueOrDie: the value is moved out of the object.        *)
Take(o) ==
  /\ Present(o) /\ Ok(obj[o])
  /\ ComesOut(o, obj[o].value, "client")
  /\ obj' = [obj EXCEPT ![o] = MovedFrom(@)]
  /\ given' = [given EXCEPT ![o] = GivenAway(@)]
  /\ UNCHANGED <<aborted, torn>>

(* EDUORT_ASSIGN_OR_RETURN on a failed object, whose status becomes the    *)
(* Status or the StatusOr that the function returns.                       *)
ReturnStatus(o) ==
  /\ Present(o) /\ ~Ok(obj[o])
  /\ ComesOut(o, obj[o].code, "Status")
  /\ UNCHANGED <<obj, aborted, given, torn>>

ReturnStatusOr(o, p) ==
  /\ Present(o) /\ Free(p) /\ ~Ok(obj[o])
  /\ obj' = [obj EXCEPT ![p] = FromStatus(obj[o].code)]
  /\ given' = [given EXCEPT ![p] = IF given[o] \in Codes THEN given[o] ELSE "kOk"]
  /\ torn' = torn \ {p}
  /\ ComesOut(o, obj'[p].code, "StatusOr")
  /\ UNCHANGED aborted

(* EDUORT_RETURN_IF_ERROR(x.status()): only the code is looked at.         *)
ReturnIfError(o) ==
  /\ Present(o) /\ obj[o].code # "kOk"
  /\ ComesOut(o, obj[o].code, "Status")
  /\ UNCHANGED <<obj, aborted, given, torn>>

(* The process is gone.                                                    *)
Aborted == aborted /\ UNCHANGED vars

Next ==
  \/ \E o \in Object :
       Construct(o) \/ Destroy(o) \/ Read(o) \/ Take(o) \/ ReturnStatus(o) \/ ReturnIfError(o)
  \/ \E o, p \in Object :
       Copy(o, p) \/ Move(o, p) \/ AssignThrows(o, p) \/ ReturnStatusOr(o, p)
  \/ Aborted

Spec == Init /\ [][Next]_vars

-----------------------------------------------------------------------------
(* Only objects that are there are torn.                                   *)
TypeOK ==
  /\ obj \in [Object -> StatusOrs \cup {Absent}]
  /\ aborted \in BOOLEAN
  /\ given \in [Object -> Given]
  /\ torn \in SUBSET {o \in Object : obj[o] # Absent}
  /\ \/ out = Absent
     \/ out \in [got : Held, to : {"client"}, given : Given, torn : BOOLEAN]
     \/ out \in [got : Codes, to : {"Status", "StatusOr"}, given : Given, torn : BOOLEAN]

(* Whatever was copied, moved and assigned before, a read comes from an    *)
(* object that was last given a value and never from one that was last     *)
(* given a failure, and shows that value (moved away, if it was).  When an *)
(* assignment threw the value may be an older one, but is there.           *)
ReadsWhatWasGiven ==
  out # Absent /\ out.to = "client" =>
    /\ out.given \in Value \cup {"moved"}
    /\ out.got = out.given \/ (out.torn /\ out.got # "none")

(* Unless an assignment threw, an object has a value exactly when its      *)
(* status says so: no sequence of constructions, copies and moves makes it *)
(* lie, and a moved-from object still counts as one with a value.          *)
StatusAgrees ==
  \A o \in Object : obj[o] # Absent /\ o \notin torn
    => (obj[o].code = "kOk") = (obj[o].value # "none")

(* However a failure travels, through copies, moves, assignments (even     *)
(* those that throw) and functions of either result type, an early return  *)
(* reports the code it was born with, and a runtime error if that was OK.  *)
(* Where no failure was put in, an assignment of a value has thrown: a     *)
(* function that returns a StatusOr then reports a runtime error too, one  *)
(* that returns a Status reports OK, the one way to lose a failure.        *)
FailureArrives ==
  out # Absent /\ out.to # "client" =>
    IF out.given \in Codes THEN out.got = (IF out.given = "kOk" THEN "kRuntime" ELSE out.given)
    ELSE out.torn /\ out.got = (IF out.to = "StatusOr" THEN "kRuntime" ELSE "kOk")
=============================================================================
