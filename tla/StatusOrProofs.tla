--------------------------- MODULE StatusOrProofs ---------------------------
(***************************************************************************)
(* Proofs about StatusOr, for any objects, values and error codes.         *)
(***************************************************************************)
EXTENDS StatusOr, TLAPS

(* The code an object has to have when g was given to it, and its value    *)
(* when no assignment threw.                                               *)
CodeDue(g) == IF g \in Codes THEN (IF g = "kOk" THEN "kRuntime" ELSE g) ELSE "kOk"
ValueDue(g) == IF g \in Codes THEN "none" ELSE g

Due(s, g, t) ==
  /\ s \in StatusOrs /\ g \in Given /\ g # "none"
  /\ s.code = CodeDue(g)
  /\ ~t => s.value = ValueDue(g)

(* Every object has what was given to it.                                  *)
GivenKept == \A o \in Object : obj[o] # Absent => Due(obj[o], given[o], o \in torn)

IInv == TypeOK /\ GivenKept /\ ReadsWhatWasGiven /\ FailureArrives

-----------------------------------------------------------------------------
(* What the operations make of a StatusOr.                                 *)
LEMMA FromFacts ==
  /\ \A v \in Value : Due(FromValue(v), v, FALSE)
  /\ \A c \in Codes : Due(FromStatus(c), c, FALSE) /\ Due(FromStatus(Error(c)), c, FALSE)
<1>1. ASSUME NEW v \in Value PROVE Due(FromValue(v), v, FALSE)
  BY ValueAssumption, CodeAssumption
  DEF FromValue, Due, CodeDue, ValueDue, StatusOrs, Codes, Held, Given
<1>2. ASSUME NEW c \in Codes
      PROVE  Due(FromStatus(c), c, FALSE) /\ Due(FromStatus(Error(c)), c, FALSE)
  BY CodeAssumption
  DEF FromStatus, Error, Due, CodeDue, ValueDue, StatusOrs, Codes, Held, Given
<1> QED BY <1>1, <1>2

(* A move keeps the code, and with it what is due.                         *)
LEMMA MovedFacts ==
  ASSUME NEW s, NEW g, NEW t, Due(s, g, t)
  PROVE  Due(MovedFrom(s), GivenAway(g), t)
<1>1. s \in StatusOrs /\ g \in Given /\ g # "none" /\ s.code = CodeDue(g)
      /\ (~t => s.value = ValueDue(g))
  BY DEF Due
<1>2. MovedFrom(s) \in StatusOrs /\ MovedFrom(s).code = s.code
      /\ MovedFrom(s).value = IF s.value = "none" THEN "none" ELSE "moved"
  BY <1>1 DEF MovedFrom, StatusOrs, Held
<1>3. GivenAway(g) \in Given /\ GivenAway(g) # "none" /\ CodeDue(GivenAway(g)) = CodeDue(g)
  BY <1>1, CodeAssumption DEF GivenAway, Given, CodeDue, Held
<1>4. ASSUME ~t PROVE MovedFrom(s).value = ValueDue(GivenAway(g))
  <2>1. CASE g \in Codes
    BY <1>1, <1>2, <1>4, <2>1, CodeAssumption DEF GivenAway, ValueDue, Held
  <2>2. CASE g \notin Codes
    <3>1. g \in Held /\ s.value = g
      BY <1>1, <1>4, <2>2 DEF ValueDue, Given
    <3>2. GivenAway(g) = "moved"
      BY <1>1, <3>1 DEF GivenAway, Held
    <3> QED BY <1>1, <1>2, <3>1, <3>2, CodeAssumption DEF ValueDue, Held
  <2> QED BY <2>1, <2>2
<1> QED BY <1>1, <1>2, <1>3, <1>4 DEF Due

LEMMA NotAbsent == ASSUME NEW s \in StatusOrs PROVE s # Absent
  BY ObjectAssumption

(* Nothing has come out since: what came out before is still right.        *)
LEMMA NothingOut ==
  ASSUME IInv, out' = out
  PROVE  ReadsWhatWasGiven' /\ FailureArrives'
  BY DEF IInv, ReadsWhatWasGiven, FailureArrives

(* An object made or assigned keeps the invariant when it has what is due. *)
LEMMA BecomesInv ==
  ASSUME IInv, NEW o \in Object, NEW s, NEW g \in Given, NEW t \in BOOLEAN,
         Becomes(o, s, g, t),
         Due(s, g, t) \/ (s = Absent /\ ~t)
  PROVE  IInv'
<1>1. /\ s \in StatusOrs \cup {Absent} /\ (t => s # Absent)
      /\ s # Absent => Due(s, g, t)
  BY NotAbsent DEF Due
<1>2. \A p \in Object : /\ obj'[p] = IF p = o THEN s ELSE obj[p]
                        /\ given'[p] = IF p = o THEN g ELSE given[p]
                        /\ p \in torn' <=> IF p = o THEN t ELSE p \in torn
  BY DEF Becomes, IInv, TypeOK
<1>3. TypeOK'
  <2>1. obj' \in [Object -> StatusOrs \cup {Absent}] /\ given' \in [Object -> Given]
    BY <1>1 DEF Becomes, IInv, TypeOK
  <2>2. torn' \in SUBSET {p \in Object : obj'[p] # Absent}
    BY <1>1, <1>2 DEF Becomes, IInv, TypeOK
  <2> QED BY <2>1, <2>2 DEF Becomes, IInv, TypeOK
<1>4. GivenKept'
  <2> SUFFICES ASSUME NEW p \in Object, obj'[p] # Absent
               PROVE  Due(obj'[p], given'[p], p \in torn')
    BY DEF GivenKept
  <2>1. CASE p = o
    BY <1>1, <1>2, <2>1 DEF Due
  <2>2. CASE p # o
    BY <1>2, <2>2 DEF IInv, GivenKept, Due
  <2> QED BY <2>1, <2>2
<1>5. ReadsWhatWasGiven' /\ FailureArrives'
  BY NothingOut DEF Becomes
<1> QED BY <1>3, <1>4, <1>5 DEF IInv

(* An object that is there has what is due to it.                          *)
LEMMA PresentIsDue ==
  ASSUME IInv, NEW o \in Object, Present(o)
  PROVE  Due(obj[o], given[o], o \in torn) /\ obj[o] \in StatusOrs /\ given[o] \in Given
  BY DEF IInv, GivenKept, Present, Due

LEMMA InitInv == Init => IInv
<1> SUFFICES ASSUME Init PROVE IInv
  OBVIOUS
<1>1. TypeOK
  BY DEF Init, TypeOK, Given, Held
<1>2. GivenKept /\ ReadsWhatWasGiven /\ FailureArrives
  BY DEF Init, GivenKept, ReadsWhatWasGiven, FailureArrives
<1> QED BY <1>1, <1>2 DEF IInv

LEMMA ConstructInv == ASSUME IInv, NEW o \in Object, Construct(o) PROVE IInv'
<1>1. ASSUME NEW v \in Value, Becomes(o, FromValue(v), v, FALSE) PROVE IInv'
  <2>1. v \in Given
    BY DEF Given, Held
  <2> QED BY <1>1, <2>1, FromFacts, BecomesInv
<1>2. ASSUME NEW c \in Codes,
             Becomes(o, FromStatus(Error(c)), c, FALSE) \/ Becomes(o, FromStatus(c), c, FALSE)
      PROVE  IInv'
  <2>1. c \in Given
    BY DEF Given
  <2> QED BY <1>2, <2>1, FromFacts, BecomesInv
<1>3. "kOk" \in Codes
  BY DEF Codes
<1> QED BY <1>1, <1>2, <1>3 DEF Construct

LEMMA DestroyInv == ASSUME IInv, NEW o \in Object, Destroy(o) PROVE IInv'
<1>1. "none" \in Given /\ Becomes(o, Absent, "none", FALSE)
  BY DEF Destroy, Given, Held
<1> QED BY <1>1, BecomesInv

LEMMA CopyInv == ASSUME IInv, NEW o \in Object, NEW p \in Object, Copy(o, p) PROVE IInv'
<1>1. Due(obj[o], given[o], o \in torn) /\ given[o] \in Given
  BY PresentIsDue DEF Copy
<1>2. Becomes(p, obj[o], given[o], o \in torn) /\ (o \in torn) \in BOOLEAN
  BY DEF Copy
<1> QED BY <1>1, <1>2, BecomesInv

(* Half an assignment: the code is what is due, the value need not be.     *)
LEMMA AssignThrowsInv ==
  ASSUME IInv, NEW o \in Object, NEW p \in Object, AssignThrows(o, p) PROVE IInv'
<1>1. Due(obj[o], given[o], o \in torn) /\ obj[p] \in StatusOrs /\ given[o] \in Given
  BY PresentIsDue DEF AssignThrows
<1> DEFINE s == [obj[p] EXCEPT !.code = obj[o].code]
<1>2. s \in StatusOrs /\ s.code = obj[o].code
  BY <1>1 DEF Due, StatusOrs
<1>3. Due(s, given[o], TRUE)
  BY <1>1, <1>2 DEF Due
<1>4. Becomes(p, s, given[o], TRUE)
  BY DEF AssignThrows
<1> QED BY <1>1, <1>3, <1>4, BecomesInv

LEMMA MoveInv == ASSUME IInv, NEW o \in Object, NEW p \in Object, Move(o, p) PROVE IInv'
<1>1. p # o /\ Due(obj[o], given[o], o \in torn) /\ obj[o] \in StatusOrs /\ given[o] \in Given
  BY PresentIsDue DEF Move
<1>2. Due(MovedFrom(obj[o]), GivenAway(given[o]), o \in torn)
  BY <1>1, MovedFacts
<1>3. /\ MovedFrom(obj[o]) \in StatusOrs /\ GivenAway(given[o]) \in Given
      /\ MovedFrom(obj[o]) # Absent /\ obj[o] # Absent
  BY <1>1, <1>2, NotAbsent DEF Due
<1>4. \A q \in Object :
        /\ obj'[q] = IF q = o THEN MovedFrom(obj[o]) ELSE IF q = p THEN obj[o] ELSE obj[q]
        /\ given'[q] = IF q = o THEN GivenAway(given[o])
                       ELSE IF q = p THEN given[o] ELSE given[q]
        /\ q \in torn' <=> IF q = p THEN o \in torn ELSE q \in torn
  BY <1>1 DEF Move, IInv, TypeOK
<1>5. TypeOK'
  <2>1. obj' \in [Object -> StatusOrs \cup {Absent}] /\ given' \in [Object -> Given]
    BY <1>1, <1>3 DEF Move, IInv, TypeOK
  <2>2. torn' \in SUBSET {q \in Object : obj'[q] # Absent}
    BY <1>1, <1>3, <1>4 DEF Move, IInv, TypeOK
  <2> QED BY <2>1, <2>2 DEF Move, IInv, TypeOK
<1>6. GivenKept'
  <2> SUFFICES ASSUME NEW q \in Object, obj'[q] # Absent
               PROVE  Due(obj'[q], given'[q], q \in torn')
    BY DEF GivenKept
  <2>1. CASE q = o
    BY <1>1, <1>2, <1>4, <2>1 DEF Due
  <2>2. CASE q = p
    BY <1>1, <1>4, <2>2 DEF Due
  <2>3. CASE q # o /\ q # p
    BY <1>4, <2>3 DEF IInv, GivenKept, Due
  <2> QED BY <2>1, <2>2, <2>3
<1>7. ReadsWhatWasGiven' /\ FailureArrives'
  BY NothingOut DEF Move
<1> QED BY <1>5, <1>6, <1>7 DEF IInv

-----------------------------------------------------------------------------
(* The record of what comes out, with its Boolean as a value.              *)
LEMMA OutIs ==
  ASSUME NEW o \in Object, NEW got, NEW to, ComesOut(o, got, to)
  PROVE  \E t \in BOOLEAN : /\ t <=> o \in torn
                           /\ out' = [got |-> got, to |-> to, given |-> given[o], torn |-> t]
<1>1. CASE o \in torn
  <2>1. (o \in torn) = TRUE
    BY <1>1
  <2>2. out' = [got |-> got, to |-> to, given |-> given[o], torn |-> TRUE]
    BY <2>1, Zenon DEF ComesOut
  <2> QED BY <1>1, <2>2
<1>2. CASE o \notin torn
  <2>1. (o \in torn) = FALSE
    BY <1>2
  <2>2. out' = [got |-> got, to |-> to, given |-> given[o], torn |-> FALSE]
    BY <2>1, Zenon DEF ComesOut
  <2> QED BY <1>2, <2>2
<1> QED BY <1>1, <1>2

(* What comes out of an object that has what is due is right.              *)
LEMMA ValueComesOut ==
  ASSUME IInv, NEW o \in Object, Present(o), Ok(obj[o]), ComesOut(o, obj[o].value, "client")
  PROVE  /\ out' \in [got : Held, to : {"client"}, given : Given, torn : BOOLEAN]
         /\ ReadsWhatWasGiven' /\ FailureArrives'
<1>1. /\ obj[o] \in StatusOrs /\ given[o] \in Given /\ given[o] # "none"
      /\ obj[o].code = CodeDue(given[o])
      /\ o \notin torn => obj[o].value = ValueDue(given[o])
  BY PresentIsDue DEF Due
<1>2. given[o] \notin Codes
  BY <1>1, CodeAssumption DEF Ok, CodeDue
<1>3. given[o] \in Value \cup {"moved"} /\ ValueDue(given[o]) = given[o]
  BY <1>1, <1>2 DEF Given, Held, ValueDue
<1>4. /\ out'.got = obj[o].value /\ out'.to = "client" /\ out'.given = given[o]
      /\ out'.torn <=> o \in torn
      /\ out' \in [got : Held, to : {"client"}, given : Given, torn : BOOLEAN]
  <2>1. obj[o].value \in Held
    BY <1>1 DEF StatusOrs
  <2>2. PICK t \in BOOLEAN :
          /\ t <=> o \in torn
          /\ out' = [got |-> obj[o].value, to |-> "client", given |-> given[o], torn |-> t]
    BY OutIs
  <2> QED BY <1>1, <2>1, <2>2
<1>5. ReadsWhatWasGiven'
  BY <1>1, <1>3, <1>4 DEF ReadsWhatWasGiven, Ok
<1>6. FailureArrives'
  BY <1>4 DEF FailureArrives
<1> QED BY <1>4, <1>5, <1>6

(* A failure comes out with the code in its status, or with a runtime      *)
(* error where a result type is made from a status that says OK.           *)
LEMMA FailureComesOut ==
  ASSUME IInv, NEW o \in Object, Present(o), ~Ok(obj[o]),
         NEW to \in {"Status", "StatusOr"}, NEW c,
         c = IF to = "StatusOr" /\ obj[o].code = "kOk" THEN "kRuntime" ELSE obj[o].code,
         ComesOut(o, c, to)
  PROVE  /\ out' \in [got : Codes, to : {"Status", "StatusOr"}, given : Given, torn : BOOLEAN]
         /\ ReadsWhatWasGiven' /\ FailureArrives'
<1>1. /\ obj[o] \in StatusOrs /\ given[o] \in Given /\ given[o] # "none"
      /\ obj[o].code = CodeDue(given[o])
      /\ o \notin torn => obj[o].value = ValueDue(given[o])
  BY PresentIsDue DEF Due
<1>2. c \in Codes
  BY <1>1 DEF StatusOrs, Codes
<1>3. /\ out'.got = c /\ out'.to = to /\ out'.given = given[o]
      /\ out'.torn <=> o \in torn
      /\ out' \in [got : Codes, to : {"Status", "StatusOr"}, given : Given, torn : BOOLEAN]
  <2>1. PICK t \in BOOLEAN :
          /\ t <=> o \in torn
          /\ out' = [got |-> c, to |-> to, given |-> given[o], torn |-> t]
    BY OutIs
  <2> QED BY <1>1, <1>2, <2>1
<1>4. CASE given[o] \in Codes
  <2>1. obj[o].code = (IF given[o] = "kOk" THEN "kRuntime" ELSE given[o])
    BY <1>1, <1>4 DEF CodeDue
  <2>2. c = obj[o].code
    BY <2>1
  <2> QED BY <1>3, <1>4, <2>1, <2>2 DEF ReadsWhatWasGiven, FailureArrives
<1>5. CASE given[o] \notin Codes
  <2>1. obj[o].code = "kOk" /\ obj[o].value = "none"
    BY <1>1, <1>5 DEF CodeDue, Ok
  <2>2. o \in torn
    BY <1>1, <1>5, <2>1 DEF ValueDue
  <2>3. c = (IF to = "StatusOr" THEN "kRuntime" ELSE "kOk")
    BY <2>1
  <2> QED BY <1>3, <1>5, <2>2, <2>3 DEF ReadsWhatWasGiven, FailureArrives
<1> QED BY <1>3, <1>4, <1>5

(* The two tests in ok() are what keeps a failure from being read as a     *)
(* value, and a torn object without a value from being read at all.        *)
LEMMA ReadInv == ASSUME IInv, NEW o \in Object, Read(o) PROVE IInv'
<1>1. Present(o) /\ UNCHANGED <<obj, given, torn>>
  BY DEF Read
<1>2. GivenKept'
  BY <1>1 DEF IInv, GivenKept
<1>3. CASE Ok(obj[o])
  <2>1. ComesOut(o, obj[o].value, "client") /\ aborted' = aborted
    BY <1>3 DEF Read
  <2>2. /\ out' \in [got : Held, to : {"client"}, given : Given, torn : BOOLEAN]
        /\ ReadsWhatWasGiven' /\ FailureArrives'
    BY <1>1, <1>3, <2>1, ValueComesOut
  <2>3. TypeOK'
    BY <1>1, <2>1, <2>2 DEF IInv, TypeOK
  <2> QED BY <1>2, <2>2, <2>3 DEF IInv
<1>4. CASE ~Ok(obj[o])
  <2>1. aborted' = TRUE /\ out' = out
    BY <1>4 DEF Read
  <2>2. TypeOK'
    BY <1>1, <2>1 DEF IInv, TypeOK
  <2> QED BY <1>2, <2>1, <2>2, NothingOut DEF IInv
<1> QED BY <1>3, <1>4

LEMMA TakeInv == ASSUME IInv, NEW o \in Object, Take(o) PROVE IInv'
<1>1. Due(obj[o], given[o], o \in torn)
  BY PresentIsDue DEF Take
<1>2. Due(MovedFrom(obj[o]), GivenAway(given[o]), o \in torn)
  BY <1>1, MovedFacts
<1>3. /\ MovedFrom(obj[o]) \in StatusOrs /\ GivenAway(given[o]) \in Given
      /\ MovedFrom(obj[o]) # Absent
  BY <1>2, NotAbsent DEF Due
<1>4. /\ torn' = torn /\ aborted' = aborted
      /\ \A q \in Object :
           /\ obj'[q] = IF q = o THEN MovedFrom(obj[o]) ELSE obj[q]
           /\ given'[q] = IF q = o THEN GivenAway(given[o]) ELSE given[q]
  BY DEF Take, IInv, TypeOK
<1>5. /\ out' \in [got : Held, to : {"client"}, given : Given, torn : BOOLEAN]
      /\ ReadsWhatWasGiven' /\ FailureArrives'
  BY ValueComesOut DEF Take
<1>6. TypeOK'
  <2>1. obj' \in [Object -> StatusOrs \cup {Absent}] /\ given' \in [Object -> Given]
    BY <1>3 DEF Take, IInv, TypeOK
  <2>2. torn' \in SUBSET {q \in Object : obj'[q] # Absent}
    BY <1>3, <1>4 DEF IInv, TypeOK
  <2> QED BY <1>4, <1>5, <2>1, <2>2 DEF IInv, TypeOK
<1>7. GivenKept'
  <2> SUFFICES ASSUME NEW q \in Object, obj'[q] # Absent
               PROVE  Due(obj'[q], given'[q], q \in torn')
    BY DEF GivenKept
  <2>1. CASE q = o
    BY <1>2, <1>4, <2>1 DEF Due
  <2>2. CASE q # o
    BY <1>4, <2>2 DEF IInv, GivenKept, Due
  <2> QED BY <2>1, <2>2
<1> QED BY <1>5, <1>6, <1>7 DEF IInv

LEMMA ReturnStatusInv ==
  ASSUME IInv, NEW o \in Object, ReturnStatus(o) \/ ReturnIfError(o) PROVE IInv'
<1>1. /\ Present(o) /\ ~Ok(obj[o]) /\ ComesOut(o, obj[o].code, "Status")
      /\ UNCHANGED <<obj, aborted, given, torn>>
  BY DEF ReturnStatus, ReturnIfError, Ok
<1>2. /\ out' \in [got : Codes, to : {"Status", "StatusOr"}, given : Given, torn : BOOLEAN]
      /\ ReadsWhatWasGiven' /\ FailureArrives'
  BY <1>1, FailureComesOut
<1>3. TypeOK' /\ GivenKept'
  BY <1>1, <1>2 DEF IInv, TypeOK, GivenKept
<1> QED BY <1>2, <1>3 DEF IInv

(* The conversion to the result type turns even a torn OK into an error.   *)
LEMMA ReturnStatusOrInv ==
  ASSUME IInv, NEW o \in Object, NEW p \in Object, ReturnStatusOr(o, p) PROVE IInv'
<1>1. /\ Present(o) /\ ~Ok(obj[o]) /\ obj[p] = Absent /\ obj[o] # Absent
      /\ torn' = torn \ {p} /\ aborted' = aborted
      /\ Due(obj[o], given[o], o \in torn) /\ obj[o].code \in Codes
  BY PresentIsDue DEF ReturnStatusOr, Free, Present, StatusOrs
<1> DEFINE c == obj[o].code
           s == FromStatus(c)
           g == IF given[o] \in Codes THEN given[o] ELSE "kOk"
<1>2. s.code = (IF c = "kOk" THEN "kRuntime" ELSE c) /\ Due(s, c, FALSE)
  BY <1>1, FromFacts DEF FromStatus, Error
<1>3. Due(s, g, FALSE) /\ s # Absent /\ s \in StatusOrs /\ g \in Given
  <2>1. g \in Codes
    BY DEF Codes
  <2>2. CodeDue(g) = CodeDue(c)
    BY <1>1 DEF Due, CodeDue, Codes
  <2>3. ValueDue(g) = "none" /\ ValueDue(c) = "none"
    BY <1>1, <2>1 DEF ValueDue
  <2>4. g # "none" /\ g \in Given
    BY <2>1, CodeAssumption DEF Given, Held
  <2> HIDE DEF g, c, s
  <2> QED BY <1>2, <2>2, <2>3, <2>4, NotAbsent DEF Due
<1>4. \A q \in Object : /\ obj'[q] = IF q = p THEN s ELSE obj[q]
                        /\ given'[q] = IF q = p THEN g ELSE given[q]
                        /\ q \in torn' <=> q \in torn /\ q # p
  BY DEF ReturnStatusOr, IInv, TypeOK
<1>5. /\ out' \in [got : Codes, to : {"Status", "StatusOr"}, given : Given, torn : BOOLEAN]
      /\ ReadsWhatWasGiven' /\ FailureArrives'
  <2>1. ComesOut(o, s.code, "StatusOr")
    BY <1>4 DEF ReturnStatusOr
  <2> QED BY <1>1, <1>2, <2>1, FailureComesOut
<1>6. TypeOK'
  <2>1. obj' \in [Object -> StatusOrs \cup {Absent}] /\ given' \in [Object -> Given]
    BY <1>3 DEF ReturnStatusOr, IInv, TypeOK
  <2>2. torn' \in SUBSET {q \in Object : obj'[q] # Absent}
    BY <1>1, <1>4 DEF IInv, TypeOK
  <2> QED BY <1>1, <1>5, <2>1, <2>2 DEF IInv, TypeOK
<1>7. GivenKept'
  <2> SUFFICES ASSUME NEW q \in Object, obj'[q] # Absent
               PROVE  Due(obj'[q], given'[q], q \in torn')
    BY DEF GivenKept
  <2>1. CASE q = p
    BY <1>3, <1>4, <2>1 DEF Due
  <2>2. CASE q # p
    BY <1>4, <2>2 DEF IInv, GivenKept, Due
  <2> QED BY <2>1, <2>2
<1> QED BY <1>5, <1>6, <1>7 DEF IInv

LEMMA NextInv == IInv /\ [Next]_vars => IInv'
<1> SUFFICES ASSUME IInv, [Next]_vars PROVE IInv'
  OBVIOUS
<1>1. ASSUME NEW o \in Object, Construct(o) PROVE IInv'
  BY <1>1, ConstructInv
<1>2. ASSUME NEW o \in Object, Destroy(o) PROVE IInv'
  BY <1>2, DestroyInv
<1>3. ASSUME NEW o \in Object, Read(o) PROVE IInv'
  BY <1>3, ReadInv
<1>4. ASSUME NEW o \in Object, Take(o) PROVE IInv'
  BY <1>4, TakeInv
<1>5. ASSUME NEW o \in Object, ReturnStatus(o) \/ ReturnIfError(o) PROVE IInv'
  BY <1>5, ReturnStatusInv
<1>6. ASSUME NEW o \in Object, NEW p \in Object, Copy(o, p) PROVE IInv'
  BY <1>6, CopyInv
<1>7. ASSUME NEW o \in Object, NEW p \in Object, Move(o, p) PROVE IInv'
  BY <1>7, MoveInv
<1>8. ASSUME NEW o \in Object, NEW p \in Object, AssignThrows(o, p) PROVE IInv'
  BY <1>8, AssignThrowsInv
<1>9. ASSUME NEW o \in Object, NEW p \in Object, ReturnStatusOr(o, p) PROVE IInv'
  BY <1>9, ReturnStatusOrInv
<1>10. CASE Aborted \/ UNCHANGED vars
  <2>1. UNCHANGED vars
    BY <1>10 DEF Aborted
  <2>2. TypeOK' /\ GivenKept'
    BY <2>1 DEF vars, IInv, TypeOK, GivenKept
  <2> QED BY <2>1, <2>2, NothingOut DEF vars, IInv
<1> QED BY <1>1, <1>2, <1>3, <1>4, <1>5, <1>6, <1>7, <1>8, <1>9, <1>10 DEF Next

LEMMA Inductive == Spec => []IInv
<1> QED BY InitInv, NextInv, PTL DEF Spec

-----------------------------------------------------------------------------
(* The results, for any number of objects and values.                      *)

(* Every object is a code with an optional, and only objects that are      *)
(* there are torn.                                                         *)
THEOREM TypeCorrect == Spec => []TypeOK
<1>1. IInv => TypeOK
  BY DEF IInv
<1> QED BY <1>1, Inductive, PTL

(* An accessor shows what was last put into the object, never anything of  *)
(* one that a failure was put into, whatever happened in between; only     *)
(* after an assignment that threw it may show an older value.              *)
THEOREM ReadsAreOfWhatWasPut == Spec => []ReadsWhatWasGiven
<1>1. IInv => ReadsWhatWasGiven
  BY DEF IInv
<1> QED BY <1>1, Inductive, PTL

(* An object says OK exactly when it has a value, moved-from ones          *)
(* included, unless an assignment threw.                                   *)
THEOREM StatusIsTrue == Spec => []StatusAgrees
<1>1. IInv => StatusAgrees
  <2> SUFFICES ASSUME IInv, NEW o \in Object, obj[o] # Absent, o \notin torn
               PROVE  (obj[o].code = "kOk") = (obj[o].value # "none")
    BY DEF StatusAgrees
  <2>1. /\ given[o] \in Given /\ given[o] # "none"
        /\ obj[o].code = CodeDue(given[o]) /\ obj[o].value = ValueDue(given[o])
    BY DEF IInv, GivenKept, Due
  <2> QED BY <2>1, CodeAssumption DEF CodeDue, ValueDue
<1> QED BY <1>1, Inductive, PTL

(* A failure comes back with the code it was born with, however it was     *)
(* copied, moved and assigned; a function that returns a StatusOr never    *)
(* passes one on as a success.                                             *)
THEOREM FailuresArrive == Spec => []FailureArrives
<1>1. IInv => FailureArrives
  BY DEF IInv
<1> QED BY <1>1, Inductive, PTL
=============================================================================
