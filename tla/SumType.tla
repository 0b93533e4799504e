------------------------------- MODULE SumType -------------------------------
(***************************************************************************)
(* What cartan::expected promises: every object is a value or an error.    *)
(* An operation is asked for with its operands and its argument.  When it  *)
(* returns, the contents are what that request promises of the contents it *)
(* found; when it throws, they are what it found.                          *)
(***************************************************************************)
CONSTANTS
  Objects,   \* the variables of the program
  Payloads,  \* what a value or an error may be
  Moved,     \* the payload of what was moved from
  Nothing,   \* the payload of a void value
  Absent     \* an object not constructed yet, or destroyed

VARIABLES
  void,     \* whether the program uses expected<void, E>
  content,  \* of each object: [is, payload], or Absent
  asked,    \* the call in progress or just answered, its operands and its argument
  answer    \* "pending" until it ends, then how it ended or what it answered

vars == <<void, content, asked, answer>>

Values == [is : {"value"}, payload : IF void THEN {Nothing} ELSE Payloads]
Errors == [is : {"error"}, payload : Payloads]

Present == {x \in Objects : content[x] # Absent}

Init ==
  /\ void \in BOOLEAN
  /\ content = [x \in Objects |-> Absent]
  /\ asked = Absent /\ answer = Absent

(***************************************************************************)
(* What a request r promises of the contents c it finds.                   *)
(***************************************************************************)

\* What was moved from keeps its kind; there is nothing to move from a void value.
MovedOut(v) == IF v.payload = Nothing THEN v ELSE [v EXCEPT !.payload = Moved]

\* The contents once x has been read, as an lvalue or by moving.
TakenFrom(c, x, moves) == IF moves THEN [c EXCEPT ![x] = MovedOut(c[x])] ELSE c

Promised(r, c) ==
  CASE r.op \in {"construct", "assign", "emplace"} -> [c EXCEPT ![r.obj] = r.to]
    [] r.op \in {"construct_from", "assign_from"} ->
         TakenFrom([c EXCEPT ![r.obj] = c[r.from]], r.from, r.moves)
    [] r.op = "chain" ->
         LET result == IF c[r.from].is = r.on THEN r.gives ELSE c[r.from]
         IN  TakenFrom([c EXCEPT ![r.obj] = result], r.from, r.moves)
    [] r.op = "swap" -> [c EXCEPT ![r.obj] = c[r.with], ![r.with] = c[r.obj]]
    [] r.op = "destroy" -> [c EXCEPT ![r.obj] = Absent]

\* What it may leave when it throws: all as it was, but a function that was called has
\* had its argument.  The destructor and emplace do not throw.
Left(r, c) ==
  CASE r.op \in {"destroy", "emplace"} -> {}
    [] r.op = "chain" -> {c, TakenFrom(c, r.from, r.moves /\ c[r.from].is = r.on)}
    [] OTHER -> {c}

(***************************************************************************)
(* Operations that change the objects.                                     *)
(***************************************************************************)
Ask(r) ==
  /\ answer # "pending"
  /\ asked' = r /\ answer' = "pending"
  /\ UNCHANGED <<void, content>>

Construct ==
  \E z \in Objects \ Present, c \in Values \cup Errors :
    Ask([op |-> "construct", obj |-> z, to |-> c])

ConstructFrom ==
  \E z \in Objects \ Present, y \in Present, moves \in BOOLEAN :
    Ask([op |-> "construct_from", obj |-> z, from |-> y, moves |-> moves])

Destroy == \E x \in Present : Ask([op |-> "destroy", obj |-> x])

Assign ==
  \E x \in Present, c \in Values \cup Errors : Ask([op |-> "assign", obj |-> x, to |-> c])

AssignFrom ==
  \E x, y \in Present, moves \in BOOLEAN :
    Ask([op |-> "assign_from", obj |-> x, from |-> y, moves |-> moves])

Emplace == \E x \in Present, c \in Values : Ask([op |-> "emplace", obj |-> x, to |-> c])

Swap == \E x, y \in Present : Ask([op |-> "swap", obj |-> x, with |-> y])

\* The function is called on the member `on` and gives a new object; the other member
\* is passed on.
Chain(on, gives) ==
  \E z \in Objects \ Present, x \in Present, c \in gives, moves \in BOOLEAN :
    Ask([op |-> "chain", obj |-> z, from |-> x, on |-> on, gives |-> c, moves |-> moves])

Monadic ==
  \/ \E on \in {"value", "error"} : Chain(on, Values \cup Errors)
  \/ Chain("value", Values) \/ Chain("error", Errors)

Return ==
  /\ answer = "pending"
  /\ content' = Promised(asked, content)
  /\ answer' = "returned" /\ asked' = Absent
  /\ UNCHANGED void

Throw ==
  /\ answer = "pending"
  /\ content' \in Left(asked, content)
  /\ answer' = "threw" /\ asked' = Absent
  /\ UNCHANGED void

(***************************************************************************)
(* Observers answer at once.                                               *)
(***************************************************************************)
Answer(r, a, c) ==
  /\ answer # "pending"
  /\ asked' = r /\ answer' = a /\ content' = c
  /\ UNCHANGED void

\* value() throws on an error, which may be moved into the exception.
ValueAsked ==
  \E x \in Present, moves \in BOOLEAN :
    Answer([op |-> "value", obj |-> x, moves |-> moves],
           IF content[x].is = "value" THEN content[x].payload ELSE "bad_expected_access",
           TakenFrom(content, x, moves /\ content[x].is = "error"))

\* value_or and error_or: the member asked for, or the caller's default.
MemberOr(member) ==
  \E x \in Present, d \in Payloads, moves \in BOOLEAN :
    Answer([op |-> "or", obj |-> x, member |-> member, default |-> d, moves |-> moves],
           IF content[x].is = member THEN content[x].payload ELSE d,
           TakenFrom(content, x, moves /\ content[x].is = member))

Compared ==
  \E x, y \in Present :
    Answer([op |-> "equal", obj |-> x, with |-> y],
           IF content[x] = content[y] THEN "equal" ELSE "unequal", content)

Next ==
  \/ Construct \/ ConstructFrom \/ Destroy \/ Assign \/ AssignFrom \/ Emplace \/ Swap
  \/ Monadic \/ Return \/ Throw
  \/ ValueAsked \/ MemberOr("value") \/ MemberOr("error") \/ Compared

Spec == Init /\ [][Next]_vars
===============================================================================
