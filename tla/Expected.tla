------------------------------- MODULE Expected -------------------------------
(***************************************************************************)
(* cartan::expected, down to the union: which member of an object is       *)
(* alive, and the flag that says so.                                       *)
(*                                                                         *)
(* An operation is a short program of steps on members - destroy one,      *)
(* construct one, assign, set the flag - taken one at a time, because the  *)
(* order of those steps is what the class has to get right.  In between,   *)
(* the constructor of T or E may throw, where it is allowed to.            *)
(***************************************************************************)
EXTENDS Sequences, FiniteSets

CONSTANTS
  Objects,     \* the variables of the program, all of one type
  Payloads,    \* what a value or an error may be
  Moved,       \* the payload of what was moved from
  Nothing,     \* no payload: of raw storage, of a void value
  Absent,      \* an object not constructed yet, or destroyed
  Temp,        \* the local E of swap
  Throws       \* the kinds of steps in which a constructor or assignment of T or E may throw

\* The markers are no objects, no payloads and no contents.
ASSUME StorageAssumption ==
  /\ Temp \notin Objects /\ Absent \notin Objects \cup {Temp}
  /\ Nothing \notin Payloads \cup {Moved}
  /\ Absent \notin [is : {"value", "error"}, payload : Payloads \cup {Moved, Nothing}]
  /\ Throws \subseteq {"construct", "reinit", "assign"}
  /\ "pending" \notin Payloads \cup {Moved, Nothing, Absent}

VARIABLES
  void,    \* the primary template (FALSE) or the specialization for void (TRUE)
  store,   \* of each object: built, m_has_value, the live member and its payload
  todo,    \* the steps the operation in progress has left
  answer,  \* "pending" during an operation, then how it ended or what it answered
  fault,   \* a dead member was used or destroyed, or a live one overwritten
  asked,   \* history: the call in progress or just observed, its operands and its argument
  before   \* history: what the objects held when it began

vars == <<void, store, todo, answer, fault, asked, before>>

Members == {"value", "error"}
Other(member) == IF member = "value" THEN "error" ELSE "value"

Raw == [built |-> FALSE, m_has_value |-> FALSE, live |-> "none", payload |-> Nothing]

Present == {x \in Objects : store[x].built}

\* What an object holds as its flag tells it.
Active(x) == IF store[x].m_has_value THEN "value" ELSE "error"

Held(x) == IF store[x].built THEN [is |-> Active(x), payload |-> store[x].payload] ELSE Absent

\* What can be put into an object: any value or error of its type.
Values == [is : {"value"}, payload : IF void THEN {Nothing} ELSE Payloads]
Errors == [is : {"error"}, payload : Payloads]

Init ==
  /\ void \in BOOLEAN
  /\ store = [x \in Objects \cup {Temp} |-> Raw]
  /\ todo = << >> /\ answer = Absent /\ fault = FALSE
  /\ asked = Absent /\ before = [x \in Objects |-> Absent]

(***************************************************************************)
(* Steps.                                                                  *)
(***************************************************************************)

\* Where a payload comes from: an argument, or a member of an object, copied or moved.
Arg(p) == [from |-> Absent, payload |-> p]
Read(y, member, moves) == [from |-> y, member |-> member, moves |-> moves]
Move(y, member) == Read(y, member, TRUE)

Destroy(x, member) == [do |-> "destroy", obj |-> x, member |-> member]
Construct(x, member, src) == [do |-> "construct", obj |-> x, member |-> member, src |-> src]
\* construct_at in storage whose member has just been destroyed.
Reconstruct(x, member, src) == [do |-> "reinit", obj |-> x, member |-> member, src |-> src]
\* construct_at where the arguments construct without throwing, as emplace requires.
Place(x, member, src) == [do |-> "place", obj |-> x, member |-> member, src |-> src]
Set(x, member, src) == [do |-> "assign", obj |-> x, member |-> member, src |-> src]
Exchange(x, y, member) == [do |-> "swap", obj |-> x, with |-> y, member |-> member]
Flag(x, b) == [do |-> "flag", obj |-> x, value |-> b]
Built(x, b) == [do |-> "built", obj |-> x, value |-> b]

\* A void value has no member in the storage.
HasMember(member) == ~(void /\ member = "value")
When(cond, step) == IF cond THEN <<step>> ELSE << >>

Dead(s, src) == src.from # Absent /\ s[src.from].live # src.member

Fetched(s, src) == IF src.from = Absent THEN src.payload ELSE s[src.from].payload

\* The storage once src has been read.
Drained(s, src) ==
  IF src.from # Absent /\ src.moves THEN [s EXCEPT ![src.from].payload = Moved] ELSE s

\* The effect of one step on the storage s, and whether it is undefined behaviour.
After(s, step) ==
  CASE step.do = "destroy" ->
         [s EXCEPT ![step.obj].live = "none", ![step.obj].payload = Nothing]
    [] step.do \in {"construct", "reinit", "place"} ->
         [Drained(s, step.src) EXCEPT ![step.obj].live = step.member,
                                      ![step.obj].payload = Fetched(s, step.src)]
    [] step.do = "assign" ->
         IF step.src.from = step.obj THEN Drained(s, step.src)
         ELSE [Drained(s, step.src) EXCEPT ![step.obj].payload = Fetched(s, step.src)]
    [] step.do = "swap" ->
         [s EXCEPT ![step.obj].payload = s[step.with].payload,
                   ![step.with].payload = s[step.obj].payload]
    [] step.do = "flag" -> [s EXCEPT ![step.obj].m_has_value = step.value]
    [] step.do = "built" -> [s EXCEPT ![step.obj].built = step.value]

Faulty(s, step) ==
  CASE step.do = "destroy" -> s[step.obj].live # step.member
    [] step.do \in {"construct", "reinit", "place"} -> s[step.obj].live # "none" \/ Dead(s, step.src)
    [] step.do = "assign" -> s[step.obj].live # step.member \/ Dead(s, step.src)
    [] step.do = "swap" -> {s[step.obj].live, s[step.with].live} # {step.member}
    [] OTHER -> FALSE

Step ==
  /\ todo # << >>
  /\ store' = After(store, Head(todo))
  /\ fault' = (fault \/ Faulty(store, Head(todo)))
  /\ todo' = Tail(todo)
  /\ UNCHANGED <<void, answer, asked, before>>

\* The constructor or assignment of T or E throws: the operation is left where it
\* is, and the local of swap is destroyed.
Throw ==
  /\ todo # << >> /\ Head(todo).do \in Throws
  /\ todo' = << >> /\ answer' = "threw"
  /\ store' = [store EXCEPT ![Temp] = Raw]
  /\ asked' = Absent /\ before' = [x \in Objects |-> Absent]
  /\ UNCHANGED <<void, fault>>

Return ==
  /\ answer = "pending" /\ todo = << >>
  /\ answer' = "returned"
  /\ asked' = Absent /\ before' = [x \in Objects |-> Absent]
  /\ UNCHANGED <<void, store, todo, fault>>

\* A call, and the program the code runs for it.
Begin(call, program) ==
  /\ answer # "pending"
  /\ asked' = call /\ answer' = "pending"
  /\ todo' = program
  /\ before' = [x \in Objects |-> Held(x)]
  /\ UNCHANGED <<void, store, fault>>

(***************************************************************************)
(* Construction and destruction.                                           *)
(***************************************************************************)

\* Every constructor sets the flag in its initializer and constructs the member.
Constructed(z, member, src) ==
  <<Flag(z, member = "value")>>
    \o When(HasMember(member), Construct(z, member, src)) \o <<Built(z, TRUE)>>

\* The default, in-place, converting and tagged constructors.
New ==
  \E z \in Objects \ Present : \E c \in Values \cup Errors :
    Begin([op |-> "construct", obj |-> z, to |-> c], Constructed(z, c.is, Arg(c.payload)))

\* The copy, move and converting constructors from another expected.
NewFrom ==
  \E z \in Objects \ Present, y \in Present, moves \in BOOLEAN :
    Begin([op |-> "construct_from", obj |-> z, from |-> y, moves |-> moves],
          Constructed(z, Active(y), Read(y, Active(y), moves)))

Destroyed ==
  \E x \in Present :
    Begin([op |-> "destroy", obj |-> x],
          When(HasMember(Active(x)), Destroy(x, Active(x))) \o <<Built(x, FALSE)>>)

(***************************************************************************)
(* Assignment, emplace, swap.                                              *)
(***************************************************************************)

\* Slip: the flag is set and the storage of the other member is not destroyed.
SlipNoDestroy(x, member, src) ==
  <<Reconstruct(x, member, src), Flag(x, member = "value")>>

\* reinit_as_value, reinit_as_error: out with one member, in with the other.
Reinit(x, member, src) ==
  <<Destroy(x, Other(member)), Reconstruct(x, member, src), Flag(x, member = "value")>>

\* Assignment to the primary template from a value, an unexpected or another expected.
AssignPrimary(x, member, src) ==
  IF Active(x) = member THEN <<Set(x, member, src)>> ELSE Reinit(x, member, src)

\* Slip: an error is not assigned over the one there is.
SlipKeepsError(x, member, src) ==
  When(Active(x) = "value" /\ member = "error", Construct(x, "error", src))
    \o When(Active(x) = "error" /\ member = "value", Destroy(x, "error"))
    \o <<Flag(x, member = "value")>>

\* Assignment to expected<void, E>: the flag last, whatever was done to the error.
AssignVoid(x, member, src) ==
  When(Active(x) = "value" /\ member = "error", Construct(x, "error", src))
    \o When(Active(x) = "error" /\ member = "value", Destroy(x, "error"))
    \o When(Active(x) = "error" /\ member = "error", Set(x, "error", src))
    \o <<Flag(x, member = "value")>>

Assigned(x, member, src) ==
  IF void THEN AssignVoid(x, member, src) ELSE AssignPrimary(x, member, src)

Assign ==
  \E x \in Present : \E c \in Values \cup Errors :
    Begin([op |-> "assign", obj |-> x, to |-> c], Assigned(x, c.is, Arg(c.payload)))

AssignFrom ==
  \E x, y \in Present, moves \in BOOLEAN :
    Begin([op |-> "assign_from", obj |-> x, from |-> y, moves |-> moves],
          Assigned(x, Active(y), Read(y, Active(y), moves)))

EmplacePrimary(x, c) ==
  <<Destroy(x, Active(x))>> \o When(Active(x) = "error", Flag(x, TRUE))
    \o <<Place(x, "value", Arg(c.payload))>>

EmplaceVoid(x) ==
  IF Active(x) = "error" THEN <<Destroy(x, "error"), Flag(x, TRUE)>> ELSE << >>

Emplace ==
  \E x \in Present : \E c \in Values :
    Begin([op |-> "emplace", obj |-> x, to |-> c],
          IF void THEN EmplaceVoid(x) ELSE EmplacePrimary(x, c))

\* The mixed case of the primary template, x holding the value.
SwapMixed(x, y) ==
  <<Construct(Temp, "error", Move(y, "error"))>>
    \o Reinit(y, "value", Move(x, "value"))
    \o Reinit(x, "error", Move(Temp, "error"))
    \o <<Destroy(Temp, "error")>>

\* The mixed case of the void specialization, x without an error.
SwapMixedVoid(x, y) ==
  <<Construct(x, "error", Move(y, "error")), Destroy(y, "error"),
    Flag(x, FALSE), Flag(y, TRUE)>>

SwapProgram(x, y) ==
  IF Active(x) = Active(y) THEN When(HasMember(Active(x)), Exchange(x, y, Active(x)))
  ELSE IF void THEN SwapMixedVoid(x, y) ELSE SwapMixed(x, y)

\* Of an error with a value the code swaps the value with the error.
Swap ==
  \E x, y \in Present :
    Begin([op |-> "swap", obj |-> x, with |-> y],
          IF Active(x) = "error" /\ Active(y) = "value" THEN SwapProgram(y, x)
          ELSE SwapProgram(x, y))

(***************************************************************************)
(* Monadic operations: and_then and or_else, whose function returns an     *)
(* expected, transform and transform_error, whose function returns a       *)
(* payload.  They make a new object; on an rvalue they move.               *)
(***************************************************************************)

\* The function is applied to the member called on; the other one is passed through.
Monadic(on, gives) ==
  \E z \in Objects \ Present, x \in Present, c \in gives, moves \in BOOLEAN :
    Begin([op |-> "chain", obj |-> z, from |-> x, on |-> on, gives |-> c, moves |-> moves],
          IF Active(x) = on
          THEN When(moves /\ HasMember(on), Set(x, on, Move(x, on)))
                 \o Constructed(z, c.is, Arg(c.payload))
          ELSE Constructed(z, Active(x), Read(x, Active(x), moves)))

AndThen == Monadic("value", Values \cup Errors)
OrElse == Monadic("error", Values \cup Errors)
Transform == Monadic("value", Values)
TransformError == Monadic("error", Errors)

(***************************************************************************)
(* Observers.                                                              *)
(***************************************************************************)

\* A call that answers a of x, and takes its payload if it drains x.
Observe(call, x, a, drains) ==
  /\ answer # "pending"
  /\ asked' = call /\ answer' = a
  /\ fault' = (fault \/ (HasMember(Active(x)) /\ store[x].live # Active(x)))
  /\ store' = IF drains /\ HasMember(Active(x)) THEN [store EXCEPT ![x].payload = Moved] ELSE store
  /\ UNCHANGED <<void, todo, before>>

\* value(): an rvalue moves its error into the exception.
Value ==
  \E x \in Present, moves \in BOOLEAN :
    Observe([op |-> "value", obj |-> x, moves |-> moves], x,
            IF Active(x) = "value" THEN store[x].payload ELSE "bad_expected_access",
            moves /\ Active(x) = "error")

\* value_or (not for void) and error_or.
ValueOr(member) ==
  \E x \in Present, d \in Payloads, moves \in BOOLEAN :
    /\ HasMember(member)
    /\ Observe([op |-> "or", obj |-> x, member |-> member, default |-> d, moves |-> moves], x,
               IF Active(x) = member THEN store[x].payload ELSE d,
               moves /\ Active(x) = member)

\* operator==, over two expecteds.
Equal(x, y) ==
  /\ store[x].m_has_value = store[y].m_has_value
  /\ HasMember(Active(x)) => store[x].payload = store[y].payload

Compare ==
  \E x, y \in Present :
    Observe([op |-> "equal", obj |-> x, with |-> y], x,
            IF Equal(x, y) THEN "equal" ELSE "unequal", FALSE)

Next ==
  \/ New \/ NewFrom \/ Destroyed \/ Assign \/ AssignFrom \/ Emplace \/ Swap
  \/ AndThen \/ OrElse \/ Transform \/ TransformError
  \/ Value \/ ValueOr("value") \/ ValueOr("error") \/ Compare
  \/ Step \/ Throw \/ Return

Spec == Init /\ [][Next]_vars

(***************************************************************************)
(* Properties.                                                             *)
(***************************************************************************)

\* The flag and the storage agree between operations, and no operation used, destroyed
\* or overwrote a member in the wrong state: nothing is destroyed twice or leaks,
\* the local of a swap included.
MembersLive ==
  /\ ~fault
  /\ todo = << >> =>
       /\ \A x \in Objects :
            store[x].live = IF x \in Present /\ HasMember(Active(x)) THEN Active(x) ELSE "none"
       /\ store[Temp].live = "none"

\* Every call does what was asked, to the objects it was asked of and to no other:
\* assignment makes its target what its argument or source was, a swap exchanges, a
\* monadic operation gives what its function gave or passes the other member on, what was
\* moved from keeps its kind, an observer reads what was put in.  A call that throws
\* leaves all as it was, a called function's argument aside.
Sum == INSTANCE SumType WITH
  content <- [x \in Objects |-> IF answer = "pending" THEN before[x] ELSE Held(x)]
RefinesSum == Sum!Spec

\* What expected.h:11 says of exceptions, that they track the standard: an operation
\* that throws leaves every object with the member its flag names, so that it can be
\* destroyed.
ThrowKeepsObjects ==
  todo = << >> =>
    \A x \in Present : HasMember(Active(x)) => store[x].live = Active(x)
===============================================================================
