---------------------------- MODULE ExpectedProofs ----------------------------
(***************************************************************************)
(* For any number of objects and any payloads: cartan::expected keeps      *)
(* exactly the flagged member of every object alive, and implements a      *)
(* plain sum type.                                                         *)
(*                                                                         *)
(* Both are stated for value and error types that do not throw while a     *)
(* member is replaced: reinit_as_value and reinit_as_error have no way     *)
(* back there (run expected_throws).  Every other constructor and          *)
(* assignment may throw.                                                   *)
(***************************************************************************)
EXTENDS Expected, SequenceTheorems, TLAPS

(***************************************************************************)
(* The storage between operations, and what the objects then hold.         *)
(***************************************************************************)
Vars == Objects \cup {Temp}
Slots == [built : BOOLEAN, m_has_value : BOOLEAN, live : Members \cup {"none"},
          payload : Payloads \cup {Moved, Nothing}]
Stores == [Vars -> Slots]

\* HasMember, Values and Errors for the template that v says.
Keeps(v, member) == ~(v /\ member = "value")
Contents(v) == [is : {"value"}, payload : IF v THEN {Nothing} ELSE Payloads]
                 \cup [is : {"error"}, payload : Payloads]

ActiveIn(s, x) == IF s[x].m_has_value THEN "value" ELSE "error"
HeldIn(s, x) == IF s[x].built THEN [is |-> ActiveIn(s, x), payload |-> s[x].payload] ELSE Absent
View(s) == [x \in Objects |-> HeldIn(s, x)]

\* The flag and the storage agree, and a payload is there exactly when a member is.
SlotAgrees(v, s, x) ==
  /\ s[x].live = IF s[x].built /\ Keeps(v, ActiveIn(s, x)) THEN ActiveIn(s, x) ELSE "none"
  /\ s[x].payload = Nothing <=> s[x].live = "none"

Agrees(v, s) ==
  /\ \A x \in Objects : SlotAgrees(v, s, x)
  /\ s[Temp].live = "none" /\ ~s[Temp].built

(***************************************************************************)
(* Contents, as an operation has to leave them.                            *)
(***************************************************************************)
Copy(y, m) == Read(y, m, FALSE)

Unit == [is |-> "value", payload |-> Nothing]

\* The contents b once x holds, as its member m, what src gives.
PutBy(b, x, m, src) ==
  IF src.from = Absent THEN [b EXCEPT ![x] = [is |-> m, payload |-> src.payload]]
  ELSE Sum!TakenFrom([b EXCEPT ![x] = b[src.from]], src.from, src.moves)

Crossed(b, x, y) == [b EXCEPT ![x] = b[y], ![y] = b[x]]

(***************************************************************************)
(* A program p runs well from the storage s: none of its steps is faulty,  *)
(* where a step may throw the operation can be left, and at its end the    *)
(* storage agrees again, with the contents that are due.  d.result are the *)
(* contents due at the end, d.left those that a throw may leave; G holds   *)
(* what the program passes through.                                        *)
(***************************************************************************)
Done(v, d, s) == Agrees(v, s) /\ View(s) = d.result

Safe(v, d, s) ==
  LET u == [s EXCEPT ![Temp] = Raw] IN Agrees(v, u) /\ View(u) \in d.left
Good(v, d, s, step) == ~Faulty(s, step) /\ (step.do \in Throws => Safe(v, d, s))

Passes(v, d, G) ==
  \A q, u : <<q, u>> \in G =>
    /\ u \in Stores
    /\ q = << >> => Done(v, d, u)
    /\ q # << >> => Good(v, d, u, Head(q)) /\ <<Tail(q), After(u, Head(q))>> \in G

Runs(v, d, p, s) == \E G : <<p, s>> \in G /\ Passes(v, d, G)

\* A program that has ended runs well where the storage agrees again.
LEMMA NothingLeft ==
  ASSUME NEW v, NEW d, NEW s \in Stores, Done(v, d, s)
  PROVE  Runs(v, d, << >>, s)
<1> DEFINE G == {<< << >>, s>>}
<1>1. << << >>, s>> \in G
  OBVIOUS
<1>2. Passes(v, d, G)
  <2> SUFFICES ASSUME NEW q, NEW u, <<q, u>> \in G
               PROVE  /\ u \in Stores
                      /\ q = << >> => Done(v, d, u)
                      /\ q # << >> => Good(v, d, u, Head(q)) /\ <<Tail(q), After(u, Head(q))>> \in G
    BY DEF Passes
  <2>1. q = << >> /\ u = s
    OBVIOUS
  <2> QED BY <2>1
<1> QED BY <1>1, <1>2 DEF Runs

\* A program runs well when its first step is good and the rest runs well after it.
LEMMA OneStep ==
  ASSUME NEW v, NEW d, NEW s \in Stores, NEW p, p # << >>, Good(v, d, s, Head(p)),
         Runs(v, d, Tail(p), After(s, Head(p)))
  PROVE  Runs(v, d, p, s)
<1>1. PICK H : <<Tail(p), After(s, Head(p))>> \in H /\ Passes(v, d, H)
  BY DEF Runs
<1> DEFINE G == H \cup {<<p, s>>}
<1>2. <<p, s>> \in G
  OBVIOUS
<1>3. Passes(v, d, G)
  <2> SUFFICES ASSUME NEW q, NEW u, <<q, u>> \in G
               PROVE  /\ u \in Stores
                      /\ q = << >> => Done(v, d, u)
                      /\ q # << >> => Good(v, d, u, Head(q)) /\ <<Tail(q), After(u, Head(q))>> \in G
    BY DEF Passes
  <2>1. CASE <<q, u>> \in H
    BY <1>1, <2>1 DEF Passes
  <2>2. CASE q = p /\ u = s
    BY <1>1, <2>2
  <2> QED BY <2>1, <2>2
<1> QED BY <1>2, <1>3 DEF Runs

\* What is left of a program that runs well runs well.
LEMMA Onward ==
  ASSUME NEW v, NEW d, NEW s, NEW p, Runs(v, d, p, s)
  PROVE  /\ s \in Stores
         /\ p = << >> => Done(v, d, s)
         /\ p # << >> => Good(v, d, s, Head(p)) /\ Runs(v, d, Tail(p), After(s, Head(p)))
<1>1. PICK G : <<p, s>> \in G /\ Passes(v, d, G)
  BY DEF Runs
<1>2. s \in Stores /\ (p = << >> => Done(v, d, s))
  BY <1>1 DEF Passes
<1>3. ASSUME p # << >>
      PROVE  Good(v, d, s, Head(p)) /\ Runs(v, d, Tail(p), After(s, Head(p)))
  <2>1. Good(v, d, s, Head(p)) /\ <<Tail(p), After(s, Head(p))>> \in G
    BY <1>1, <1>3 DEF Passes
  <2> QED BY <1>1, <2>1 DEF Runs
<1> QED BY <1>2, <1>3

(***************************************************************************)
(* Programs written out.                                                   *)
(***************************************************************************)

\* A program of one step.
LEMMA One ==
  ASSUME NEW v, NEW d, NEW s1 \in Stores, NEW s2 \in Stores, NEW a1,
         Good(v, d, s1, a1), s2 = After(s1, a1), Done(v, d, s2)
  PROVE  Runs(v, d, <<a1>>, s1)
<1>1. <<a1>> # << >> /\ Head(<<a1>>) = a1 /\ Tail(<<a1>>) = << >>
  OBVIOUS
<1> QED BY <1>1, NothingLeft, OneStep

\* A program of a first step and a rest written out.
LEMMA Two ==
  ASSUME NEW v, NEW d, NEW s1 \in Stores, NEW s2 \in Stores, NEW s3 \in Stores, NEW a1, NEW a2,
         Good(v, d, s1, a1), s2 = After(s1, a1), Good(v, d, s2, a2), s3 = After(s2, a2),
         Done(v, d, s3)
  PROVE  Runs(v, d, <<a1, a2>>, s1)
<1>1. <<a1, a2>> # << >> /\ Head(<<a1, a2>>) = a1 /\ Tail(<<a1, a2>>) = <<a2>>
  OBVIOUS
<1>2. Runs(v, d, <<a2>>, s2)
  BY One
<1> QED BY <1>1, <1>2, OneStep

\* A program of three steps.
LEMMA Three ==
  ASSUME NEW v, NEW d, NEW s1 \in Stores, NEW s2 \in Stores, NEW s3 \in Stores,
         NEW s4 \in Stores, NEW a1, NEW a2, NEW a3,
         Good(v, d, s1, a1), s2 = After(s1, a1), Good(v, d, s2, a2), s3 = After(s2, a2),
         Good(v, d, s3, a3), s4 = After(s3, a3), Done(v, d, s4)
  PROVE  Runs(v, d, <<a1, a2, a3>>, s1)
<1>1. /\ <<a1, a2, a3>> # << >> /\ Head(<<a1, a2, a3>>) = a1
      /\ Tail(<<a1, a2, a3>>) = <<a2, a3>>
  OBVIOUS
<1>2. Runs(v, d, <<a2, a3>>, s2)
  BY Two
<1> QED BY <1>1, <1>2, OneStep

\* A program of four steps.
LEMMA Four ==
  ASSUME NEW v, NEW d, NEW s1 \in Stores, NEW s2 \in Stores, NEW s3 \in Stores,
         NEW s4 \in Stores, NEW s5 \in Stores, NEW a1, NEW a2, NEW a3, NEW a4,
         Good(v, d, s1, a1), s2 = After(s1, a1), Good(v, d, s2, a2), s3 = After(s2, a2),
         Good(v, d, s3, a3), s4 = After(s3, a3), Good(v, d, s4, a4), s5 = After(s4, a4),
         Done(v, d, s5)
  PROVE  Runs(v, d, <<a1, a2, a3, a4>>, s1)
<1>1. /\ <<a1, a2, a3, a4>> # << >> /\ Head(<<a1, a2, a3, a4>>) = a1
      /\ Tail(<<a1, a2, a3, a4>>) = <<a2, a3, a4>>
  OBVIOUS
<1>2. Runs(v, d, <<a2, a3, a4>>, s2)
  BY Three
<1> QED BY <1>1, <1>2, OneStep

\* A program of eight steps, that of a mixed swap.
LEMMA Eight ==
  ASSUME NEW v, NEW d, NEW s1 \in Stores, NEW s2 \in Stores, NEW s3 \in Stores,
         NEW s4 \in Stores, NEW s5 \in Stores, NEW s6 \in Stores, NEW s7 \in Stores,
         NEW s8 \in Stores, NEW s9 \in Stores,
         NEW a1, NEW a2, NEW a3, NEW a4, NEW a5, NEW a6, NEW a7, NEW a8,
         Good(v, d, s1, a1), s2 = After(s1, a1), Good(v, d, s2, a2), s3 = After(s2, a2),
         Good(v, d, s3, a3), s4 = After(s3, a3), Good(v, d, s4, a4), s5 = After(s4, a4),
         Good(v, d, s5, a5), s6 = After(s5, a5), Good(v, d, s6, a6), s7 = After(s6, a6),
         Good(v, d, s7, a7), s8 = After(s7, a7), Good(v, d, s8, a8), s9 = After(s8, a8),
         Done(v, d, s9)
  PROVE  Runs(v, d, <<a1, a2, a3, a4, a5, a6, a7, a8>>, s1)
<1> DEFINE p5 == <<a5, a6, a7, a8>>
           p4 == <<a4, a5, a6, a7, a8>>
           p3 == <<a3, a4, a5, a6, a7, a8>>
           p2 == <<a2, a3, a4, a5, a6, a7, a8>>
           p1 == <<a1, a2, a3, a4, a5, a6, a7, a8>>
<1>1. p4 # << >> /\ Head(p4) = a4 /\ Tail(p4) = p5
  OBVIOUS
<1>2. p3 # << >> /\ Head(p3) = a3 /\ Tail(p3) = p4
  OBVIOUS
<1>3. p2 # << >> /\ Head(p2) = a2 /\ Tail(p2) = p3
  OBVIOUS
<1>4. p1 # << >> /\ Head(p1) = a1 /\ Tail(p1) = p2
  OBVIOUS
<1>5. Runs(v, d, p5, s5)
  BY Four
<1> HIDE DEF p5, p4, p3, p2, p1
<1>6. Runs(v, d, p4, s4)
  BY <1>1, <1>5, OneStep
<1>7. Runs(v, d, p3, s3)
  BY <1>2, <1>6, OneStep
<1>8. Runs(v, d, p2, s2)
  BY <1>3, <1>7, OneStep
<1>9. Runs(v, d, p1, s1)
  BY <1>4, <1>8, OneStep
<1> QED BY <1>9 DEF p1

\* A sequence that is p and then q is their concatenation.
LEMMA Joined ==
  ASSUME NEW S, NEW p \in Seq(S), NEW q \in Seq(S), NEW r \in Seq(S),
         Len(r) = Len(p) + Len(q), \A i \in 1 .. Len(p) : r[i] = p[i],
         \A i \in 1 .. Len(q) : r[Len(p) + i] = q[i]
  PROVE  p \o q = r
<1>1. Len(p) \in Nat /\ Len(q) \in Nat
  OBVIOUS
<1>2. /\ p \o q \in Seq(S) /\ Len(p \o q) = Len(p) + Len(q)
      /\ \A i \in 1 .. Len(p) + Len(q) : (p \o q)[i] = IF i <= Len(p) THEN p[i] ELSE q[i - Len(p)]
  BY ConcatProperties
<1>3. ASSUME NEW i \in 1 .. Len(p \o q)
      PROVE  (p \o q)[i] = r[i]
  <2>1. CASE i <= Len(p)
    BY <1>1, <1>2, <2>1
  <2>2. CASE i > Len(p)
    <3>1. i - Len(p) \in 1 .. Len(q) /\ i = Len(p) + (i - Len(p))
      BY <1>1, <1>2, <2>2
    <3>2. r[Len(p) + (i - Len(p))] = q[i - Len(p)]
      BY <3>1
    <3> QED BY <1>1, <1>2, <2>2, <3>1, <3>2
  <2> QED BY <1>1, <1>2, <2>1, <2>2
<1> QED BY <1>2, <1>3, SeqEqual

\* A step and a step.
LEMMA Join11 ==
  ASSUME NEW a1, NEW a2
  PROVE  <<a1>> \o <<a2>> = <<a1, a2>>
<1> DEFINE S == {a1, a2}
           p == <<a1>>
           q == <<a2>>
           r == <<a1, a2>>
<1>1. p \in Seq(S) /\ q \in Seq(S) /\ r \in Seq(S)
  OBVIOUS
<1>2. Len(p) = 1 /\ Len(q) = 1 /\ Len(r) = 2
  OBVIOUS
<1>3. \A i \in 1 .. 1 : r[i] = p[i]
  OBVIOUS
<1>4. \A i \in 1 .. 1 : r[1 + i] = q[i]
  OBVIOUS
<1> HIDE DEF S, p, q, r
<1>5. p \o q = r
  <2>1. Len(r) = Len(p) + Len(q) /\ \A i \in 1 .. Len(p) : r[i] = p[i]
    BY <1>2, <1>3
  <2>2. \A i \in 1 .. Len(q) : r[Len(p) + i] = q[i]
    BY <1>2, <1>4
  <2> QED BY <1>1, <2>1, <2>2, Joined
<1> QED BY <1>5 DEF p, q, r

\* A step and two.
LEMMA Join12 ==
  ASSUME NEW a1, NEW a2, NEW a3
  PROVE  <<a1>> \o <<a2, a3>> = <<a1, a2, a3>>
<1> DEFINE S == {a1, a2, a3}
           p == <<a1>>
           q == <<a2, a3>>
           r == <<a1, a2, a3>>
<1>1. p \in Seq(S) /\ q \in Seq(S) /\ r \in Seq(S)
  OBVIOUS
<1>2. Len(p) = 1 /\ Len(q) = 2 /\ Len(r) = 3
  OBVIOUS
<1>3. \A i \in 1 .. 1 : r[i] = p[i]
  OBVIOUS
<1>4. \A i \in 1 .. 2 : r[1 + i] = q[i]
  OBVIOUS
<1> HIDE DEF S, p, q, r
<1>5. p \o q = r
  <2>1. Len(r) = Len(p) + Len(q) /\ \A i \in 1 .. Len(p) : r[i] = p[i]
    BY <1>2, <1>3
  <2>2. \A i \in 1 .. Len(q) : r[Len(p) + i] = q[i]
    BY <1>2, <1>4
  <2> QED BY <1>1, <2>1, <2>2, Joined
<1> QED BY <1>5 DEF p, q, r

\* A step and three.
LEMMA Join13 ==
  ASSUME NEW a1, NEW a2, NEW a3, NEW a4
  PROVE  <<a1>> \o <<a2, a3, a4>> = <<a1, a2, a3, a4>>
<1> DEFINE S == {a1, a2, a3, a4}
           p == <<a1>>
           q == <<a2, a3, a4>>
           r == <<a1, a2, a3, a4>>
<1>1. p \in Seq(S) /\ q \in Seq(S) /\ r \in Seq(S)
  OBVIOUS
<1>2. Len(p) = 1 /\ Len(q) = 3 /\ Len(r) = 4
  OBVIOUS
<1>3. \A i \in 1 .. 1 : r[i] = p[i]
  OBVIOUS
<1>4. \A i \in 1 .. 3 : r[1 + i] = q[i]
  OBVIOUS
<1> HIDE DEF S, p, q, r
<1>5. p \o q = r
  <2>1. Len(r) = Len(p) + Len(q) /\ \A i \in 1 .. Len(p) : r[i] = p[i]
    BY <1>2, <1>3
  <2>2. \A i \in 1 .. Len(q) : r[Len(p) + i] = q[i]
    BY <1>2, <1>4
  <2> QED BY <1>1, <2>1, <2>2, Joined
<1> QED BY <1>5 DEF p, q, r

\* Two steps and one.
LEMMA Join21 ==
  ASSUME NEW a1, NEW a2, NEW a3
  PROVE  <<a1, a2>> \o <<a3>> = <<a1, a2, a3>>
<1> DEFINE S == {a1, a2, a3}
           p == <<a1, a2>>
           q == <<a3>>
           r == <<a1, a2, a3>>
<1>1. p \in Seq(S) /\ q \in Seq(S) /\ r \in Seq(S)
  OBVIOUS
<1>2. Len(p) = 2 /\ Len(q) = 1 /\ Len(r) = 3
  OBVIOUS
<1>3. \A i \in 1 .. 2 : r[i] = p[i]
  OBVIOUS
<1>4. \A i \in 1 .. 1 : r[2 + i] = q[i]
  OBVIOUS
<1> HIDE DEF S, p, q, r
<1>5. p \o q = r
  <2>1. Len(r) = Len(p) + Len(q) /\ \A i \in 1 .. Len(p) : r[i] = p[i]
    BY <1>2, <1>3
  <2>2. \A i \in 1 .. Len(q) : r[Len(p) + i] = q[i]
    BY <1>2, <1>4
  <2> QED BY <1>1, <2>1, <2>2, Joined
<1> QED BY <1>5 DEF p, q, r

\* Four steps and three.
LEMMA Join43 ==
  ASSUME NEW a1, NEW a2, NEW a3, NEW a4, NEW a5, NEW a6, NEW a7
  PROVE  <<a1, a2, a3, a4>> \o <<a5, a6, a7>> = <<a1, a2, a3, a4, a5, a6, a7>>
<1> DEFINE S == {a1, a2, a3, a4, a5, a6, a7}
           p == <<a1, a2, a3, a4>>
           q == <<a5, a6, a7>>
           r == <<a1, a2, a3, a4, a5, a6, a7>>
<1>1. p \in Seq(S) /\ q \in Seq(S) /\ r \in Seq(S)
  OBVIOUS
<1>2. Len(p) = 4 /\ Len(q) = 3 /\ Len(r) = 7
  OBVIOUS
<1>3. \A i \in 1 .. 4 : r[i] = p[i]
  OBVIOUS
<1>4. \A i \in 1 .. 3 : r[4 + i] = q[i]
  OBVIOUS
<1> HIDE DEF S, p, q, r
<1>5. p \o q = r
  <2>1. Len(r) = Len(p) + Len(q) /\ \A i \in 1 .. Len(p) : r[i] = p[i]
    BY <1>2, <1>3
  <2>2. \A i \in 1 .. Len(q) : r[Len(p) + i] = q[i]
    BY <1>2, <1>4
  <2> QED BY <1>1, <2>1, <2>2, Joined
<1> QED BY <1>5 DEF p, q, r

\* Seven steps and one.
LEMMA Join71 ==
  ASSUME NEW a1, NEW a2, NEW a3, NEW a4, NEW a5, NEW a6, NEW a7, NEW a8
  PROVE  <<a1, a2, a3, a4, a5, a6, a7>> \o <<a8>> = <<a1, a2, a3, a4, a5, a6, a7, a8>>
<1> DEFINE S == {a1, a2, a3, a4, a5, a6, a7, a8}
           p == <<a1, a2, a3, a4, a5, a6, a7>>
           q == <<a8>>
           r == <<a1, a2, a3, a4, a5, a6, a7, a8>>
<1>1. p \in Seq(S) /\ q \in Seq(S) /\ r \in Seq(S)
  OBVIOUS
<1>2. Len(p) = 7 /\ Len(q) = 1 /\ Len(r) = 8
  OBVIOUS
<1>3. \A i \in 1 .. 7 : r[i] = p[i]
  OBVIOUS
<1>4. \A i \in 1 .. 1 : r[7 + i] = q[i]
  OBVIOUS
<1> HIDE DEF S, p, q, r
<1>5. p \o q = r
  <2>1. Len(r) = Len(p) + Len(q) /\ \A i \in 1 .. Len(p) : r[i] = p[i]
    BY <1>2, <1>3
  <2>2. \A i \in 1 .. Len(q) : r[Len(p) + i] = q[i]
    BY <1>2, <1>4
  <2> QED BY <1>1, <2>1, <2>2, Joined
<1> QED BY <1>5 DEF p, q, r

\* Steps that are left out.
LEMMA LeftOut ==
  ASSUME NEW a
  PROVE  /\ << >> \o << >> = << >> /\ << >> \o <<a>> = <<a>> /\ <<a>> \o << >> = <<a>>
<1>1. <<a>> \in Seq({a}) /\ << >> \in Seq({a})
  OBVIOUS
<1> QED BY <1>1, ConcatEmptySeq

\* Three steps, of which the middle one may be left out.
LEMMA JoinThree ==
  ASSUME NEW a, NEW c, NEW d, NEW w
  PROVE  /\ w = << >> => <<a>> \o w \o <<d>> = <<a, d>>
         /\ w = <<c>> => <<a>> \o w \o <<d>> = <<a, c, d>>
<1>1. <<a>> \o << >> = <<a>> /\ <<a>> \o <<d>> = <<a, d>>
  BY LeftOut, Join11
<1>2. <<a>> \o <<c>> = <<a, c>> /\ <<a, c>> \o <<d>> = <<a, c, d>>
  BY Join11, Join21
<1> QED BY <1>1, <1>2, Zenon

\* Three steps of which at most one is taken, and a last one.
LEMMA JoinChosen ==
  ASSUME NEW a, NEW d, NEW w1, NEW w2, NEW w3
  PROVE  /\ w1 = << >> /\ w2 = << >> /\ w3 = << >> => w1 \o w2 \o w3 \o <<d>> = <<d>>
         /\ w1 = <<a>> /\ w2 = << >> /\ w3 = << >> => w1 \o w2 \o w3 \o <<d>> = <<a, d>>
         /\ w1 = << >> /\ w2 = <<a>> /\ w3 = << >> => w1 \o w2 \o w3 \o <<d>> = <<a, d>>
         /\ w1 = << >> /\ w2 = << >> /\ w3 = <<a>> => w1 \o w2 \o w3 \o <<d>> = <<a, d>>
<1>1. << >> \o << >> = << >> /\ << >> \o <<a>> = <<a>> /\ <<a>> \o << >> = <<a>>
  BY LeftOut
<1>2. << >> \o <<d>> = <<d>> /\ <<a>> \o <<d>> = <<a, d>>
  BY LeftOut, Join11
<1> QED BY <1>1, <1>2, Zenon

(***************************************************************************)
(* What each step does to the storage.                                     *)
(***************************************************************************)

\* The markers are apart from what they could be taken for.
LEMMA Markers ==
  /\ Temp \notin Objects /\ Absent \notin Vars /\ Nothing \notin Payloads /\ Nothing # Moved
  /\ \A m \in Members, p \in Payloads \cup {Moved, Nothing} :
       Absent # [is |-> m, payload |-> p]
BY StorageAssumption DEF Vars, Members

\* Turning the flag, and building an object, are never faulty.
LEMMA TurnFlag ==
  ASSUME NEW s \in Stores, NEW x \in Objects, NEW f \in BOOLEAN
  PROVE  /\ After(s, Flag(x, f)) = [s EXCEPT ![x].m_has_value = f]
         /\ After(s, Flag(x, f)) \in Stores
         /\ \A v, d : Good(v, d, s, Flag(x, f))
<1>1. Flag(x, f).do = "flag" /\ Flag(x, f).obj = x /\ Flag(x, f).value = f
  BY DEF Flag
<1>2. After(s, Flag(x, f)) = [s EXCEPT ![x].m_has_value = f]
  BY <1>1 DEF After
<1>3. [s EXCEPT ![x].m_has_value = f] \in Stores
  BY DEF Stores, Slots, Vars
<1>4. ~Faulty(s, Flag(x, f)) /\ Flag(x, f).do \notin Throws
  BY <1>1, StorageAssumption DEF Faulty
<1> QED BY <1>2, <1>3, <1>4 DEF Good

\* The same of a constructor's or destructor's end.
LEMMA TurnBuilt ==
  ASSUME NEW s \in Stores, NEW x \in Objects, NEW f \in BOOLEAN
  PROVE  /\ After(s, Built(x, f)) = [s EXCEPT ![x].built = f]
         /\ After(s, Built(x, f)) \in Stores
         /\ \A v, d : Good(v, d, s, Built(x, f))
<1>1. Built(x, f).do = "built" /\ Built(x, f).obj = x /\ Built(x, f).value = f
  BY DEF Built
<1>2. After(s, Built(x, f)) = [s EXCEPT ![x].built = f]
  BY <1>1 DEF After
<1>3. [s EXCEPT ![x].built = f] \in Stores
  BY DEF Stores, Slots, Vars
<1>4. ~Faulty(s, Built(x, f)) /\ Built(x, f).do \notin Throws
  BY <1>1, StorageAssumption DEF Faulty
<1> QED BY <1>2, <1>3, <1>4 DEF Good

\* The storage with the member of x gone.
Without(s, x) == [s EXCEPT ![x].live = "none", ![x].payload = Nothing]

\* Destroying the live member is not faulty.
LEMMA DestroyLive ==
  ASSUME NEW s \in Stores, NEW x \in Vars, NEW m \in Members, s[x].live = m
  PROVE  /\ After(s, Destroy(x, m)) = Without(s, x)
         /\ After(s, Destroy(x, m)) \in Stores
         /\ \A v, d : Good(v, d, s, Destroy(x, m))
<1>1. Destroy(x, m).do = "destroy" /\ Destroy(x, m).obj = x /\ Destroy(x, m).member = m
  BY DEF Destroy
<1>2. After(s, Destroy(x, m)) = Without(s, x)
  BY <1>1 DEF After, Without
<1>3. Without(s, x) \in Stores
  BY DEF Stores, Slots, Without
<1>4. ~Faulty(s, Destroy(x, m)) /\ Destroy(x, m).do \notin Throws
  BY <1>1, StorageAssumption DEF Faulty
<1> QED BY <1>2, <1>3, <1>4 DEF Good

\* A payload that can be read: an argument, or a live member, copied or moved.
Ready(s, m, src) ==
  \/ \E p \in Payloads : src = Arg(p)
  \/ \E y \in Vars : s[y].live = m /\ src \in {Copy(y, m), Move(y, m)}

\* Reading it is not faulty, gives a payload, and changes no more than the payload
\* of what it is moved from.
LEMMA Reading ==
  ASSUME NEW s \in Stores, NEW m \in Members, NEW src, Ready(s, m, src),
         \A y \in Vars : s[y].payload = Nothing => s[y].live = "none"
  PROVE  /\ ~Dead(s, src)
         /\ Fetched(s, src) \in Payloads \cup {Moved}
         /\ Drained(s, src) \in Stores
         /\ \A y \in Vars : /\ Drained(s, src)[y].built = s[y].built
                            /\ Drained(s, src)[y].m_has_value = s[y].m_has_value
                            /\ Drained(s, src)[y].live = s[y].live
<1>1. CASE \E p \in Payloads : src = Arg(p)
  BY <1>1 DEF Dead, Fetched, Drained, Arg
<1>2. CASE \E y \in Vars : s[y].live = m /\ src \in {Copy(y, m), Move(y, m)}
  <2>1. PICK y \in Vars : s[y].live = m /\ src \in {Copy(y, m), Move(y, m)}
    BY <1>2
  <2>2. src.from = y /\ src.member = m /\ src.moves \in BOOLEAN /\ y # Absent
    <3>1. CASE src = Copy(y, m)
      BY <3>1, Markers DEF Copy, Read
    <3>2. CASE src = Move(y, m)
      BY <3>2, Markers DEF Move, Read
    <3> QED BY <2>1, <3>1, <3>2
  <2>3. ~Dead(s, src) /\ Fetched(s, src) = s[y].payload
    BY <2>1, <2>2 DEF Dead, Fetched
  <2>4. s[y].payload # Nothing /\ s[y] \in Slots
    BY <2>1 DEF Vars, Members, Stores
  <2>5. Drained(s, src) = IF src.moves THEN [s EXCEPT ![y].payload = Moved] ELSE s
    BY <2>2 DEF Drained
  <2>6. [s EXCEPT ![y].payload = Moved] \in Stores
    BY DEF Stores, Slots
  <2> QED BY <2>2, <2>3, <2>4, <2>5, <2>6 DEF Stores, Slots
<1> QED BY <1>1, <1>2 DEF Ready

\* The storage with a payload put into x as its member m.
With(s, x, m, p) == [s EXCEPT ![x].live = m, ![x].payload = p]

\* Constructing a member in storage that holds none is not faulty.
LEMMA PutInto ==
  ASSUME NEW s \in Stores, NEW x \in Vars, NEW m \in Members, NEW src, Ready(s, m, src),
         \A y \in Vars : s[y].payload = Nothing => s[y].live = "none",
         s[x].live = "none",
         NEW step, \/ step = Construct(x, m, src)
                   \/ step = Reconstruct(x, m, src)
                   \/ step = Place(x, m, src)
  PROVE  /\ After(s, step) = With(Drained(s, src), x, m, Fetched(s, src))
         /\ After(s, step) \in Stores
         /\ \A v, d : (step.do \in Throws => Safe(v, d, s)) => Good(v, d, s, step)
<1>1. /\ step.do \in {"construct", "reinit", "place"}
      /\ step.obj = x /\ step.member = m /\ step.src = src
  BY DEF Construct, Reconstruct, Place
<1>2. After(s, step) = With(Drained(s, src), x, m, Fetched(s, src))
  BY <1>1 DEF After, With
<1>3. ~Dead(s, src) /\ Fetched(s, src) \in Payloads \cup {Moved} /\ Drained(s, src) \in Stores
  BY Reading
<1>4. With(Drained(s, src), x, m, Fetched(s, src)) \in Stores
  BY <1>3 DEF Stores, Slots, With
<1>5. ~Faulty(s, step)
  BY <1>1, <1>3 DEF Faulty
<1> QED BY <1>2, <1>4, <1>5 DEF Good

\* The storage with the member of x assigned from src.
Assigning(s, x, src) ==
  IF src.from = x THEN Drained(s, src)
  ELSE [Drained(s, src) EXCEPT ![x].payload = Fetched(s, src)]

\* Assigning to the live member is not faulty.
LEMMA SetLive ==
  ASSUME NEW s \in Stores, NEW x \in Objects, NEW m \in Members, NEW src, Ready(s, m, src),
         \A y \in Vars : s[y].payload = Nothing => s[y].live = "none",
         s[x].live = m
  PROVE  /\ After(s, Set(x, m, src)) = Assigning(s, x, src)
         /\ After(s, Set(x, m, src)) \in Stores
         /\ \A v, d : Safe(v, d, s) => Good(v, d, s, Set(x, m, src))
<1> DEFINE step == Set(x, m, src)
<1>1. step.do = "assign" /\ step.obj = x /\ step.member = m /\ step.src = src
  BY DEF Set
<1>2. After(s, step) = Assigning(s, x, src)
  BY <1>1 DEF After, Assigning
<1>3. ~Dead(s, src) /\ Fetched(s, src) \in Payloads \cup {Moved} /\ Drained(s, src) \in Stores
  BY Reading
<1>4. Assigning(s, x, src) \in Stores
  BY <1>3 DEF Stores, Slots, Vars, Assigning
<1>5. ~Faulty(s, step)
  BY <1>1, <1>3 DEF Faulty
<1> QED BY <1>2, <1>3, <1>4, <1>5 DEF Good

(***************************************************************************)
(* The ends of the operations.                                             *)
(***************************************************************************)

\* Where the storage agrees, a payload is missing only with its member.
LEMMA Filled ==
  ASSUME NEW v \in BOOLEAN, NEW s \in Stores, Agrees(v, s)
  PROVE  \A y \in Vars : s[y].payload = Nothing => s[y].live = "none"
BY DEF Agrees, SlotAgrees, Vars

\* What is read from: an argument, or the member an object holds.
From(s, m, src) ==
  \/ \E p \in Payloads : src = Arg(p)
  \/ \E y \in Objects : s[y].built /\ ActiveIn(s, y) = m /\ src \in {Copy(y, m), Move(y, m)}

\* It can be read.
LEMMA FromIsReady ==
  ASSUME NEW v \in BOOLEAN, NEW s \in Stores, Agrees(v, s), NEW m \in Members, Keeps(v, m),
         NEW src, From(s, m, src)
  PROVE  Ready(s, m, src)
<1>1. CASE \E p \in Payloads : src = Arg(p)
  BY <1>1 DEF Ready
<1>2. CASE \E y \in Objects :
             s[y].built /\ ActiveIn(s, y) = m /\ src \in {Copy(y, m), Move(y, m)}
  <2>1. PICK y \in Objects :
          s[y].built /\ ActiveIn(s, y) = m /\ src \in {Copy(y, m), Move(y, m)}
    BY <1>2
  <2>2. s[y].live = m
    BY <2>1 DEF Agrees, SlotAgrees
  <2> QED BY <2>1, <2>2 DEF Ready, Vars
<1> QED BY <1>1, <1>2 DEF From

\* Nothing has changed yet while at most the flag of an object not yet built was set.
LEMMA NotYet ==
  ASSUME NEW v \in BOOLEAN, NEW s \in Stores, Agrees(v, s), NEW d, View(s) \in d.left,
         NEW u \in Stores,
         \A x \in Objects : u[x] = s[x] \/ (/\ ~s[x].built /\ ~u[x].built
                                            /\ u[x].live = s[x].live /\ u[x].payload = s[x].payload)
  PROVE  Safe(v, d, u)
<1> DEFINE w == [u EXCEPT ![Temp] = Raw]
<1>1. \A x \in Objects : w[x] = u[x]
  BY Markers DEF Stores, Vars
<1>2. w[Temp] = Raw
  BY DEF Stores, Vars
<1> HIDE DEF w
<1>3. Agrees(v, w)
  BY <1>1, <1>2 DEF Agrees, SlotAgrees, ActiveIn, Raw
<1>4. View(w) = View(s)
  BY <1>1 DEF View, HeldIn, ActiveIn
<1> QED BY <1>3, <1>4 DEF Safe, w

\* The object x holds member m, with what src gave.
Holds(s, u, x, m, src) ==
  /\ u[x].built /\ (u[x].m_has_value <=> m = "value") /\ u[x].live = m
  /\ u[x].payload = IF src.from = x THEN Drained(s, src)[x].payload ELSE Fetched(s, src)
  /\ \A y \in Vars \ {x} : u[y] = Drained(s, src)[y]

\* The result of constructing and assigning: one object becomes what was put in, and
\* what was moved from keeps its kind.
LEMMA Putting ==
  ASSUME NEW v \in BOOLEAN, NEW s \in Stores, Agrees(v, s), NEW x \in Objects,
         NEW m \in Members, Keeps(v, m), NEW src, From(s, m, src),
         NEW d, d.result = PutBy(View(s), x, m, src),
         NEW u \in Stores, Holds(s, u, x, m, src)
  PROVE  Done(v, d, u)
<1>0. Temp \notin Objects /\ x \in Vars
  BY Markers DEF Vars
<1>1. CASE \E p \in Payloads : src = Arg(p)
  <2>1. PICK p \in Payloads : src = Arg(p)
    BY <1>1
  <2>2. src.from = Absent /\ Drained(s, src) = s /\ Fetched(s, src) = p /\ x # Absent
    BY <2>1, Markers, <1>0 DEF Arg, Drained, Fetched
  <2>3. /\ u[x].built /\ u[x].live = m /\ u[x].payload = p /\ ActiveIn(u, x) = m
        /\ \A y \in Vars \ {x} : u[y] = s[y]
    BY <2>2 DEF Holds, ActiveIn, Members
  <2>4. p # Nothing
    BY Markers
  <2>5. Agrees(v, u)
    BY <1>0, <2>3, <2>4 DEF Agrees, SlotAgrees, ActiveIn, Vars, Members
  <2>6. View(u) = [View(s) EXCEPT ![x] = [is |-> m, payload |-> p]]
    BY <2>3 DEF View, HeldIn, ActiveIn, Vars
  <2>7. PutBy(View(s), x, m, src) = [View(s) EXCEPT ![x] = [is |-> m, payload |-> p]]
    BY <2>1, <2>2 DEF PutBy, Arg
  <2> QED BY <2>5, <2>6, <2>7 DEF Done
<1>2. CASE \E y \in Objects :
             s[y].built /\ ActiveIn(s, y) = m /\ src \in {Copy(y, m), Move(y, m)}
  <2>1. PICK y \in Objects :
          s[y].built /\ ActiveIn(s, y) = m /\ src \in {Copy(y, m), Move(y, m)}
    BY <1>2
  <2>2. s[y].live = m /\ s[y].payload # Nothing /\ y # Absent /\ y \in Vars
    BY <2>1, Markers DEF Agrees, SlotAgrees, Members, Vars
  <2>3. View(s)[y] = [is |-> m, payload |-> s[y].payload]
    BY <2>1 DEF View, HeldIn
  <2>4. CASE src = Copy(y, m)
    <3>1. src.from = y /\ Drained(s, src) = s /\ Fetched(s, src) = s[y].payload
      BY <2>4, <2>2 DEF Copy, Read, Drained, Fetched
    <3>2. /\ u[x].built /\ u[x].live = m /\ u[x].payload = s[y].payload /\ ActiveIn(u, x) = m
          /\ \A z \in Vars \ {x} : u[z] = s[z]
      BY <3>1 DEF Holds, ActiveIn, Members
    <3>3. Agrees(v, u)
      BY <1>0, <2>2, <3>2 DEF Agrees, SlotAgrees, ActiveIn, Vars, Members
    <3>4. View(u) = [View(s) EXCEPT ![x] = View(s)[y]]
      <4>1. View(u)[x] = View(s)[y]
        BY <2>3, <3>2 DEF View, HeldIn
      <4>2. \A z \in Objects \ {x} : View(u)[z] = View(s)[z]
        BY <3>2 DEF View, HeldIn, ActiveIn, Vars
      <4> QED BY <4>1, <4>2 DEF View
    <3>5. PutBy(View(s), x, m, src) = [View(s) EXCEPT ![x] = View(s)[y]]
      BY <2>2, <2>4 DEF PutBy, Sum!TakenFrom, Copy, Read
    <3> QED BY <3>3, <3>4, <3>5 DEF Done
  <2>5. CASE src = Move(y, m)
    <3>1. /\ src.from = y /\ Drained(s, src) = [s EXCEPT ![y].payload = Moved]
          /\ Fetched(s, src) = s[y].payload
      BY <2>5, <2>2 DEF Move, Read, Drained, Fetched
    <3>2. /\ u[x].built /\ u[x].live = m /\ ActiveIn(u, x) = m
          /\ u[x].payload = IF x = y THEN Moved ELSE s[y].payload
          /\ \A z \in Vars \ {x, y} : u[z] = s[z]
          /\ x # y => u[y] = [s[y] EXCEPT !.payload = Moved]
      BY <3>1, <2>2 DEF Holds, ActiveIn, Members, Stores, Slots
    <3>3. /\ u[y].built /\ u[y].live = m /\ ActiveIn(u, y) = m /\ u[y].payload = Moved
      BY <2>1, <2>2, <3>2 DEF ActiveIn, Stores, Slots
    <3>4. Agrees(v, u)
      BY <1>0, <2>2, <3>2, <3>3, Markers DEF Agrees, SlotAgrees, ActiveIn, Vars, Members
    <3> DEFINE put == [View(s) EXCEPT ![x] = View(s)[y]]
    <3>5. View(u) = [put EXCEPT ![y] = Sum!MovedOut(put[y])]
      <4>1. Sum!MovedOut(View(s)[y]) = [is |-> m, payload |-> Moved]
        BY <2>2, <2>3 DEF Sum!MovedOut
      <4>2. View(u)[y] = [is |-> m, payload |-> Moved]
        BY <3>3 DEF View, HeldIn
      <4>3. x # y => View(u)[x] = View(s)[y]
        BY <2>3, <3>2 DEF View, HeldIn
      <4>4. \A z \in Objects \ {x, y} : View(u)[z] = View(s)[z]
        BY <3>2 DEF View, HeldIn, ActiveIn, Vars
      <4>5. put[y] = View(s)[y]
        BY DEF View
      <4> QED BY <4>1, <4>2, <4>3, <4>4, <4>5 DEF View
    <3>6. PutBy(View(s), x, m, src) = [put EXCEPT ![y] = Sum!MovedOut(put[y])]
      BY <2>2, <2>5 DEF PutBy, Sum!TakenFrom, Move, Read
    <3> QED BY <3>4, <3>5, <3>6 DEF Done
  <2> QED BY <2>1, <2>4, <2>5
<1> QED BY <1>1, <1>2 DEF From

\* The object x holds the void value.
HoldsVoid(s, u, x) ==
  /\ u[x].built /\ u[x].m_has_value /\ u[x].live = "none" /\ u[x].payload = Nothing
  /\ \A y \in Vars \ {x} : u[y] = s[y]

\* The result of constructing and assigning a void value.
LEMMA PuttingVoid ==
  ASSUME NEW v \in BOOLEAN, NEW s \in Stores, Agrees(v, s), NEW x \in Objects, v,
         NEW d, d.result = [View(s) EXCEPT ![x] = Unit], NEW u \in Stores, HoldsVoid(s, u, x)
  PROVE  Done(v, d, u)
<1>0. Temp \notin Objects /\ x \in Vars
  BY Markers DEF Vars
<1>1. Agrees(v, u)
  BY <1>0 DEF Agrees, SlotAgrees, ActiveIn, Keeps, HoldsVoid, Vars
<1>2. View(u) = [View(s) EXCEPT ![x] = Unit]
  BY DEF View, HeldIn, ActiveIn, HoldsVoid, Vars, Unit
<1> QED BY <1>1, <1>2 DEF Done

\* What is given to a constructor or an assignment: an argument of the object's type, or
\* what another object holds.
Given(v, s, m, src) ==
  \/ \E p : [is |-> m, payload |-> p] \in Contents(v) /\ src = Arg(p)
  \/ \E y \in Objects : s[y].built /\ ActiveIn(s, y) = m /\ src \in {Copy(y, m), Move(y, m)}

\* It can be read where it is stored, and where it is not it is the void value.
LEMMA Reads ==
  ASSUME NEW v \in BOOLEAN, NEW s \in Stores, Agrees(v, s), NEW x \in Objects,
         NEW m \in Members, NEW src, Given(v, s, m, src)
  PROVE  /\ Keeps(v, m) => From(s, m, src)
         /\ ~Keeps(v, m) => PutBy(View(s), x, m, src) = [View(s) EXCEPT ![x] = Unit]
<1>1. CASE \E p : [is |-> m, payload |-> p] \in Contents(v) /\ src = Arg(p)
  <2>1. PICK p : [is |-> m, payload |-> p] \in Contents(v) /\ src = Arg(p)
    BY <1>1
  <2>2. /\ Keeps(v, m) => p \in Payloads
        /\ ~Keeps(v, m) => [is |-> m, payload |-> p] = Unit
    BY <2>1 DEF Contents, Keeps, Unit
  <2>3. PutBy(View(s), x, m, src) = [View(s) EXCEPT ![x] = [is |-> m, payload |-> p]]
    BY <2>1 DEF PutBy, Arg
  <2> QED BY <2>1, <2>2, <2>3 DEF From
<1>2. CASE \E y \in Objects :
             s[y].built /\ ActiveIn(s, y) = m /\ src \in {Copy(y, m), Move(y, m)}
  <2>1. PICK y \in Objects :
          s[y].built /\ ActiveIn(s, y) = m /\ src \in {Copy(y, m), Move(y, m)}
    BY <1>2
  <2>2. ASSUME ~Keeps(v, m)
        PROVE  PutBy(View(s), x, m, src) = [View(s) EXCEPT ![x] = Unit]
    <3>1. View(s)[y] = Unit
      BY <2>1, <2>2 DEF Agrees, SlotAgrees, View, HeldIn, Unit, Keeps
    <3>2. src.from = y /\ y # Absent
      BY <2>1, Markers DEF Copy, Move, Read, Vars
    <3>3. Sum!MovedOut(Unit) = Unit
      BY DEF Sum!MovedOut, Unit
    <3> DEFINE put == [View(s) EXCEPT ![x] = Unit]
    <3>4. put[y] = Unit /\ [put EXCEPT ![y] = Unit] = put
      BY <3>1 DEF View
    <3>5. PutBy(View(s), x, m, src) = Sum!TakenFrom(put, y, src.moves)
      BY <3>1, <3>2 DEF PutBy
    <3> HIDE DEF put
    <3>6. Sum!TakenFrom(put, y, src.moves) = put
      BY <3>3, <3>4 DEF Sum!TakenFrom
    <3> QED BY <3>5, <3>6 DEF put
  <2> QED BY <2>1, <2>2 DEF From
<1> QED BY <1>1, <1>2 DEF Given

\* What is read from elsewhere reads the same when only the object x changed.
LEMMA Elsewhere ==
  ASSUME NEW s \in Stores, NEW t \in Stores, NEW x \in Vars, NEW m \in Members, NEW src,
         Ready(s, m, src), s[x].live # m, \A y \in Vars \ {x} : t[y] = s[y]
  PROVE  /\ Ready(t, m, src) /\ src.from # x /\ Fetched(t, src) = Fetched(s, src)
         /\ Drained(t, src)[x] = t[x]
         /\ \A y \in Vars \ {x} : Drained(t, src)[y] = Drained(s, src)[y]
<1>1. CASE \E p \in Payloads : src = Arg(p)
  <2>1. src.from = Absent /\ x # Absent
    BY <1>1, Markers DEF Arg
  <2> QED BY <1>1, <2>1 DEF Ready, Fetched, Drained
<1>2. CASE \E y \in Vars : s[y].live = m /\ src \in {Copy(y, m), Move(y, m)}
  <2>1. PICK y \in Vars : s[y].live = m /\ src \in {Copy(y, m), Move(y, m)}
    BY <1>2
  <2>2. src.from = y /\ src.moves \in BOOLEAN /\ y # Absent /\ y # x
    <3>1. CASE src = Copy(y, m)
      BY <2>1, <3>1, Markers DEF Copy, Read
    <3>2. CASE src = Move(y, m)
      BY <2>1, <3>2, Markers DEF Move, Read
    <3> QED BY <2>1, <3>1, <3>2
  <2>3. t[y] = s[y]
    BY <2>2
  <2>4. Ready(t, m, src) /\ Fetched(t, src) = Fetched(s, src)
    BY <2>1, <2>2, <2>3 DEF Ready, Fetched
  <2>5. /\ Drained(t, src) = IF src.moves THEN [t EXCEPT ![y].payload = Moved] ELSE t
        /\ Drained(s, src) = IF src.moves THEN [s EXCEPT ![y].payload = Moved] ELSE s
    BY <2>2 DEF Drained
  <2> QED BY <2>2, <2>3, <2>4, <2>5 DEF Stores
<1> QED BY <1>1, <1>2 DEF Ready

(***************************************************************************)
(* The programs of the operations.                                         *)
(***************************************************************************)

\* Only the flag of the object z, not yet built, may have been set.
Waits(s, u, z) ==
  /\ ~u[z].built /\ u[z].live = "none" /\ u[z].payload = Nothing
  /\ \A y \in Vars \ {z} : u[y] = s[y]

\* Every constructor runs well where its result is a good one, and nothing had changed
\* before it took what it was given.
LEMMA Constructing ==
  ASSUME void \in BOOLEAN, NEW d, NEW s \in Stores, Agrees(void, s),
         NEW z \in Objects, ~s[z].built, NEW m \in Members, NEW src,
         Keeps(void, m) => Ready(s, m, src),
         \A u \in Stores : Waits(s, u, z) => Safe(void, d, u),
         \A u \in Stores :
           IF Keeps(void, m) THEN Holds(s, u, z, m, src) => Done(void, d, u)
           ELSE HoldsVoid(s, u, z) => Done(void, d, u)
  PROVE  Runs(void, d, Constructed(z, m, src), s)
<1> DEFINE f == m = "value"
           a1 == Flag(z, f)
           a2 == Construct(z, m, src)
           a3 == Built(z, TRUE)
           s2 == After(s, a1)
<1>0. z \in Vars /\ f \in BOOLEAN /\ (f <=> m = "value")
  BY DEF Vars
<1>a. Constructed(z, m, src) = <<a1>> \o When(HasMember(m), a2) \o <<a3>>
  BY DEF Constructed
<1> HIDE DEF f
<1>1. s2 = [s EXCEPT ![z].m_has_value = f] /\ s2 \in Stores /\ Good(void, d, s, a1)
  BY <1>0, TurnFlag
<1>2. /\ s2[z].live = "none" /\ s2[z].payload = Nothing /\ (s2[z].m_has_value <=> m = "value")
      /\ ~s2[z].built /\ \A y \in Vars \ {z} : s2[y] = s[y]
  BY <1>0, <1>1 DEF Agrees, SlotAgrees, Stores, Slots
<1> HIDE DEF s2
<1>b. s2 = After(s, a1)
  BY DEF s2
<1>3. CASE ~Keeps(void, m)
  <2> DEFINE s3 == After(s2, a3)
  <2>1. s3 = [s2 EXCEPT ![z].built = TRUE] /\ s3 \in Stores /\ Good(void, d, s2, a3)
    BY <1>1, TurnBuilt
  <2>a. s3 = After(s2, a3)
    OBVIOUS
  <2> HIDE DEF s3
  <2>2. HoldsVoid(s, s3, z)
    BY <1>0, <1>1, <1>2, <1>3, <2>1 DEF HoldsVoid, Keeps, Stores, Slots
  <2>3. Done(void, d, s3)
    BY <1>3, <2>1, <2>2
  <2> HIDE DEF a1, a2, a3
  <2>4. When(HasMember(m), a2) = << >>
    BY <1>3 DEF When, HasMember, Keeps
  <2>5. Constructed(z, m, src) = <<a1, a3>>
    BY <1>a, <2>4, JoinThree, Zenon
  <2>6. Runs(void, d, <<a1, a3>>, s)
    BY <1>1, <1>b, <2>1, <2>3, <2>a, Two
  <2> QED BY <2>5, <2>6
<1>4. CASE Keeps(void, m)
  <2> DEFINE s3 == After(s2, a2)
             s4 == After(s3, a3)
  <2>a. /\ s3 = After(s2, a2) /\ s4 = After(s3, a3)
        /\ a2 = Construct(z, m, src)
    OBVIOUS
  <2> HIDE DEF a1, a2, s3
  <2>1. s[z].live = "none" /\ m # "none" /\ s[z].live # m /\ Ready(s, m, src)
    BY <1>4 DEF Agrees, SlotAgrees, Members
  <2>b. /\ s2 \in Stores /\ z \in Vars /\ \A y \in Vars \ {z} : s2[y] = s[y]
        /\ s2[z].live = "none" /\ s2[z].payload = Nothing
    BY <1>0, <1>1, <1>2
  <2>2. /\ Ready(s2, m, src) /\ src.from # z /\ Fetched(s2, src) = Fetched(s, src)
        /\ Drained(s2, src)[z] = s2[z]
        /\ \A y \in Vars \ {z} : Drained(s2, src)[y] = Drained(s, src)[y]
    BY <2>1, <2>b, Elsewhere
  <2>3. \A y \in Vars : s2[y].payload = Nothing => s2[y].live = "none"
    <3>1. \A y \in Vars : s[y].payload = Nothing => s[y].live = "none"
      BY Filled
    <3> QED BY <2>b, <3>1
  <2>c. Safe(void, d, s2)
    BY <1>1, <1>2 DEF Waits
  <2>4. /\ s3 = With(Drained(s2, src), z, m, Fetched(s2, src))
        /\ s3 \in Stores /\ Good(void, d, s2, a2)
    BY <2>a, <2>b, <2>2, <2>3, <2>c, PutInto
  <2>5. s4 = [s3 EXCEPT ![z].built = TRUE] /\ s4 \in Stores /\ Good(void, d, s3, a3)
    BY <2>4, TurnBuilt
  <2> HIDE DEF s4, a3
  <2>6. Holds(s, s4, z, m, src)
    <3>1. Drained(s2, src) \in Stores
      BY <2>b, <2>2, <2>3, Reading
    <3> QED BY <1>0, <1>2, <2>2, <2>4, <2>5, <3>1 DEF Holds, Stores, Slots, With
  <2>7. Done(void, d, s4)
    BY <1>4, <2>5, <2>6
  <2>8. When(HasMember(m), a2) = <<a2>>
    BY <1>4 DEF When, HasMember, Keeps
  <2>9. Constructed(z, m, src) = <<a1, a2, a3>>
    BY <1>a, <2>8, JoinThree, Zenon
  <2>d. Runs(void, d, <<a1, a2, a3>>, s)
    BY <1>1, <1>b, <2>4, <2>5, <2>7, <2>a, Three
  <2> QED BY <2>9, <2>d
<1> QED BY <1>3, <1>4

\* Assignment to the member an object holds.
LEMMA Setting ==
  ASSUME void \in BOOLEAN, NEW s \in Stores, Agrees(void, s), NEW x \in Objects, s[x].built,
         NEW m \in Members, ActiveIn(s, x) = m, Keeps(void, m), NEW src, From(s, m, src),
         NEW d, View(s) \in d.left
  PROVE  /\ Good(void, d, s, Set(x, m, src))
         /\ After(s, Set(x, m, src)) \in Stores
         /\ Holds(s, After(s, Set(x, m, src)), x, m, src)
<1>1. x \in Vars /\ s[x].live = m /\ Ready(s, m, src)
  BY FromIsReady DEF Agrees, SlotAgrees, Vars
<1>2. \A y \in Vars : s[y].payload = Nothing => s[y].live = "none"
  BY Filled
<1>3. Safe(void, d, s)
  BY NotYet
<1>4. /\ After(s, Set(x, m, src)) = Assigning(s, x, src)
      /\ After(s, Set(x, m, src)) \in Stores
      /\ Good(void, d, s, Set(x, m, src))
  BY <1>1, <1>2, <1>3, SetLive
<1>5. /\ Drained(s, src) \in Stores
      /\ \A y \in Vars : /\ Drained(s, src)[y].built = s[y].built
                         /\ Drained(s, src)[y].m_has_value = s[y].m_has_value
                         /\ Drained(s, src)[y].live = s[y].live
  BY <1>1, <1>2, Reading
<1>6. s[x].m_has_value <=> m = "value"
  BY DEF ActiveIn
<1>7. Holds(s, Assigning(s, x, src), x, m, src)
  BY <1>1, <1>5, <1>6 DEF Holds, Assigning, Stores, Slots
<1> QED BY <1>4, <1>7

\* reinit_as_value and reinit_as_error, where the new member's constructor does not throw.
LEMMA Reiniting ==
  ASSUME void = FALSE, NEW s \in Stores, Agrees(void, s), NEW x \in Objects, s[x].built,
         NEW m \in Members, ActiveIn(s, x) # m, NEW src, From(s, m, src), "reinit" \notin Throws,
         NEW d, d.result = PutBy(View(s), x, m, src)
  PROVE  Runs(void, d, Reinit(x, m, src), s)
<1> DEFINE f == m = "value"
           a1 == Destroy(x, Other(m))
           a2 == Reconstruct(x, m, src)
           a3 == Flag(x, f)
           s2 == After(s, a1)
           s3 == After(s2, a2)
           s4 == After(s3, a3)
<1>0. /\ x \in Vars /\ f \in BOOLEAN /\ (f <=> m = "value") /\ Keeps(void, m)
      /\ a2 = Reconstruct(x, m, src) /\ a2.do = "reinit"
  BY DEF Vars, Keeps, Reconstruct
<1>1. Reinit(x, m, src) = <<a1, a2, a3>>
  BY DEF Reinit
<1>2. s2 = After(s, a1) /\ s3 = After(s2, a2) /\ s4 = After(s3, a3)
  OBVIOUS
<1> HIDE DEF f, a2
<1>3. s[x].live = Other(m) /\ Other(m) \in Members /\ s[x].live # m /\ Ready(s, m, src)
  BY <1>0, FromIsReady DEF Agrees, SlotAgrees, Keeps, ActiveIn, Members, Other
<1>4. s2 = Without(s, x) /\ s2 \in Stores /\ Good(void, d, s, a1)
  BY <1>0, <1>3, DestroyLive
<1> HIDE DEF a1, s2, s3
<1>5. /\ s2[x].live = "none" /\ s2[x].payload = Nothing /\ s2[x].built
      /\ \A y \in Vars \ {x} : s2[y] = s[y]
  BY <1>0, <1>4 DEF Without, Stores, Slots
<1>6. /\ Ready(s2, m, src) /\ src.from # x /\ Fetched(s2, src) = Fetched(s, src)
      /\ Drained(s2, src)[x] = s2[x]
      /\ \A y \in Vars \ {x} : Drained(s2, src)[y] = Drained(s, src)[y]
  BY <1>0, <1>3, <1>4, <1>5, Elsewhere
<1>7. \A y \in Vars : s2[y].payload = Nothing => s2[y].live = "none"
  <2>1. \A y \in Vars : s[y].payload = Nothing => s[y].live = "none"
    BY Filled
  <2> QED BY <1>5, <2>1
<1>8. /\ s3 = With(Drained(s2, src), x, m, Fetched(s2, src))
      /\ s3 \in Stores /\ Good(void, d, s2, a2)
  BY <1>0, <1>2, <1>4, <1>5, <1>6, <1>7, PutInto
<1>9. s4 = [s3 EXCEPT ![x].m_has_value = f] /\ s4 \in Stores /\ Good(void, d, s3, a3)
  BY <1>0, <1>8, TurnFlag
<1> HIDE DEF a3, s4
<1>10. Holds(s, s4, x, m, src)
  <2>1. Drained(s2, src) \in Stores
    BY <1>4, <1>6, <1>7, Reading
  <2> QED BY <1>0, <1>5, <1>6, <1>8, <1>9, <2>1 DEF Holds, Stores, Slots, With
<1>11. Done(void, d, s4)
  BY <1>0, <1>9, <1>10, Putting
<1>12. Runs(void, d, <<a1, a2, a3>>, s)
  BY <1>2, <1>4, <1>8, <1>9, <1>11, Three
<1> QED BY <1>1, <1>12

\* Assignment to expected<void, E>: in each of the four cases.
LEMMA AssigningVoid ==
  ASSUME void = TRUE, NEW s \in Stores, Agrees(void, s), NEW x \in Objects, s[x].built,
         NEW m \in Members, NEW src, Given(void, s, m, src),
         NEW d, View(s) \in d.left, d.result = PutBy(View(s), x, m, src)
  PROVE  Runs(void, d,
              When(ActiveIn(s, x) = "value" /\ m = "error", Construct(x, "error", src))
                \o When(ActiveIn(s, x) = "error" /\ m = "value", Destroy(x, "error"))
                \o When(ActiveIn(s, x) = "error" /\ m = "error", Set(x, "error", src))
                \o <<Flag(x, m = "value")>>, s)
<1> DEFINE f == m = "value"
           a1 == Construct(x, "error", src)
           a2 == Destroy(x, "error")
           a3 == Set(x, "error", src)
           a4 == Flag(x, f)
           w1 == When(ActiveIn(s, x) = "value" /\ m = "error", a1)
           w2 == When(ActiveIn(s, x) = "error" /\ m = "value", a2)
           w3 == When(ActiveIn(s, x) = "error" /\ m = "error", a3)
           program == w1 \o w2 \o w3 \o <<a4>>
<1>0. x \in Vars /\ f \in BOOLEAN /\ (f <=> m = "value") /\ a1 = Construct(x, "error", src)
  BY DEF Vars
<1>1. SUFFICES Runs(void, d, program, s)
  OBVIOUS
<1>2. ActiveIn(s, x) \in {"value", "error"} /\ m \in {"value", "error"}
  BY DEF ActiveIn, Members
<1>3. \A y \in Vars : s[y].payload = Nothing => s[y].live = "none"
  BY Filled
<1>a. /\ m = "error" => From(s, m, src)
      /\ m = "value" => d.result = [View(s) EXCEPT ![x] = Unit]
  BY <1>2, Reads DEF Keeps
<1> HIDE DEF f, a1
<1>4. \A u \in Stores : After(u, a4) = [u EXCEPT ![x].m_has_value = f] /\ After(u, a4) \in Stores
  BY <1>0, TurnFlag
<1>5. \A u \in Stores : Good(void, d, u, a4)
  BY <1>0, TurnFlag
<1>6. CASE ActiveIn(s, x) = "value" /\ m = "error"
  <2> DEFINE s2 == After(s, a1)
             s3 == After(s2, a4)
  <2>1. s2 = After(s, a1) /\ s3 = After(s2, a4)
    OBVIOUS
  <2>2. s[x].live = "none" /\ s[x].live # m /\ Ready(s, m, src) /\ Keeps(void, m)
    BY <1>6, <1>a, FromIsReady DEF Agrees, SlotAgrees, Keeps
  <2>3. Safe(void, d, s)
    BY NotYet
  <2>4. s2 = With(Drained(s, src), x, m, Fetched(s, src)) /\ s2 \in Stores /\ Good(void, d, s, a1)
    <3>1. a1 = Construct(x, m, src)
      BY <1>0, <1>6
    <3>2. After(s, a1) = With(Drained(s, src), x, m, Fetched(s, src)) /\ After(s, a1) \in Stores
      BY <1>0, <1>3, <2>2, <3>1, PutInto
    <3>3. Good(void, d, s, a1)
      BY <1>0, <1>3, <2>2, <2>3, <3>1, PutInto
    <3> QED BY <3>2, <3>3
  <2> HIDE DEF s2, s3
  <2>5. s3 = [s2 EXCEPT ![x].m_has_value = f] /\ s3 \in Stores
    BY <1>4, <2>1, <2>4
  <2>6. Drained(s, src) \in Stores /\ src.from # x /\ Drained(s, src)[x].built
    <3>1. \A y \in Vars \ {x} : s[y] = s[y]
      OBVIOUS
    <3>2. src.from # x /\ Drained(s, src)[x] = s[x]
      BY <1>0, <2>2, <3>1, Elsewhere
    <3> QED BY <1>3, <2>2, <3>2, Reading
  <2>7. Holds(s, s3, x, m, src)
    BY <1>0, <2>4, <2>5, <2>6 DEF Holds, Stores, Slots, With
  <2>8. Done(void, d, s3)
    BY <1>6, <1>a, <2>2, <2>5, <2>7, Putting
  <2>9. program = <<a1, a4>>
    <3> HIDE DEF a2, a3, a4
    <3>1. w1 = <<a1>> /\ w2 = << >> /\ w3 = << >>
      BY <1>6 DEF When
    <3> HIDE DEF w1, w2, w3
    <3> QED BY <3>1, JoinChosen, ZenonT(60)
  <2> HIDE DEF a4, program
  <2>10. Runs(void, d, <<a1, a4>>, s)
    BY <1>5, <2>1, <2>4, <2>5, <2>8, Two
  <2> QED BY <2>9, <2>10
<1>7. CASE ActiveIn(s, x) = "error" /\ m = "value"
  <2> DEFINE s2 == After(s, a2)
             s3 == After(s2, a4)
  <2>1. s2 = After(s, a2) /\ s3 = After(s2, a4)
    OBVIOUS
  <2>2. s[x].live = "error" /\ "error" \in Members
    BY <1>7 DEF Agrees, SlotAgrees, Keeps, Members
  <2>3. s2 = Without(s, x) /\ s2 \in Stores /\ Good(void, d, s, a2)
    BY <1>0, <2>2, DestroyLive
  <2> HIDE DEF s2, s3
  <2>4. s3 = [s2 EXCEPT ![x].m_has_value = f] /\ s3 \in Stores
    BY <1>4, <2>1, <2>3
  <2>5. HoldsVoid(s, s3, x)
    BY <1>0, <1>7, <2>3, <2>4 DEF HoldsVoid, Stores, Slots, Without
  <2>6. Done(void, d, s3)
    BY <1>7, <1>a, <2>4, <2>5, PuttingVoid
  <2>7. program = <<a2, a4>>
    <3> HIDE DEF a2, a3, a4
    <3>1. w1 = << >> /\ w2 = <<a2>> /\ w3 = << >>
      BY <1>7 DEF When
    <3> HIDE DEF w1, w2, w3
    <3> QED BY <3>1, JoinChosen, Zenon
  <2> HIDE DEF a2, a4, program
  <2>8. Runs(void, d, <<a2, a4>>, s)
    BY <1>5, <2>1, <2>3, <2>4, <2>6, Two
  <2> QED BY <2>7, <2>8
<1>8. CASE ActiveIn(s, x) = "error" /\ m = "error"
  <2> DEFINE s2 == After(s, a3)
             s3 == After(s2, a4)
  <2>1. s2 = After(s, a3) /\ s3 = After(s2, a4)
    OBVIOUS
  <2>2. Keeps(void, m)
    BY <1>8 DEF Keeps
  <2>3. Good(void, d, s, a3) /\ s2 \in Stores /\ Holds(s, s2, x, m, src)
    BY <1>8, <1>a, <2>2, Setting
  <2> HIDE DEF s2, s3
  <2>4. s3 = [s2 EXCEPT ![x].m_has_value = f] /\ s3 \in Stores
    BY <1>4, <2>1, <2>3
  <2>5. Holds(s, s3, x, m, src)
    BY <1>0, <2>3, <2>4 DEF Holds, Stores, Slots
  <2>6. Done(void, d, s3)
    BY <1>8, <1>a, <2>2, <2>4, <2>5, Putting
  <2>7. program = <<a3, a4>>
    <3> HIDE DEF a2, a3, a4
    <3>1. w1 = << >> /\ w2 = << >> /\ w3 = <<a3>>
      BY <1>8 DEF When
    <3> HIDE DEF w1, w2, w3
    <3> QED BY <3>1, JoinChosen, Zenon
  <2> HIDE DEF a3, a4, program
  <2>8. Runs(void, d, <<a3, a4>>, s)
    BY <1>5, <2>1, <2>3, <2>4, <2>6, Two
  <2> QED BY <2>7, <2>8
<1>9. CASE ActiveIn(s, x) = "value" /\ m = "value"
  <2> DEFINE s2 == After(s, a4)
  <2>1. s2 = After(s, a4) /\ s2 = [s EXCEPT ![x].m_has_value = f] /\ s2 \in Stores
    BY <1>4
  <2> HIDE DEF s2
  <2>2. s[x].live = "none" /\ s[x].payload = Nothing
    BY <1>9 DEF Agrees, SlotAgrees, Keeps
  <2>3. HoldsVoid(s, s2, x)
    BY <1>0, <1>9, <2>1, <2>2 DEF HoldsVoid, Stores, Slots
  <2>4. Done(void, d, s2)
    BY <1>9, <1>a, <2>1, <2>3, PuttingVoid
  <2>5. program = <<a4>>
    <3> HIDE DEF a2, a3, a4
    <3>1. w1 = << >> /\ w2 = << >> /\ w3 = << >>
      BY <1>9 DEF When
    <3> HIDE DEF w1, w2, w3
    <3> QED BY <3>1, JoinChosen, Zenon
  <2> HIDE DEF a4, program
  <2>6. Runs(void, d, <<a4>>, s)
    BY <1>5, <2>1, <2>4, One
  <2> QED BY <2>5, <2>6
<1> QED BY <1>2, <1>6, <1>7, <1>8, <1>9

\* The destructor.
LEMMA Destroying ==
  ASSUME void \in BOOLEAN, NEW s \in Stores, Agrees(void, s), NEW x \in Objects, s[x].built,
         NEW m \in Members, ActiveIn(s, x) = m, NEW d, d.result = [View(s) EXCEPT ![x] = Absent]
  PROVE  Runs(void, d, When(HasMember(m), Destroy(x, m)) \o <<Built(x, FALSE)>>, s)
<1> DEFINE a1 == Destroy(x, m)
           a2 == Built(x, FALSE)
           Gone(u) == /\ ~u[x].built /\ u[x].live = "none" /\ u[x].payload = Nothing
                      /\ \A y \in Vars \ {x} : u[y] = s[y]
<1>0. x \in Vars /\ Temp \notin Objects
  BY Markers DEF Vars
<1>1. ASSUME NEW u \in Stores, Gone(u)
      PROVE  Done(void, d, u)
  <2>1. Agrees(void, u)
    BY <1>0, <1>1 DEF Agrees, SlotAgrees, ActiveIn, Vars
  <2>2. View(u) = [View(s) EXCEPT ![x] = Absent]
    BY <1>1 DEF View, HeldIn, ActiveIn, Vars
  <2> QED BY <2>1, <2>2 DEF Done
<1>2. CASE HasMember(m)
  <2> DEFINE s2 == After(s, a1)
             s3 == After(s2, a2)
  <2>1. s2 = After(s, a1) /\ s3 = After(s2, a2)
    OBVIOUS
  <2>2. s[x].live = m
    BY <1>2 DEF Agrees, SlotAgrees, Keeps, HasMember
  <2>3. s2 = Without(s, x) /\ s2 \in Stores /\ Good(void, d, s, a1)
    BY <1>0, <2>2, DestroyLive
  <2> HIDE DEF s2
  <2>4. s3 = [s2 EXCEPT ![x].built = FALSE] /\ s3 \in Stores /\ Good(void, d, s2, a2)
    BY <2>3, TurnBuilt
  <2> HIDE DEF s3
  <2>5. Done(void, d, s3)
    <3>1. Gone(s3)
      BY <1>0, <2>3, <2>4 DEF Stores, Slots, Without
    <3> QED BY <1>1, <2>4, <3>1
  <2> HIDE DEF a1, a2
  <2>6. When(HasMember(m), a1) \o <<a2>> = <<a1, a2>>
    BY <1>2, Join11 DEF When
  <2>7. Runs(void, d, <<a1, a2>>, s)
    BY <2>1, <2>3, <2>4, <2>5, Two
  <2> QED BY <2>6, <2>7 DEF a1, a2
<1>3. CASE ~HasMember(m)
  <2> DEFINE s2 == After(s, a2)
  <2>1. s2 = [s EXCEPT ![x].built = FALSE] /\ s2 \in Stores /\ Good(void, d, s, a2)
    BY TurnBuilt
  <2>2. s2 = After(s, a2)
    OBVIOUS
  <2>3. s[x].live = "none" /\ s[x].payload = Nothing
    BY <1>3 DEF Agrees, SlotAgrees, Keeps, HasMember
  <2> HIDE DEF s2
  <2>4. Done(void, d, s2)
    <3>1. Gone(s2)
      BY <1>0, <2>1, <2>3 DEF Stores, Slots
    <3> QED BY <1>1, <2>1, <3>1
  <2> HIDE DEF a1, a2
  <2>5. When(HasMember(m), a1) \o <<a2>> = <<a2>>
    BY <1>3, LeftOut DEF When
  <2>6. Runs(void, d, <<a2>>, s)
    BY <2>1, <2>2, <2>4, One
  <2> QED BY <2>5, <2>6 DEF a1, a2
<1> QED BY <1>2, <1>3

\* emplace of the primary template: the old member out, the new value in.
LEMMA Emplacing ==
  ASSUME void = FALSE, NEW s \in Stores, Agrees(void, s), NEW x \in Objects, s[x].built,
         NEW p \in Payloads,
         NEW d, d.result = [View(s) EXCEPT ![x] = [is |-> "value", payload |-> p]]
  PROVE  Runs(void, d,
              <<Destroy(x, ActiveIn(s, x))>> \o When(ActiveIn(s, x) = "error", Flag(x, TRUE))
                \o <<Place(x, "value", Arg(p))>>, s)
<1> DEFINE src == Arg(p)
           a1 == Destroy(x, ActiveIn(s, x))
           a2 == Flag(x, TRUE)
           a3 == Place(x, "value", src)
           s2 == After(s, a1)
<1>0. /\ x \in Vars /\ "value" \in Members /\ Keeps(void, "value") /\ From(s, "value", src)
      /\ a3 = Place(x, "value", src) /\ a3.do = "place" /\ a3.do \notin Throws
      /\ d.result = PutBy(View(s), x, "value", src)
  BY StorageAssumption DEF Vars, Members, Keeps, From, Place, PutBy, Arg
<1>1. s[x].live = ActiveIn(s, x) /\ ActiveIn(s, x) \in Members
  BY DEF Agrees, SlotAgrees, Keeps, ActiveIn, Members
<1>2. s2 = Without(s, x) /\ s2 \in Stores /\ Good(void, d, s, a1)
  BY <1>0, <1>1, DestroyLive
<1>3. s2 = After(s, a1)
  OBVIOUS
<1> HIDE DEF a3, s2
<1>4. src.from # x /\ src.from = Absent /\ \A u : Drained(u, src) = u /\ Ready(u, "value", src)
  BY <1>0, Markers DEF Arg, Drained, Ready
<1>5. \A y \in Vars : s[y].payload = Nothing => s[y].live = "none"
  BY Filled
<1>6. ASSUME NEW u \in Stores, u[x].live = "none", u[x].payload = Nothing, u[x].built,
             u[x].m_has_value, \A y \in Vars \ {x} : u[y] = s[y]
      PROVE  /\ Good(void, d, u, a3) /\ After(u, a3) \in Stores
             /\ Done(void, d, After(u, a3))
  <2> DEFINE w == After(u, a3)
  <2>1. \A y \in Vars : u[y].payload = Nothing => u[y].live = "none"
    BY <1>5, <1>6
  <2>2. Ready(u, "value", src)
    BY <1>4
  <2> HIDE DEF src
  <2>3. w = With(Drained(u, src), x, "value", Fetched(u, src)) /\ w \in Stores
    BY <1>0, <1>6, <2>1, <2>2, PutInto
  <2>4. Good(void, d, u, a3)
    BY <1>0, <1>6, <2>1, <2>2, PutInto
  <2>5. Fetched(u, src) = Fetched(s, src) /\ Drained(u, src) = u /\ Drained(s, src) = s
    BY <1>4 DEF Fetched
  <2> HIDE DEF w
  <2>6. Holds(s, w, x, "value", src)
    BY <1>0, <1>4, <1>6, <2>3, <2>5 DEF Holds, Stores, Slots, With
  <2>7. Done(void, d, w)
    BY <1>0, <2>3, <2>6, Putting
  <2> QED BY <2>3, <2>4, <2>7 DEF w
<1>7. CASE ActiveIn(s, x) = "error"
  <2> DEFINE s3 == After(s2, a2)
             s4 == After(s3, a3)
  <2>1. s3 = After(s2, a2) /\ s4 = After(s3, a3)
    OBVIOUS
  <2>2. s3 = [s2 EXCEPT ![x].m_has_value = TRUE] /\ s3 \in Stores /\ Good(void, d, s2, a2)
    BY <1>2, TurnFlag
  <2> HIDE DEF s3
  <2>3. /\ s3[x].live = "none" /\ s3[x].payload = Nothing /\ s3[x].built /\ s3[x].m_has_value
        /\ \A y \in Vars \ {x} : s3[y] = s[y]
    BY <1>0, <1>2, <2>2 DEF Without, Stores, Slots
  <2>4. Good(void, d, s3, a3) /\ s4 \in Stores /\ Done(void, d, s4)
    BY <1>6, <2>2, <2>3
  <2> HIDE DEF a1, a2, s4
  <2>5. <<a1>> \o When(ActiveIn(s, x) = "error", a2) \o <<a3>> = <<a1, a2, a3>>
    BY <1>7, JoinThree DEF When
  <2>6. Runs(void, d, <<a1, a2, a3>>, s)
    BY <1>2, <1>3, <2>1, <2>2, <2>4, Three
  <2> QED BY <2>5, <2>6 DEF a1, a2, a3
<1>8. CASE ActiveIn(s, x) # "error"
  <2> DEFINE s3 == After(s2, a3)
  <2>1. s3 = After(s2, a3)
    OBVIOUS
  <2>2. /\ s2[x].live = "none" /\ s2[x].payload = Nothing /\ s2[x].built /\ s2[x].m_has_value
        /\ \A y \in Vars \ {x} : s2[y] = s[y]
    BY <1>0, <1>2, <1>8 DEF Without, Stores, Slots, ActiveIn
  <2>3. Good(void, d, s2, a3) /\ s3 \in Stores /\ Done(void, d, s3)
    BY <1>2, <1>6, <2>2
  <2> HIDE DEF a1, a2, s3
  <2>4. <<a1>> \o When(ActiveIn(s, x) = "error", a2) \o <<a3>> = <<a1, a3>>
    BY <1>8, JoinThree DEF When
  <2>5. Runs(void, d, <<a1, a3>>, s)
    BY <1>2, <1>3, <2>1, <2>3, Two
  <2> QED BY <2>4, <2>5 DEF a1, a2, a3
<1> QED BY <1>7, <1>8

\* emplace of expected<void, E>: an error goes, a void value is left alone.
LEMMA EmplacingVoid ==
  ASSUME void = TRUE, NEW s \in Stores, Agrees(void, s), NEW x \in Objects, s[x].built,
         NEW d, d.result = [View(s) EXCEPT ![x] = Unit]
  PROVE  Runs(void, d,
              IF ActiveIn(s, x) = "error" THEN <<Destroy(x, "error"), Flag(x, TRUE)>> ELSE << >>, s)
<1> DEFINE a1 == Destroy(x, "error")
           a2 == Flag(x, TRUE)
           s2 == After(s, a1)
           s3 == After(s2, a2)
<1>1. CASE ActiveIn(s, x) = "error"
  <2>1. s2 = After(s, a1) /\ s3 = After(s2, a2)
    OBVIOUS
  <2>2. x \in Vars /\ s[x].live = "error" /\ "error" \in Members
    BY <1>1 DEF Agrees, SlotAgrees, Keeps, Members, Vars
  <2>3. s2 = Without(s, x) /\ s2 \in Stores /\ Good(void, d, s, a1)
    BY <2>2, DestroyLive
  <2> HIDE DEF s2
  <2>4. s3 = [s2 EXCEPT ![x].m_has_value = TRUE] /\ s3 \in Stores /\ Good(void, d, s2, a2)
    BY <2>3, TurnFlag
  <2> HIDE DEF s3
  <2>5. HoldsVoid(s, s3, x)
    BY <2>2, <2>3, <2>4 DEF HoldsVoid, Stores, Slots, Without
  <2>6. Done(void, d, s3)
    BY <2>4, <2>5, PuttingVoid
  <2> HIDE DEF a1, a2
  <2>7. Runs(void, d, <<a1, a2>>, s)
    BY <2>1, <2>3, <2>4, <2>6, Two
  <2> QED BY <1>1, <2>7 DEF a1, a2
<1>2. CASE ActiveIn(s, x) # "error"
  <2>1. View(s)[x] = Unit
    BY <1>2 DEF Agrees, SlotAgrees, Keeps, ActiveIn, View, HeldIn, Unit
  <2>2. Done(void, d, s)
    BY <2>1 DEF Done, View
  <2> QED BY <1>2, <2>2, NothingLeft
<1> QED BY <1>1, <1>2

\* The contents of x and y have changed places.
Exchanged(s, u, x, y) ==
  /\ HeldIn(u, x) = HeldIn(s, y) /\ HeldIn(u, y) = HeldIn(s, x)
  /\ SlotAgrees(void, u, x) /\ SlotAgrees(void, u, y)
  /\ u[Temp].live = "none" /\ ~u[Temp].built
  /\ \A z \in Objects \ {x, y} : u[z] = s[z]

\* The result of a swap.
LEMMA Exchanging ==
  ASSUME void \in BOOLEAN, NEW s \in Stores, Agrees(void, s), NEW x \in Objects, s[x].built,
         NEW y \in Objects, s[y].built, NEW d, d.result = Crossed(View(s), x, y),
         NEW u \in Stores, Exchanged(s, u, x, y)
  PROVE  Done(void, d, u)
<1>1. Agrees(void, u)
  <2>1. ASSUME NEW z \in Objects
        PROVE  SlotAgrees(void, u, z)
    BY DEF Exchanged, Agrees, SlotAgrees, ActiveIn
  <2> QED BY <2>1 DEF Exchanged, Agrees
<1>2. View(u) = Crossed(View(s), x, y)
  <2>1. View(u)[x] = View(s)[y] /\ View(u)[y] = View(s)[x]
    BY DEF View, Exchanged
  <2>2. \A z \in Objects \ {x, y} : View(u)[z] = View(s)[z]
    BY DEF View, Exchanged, HeldIn, ActiveIn
  <2> QED BY <2>1, <2>2 DEF View, Crossed
<1> QED BY <1>1, <1>2 DEF Done

\* swap of two objects that hold the same member.
LEMMA SwappingAlike ==
  ASSUME void \in BOOLEAN, NEW s \in Stores, Agrees(void, s), NEW x \in Objects, s[x].built,
         NEW y \in Objects, s[y].built, NEW m \in Members,
         ActiveIn(s, x) = m, ActiveIn(s, y) = m, NEW d, d.result = Crossed(View(s), x, y)
  PROVE  Runs(void, d, When(HasMember(m), Exchange(x, y, m)), s)
<1> DEFINE a1 == Exchange(x, y, m)
           s2 == [s EXCEPT ![x].payload = s[y].payload, ![y].payload = s[x].payload]
<1>1. CASE HasMember(m)
  <2>1. s[x].live = m /\ s[y].live = m /\ x \in Vars /\ y \in Vars /\ Temp \notin Objects
    BY <1>1, Markers DEF Agrees, SlotAgrees, Keeps, HasMember, Vars
  <2>2. a1.do = "swap" /\ a1.obj = x /\ a1.with = y /\ a1.member = m
    BY DEF Exchange
  <2>3. After(s, a1) = s2
    BY <2>2 DEF After
  <2>4. s2 \in Stores
    BY <2>1 DEF Stores, Slots
  <2>5. Good(void, d, s, a1)
    BY <2>1, <2>2, StorageAssumption DEF Good, Faulty
  <2>6. /\ s2[x].payload = s[y].payload /\ s2[y].payload = s[x].payload
        /\ \A z \in Vars : /\ s2[z].built = s[z].built /\ s2[z].live = s[z].live
                           /\ s2[z].m_has_value = s[z].m_has_value
        /\ \A z \in Vars \ {x, y} : s2[z] = s[z]
    BY <2>1 DEF Stores, Slots
  <2> HIDE DEF s2, a1
  <2>7. Exchanged(s, s2, x, y)
    BY <2>1, <2>6 DEF Exchanged, HeldIn, ActiveIn, Agrees, SlotAgrees, Vars
  <2>8. Done(void, d, s2)
    BY <2>4, <2>7, Exchanging
  <2>9. Runs(void, d, <<a1>>, s)
    BY <2>3, <2>4, <2>5, <2>8, One
  <2> QED BY <1>1, <2>9 DEF When, a1
<1>2. CASE ~HasMember(m)
  <2>1. View(s)[x] = View(s)[y]
    BY <1>2 DEF Agrees, SlotAgrees, Keeps, HasMember, View, HeldIn
  <2>2. Done(void, d, s)
    BY <2>1 DEF Done, Crossed, View
  <2> QED BY <1>2, <2>2, NothingLeft DEF When
<1> QED BY <1>1, <1>2

\* Moving from a live member.
LEMMA MovingFrom ==
  ASSUME NEW s \in Stores, NEW y \in Vars, NEW m \in Members, s[y].live = m
  PROVE  /\ Ready(s, m, Move(y, m)) /\ Fetched(s, Move(y, m)) = s[y].payload
         /\ Drained(s, Move(y, m)) = [s EXCEPT ![y].payload = Moved]
<1>1. Move(y, m).from = y /\ Move(y, m).moves /\ y # Absent
  BY Markers DEF Move, Read
<1> QED BY <1>1 DEF Ready, Fetched, Drained

\* Moving a member into storage that holds none.
LEMMA MovingInto ==
  ASSUME NEW s \in Stores, NEW x \in Vars, NEW y \in Vars, NEW m \in Members,
         \A z \in Vars : s[z].payload = Nothing => s[z].live = "none",
         s[x].live = "none", s[y].live = m,
         NEW step, step = Construct(x, m, Move(y, m)) \/ step = Reconstruct(x, m, Move(y, m))
  PROVE  /\ After(s, step) \in Stores /\ \A v, d : Safe(v, d, s) => Good(v, d, s, step)
         /\ "reinit" \notin Throws /\ step.do = "reinit" => \A v, d : Good(v, d, s, step)
         /\ After(s, step)[x].live = m /\ After(s, step)[x].payload = s[y].payload
         /\ After(s, step)[y].live = m /\ After(s, step)[y].payload = Moved
         /\ \A z \in Vars : /\ After(s, step)[z].built = s[z].built
                            /\ After(s, step)[z].m_has_value = s[z].m_has_value
         /\ \A z \in Vars \ {x, y} : After(s, step)[z] = s[z]
<1> DEFINE src == Move(y, m)
<1>1. /\ Ready(s, m, src) /\ Fetched(s, src) = s[y].payload
      /\ Drained(s, src) = [s EXCEPT ![y].payload = Moved]
  BY MovingFrom
<1> HIDE DEF src
<1>2. step = Construct(x, m, src) \/ step = Reconstruct(x, m, src)
  BY DEF src
<1>a. Ready(s, m, src)
  BY <1>1
<1>3. /\ After(s, step) = With(Drained(s, src), x, m, Fetched(s, src))
      /\ After(s, step) \in Stores
  BY <1>a, <1>2, PutInto
<1>4. \A v, d : (step.do \in Throws => Safe(v, d, s)) => Good(v, d, s, step)
  BY <1>1, <1>2, PutInto
<1>5. x # y /\ Drained(s, src) \in Stores
  BY <1>1, Reading DEF Members
<1> QED BY <1>1, <1>3, <1>4, <1>5 DEF With, Stores, Slots

\* swap of expected<void, E>, x without an error and y with one.
LEMMA SwappingMixedVoid ==
  ASSUME void = TRUE, NEW s \in Stores, Agrees(void, s),
         NEW x \in Objects, s[x].built, ActiveIn(s, x) = "value",
         NEW y \in Objects, s[y].built, ActiveIn(s, y) = "error",
         NEW d, View(s) \in d.left, d.result = Crossed(View(s), x, y)
  PROVE  Runs(void, d, SwapMixedVoid(x, y), s)
<1> DEFINE a1 == Construct(x, "error", Move(y, "error"))
           a2 == Destroy(y, "error")
           a3 == Flag(x, FALSE)
           a4 == Flag(y, TRUE)
           s2 == After(s, a1)
           s3 == After(s2, a2)
           s4 == After(s3, a3)
           s5 == After(s4, a4)
<1>0. /\ x \in Vars /\ y \in Vars /\ x # y /\ Temp \notin Objects /\ "error" \in Members
      /\ a1 = Construct(x, "error", Move(y, "error"))
      /\ s[x].live = "none" /\ s[x].payload = Nothing /\ s[y].live = "error" /\ s[y].payload # Nothing
  BY Markers DEF Agrees, SlotAgrees, Keeps, Vars, Members
<1>1. s2 = After(s, a1) /\ s3 = After(s2, a2) /\ s4 = After(s3, a3) /\ s5 = After(s4, a4)
  OBVIOUS
<1>2. SwapMixedVoid(x, y) = <<a1, a2, a3, a4>>
  BY DEF SwapMixedVoid
<1> HIDE DEF a1
<1>3. Safe(void, d, s)
  BY NotYet
<1>4. \A z \in Vars : s[z].payload = Nothing => s[z].live = "none"
  BY Filled
<1>5. /\ s2 \in Stores /\ Good(void, d, s, a1)
      /\ s2[x].live = "error" /\ s2[x].payload = s[y].payload
      /\ s2[y].live = "error" /\ s2[y].payload = Moved
      /\ \A z \in Vars : s2[z].built = s[z].built /\ s2[z].m_has_value = s[z].m_has_value
      /\ \A z \in Vars \ {x, y} : s2[z] = s[z]
  <2>a. Good(void, d, s, a1)
    BY <1>0, <1>3, <1>4, MovingInto
  <2>1. /\ After(s, a1) \in Stores
        /\ After(s, a1)[x].live = "error" /\ After(s, a1)[x].payload = s[y].payload
        /\ After(s, a1)[y].live = "error" /\ After(s, a1)[y].payload = Moved
    BY <1>0, <1>3, <1>4, MovingInto
  <2>2. \A z \in Vars : /\ After(s, a1)[z].built = s[z].built
                        /\ After(s, a1)[z].m_has_value = s[z].m_has_value
    BY <1>0, <1>3, <1>4, MovingInto
  <2>3. \A z \in Vars \ {x, y} : After(s, a1)[z] = s[z]
    BY <1>0, <1>3, <1>4, MovingInto
  <2> QED BY <2>a, <2>1, <2>2, <2>3
<1> HIDE DEF s2
<1>6. s3 = Without(s2, y) /\ s3 \in Stores /\ Good(void, d, s2, a2)
  BY <1>0, <1>5, DestroyLive
<1> HIDE DEF s3, a2
<1>7. s4 = [s3 EXCEPT ![x].m_has_value = FALSE] /\ s4 \in Stores /\ Good(void, d, s3, a3)
  BY <1>6, TurnFlag
<1> HIDE DEF s4, a3
<1>8. s5 = [s4 EXCEPT ![y].m_has_value = TRUE] /\ s5 \in Stores /\ Good(void, d, s4, a4)
  BY <1>7, TurnFlag
<1> HIDE DEF s5, a4
<1>9. /\ s5[x].built /\ ~s5[x].m_has_value /\ s5[x].live = "error" /\ s5[x].payload = s[y].payload
      /\ s5[y].built /\ s5[y].m_has_value /\ s5[y].live = "none" /\ s5[y].payload = Nothing
      /\ \A z \in Vars \ {x, y} : s5[z] = s[z]
  BY <1>0, <1>5, <1>6, <1>7, <1>8 DEF Without, Stores, Slots
<1>10. Exchanged(s, s5, x, y)
  BY <1>0, <1>9 DEF Exchanged, HeldIn, ActiveIn, SlotAgrees, Agrees, Keeps, Vars
<1>11. Done(void, d, s5)
  BY <1>8, <1>10, Exchanging
<1>12. Runs(void, d, <<a1, a2, a3, a4>>, s)
  BY <1>1, <1>5, <1>6, <1>7, <1>8, <1>11, Four
<1> QED BY <1>2, <1>12

\* A moment of a mixed swap: of x and y the flag, the live member and its payload, of
\* the local the latter two; the other objects are as they were.
Stage(s, u, x, y, ax, lx, px, ay, ly, py, lt, pt) ==
  /\ u \in Stores
  /\ u[x].built /\ ActiveIn(u, x) = ax /\ u[x].live = lx /\ u[x].payload = px
  /\ u[y].built /\ ActiveIn(u, y) = ay /\ u[y].live = ly /\ u[y].payload = py
  /\ ~u[Temp].built /\ u[Temp].live = lt /\ u[Temp].payload = pt
  /\ \A z \in Vars \ {x, y, Temp} : u[z] = s[z]

\* At such a moment too a payload is missing only with its member.
LEMMA StageFilled ==
  ASSUME NEW s \in Stores, \A z \in Vars : s[z].payload = Nothing => s[z].live = "none",
         NEW u, NEW x \in Vars, NEW y \in Vars, NEW ax, NEW lx, NEW px, NEW ay, NEW ly, NEW py,
         NEW lt, NEW pt, Stage(s, u, x, y, ax, lx, px, ay, ly, py, lt, pt),
         px = Nothing => lx = "none", py = Nothing => ly = "none", pt = Nothing => lt = "none"
  PROVE  \A z \in Vars : u[z].payload = Nothing => u[z].live = "none"
BY DEF Stage

\* swap of the primary template, x holding the value and y the error: the error waits in
\* the local while the value is moved.
LEMMA SwappingMixed ==
  ASSUME void = FALSE, NEW s \in Stores, Agrees(void, s), "reinit" \notin Throws,
         NEW x \in Objects, s[x].built, ActiveIn(s, x) = "value",
         NEW y \in Objects, s[y].built, ActiveIn(s, y) = "error",
         NEW d, View(s) \in d.left, d.result = Crossed(View(s), x, y)
  PROVE  Runs(void, d, SwapMixed(x, y), s)
<1> DEFINE pv == s[x].payload
           pe == s[y].payload
           pt == s[Temp].payload
           a1 == Construct(Temp, "error", Move(y, "error"))
           a2 == Destroy(y, "error")
           a3 == Reconstruct(y, "value", Move(x, "value"))
           a4 == Flag(y, TRUE)
           a5 == Destroy(x, "value")
           a6 == Reconstruct(x, "error", Move(Temp, "error"))
           a7 == Flag(x, FALSE)
           a8 == Destroy(Temp, "error")
           s2 == After(s, a1)
           s3 == After(s2, a2)
           s4 == After(s3, a3)
           s5 == After(s4, a4)
           s6 == After(s5, a5)
           s7 == After(s6, a6)
           s8 == After(s7, a7)
           s9 == After(s8, a8)
<1>1. /\ x \in Vars /\ y \in Vars /\ Temp \in Vars /\ x # y /\ x # Temp /\ y # Temp
      /\ "error" \in Members /\ "value" \in Members /\ Moved # Nothing
  BY Markers DEF Vars, Members
<1>2. /\ s[x].live = "value" /\ pv # Nothing /\ s[y].live = "error" /\ pe # Nothing
      /\ s[Temp].live = "none" /\ ~s[Temp].built
  BY DEF Agrees, SlotAgrees, Keeps
<1>3. \A z \in Vars : s[z].payload = Nothing => s[z].live = "none"
  BY Filled
<1>4. Safe(void, d, s)
  BY NotYet
<1>5. SwapMixed(x, y) = <<a1, a2, a3, a4, a5, a6, a7, a8>>
  <2>1. /\ Reinit(y, "value", Move(x, "value")) = <<a2, a3, a4>>
        /\ Reinit(x, "error", Move(Temp, "error")) = <<a5, a6, a7>>
    BY DEF Reinit, Other
  <2>2. SwapMixed(x, y) = <<a1>> \o <<a2, a3, a4>> \o <<a5, a6, a7>> \o <<a8>>
    BY <2>1 DEF SwapMixed
  <2> HIDE DEF a1, a2, a3, a4, a5, a6, a7, a8
  <2>3. <<a1>> \o <<a2, a3, a4>> = <<a1, a2, a3, a4>>
    BY Join13
  <2>4. <<a1, a2, a3, a4>> \o <<a5, a6, a7>> = <<a1, a2, a3, a4, a5, a6, a7>>
    BY Join43
  <2>5. <<a1, a2, a3, a4, a5, a6, a7>> \o <<a8>> = <<a1, a2, a3, a4, a5, a6, a7, a8>>
    BY Join71
  <2> QED BY <2>2, <2>3, <2>4, <2>5, Zenon
<1>6. /\ s2 = After(s, a1) /\ s3 = After(s2, a2) /\ s4 = After(s3, a3) /\ s5 = After(s4, a4)
      /\ s6 = After(s5, a5) /\ s7 = After(s6, a6) /\ s8 = After(s7, a7) /\ s9 = After(s8, a8)
  OBVIOUS
<1>a. /\ a3 = Reconstruct(y, "value", Move(x, "value")) /\ a3.do = "reinit"
      /\ a6 = Reconstruct(x, "error", Move(Temp, "error")) /\ a6.do = "reinit"
      /\ a1 = Construct(Temp, "error", Move(y, "error"))
  BY DEF Reconstruct
<1> HIDE DEF pv, pe, pt, s2, s3, s4, s5, s6, s7, s8, s9, a1, a2, a3, a4, a5, a6, a7, a8
<1>7. /\ Good(void, d, s, a1)
      /\ Stage(s, s2, x, y, "value", "value", pv, "error", "error", Moved, "error", pe)
  <2>1. a1 = Construct(Temp, "error", Move(y, "error")) /\ s2 = After(s, a1)
    BY <1>a, <1>6
  <2>2. Good(void, d, s, a1)
    BY <1>1, <1>2, <1>3, <1>4, <2>1, MovingInto
  <2>3. /\ s2 \in Stores
        /\ s2[Temp].live = "error" /\ s2[Temp].payload = s[y].payload
        /\ s2[y].live = "error" /\ s2[y].payload = Moved
    BY <1>1, <1>2, <1>3, <2>1, MovingInto
  <2>4. \A z \in Vars : s2[z].built = s[z].built /\ s2[z].m_has_value = s[z].m_has_value
    BY <1>1, <1>2, <1>3, <2>1, MovingInto
  <2>5. \A z \in Vars \ {Temp, y} : s2[z] = s[z]
    BY <1>1, <1>2, <1>3, <2>1, MovingInto
  <2> QED BY <1>1, <1>2, <2>2, <2>3, <2>4, <2>5 DEF Stage, ActiveIn, pv, pe
<1>8. /\ Good(void, d, s2, a2)
      /\ Stage(s, s3, x, y, "value", "value", pv, "error", "none", Nothing, "error", pe)
  <2>1. s3 = Without(s2, y) /\ s3 \in Stores /\ Good(void, d, s2, a2)
    <3>1. s2 \in Stores /\ s2[y].live = "error"
      BY <1>7 DEF Stage
    <3> QED BY <1>1, <1>6, <3>1, DestroyLive DEF a2
  <2> QED BY <1>1, <1>7, <2>1 DEF Stage, ActiveIn, Without, Stores, Slots
<1>9. /\ Good(void, d, s3, a3)
      /\ Stage(s, s4, x, y, "value", "value", Moved, "error", "value", pv, "error", pe)
  <2>1. a3 = Reconstruct(y, "value", Move(x, "value")) /\ a3.do = "reinit" /\ s4 = After(s3, a3)
    BY <1>a, <1>6
  <2>2. \A z \in Vars : s3[z].payload = Nothing => s3[z].live = "none"
    BY <1>1, <1>2, <1>3, <1>8, StageFilled
  <2>3. s3 \in Stores /\ s3[y].live = "none" /\ s3[x].live = "value" /\ s3[x].payload = pv
    BY <1>8 DEF Stage
  <2>4. Good(void, d, s3, a3)
    BY <1>1, <2>1, <2>2, <2>3, MovingInto
  <2>5. /\ s4 \in Stores
        /\ s4[y].live = "value" /\ s4[y].payload = s3[x].payload
        /\ s4[x].live = "value" /\ s4[x].payload = Moved
    BY <1>1, <2>1, <2>2, <2>3, MovingInto
  <2>6. \A z \in Vars : s4[z].built = s3[z].built /\ s4[z].m_has_value = s3[z].m_has_value
    BY <1>1, <2>1, <2>2, <2>3, MovingInto
  <2>7. \A z \in Vars \ {y, x} : s4[z] = s3[z]
    BY <1>1, <2>1, <2>2, <2>3, MovingInto
  <2> QED BY <1>1, <1>8, <2>3, <2>4, <2>5, <2>6, <2>7 DEF Stage, ActiveIn
<1>10. /\ Good(void, d, s4, a4)
       /\ Stage(s, s5, x, y, "value", "value", Moved, "value", "value", pv, "error", pe)
  <2>1. s5 = [s4 EXCEPT ![y].m_has_value = TRUE] /\ s5 \in Stores /\ Good(void, d, s4, a4)
    <3>1. s4 \in Stores
      BY <1>9 DEF Stage
    <3> QED BY <1>6, <3>1, TurnFlag DEF a4
  <2> QED BY <1>1, <1>9, <2>1 DEF Stage, ActiveIn, Stores, Slots
<1>11. /\ Good(void, d, s5, a5)
       /\ Stage(s, s6, x, y, "value", "none", Nothing, "value", "value", pv, "error", pe)
  <2>1. s6 = Without(s5, x) /\ s6 \in Stores /\ Good(void, d, s5, a5)
    <3>1. s5 \in Stores /\ s5[x].live = "value"
      BY <1>10 DEF Stage
    <3> QED BY <1>1, <1>6, <3>1, DestroyLive DEF a5
  <2> QED BY <1>1, <1>10, <2>1 DEF Stage, ActiveIn, Without, Stores, Slots
<1>12. /\ Good(void, d, s6, a6)
       /\ Stage(s, s7, x, y, "value", "error", pe, "value", "value", pv, "error", Moved)
  <2>1. a6 = Reconstruct(x, "error", Move(Temp, "error")) /\ a6.do = "reinit" /\ s7 = After(s6, a6)
    BY <1>a, <1>6
  <2>2. \A z \in Vars : s6[z].payload = Nothing => s6[z].live = "none"
    BY <1>1, <1>2, <1>3, <1>11, StageFilled
  <2>3. s6 \in Stores /\ s6[x].live = "none" /\ s6[Temp].live = "error" /\ s6[Temp].payload = pe
    BY <1>11 DEF Stage
  <2>4. Good(void, d, s6, a6)
    BY <1>1, <2>1, <2>2, <2>3, MovingInto
  <2>5. /\ s7 \in Stores
        /\ s7[x].live = "error" /\ s7[x].payload = s6[Temp].payload
        /\ s7[Temp].live = "error" /\ s7[Temp].payload = Moved
    BY <1>1, <2>1, <2>2, <2>3, MovingInto
  <2>6. \A z \in Vars : s7[z].built = s6[z].built /\ s7[z].m_has_value = s6[z].m_has_value
    BY <1>1, <2>1, <2>2, <2>3, MovingInto
  <2>7. \A z \in Vars \ {x, Temp} : s7[z] = s6[z]
    BY <1>1, <2>1, <2>2, <2>3, MovingInto
  <2> QED BY <1>1, <1>11, <2>3, <2>4, <2>5, <2>6, <2>7 DEF Stage, ActiveIn
<1>13. /\ Good(void, d, s7, a7)
       /\ Stage(s, s8, x, y, "error", "error", pe, "value", "value", pv, "error", Moved)
  <2>1. s8 = [s7 EXCEPT ![x].m_has_value = FALSE] /\ s8 \in Stores /\ Good(void, d, s7, a7)
    <3>1. s7 \in Stores
      BY <1>12 DEF Stage
    <3> QED BY <1>6, <3>1, TurnFlag DEF a7
  <2> QED BY <1>1, <1>12, <2>1 DEF Stage, ActiveIn, Stores, Slots
<1>14. /\ Good(void, d, s8, a8)
       /\ Stage(s, s9, x, y, "error", "error", pe, "value", "value", pv, "none", Nothing)
  <2>1. s9 = Without(s8, Temp) /\ s9 \in Stores /\ Good(void, d, s8, a8)
    <3>1. s8 \in Stores /\ s8[Temp].live = "error"
      BY <1>13 DEF Stage
    <3> QED BY <1>1, <1>6, <3>1, DestroyLive DEF a8
  <2> QED BY <1>1, <1>13, <2>1 DEF Stage, ActiveIn, Without, Stores, Slots
<1>15. Exchanged(s, s9, x, y)
  <2>1. HeldIn(s9, x) = HeldIn(s, y) /\ HeldIn(s9, y) = HeldIn(s, x)
    BY <1>14 DEF Stage, HeldIn, pv, pe
  <2>2. SlotAgrees(void, s9, x) /\ SlotAgrees(void, s9, y)
    BY <1>2, <1>14 DEF Stage, SlotAgrees, Keeps
  <2> QED BY <1>1, <1>14, <2>1, <2>2, Markers DEF Exchanged, Stage, Vars
<1>16. Done(void, d, s9)
  BY <1>14, <1>15, Exchanging DEF Stage
<1>17. /\ s2 \in Stores /\ s3 \in Stores /\ s4 \in Stores /\ s5 \in Stores /\ s6 \in Stores
       /\ s7 \in Stores /\ s8 \in Stores /\ s9 \in Stores
  BY <1>7, <1>8, <1>9, <1>10, <1>11, <1>12, <1>13, <1>14 DEF Stage
<1>18. Runs(void, d, <<a1, a2, a3, a4, a5, a6, a7, a8>>, s)
  BY <1>6, <1>7, <1>8, <1>9, <1>10, <1>11, <1>12, <1>13, <1>14, <1>16, <1>17, Eight
<1> QED BY <1>5, <1>18

\* Construction from an argument or from what another object holds.
LEMMA ConstructingFrom ==
  ASSUME void \in BOOLEAN, NEW s \in Stores, Agrees(void, s),
         NEW z \in Objects, ~s[z].built, NEW m \in Members, NEW src, Given(void, s, m, src),
         NEW d, View(s) \in d.left, d.result = PutBy(View(s), z, m, src)
  PROVE  Runs(void, d, Constructed(z, m, src), s)
<1>0. /\ Keeps(void, m) => From(s, m, src)
      /\ ~Keeps(void, m) => d.result = [View(s) EXCEPT ![z] = Unit]
  BY Reads
<1>1. Keeps(void, m) => Ready(s, m, src)
  BY <1>0, FromIsReady
<1>2. s[z].live = "none" /\ s[z].payload = Nothing
  BY DEF Agrees, SlotAgrees
<1>3. ASSUME NEW u \in Stores, Waits(s, u, z)
      PROVE  Safe(void, d, u)
  <2>1. \A x \in Objects : u[x] = s[x] \/ (/\ ~s[x].built /\ ~u[x].built
                                           /\ u[x].live = s[x].live /\ u[x].payload = s[x].payload)
    BY <1>2, <1>3 DEF Waits, Vars
  <2> QED BY <2>1, NotYet
<1>4. ASSUME NEW u \in Stores, Keeps(void, m), Holds(s, u, z, m, src)
      PROVE  Done(void, d, u)
  BY <1>0, <1>4, Putting
<1>5. ASSUME NEW u \in Stores, ~Keeps(void, m), HoldsVoid(s, u, z)
      PROVE  Done(void, d, u)
  BY <1>0, <1>5, PuttingVoid DEF Keeps
<1> QED BY <1>1, <1>3, <1>4, <1>5, Constructing

\* A constructor's program after another step.
LEMMA ThenConstructed ==
  ASSUME NEW a, NEW z, NEW m, NEW src
  PROVE  LET q == Constructed(z, m, src)
         IN  /\ << >> \o q = q
             /\ <<a>> \o q # << >> /\ Head(<<a>> \o q) = a /\ Tail(<<a>> \o q) = q
<1> DEFINE a1 == Flag(z, m = "value")
           a2 == Construct(z, m, src)
           a3 == Built(z, TRUE)
           w == When(HasMember(m), a2)
           q == Constructed(z, m, src)
<1>1. q = <<a1>> \o w \o <<a3>>
  BY DEF Constructed
<1>2. w = << >> \/ w = <<a2>>
  BY DEF When
<1> HIDE DEF a1, a2, a3, w, q
<1>3. q = <<a1, a3>> \/ q = <<a1, a2, a3>>
  BY <1>1, <1>2, JoinThree
<1>4. CASE q = <<a1, a3>>
  <2>1. <<a>> \o <<a1, a3>> = <<a, a1, a3>>
    BY Join12
  <2>2. <<a, a1, a3>> # << >> /\ Head(<<a, a1, a3>>) = a /\ Tail(<<a, a1, a3>>) = <<a1, a3>>
    OBVIOUS
  <2>3. << >> \o <<a1, a3>> = <<a1, a3>>
    <3>1. <<a1, a3>> \in Seq({a1, a3})
      OBVIOUS
    <3> QED BY <3>1, ConcatEmptySeq
  <2>4. /\ << >> \o q = q
        /\ <<a>> \o q # << >> /\ Head(<<a>> \o q) = a /\ Tail(<<a>> \o q) = q
    BY <1>4, <2>1, <2>2, <2>3
  <2> QED BY <2>4 DEF q
<1>5. CASE q = <<a1, a2, a3>>
  <2>1. <<a>> \o <<a1, a2, a3>> = <<a, a1, a2, a3>>
    BY Join13
  <2>2. /\ <<a, a1, a2, a3>> # << >> /\ Head(<<a, a1, a2, a3>>) = a
        /\ Tail(<<a, a1, a2, a3>>) = <<a1, a2, a3>>
    OBVIOUS
  <2>3. << >> \o <<a1, a2, a3>> = <<a1, a2, a3>>
    <3>1. <<a1, a2, a3>> \in Seq({a1, a2, a3})
      OBVIOUS
    <3> QED BY <3>1, ConcatEmptySeq
  <2>4. /\ << >> \o q = q
        /\ <<a>> \o q # << >> /\ Head(<<a>> \o q) = a /\ Tail(<<a>> \o q) = q
    BY <1>5, <2>1, <2>2, <2>3
  <2> QED BY <2>4 DEF q
<1> QED BY <1>3, <1>4, <1>5

\* A monadic operation whose function takes the member of x by moving it.
LEMMA Applying ==
  ASSUME void \in BOOLEAN, NEW s \in Stores, Agrees(void, s),
         NEW x \in Objects, s[x].built, NEW on \in Members, ActiveIn(s, x) = on, Keeps(void, on),
         NEW z \in Objects, ~s[z].built, NEW c \in Contents(void),
         NEW d, View(s) \in d.left, Sum!TakenFrom(View(s), x, TRUE) \in d.left,
         d.result = Sum!TakenFrom([View(s) EXCEPT ![z] = c], x, TRUE)
  PROVE  Runs(void, d,
              <<Set(x, on, Move(x, on))>> \o Constructed(z, c.is, Arg(c.payload)), s)
<1> DEFINE b == View(s)
           a1 == Set(x, on, Move(x, on))
           t == [s EXCEPT ![x].payload = Moved]
           m == c.is
           src == Arg(c.payload)
           q == Constructed(z, m, src)
           rest == [b EXCEPT ![x] = Sum!MovedOut(b[x])]
           chained == [b EXCEPT ![z] = c, ![x] = Sum!MovedOut(b[x])]
<1>0. /\ x \in Vars /\ z \in Vars /\ x # z /\ x # Absent /\ z # Absent /\ Temp \notin Objects
      /\ Moved # Nothing
  BY Markers DEF Vars
<1>1. s[x].live = on /\ s[x].payload # Nothing /\ on # "none"
  BY DEF Agrees, SlotAgrees, Members
<1>2. \A y \in Vars : s[y].payload = Nothing => s[y].live = "none"
  BY Filled
<1>3. /\ After(s, a1) = t /\ t \in Stores /\ Good(void, d, s, a1)
  <2>1. Ready(s, on, Move(x, on)) /\ Drained(s, Move(x, on)) = t
    BY <1>0, <1>1, MovingFrom
  <2>2. Move(x, on).from = x
    BY DEF Move, Read
  <2>3. Safe(void, d, s)
    BY NotYet
  <2>4. After(s, a1) = Assigning(s, x, Move(x, on)) /\ After(s, a1) \in Stores /\ Good(void, d, s, a1)
    <3>1. Ready(s, on, Move(x, on))
      BY <2>1
    <3> HIDE DEF b
    <3> QED BY <1>1, <1>2, <2>3, <3>1, SetLive
  <2>5. Assigning(s, x, Move(x, on)) = t
    BY <2>1, <2>2 DEF Assigning
  <2> QED BY <2>4, <2>5
<1>4. /\ t[x].payload = Moved /\ t[x].live = on /\ t[x].built /\ ActiveIn(t, x) = on
      /\ \A y \in Vars \ {x} : t[y] = s[y]
  BY <1>0, <1>1 DEF Stores, Slots, ActiveIn
<1> HIDE DEF t
<1>5. Agrees(void, t)
  BY <1>0, <1>1, <1>4 DEF Agrees, SlotAgrees, ActiveIn, Vars
<1>6. /\ b[x] = [is |-> on, payload |-> s[x].payload]
      /\ Sum!MovedOut(b[x]) = [is |-> on, payload |-> Moved]
  <2>1. b[x] = [is |-> on, payload |-> s[x].payload]
    BY DEF View, HeldIn
  <2> QED BY <1>1, <2>1 DEF Sum!MovedOut
<1>a. rest \in d.left /\ d.result = chained
  <2>1. Sum!TakenFrom(b, x, TRUE) = rest
    BY DEF Sum!TakenFrom
  <2>2. Sum!TakenFrom([b EXCEPT ![z] = c], x, TRUE) = chained
    BY <1>0 DEF Sum!TakenFrom, View
  <2> QED BY <2>1, <2>2
<1>7. HeldIn(t, x) = Sum!MovedOut(b[x]) /\ \A y \in Objects \ {x} : HeldIn(t, y) = b[y]
  BY <1>0, <1>4, <1>6 DEF HeldIn, View, ActiveIn, Vars
<1>8. m \in Members /\ (Keeps(void, m) => c.payload \in Payloads) /\ c = [is |-> m, payload |-> c.payload]
  BY DEF Contents, Members, Keeps
<1>9. Keeps(void, m) => Ready(t, m, src)
  BY <1>8 DEF Ready
<1>10. ~t[z].built /\ t[z].live = "none" /\ t[z].payload = Nothing
  BY <1>0, <1>4 DEF Agrees, SlotAgrees
<1>11. ASSUME NEW u \in Stores, Waits(t, u, z)
       PROVE  Safe(void, d, u)
  <2> DEFINE w == [u EXCEPT ![Temp] = Raw]
  <2>1. /\ \A y \in Objects : w[y] = u[y]
        /\ w[Temp] = Raw
    BY <1>0 DEF Stores, Vars
  <2> HIDE DEF w
  <2>2. Agrees(void, w)
    BY <1>5, <1>10, <1>11, <2>1 DEF Agrees, SlotAgrees, ActiveIn, Raw, Waits, Vars
  <2>3. \A y \in Objects : HeldIn(w, y) = HeldIn(t, y)
    BY <1>10, <1>11, <2>1 DEF HeldIn, ActiveIn, Waits, Vars
  <2>4. View(w) = rest
    <3>1. View(w) = [y \in Objects |-> HeldIn(t, y)]
      BY <2>3 DEF View
    <3>2. DOMAIN b = Objects /\ b = [y \in Objects |-> b[y]]
      BY DEF View
    <3> HIDE DEF b
    <3> QED BY <1>7, <3>1, <3>2
  <2> HIDE DEF rest
  <2> QED BY <1>a, <2>2, <2>4 DEF Safe, w
<1>12. ASSUME NEW u \in Stores, HeldIn(u, z) = c, SlotAgrees(void, u, z),
              \A y \in Vars \ {z} : u[y] = t[y]
       PROVE  Done(void, d, u)
  <2>1. Agrees(void, u)
    BY <1>0, <1>5, <1>12 DEF Agrees, SlotAgrees, ActiveIn, Vars
  <2>2. View(u) = chained
    <3>1. HeldIn(u, x) = Sum!MovedOut(b[x]) /\ \A y \in Objects \ {x, z} : HeldIn(u, y) = b[y]
      <4>1. \A y \in Objects \ {z} : HeldIn(u, y) = HeldIn(t, y)
        BY <1>12 DEF HeldIn, ActiveIn, Vars
      <4> QED BY <1>0, <1>7, <4>1
    <3>2. DOMAIN b = Objects /\ b = [y \in Objects |-> b[y]]
      BY DEF View
    <3> HIDE DEF b
    <3> QED BY <1>0, <1>12, <3>1, <3>2 DEF View
  <2> QED BY <1>a, <2>1, <2>2 DEF Done
<1>13. ASSUME NEW u \in Stores, Keeps(void, m), Holds(t, u, z, m, src)
       PROVE  Done(void, d, u)
  <2>1. src.from = Absent /\ Fetched(t, src) = c.payload /\ Drained(t, src) = t
    BY DEF Arg, Fetched, Drained
  <2>2. /\ u[z].built /\ (u[z].m_has_value <=> m = "value") /\ u[z].live = m
        /\ u[z].payload = c.payload /\ \A y \in Vars \ {z} : u[y] = t[y]
    BY <1>0, <1>13, <2>1 DEF Holds
  <2>3. ActiveIn(u, z) = m
    BY <1>8, <2>2 DEF ActiveIn, Members
  <2>4. HeldIn(u, z) = c
    BY <1>8, <2>2, <2>3 DEF HeldIn
  <2>5. SlotAgrees(void, u, z)
    BY <1>8, <1>13, <2>2, <2>3, Markers DEF SlotAgrees, Members
  <2> QED BY <1>12, <2>2, <2>4, <2>5
<1>14. ASSUME NEW u \in Stores, ~Keeps(void, m), HoldsVoid(t, u, z)
       PROVE  Done(void, d, u)
  <2>1. c = [is |-> "value", payload |-> Nothing]
    BY <1>14 DEF Contents, Keeps
  <2>2. HeldIn(u, z) = c
    BY <1>14, <2>1 DEF HeldIn, HoldsVoid, ActiveIn
  <2>3. SlotAgrees(void, u, z)
    BY <1>14 DEF SlotAgrees, HoldsVoid, Keeps, ActiveIn
  <2>4. \A y \in Vars \ {z} : u[y] = t[y]
    BY <1>14 DEF HoldsVoid
  <2> QED BY <1>12, <2>2, <2>3, <2>4
<1> HIDE DEF src, m, b
<1>15. Runs(void, d, q, t)
  BY <1>3, <1>5, <1>8, <1>9, <1>10, <1>11, <1>13, <1>14, Constructing
<1> HIDE DEF a1
<1>16. <<a1>> \o q # << >> /\ Head(<<a1>> \o q) = a1 /\ Tail(<<a1>> \o q) = q
  BY ThenConstructed
<1> HIDE DEF q
<1>17. Runs(void, d, <<a1>> \o q, s)
  BY <1>3, <1>15, <1>16, OneStep
<1> QED BY <1>17 DEF a1, q, b, m, src

(***************************************************************************)
(* What the calls ask for.                                                 *)
(***************************************************************************)
Due(r, b) == [result |-> Sum!Promised(r, b), left |-> Sum!Left(r, b)]

\* A new content of one object.
LEMMA DueTo ==
  ASSUME NEW b, NEW x, NEW c, NEW r, r \in {[op |-> "construct", obj |-> x, to |-> c],
                                            [op |-> "assign", obj |-> x, to |-> c]}
  PROVE  Due(r, b).result = [b EXCEPT ![x] = c] /\ b \in Due(r, b).left
<1>1. r.op \in {"construct", "assign"} /\ r.obj = x /\ r.to = c
  OBVIOUS
<1> QED BY <1>1 DEF Due, Sum!Promised, Sum!Left

\* emplace, which does not throw.
LEMMA DueEmplaced ==
  ASSUME NEW b, NEW x, NEW c
  PROVE  Due([op |-> "emplace", obj |-> x, to |-> c], b).result = [b EXCEPT ![x] = c]
<1> DEFINE r == [op |-> "emplace", obj |-> x, to |-> c]
<1>1. r.op = "emplace" /\ r.obj = x /\ r.to = c
  OBVIOUS
<1> HIDE DEF r
<1>2. Due(r, b).result = [b EXCEPT ![x] = c]
  BY <1>1 DEF Due, Sum!Promised
<1> QED BY <1>2 DEF r

\* The content of another object.
LEMMA DueFrom ==
  ASSUME NEW b, NEW x, NEW y, NEW moves,
         NEW r, r \in {[op |-> "construct_from", obj |-> x, from |-> y, moves |-> moves],
                       [op |-> "assign_from", obj |-> x, from |-> y, moves |-> moves]}
  PROVE  /\ Due(r, b).result = Sum!TakenFrom([b EXCEPT ![x] = b[y]], y, moves)
         /\ b \in Due(r, b).left
<1>1. /\ r.op \in {"construct_from", "assign_from"}
      /\ r.obj = x /\ r.from = y /\ r.moves = moves
  OBVIOUS
<1> QED BY <1>1 DEF Due, Sum!Promised, Sum!Left

\* An exchange.
LEMMA DueSwapped ==
  ASSUME NEW b, NEW x, NEW y
  PROVE  LET r == [op |-> "swap", obj |-> x, with |-> y]
         IN  Due(r, b).result = Crossed(b, x, y) /\ b \in Due(r, b).left
<1> DEFINE r == [op |-> "swap", obj |-> x, with |-> y]
<1>1. r.op = "swap" /\ r.obj = x /\ r.with = y
  OBVIOUS
<1> HIDE DEF r
<1>2. Due(r, b).result = Crossed(b, x, y) /\ b \in Due(r, b).left
  BY <1>1 DEF Due, Sum!Promised, Sum!Left, Crossed
<1> QED BY <1>2 DEF r

\* The end of an object, which does not throw.
LEMMA DueDestroyed ==
  ASSUME NEW b, NEW x
  PROVE  Due([op |-> "destroy", obj |-> x], b).result = [b EXCEPT ![x] = Absent]
<1> DEFINE r == [op |-> "destroy", obj |-> x]
<1>1. r.op = "destroy" /\ r.obj = x
  OBVIOUS
<1> HIDE DEF r
<1>2. Due(r, b).result = [b EXCEPT ![x] = Absent]
  BY <1>1 DEF Due, Sum!Promised
<1> QED BY <1>2 DEF r

\* What a function makes of the member it is called on, or the other member.
LEMMA DueChained ==
  ASSUME NEW b, NEW z, NEW x, NEW on, NEW c, NEW moves
  PROVE  LET r == [op |-> "chain", obj |-> z, from |-> x, on |-> on, gives |-> c, moves |-> moves]
         IN  /\ Due(r, b).result =
                  Sum!TakenFrom([b EXCEPT ![z] = IF b[x].is = on THEN c ELSE b[x]], x, moves)
             /\ b \in Due(r, b).left
             /\ Sum!TakenFrom(b, x, moves /\ b[x].is = on) \in Due(r, b).left
<1> DEFINE r == [op |-> "chain", obj |-> z, from |-> x, on |-> on, gives |-> c, moves |-> moves]
<1>1. /\ r.op = "chain" /\ r.obj = z /\ r.from = x /\ r.on = on /\ r.gives = c
      /\ r.moves = moves
  OBVIOUS
<1> HIDE DEF r
<1>2. Due(r, b).result =
        Sum!TakenFrom([b EXCEPT ![z] = IF b[x].is = on THEN c ELSE b[x]], x, moves)
  BY <1>1 DEF Due, Sum!Promised
<1>3. b \in Due(r, b).left /\ Sum!TakenFrom(b, x, moves /\ b[x].is = on) \in Due(r, b).left
  BY <1>1 DEF Due, Sum!Left
<1> QED BY <1>2, <1>3 DEF r

(***************************************************************************)
(* The invariant.                                                          *)
(***************************************************************************)
NoThrowOnReplace == "reinit" \notin Throws

Inv ==
  /\ void \in BOOLEAN /\ store \in Stores /\ ~fault /\ before = [x \in Objects |-> before[x]]
  /\ answer # "pending" => todo = << >> /\ Agrees(void, store)
  /\ answer = "pending" => Runs(void, Due(asked, before), todo, store)

\* The names of Expected, said of the storage.
LEMMA Names ==
  /\ \A x : Active(x) = ActiveIn(store, x) /\ Held(x) = HeldIn(store, x) /\ Active(x) \in Members
  /\ \A m : HasMember(m) = Keeps(void, m)
  /\ Values \cup Errors = Contents(void)
  /\ [x \in Objects |-> Held(x)] = View(store)
<1>1. \A x : Active(x) = ActiveIn(store, x) /\ Active(x) \in Members
  BY DEF Active, ActiveIn, Members
<1>2. \A x : Held(x) = HeldIn(store, x)
  BY <1>1 DEF Held, HeldIn
<1>3. \A m : HasMember(m) = Keeps(void, m)
  BY DEF HasMember, Keeps
<1>4. Values \cup Errors = Contents(void)
  BY DEF Values, Errors, Contents
<1>5. [x \in Objects |-> Held(x)] = View(store)
  BY <1>2 DEF View
<1> QED BY <1>1, <1>2, <1>3, <1>4, <1>5

\* What an object holds can be put into another.
LEMMA SourceFrom ==
  ASSUME NEW y \in Present, NEW moves \in BOOLEAN
  PROVE  LET src == Read(y, Active(y), moves)
         IN  /\ Given(void, store, Active(y), src)
             /\ \A b, x : PutBy(b, x, Active(y), src) =
                            Sum!TakenFrom([b EXCEPT ![x] = b[y]], y, moves)
<1> DEFINE m == Active(y)
           src == Read(y, m, moves)
<1>1. y \in Objects /\ store[y].built /\ ActiveIn(store, y) = m /\ y # Absent
  BY Names, Markers DEF Present, Vars
<1>2. src \in {Copy(y, m), Move(y, m)}
  BY DEF Copy, Move
<1>3. src.from = y /\ src.moves = moves
  BY DEF Read
<1> HIDE DEF m, src
<1>4. Given(void, store, m, src)
  BY <1>1, <1>2 DEF Given
<1>5. \A b, x : PutBy(b, x, m, src) = Sum!TakenFrom([b EXCEPT ![x] = b[y]], y, moves)
  BY <1>1, <1>3 DEF PutBy
<1> QED BY <1>4, <1>5 DEF m, src

\* So can an argument.
LEMMA SourceTo ==
  ASSUME NEW c \in Values \cup Errors
  PROVE  /\ c.is \in Members /\ c \in Contents(void) /\ Given(void, store, c.is, Arg(c.payload))
         /\ \A b, x : PutBy(b, x, c.is, Arg(c.payload)) = [b EXCEPT ![x] = c]
<1>1. c.is \in Members /\ c = [is |-> c.is, payload |-> c.payload]
  BY DEF Values, Errors, Members
<1>2. c \in Contents(void)
  BY Names
<1>3. Given(void, store, c.is, Arg(c.payload))
  BY <1>1, <1>2 DEF Given
<1>4. \A b, x : PutBy(b, x, c.is, Arg(c.payload)) = [b EXCEPT ![x] = c]
  BY <1>1 DEF PutBy, Arg
<1> QED BY <1>1, <1>2, <1>3, <1>4

\* Assignment, of either template.
LEMMA AssignmentRuns ==
  ASSUME NoThrowOnReplace, void \in BOOLEAN, store \in Stores, Agrees(void, store),
         NEW x \in Present, NEW m \in Members, NEW src, Given(void, store, m, src),
         NEW d, View(store) \in d.left, d.result = PutBy(View(store), x, m, src)
  PROVE  Runs(void, d, Assigned(x, m, src), store)
<1>1. x \in Objects /\ store[x].built
  BY DEF Present
<1>2. CASE void
  <2>1. Assigned(x, m, src) = AssignVoid(x, m, src)
    BY <1>2 DEF Assigned
  <2>2. Runs(void, d,
             When(ActiveIn(store, x) = "value" /\ m = "error", Construct(x, "error", src))
               \o When(ActiveIn(store, x) = "error" /\ m = "value", Destroy(x, "error"))
               \o When(ActiveIn(store, x) = "error" /\ m = "error", Set(x, "error", src))
               \o <<Flag(x, m = "value")>>, store)
    BY <1>1, <1>2, AssigningVoid
  <2>3. Active(x) = ActiveIn(store, x)
    BY Names
  <2>4. Runs(void, d, AssignVoid(x, m, src), store)
    BY <2>2, <2>3 DEF AssignVoid
  <2> QED BY <2>1, <2>4
<1>3. CASE ~void
  <2>1. Keeps(void, m) /\ From(store, m, src) /\ void = FALSE
    <3>1. Keeps(void, m)
      BY <1>3 DEF Keeps
    <3> QED BY <1>1, <1>3, <3>1, Reads
  <2>2. CASE ActiveIn(store, x) = m
    <3>1. Assigned(x, m, src) = <<Set(x, m, src)>>
      BY <1>3, <2>2, Names DEF Assigned, AssignPrimary
    <3>2. /\ Good(void, d, store, Set(x, m, src))
          /\ After(store, Set(x, m, src)) \in Stores
          /\ Holds(store, After(store, Set(x, m, src)), x, m, src)
      BY <1>1, <2>1, <2>2, Setting
    <3>3. Done(void, d, After(store, Set(x, m, src)))
      BY <1>1, <2>1, <3>2, Putting
    <3>4. Runs(void, d, <<Set(x, m, src)>>, store)
      BY <3>2, <3>3, One
    <3> QED BY <3>1, <3>4
  <2>3. CASE ActiveIn(store, x) # m
    <3>1. Assigned(x, m, src) = Reinit(x, m, src)
      BY <1>3, <2>3, Names DEF Assigned, AssignPrimary
    <3>2. Runs(void, d, Reinit(x, m, src), store)
      BY <1>1, <2>1, <2>3, Reiniting DEF NoThrowOnReplace
    <3> QED BY <3>1, <3>2
  <2> QED BY <2>2, <2>3
<1> QED BY <1>2, <1>3

\* Every operation there is.
Operation ==
  \/ New \/ NewFrom \/ Destroyed \/ Assign \/ AssignFrom \/ Emplace \/ Swap
  \/ AndThen \/ OrElse \/ Transform \/ TransformError

\* A call starts a program that runs well, towards what the call asks for.
Starting == \E r, p : Begin(r, p) /\ Runs(void, Due(r, View(store)), p, store)

\* A monadic operation does.
LEMMA MonadicStarts ==
  ASSUME NoThrowOnReplace, Inv, answer # "pending", NEW on \in Members,
         NEW gives \in SUBSET (Values \cup Errors), Monadic(on, gives)
  PROVE  Starting
<1> DEFINE b == View(store)
<1>1. void \in BOOLEAN /\ store \in Stores /\ Agrees(void, store)
  BY DEF Inv
<1>2. PICK z \in Objects \ Present, x \in Present, c \in gives, moves \in BOOLEAN :
        Begin([op |-> "chain", obj |-> z, from |-> x, on |-> on, gives |-> c, moves |-> moves],
              IF Active(x) = on
              THEN When(moves /\ HasMember(on), Set(x, on, Move(x, on)))
                     \o Constructed(z, c.is, Arg(c.payload))
              ELSE Constructed(z, Active(x), Read(x, Active(x), moves)))
  BY DEF Monadic
<1> DEFINE r == [op |-> "chain", obj |-> z, from |-> x, on |-> on, gives |-> c, moves |-> moves]
           d == Due(r, b)
           q == Constructed(z, c.is, Arg(c.payload))
           w == When(moves /\ HasMember(on), Set(x, on, Move(x, on)))
           q2 == Constructed(z, Active(x), Read(x, Active(x), moves))
<1>3. z \in Objects /\ ~store[z].built /\ x \in Objects /\ store[x].built
  BY DEF Present
<1>4. /\ d.result = Sum!TakenFrom([b EXCEPT ![z] = IF b[x].is = on THEN c ELSE b[x]], x, moves)
      /\ b \in d.left /\ Sum!TakenFrom(b, x, moves /\ b[x].is = on) \in d.left
  BY DueChained
<1>5. /\ b[x] = [is |-> Active(x), payload |-> store[x].payload]
      /\ Active(x) = ActiveIn(store, x) /\ Active(x) \in Members
  BY <1>3, Names DEF View, HeldIn
<1>6. c \in Values \cup Errors
  OBVIOUS
<1>7. Begin(r, IF Active(x) = on THEN w \o q ELSE q2)
  BY <1>2
<1> HIDE DEF r, d
<1>8. CASE Active(x) # on
  <2>1. d.result = Sum!TakenFrom([b EXCEPT ![z] = b[x]], x, moves)
    BY <1>4, <1>5, <1>8
  <2>2. /\ Given(void, store, Active(x), Read(x, Active(x), moves))
        /\ PutBy(b, z, Active(x), Read(x, Active(x), moves))
             = Sum!TakenFrom([b EXCEPT ![z] = b[x]], x, moves)
    BY SourceFrom
  <2>3. Runs(void, d, q2, store)
    BY <1>1, <1>3, <1>4, <1>5, <2>1, <2>2, ConstructingFrom
  <2> QED BY <1>7, <1>8, <2>3 DEF Starting, d
<1>9. CASE Active(x) = on /\ moves /\ HasMember(on)
  <2>1. w = <<Set(x, on, Move(x, on))>>
    BY <1>9 DEF When
  <2>2. ActiveIn(store, x) = on /\ Keeps(void, on) /\ c \in Contents(void) /\ moves = TRUE
    BY <1>5, <1>6, <1>9, Names
  <2>3. d.result = Sum!TakenFrom([b EXCEPT ![z] = c], x, TRUE) /\ Sum!TakenFrom(b, x, TRUE) \in d.left
    <3>1. b[x].is = on /\ (moves /\ b[x].is = on) = TRUE
      BY <1>5, <1>9, <2>2
    <3> HIDE DEF b
    <3> QED BY <1>4, <2>2, <3>1
  <2>4. Runs(void, d, <<Set(x, on, Move(x, on))>> \o q, store)
    BY <1>1, <1>3, <1>4, <2>2, <2>3, Applying
  <2>5. Runs(void, d, w \o q, store)
    BY <2>1, <2>4
  <2> QED BY <1>7, <1>9, <2>5 DEF Starting, d
<1>10. CASE Active(x) = on /\ ~(moves /\ HasMember(on))
  <2>1. w \o q = q
    <3>1. w = << >>
      BY <1>10 DEF When
    <3> HIDE DEF w
    <3> QED BY <3>1, ThenConstructed
  <2>2. d.result = Sum!TakenFrom([b EXCEPT ![z] = c], x, moves)
    BY <1>4, <1>5, <1>10
  <2>3. Sum!TakenFrom([b EXCEPT ![z] = c], x, moves) = [b EXCEPT ![z] = c]
    <3>1. CASE ~moves
      BY <3>1 DEF Sum!TakenFrom
    <3>2. CASE moves
      <4> DEFINE put == [b EXCEPT ![z] = c]
      <4>1. b[x] = Unit
        BY <1>1, <1>3, <1>5, <1>10, <3>2, Names DEF Agrees, SlotAgrees, Keeps, Unit
      <4>2. put[x] = Unit /\ [put EXCEPT ![x] = Unit] = put
        BY <1>3, <4>1 DEF View
      <4>3. Sum!MovedOut(Unit) = Unit
        BY DEF Sum!MovedOut, Unit
      <4> HIDE DEF put
      <4>4. Sum!TakenFrom(put, x, moves) = put
        BY <4>2, <4>3 DEF Sum!TakenFrom
      <4> QED BY <4>4 DEF put
    <3> QED BY <3>1, <3>2
  <2>4. /\ c.is \in Members /\ Given(void, store, c.is, Arg(c.payload))
        /\ PutBy(b, z, c.is, Arg(c.payload)) = [b EXCEPT ![z] = c]
    BY <1>6, SourceTo
  <2>5. Runs(void, d, q, store)
    BY <1>1, <1>3, <1>4, <2>2, <2>3, <2>4, ConstructingFrom
  <2>6. Runs(void, d, w \o q, store)
    BY <2>1, <2>5
  <2> QED BY <1>7, <1>10, <2>6 DEF Starting, d
<1> QED BY <1>8, <1>9, <1>10

\* The program of a swap runs well, called on the value where there is one.
LEMMA SwapRuns ==
  ASSUME NoThrowOnReplace, void \in BOOLEAN, store \in Stores, Agrees(void, store),
         NEW x \in Present, NEW y \in Present, Active(x) = Active(y) \/ Active(x) = "value",
         NEW d, View(store) \in d.left, d.result = Crossed(View(store), x, y)
  PROVE  Runs(void, d, SwapProgram(x, y), store)
<1>1. x \in Objects /\ store[x].built /\ y \in Objects /\ store[y].built
  BY DEF Present
<1>2. Active(x) \in Members /\ Active(x) = ActiveIn(store, x) /\ Active(y) = ActiveIn(store, y)
  BY Names
<1>3. CASE Active(x) = Active(y)
  <2>1. Runs(void, d, When(HasMember(Active(x)), Exchange(x, y, Active(x))), store)
    BY <1>1, <1>2, <1>3, SwappingAlike
  <2> QED BY <1>3, <2>1 DEF SwapProgram
<1>4. CASE Active(x) # Active(y)
  <2>1. ActiveIn(store, x) = "value" /\ ActiveIn(store, y) = "error"
    BY <1>2, <1>4 DEF ActiveIn
  <2>2. CASE void
    <3>1. Runs(void, d, SwapMixedVoid(x, y), store)
      BY <1>1, <2>1, <2>2, SwappingMixedVoid
    <3> QED BY <1>4, <2>2, <3>1 DEF SwapProgram
  <2>3. CASE ~void
    <3>1. Runs(void, d, SwapMixed(x, y), store)
      BY <1>1, <2>1, <2>3, SwappingMixed DEF NoThrowOnReplace
    <3> QED BY <1>4, <2>3, <3>1 DEF SwapProgram
  <2> QED BY <2>2, <2>3
<1> QED BY <1>3, <1>4

\* A swap starts such a program.
LEMMA SwapStarts ==
  ASSUME NoThrowOnReplace, Inv, answer # "pending", Swap
  PROVE  Starting
<1> DEFINE b == View(store)
<1>1. void \in BOOLEAN /\ store \in Stores /\ Agrees(void, store)
  BY DEF Inv
<1>2. PICK x \in Present, y \in Present :
        Begin([op |-> "swap", obj |-> x, with |-> y],
              IF Active(x) = "error" /\ Active(y) = "value" THEN SwapProgram(y, x)
              ELSE SwapProgram(x, y))
  BY DEF Swap
<1> DEFINE r == [op |-> "swap", obj |-> x, with |-> y]
           d == Due(r, b)
<1>3. d.result = Crossed(b, x, y) /\ b \in d.left
  BY DueSwapped
<1>4. Crossed(b, x, y) = Crossed(b, y, x)
  BY DEF Crossed, View, Present
<1>5. Active(x) \in {"value", "error"} /\ Active(y) \in {"value", "error"}
  BY DEF Active
<1>6. Begin(r, IF Active(x) = "error" /\ Active(y) = "value" THEN SwapProgram(y, x)
               ELSE SwapProgram(x, y))
  BY <1>2
<1> HIDE DEF r, d
<1>7. CASE Active(x) = "error" /\ Active(y) = "value"
  <2>1. Runs(void, d, SwapProgram(y, x), store)
    BY <1>1, <1>3, <1>4, <1>7, SwapRuns
  <2> QED BY <1>6, <1>7, <2>1 DEF Starting, d
<1>8. CASE ~(Active(x) = "error" /\ Active(y) = "value")
  <2>1. Active(x) = Active(y) \/ Active(x) = "value"
    BY <1>5, <1>8
  <2>2. Runs(void, d, SwapProgram(x, y), store)
    BY <1>1, <1>3, <2>1, SwapRuns
  <2> QED BY <1>6, <1>8, <2>2 DEF Starting, d
<1> QED BY <1>7, <1>8

\* Every operation starts a program that runs well from the storage it finds.
LEMMA OperationStarts ==
  ASSUME NoThrowOnReplace, Inv, Operation
  PROVE  answer # "pending" /\ Starting
<1> DEFINE b == View(store)
<1>0. answer # "pending"
  BY DEF Operation, New, NewFrom, Destroyed, Assign, AssignFrom, Emplace, Swap, AndThen, OrElse,
         Transform, TransformError, Monadic, Begin
<1>1. void \in BOOLEAN /\ store \in Stores /\ Agrees(void, store)
  BY <1>0 DEF Inv
<1>2. SUFFICES Starting
  BY <1>0
<1> HIDE DEF b
<1>b. b = View(store)
  BY DEF b
<1>3. CASE New
  <2>1. PICK z \in Objects \ Present, c \in Values \cup Errors :
          Begin([op |-> "construct", obj |-> z, to |-> c], Constructed(z, c.is, Arg(c.payload)))
    BY <1>3 DEF New
  <2> DEFINE r == [op |-> "construct", obj |-> z, to |-> c]
  <2>2. Begin(r, Constructed(z, c.is, Arg(c.payload)))
    BY <2>1
  <2>3. Due(r, b).result = [b EXCEPT ![z] = c] /\ b \in Due(r, b).left
    BY DueTo
  <2>4. /\ c.is \in Members /\ Given(void, store, c.is, Arg(c.payload))
        /\ PutBy(b, z, c.is, Arg(c.payload)) = [b EXCEPT ![z] = c]
    BY SourceTo
  <2> HIDE DEF r
  <2>5. z \in Objects /\ ~store[z].built
    BY DEF Present
  <2>6. Runs(void, Due(r, b), Constructed(z, c.is, Arg(c.payload)), store)
    BY <1>1, <1>b, <2>3, <2>4, <2>5, ConstructingFrom
  <2> QED BY <1>b, <2>2, <2>6 DEF Starting
<1>4. CASE NewFrom
  <2>1. PICK z \in Objects \ Present, y \in Present, moves \in BOOLEAN :
          Begin([op |-> "construct_from", obj |-> z, from |-> y, moves |-> moves],
                Constructed(z, Active(y), Read(y, Active(y), moves)))
    BY <1>4 DEF NewFrom
  <2> DEFINE r == [op |-> "construct_from", obj |-> z, from |-> y, moves |-> moves]
  <2>2. Begin(r, Constructed(z, Active(y), Read(y, Active(y), moves)))
    BY <2>1
  <2>3. /\ Due(r, b).result = Sum!TakenFrom([b EXCEPT ![z] = b[y]], y, moves)
        /\ b \in Due(r, b).left
    BY DueFrom
  <2>4. /\ Active(y) \in Members /\ Given(void, store, Active(y), Read(y, Active(y), moves))
        /\ PutBy(b, z, Active(y), Read(y, Active(y), moves))
             = Sum!TakenFrom([b EXCEPT ![z] = b[y]], y, moves)
    BY SourceFrom, Names
  <2> HIDE DEF r
  <2>5. z \in Objects /\ ~store[z].built
    BY DEF Present
  <2>6. Runs(void, Due(r, b), Constructed(z, Active(y), Read(y, Active(y), moves)), store)
    BY <1>1, <1>b, <2>3, <2>4, <2>5, ConstructingFrom
  <2> QED BY <1>b, <2>2, <2>6 DEF Starting
<1>5. CASE Destroyed
  <2>1. PICK x \in Present :
          Begin([op |-> "destroy", obj |-> x],
                When(HasMember(Active(x)), Destroy(x, Active(x))) \o <<Built(x, FALSE)>>)
    BY <1>5 DEF Destroyed
  <2> DEFINE r == [op |-> "destroy", obj |-> x]
             p == When(HasMember(Active(x)), Destroy(x, Active(x))) \o <<Built(x, FALSE)>>
  <2>2. Begin(r, p)
    BY <2>1
  <2>3. Due(r, b).result = [b EXCEPT ![x] = Absent]
    BY DueDestroyed
  <2> HIDE DEF r
  <2>4. x \in Objects /\ store[x].built /\ Active(x) \in Members /\ ActiveIn(store, x) = Active(x)
    BY Names DEF Present
  <2>5. Runs(void, Due(r, b), p, store)
    BY <1>1, <1>b, <2>3, <2>4, Destroying
  <2> QED BY <1>b, <2>2, <2>5 DEF Starting
<1>6. CASE Assign
  <2>1. PICK x \in Present, c \in Values \cup Errors :
          Begin([op |-> "assign", obj |-> x, to |-> c], Assigned(x, c.is, Arg(c.payload)))
    BY <1>6 DEF Assign
  <2> DEFINE r == [op |-> "assign", obj |-> x, to |-> c]
  <2>2. Begin(r, Assigned(x, c.is, Arg(c.payload)))
    BY <2>1
  <2>3. Due(r, b).result = [b EXCEPT ![x] = c] /\ b \in Due(r, b).left
    BY DueTo
  <2>4. /\ c.is \in Members /\ Given(void, store, c.is, Arg(c.payload))
        /\ PutBy(b, x, c.is, Arg(c.payload)) = [b EXCEPT ![x] = c]
    BY SourceTo
  <2> HIDE DEF r
  <2>5. Runs(void, Due(r, b), Assigned(x, c.is, Arg(c.payload)), store)
    BY <1>1, <1>b, <2>3, <2>4, AssignmentRuns
  <2> QED BY <1>b, <2>2, <2>5 DEF Starting
<1>7. CASE AssignFrom
  <2>1. PICK x \in Present, y \in Present, moves \in BOOLEAN :
          Begin([op |-> "assign_from", obj |-> x, from |-> y, moves |-> moves],
                Assigned(x, Active(y), Read(y, Active(y), moves)))
    BY <1>7 DEF AssignFrom
  <2> DEFINE r == [op |-> "assign_from", obj |-> x, from |-> y, moves |-> moves]
  <2>2. Begin(r, Assigned(x, Active(y), Read(y, Active(y), moves)))
    BY <2>1
  <2>3. /\ Due(r, b).result = Sum!TakenFrom([b EXCEPT ![x] = b[y]], y, moves)
        /\ b \in Due(r, b).left
    BY DueFrom
  <2>4. /\ Active(y) \in Members /\ Given(void, store, Active(y), Read(y, Active(y), moves))
        /\ PutBy(b, x, Active(y), Read(y, Active(y), moves))
             = Sum!TakenFrom([b EXCEPT ![x] = b[y]], y, moves)
    BY SourceFrom, Names
  <2> HIDE DEF r
  <2>5. Runs(void, Due(r, b), Assigned(x, Active(y), Read(y, Active(y), moves)), store)
    BY <1>1, <1>b, <2>3, <2>4, AssignmentRuns
  <2> QED BY <1>b, <2>2, <2>5 DEF Starting
<1>8. CASE Emplace
  <2>1. PICK x \in Present, c \in Values :
          Begin([op |-> "emplace", obj |-> x, to |-> c],
                IF void THEN EmplaceVoid(x) ELSE EmplacePrimary(x, c))
    BY <1>8 DEF Emplace
  <2> DEFINE r == [op |-> "emplace", obj |-> x, to |-> c]
  <2>2. Begin(r, IF void THEN EmplaceVoid(x) ELSE EmplacePrimary(x, c))
    BY <2>1
  <2>3. Due(r, b).result = [b EXCEPT ![x] = c]
    BY DueEmplaced
  <2> HIDE DEF r
  <2>4. x \in Objects /\ store[x].built /\ Active(x) = ActiveIn(store, x)
    BY Names DEF Present
  <2>5. CASE void
    <3>1. c = Unit
      BY <2>5 DEF Values, Unit
    <3>2. Runs(void, Due(r, b), EmplaceVoid(x), store)
      BY <1>1, <1>b, <2>3, <2>4, <2>5, <3>1, EmplacingVoid DEF EmplaceVoid
    <3> QED BY <1>b, <2>2, <2>5, <3>2 DEF Starting
  <2>6. CASE ~void
    <3>1. c.payload \in Payloads /\ c = [is |-> "value", payload |-> c.payload]
      BY <2>6 DEF Values
    <3>2. Runs(void, Due(r, b), EmplacePrimary(x, c), store)
      BY <1>1, <1>b, <2>3, <2>4, <2>6, <3>1, Emplacing DEF EmplacePrimary
    <3> QED BY <1>b, <2>2, <2>6, <3>2 DEF Starting
  <2> QED BY <2>5, <2>6
<1>9. CASE Swap
  BY <1>0, <1>9, SwapStarts
<1>10. CASE AndThen \/ OrElse \/ Transform \/ TransformError
  BY <1>0, <1>10, MonadicStarts DEF AndThen, OrElse, Transform, TransformError, Members
<1> QED BY <1>3, <1>4, <1>5, <1>6, <1>7, <1>8, <1>9, <1>10 DEF Operation

\* What the objects hold between operations.
LEMMA Standing ==
  ASSUME Inv, answer # "pending", NEW x \in Present
  PROVE  /\ x \in Objects /\ store[x].built
         /\ View(store)[x] = [is |-> Active(x), payload |-> store[x].payload]
         /\ View(store)[x] # Absent
         /\ store[x].payload \in Payloads \cup {Moved, Nothing}
         /\ store[x].payload = Nothing <=> ~HasMember(Active(x))
         /\ store[x].live = IF HasMember(Active(x)) THEN Active(x) ELSE "none"
<1>1. void \in BOOLEAN /\ store \in Stores /\ Agrees(void, store)
  BY DEF Inv
<1>2. /\ x \in Objects /\ x \in Vars /\ store[x].built
      /\ Active(x) = ActiveIn(store, x) /\ Active(x) \in Members
      /\ HasMember(Active(x)) = Keeps(void, Active(x))
  BY Names DEF Present, Vars
<1>3. store[x].live = IF HasMember(Active(x)) THEN Active(x) ELSE "none"
  BY <1>1, <1>2 DEF Agrees, SlotAgrees
<1>4. store[x].payload = Nothing <=> ~HasMember(Active(x))
  BY <1>1, <1>2, <1>3 DEF Agrees, SlotAgrees, Members
<1>5. View(store)[x] = [is |-> Active(x), payload |-> store[x].payload]
  BY <1>2 DEF View, HeldIn
<1>6. store[x].payload \in Payloads \cup {Moved, Nothing}
  BY <1>1, <1>2 DEF Stores, Slots
<1>7. View(store)[x] # Absent
  BY <1>2, <1>5, <1>6, Markers
<1> QED BY <1>2, <1>3, <1>4, <1>5, <1>6, <1>7

\* The observers.
Observer == Value \/ ValueOr("value") \/ ValueOr("error") \/ Compare

\* Each of them answers at once, and moves from its object only what that holds.
LEMMA ObserverReads ==
  ASSUME Inv, Observer
  PROVE  /\ answer # "pending"
         /\ \E x \in Present, drains \in BOOLEAN : \E r, a :
              a # "pending" /\ Observe(r, x, a, drains)
<1>0. answer # "pending"
  BY DEF Observer, Value, ValueOr, Compare, Observe
<1>1. \A x \in Present : store[x].payload # "pending"
  BY <1>0, Standing, StorageAssumption
<1>2. \A x : Active(x) \in {"value", "error"}
  BY DEF Active
<1>3. CASE Value
  <2>1. PICK x \in Present, moves \in BOOLEAN :
          Observe([op |-> "value", obj |-> x, moves |-> moves], x,
                  IF Active(x) = "value" THEN store[x].payload ELSE "bad_expected_access",
                  moves /\ Active(x) = "error")
    BY <1>3 DEF Value
  <2>2. (IF Active(x) = "value" THEN store[x].payload ELSE "bad_expected_access") # "pending"
    BY <1>1
  <2> QED BY <1>0, <2>1, <2>2
<1>4. ASSUME NEW m \in Members, ValueOr(m)
      PROVE  \E x \in Present, drains \in BOOLEAN : \E r, a :
               a # "pending" /\ Observe(r, x, a, drains)
  <2>1. PICK x \in Present, d \in Payloads, moves \in BOOLEAN :
          Observe([op |-> "or", obj |-> x, member |-> m, default |-> d, moves |-> moves], x,
                  IF Active(x) = m THEN store[x].payload ELSE d, moves /\ Active(x) = m)
    BY <1>4 DEF ValueOr
  <2>2. (IF Active(x) = m THEN store[x].payload ELSE d) # "pending"
    BY <1>1, StorageAssumption
  <2> QED BY <2>1, <2>2
<1>5. CASE Compare
  <2>1. PICK x \in Present, y \in Present :
          Observe([op |-> "equal", obj |-> x, with |-> y], x,
                  IF Equal(x, y) THEN "equal" ELSE "unequal", FALSE)
    BY <1>5 DEF Compare
  <2>2. (IF Equal(x, y) THEN "equal" ELSE "unequal") # "pending"
    OBVIOUS
  <2> QED BY <1>0, <2>1, <2>2
<1> QED BY <1>0, <1>3, <1>4, <1>5 DEF Observer, Members

\* What an observer leaves where the storage agreed.
LEMMA Observed ==
  ASSUME Inv, NEW x \in Present, NEW r, NEW a, NEW drains \in BOOLEAN, Observe(r, x, a, drains)
  PROVE  /\ ~fault' /\ store' \in Stores /\ Agrees(void, store')
         /\ View(store') = Sum!TakenFrom(View(store), x, drains)
<1> DEFINE b == View(store)
<1>1. /\ answer # "pending" /\ void \in BOOLEAN /\ store \in Stores /\ ~fault
      /\ Agrees(void, store)
  BY DEF Observe, Inv
<1>2. /\ x \in Objects /\ x \in Vars /\ store[x].built /\ Temp \notin Objects /\ Moved # Nothing
      /\ Active(x) = ActiveIn(store, x) /\ Active(x) \in Members
      /\ HasMember(Active(x)) = Keeps(void, Active(x))
  BY Names, Markers DEF Present, Vars
<1>3. /\ b[x] = [is |-> Active(x), payload |-> store[x].payload]
      /\ store[x].payload = Nothing <=> ~HasMember(Active(x))
      /\ store[x].live = IF HasMember(Active(x)) THEN Active(x) ELSE "none"
  BY <1>1, Standing
<1>4. ~fault'
  BY <1>1, <1>3 DEF Observe
<1>5. CASE ~(drains /\ HasMember(Active(x)))
  <2>1. store' = store
    BY <1>5 DEF Observe
  <2>2. drains => Sum!MovedOut(b[x]) = b[x]
    BY <1>3, <1>5 DEF Sum!MovedOut
  <2>3. [b EXCEPT ![x] = b[x]] = b
    BY DEF View
  <2>4. View(store') = b
    BY <2>1
  <2> HIDE DEF b
  <2>5. Sum!TakenFrom(b, x, drains) = b
    BY <2>2, <2>3 DEF Sum!TakenFrom
  <2> QED BY <1>1, <1>4, <2>1, <2>4, <2>5 DEF b
<1>6. CASE drains /\ HasMember(Active(x))
  <2>1. store' = [store EXCEPT ![x].payload = Moved]
    BY <1>6 DEF Observe
  <2>2. store' \in Stores
    BY <1>1, <1>2, <2>1 DEF Stores, Slots
  <2>3. /\ store'[x].payload = Moved /\ store'[x].live = store[x].live /\ store'[x].built
        /\ ActiveIn(store', x) = Active(x) /\ \A y \in Vars \ {x} : store'[y] = store[y]
    BY <1>1, <1>2, <2>1 DEF Stores, Slots, ActiveIn
  <2>4. Agrees(void, store')
    BY <1>1, <1>2, <1>3, <1>6, <2>3 DEF Agrees, SlotAgrees, ActiveIn, Vars, Members
  <2>5. Sum!MovedOut(b[x]) = [is |-> Active(x), payload |-> Moved]
    BY <1>3, <1>6 DEF Sum!MovedOut
  <2>6. View(store') = [b EXCEPT ![x] = Sum!MovedOut(b[x])]
    <3>1. HeldIn(store', x) = Sum!MovedOut(b[x])
      BY <2>3, <2>5 DEF HeldIn
    <3>2. \A y \in Objects \ {x} : HeldIn(store', y) = HeldIn(store, y)
      BY <2>3 DEF HeldIn, ActiveIn, Vars
    <3> QED BY <3>1, <3>2 DEF View
  <2> QED BY <1>4, <1>6, <2>2, <2>4, <2>6 DEF Sum!TakenFrom
<1> QED BY <1>5, <1>6

\* The invariant holds before the first operation.
LEMMA Starts == Init => Inv
<1> SUFFICES ASSUME Init PROVE Inv
  OBVIOUS
<1>1. store \in Stores
  BY DEF Init, Raw, Stores, Slots, Vars
<1>2. Agrees(void, store)
  <2>1. \A x \in Vars : store[x] = Raw
    BY DEF Init, Vars
  <2>2. ~Raw.built /\ Raw.live = "none" /\ Raw.payload = Nothing
    BY DEF Raw
  <2> QED BY <2>1, <2>2 DEF Agrees, SlotAgrees, Vars
<1>3. answer # "pending"
  BY StorageAssumption DEF Init
<1> QED BY <1>1, <1>2, <1>3 DEF Init, Inv

\* Where steps are left, the operation is in progress and runs well.
LEMMA InProgress ==
  ASSUME Inv, todo # << >> \/ answer = "pending"
  PROVE  answer = "pending" /\ Runs(void, Due(asked, before), todo, store)
BY DEF Inv

\* Every step keeps the invariant.
LEMMA NextKeeps ==
  ASSUME NoThrowOnReplace
  PROVE  Inv /\ [Next]_vars => Inv'
<1> SUFFICES ASSUME Inv, [Next]_vars PROVE Inv'
  OBVIOUS
<1> DEFINE d == Due(asked, before)
<1>1. CASE Operation
  <2>1. PICK r, p : Begin(r, p) /\ Runs(void, Due(r, View(store)), p, store)
    BY <1>1, OperationStarts DEF Starting
  <2>2. /\ void' = void /\ store' = store /\ fault' = fault /\ todo' = p /\ before' = View(store)
        /\ asked' = r /\ answer' = "pending"
    BY <2>1, Names DEF Begin
  <2>3. before' = [x \in Objects |-> before'[x]]
    BY <2>2 DEF View
  <2>4. Runs(void', Due(asked', before'), todo', store')
    BY <2>1, <2>2
  <2> QED BY <2>2, <2>3, <2>4 DEF Inv, Due
<1>2. CASE Observer
  <2>a. PICK x \in Present, drains \in BOOLEAN :
          \E r, a : a # "pending" /\ Observe(r, x, a, drains)
    BY <1>2, ObserverReads
  <2>1. PICK r, a : a # "pending" /\ Observe(r, x, a, drains)
    BY <2>a
  <2>2. ~fault' /\ store' \in Stores /\ Agrees(void, store')
    BY <2>1, Observed
  <2>3. /\ void' = void /\ todo' = todo /\ before' = before /\ answer' # "pending"
        /\ answer # "pending"
    BY <2>1 DEF Observe
  <2> QED BY <2>2, <2>3 DEF Inv
<1>3. CASE Step
  <2>1. /\ todo # << >> /\ store' = After(store, Head(todo)) /\ todo' = Tail(todo)
        /\ fault' = (fault \/ Faulty(store, Head(todo))) /\ void' = void /\ before' = before
        /\ asked' = asked /\ answer' = answer
    BY <1>3 DEF Step
  <2>2. answer = "pending" /\ Good(void, d, store, Head(todo)) /\ Runs(void, d, todo', store')
    BY <2>1, InProgress, Onward
  <2>3. store' \in Stores
    BY <2>2, Onward
  <2>4. ~fault'
    BY <2>1, <2>2 DEF Good, Inv
  <2>5. Runs(void', Due(asked', before'), todo', store')
    BY <2>1, <2>2
  <2> QED BY <2>1, <2>2, <2>3, <2>4, <2>5 DEF Inv, Due
<1>4. CASE Throw
  <2>1. /\ todo # << >> /\ Head(todo).do \in Throws /\ todo' = << >>
        /\ store' = [store EXCEPT ![Temp] = Raw] /\ void' = void /\ fault' = fault
        /\ before' = [x \in Objects |-> Absent] /\ answer' = "threw"
    BY <1>4 DEF Throw
  <2>2. Good(void, d, store, Head(todo))
    BY <2>1, InProgress, Onward
  <2>3. Agrees(void, store')
    BY <2>1, <2>2 DEF Good, Safe
  <2>4. store' \in Stores
    <3>1. Raw \in Slots
      BY DEF Raw, Slots
    <3> QED BY <2>1, <3>1 DEF Inv, Stores
  <2> QED BY <2>1, <2>3, <2>4 DEF Inv
<1>5. CASE Return
  <2>1. /\ answer = "pending" /\ todo = << >> /\ answer' = "returned"
        /\ void' = void /\ store' = store /\ todo' = todo /\ fault' = fault
        /\ before' = [x \in Objects |-> Absent]
    BY <1>5 DEF Return
  <2>2. Agrees(void, store)
    BY <2>1, InProgress, Onward DEF Done
  <2> QED BY <2>1, <2>2 DEF Inv
<1>6. CASE UNCHANGED vars
  <2>1. /\ void' = void /\ store' = store /\ todo' = todo /\ answer' = answer /\ fault' = fault
        /\ asked' = asked /\ before' = before
    BY <1>6 DEF vars
  <2> QED BY <2>1 DEF Inv, Due
<1> QED BY <1>1, <1>2, <1>3, <1>4, <1>5, <1>6 DEF Next, Operation, Observer

\* The flag and the storage agree between operations, and no member is used, destroyed or
\* overwritten in the wrong state, for any number of objects.
THEOREM MembersAreLive ==
  ASSUME NoThrowOnReplace
  PROVE  Spec => []MembersLive
<1>1. Init => Inv
  BY Starts
<1>2. Inv /\ [Next]_vars => Inv'
  BY NextKeeps
<1>3. Inv => MembersLive
  <2> SUFFICES ASSUME Inv, todo = << >>
               PROVE  /\ \A x \in Objects :
                           store[x].live = IF x \in Present /\ HasMember(Active(x))
                                           THEN Active(x) ELSE "none"
                      /\ store[Temp].live = "none"
    BY DEF MembersLive, Inv
  <2>1. Agrees(void, store)
    <3>1. CASE answer = "pending"
      BY <3>1, InProgress, Onward DEF Done
    <3>2. CASE answer # "pending"
      BY <3>2 DEF Inv
    <3> QED BY <3>1, <3>2
  <2> QED BY <2>1, Names DEF Agrees, SlotAgrees, Present
<1> QED BY <1>1, <1>2, <1>3, PTL DEF Spec

(***************************************************************************)
(* The sum type.                                                           *)
(***************************************************************************)

\* What it sees: the objects as the last call found them, until that ends.
Content == [x \in Objects |-> IF answer = "pending" THEN before[x] ELSE Held(x)]

LEMMA ContentIs ==
  /\ answer # "pending" => Content = View(store)
  /\ Inv /\ answer = "pending" => Content = before
  /\ answer' # "pending" => Content' = View(store')
  /\ Inv' /\ answer' = "pending" => Content' = before'
<1>1. answer # "pending" => Content = View(store)
  BY Names DEF Content
<1>2. Inv /\ answer = "pending" => Content = before
  BY DEF Content, Inv
<1>3. answer' # "pending" => Content' = View(store')
  BY DEF Content, View, Held, HeldIn, Active, ActiveIn
<1>4. Inv' /\ answer' = "pending" => Content' = before'
  BY DEF Content, Inv
<1> QED BY <1>1, <1>2, <1>3, <1>4

\* Between the calls its objects are those that are built.
LEMMA PresentIs ==
  ASSUME Inv, answer # "pending"
  PROVE  /\ Sum!Present = Present
         /\ Sum!Values = Values /\ Sum!Errors = Errors
         /\ \A x \in Present : Content[x] = [is |-> Active(x), payload |-> store[x].payload]
<1>1. \A x \in Present : View(store)[x] # Absent
  BY Standing
<1>2. \A x \in Objects \ Present : View(store)[x] = Absent
  BY DEF View, HeldIn, Present
<1>3. \A x \in Present : View(store)[x] = [is |-> Active(x), payload |-> store[x].payload]
  BY Standing
<1>4. Content = View(store)
  BY ContentIs
<1>5. Sum!Present = {x \in Objects : Content[x] # Absent}
  BY DEF Sum!Present, Content
<1>6. Sum!Present = Present
  BY <1>1, <1>2, <1>4, <1>5 DEF Present
<1>7. Sum!Values = Values /\ Sum!Errors = Errors
  BY DEF Sum!Values, Sum!Errors, Values, Errors
<1> QED BY <1>3, <1>4, <1>6, <1>7

\* A call asks.
LEMMA BeginAsks ==
  ASSUME Inv, NEW r, NEW p, Begin(r, p)
  PROVE  Sum!Ask(r)
<1>1. /\ answer # "pending" /\ asked' = r /\ answer' = "pending" /\ void' = void
      /\ before' = View(store)
  BY Names DEF Begin
<1>2. Content' = before'
  BY <1>1 DEF Content, View
<1>3. Content' = Content
  BY <1>1, <1>2, ContentIs
<1> QED BY <1>1, <1>3 DEF Sum!Ask, Content

\* A monadic operation asks for a chain.
LEMMA ChainAsks ==
  ASSUME Inv, NEW on, NEW gives, Monadic(on, gives)
  PROVE  Sum!Chain(on, gives)
<1>1. PICK z \in Objects \ Present, x \in Present, c \in gives, moves \in BOOLEAN :
        Begin([op |-> "chain", obj |-> z, from |-> x, on |-> on, gives |-> c, moves |-> moves],
              IF Active(x) = on
              THEN When(moves /\ HasMember(on), Set(x, on, Move(x, on)))
                     \o Constructed(z, c.is, Arg(c.payload))
              ELSE Constructed(z, Active(x), Read(x, Active(x), moves)))
  BY DEF Monadic
<1>2. Sum!Ask([op |-> "chain", obj |-> z, from |-> x, on |-> on, gives |-> c, moves |-> moves])
  BY <1>1, BeginAsks
<1>3. Sum!Present = Present
  BY <1>1, PresentIs DEF Begin
<1> QED BY <1>2, <1>3 DEF Sum!Chain

\* Every operation asks for what it is named after.
LEMMA OperationAsks ==
  ASSUME Inv, Operation
  PROVE  Sum!Next
<1>0. answer # "pending"
  BY DEF Operation, New, NewFrom, Destroyed, Assign, AssignFrom, Emplace, Swap, AndThen, OrElse,
         Transform, TransformError, Monadic, Begin
<1>1. Sum!Present = Present /\ Sum!Values = Values /\ Sum!Errors = Errors
  BY <1>0, PresentIs
<1>2. CASE New
  <2>1. PICK z \in Objects \ Present, c \in Values \cup Errors :
          Begin([op |-> "construct", obj |-> z, to |-> c], Constructed(z, c.is, Arg(c.payload)))
    BY <1>2 DEF New
  <2>2. Sum!Ask([op |-> "construct", obj |-> z, to |-> c])
    BY <2>1, BeginAsks
  <2> QED BY <1>1, <2>2 DEF Sum!Construct, Sum!Next
<1>3. CASE NewFrom
  <2>1. PICK z \in Objects \ Present, y \in Present, moves \in BOOLEAN :
          Begin([op |-> "construct_from", obj |-> z, from |-> y, moves |-> moves],
                Constructed(z, Active(y), Read(y, Active(y), moves)))
    BY <1>3 DEF NewFrom
  <2>2. Sum!Ask([op |-> "construct_from", obj |-> z, from |-> y, moves |-> moves])
    BY <2>1, BeginAsks
  <2> QED BY <1>1, <2>2 DEF Sum!ConstructFrom, Sum!Next
<1>4. CASE Destroyed
  <2>1. PICK x \in Present :
          Begin([op |-> "destroy", obj |-> x],
                When(HasMember(Active(x)), Destroy(x, Active(x))) \o <<Built(x, FALSE)>>)
    BY <1>4 DEF Destroyed
  <2>2. Sum!Ask([op |-> "destroy", obj |-> x])
    BY <2>1, BeginAsks
  <2> QED BY <1>1, <2>2 DEF Sum!Destroy, Sum!Next
<1>5. CASE Assign
  <2>1. PICK x \in Present, c \in Values \cup Errors :
          Begin([op |-> "assign", obj |-> x, to |-> c], Assigned(x, c.is, Arg(c.payload)))
    BY <1>5 DEF Assign
  <2>2. Sum!Ask([op |-> "assign", obj |-> x, to |-> c])
    BY <2>1, BeginAsks
  <2> QED BY <1>1, <2>2 DEF Sum!Assign, Sum!Next
<1>6. CASE AssignFrom
  <2>1. PICK x \in Present, y \in Present, moves \in BOOLEAN :
          Begin([op |-> "assign_from", obj |-> x, from |-> y, moves |-> moves],
                Assigned(x, Active(y), Read(y, Active(y), moves)))
    BY <1>6 DEF AssignFrom
  <2>2. Sum!Ask([op |-> "assign_from", obj |-> x, from |-> y, moves |-> moves])
    BY <2>1, BeginAsks
  <2> QED BY <1>1, <2>2 DEF Sum!AssignFrom, Sum!Next
<1>7. CASE Emplace
  <2>1. PICK x \in Present, c \in Values :
          Begin([op |-> "emplace", obj |-> x, to |-> c],
                IF void THEN EmplaceVoid(x) ELSE EmplacePrimary(x, c))
    BY <1>7 DEF Emplace
  <2>2. Sum!Ask([op |-> "emplace", obj |-> x, to |-> c])
    BY <2>1, BeginAsks
  <2> QED BY <1>1, <2>2 DEF Sum!Emplace, Sum!Next
<1>8. CASE Swap
  <2>1. PICK x \in Present, y \in Present :
          Begin([op |-> "swap", obj |-> x, with |-> y],
                IF Active(x) = "error" /\ Active(y) = "value" THEN SwapProgram(y, x)
                ELSE SwapProgram(x, y))
    BY <1>8 DEF Swap
  <2>2. Sum!Ask([op |-> "swap", obj |-> x, with |-> y])
    BY <2>1, BeginAsks
  <2> QED BY <1>1, <2>2 DEF Sum!Swap, Sum!Next
<1>9. CASE AndThen \/ OrElse \/ Transform \/ TransformError
  <2>1. \/ Sum!Chain("value", Values \cup Errors) \/ Sum!Chain("error", Values \cup Errors)
        \/ Sum!Chain("value", Values) \/ Sum!Chain("error", Errors)
    BY <1>9, ChainAsks DEF AndThen, OrElse, Transform, TransformError
  <2> QED BY <1>1, <2>1 DEF Sum!Monadic, Sum!Next
<1> QED BY <1>2, <1>3, <1>4, <1>5, <1>6, <1>7, <1>8, <1>9 DEF Operation

\* What an observer answers, and what it leaves of its object.
LEMMA ObservingLeaves ==
  ASSUME Inv, NEW x \in Present, NEW r, NEW a, a # "pending", NEW drains \in BOOLEAN,
         Observe(r, x, a, drains)
  PROVE  /\ asked' = r /\ answer' = a /\ void' = void
         /\ Content' = Sum!TakenFrom(Content, x, drains)
<1>1. answer # "pending" /\ asked' = r /\ answer' = a /\ void' = void
  BY DEF Observe
<1>2. Content' = Sum!TakenFrom(Content, x, drains)
  BY <1>1, Observed, ContentIs
<1> QED BY <1>1, <1>2

\* Two objects are equal when they hold the same.
LEMMA EqualContent ==
  ASSUME Inv, answer # "pending", NEW x \in Present, NEW y \in Present
  PROVE  Equal(x, y) <=> Content[x] = Content[y]
<1>1. /\ Content[x] = [is |-> Active(x), payload |-> store[x].payload]
      /\ Content[y] = [is |-> Active(y), payload |-> store[y].payload]
  BY PresentIs
<1>2. /\ store[x].payload = Nothing <=> ~HasMember(Active(x))
      /\ store[y].payload = Nothing <=> ~HasMember(Active(y))
  BY Standing
<1>3. store[x].m_has_value = store[y].m_has_value <=> Active(x) = Active(y)
  <2>1. store[x].m_has_value \in BOOLEAN /\ store[y].m_has_value \in BOOLEAN
    BY DEF Inv, Stores, Slots, Present, Vars
  <2> QED BY <2>1 DEF Active
<1> QED BY <1>1, <1>2, <1>3 DEF Equal

\* The observers of the sum type, in terms of Content.
LEMMA AnswersAre ==
  /\ Sum!ValueAsked <=>
       \E x \in Sum!Present, moves \in BOOLEAN :
         Sum!Answer([op |-> "value", obj |-> x, moves |-> moves],
                    IF Content[x].is = "value" THEN Content[x].payload ELSE "bad_expected_access",
                    Sum!TakenFrom(Content, x, moves /\ Content[x].is = "error"))
  /\ \A m :
       Sum!MemberOr(m) <=>
         \E x \in Sum!Present, d \in Payloads, moves \in BOOLEAN :
           Sum!Answer([op |-> "or", obj |-> x, member |-> m, default |-> d, moves |-> moves],
                      IF Content[x].is = m THEN Content[x].payload ELSE d,
                      Sum!TakenFrom(Content, x, moves /\ Content[x].is = m))
  /\ Sum!Compared <=>
       \E x, y \in Sum!Present :
         Sum!Answer([op |-> "equal", obj |-> x, with |-> y],
                    IF Content[x] = Content[y] THEN "equal" ELSE "unequal", Content)
<1>1. Sum!ValueAsked <=>
        \E x \in Sum!Present, moves \in BOOLEAN :
          Sum!Answer([op |-> "value", obj |-> x, moves |-> moves],
                     IF Content[x].is = "value" THEN Content[x].payload ELSE "bad_expected_access",
                     Sum!TakenFrom(Content, x, moves /\ Content[x].is = "error"))
  BY Zenon DEF Sum!ValueAsked, Content
<1>2. \A m :
        Sum!MemberOr(m) <=>
          \E x \in Sum!Present, d \in Payloads, moves \in BOOLEAN :
            Sum!Answer([op |-> "or", obj |-> x, member |-> m, default |-> d, moves |-> moves],
                       IF Content[x].is = m THEN Content[x].payload ELSE d,
                       Sum!TakenFrom(Content, x, moves /\ Content[x].is = m))
  BY Zenon DEF Sum!MemberOr, Content
<1>3. Sum!Compared <=>
        \E x, y \in Sum!Present :
          Sum!Answer([op |-> "equal", obj |-> x, with |-> y],
                     IF Content[x] = Content[y] THEN "equal" ELSE "unequal", Content)
  BY Zenon DEF Sum!Compared, Content
<1> QED BY <1>1, <1>2, <1>3

\* Every observer answers what the sum type does.
LEMMA ObserverAnswers ==
  ASSUME Inv, Observer
  PROVE  Sum!Next
<1>0. answer # "pending"
  BY DEF Observer, Value, ValueOr, Compare, Observe
<1>1. Sum!Present = Present
  BY <1>0, PresentIs
<1>a. ASSUME NEW x \in Present
      PROVE  Content[x].is = Active(x) /\ Content[x].payload = store[x].payload
  <2>1. Content[x] = [is |-> Active(x), payload |-> store[x].payload]
    BY <1>0, PresentIs
  <2> QED BY <2>1
<1>2. \A x \in Present : store[x].payload # "pending"
  BY <1>0, Standing, StorageAssumption
<1>3. \A x : Active(x) \in {"value", "error"}
  BY DEF Active
<1>4. CASE Value
  <2>1. PICK x \in Present, moves \in BOOLEAN :
          Observe([op |-> "value", obj |-> x, moves |-> moves], x,
                  IF Active(x) = "value" THEN store[x].payload ELSE "bad_expected_access",
                  moves /\ Active(x) = "error")
    BY <1>4 DEF Value
  <2> DEFINE r == [op |-> "value", obj |-> x, moves |-> moves]
             a == IF Active(x) = "value" THEN store[x].payload ELSE "bad_expected_access"
             drains == moves /\ Active(x) = "error"
  <2>2. a # "pending" /\ drains \in BOOLEAN
    BY <1>2
  <2>3. Content[x].is = Active(x) /\ Content[x].payload = store[x].payload
    BY <1>a
  <2>4. Observe(r, x, a, drains)
    BY <2>1
  <2> HIDE DEF r, a, drains
  <2>5. /\ asked' = r /\ answer' = a /\ void' = void
        /\ Content' = Sum!TakenFrom(Content, x, drains)
    BY <2>2, <2>4, ObservingLeaves
  <2> DEFINE told == IF Content[x].is = "value" THEN Content[x].payload
                     ELSE "bad_expected_access"
             left == Sum!TakenFrom(Content, x, moves /\ Content[x].is = "error")
  <2>6. answer' = told /\ Content' = left
    BY <2>3, <2>5 DEF a, drains, Sum!TakenFrom
  <2> HIDE DEF told, left
  <2>7. Sum!Answer(r, told, left)
    BY <1>0, <2>5, <2>6 DEF Sum!Answer, Content
  <2>8. Sum!ValueAsked
    BY <1>1, <2>7, AnswersAre, Zenon DEF r, told, left
  <2> QED BY <2>8 DEF Sum!Next
<1>5. ASSUME NEW m \in Members, ValueOr(m)
      PROVE  Sum!MemberOr(m)
  <2>1. PICK x \in Present, d \in Payloads, moves \in BOOLEAN :
          Observe([op |-> "or", obj |-> x, member |-> m, default |-> d, moves |-> moves], x,
                  IF Active(x) = m THEN store[x].payload ELSE d, moves /\ Active(x) = m)
    BY <1>5 DEF ValueOr
  <2> DEFINE r == [op |-> "or", obj |-> x, member |-> m, default |-> d, moves |-> moves]
             a == IF Active(x) = m THEN store[x].payload ELSE d
             drains == moves /\ Active(x) = m
  <2>2. a # "pending" /\ drains \in BOOLEAN
    BY <1>2, StorageAssumption
  <2>3. Content[x].is = Active(x) /\ Content[x].payload = store[x].payload
    BY <1>a
  <2>4. Observe(r, x, a, drains)
    BY <2>1
  <2> HIDE DEF r, a, drains
  <2>5. /\ asked' = r /\ answer' = a /\ void' = void
        /\ Content' = Sum!TakenFrom(Content, x, drains)
    BY <2>2, <2>4, ObservingLeaves
  <2> DEFINE told == IF Content[x].is = m THEN Content[x].payload ELSE d
             left == Sum!TakenFrom(Content, x, moves /\ Content[x].is = m)
  <2>6. answer' = told /\ Content' = left
    BY <2>3, <2>5 DEF a, drains, Sum!TakenFrom
  <2> HIDE DEF told, left
  <2>7. Sum!Answer(r, told, left)
    BY <1>0, <2>5, <2>6 DEF Sum!Answer, Content
  <2> QED BY <1>1, <2>7, AnswersAre, Zenon DEF r, told, left
<1>6. CASE Compare
  <2>1. PICK x \in Present, y \in Present :
          Observe([op |-> "equal", obj |-> x, with |-> y], x,
                  IF Equal(x, y) THEN "equal" ELSE "unequal", FALSE)
    BY <1>6 DEF Compare
  <2> DEFINE r == [op |-> "equal", obj |-> x, with |-> y]
             a == IF Equal(x, y) THEN "equal" ELSE "unequal"
             drains == FALSE
             told == IF Content[x] = Content[y] THEN "equal" ELSE "unequal"
  <2>2. a # "pending" /\ drains \in BOOLEAN /\ Observe(r, x, a, drains)
    BY <2>1
  <2>3. a = told
    BY <1>0, EqualContent
  <2> HIDE DEF r, a, drains
  <2>4. /\ asked' = r /\ answer' = a /\ void' = void
        /\ Content' = Sum!TakenFrom(Content, x, drains)
    BY <2>2, ObservingLeaves
  <2>5. answer' = told /\ Content' = Content
    BY <2>3, <2>4 DEF Sum!TakenFrom, drains
  <2> HIDE DEF told
  <2>6. Sum!Answer(r, told, Content)
    BY <1>0, <2>4, <2>5 DEF Sum!Answer, Content
  <2>7. Sum!Compared
    BY <1>1, <2>6, AnswersAre, Zenon DEF r, told
  <2> QED BY <2>7 DEF Sum!Next
<1> QED BY <1>4, <1>5, <1>6 DEF Observer, Members, Sum!Next

\* Every step is one of the sum type, or changes nothing that it sees.
LEMMA StepIsNext ==
  Inv /\ [Next]_vars => [Sum!Next]_Sum!vars
<1> SUFFICES ASSUME Inv, [Next]_vars PROVE [Sum!Next]_Sum!vars
  OBVIOUS
<1> DEFINE d == Due(asked, before)
<1>1. CASE Operation
  BY <1>1, OperationAsks
<1>2. CASE Observer
  BY <1>2, ObserverAnswers
<1>3. CASE Step
  <2>1. /\ todo # << >> /\ void' = void /\ before' = before /\ asked' = asked /\ answer' = answer
    BY <1>3 DEF Step
  <2>2. answer = "pending"
    BY <2>1, InProgress
  <2>3. Content' = Content
    BY <2>1, <2>2 DEF Content
  <2> QED BY <2>1, <2>3 DEF Sum!vars, Content
<1>4. CASE Throw
  <2>1. /\ todo # << >> /\ Head(todo).do \in Throws /\ store' = [store EXCEPT ![Temp] = Raw]
        /\ void' = void /\ asked' = Absent /\ answer' = "threw"
    BY <1>4 DEF Throw
  <2>2. answer = "pending" /\ Good(void, d, store, Head(todo))
    BY <2>1, InProgress, Onward
  <2>3. View(store') \in Sum!Left(asked, before)
    BY <2>1, <2>2 DEF Good, Safe, Due
  <2>4. Content = before /\ Content' = View(store')
    BY <2>1, <2>2, ContentIs
  <2>5. Content' \in Sum!Left(asked, Content)
    BY <2>3, <2>4
  <2>6. Sum!Throw
    BY <2>1, <2>2, <2>5 DEF Sum!Throw, Content
  <2> QED BY <2>6 DEF Sum!Next
<1>5. CASE Return
  <2>1. /\ answer = "pending" /\ todo = << >> /\ answer' = "returned"
        /\ void' = void /\ store' = store /\ asked' = Absent
    BY <1>5 DEF Return
  <2>2. View(store) = Sum!Promised(asked, before)
    BY <2>1, InProgress, Onward DEF Done, Due
  <2>3. Content = before /\ Content' = View(store)
    BY <2>1, ContentIs
  <2>4. Content' = Sum!Promised(asked, Content)
    BY <2>2, <2>3
  <2>5. Sum!Return
    BY <2>1, <2>4 DEF Sum!Return, Content
  <2> QED BY <2>5 DEF Sum!Next
<1>6. CASE UNCHANGED vars
  <2>1. Content' = Content
    BY <1>6 DEF vars, Content, Held, Active
  <2> QED BY <1>6, <2>1 DEF vars, Sum!vars, Content
<1> QED BY <1>1, <1>2, <1>3, <1>4, <1>5, <1>6 DEF Next, Operation, Observer

\* cartan::expected implements the sum type: every call that returns has done what was asked,
\* to the objects it was asked of and to no other, every call that throws has left them as
\* it found them, and every observer answers what the object holds.
THEOREM ImplementsSum ==
  ASSUME NoThrowOnReplace
  PROVE  Spec => RefinesSum
<1>1. Init => Sum!Init
  <2> SUFFICES ASSUME Init PROVE Sum!Init
    OBVIOUS
  <2>1. \A x \in Objects : ~store[x].built
    BY DEF Init, Raw
  <2>2. answer # "pending" /\ answer = Absent /\ asked = Absent /\ void \in BOOLEAN
    BY StorageAssumption DEF Init
  <2>3. Content = [x \in Objects |-> Absent]
    BY <2>1, <2>2 DEF Content, Held
  <2> QED BY <2>2, <2>3 DEF Sum!Init, Content
<1>2. Init => Inv
  BY Starts
<1>3. Inv /\ [Next]_vars => Inv'
  BY NextKeeps
<1>4. Inv /\ [Next]_vars => [Sum!Next]_Sum!vars
  BY StepIsNext
<1> QED BY <1>1, <1>2, <1>3, <1>4, PTL DEF Spec, RefinesSum, Sum!Spec
===============================================================================
