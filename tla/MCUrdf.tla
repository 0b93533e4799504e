-------------------------------- MODULE MCUrdf --------------------------------
(* Every tree, forest and cycle over four links, and one document per defect. *)
EXTENDS UrdfBuild, SequencesExt

CONSTANTS a, b, c, b_sc, p, q, r, t

SomeWrapper == [l \in {a, b, c, b_sc} |-> IF l = b THEN b_sc ELSE NoName]

Good == <<"zero", "one", "zero">>
Range01 == [lower |-> "zero", upper |-> "one", velocity |-> Absent, effort |-> "one"]

Link(n) == [name |-> n, inertial |-> Absent]

Joint(n, type, parent, child) ==
  [name |-> n, type |-> type, mimic |-> FALSE, parent |-> parent, child |-> child,
   origin |-> Absent, axis |-> Absent, limit |-> IF type = "fixed" THEN Absent ELSE Range01]

Robot(ls, js) == [root |-> "robot", links |-> ls, joints |-> js]

LinkOrder == <<a, b, c, b_sc>>
JointName == (a :> p) @@ (b :> q) @@ (c :> r) @@ (b_sc :> t)

\* The document in which every link of parent hangs from its parent by a joint of its type.
Tree(names, parent, type) ==
  Robot([k \in 1..Cardinality(names) |->
           Link(SelectSeq(LinkOrder, LAMBDA l : l \in names)[k])],
        LET children == SelectSeq(LinkOrder, LAMBDA l : l \in DOMAIN parent)
        IN [k \in 1..Len(children) |->
              Joint(JointName[children[k]], type[children[k]], parent[children[k]], children[k])])

Trees ==
  UNION {UNION {
    {Tree(names, parent, type) :
       parent \in {f \in [children -> names] : \A l \in children : f[l] # l},
       type \in [children -> {"fixed", "revolute"}]} :
    children \in SUBSET names} :
  names \in {{a}, {a, b}, {a, b, c}, {a, b, c, b_sc}}}

Inertial == [mass |-> "one", com |-> Good, inertia |-> "one"]
Arm == Robot(<<[Link(a) EXCEPT !.inertial = Inertial], Link(b), Link(c)>>,
             <<Joint(p, "revolute", a, b), Joint(q, "prismatic", b, c)>>)

\* One defect at a time in the base link, the second joint or the document.
InertialDefects ==
  {[Inertial EXCEPT !.mass = m] : m \in {Absent, "nan", "zero"}}
    \cup {[Inertial EXCEPT !.com = m] : m \in {Absent, <<"one">>}}
    \cup {[Inertial EXCEPT !.inertia = m] : m \in {Absent, "nan", "negative"}}

JointDefects ==
  LET j == Joint(q, "prismatic", b, c)
  IN {[j EXCEPT !.name = n] : n \in {NoName, p}}
       \cup {[j EXCEPT !.type = k] : k \in {"floating", "continuous"}}
       \cup {[j EXCEPT !.mimic = TRUE]}
       \cup {[j EXCEPT !.parent = l] : l \in {Absent, NoName, c}}
       \cup {[j EXCEPT !.child = l] : l \in {Absent, NoName, b}}
       \cup {[j EXCEPT !.parent = c, !.child = b]}
       \cup {[j EXCEPT !.origin = [xyz |-> x, rpy |-> y]] :
               x \in {Absent, Good}, y \in {Good, <<"one", "junk", "one">>}}
       \cup {[j EXCEPT !.axis = x] :
               x \in {Good, <<"zero", "zero", "zero">>, <<"one", "nan", "one">>,
                      <<"one", "one", "one", "one">>}}
       \cup {[j EXCEPT !.limit = x] :
               x \in {Absent, [Range01 EXCEPT !.upper = Absent], [Range01 EXCEPT !.effort = "nan"]}}

Broken ==
  {[Arm EXCEPT !.root = x] : x \in {"broken", "other"}}
    \cup {[Arm EXCEPT !.links[2].name = x] : x \in {NoName, a}}
    \cup {[Arm EXCEPT !.links[1].inertial = x] : x \in InertialDefects}
    \cup {[Arm EXCEPT !.joints[2] = x] : x \in JointDefects}

SomeDocuments == Trees \cup Broken \cup {Arm}

SomeOptions == [base : {NoName, a, b}, tool : {NoName, b, c, b_sc}]
===============================================================================
