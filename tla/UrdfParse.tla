------------------------------ MODULE UrdfParse ------------------------------
(***************************************************************************)
(* parse_urdf_file: one document, read element by element, links before    *)
(* joints, into the parsed_model that build_chain walks.                   *)
(*                                                                         *)
(* The XML reader (pugixml) is outside the repository; what it hands over  *)
(* is a document of this form:                                             *)
(*   root    "robot", "other" (another root element) or "broken" (no XML)  *)
(*   links   a sequence of [name, inertial]                                *)
(*   joints  a sequence of [name, type, mimic, parent, child, origin,      *)
(*           axis, limit]                                                  *)
(* A missing attribute or element is Absent; reading a missing name yields *)
(* the empty string, NoName.  A number is a token, "zero", "one", "nan",   *)
(* or "junk"; a triple is a sequence of tokens.                            *)
(***************************************************************************)
EXTENDS Naturals, Sequences, FiniteSets

CONSTANTS
  Documents,  \* the documents that may be loaded
  Options,    \* load_options: [base, tool], NoName for the empty string
  Absent,     \* a missing element or attribute
  NoName      \* the empty string

ASSUME NameAssumption == Absent \notin {NoName, "-inf", "inf"}

Elements(sequence) == {sequence[i] : i \in DOMAIN sequence}

ASSUME DocumentAssumption ==
  \A d \in Documents :
    /\ d.links \in Seq(Elements(d.links)) /\ d.joints \in Seq(Elements(d.joints))
    /\ \A link \in Elements(d.links) : link.name # Absent
    /\ \A joint \in Elements(d.joints) : joint.mimic \in BOOLEAN

VARIABLES
  doc, opts,  \* the arguments of load_urdf
  pc,         \* which loop the loader is in
  next,       \* the next element of that loop
  links,      \* model.links
  joints,     \* model.joints
  error       \* the kind of the urdf_error that was returned, or "none"

parsing == <<doc, opts, pc, next, links, joints, error>>

NamesOf(elements) == {elements[i].name : i \in DOMAIN elements}

\* The strict rejections are tests made in an order; the first that fails names the error.
FirstFailure(checks) ==
  LET failed == {i \in DOMAIN checks : checks[i].fails}
  IN IF failed = {} THEN "none"
     ELSE checks[CHOOSE i \in failed : \A j \in failed : i <= j].kind

Check(fails, kind) == [fails |-> fails, kind |-> kind]

\* as_finite_double: the XML reader turns a missing or unreadable number into zero.
Finite(token) == token # "nan"

Positive(token) == token = "one"

\* parse_triple: exactly three fields, each a finite number read to its end.
ParsesTriple(fields) ==
  Len(fields) = 3 /\ \A i \in 1..3 : fields[i] \notin {"nan", "junk"}

\* An optional triple: only a present attribute can be malformed.
TripleOk(attr) == attr # Absent => ParsesTriple(attr)

\* parse_origin over both attributes.
OriginOk(origin) == origin # Absent => TripleOk(origin.xyz) /\ TripleOk(origin.rpy)

\* parse_inertial, with <mass>, <origin> and <inertia> in the order they are tested.
\* A diagonal entry is "negative" when it is below zero.
InertialError(inertial) ==
  IF inertial = Absent THEN "none"
  ELSE FirstFailure(<<
    Check(inertial.mass = Absent, "inertial_singular"),
    Check(~Finite(inertial.mass), "non_finite_value"),
    Check(~Positive(inertial.mass), "inertial_singular"),
    Check(~TripleOk(inertial.com), "inertial_singular"),
    Check(inertial.inertia = Absent, "inertial_singular"),
    Check(~Finite(inertial.inertia), "non_finite_value"),
    Check(inertial.inertia = "negative", "inertial_singular") >>)

\* The tests of one pass over a <link>.
LinkError(link) ==
  FirstFailure(<<
    Check(link.name = NoName, "malformed_xml"),
    Check(link.name \in NamesOf(links), "duplicate_name"),
    Check(InertialError(link.inertial) # "none", InertialError(link.inertial)) >>)

JointKinds == {"fixed", "revolute", "continuous", "prismatic"}

\* read_limit_attr over the four attributes of <limit>.
LimitOk(limit) ==
  limit # Absent =>
    \A attr \in {"lower", "upper", "velocity", "effort"} :
      limit[attr] # Absent => Finite(limit[attr])

\* Slip: the child link is looked up and never inserted.
SlipNotInserted == {}

ChildLinks == {joints[i].child : i \in DOMAIN joints}

\* The tests of one pass over a <joint>.
JointError(joint) ==
  FirstFailure(<<
    Check(joint.name = NoName, "malformed_xml"),
    Check(joint.name \in NamesOf(joints), "duplicate_name"),
    Check(joint.type \notin JointKinds, "unsupported_joint_type"),
    Check(joint.mimic, "mimic_joint_unsupported"),
    Check(Absent \in {joint.parent, joint.child}, "malformed_xml"),
    Check(joint.parent \notin NamesOf(links), "unknown_parent_link"),
    Check(joint.child \notin NamesOf(links), "unknown_link_reference"),
    Check(joint.parent = joint.child, "cyclic_kinematic_tree"),
    Check(joint.child \in ChildLinks, "multi_parent_link"),
    Check(~OriginOk(joint.origin), "malformed_xml"),
    Check(~TripleOk(joint.axis), "malformed_xml"),
    Check(~LimitOk(joint.limit), "non_finite_value") >>)

(***************************************************************************)
(* What is kept of an element: parsed_link, parsed_joint.                  *)
(***************************************************************************)

ParsedLink(link) == [name |-> link.name, inertial |-> link.inertial # Absent]

UnitX == <<"one", "zero", "zero">>

LimitAttr(joint, attr) == IF joint.limit = Absent THEN Absent ELSE joint.limit[attr]

ParsedJoint(joint) ==
  [name |-> joint.name, kind |-> joint.type,
   parent |-> joint.parent, child |-> joint.child,
   axis |-> IF joint.axis = Absent THEN UnitX ELSE joint.axis,
   position_min |-> LimitAttr(joint, "lower"), position_max |-> LimitAttr(joint, "upper"),
   velocity_max |-> LimitAttr(joint, "velocity"), effort_max |-> LimitAttr(joint, "effort")]

(***************************************************************************)
(* The parser.                                                             *)
(***************************************************************************)

ParseInit ==
  /\ doc \in Documents /\ opts \in Options
  /\ pc = "load" /\ next = 1
  /\ links = << >> /\ joints = << >>
  /\ error = "none"

Fail(kind) == pc' = "failed" /\ error' = kind

\* load_file and the <robot> element.
LoadFile ==
  /\ pc = "load"
  /\ IF doc.root = "robot" THEN pc' = "links" /\ UNCHANGED error
                           ELSE Fail("malformed_xml")
  /\ UNCHANGED <<doc, opts, next, links, joints>>

\* Pass 1.
ReadLink ==
  /\ pc = "links" /\ next <= Len(doc.links)
  /\ LET kind == LinkError(doc.links[next])
     IN IF kind = "none"
        THEN /\ links' = Append(links, ParsedLink(doc.links[next]))
             /\ next' = next + 1
             /\ UNCHANGED <<pc, error>>
        ELSE Fail(kind) /\ UNCHANGED <<links, next>>
  /\ UNCHANGED <<doc, opts, joints>>

LinksRead ==
  /\ pc = "links" /\ next > Len(doc.links)
  /\ pc' = "joints" /\ next' = 1
  /\ UNCHANGED <<doc, opts, links, joints, error>>

\* Pass 2, with every link name known.
ReadJoint ==
  /\ pc = "joints" /\ next <= Len(doc.joints)
  /\ LET kind == JointError(doc.joints[next])
     IN IF kind = "none"
        THEN /\ joints' = Append(joints, ParsedJoint(doc.joints[next]))
             /\ next' = next + 1
             /\ UNCHANGED <<pc, error>>
        ELSE Fail(kind) /\ UNCHANGED <<joints, next>>
  /\ UNCHANGED <<doc, opts, links>>

JointsRead ==
  /\ pc = "joints" /\ next > Len(doc.joints)
  /\ pc' = "build"
  /\ UNCHANGED <<doc, opts, next, links, joints, error>>

Parse == LoadFile \/ ReadLink \/ LinksRead \/ ReadJoint \/ JointsRead

(***************************************************************************)
(* The model that leaves the parser.                                       *)
(***************************************************************************)

\* A document the URDF rules allow.
WellFormed(d) ==
  /\ d.root = "robot"
  /\ \A i \in DOMAIN d.links :
       /\ d.links[i].name # NoName
       /\ InertialError(d.links[i].inertial) = "none"
       /\ \A j \in DOMAIN d.links : d.links[i].name = d.links[j].name => i = j
  /\ \A i \in DOMAIN d.joints :
       /\ d.joints[i].name # NoName /\ d.joints[i].type \in JointKinds /\ ~d.joints[i].mimic
       /\ {d.joints[i].parent, d.joints[i].child} \subseteq NamesOf(d.links)
       /\ d.joints[i].parent # d.joints[i].child
       /\ OriginOk(d.joints[i].origin) /\ TripleOk(d.joints[i].axis) /\ LimitOk(d.joints[i].limit)
       /\ \A j \in DOMAIN d.joints :
            \/ i = j
            \/ d.joints[i].name # d.joints[j].name /\ d.joints[i].child # d.joints[j].child

Parsed == pc \notin {"load", "links", "joints", "failed"}

\* The parser is strict and no stricter: a model that reaches the chain extractor
\* is the whole document, with names that name one thing and at most one joint above
\* each link, and a document like that is never turned away in the passes, whose checks
\* see only the elements read before.
ParserIsExact ==
  /\ Parsed =>
       /\ WellFormed(doc)
       /\ Len(links) = Len(doc.links) /\ NamesOf(links) = NamesOf(doc.links)
       /\ Len(joints) = Len(doc.joints) /\ NamesOf(joints) = NamesOf(doc.joints)
  /\ pc = "failed" /\ WellFormed(doc) => Len(joints) = Len(doc.joints)
===============================================================================
