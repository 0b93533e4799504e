------------------------------ MODULE UrdfProofs ------------------------------
(***************************************************************************)
(* For every document, whatever its size and however its joints connect    *)
(* its links: the parser is exact, a loaded chain is the path from base to *)
(* tool, and the walk is refused only for what is there.                   *)
(***************************************************************************)
EXTENDS UrdfBuild, SequenceTheorems, FiniteSetTheorems, WellFoundedInduction, TLAPS

(***************************************************************************)
(* Tests made in an order.                                                 *)
(***************************************************************************)

\* A nonempty set of naturals has a least element.
LEMMA LeastNumber ==
  ASSUME NEW T, T \subseteq Nat, T # {}
  PROVE  \E x \in T : \A y \in T : x <= y
<1> DEFINE U == {0..x : x \in T}
<1> DEFINE R == StrictSubsetOrdering(Nat)
<1>1. IsWellFoundedOn(R, FiniteSubsetsOf(Nat))
  BY FS_StrictSubsetOrderingWellFounded
<1>2. U \subseteq FiniteSubsetsOf(Nat) /\ U # {}
  <2>1. \A x \in T : x \in Nat /\ IsFiniteSet(0..x) /\ 0..x \in SUBSET Nat
    BY FS_Interval
  <2> QED BY <2>1 DEF FiniteSubsetsOf
<1>3. PICK m \in U : \A w \in U : <<w, m>> \notin R
  <2> HIDE DEF U, R
  <2> QED BY <1>1, <1>2, WFMin
<1>4. PICK x \in T : m = 0..x
  BY <1>3
<1>5. ASSUME NEW y \in T, y < x PROVE FALSE
  <2>1. 0..y \in SUBSET Nat /\ 0..x \in SUBSET Nat /\ 0..y \subseteq 0..x
    BY <1>5
  <2>2. x \in 0..x /\ x \notin 0..y
    BY <1>5
  <2>3. <<0..y, 0..x>> \in R
    BY <2>1, <2>2 DEF StrictSubsetOrdering
  <2> QED BY <1>3, <1>4, <2>3
<1>6. \A y \in T : x <= y
  BY <1>5
<1> QED BY <1>6

\* No test is reported exactly when none fails, and otherwise one that fails is.
LEMMA FirstFailureIs ==
  ASSUME NEW n \in Nat, NEW checks, DOMAIN checks = 1..n,
         \A i \in 1..n : checks[i].fails => checks[i].kind # "none"
  PROVE  /\ FirstFailure(checks) = "none" => \A i \in 1..n : ~checks[i].fails
         /\ FirstFailure(checks) # "none" =>
              \E i \in 1..n : checks[i].fails /\ checks[i].kind = FirstFailure(checks)
<1> DEFINE failed == {i \in DOMAIN checks : checks[i].fails}
<1>1. CASE failed = {}
  BY <1>1 DEF FirstFailure
<1>2. CASE failed # {}
  <2>1. failed \subseteq Nat
    OBVIOUS
  <2>2. \E i \in failed : \A j \in failed : i <= j
    <3> HIDE DEF failed
    <3> QED BY <1>2, <2>1, LeastNumber
  <2> DEFINE f == CHOOSE i \in failed : \A j \in failed : i <= j
  <2>3. f \in failed
    <3> HIDE DEF failed
    <3> QED BY <2>2
  <2>4. FirstFailure(checks) = checks[f].kind
    BY <1>2, Zenon DEF FirstFailure
  <2> HIDE DEF f
  <2>5. f \in 1..n /\ checks[f].fails
    BY <2>3
  <2> QED BY <2>4, <2>5
<1> QED BY <1>1, <1>2

\* What a <link> is kept or refused for.
LEMMA LinkErrorIs ==
  ASSUME NEW link
  PROVE  LinkError(link) = "none" <=>
           /\ link.name # NoName /\ link.name \notin NamesOf(links)
           /\ InertialError(link.inertial) = "none"
<1> DEFINE checks == <<
    Check(link.name = NoName, "malformed_xml"),
    Check(link.name \in NamesOf(links), "duplicate_name"),
    Check(InertialError(link.inertial) # "none", InertialError(link.inertial)) >>
<1>1. LinkError(link) = FirstFailure(checks)
  BY Zenon DEF LinkError
<1>2. DOMAIN checks = 1..3
  OBVIOUS
<1>3. /\ (checks[1].fails <=> link.name = NoName) /\ checks[1].kind = "malformed_xml"
      /\ (checks[2].fails <=> link.name \in NamesOf(links)) /\ checks[2].kind = "duplicate_name"
      /\ checks[3].fails <=> (InertialError(link.inertial) # "none")
      /\ checks[3].kind = InertialError(link.inertial)
  BY DEF Check
<1> HIDE DEF checks
<1>4. \A i \in 1..3 : checks[i].fails => checks[i].kind # "none"
  BY <1>3
<1>5. /\ FirstFailure(checks) = "none" => \A i \in 1..3 : ~checks[i].fails
      /\ FirstFailure(checks) # "none" =>
           \E i \in 1..3 : checks[i].fails /\ checks[i].kind = FirstFailure(checks)
  BY <1>2, <1>4, FirstFailureIs
<1> QED BY <1>1, <1>3, <1>5

\* The tests of a <joint> that look at no other joint.
JointOk(joint) ==
  /\ joint.name # NoName /\ joint.type \in JointKinds /\ ~joint.mimic
  /\ Absent \notin {joint.parent, joint.child}
  /\ {joint.parent, joint.child} \subseteq NamesOf(links) /\ joint.parent # joint.child
  /\ OriginOk(joint.origin) /\ TripleOk(joint.axis) /\ LimitOk(joint.limit)

\* What a <joint> is kept or refused for.
LEMMA JointErrorIs ==
  ASSUME NEW joint, joint.mimic \in BOOLEAN
  PROVE  JointError(joint) = "none" <=>
           JointOk(joint) /\ joint.name \notin NamesOf(joints) /\ joint.child \notin ChildLinks
<1> DEFINE checks == <<
    Check(joint.name = NoName, "malformed_xml"),
    Check(joint.name \in NamesOf(joints), "duplicate_name"),
    Check(joint.type \notin JointKinds, "unsupported_joint_type"),
    Check(joint.mimic, "mimic_joint_unsupported"),
    Check(Absent \in {joint.parent, joint.child}, "malformed_xml"),
    Check(joint.parent \notin NamesOf(links), "unknown_parent_link"),
    Check(joint.child \notin NamesOf(links), "unknown_link_reference"),
    Check(joint.parent = joint.child, "cyclic_kinematic_tree"),
    Check(joint.child \in ChildLinks, "multi_parent_link"),
    Check(~OriginOk(joint.origin), "malformed_xml"),
    Check(~TripleOk(joint.axis), "malformed_xml"),
    Check(~LimitOk(joint.limit), "non_finite_value") >>
<1>1. JointError(joint) = FirstFailure(checks)
  BY Zenon DEF JointError
<1>2. DOMAIN checks = 1..12
  OBVIOUS
<1>3. /\ checks[1].fails <=> (joint.name = NoName)
      /\ checks[2].fails <=> (joint.name \in NamesOf(joints))
      /\ checks[3].fails <=> (joint.type \notin JointKinds)
      /\ checks[4].fails <=> joint.mimic
      /\ checks[5].fails <=> (Absent \in {joint.parent, joint.child})
      /\ checks[6].fails <=> (joint.parent \notin NamesOf(links))
      /\ checks[7].fails <=> (joint.child \notin NamesOf(links))
      /\ checks[8].fails <=> (joint.parent = joint.child)
      /\ checks[9].fails <=> (joint.child \in ChildLinks)
      /\ checks[10].fails <=> ~OriginOk(joint.origin)
      /\ checks[11].fails <=> ~TripleOk(joint.axis)
      /\ checks[12].fails <=> ~LimitOk(joint.limit)
  BY DEF Check
<1>4. \A i \in 1..12 : checks[i].kind # "none"
  BY DEF Check
<1> HIDE DEF checks
<1>5. /\ FirstFailure(checks) = "none" => \A i \in 1..12 : ~checks[i].fails
      /\ FirstFailure(checks) # "none" =>
           \E i \in 1..12 : checks[i].fails /\ checks[i].kind = FirstFailure(checks)
  BY <1>2, <1>4, FirstFailureIs
<1>6. \A i \in 1..12 : i \in {1, 2, 3, 4, 5, 6, 7, 8, 9, 10, 11, 12}
  OBVIOUS
<1>7. ASSUME \A i \in 1..12 : ~checks[i].fails
      PROVE  JointOk(joint) /\ joint.name \notin NamesOf(joints) /\ joint.child \notin ChildLinks
  <2>1. /\ ~checks[1].fails /\ ~checks[2].fails /\ ~checks[3].fails /\ ~checks[4].fails
        /\ ~checks[5].fails /\ ~checks[6].fails /\ ~checks[7].fails /\ ~checks[8].fails
        /\ ~checks[9].fails /\ ~checks[10].fails /\ ~checks[11].fails /\ ~checks[12].fails
    BY <1>7
  <2> QED BY <1>3, <2>1 DEF JointOk
<1>8. ASSUME JointOk(joint), joint.name \notin NamesOf(joints), joint.child \notin ChildLinks
      PROVE  \A i \in 1..12 : ~checks[i].fails
  <2>1. /\ ~checks[1].fails /\ ~checks[2].fails /\ ~checks[3].fails /\ ~checks[4].fails
        /\ ~checks[5].fails /\ ~checks[6].fails /\ ~checks[7].fails /\ ~checks[8].fails
        /\ ~checks[9].fails /\ ~checks[10].fails /\ ~checks[11].fails /\ ~checks[12].fails
    BY <1>3, <1>8 DEF JointOk
  <2> QED BY <1>6, <2>1
<1> QED BY <1>1, <1>5, <1>7, <1>8

(***************************************************************************)
(* The parser.                                                             *)
(***************************************************************************)
IsSequence(s) == Len(s) \in Nat /\ s = [i \in 1..Len(s) |-> s[i]]

\* The elements of a document come in sequences.
LEMMA DocumentIs ==
  ASSUME NEW d \in Documents
  PROVE  /\ IsSequence(d.links) /\ DOMAIN d.links = 1..Len(d.links)
         /\ IsSequence(d.joints) /\ DOMAIN d.joints = 1..Len(d.joints)
         /\ \A i \in 1..Len(d.links) : d.links[i].name # Absent
         /\ \A i \in 1..Len(d.joints) : d.joints[i].mimic \in BOOLEAN
<1>1. d.links \in Seq(Elements(d.links)) /\ d.joints \in Seq(Elements(d.joints))
  BY DocumentAssumption
<1>2. /\ Len(d.links) \in Nat /\ DOMAIN d.links = 1..Len(d.links)
      /\ d.links \in [1..Len(d.links) -> Elements(d.links)]
  BY <1>1, LenProperties
<1>3. /\ Len(d.joints) \in Nat /\ DOMAIN d.joints = 1..Len(d.joints)
      /\ d.joints \in [1..Len(d.joints) -> Elements(d.joints)]
  BY <1>1, LenProperties
<1>4. IsSequence(d.links) /\ IsSequence(d.joints)
  BY <1>2, <1>3 DEF IsSequence
<1> QED BY <1>2, <1>3, <1>4, DocumentAssumption

\* One more element at the end.
LEMMA Appended ==
  ASSUME NEW s, NEW e, IsSequence(s)
  PROVE  /\ IsSequence(Append(s, e)) /\ Len(Append(s, e)) = Len(s) + 1
         /\ \A i \in 1..Len(s) : Append(s, e)[i] = s[i]
         /\ Append(s, e)[Len(s) + 1] = e
<1> DEFINE S == {s[i] : i \in 1..Len(s)} \cup {e}
<1>1. Len(s) \in Nat /\ s \in [1..Len(s) -> S]
  BY DEF IsSequence
<1>2. s \in Seq(S) /\ e \in S
  BY <1>1, SeqDef
<1> HIDE DEF S
<1>3. /\ Append(s, e) \in Seq(S) /\ Len(Append(s, e)) = Len(s) + 1
      /\ \A i \in 1..Len(s) : Append(s, e)[i] = s[i]
      /\ Append(s, e)[Len(s) + 1] = e
  BY <1>2, AppendProperties
<1>4. /\ Len(Append(s, e)) \in Nat
      /\ Append(s, e) \in [1..Len(Append(s, e)) -> S]
  BY <1>3, LenProperties
<1>5. IsSequence(Append(s, e))
  BY <1>4 DEF IsSequence
<1> QED BY <1>3, <1>5

\* What the first n links of a document are when they have been read ...
LinksGood(d, n) ==
  \A i \in 1..n :
    /\ d.links[i].name # NoName /\ InertialError(d.links[i].inertial) = "none"
    /\ \A j \in 1..n : d.links[i].name = d.links[j].name => i = j

\* ... and the first n joints.
JointGood(d, joint) ==
  /\ joint.name # NoName /\ joint.type \in JointKinds /\ ~joint.mimic
  /\ {joint.parent, joint.child} \subseteq NamesOf(d.links) /\ joint.parent # joint.child
  /\ OriginOk(joint.origin) /\ TripleOk(joint.axis) /\ LimitOk(joint.limit)

JointsGood(d, n) ==
  \A i \in 1..n :
    /\ JointGood(d, d.joints[i])
    /\ \A j \in 1..n : i = j \/ (d.joints[i].name # d.joints[j].name
                                  /\ d.joints[i].child # d.joints[j].child)

\* A document the rules allow is one whose links and joints are all good.
LEMMA WellFormedIs ==
  ASSUME NEW d \in Documents
  PROVE  WellFormed(d) <=>
           d.root = "robot" /\ LinksGood(d, Len(d.links)) /\ JointsGood(d, Len(d.joints))
BY DocumentIs, Zenon DEF WellFormed, LinksGood, JointsGood, JointGood

\* The parser has read the first links and joints of the document, and all are good; it
\* fails only where the next one is not.
ReadLinks ==
  /\ IsSequence(links) /\ Len(links) <= Len(doc.links) /\ LinksGood(doc, Len(links))
  /\ \A i \in 1..Len(links) : links[i] = ParsedLink(doc.links[i])

ReadJoints ==
  /\ IsSequence(joints) /\ Len(joints) <= Len(doc.joints) /\ JointsGood(doc, Len(joints))
  /\ \A i \in 1..Len(joints) : joints[i] = ParsedJoint(doc.joints[i])

AllRead == doc.root = "robot" /\ Len(links) = Len(doc.links) /\ Len(joints) = Len(doc.joints)

ParseInv ==
  /\ doc \in Documents /\ ReadLinks /\ ReadJoints
  /\ pc = "load" => next = 1 /\ Len(links) = 0 /\ Len(joints) = 0
  /\ pc = "links" => doc.root = "robot" /\ Len(joints) = 0 /\ next = Len(links) + 1
  /\ pc = "joints" =>
       doc.root = "robot" /\ Len(links) = Len(doc.links) /\ next = Len(joints) + 1
  /\ pc \notin {"load", "links", "joints", "failed"} => AllRead
  /\ pc = "failed" => AllRead \/ ~WellFormed(doc)

\* The names of what has been read.
LEMMA NamesRead ==
  ASSUME doc \in Documents, ReadLinks, ReadJoints
  PROVE  /\ NamesOf(links) = {doc.links[i].name : i \in 1..Len(links)}
         /\ NamesOf(joints) = {doc.joints[i].name : i \in 1..Len(joints)}
         /\ ChildLinks = {doc.joints[i].child : i \in 1..Len(joints)}
         /\ Len(links) = Len(doc.links) => NamesOf(links) = NamesOf(doc.links)
         /\ Len(joints) = Len(doc.joints) => NamesOf(joints) = NamesOf(doc.joints)
         /\ DOMAIN links = 1..Len(links) /\ DOMAIN joints = 1..Len(joints)
<1>1. DOMAIN links = 1..Len(links) /\ DOMAIN joints = 1..Len(joints)
  BY DEF ReadLinks, ReadJoints, IsSequence
<1>2. \A i \in 1..Len(links) : links[i].name = doc.links[i].name
  <2>1. \A i \in 1..Len(links) : links[i] = ParsedLink(doc.links[i])
    BY DEF ReadLinks
  <2>2. \A link : ParsedLink(link).name = link.name
    BY DEF ParsedLink
  <2> QED BY <2>1, <2>2
<1>3. \A i \in 1..Len(joints) :
        joints[i].name = doc.joints[i].name /\ joints[i].child = doc.joints[i].child
  <2>1. \A i \in 1..Len(joints) : joints[i] = ParsedJoint(doc.joints[i])
    BY DEF ReadJoints
  <2>2. \A joint : ParsedJoint(joint).name = joint.name /\ ParsedJoint(joint).child = joint.child
    BY DEF ParsedJoint
  <2> QED BY <2>1, <2>2
<1>4. DOMAIN doc.links = 1..Len(doc.links) /\ DOMAIN doc.joints = 1..Len(doc.joints)
  BY DocumentIs
<1>5. /\ NamesOf(links) = {doc.links[i].name : i \in 1..Len(links)}
      /\ NamesOf(joints) = {doc.joints[i].name : i \in 1..Len(joints)}
      /\ ChildLinks = {doc.joints[i].child : i \in 1..Len(joints)}
  BY <1>1, <1>2, <1>3 DEF NamesOf, ChildLinks
<1>6. /\ NamesOf(doc.links) = {doc.links[i].name : i \in 1..Len(doc.links)}
      /\ NamesOf(doc.joints) = {doc.joints[i].name : i \in 1..Len(doc.joints)}
  BY <1>4 DEF NamesOf
<1> QED BY <1>1, <1>5, <1>6

\* A pass over one <link>.
LEMMA ReadLinkKeeps ==
  ASSUME ParseInv, ReadLink
  PROVE  ParseInv'
<1> DEFINE link == doc.links[next]
<1>1. /\ doc \in Documents /\ ReadLinks /\ ReadJoints /\ pc = "links" /\ doc.root = "robot"
      /\ Len(joints) = 0 /\ next = Len(links) + 1 /\ next <= Len(doc.links)
      /\ doc' = doc /\ joints' = joints
  BY DEF ParseInv, ReadLink
<1>2. next \in 1..Len(doc.links) /\ Len(doc.links) \in Nat /\ Len(links) \in Nat
  BY <1>1, DocumentIs DEF ReadLinks, IsSequence
<1>3. ReadJoints'
  BY <1>1 DEF ReadJoints
<1>4. LinkError(link) = "none" <=>
        /\ link.name # NoName /\ \A i \in 1..Len(links) : doc.links[i].name # link.name
        /\ InertialError(link.inertial) = "none"
  BY <1>1, LinkErrorIs, NamesRead
<1>5. CASE LinkError(link) = "none"
  <2>1. links' = Append(links, ParsedLink(link)) /\ next' = next + 1 /\ pc' = pc
    BY <1>5 DEF ReadLink
  <2>2. /\ IsSequence(links') /\ Len(links') = Len(links) + 1
        /\ \A i \in 1..Len(links) : links'[i] = links[i]
        /\ links'[next] = ParsedLink(link)
    BY <1>1, <2>1, Appended DEF ReadLinks
  <2>3. \A i \in 1..Len(links') : i \in 1..Len(links) \/ i = next
    BY <1>1, <1>2, <2>2
  <2>4. LinksGood(doc, Len(links'))
    BY <1>1, <1>2, <1>4, <1>5, <2>3 DEF LinksGood, ReadLinks
  <2>5. \A i \in 1..Len(links') : links'[i] = ParsedLink(doc.links[i])
    BY <1>1, <2>2, <2>3 DEF ReadLinks
  <2>6. ReadLinks'
    BY <1>1, <1>2, <2>2, <2>4, <2>5 DEF ReadLinks
  <2> QED BY <1>1, <1>2, <1>3, <2>1, <2>2, <2>6 DEF ParseInv
<1>6. CASE LinkError(link) # "none"
  <2>1. links' = links /\ pc' = "failed"
    BY <1>6 DEF ReadLink, Fail
  <2>2. ~LinksGood(doc, Len(doc.links))
    BY <1>1, <1>2, <1>4, <1>6 DEF LinksGood
  <2>3. ~WellFormed(doc)
    BY <1>1, <2>2, WellFormedIs
  <2> QED BY <1>1, <1>3, <2>1, <2>3 DEF ParseInv, ReadLinks
<1> QED BY <1>5, <1>6

\* A pass over one <joint>.
LEMMA ReadJointKeeps ==
  ASSUME ParseInv, ReadJoint
  PROVE  ParseInv'
<1> DEFINE joint == doc.joints[next]
<1>1. /\ doc \in Documents /\ ReadLinks /\ ReadJoints /\ pc = "joints" /\ doc.root = "robot"
      /\ Len(links) = Len(doc.links) /\ next = Len(joints) + 1 /\ next <= Len(doc.joints)
      /\ doc' = doc /\ links' = links
  BY DEF ParseInv, ReadJoint
<1>2. next \in 1..Len(doc.joints) /\ Len(doc.joints) \in Nat /\ Len(joints) \in Nat
  BY <1>1, DocumentIs DEF ReadJoints, IsSequence
<1>3. ReadLinks'
  BY <1>1 DEF ReadLinks
<1>4. NamesOf(links) = NamesOf(doc.links) /\ Absent \notin NamesOf(links)
  BY <1>1, NamesRead, DocumentIs
<1>5. JointOk(joint) <=> JointGood(doc, joint)
  BY <1>4 DEF JointOk, JointGood
<1>6. joint.mimic \in BOOLEAN
  BY <1>1, <1>2, DocumentIs
<1>7. JointError(joint) = "none" <=>
        /\ JointGood(doc, joint)
        /\ \A i \in 1..Len(joints) :
             doc.joints[i].name # joint.name /\ doc.joints[i].child # joint.child
  <2>1. JointError(joint) = "none" <=>
          JointOk(joint) /\ joint.name \notin NamesOf(joints) /\ joint.child \notin ChildLinks
    BY <1>6, JointErrorIs
  <2> HIDE DEF joint
  <2>2. joint.name \notin NamesOf(joints) <=> \A i \in 1..Len(joints) : doc.joints[i].name # joint.name
    BY <1>1, NamesRead
  <2>3. joint.child \notin ChildLinks <=> \A i \in 1..Len(joints) : doc.joints[i].child # joint.child
    BY <1>1, NamesRead
  <2> QED BY <1>5, <2>1, <2>2, <2>3
<1>8. CASE JointError(joint) = "none"
  <2>1. joints' = Append(joints, ParsedJoint(joint)) /\ next' = next + 1 /\ pc' = pc
    BY <1>8 DEF ReadJoint
  <2>2. /\ IsSequence(joints') /\ Len(joints') = Len(joints) + 1
        /\ \A i \in 1..Len(joints) : joints'[i] = joints[i]
        /\ joints'[next] = ParsedJoint(joint)
    BY <1>1, <2>1, Appended DEF ReadJoints
  <2>3. \A i \in 1..Len(joints') : i \in 1..Len(joints) \/ i = next
    BY <1>1, <1>2, <2>2
  <2>4. JointsGood(doc, Len(joints'))
    BY <1>1, <1>2, <1>7, <1>8, <2>3 DEF JointsGood, ReadJoints
  <2>5. \A i \in 1..Len(joints') : joints'[i] = ParsedJoint(doc.joints[i])
    BY <1>1, <2>2, <2>3 DEF ReadJoints
  <2>6. ReadJoints'
    BY <1>1, <1>2, <2>2, <2>4, <2>5 DEF ReadJoints
  <2> QED BY <1>1, <1>2, <1>3, <2>1, <2>2, <2>6 DEF ParseInv
<1>9. CASE JointError(joint) # "none"
  <2>1. joints' = joints /\ pc' = "failed"
    BY <1>9 DEF ReadJoint, Fail
  <2>2. ~JointsGood(doc, Len(doc.joints))
    BY <1>1, <1>2, <1>7, <1>9 DEF JointsGood
  <2>3. ~WellFormed(doc)
    BY <1>1, <2>2, WellFormedIs
  <2> QED BY <1>1, <1>3, <2>1, <2>3 DEF ParseInv, ReadJoints
<1> QED BY <1>8, <1>9

\* build_chain works on what the parser has read, and leaves it as it is.
LEMMA BuildReads ==
  ASSUME Build
  PROVE  /\ pc \in {"build", "walk", "end"} /\ pc' \in {"walk", "end", "loaded", "failed"}
         /\ UNCHANGED <<doc, opts, links, joints>>
<1>1. CASE Refused
  BY <1>1 DEF Refused, BuildFails, Fail
<1>2. CASE StartWalk
  BY <1>2 DEF StartWalk
<1>3. CASE CycleFound \/ WalkEnds \/ Branched \/ MobileRefused
  BY <1>3 DEF CycleFound, WalkEnds, Branched, MobileRefused, BuildFails, Fail, Walking, GoesAlong
<1>4. CASE FoldLeaf \/ FoldFixed \/ Mobile
  BY <1>4 DEF FoldLeaf, FoldFixed, Mobile, Moved, parsing, Walking, GoesAlong
<1>5. CASE Unreachable \/ Deliver
  BY <1>5 DEF Unreachable, Deliver, BuildFails, Fail
<1> QED BY <1>1, <1>2, <1>3, <1>4, <1>5 DEF Build

\* Nothing has been read before the first element.
LEMMA ParseStarts == Init => ParseInv
<1> SUFFICES ASSUME Init PROVE ParseInv
  OBVIOUS
<1>1. doc \in Documents /\ pc = "load" /\ next = 1 /\ links = << >> /\ joints = << >>
  BY DEF Init, ParseInit
<1>2. Len(links) = 0 /\ Len(joints) = 0 /\ IsSequence(links) /\ IsSequence(joints)
  BY <1>1 DEF IsSequence
<1>3. Len(doc.links) \in Nat /\ Len(doc.joints) \in Nat
  BY <1>1, DocumentIs DEF IsSequence
<1> QED BY <1>1, <1>2, <1>3 DEF ParseInv, ReadLinks, ReadJoints, LinksGood, JointsGood

\* Every step of the loader keeps what is known of the document.
LEMMA ParseKeeps == ParseInv /\ [Next]_vars => ParseInv'
<1> SUFFICES ASSUME ParseInv, [Next]_vars PROVE ParseInv'
  OBVIOUS
<1>1. CASE LoadFile
  <2>1. ReadLinks' /\ ReadJoints' /\ doc' = doc /\ links' = links /\ joints' = joints
    BY <1>1 DEF LoadFile, ParseInv, ReadLinks, ReadJoints
  <2>2. pc = "load" /\ next' = next /\ doc.root = "robot" => pc' = "links"
    BY <1>1 DEF LoadFile
  <2>3. doc.root # "robot" => pc' = "failed" /\ ~WellFormed(doc)
    BY <1>1 DEF LoadFile, Fail, WellFormed
  <2>4. next = 1
    BY <1>1 DEF LoadFile, ParseInv
  <2> QED BY <1>1, <2>1, <2>2, <2>3, <2>4 DEF ParseInv, LoadFile
<1>2. CASE ReadLink
  BY <1>2, ReadLinkKeeps
<1>3. CASE LinksRead
  <2>1. /\ pc = "links" /\ next > Len(doc.links) /\ pc' = "joints" /\ next' = 1
        /\ UNCHANGED <<doc, links, joints>>
    BY <1>3 DEF LinksRead
  <2>2. Len(links) = Len(doc.links)
    <3>1. Len(doc.links) \in Nat /\ Len(links) \in Nat /\ Len(links) <= Len(doc.links)
      BY DocumentIs DEF ParseInv, ReadLinks, IsSequence
    <3> QED BY <2>1, <3>1 DEF ParseInv
  <2> QED BY <2>1, <2>2 DEF ParseInv, ReadLinks, ReadJoints
<1>4. CASE ReadJoint
  BY <1>4, ReadJointKeeps
<1>5. CASE JointsRead
  <2>1. /\ pc = "joints" /\ next > Len(doc.joints) /\ pc' = "build"
        /\ UNCHANGED <<doc, links, joints>>
    BY <1>5 DEF JointsRead
  <2>2. Len(joints) = Len(doc.joints)
    <3>1. Len(doc.joints) \in Nat /\ Len(joints) \in Nat /\ Len(joints) <= Len(doc.joints)
      BY DocumentIs DEF ParseInv, ReadJoints, IsSequence
    <3> QED BY <2>1, <3>1 DEF ParseInv
  <2> QED BY <2>1, <2>2 DEF ParseInv, ReadLinks, ReadJoints, AllRead
<1>6. CASE Build
  <2>1. /\ pc \in {"build", "walk", "end"} /\ pc' \in {"walk", "end", "loaded", "failed"}
        /\ UNCHANGED <<doc, opts, links, joints>>
    BY <1>6, BuildReads
  <2>2. AllRead /\ AllRead' /\ ReadLinks' /\ ReadJoints' /\ doc' \in Documents
    BY <2>1 DEF ParseInv, AllRead, ReadLinks, ReadJoints
  <2> QED BY <2>1, <2>2 DEF ParseInv
<1>7. CASE UNCHANGED vars
  BY <1>7 DEF vars, parsing, ParseInv, ReadLinks, ReadJoints, AllRead
<1> QED BY <1>1, <1>2, <1>3, <1>4, <1>5, <1>6, <1>7 DEF Next, Parsing, Parse

\* A model that reaches the chain extractor is the whole document and well-formed, and a
\* well-formed document is never refused by the parser, for every document.
THEOREM ParserExact == Spec => []ParserIsExact
<1>1. ParseInv => ParserIsExact
  <2> SUFFICES ASSUME ParseInv PROVE ParserIsExact
    OBVIOUS
  <2>1. doc \in Documents /\ ReadLinks /\ ReadJoints
    BY DEF ParseInv
  <2>2. AllRead => WellFormed(doc)
    BY <2>1, WellFormedIs DEF AllRead, ReadLinks, ReadJoints
  <2>3. AllRead => NamesOf(links) = NamesOf(doc.links) /\ NamesOf(joints) = NamesOf(doc.joints)
    BY <2>1, NamesRead DEF AllRead
  <2> QED BY <2>2, <2>3 DEF ParserIsExact, ParseInv, Parsed, AllRead
<1> QED BY <1>1, ParseStarts, ParseKeeps, PTL DEF Spec

(***************************************************************************)
(* The walk, for joints J over the links N: s is the link it starts from,  *)
(* T the joints it went along.                                             *)
(***************************************************************************)
OutgoingIn(J, l) == {i \in DOMAIN J : J[i].parent = l}
LeafIn(J, i) == J[i].kind = "fixed" /\ OutgoingIn(J, J[i].child) = {}
ContinuingIn(J, l) == {i \in OutgoingIn(J, l) : ~LeafIn(J, i)}
OthersIn(J, l) == {i \in OutgoingIn(J, l) : ~(LeafIn(J, i) /\ J[i].child = Wrapper[l])}
TrailingIn(J, l) ==
  IF Cardinality(OutgoingIn(J, l)) = 1 THEN OutgoingIn(J, l)
  ELSE IF Cardinality(OthersIn(J, l)) = 1 THEN OthersIn(J, l) ELSE {}

\* The joint the walk goes along from a link, and a link where it ends.
Follows(J, tool, l, i) ==
  /\ tool = NoName \/ l # tool
  /\ i \in OutgoingIn(J, l)
  /\ \/ ContinuingIn(J, l) = {i}
     \/ ContinuingIn(J, l) = {} /\ TrailingIn(J, l) # {} /\ i = The(TrailingIn(J, l))

Ends(J, tool, l) ==
  \/ tool # NoName /\ l = tool
  \/ ContinuingIn(J, l) = {} /\ TrailingIn(J, l) = {}

\* Joints as the parser leaves them.
Parented(J, N) ==
  /\ IsSequence(J) /\ DOMAIN J = 1..Len(J)
  /\ \A i \in DOMAIN J :
       /\ J[i].parent \in N /\ J[i].child \in N /\ J[i].parent # J[i].child
       /\ \A j \in DOMAIN J : J[i].child = J[j].child => i = j

BelowIn(J, N, l) ==
  {x \in N :
     \A S \in SUBSET N :
       /\ l \in S
       /\ \A i \in DOMAIN J : J[i].parent \in S => J[i].child \in S
       => x \in S}

\* The links below a link contain it and are closed under the joints ...
LEMMA BelowCloses ==
  ASSUME NEW J, NEW N, NEW l \in N, Parented(J, N)
  PROVE  /\ l \in BelowIn(J, N, l)
         /\ \A i \in DOMAIN J : J[i].parent \in BelowIn(J, N, l) => J[i].child \in BelowIn(J, N, l)
BY DEF BelowIn, Parented

\* ... and are contained in every set that does and is.
LEMMA BelowIsLeast ==
  ASSUME NEW J, NEW N, NEW l, NEW S \in SUBSET N, l \in S,
         \A i \in DOMAIN J : J[i].parent \in S => J[i].child \in S
  PROVE  BelowIn(J, N, l) \subseteq S
BY DEF BelowIn

\* The link the k-th joint of the walk starts from.
LinkBefore(J, s, T, k) == IF k = 1 THEN s ELSE J[T[k - 1]].child

Path(J, N, s, tool, T) ==
  /\ IsSequence(T)
  /\ \A k \in 1..Len(T) : T[k] \in DOMAIN J /\ Follows(J, tool, LinkBefore(J, s, T, k), T[k])
  /\ \A k \in 1..(Len(T) + 1) : LinkBefore(J, s, T, k) \in BelowIn(J, N, s)

\* No link has been reached twice ...
Fresh(J, s, T) ==
  \A k \in 1..Len(T) :
    /\ J[T[k]].child # s
    /\ \A m \in 1..Len(T) : J[T[k]].child = J[T[m]].child => k = m

\* ... or a joint leads back to the start, and the walk goes round.
LeadsBack(J, N, s) == \E i \in DOMAIN J : J[i].child = s /\ J[i].parent \in BelowIn(J, N, s)

Rounds(J, s, T) ==
  \E k \in 1..Len(T) : LinkBefore(J, s, T, k) = LinkBefore(J, s, T, Len(T) + 1)

\* The links before the joints of a walk that goes on.
LEMMA LinksBefore ==
  ASSUME NEW J, NEW s, NEW T, IsSequence(T), NEW i
  PROVE  /\ \A k \in 1..(Len(T) + 1) : LinkBefore(J, s, Append(T, i), k) = LinkBefore(J, s, T, k)
         /\ LinkBefore(J, s, Append(T, i), Len(T) + 2) = J[i].child
<1>1. /\ Len(T) \in Nat /\ Len(Append(T, i)) = Len(T) + 1
      /\ \A k \in 1..Len(T) : Append(T, i)[k] = T[k]
      /\ Append(T, i)[Len(T) + 1] = i
  BY Appended DEF IsSequence
<1>2. \A k \in 1..(Len(T) + 1) : k # 1 => k - 1 \in 1..Len(T)
  BY <1>1
<1>3. Len(T) + 2 # 1 /\ (Len(T) + 2) - 1 = Len(T) + 1
  BY <1>1
<1> QED BY <1>1, <1>2, <1>3 DEF LinkBefore

\* A path that is followed one joint further is a path.
LEMMA PathGrows ==
  ASSUME NEW J, NEW N, NEW s, NEW tool, NEW T, Parented(J, N), s \in N, Path(J, N, s, tool, T),
         NEW i \in DOMAIN J, Follows(J, tool, LinkBefore(J, s, T, Len(T) + 1), i)
  PROVE  Path(J, N, s, tool, Append(T, i))
<1> DEFINE U == Append(T, i)
<1>1. /\ IsSequence(U) /\ Len(U) = Len(T) + 1 /\ Len(T) \in Nat
      /\ \A k \in 1..Len(T) : U[k] = T[k]
      /\ U[Len(T) + 1] = i
  BY Appended DEF Path, IsSequence
<1>2. /\ \A k \in 1..(Len(T) + 1) : LinkBefore(J, s, U, k) = LinkBefore(J, s, T, k)
      /\ LinkBefore(J, s, U, Len(T) + 2) = J[i].child
  BY LinksBefore DEF Path
<1> HIDE DEF U
<1>3. ASSUME NEW k \in 1..Len(U)
      PROVE  U[k] \in DOMAIN J /\ Follows(J, tool, LinkBefore(J, s, U, k), U[k])
  <2>1. CASE k \in 1..Len(T)
    BY <1>1, <1>2, <2>1 DEF Path
  <2>2. CASE k = Len(T) + 1
    BY <1>1, <1>2, <2>2
  <2> QED BY <1>1, <2>1, <2>2
<1>4. J[i].child \in BelowIn(J, N, s)
  <2>1. LinkBefore(J, s, T, Len(T) + 1) \in BelowIn(J, N, s)
    BY <1>1 DEF Path
  <2>2. J[i].parent = LinkBefore(J, s, T, Len(T) + 1)
    BY DEF Follows, OutgoingIn
  <2> QED BY <2>1, <2>2, BelowCloses
<1>5. ASSUME NEW k \in 1..(Len(U) + 1)
      PROVE  LinkBefore(J, s, U, k) \in BelowIn(J, N, s)
  <2>1. CASE k \in 1..(Len(T) + 1)
    BY <1>2, <2>1 DEF Path
  <2>2. CASE k = Len(T) + 2
    BY <1>2, <1>4, <2>2
  <2> QED BY <1>1, <2>1, <2>2
<1> QED BY <1>1, <1>3, <1>5 DEF Path, U

\* From every link the walk goes along one joint at most.
LEMMA FollowsOne ==
  ASSUME NEW J, NEW tool, NEW l, NEW i, NEW j, Follows(J, tool, l, i), Follows(J, tool, l, j)
  PROVE  i = j
BY DEF Follows

\* And it does not end where it went on.
LEMMA FollowsOrEnds ==
  ASSUME NEW J, NEW tool, NEW l, NEW i, Follows(J, tool, l, i)
  PROVE  ~Ends(J, tool, l)
BY DEF Follows, Ends

\* A walk reaches a new link with every joint until one leads back to the start; from then
\* on it goes round.
LEMMA FreshOrRound ==
  ASSUME NEW J, NEW N, NEW s, NEW tool, NEW T, Parented(J, N), s \in N, Path(J, N, s, tool, T),
         Fresh(J, s, T) \/ (LeadsBack(J, N, s) /\ Rounds(J, s, T)),
         NEW i \in DOMAIN J, Follows(J, tool, LinkBefore(J, s, T, Len(T) + 1), i)
  PROVE  \/ Fresh(J, s, Append(T, i))
         \/ LeadsBack(J, N, s) /\ Rounds(J, s, Append(T, i))
<1> DEFINE U == Append(T, i)
           here == LinkBefore(J, s, T, Len(T) + 1)
<1>1. /\ IsSequence(U) /\ Len(U) = Len(T) + 1 /\ Len(T) \in Nat
      /\ \A k \in 1..Len(T) : U[k] = T[k] /\ T[k] \in DOMAIN J
      /\ U[Len(T) + 1] = i
  BY Appended DEF Path, IsSequence
<1>2. /\ \A k \in 1..(Len(T) + 1) : LinkBefore(J, s, U, k) = LinkBefore(J, s, T, k)
      /\ LinkBefore(J, s, U, Len(T) + 2) = J[i].child
  BY LinksBefore DEF Path
<1>3. J[i].parent = here /\ here \in BelowIn(J, N, s) /\ J[i].child # here
  BY <1>1 DEF Path, Follows, OutgoingIn, Parented
<1>4. \A k \in 1..Len(T) : J[T[k]].parent = LinkBefore(J, s, T, k)
  BY DEF Path, Follows, OutgoingIn
<1>5. \A k \in 1..Len(T) : LinkBefore(J, s, T, k + 1) = J[T[k]].child
  BY <1>1 DEF LinkBefore
<1>6. LinkBefore(J, s, T, 1) = s
  BY DEF LinkBefore
<1> HIDE DEF U, here
<1>7. CASE J[i].child = s
  <2>1. LeadsBack(J, N, s)
    BY <1>3, <1>7 DEF LeadsBack
  <2>2. LinkBefore(J, s, U, 1) = LinkBefore(J, s, U, Len(U) + 1)
    BY <1>1, <1>2, <1>6, <1>7
  <2>3. 1 \in 1..Len(U)
    BY <1>1
  <2> QED BY <2>1, <2>2, <2>3 DEF Rounds, U
<1>8. CASE Fresh(J, s, T) /\ J[i].child # s
  <2>1. ASSUME NEW k \in 1..Len(T), J[T[k]].child = J[i].child
        PROVE  FALSE
    <3>1. T[k] = i
      BY <1>1, <2>1 DEF Parented
    <3>2. LinkBefore(J, s, T, k) = here
      BY <1>3, <1>4, <3>1
    <3>3. here = J[T[Len(T)]].child /\ Len(T) \in 1..Len(T)
      BY <1>1, <1>5 DEF here
    <3>4. CASE k = 1
      BY <1>6, <1>8, <3>2, <3>3, <3>4 DEF Fresh
    <3>5. CASE k # 1
      <4>1. k - 1 \in 1..Len(T) /\ LinkBefore(J, s, T, k) = J[T[k - 1]].child
        BY <1>1, <1>5, <3>5 DEF LinkBefore
      <4>2. k - 1 = Len(T)
        BY <1>8, <3>2, <3>3, <4>1 DEF Fresh
      <4> QED BY <1>1, <4>2
    <3> QED BY <3>4, <3>5
  <2>2. \A k \in 1..Len(U) : k \in 1..Len(T) \/ k = Len(T) + 1
    BY <1>1
  <2>3. \A k \in 1..Len(T) : J[U[k]].child # J[i].child
    BY <1>1, <2>1
  <2>4. \A k \in 1..Len(T) : U[k] = T[k]
    BY <1>1
  <2>5. Fresh(J, s, U)
    BY <1>1, <1>8, <2>2, <2>3, <2>4 DEF Fresh
  <2> QED BY <2>5 DEF U
<1>9. CASE LeadsBack(J, N, s) /\ Rounds(J, s, T)
  <2>1. PICK k \in 1..Len(T) : LinkBefore(J, s, T, k) = here
    BY <1>9 DEF Rounds, here
  <2>2. Follows(J, tool, here, T[k]) /\ Follows(J, tool, here, i)
    BY <2>1 DEF Path, here
  <2>3. T[k] = i
    BY <2>2, FollowsOne
  <2>4. LinkBefore(J, s, T, k + 1) = J[i].child
    BY <1>5, <2>3
  <2>5. k # Len(T)
    BY <1>3, <2>4 DEF here
  <2>6. k + 1 \in 1..Len(U) /\ k + 1 \in 1..(Len(T) + 1)
    BY <1>1, <2>5
  <2>7. LinkBefore(J, s, U, k + 1) = LinkBefore(J, s, U, Len(U) + 1)
    BY <1>1, <1>2, <2>4, <2>6
  <2>8. Rounds(J, s, U)
    BY <2>6, <2>7 DEF Rounds
  <2> QED BY <1>9, <2>8 DEF U
<1> QED BY <1>7, <1>8, <1>9 DEF U

\* A walk that reaches no link twice uses every joint once, and there are as many as it is long.
LEMMA FreshIsShort ==
  ASSUME NEW J, NEW N, NEW s, NEW tool, NEW T, Parented(J, N), Path(J, N, s, tool, T), Fresh(J, s, T)
  PROVE  Len(T) <= Len(J) /\ Cardinality({T[k] : k \in DOMAIN T}) = Len(T)
<1> DEFINE used == {T[k] : k \in DOMAIN T}
<1>1. Len(T) \in Nat /\ DOMAIN T = 1..Len(T) /\ Len(J) \in Nat /\ DOMAIN J = 1..Len(J)
  BY DEF Path, IsSequence, Parented
<1>2. T \in [1..Len(T) -> used] /\ used \subseteq 1..Len(J)
  BY <1>1 DEF Path, IsSequence
<1>3. \A k, m \in 1..Len(T) : T[k] = T[m] => k = m
  BY DEF Fresh
<1>4. T \in Bijection(1..Len(T), used)
  BY <1>1, <1>2, <1>3 DEF Bijection, Injection, Surjection, IsInjective
<1>5. Cardinality(used) = Len(T)
  <2> HIDE DEF used
  <2> QED BY <1>1, <1>4, FS_CountingElements DEF ExistsBijection
<1>6. IsFiniteSet(1..Len(J)) /\ Cardinality(1..Len(J)) = Len(J)
  <2>1. \A n \in Nat : IsFiniteSet(1..n) /\ Cardinality(1..n) = IF 1 > n THEN 0 ELSE n - 1 + 1
    BY FS_Interval
  <2>2. \A n \in Nat : (IF 1 > n THEN 0 ELSE n - 1 + 1) = n
    OBVIOUS
  <2> QED BY <1>1, <2>1, <2>2
<1>7. Cardinality(used) <= Len(J)
  <2> HIDE DEF used
  <2>1. used \in SUBSET (1..Len(J))
    BY <1>2
  <2> QED BY <1>6, <2>1, FS_Subset
<1> QED BY <1>5, <1>7

(***************************************************************************)
(* The chain entries a walk has pushed.                                    *)
(***************************************************************************)
Axes(J, T, ch) ==
  /\ IsSequence(ch)
  /\ \A k \in 1..Len(ch) :
       /\ Len(ch[k].at) \in 1..Len(T)
       /\ ch[k].joint = T[Len(ch[k].at)] /\ ch[k].at = SubSeq(T, 1, Len(ch[k].at))
       /\ J[ch[k].joint].kind # "fixed"
       /\ Absent \notin {ch[k].limits.lower, ch[k].limits.upper}
       /\ \A m \in 1..(k - 1) : Len(ch[m].at) < Len(ch[k].at)
  /\ \A n \in 1..Len(T) : J[T[n]].kind # "fixed" => \E k \in 1..Len(ch) : ch[k].joint = T[n]

\* The first joints of a walk stay its first joints.
LEMMA SubSeqOfAppend ==
  ASSUME NEW T, NEW i, IsSequence(T)
  PROVE  /\ \A n \in 1..Len(T) : SubSeq(Append(T, i), 1, n) = SubSeq(T, 1, n)
         /\ SubSeq(Append(T, i), 1, Len(T) + 1) = Append(T, i)
<1> DEFINE S == {T[k] : k \in 1..Len(T)} \cup {i}
<1>1. Len(T) \in Nat /\ T \in [1..Len(T) -> S]
  BY DEF IsSequence
<1>2. T \in Seq(S) /\ i \in S
  BY <1>1, SeqDef
<1> HIDE DEF S
<1>3. Append(T, i) = T \o <<i>> /\ Append(T, i) \in Seq(S) /\ Len(Append(T, i)) = Len(T) + 1
  BY <1>2, AppendIsConcat, AppendProperties
<1>4. <<i>> \in Seq(S)
  BY <1>2
<1>5. ASSUME NEW n \in 1..Len(T)
      PROVE  SubSeq(Append(T, i), 1, n) = SubSeq(T, 1, n)
  <2>1. 1 \in 1..Len(T)
    BY <1>1
  <2>2. SubSeq(T \o <<i>>, 1, n) = SubSeq(T, 1, n)
    BY <1>2, <1>4, <2>1, SubSeqOfConcat1
  <2> QED BY <1>3, <2>2
<1>6. SubSeq(Append(T, i), 1, Len(T) + 1) = Append(T, i)
  BY <1>3, SubSeqFull
<1> QED BY <1>5, <1>6

\* A fixed joint adds no entry.
LEMMA AxesStay ==
  ASSUME NEW J, NEW T, NEW ch, IsSequence(T), Axes(J, T, ch), NEW i, J[i].kind = "fixed"
  PROVE  Axes(J, Append(T, i), ch)
<1> DEFINE U == Append(T, i)
<1>1. /\ Len(U) = Len(T) + 1 /\ Len(T) \in Nat
      /\ \A k \in 1..Len(T) : U[k] = T[k] /\ SubSeq(U, 1, k) = SubSeq(T, 1, k)
      /\ U[Len(T) + 1] = i
  BY Appended, SubSeqOfAppend DEF IsSequence
<1> HIDE DEF U
<1>2. ASSUME NEW k \in 1..Len(ch)
      PROVE  /\ Len(ch[k].at) \in 1..Len(U)
             /\ ch[k].joint = U[Len(ch[k].at)] /\ ch[k].at = SubSeq(U, 1, Len(ch[k].at))
             /\ J[ch[k].joint].kind # "fixed"
             /\ Absent \notin {ch[k].limits.lower, ch[k].limits.upper}
             /\ \A m \in 1..(k - 1) : Len(ch[m].at) < Len(ch[k].at)
  <2>1. /\ Len(ch[k].at) \in 1..Len(T)
        /\ ch[k].joint = T[Len(ch[k].at)] /\ ch[k].at = SubSeq(T, 1, Len(ch[k].at))
        /\ J[ch[k].joint].kind # "fixed"
        /\ Absent \notin {ch[k].limits.lower, ch[k].limits.upper}
        /\ \A m \in 1..(k - 1) : Len(ch[m].at) < Len(ch[k].at)
    BY DEF Axes
  <2> QED BY <1>1, <2>1
<1>3. ASSUME NEW n \in 1..Len(U), J[U[n]].kind # "fixed"
      PROVE  \E k \in 1..Len(ch) : ch[k].joint = U[n]
  <2>1. n \in 1..Len(T)
    BY <1>1, <1>3
  <2> QED BY <1>1, <1>3, <2>1 DEF Axes
<1> QED BY <1>2, <1>3 DEF Axes, U

\* A mobile joint adds the one that ends with it.
LEMMA AxesGrow ==
  ASSUME NEW J, NEW T, NEW ch, IsSequence(T), Axes(J, T, ch), NEW i, J[i].kind # "fixed",
         NEW e, e.joint = i, e.at = Append(T, i), Absent \notin {e.limits.lower, e.limits.upper}
  PROVE  Axes(J, Append(T, i), Append(ch, e))
<1> DEFINE U == Append(T, i)
           ch2 == Append(ch, e)
<1>1. /\ Len(U) = Len(T) + 1 /\ Len(T) \in Nat
      /\ \A k \in 1..Len(T) : U[k] = T[k] /\ SubSeq(U, 1, k) = SubSeq(T, 1, k)
      /\ U[Len(T) + 1] = i /\ SubSeq(U, 1, Len(T) + 1) = U
  BY Appended, SubSeqOfAppend DEF IsSequence
<1>2. /\ IsSequence(ch2) /\ Len(ch2) = Len(ch) + 1 /\ Len(ch) \in Nat
      /\ \A k \in 1..Len(ch) : ch2[k] = ch[k]
      /\ ch2[Len(ch) + 1] = e
  BY Appended DEF Axes, IsSequence
<1>3. e.at = U
  OBVIOUS
<1> HIDE DEF U, ch2
<1>4. ASSUME NEW k \in 1..Len(ch2)
      PROVE  /\ Len(ch2[k].at) \in 1..Len(U)
             /\ ch2[k].joint = U[Len(ch2[k].at)] /\ ch2[k].at = SubSeq(U, 1, Len(ch2[k].at))
             /\ J[ch2[k].joint].kind # "fixed"
             /\ Absent \notin {ch2[k].limits.lower, ch2[k].limits.upper}
             /\ \A m \in 1..(k - 1) : Len(ch2[m].at) < Len(ch2[k].at)
  <2>1. CASE k \in 1..Len(ch)
    <3>1. /\ Len(ch[k].at) \in 1..Len(T)
          /\ ch[k].joint = T[Len(ch[k].at)] /\ ch[k].at = SubSeq(T, 1, Len(ch[k].at))
          /\ J[ch[k].joint].kind # "fixed"
          /\ Absent \notin {ch[k].limits.lower, ch[k].limits.upper}
          /\ \A m \in 1..(k - 1) : Len(ch[m].at) < Len(ch[k].at)
      BY <2>1 DEF Axes
    <3>2. ch2[k] = ch[k] /\ \A m \in 1..(k - 1) : ch2[m] = ch[m]
      BY <1>2, <2>1
    <3>3. /\ Len(ch[k].at) \in 1..Len(U) /\ ch[k].joint = U[Len(ch[k].at)]
          /\ ch[k].at = SubSeq(U, 1, Len(ch[k].at))
      BY <1>1, <3>1
    <3>4. \A m \in 1..(k - 1) : Len(ch2[m].at) < Len(ch2[k].at)
      BY <3>1, <3>2
    <3> QED BY <3>1, <3>2, <3>3, <3>4
  <2>2. CASE k = Len(ch) + 1
    <3>1. ch2[k] = e /\ Len(e.at) = Len(T) + 1
      BY <1>1, <1>2, <1>3, <2>2
    <3>2. \A m \in 1..(k - 1) : Len(ch2[m].at) < Len(T) + 1
      BY <1>1, <1>2, <2>2 DEF Axes
    <3> QED BY <1>1, <1>3, <3>1, <3>2
  <2> QED BY <1>2, <2>1, <2>2
<1>5. ASSUME NEW n \in 1..Len(U), J[U[n]].kind # "fixed"
      PROVE  \E k \in 1..Len(ch2) : ch2[k].joint = U[n]
  <2>1. CASE n \in 1..Len(T)
    <3>1. PICK k \in 1..Len(ch) : ch[k].joint = U[n]
      BY <1>1, <1>5, <2>1 DEF Axes
    <3> QED BY <1>2, <3>1
  <2>2. CASE n = Len(T) + 1
    <3>1. Len(ch) + 1 \in 1..Len(ch2) /\ ch2[Len(ch) + 1].joint = U[n]
      BY <1>1, <1>2, <2>2
    <3> QED BY <3>1
  <2> QED BY <1>1, <2>1, <2>2
<1> QED BY <1>2, <1>4, <1>5 DEF Axes, U, ch2

(***************************************************************************)
(* Where a walk ends.                                                      *)
(***************************************************************************)

\* A walk that ends where no joint goes on has passed every link below its start, except
\* fixed frames with nothing behind them.
LEMMA WalkCovers ==
  ASSUME NEW J, NEW N, NEW s, NEW tool, NEW T, Parented(J, N), s \in N, Path(J, N, s, tool, T),
         ContinuingIn(J, LinkBefore(J, s, T, Len(T) + 1)) = {},
         NEW x \in BelowIn(J, N, s)
  PROVE  \E k \in 1..(Len(T) + 1) :
           \/ x = LinkBefore(J, s, T, k)
           \/ \E i \in OutgoingIn(J, LinkBefore(J, s, T, k)) : LeafIn(J, i) /\ x = J[i].child
<1> DEFINE L(k) == LinkBefore(J, s, T, k)
           S == {y \in N : \E k \in 1..(Len(T) + 1) :
                   y = L(k) \/ \E i \in OutgoingIn(J, L(k)) : LeafIn(J, i) /\ y = J[i].child}
<1>1. Len(T) \in Nat /\ \A k \in 1..Len(T) : T[k] \in DOMAIN J /\ Follows(J, tool, L(k), T[k])
  BY DEF Path, IsSequence
<1>2. \A k \in 1..Len(T) : k + 1 \in 1..(Len(T) + 1) /\ L(k + 1) = J[T[k]].child
  BY <1>1 DEF LinkBefore
<1>3. s \in S
  <2>1. 1 \in 1..(Len(T) + 1) /\ L(1) = s
    BY <1>1 DEF LinkBefore
  <2> QED BY <2>1
<1>4. ASSUME NEW j \in DOMAIN J, J[j].parent \in S
      PROVE  J[j].child \in S
  <2>1. J[j].child \in N /\ j \in OutgoingIn(J, J[j].parent)
    BY DEF Parented, OutgoingIn
  <2>2. PICK k \in 1..(Len(T) + 1) :
          \/ J[j].parent = L(k)
          \/ \E i \in OutgoingIn(J, L(k)) : LeafIn(J, i) /\ J[j].parent = J[i].child
    BY <1>4
  <2>3. J[j].parent = L(k)
    BY <2>1, <2>2 DEF LeafIn
  <2> HIDE DEF L
  <2>4. CASE LeafIn(J, j)
    BY <2>1, <2>3, <2>4
  <2>5. CASE ~LeafIn(J, j)
    <3>1. j \in ContinuingIn(J, L(k))
      BY <2>1, <2>3, <2>5 DEF ContinuingIn
    <3>2. k \in 1..Len(T)
      BY <1>1, <3>1 DEF L
    <3>3. j = T[k]
      BY <1>1, <3>1, <3>2 DEF Follows
    <3>4. k + 1 \in 1..(Len(T) + 1) /\ J[j].child = L(k + 1)
      BY <1>2, <3>2, <3>3
    <3> QED BY <2>1, <3>4
  <2> QED BY <2>4, <2>5
<1>5. S \subseteq N
  OBVIOUS
<1> HIDE DEF S
<1>6. BelowIn(J, N, s) \subseteq S
  BY <1>3, <1>4, <1>5, BelowIsLeast
<1> QED BY <1>6 DEF S

\* So it went along every mobile joint below its start ...
LEMMA MobilesFound ==
  ASSUME NEW J, NEW N, NEW s, NEW tool, NEW T, Parented(J, N), s \in N, Path(J, N, s, tool, T),
         ContinuingIn(J, LinkBefore(J, s, T, Len(T) + 1)) = {},
         NEW i \in DOMAIN J, J[i].kind # "fixed", J[i].parent \in BelowIn(J, N, s)
  PROVE  \E n \in 1..Len(T) : T[n] = i
<1>1. PICK k \in 1..(Len(T) + 1) :
        \/ J[i].parent = LinkBefore(J, s, T, k)
        \/ \E j \in OutgoingIn(J, LinkBefore(J, s, T, k)) : LeafIn(J, j) /\ J[i].parent = J[j].child
  BY WalkCovers
<1>2. J[i].parent = LinkBefore(J, s, T, k)
  BY <1>1 DEF LeafIn, OutgoingIn
<1>3. i \in ContinuingIn(J, LinkBefore(J, s, T, k))
  BY <1>2 DEF ContinuingIn, OutgoingIn, LeafIn
<1>4. k # Len(T) + 1 /\ Len(T) \in Nat
  BY <1>3 DEF Path, IsSequence
<1>5. k \in 1..Len(T) /\ Follows(J, tool, LinkBefore(J, s, T, k), T[k])
  BY <1>4 DEF Path
<1>6. i = T[k]
  BY <1>3, <1>5 DEF Follows
<1> QED BY <1>5, <1>6

\* ... and a tool below its start that it did not reach is one of those frames.
LEMMA ToolMissed ==
  ASSUME NEW J, NEW N, NEW s, NEW tool, NEW T, Parented(J, N), s \in N, Path(J, N, s, tool, T),
         ContinuingIn(J, LinkBefore(J, s, T, Len(T) + 1)) = {},
         tool # NoName, tool # LinkBefore(J, s, T, Len(T) + 1), tool \in BelowIn(J, N, s)
  PROVE  \E i \in DOMAIN J : J[i].child = tool /\ LeafIn(J, i)
<1>1. PICK k \in 1..(Len(T) + 1) :
        \/ tool = LinkBefore(J, s, T, k)
        \/ \E j \in OutgoingIn(J, LinkBefore(J, s, T, k)) : LeafIn(J, j) /\ tool = J[j].child
  BY WalkCovers
<1>2. tool # LinkBefore(J, s, T, k)
  <2>1. Len(T) \in Nat
    BY DEF Path, IsSequence
  <2>2. CASE k \in 1..Len(T)
    BY <2>2 DEF Path, Follows
  <2> QED BY <2>1, <2>2
<1> QED BY <1>1, <1>2 DEF OutgoingIn

(***************************************************************************)
(* build_chain.                                                            *)
(***************************************************************************)

\* The model the parser leaves, and the maps over it.
LEMMA ModelIs ==
  ASSUME ParseInv, AllRead
  PROVE  /\ Parented(joints, LinkNames)
         /\ \A i \in DOMAIN joints : i \in DOMAIN doc.joints /\ joints[i].name = doc.joints[i].name
<1>1. doc \in Documents /\ ReadLinks /\ ReadJoints
  BY DEF ParseInv
<1>2. /\ IsSequence(joints) /\ DOMAIN joints = 1..Len(joints) /\ Len(joints) = Len(doc.joints)
      /\ DOMAIN doc.joints = 1..Len(doc.joints) /\ LinkNames = NamesOf(doc.links)
  BY <1>1, NamesRead, DocumentIs DEF AllRead, ReadJoints, LinkNames
<1>3. \A i \in DOMAIN joints : /\ joints[i].parent = doc.joints[i].parent
                               /\ joints[i].child = doc.joints[i].child
                               /\ joints[i].name = doc.joints[i].name
  <2>1. \A i \in 1..Len(joints) : joints[i] = ParsedJoint(doc.joints[i])
    BY <1>1 DEF ReadJoints
  <2>2. \A joint : /\ ParsedJoint(joint).parent = joint.parent
                   /\ ParsedJoint(joint).child = joint.child
                   /\ ParsedJoint(joint).name = joint.name
    BY DEF ParsedJoint
  <2> QED BY <1>2, <2>1, <2>2
<1>4. \A i \in DOMAIN joints :
        /\ doc.joints[i].parent \in LinkNames /\ doc.joints[i].child \in LinkNames
        /\ doc.joints[i].parent # doc.joints[i].child
        /\ \A j \in DOMAIN joints : doc.joints[i].child = doc.joints[j].child => i = j
  BY <1>1, <1>2 DEF ReadJoints, JointsGood, JointGood
<1> QED BY <1>2, <1>3, <1>4 DEF Parented

\* The maps of the loader are those of the walk over its joints.
LEMMA MapsAre ==
  /\ \A l : Outgoing(l) = OutgoingIn(joints, l)
  /\ \A i : IsLeaf(i) <=> LeafIn(joints, i)
  /\ Continuing = ContinuingIn(joints, current)
  /\ TrailingLeaf = TrailingIn(joints, current)
  /\ \A l : Below(l) = BelowIn(joints, LinkNames, l)
<1>1. \A l : Outgoing(l) = OutgoingIn(joints, l)
  BY DEF Outgoing, OutgoingIn
<1>2. \A i : IsLeaf(i) <=> LeafIn(joints, i)
  BY <1>1 DEF IsLeaf, LeafIn
<1>3. Continuing = ContinuingIn(joints, current)
  BY <1>1, <1>2 DEF Continuing, ContinuingIn
<1>4. OtherLeaves = OthersIn(joints, current)
  BY <1>1, <1>2 DEF OtherLeaves, OthersIn, IsWrapperLeaf
<1>5. TrailingLeaf = TrailingIn(joints, current)
  BY <1>1, <1>4 DEF TrailingLeaf, TrailingIn
<1>6. \A l : Below(l) = BelowIn(joints, LinkNames, l)
  BY DEF Below, BelowIn
<1> QED BY <1>1, <1>2, <1>3, <1>5, <1>6

\* What is delivered at the end of a walk ...
Delivered(J, N, s, o, r) ==
  /\ s \in N /\ r.base = s /\ o.base \in {NoName, s}
  /\ Path(J, N, s, o.tool, r.home) /\ Fresh(J, s, r.home)
  /\ r.tool = LinkBefore(J, s, r.home, Len(r.home) + 1) /\ o.tool \in {NoName, r.tool}
  /\ Axes(J, r.home, r.axes)
  /\ r.joint_names = [k \in DOMAIN r.axes |-> J[r.axes[k].joint].name]
  /\ o.tool = NoName => ContinuingIn(J, r.tool) = {}

\* ... and what each refusal of a well-formed document says of it.
Truthful(J, N, s, tool, e) ==
  \/ e = "cyclic_kinematic_tree" /\ LeadsBack(J, N, s)
  \/ e = "branched_kinematic_tree" /\ \E l \in BelowIn(J, N, s) : \E i, j \in ContinuingIn(J, l) : i # j
  \/ e = "zero_axis" /\ \E i \in DOMAIN J :
       /\ J[i].kind # "fixed" /\ J[i].parent \in BelowIn(J, N, s)
       /\ \A k \in DOMAIN J[i].axis : J[i].axis[k] = "zero"
  \/ e = "missing_joint_limit" /\ \E i \in DOMAIN J :
       /\ J[i].kind \notin {"fixed", "continuous"} /\ J[i].parent \in BelowIn(J, N, s)
       /\ Absent \in {J[i].position_min, J[i].position_max}
  \/ /\ e = "tool_link_unreachable"
     /\ tool \notin BelowIn(J, N, s) \/ \E i \in DOMAIN J : J[i].child = tool /\ LeafIn(J, i)

\* What is delivered is the path.
LEMMA DeliveredIsPath ==
  ASSUME ParseInv, AllRead, Delivered(joints, LinkNames, The(Starts), opts, result)
  PROVE  ExtractedIsPath
<1> DEFINE path == result.home
           axes == result.axes
           s == The(Starts)
<1>1. /\ Parented(joints, LinkNames)
      /\ \A i \in DOMAIN joints : joints[i].name = doc.joints[i].name
  BY ModelIs
<1>2. /\ s \in LinkNames /\ result.base = s /\ opts.base \in {NoName, s}
      /\ Path(joints, LinkNames, s, opts.tool, path) /\ Fresh(joints, s, path)
      /\ result.tool = LinkBefore(joints, s, path, Len(path) + 1) /\ opts.tool \in {NoName, result.tool}
      /\ Axes(joints, path, axes)
      /\ result.joint_names = [k \in DOMAIN axes |-> joints[axes[k].joint].name]
      /\ opts.tool = NoName => ContinuingIn(joints, result.tool) = {}
  BY DEF Delivered
<1> HIDE DEF path, axes, s
<1>3. /\ Len(path) \in Nat /\ DOMAIN path = 1..Len(path)
      /\ Len(axes) \in Nat /\ DOMAIN axes = 1..Len(axes)
      /\ \A k \in 1..Len(path) : path[k] \in DOMAIN joints
  BY <1>2 DEF Path, Axes, IsSequence
<1>4. \A k \in DOMAIN path :
        joints[path[k]].parent = IF k = 1 THEN result.base ELSE joints[path[k - 1]].child
  BY <1>2, <1>3 DEF Path, Follows, OutgoingIn, LinkBefore
<1>5. result.tool = IF path = << >> THEN result.base ELSE joints[path[Len(path)]].child
  <2>1. path = << >> <=> Len(path) = 0
    BY <1>2 DEF Path, IsSequence
  <2>2. (Len(path) + 1) - 1 = Len(path) /\ (Len(path) + 1 = 1 <=> Len(path) = 0)
    BY <1>3
  <2> QED BY <1>2, <2>1, <2>2 DEF LinkBefore
<1>6. Cardinality({path[k] : k \in DOMAIN path}) = Len(path)
  BY <1>1, <1>2, FreshIsShort
<1>7. ASSUME NEW k \in DOMAIN axes
      PROVE  LET n == Len(axes[k].at)
             IN /\ n \in DOMAIN path /\ axes[k].joint = path[n] /\ axes[k].at = SubSeq(path, 1, n)
                /\ IsMobile(path[n]) /\ Absent \notin {axes[k].limits.lower, axes[k].limits.upper}
                /\ result.joint_names[k] = doc.joints[path[n]].name
                /\ \A m \in 1..(k - 1) : Len(axes[m].at) < n
  <2>1. /\ Len(axes[k].at) \in 1..Len(path) /\ axes[k].joint = path[Len(axes[k].at)]
        /\ axes[k].at = SubSeq(path, 1, Len(axes[k].at)) /\ joints[axes[k].joint].kind # "fixed"
        /\ Absent \notin {axes[k].limits.lower, axes[k].limits.upper}
        /\ \A m \in 1..(k - 1) : Len(axes[m].at) < Len(axes[k].at)
    BY <1>2, <1>3, <1>7 DEF Axes
  <2>2. result.joint_names[k] = joints[axes[k].joint].name
    BY <1>2, <1>7
  <2>3. joints[axes[k].joint].name = doc.joints[axes[k].joint].name
    BY <1>1, <1>3, <2>1
  <2> QED BY <1>3, <2>1, <2>2, <2>3 DEF IsMobile
<1>8. \A n \in DOMAIN path : IsMobile(path[n]) => \E k \in DOMAIN axes : axes[k].joint = path[n]
  BY <1>2, <1>3 DEF Axes, IsMobile
<1>9. ASSUME opts.tool = NoName, NEW i \in MobileBelow(result.base)
      PROVE  \E n \in DOMAIN path : path[n] = i
  <2>1. i \in DOMAIN joints /\ joints[i].kind # "fixed" /\ joints[i].parent \in BelowIn(joints, LinkNames, s)
    BY <1>2, <1>9, MapsAre DEF MobileBelow
  <2>2. ContinuingIn(joints, LinkBefore(joints, s, path, Len(path) + 1)) = {}
    BY <1>2, <1>9
  <2> QED BY <1>1, <1>2, <1>3, <2>1, <2>2, MobilesFound
<1> QED BY <1>2, <1>4, <1>5, <1>6, <1>7, <1>8, <1>9, Zenon DEF ExtractedIsPath, path, axes

\* What is refused is there.
LEMMA TruthfulIsTrue ==
  ASSUME Truthful(joints, LinkNames, The(Starts), opts.tool, error)
  PROVE  ErrorsAreTrue
<1> DEFINE s == The(Starts)
<1>1. \A l : Below(l) = BelowIn(joints, LinkNames, l)
  BY MapsAre
<1>2. CASE error = "cyclic_kinematic_tree"
  <2>1. \E i \in Incoming(s) : joints[i].parent \in Below(s)
    BY <1>1, <1>2 DEF Truthful, LeadsBack, Incoming
  <2> QED BY <1>2, <2>1 DEF ErrorsAreTrue
<1>3. CASE error = "branched_kinematic_tree"
  <2>1. \E l \in Below(s) : \E i, j \in Outgoing(l) : i # j /\ ~IsLeaf(i) /\ ~IsLeaf(j)
    BY <1>1, <1>3, MapsAre DEF Truthful, ContinuingIn
  <2> QED BY <1>3, <2>1 DEF ErrorsAreTrue
<1>4. CASE error = "zero_axis"
  <2>1. \E i \in MobileBelow(s) : ZeroAxis(i)
    BY <1>1, <1>4 DEF Truthful, MobileBelow, ZeroAxis
  <2> QED BY <1>4, <2>1 DEF ErrorsAreTrue
<1>5. CASE error = "missing_joint_limit"
  <2>1. \E i \in MobileBelow(s) : joints[i].kind # "continuous" /\ ~Bounded(i)
    BY <1>1, <1>5 DEF Truthful, MobileBelow, Bounded
  <2> QED BY <1>5, <2>1 DEF ErrorsAreTrue
<1>6. CASE error = "tool_link_unreachable"
  <2>1. opts.tool \notin Below(s) \/ \E i \in Incoming(opts.tool) : IsLeaf(i)
    BY <1>1, <1>6, MapsAre DEF Truthful, Incoming
  <2> QED BY <1>6, <2>1 DEF ErrorsAreTrue
<1> QED BY <1>2, <1>3, <1>4, <1>5, <1>6 DEF Truthful

(***************************************************************************)
(* The walk as an invariant.                                               *)
(***************************************************************************)

\* A walk over the joints T, after n steps, at a link, with its chain entries.
Walks(J, N, s, tool, here, n, T, ch) ==
  /\ s \in N /\ n = Len(T) /\ here = LinkBefore(J, s, T, Len(T) + 1)
  /\ Path(J, N, s, tool, T)
  /\ Fresh(J, s, T) \/ (LeadsBack(J, N, s) /\ Rounds(J, s, T))
  /\ Axes(J, T, ch)

\* It starts with no joint ...
LEMMA WalkStarts ==
  ASSUME NEW J, NEW N, NEW s \in N, NEW tool, Parented(J, N)
  PROVE  Walks(J, N, s, tool, s, 0, << >>, << >>)
<1>1. IsSequence(<< >>) /\ Len(<< >>) = 0
  BY DEF IsSequence
<1>2. LinkBefore(J, s, << >>, 1) = s
  BY DEF LinkBefore
<1>3. s \in BelowIn(J, N, s)
  BY BelowCloses
<1>4. Path(J, N, s, tool, << >>)
  <2>1. \A k \in 1..(Len(<< >>) + 1) : k = 1
    BY <1>1
  <2> QED BY <1>1, <1>2, <1>3, <2>1 DEF Path
<1>5. Fresh(J, s, << >>) /\ Axes(J, << >>, << >>)
  BY <1>1 DEF Fresh, Axes
<1> QED BY <1>1, <1>2, <1>4, <1>5 DEF Walks

\* ... and goes on along the joint to follow.
LEMMA WalkGoesOn ==
  ASSUME NEW J, NEW N, NEW s, NEW tool, NEW here, NEW n, NEW T, NEW ch, Parented(J, N),
         Walks(J, N, s, tool, here, n, T, ch), NEW i, Follows(J, tool, here, i),
         NEW ch2, Axes(J, Append(T, i), ch2)
  PROVE  Walks(J, N, s, tool, J[i].child, n + 1, Append(T, i), ch2)
<1>1. /\ s \in N /\ n = Len(T) /\ here = LinkBefore(J, s, T, Len(T) + 1)
      /\ Path(J, N, s, tool, T) /\ IsSequence(T)
      /\ Fresh(J, s, T) \/ (LeadsBack(J, N, s) /\ Rounds(J, s, T))
  BY DEF Walks, Path
<1>2. i \in DOMAIN J /\ Follows(J, tool, LinkBefore(J, s, T, Len(T) + 1), i)
  BY <1>1 DEF Follows, OutgoingIn
<1>3. Path(J, N, s, tool, Append(T, i))
  BY <1>1, <1>2, PathGrows
<1>4. Fresh(J, s, Append(T, i)) \/ (LeadsBack(J, N, s) /\ Rounds(J, s, Append(T, i)))
  BY <1>1, <1>2, FreshOrRound
<1>5. Len(Append(T, i)) = n + 1
  BY <1>1, Appended
<1>6. LinkBefore(J, s, Append(T, i), Len(Append(T, i)) + 1) = J[i].child
  <2>1. Len(Append(T, i)) + 1 = Len(T) + 2
    BY <1>1, <1>5 DEF IsSequence
  <2>2. LinkBefore(J, s, Append(T, i), Len(T) + 2) = J[i].child
    BY <1>1, LinksBefore
  <2> QED BY <2>1, <2>2
<1> QED BY <1>1, <1>3, <1>4, <1>5, <1>6 DEF Walks

\* The link of a walk is below its start.
LEMMA WalksBelow ==
  ASSUME NEW J, NEW N, NEW s, NEW tool, NEW here, NEW n, NEW T, NEW ch,
         Walks(J, N, s, tool, here, n, T, ch)
  PROVE  here \in BelowIn(J, N, s)
<1>1. Len(T) \in Nat
  BY DEF Walks, Path, IsSequence
<1>2. Len(T) + 1 \in 1..(Len(T) + 1)
  BY <1>1
<1> QED BY <1>2 DEF Walks, Path

\* A walk past the bound has been led back to its start ...
LEMMA LongWalk ==
  ASSUME NEW J, NEW N, NEW s, NEW tool, NEW here, NEW n, NEW T, NEW ch, Parented(J, N),
         Walks(J, N, s, tool, here, n, T, ch), n > Len(J) + 1
  PROVE  LeadsBack(J, N, s)
<1>1. n = Len(T) /\ Path(J, N, s, tool, T) /\ Len(T) \in Nat /\ Len(J) \in Nat
  BY DEF Walks, Path, IsSequence, Parented
<1>2. ~Fresh(J, s, T)
  <2>1. Fresh(J, s, T) => Len(T) <= Len(J)
    BY <1>1, FreshIsShort
  <2> QED BY <1>1, <2>1
<1> QED BY <1>2 DEF Walks

\* ... and one that ends has reached no link twice.
LEMMA EndedWalk ==
  ASSUME NEW J, NEW N, NEW s, NEW tool, NEW here, NEW n, NEW T, NEW ch,
         Walks(J, N, s, tool, here, n, T, ch), Ends(J, tool, here)
  PROVE  Fresh(J, s, T)
<1>1. SUFFICES ASSUME Rounds(J, s, T) PROVE FALSE
  BY DEF Walks
<1>2. PICK k \in 1..Len(T) : LinkBefore(J, s, T, k) = here
  BY <1>1 DEF Rounds, Walks
<1>3. Follows(J, tool, here, T[k])
  BY <1>2 DEF Walks, Path
<1> QED BY <1>3, FollowsOrEnds

\* A set with one element ...
LEMMA OneElement ==
  ASSUME NEW S, Cardinality(S) = 1
  PROVE  The(S) \in S
<1>1. S # {}
  BY FS_EmptySet
<1> QED BY <1>1 DEF The

\* ... and one with more.
LEMMA TwoElements ==
  ASSUME NEW S, IsFiniteSet(S), Cardinality(S) > 1
  PROVE  \E x, y \in S : x # y
<1>1. S # {}
  BY FS_EmptySet
<1>2. PICK x \in S : TRUE
  BY <1>1
<1>3. S # {x}
  BY FS_Singleton
<1> QED BY <1>2, <1>3

\* Where the loader stands in build_chain, and what it has answered.
Started == OverridesExist /\ Cardinality(Starts) = 1

WalkInv ==
  /\ pc \in {"load", "links", "joints", "build"} => steps = 0 /\ T_acc = << >> /\ chain = << >>
  /\ pc \in {"walk", "end"} =>
       /\ Started
       /\ Walks(joints, LinkNames, The(Starts), opts.tool, current, steps, T_acc, chain)
  /\ pc = "end" => Ends(joints, opts.tool, current)
  /\ pc = "loaded" => Delivered(joints, LinkNames, The(Starts), opts, result)
  /\ pc = "failed" /\ WellFormed(doc) /\ Started =>
       Truthful(joints, LinkNames, The(Starts), opts.tool, error)

\* Where a walk may start depends on the options and the model alone.
LEMMA Frozen ==
  ASSUME UNCHANGED <<doc, opts, links, joints>>
  PROVE  /\ LinkNames' = LinkNames /\ Starts' = Starts /\ The(Starts)' = The(Starts)
         /\ Started' <=> Started
<1>1. LinkNames' = LinkNames
  BY DEF LinkNames, NamesOf
<1>2. Starts' = Starts
  BY <1>1 DEF Starts, Roots, Incoming
<1>3. OverridesExist' <=> OverridesExist
  BY <1>1 DEF OverridesExist
<1> QED BY <1>1, <1>2, <1>3, Zenon DEF Started, The

\* One start is a link of the model, and the named one if there is one.
LEMMA StartIs ==
  ASSUME Started
  PROVE  The(Starts) \in LinkNames /\ opts.base \in {NoName, The(Starts)}
<1>1. The(Starts) \in Starts
  BY OneElement DEF Started
<1>2. CASE opts.base = NoName
  BY <1>1, <1>2 DEF Starts, Roots
<1>3. CASE opts.base # NoName
  BY <1>1, <1>3 DEF Starts, Started, OverridesExist
<1> QED BY <1>2, <1>3

\* A refusal on the walk that is true.
LEMMA RefusalKeeps ==
  ASSUME UNCHANGED <<doc, opts, links, joints>>, pc' = "failed",
         Started => Truthful(joints, LinkNames, The(Starts), opts.tool, error')
  PROVE  WalkInv'
<1>1. Started' => Truthful(joints', LinkNames', The(Starts)', opts.tool', error')
  BY Frozen
<1> QED BY <1>1 DEF WalkInv

\* A parse that fails, fails a document that is not well-formed.
LEMMA ParseFails ==
  ASSUME ParseInv, Parsing, pc' = "failed"
  PROVE  ~WellFormed(doc')
<1>1. ParseInv'
  BY ParseKeeps DEF Next
<1>2. AllRead' \/ ~WellFormed(doc')
  <2>1. ParseInv => (pc = "failed" => AllRead \/ ~WellFormed(doc))
    BY DEF ParseInv
  <2>2. ParseInv' => (pc' = "failed" => AllRead' \/ ~WellFormed(doc'))
    BY DEF ParseInv
  <2> QED BY <1>1, <2>2
<1>3. CASE LoadFile
  BY <1>3 DEF LoadFile, Fail, WellFormed
<1>4. CASE ReadLink
  <2>1. Len(links) + 1 <= Len(doc.links) /\ doc' = doc /\ links' = links
    BY <1>4 DEF ReadLink, ParseInv, Fail
  <2>2. Len(links) \in Nat
    BY DEF ParseInv, ReadLinks, IsSequence
  <2> QED BY <1>2, <2>1, <2>2, DocumentIs DEF AllRead, ParseInv, IsSequence
<1>5. CASE ReadJoint
  <2>1. Len(joints) + 1 <= Len(doc.joints) /\ doc' = doc /\ joints' = joints
    BY <1>5 DEF ReadJoint, ParseInv, Fail
  <2>2. Len(joints) \in Nat
    BY DEF ParseInv, ReadJoints, IsSequence
  <2> QED BY <1>2, <2>1, <2>2, DocumentIs DEF AllRead, ParseInv, IsSequence
<1>6. CASE LinksRead \/ JointsRead
  BY <1>6 DEF LinksRead, JointsRead
<1> QED BY <1>3, <1>4, <1>5, <1>6 DEF Parsing, Parse

\* While it reads, the parser leaves the walk where it starts.
LEMMA ParsingKeeps ==
  ASSUME ParseInv, WalkInv, Parsing
  PROVE  WalkInv'
<1>1. UNCHANGED <<steps, T_acc, chain>>
  BY DEF Parsing, walk
<1>2. pc \in {"load", "links", "joints"} /\ pc' \in {"links", "joints", "build", "failed"}
  BY DEF Parsing, Parse, LoadFile, ReadLink, LinksRead, ReadJoint, JointsRead, Fail
<1>3. CASE pc' = "failed"
  BY <1>3, ParseFails DEF WalkInv
<1>4. CASE pc' # "failed"
  BY <1>1, <1>2, <1>4 DEF WalkInv
<1> QED BY <1>3, <1>4

(***************************************************************************)
(* One lemma per action of build_chain.                                    *)
(***************************************************************************)

\* An override that names no link, or no single root.
LEMMA RefusedKeeps ==
  ASSUME WalkInv, Refused
  PROVE  WalkInv'
<1>1. UNCHANGED <<doc, opts, links, joints>> /\ pc' = "failed" /\ ~Started
  BY DEF Refused, BuildFails, Fail, Started
<1> QED BY <1>1, RefusalKeeps

\* The walk starts at its start.
LEMMA StartWalkKeeps ==
  ASSUME ParseInv, WalkInv, StartWalk
  PROVE  WalkInv'
<1>1. /\ UNCHANGED <<doc, opts, links, joints>> /\ pc = "build" /\ pc' = "walk" /\ Started
      /\ current' = The(Starts) /\ UNCHANGED <<steps, T_acc, chain>>
  BY DEF StartWalk, Started
<1>2. Parented(joints, LinkNames) /\ The(Starts) \in LinkNames
  BY <1>1, ModelIs, StartIs DEF ParseInv
<1>3. steps = 0 /\ T_acc = << >> /\ chain = << >>
  BY <1>1 DEF WalkInv
<1>4. Walks(joints, LinkNames, The(Starts), opts.tool, The(Starts), 0, << >>, << >>)
  BY <1>2, WalkStarts
<1>5. Walks(joints', LinkNames', The(Starts)', opts'.tool, current', steps', T_acc', chain')
  BY <1>1, <1>3, <1>4, Frozen
<1>6. Started'
  BY <1>1, Frozen
<1> QED BY <1>1, <1>5, <1>6 DEF WalkInv

\* Where the walk is, in the terms of the lemmas.
LEMMA OnTheWalk ==
  ASSUME ParseInv, WalkInv, pc \in {"walk", "end"}
  PROVE  /\ Parented(joints, LinkNames) /\ Started /\ The(Starts) \in LinkNames
         /\ Walks(joints, LinkNames, The(Starts), opts.tool, current, steps, T_acc, chain)
         /\ current \in BelowIn(joints, LinkNames, The(Starts))
<1>1. /\ Started
      /\ Walks(joints, LinkNames, The(Starts), opts.tool, current, steps, T_acc, chain)
  BY DEF WalkInv
<1>2. current \in BelowIn(joints, LinkNames, The(Starts))
  BY <1>1, WalksBelow
<1>3. Parented(joints, LinkNames)
  BY ModelIs DEF ParseInv
<1> QED BY <1>1, <1>2, <1>3, StartIs

\* More steps than links to reach.
LEMMA CycleFoundKeeps ==
  ASSUME ParseInv, WalkInv, CycleFound
  PROVE  WalkInv'
<1>1. /\ pc = "walk" /\ steps > Len(joints) + 1
      /\ pc' = "failed" /\ error' = "cyclic_kinematic_tree" /\ UNCHANGED <<doc, opts, links, joints>>
  BY DEF CycleFound, MaxSteps, BuildFails, Fail
<1>2. LeadsBack(joints, LinkNames, The(Starts))
  BY <1>1, OnTheWalk, LongWalk
<1> QED BY <1>1, <1>2, RefusalKeeps DEF Truthful

\* The walk ends at its tool, or where no leaf qualifies.
LEMMA WalkEndsKeeps ==
  ASSUME ParseInv, WalkInv, WalkEnds
  PROVE  WalkInv'
<1>1. /\ pc = "walk" /\ pc' = "end" /\ UNCHANGED <<doc, opts, links, joints>>
      /\ UNCHANGED <<current, steps, T_acc, chain>>
  BY DEF WalkEnds, Walking, walk
<1>2. Ends(joints, opts.tool, current)
  BY MapsAre DEF WalkEnds, AtTool, Ends
<1>3. Walks(joints', LinkNames', The(Starts)', opts'.tool, current', steps', T_acc', chain')
  BY <1>1, OnTheWalk, Frozen
<1>4. Started'
  BY <1>1, OnTheWalk, Frozen
<1> QED BY <1>1, <1>2, <1>3, <1>4 DEF WalkInv

\* The walk goes on along a joint it follows.
LEMMA GoesOnKeeps ==
  ASSUME ParseInv, WalkInv, pc = "walk", NEW i, Moved(i), Follows(joints, opts.tool, current, i),
         Axes(joints, Append(T_acc, i), chain')
  PROVE  WalkInv'
<1>1. /\ UNCHANGED <<doc, opts, links, joints>> /\ pc' = "walk"
      /\ T_acc' = Append(T_acc, i) /\ current' = joints[i].child /\ steps' = steps + 1
  BY DEF Moved, parsing
<1>2. Walks(joints, LinkNames, The(Starts), opts.tool, joints[i].child, steps + 1, Append(T_acc, i), chain')
  BY OnTheWalk, WalkGoesOn
<1>3. Walks(joints', LinkNames', The(Starts)', opts'.tool, current', steps', T_acc', chain')
  BY <1>1, <1>2, Frozen
<1>4. Started'
  BY <1>1, OnTheWalk, Frozen
<1> QED BY <1>1, <1>3, <1>4 DEF WalkInv

\* The entries of the walk so far.
LEMMA AxesSoFar ==
  ASSUME ParseInv, WalkInv, pc = "walk"
  PROVE  IsSequence(T_acc) /\ Axes(joints, T_acc, chain)
BY OnTheWalk DEF Walks, Path

\* A trailing leaf is a fixed joint that leaves the link.
LEMMA TrailingIsFixed ==
  ASSUME NEW J, NEW l, ContinuingIn(J, l) = {}, TrailingIn(J, l) # {}
  PROVE  The(TrailingIn(J, l)) \in OutgoingIn(J, l) /\ J[The(TrailingIn(J, l))].kind = "fixed"
<1>1. The(TrailingIn(J, l)) \in TrailingIn(J, l)
  BY DEF The
<1>2. TrailingIn(J, l) \subseteq OutgoingIn(J, l)
  BY DEF TrailingIn, OthersIn
<1>3. \A i \in OutgoingIn(J, l) : J[i].kind = "fixed"
  BY DEF ContinuingIn, LeafIn
<1> QED BY <1>1, <1>2, <1>3

\* A leaf is folded as the tool offset.
LEMMA FoldLeafKeeps ==
  ASSUME ParseInv, WalkInv, FoldLeaf
  PROVE  WalkInv'
<1> DEFINE i == The(TrailingLeaf)
<1>1. /\ pc = "walk" /\ Moved(i) /\ chain' = chain /\ (opts.tool = NoName \/ current # opts.tool)
      /\ Continuing = {} /\ TrailingLeaf # {}
  BY DEF FoldLeaf, Walking, AtTool
<1>2. /\ ContinuingIn(joints, current) = {} /\ TrailingIn(joints, current) # {}
      /\ i = The(TrailingIn(joints, current))
  BY <1>1, MapsAre
<1> HIDE DEF i
<1>3. i \in OutgoingIn(joints, current) /\ joints[i].kind = "fixed"
  BY <1>2, TrailingIsFixed
<1>4. Follows(joints, opts.tool, current, i)
  BY <1>1, <1>2, <1>3 DEF Follows
<1>5. Axes(joints, Append(T_acc, i), chain')
  BY <1>1, <1>3, AxesSoFar, AxesStay
<1> QED BY <1>1, <1>4, <1>5, GoesOnKeeps

\* Two joints go on from a link.
LEMMA BranchedKeeps ==
  ASSUME ParseInv, WalkInv, Branched
  PROVE  WalkInv'
<1>1. /\ pc = "walk" /\ Cardinality(Continuing) > 1
      /\ pc' = "failed" /\ error' = "branched_kinematic_tree" /\ UNCHANGED <<doc, opts, links, joints>>
  BY DEF Branched, Walking, BuildFails, Fail
<1>2. Continuing = ContinuingIn(joints, current)
  BY MapsAre
<1>3. IsFiniteSet(Continuing)
  <2>1. Continuing \in SUBSET DOMAIN joints
    BY DEF Continuing, Outgoing
  <2>2. DOMAIN joints = 1..Len(joints) /\ Len(joints) \in Nat
    BY <1>1, OnTheWalk DEF Parented, IsSequence
  <2>3. \A n \in Nat : IsFiniteSet(1..n)
    BY FS_Interval
  <2> QED BY <2>1, <2>2, <2>3, FS_Subset
<1>4. \E i, j \in Continuing : i # j
  BY <1>1, <1>3, TwoElements
<1>5. current \in BelowIn(joints, LinkNames, The(Starts))
  BY <1>1, OnTheWalk
<1> QED BY <1>1, <1>2, <1>4, <1>5, RefusalKeeps DEF Truthful

\* What the walk follows when one joint goes on.
LEMMA GoesAlongIs ==
  ASSUME NEW i, GoesAlong(i)
  PROVE  pc = "walk" /\ Follows(joints, opts.tool, current, i)
<1>1. /\ pc = "walk" /\ (opts.tool = NoName \/ current # opts.tool)
      /\ ContinuingIn(joints, current) = {i}
  BY MapsAre DEF GoesAlong, Walking, AtTool
<1>2. i \in OutgoingIn(joints, current)
  BY <1>1 DEF ContinuingIn
<1> QED BY <1>1, <1>2 DEF Follows

\* A fixed joint is folded into the pose.
LEMMA FoldFixedKeeps ==
  ASSUME ParseInv, WalkInv, FoldFixed
  PROVE  WalkInv'
<1>1. PICK i \in DOMAIN joints :
        GoesAlong(i) /\ joints[i].kind = "fixed" /\ Moved(i) /\ chain' = chain
  BY DEF FoldFixed
<1>2. pc = "walk" /\ Follows(joints, opts.tool, current, i)
  BY <1>1, GoesAlongIs
<1>3. Axes(joints, Append(T_acc, i), chain')
  BY <1>1, <1>2, AxesSoFar, AxesStay
<1> QED BY <1>1, <1>2, <1>3, GoesOnKeeps

\* A mobile joint with no axis or no limits.
LEMMA MobileRefusedKeeps ==
  ASSUME ParseInv, WalkInv, MobileRefused
  PROVE  WalkInv'
<1>1. PICK i \in DOMAIN joints :
        /\ GoesAlong(i) /\ joints[i].kind # "fixed"
        /\ \/ ZeroAxis(i) /\ BuildFails("zero_axis")
           \/ ~ZeroAxis(i) /\ joints[i].kind # "continuous" /\ ~Bounded(i)
                /\ BuildFails("missing_joint_limit")
  BY DEF MobileRefused
<1>2. pc = "walk" /\ joints[i].parent = current
  BY <1>1, GoesAlongIs DEF Follows, OutgoingIn
<1>3. joints[i].parent \in BelowIn(joints, LinkNames, The(Starts))
  BY <1>2, OnTheWalk
<1>4. pc' = "failed" /\ UNCHANGED <<doc, opts, links, joints>>
  BY <1>1 DEF BuildFails, Fail
<1>5. CASE ZeroAxis(i) /\ BuildFails("zero_axis")
  <2>1. error' = "zero_axis"
    BY <1>5 DEF BuildFails, Fail
  <2>2. Truthful(joints, LinkNames, The(Starts), opts.tool, error')
    BY <1>1, <1>3, <1>5, <2>1 DEF Truthful, ZeroAxis
  <2> QED BY <1>4, <2>2, RefusalKeeps
<1>6. CASE joints[i].kind # "continuous" /\ ~Bounded(i) /\ BuildFails("missing_joint_limit")
  <2>1. error' = "missing_joint_limit"
    BY <1>6 DEF BuildFails, Fail
  <2>2. Truthful(joints, LinkNames, The(Starts), opts.tool, error')
    BY <1>1, <1>3, <1>6, <2>1 DEF Truthful, Bounded
  <2> QED BY <1>4, <2>2, RefusalKeeps
<1> QED BY <1>1, <1>5, <1>6

\* A mobile joint becomes an axis with usable limits.
LEMMA MobileKeeps ==
  ASSUME ParseInv, WalkInv, Mobile
  PROVE  WalkInv'
<1>1. PICK i \in DOMAIN joints :
        /\ GoesAlong(i) /\ joints[i].kind # "fixed"
        /\ joints[i].kind = "continuous" \/ Bounded(i)
        /\ chain' = Append(chain, ChainEntry(i))
        /\ Moved(i)
  BY DEF Mobile
<1>2. pc = "walk" /\ Follows(joints, opts.tool, current, i)
  BY <1>1, GoesAlongIs
<1> DEFINE e == ChainEntry(i)
<1>3. e.joint = i /\ e.at = Append(T_acc, i) /\ e.limits = Limits(i)
  BY DEF ChainEntry
<1>4. Absent \notin {Limits(i).lower, Limits(i).upper}
  <2>1. CASE joints[i].kind = "continuous"
    BY <2>1, NameAssumption DEF Limits
  <2>2. CASE joints[i].kind # "continuous"
    BY <1>1, <2>2 DEF Limits, Bounded
  <2> QED BY <2>1, <2>2
<1> HIDE DEF e
<1>5. Axes(joints, Append(T_acc, i), Append(chain, e))
  BY <1>1, <1>2, <1>3, <1>4, AxesSoFar, AxesGrow
<1> QED BY <1>1, <1>2, <1>5, GoesOnKeeps DEF e

\* The walk ended somewhere else than at its tool.
LEMMA UnreachableKeeps ==
  ASSUME ParseInv, WalkInv, Unreachable
  PROVE  WalkInv'
<1> DEFINE s == The(Starts)
<1>1. /\ pc = "end" /\ opts.tool # NoName /\ opts.tool # current
      /\ pc' = "failed" /\ error' = "tool_link_unreachable" /\ UNCHANGED <<doc, opts, links, joints>>
  BY DEF Unreachable, BuildFails, Fail
<1>2. ContinuingIn(joints, current) = {}
  BY <1>1 DEF WalkInv, Ends
<1>3. /\ Parented(joints, LinkNames) /\ s \in LinkNames
      /\ Path(joints, LinkNames, s, opts.tool, T_acc)
      /\ current = LinkBefore(joints, s, T_acc, Len(T_acc) + 1)
  BY <1>1, OnTheWalk DEF Walks
<1> HIDE DEF s
<1>4. opts.tool \in BelowIn(joints, LinkNames, s) =>
        \E i \in DOMAIN joints : joints[i].child = opts.tool /\ LeafIn(joints, i)
  BY <1>1, <1>2, <1>3, ToolMissed
<1>5. Truthful(joints, LinkNames, s, opts.tool, error')
  BY <1>1, <1>4 DEF Truthful
<1> QED BY <1>1, <1>5, RefusalKeeps DEF s

\* The chain is handed out.
LEMMA DeliverKeeps ==
  ASSUME ParseInv, WalkInv, Deliver
  PROVE  WalkInv'
<1> DEFINE s == The(Starts)
           r == [home |-> T_acc, axes |-> chain, base |-> s, tool |-> current,
                 joint_names |-> [k \in DOMAIN chain |-> Named(chain[k].joint)],
                 velocity_max |-> [k \in DOMAIN chain |-> joints[chain[k].joint].velocity_max],
                 effort_max |-> [k \in DOMAIN chain |-> joints[chain[k].joint].effort_max],
                 link_inertials |-> {link.name : link \in {l \in Elements(links) : l.inertial}}]
<1>1. /\ pc = "end" /\ opts.tool \in {NoName, current} /\ pc' = "loaded"
      /\ UNCHANGED <<doc, opts, links, joints>> /\ result' = r
  BY DEF Deliver
<1>2. /\ r.home = T_acc /\ r.axes = chain /\ r.base = s /\ r.tool = current
      /\ r.joint_names = [k \in DOMAIN chain |-> joints[chain[k].joint].name]
  BY DEF Named
<1> HIDE DEF r, s
<1>3. /\ s \in LinkNames /\ opts.base \in {NoName, s}
      /\ Walks(joints, LinkNames, s, opts.tool, current, steps, T_acc, chain)
      /\ Ends(joints, opts.tool, current)
  BY <1>1, OnTheWalk, StartIs DEF s, WalkInv
<1>4. Fresh(joints, s, T_acc)
  BY <1>3, EndedWalk
<1>5. opts.tool = NoName => ContinuingIn(joints, current) = {}
  BY <1>3 DEF Ends
<1>6. Delivered(joints, LinkNames, s, opts, r)
  BY <1>1, <1>2, <1>3, <1>4, <1>5 DEF Delivered, Walks
<1>7. Delivered(joints', LinkNames', The(Starts)', opts', result')
  BY <1>1, <1>6, Frozen DEF s
<1> QED BY <1>1, <1>7 DEF WalkInv

(***************************************************************************)
(* The loader.                                                             *)
(***************************************************************************)

\* Every step of the loader keeps the walk.
LEMMA WalkKeeps == ParseInv /\ WalkInv /\ [Next]_vars => WalkInv'
<1> SUFFICES ASSUME ParseInv, WalkInv, [Next]_vars PROVE WalkInv'
  OBVIOUS
<1>1. CASE Parsing
  BY <1>1, ParsingKeeps
<1>2. CASE Build
  BY <1>2, RefusedKeeps, StartWalkKeeps, CycleFoundKeeps, WalkEndsKeeps, FoldLeafKeeps,
     BranchedKeeps, FoldFixedKeeps, MobileRefusedKeeps, MobileKeeps, UnreachableKeeps,
     DeliverKeeps DEF Build
<1>3. CASE UNCHANGED vars
  <2>1. /\ UNCHANGED <<doc, opts, links, joints>>
        /\ UNCHANGED <<pc, error, current, steps, T_acc, chain, result>>
    BY <1>3 DEF vars, parsing, walk
  <2> QED BY <2>1, Frozen DEF WalkInv
<1> QED BY <1>1, <1>2, <1>3 DEF Next

\* The walk has not begun when the load does.
LEMMA WalkBegins == Init => WalkInv
BY DEF Init, ParseInit, WalkInv

\* A loaded chain is the path from its base to its tool with one axis per mobile joint, for
\* every document and whatever its joints connect.
THEOREM PathIsExtracted == Spec => []ExtractedIsPath
<1>1. ParseInv /\ WalkInv => ExtractedIsPath
  <2> SUFFICES ASSUME ParseInv, WalkInv PROVE ExtractedIsPath
    OBVIOUS
  <2>1. CASE pc = "loaded"
    <3>1. AllRead
      BY <2>1 DEF ParseInv
    <3>2. Delivered(joints, LinkNames, The(Starts), opts, result)
      BY <2>1 DEF WalkInv
    <3> QED BY <3>1, <3>2, DeliveredIsPath
  <2>2. CASE pc # "loaded"
    BY <2>2 DEF ExtractedIsPath
  <2> QED BY <2>1, <2>2
<1> QED BY <1>1, ParseStarts, ParseKeeps, WalkBegins, WalkKeeps, PTL DEF Spec

\* The walk refuses a well-formed document only for what is there, for every document.
THEOREM RefusalsAreTrue == Spec => []ErrorsAreTrue
<1>1. ParseInv /\ WalkInv => ErrorsAreTrue
  <2> SUFFICES ASSUME ParseInv, WalkInv PROVE ErrorsAreTrue
    OBVIOUS
  <2>1. CASE pc = "failed" /\ WellFormed(doc) /\ Started
    BY <2>1, TruthfulIsTrue DEF WalkInv
  <2>2. CASE ~(pc = "failed" /\ WellFormed(doc) /\ Started)
    BY <2>2 DEF ErrorsAreTrue, Started
  <2> QED BY <2>1, <2>2
<1> QED BY <1>1, ParseStarts, ParseKeeps, WalkBegins, WalkKeeps, PTL DEF Spec
===============================================================================
