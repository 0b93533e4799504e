------------------------------ MODULE UrdfBuild ------------------------------
(***************************************************************************)
(* load_urdf: the parser, then build_chain, which walks the parsed_model   *)
(* from its base to its tool and keeps one chain entry per mobile joint.   *)
(*                                                                         *)
(* A pose is the sequence of joints whose origins were composed to get it, *)
(* so T_acc is the list of the joints walked.                              *)
(***************************************************************************)
EXTENDS UrdfParse

CONSTANT Wrapper  \* of a link: the link whose name is its own with "_sc" appended

VARIABLES
  current,  \* the link the walk has reached
  steps,    \* iterations of the walk
  T_acc,    \* world-to-current pose
  chain,    \* axes, limits and the metadata per joint, pushed together
  result    \* the urdf_load_result

walk == <<current, steps, T_acc, chain>>
vars == <<parsing, walk, result>>

NoResult == "none"

Init ==
  /\ ParseInit
  /\ current = NoName /\ steps = 0 /\ T_acc = << >> /\ chain = << >>
  /\ result = NoResult

Parsing == Parse /\ UNCHANGED <<walk, result>>

(***************************************************************************)
(* The maps build_chain starts from.                                       *)
(***************************************************************************)

LinkNames == NamesOf(links)

\* build_outgoing
Outgoing(link) == {i \in DOMAIN joints : joints[i].parent = link}

\* build_incoming
Incoming(link) == {i \in DOMAIN joints : joints[i].child = link}

\* collect_roots
Roots == {link \in LinkNames : Incoming(link) = {}}

The(set) == CHOOSE x \in set : TRUE

\* link_exists over the two overrides.
OverridesExist == {opts.base, opts.tool} \subseteq LinkNames \cup {NoName}

\* Where the walk starts: the base override or the only root.
Starts == IF opts.base # NoName THEN {opts.base} ELSE Roots

BuildFails(kind) ==
  Fail(kind) /\ UNCHANGED <<doc, opts, next, links, joints, walk, result>>

\* Slip: several roots are refused, and no root at all is not.
SlipRootless ==
  /\ pc = "build"
  /\ \/ ~OverridesExist /\ BuildFails("link_not_found")
     \/ OverridesExist /\ Cardinality(Starts) > 1 /\ BuildFails("branched_kinematic_tree")

\* The two ways build_chain refuses before it walks.
Refused ==
  /\ pc = "build"
  /\ \/ ~OverridesExist /\ BuildFails("link_not_found")
     \/ OverridesExist /\ Cardinality(Starts) # 1 /\ BuildFails("branched_kinematic_tree")

StartWalk ==
  /\ pc = "build" /\ OverridesExist /\ Cardinality(Starts) = 1
  /\ pc' = "walk" /\ current' = The(Starts)
  /\ UNCHANGED <<doc, opts, next, links, joints, error, steps, T_acc, chain, result>>

(***************************************************************************)
(* The walk.                                                               *)
(***************************************************************************)

\* is_leaf_outgoing: a fixed joint to a link with nothing behind it.
IsLeaf(i) == joints[i].kind = "fixed" /\ Outgoing(joints[i].child) = {}

\* is_self_collision_wrapper_leaf
IsWrapperLeaf(i, parent) == IsLeaf(i) /\ joints[i].child = Wrapper[parent]

Continuing == {i \in Outgoing(current) : ~IsLeaf(i)}

OtherLeaves == {i \in Outgoing(current) : ~IsWrapperLeaf(i, current)}

\* The leaf that is folded as the trailing tool offset, if one qualifies.
TrailingLeaf ==
  IF Cardinality(Outgoing(current)) = 1 THEN Outgoing(current)
  ELSE IF Cardinality(OtherLeaves) = 1 THEN OtherLeaves ELSE {}

\* Slip: as many iterations as joints, and none to end the walk.
SlipTightBound == Len(joints) - 1

MaxSteps == Len(joints) + 1

AtTool == opts.tool # NoName /\ current = opts.tool

\* An iteration that gets past the cycle bound.
Walking == pc = "walk" /\ steps <= MaxSteps

CycleFound == pc = "walk" /\ steps > MaxSteps /\ BuildFails("cyclic_kinematic_tree")

Moved(i) ==
  /\ T_acc' = Append(T_acc, i)
  /\ current' = joints[i].child
  /\ steps' = steps + 1
  /\ UNCHANGED <<parsing, result>>

\* break: at the tool, at a leaf, or at an ambiguous set of leaves.
WalkEnds ==
  /\ Walking
  /\ AtTool \/ (Continuing = {} /\ TrailingLeaf = {})
  /\ pc' = "end"
  /\ UNCHANGED <<doc, opts, next, links, joints, error, walk, result>>

FoldLeaf ==
  /\ Walking /\ ~AtTool /\ Continuing = {} /\ TrailingLeaf # {}
  /\ Moved(The(TrailingLeaf))
  /\ UNCHANGED chain

Branched ==
  /\ Walking /\ ~AtTool /\ Cardinality(Continuing) > 1
  /\ BuildFails("branched_kinematic_tree")

\* The only joint the walk can go on along.
GoesAlong(i) == Walking /\ ~AtTool /\ Continuing = {i}

FoldFixed ==
  \E i \in DOMAIN joints :
    /\ GoesAlong(i) /\ joints[i].kind = "fixed"
    /\ Moved(i)
    /\ UNCHANGED chain

ZeroAxis(i) == \A k \in DOMAIN joints[i].axis : joints[i].axis[k] = "zero"

Bounded(i) == Absent \notin {joints[i].position_min, joints[i].position_max}

Limits(i) ==
  IF joints[i].kind = "continuous" THEN [lower |-> "-inf", upper |-> "inf"]
  ELSE [lower |-> joints[i].position_min, upper |-> joints[i].position_max]

MobileRefused ==
  \E i \in DOMAIN joints :
    /\ GoesAlong(i) /\ joints[i].kind # "fixed"
    /\ \/ ZeroAxis(i) /\ BuildFails("zero_axis")
       \/ ~ZeroAxis(i) /\ joints[i].kind # "continuous" /\ ~Bounded(i)
            /\ BuildFails("missing_joint_limit")

\* Slip: the screw axis is placed by the pose before the joint's own origin.
SlipBeforeOrigin(i) == [joint |-> i, at |-> T_acc, limits |-> Limits(i)]

\* The pushes of one mobile joint: axis at T_acc * origin, limits, name, velocity, effort.
ChainEntry(i) == [joint |-> i, at |-> Append(T_acc, i), limits |-> Limits(i)]

Mobile ==
  \E i \in DOMAIN joints :
    /\ GoesAlong(i) /\ joints[i].kind # "fixed" /\ ~ZeroAxis(i)
    /\ joints[i].kind = "continuous" \/ Bounded(i)
    /\ chain' = Append(chain, ChainEntry(i))
    /\ Moved(i)

\* After the walk: the pinned tool must have been reached.
Unreachable ==
  pc = "end" /\ opts.tool \notin {NoName, current} /\ BuildFails("tool_link_unreachable")

Named(i) == joints[i].name

Deliver ==
  /\ pc = "end" /\ opts.tool \in {NoName, current}
  /\ pc' = "loaded"
  /\ result' =
       [home |-> T_acc, axes |-> chain,
        base |-> The(Starts), tool |-> current,
        joint_names |-> [k \in DOMAIN chain |-> Named(chain[k].joint)],
        velocity_max |-> [k \in DOMAIN chain |-> joints[chain[k].joint].velocity_max],
        effort_max |-> [k \in DOMAIN chain |-> joints[chain[k].joint].effort_max],
        link_inertials |-> {link.name : link \in {l \in Elements(links) : l.inertial}}]
  /\ UNCHANGED <<doc, opts, next, links, joints, error, walk>>

Build ==
  \/ Refused \/ StartWalk \/ CycleFound \/ WalkEnds \/ FoldLeaf \/ Branched
  \/ FoldFixed \/ MobileRefused \/ Mobile \/ Unreachable \/ Deliver

Next == Parsing \/ Build

\* load_urdf is one synchronous call: once made, it runs.
Spec == Init /\ [][Next]_vars /\ WF_vars(Next)

(***************************************************************************)
(* Properties.                                                             *)
(***************************************************************************)

\* The links of the model that can be reached downwards from a link.
Below(link) ==
  {l \in LinkNames :
     \A S \in SUBSET LinkNames :
       /\ link \in S
       /\ \A i \in DOMAIN joints : joints[i].parent \in S => joints[i].child \in S
       => l \in S}

MobileBelow(link) ==
  {i \in DOMAIN joints : joints[i].kind # "fixed" /\ joints[i].parent \in Below(link)}

IsMobile(i) == joints[i].kind # "fixed"

\* A loaded chain is the path from its base to its tool: every origin on the way is
\* composed once and in order, the mobile joints on it are the axes, each placed by the
\* origins up to its own and with usable limits, and the side tables line up with them.
\* Named ends are honoured; without a named tool no mobile joint below the base is lost,
\* whatever fixed frames hang beside the path.
ExtractedIsPath ==
  pc = "loaded" =>
    LET path == result.home
        axes == result.axes
    IN /\ \A k \in DOMAIN path :
            joints[path[k]].parent = IF k = 1 THEN result.base ELSE joints[path[k - 1]].child
       /\ result.tool = IF path = << >> THEN result.base ELSE joints[path[Len(path)]].child
       /\ Cardinality({path[k] : k \in DOMAIN path}) = Len(path)
       /\ opts.base \in {NoName, result.base} /\ opts.tool \in {NoName, result.tool}
       /\ \A k \in DOMAIN axes :
            LET n == Len(axes[k].at)
            IN /\ n \in DOMAIN path /\ axes[k].joint = path[n] /\ axes[k].at = SubSeq(path, 1, n)
               /\ IsMobile(path[n]) /\ Absent \notin {axes[k].limits.lower, axes[k].limits.upper}
               /\ result.joint_names[k] = doc.joints[path[n]].name
               /\ \A m \in 1..(k - 1) : Len(axes[m].at) < n
       /\ \A n \in DOMAIN path : IsMobile(path[n]) => \E k \in DOMAIN axes : axes[k].joint = path[n]
       /\ opts.tool = NoName => \A i \in MobileBelow(result.base) : \E n \in DOMAIN path : path[n] = i

\* What the walk is refused for is there: a cycle through its start, a branch of which
\* both sides go further than one fixed frame, a joint with no axis or no limits, or a
\* pinned tool that is not below the start, or is a fixed frame with nothing behind it.
ErrorsAreTrue ==
  pc = "failed" /\ WellFormed(doc) /\ OverridesExist /\ Cardinality(Starts) = 1 =>
    LET start == The(Starts)
    IN CASE error = "cyclic_kinematic_tree" ->
              \E i \in Incoming(start) : joints[i].parent \in Below(start)
         [] error = "branched_kinematic_tree" ->
              \E l \in Below(start) : \E i, j \in Outgoing(l) : i # j /\ ~IsLeaf(i) /\ ~IsLeaf(j)
         [] error = "zero_axis" -> \E i \in MobileBelow(start) : ZeroAxis(i)
         [] error = "missing_joint_limit" ->
              \E i \in MobileBelow(start) : joints[i].kind # "continuous" /\ ~Bounded(i)
         [] error = "tool_link_unreachable" ->
              opts.tool \notin Below(start) \/ \E i \in Incoming(opts.tool) : IsLeaf(i)

\* Every load comes back with a chain or an error: no document, however its joints are
\* connected, leaves the walk without a next step or without an end.
LoadReturns == pc = "load" ~> pc \in {"loaded", "failed"}
===============================================================================
