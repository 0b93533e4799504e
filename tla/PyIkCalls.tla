------------------------------ MODULE PyIkCalls -------------------------------
(***************************************************************************)
(* The iterative solvers as Python threads call them.                      *)
(*                                                                         *)
(* A statement of Python runs under the GIL and is one step here.  Every   *)
(* solve gives the GIL up (nb::call_guard<nb::gil_scoped_release>) once    *)
(* its arguments are converted, so other threads may assign to the         *)
(* IkConfig, to the limits of the chain and to the array of the seed while *)
(* it validates, copies the seed and solves.                               *)
(***************************************************************************)
EXTENDS ExhaustiveRunner

CONSTANTS
  Budgets,     \* values max_iterations_per_attempt is assigned
  Boxes,       \* limits a chain is given
  SeedValues,  \* values written to the array of the seed
  Asks         \* what the calls ask for: who, which function, its arguments

Limits   == [lo : Int, hi : Int]
Kinds    == {"exhaustive", "solve_ik", "solve_ik_speed", "solve_ik_robust"}
Strategies == {"distance_to_seed", "min_error", "mid_range"}

ASSUME PyAssumption ==
  /\ Boxes # {} /\ Boxes \subseteq Seq(Limits)
  /\ Budgets \subseteq Int /\ SeedValues \subseteq Int
  /\ Asks \subseteq [thread : Threads, kind : Kinds, max_restarts : Int, ranking : Strategies,
                     tolSq : Nat, finite : BOOLEAN, fits : BOOLEAN, given : BOOLEAN]

VARIABLES
  config,  \* max_iterations_per_attempt of the IkConfig object
  chain,   \* the limits of the KinematicChain object
  array,   \* the numpy array passed as q_seed
  runner   \* the ExhaustiveIKRunner object: the config and the chain it holds

python == <<config, chain, array, runner>>
vars   == <<call, python>>

Busy(t) == call[t].phase \notin {"idle", "done", "raised"}
Joints  == DOMAIN array

Init ==
  /\ call = [t \in Threads |-> NoCall]
  /\ config \in Budgets /\ chain \in Boxes
  /\ array \in {[j \in DOMAIN chain |-> x] : x \in SeedValues}
  /\ runner = [budget |-> config, limits |-> chain]

-------------------------------------------------------------------------------
\* Statements of Python

SetConfig(b) == config' = b /\ UNCHANGED <<call, chain, array, runner>>
SetLimits(l) == chain' = l /\ UNCHANGED <<call, config, array, runner>>
WriteSeed(j, x) == array' = [array EXCEPT ![j] = x] /\ UNCHANGED <<call, config, chain, runner>>

\* ExhaustiveIKRunner(chain, config=config): both are passed by value.
NewRunner ==
  /\ runner' = [budget |-> config, limits |-> chain]
  /\ UNCHANGED <<call, config, chain, array>>

\* The call up to the release of the GIL.  config=None stands for a default IkConfig;
\* solve() of a runner uses the config the runner holds.
Enter(ask) ==
  LET used == IF ask.kind = "exhaustive" THEN runner
              ELSE [budget |-> config, limits |-> chain]
  IN /\ ~Busy(ask.thread)
     /\ call' = [call EXCEPT ![ask.thread] =
          [NoCall EXCEPT !.phase = "validate", !.kind = ask.kind, !.finite = ask.finite,
             !.fits = ask.fits, !.given = ask.given, !.max_restarts = ask.max_restarts,
             !.tolSq = ask.tolSq, !.ranking = ask.ranking, !.budget = used.budget,
             !.limits = used.limits, !.seed = [j \in Joints |-> 0]]]
     /\ UNCHANGED python

-------------------------------------------------------------------------------
\* Without the GIL

Exhaustive(t) == call[t].kind = "exhaustive"

\* A target that is not finite raises ValueError; so does, before the seed is copied,
\* a seed of another length in the solve_ik functions.
Validate(t) ==
  /\ call[t].phase = "validate"
  /\ call' = [call EXCEPT ![t] = [@ EXCEPT !.phase =
       IF ~call[t].finite \/ (~Exhaustive(t) /\ ~call[t].fits) THEN "raised" ELSE "copy"]]
  /\ UNCHANGED python

\* VectorXd(q_seed): the array is read one element at a time.
CopySeed(t) ==
  LET c == call[t] IN
  /\ c.phase = "copy" /\ c.given /\ c.fits /\ c.i < Len(array)
  /\ call' = [call EXCEPT ![t] = [c EXCEPT
       !.i = @ + 1, !.seed = [@ EXCEPT ![c.i + 1] = array[c.i + 1]]]]
  /\ UNCHANGED python

SeedCopied(t) ==
  LET c == call[t] IN
  /\ c.phase = "copy" /\ (c.i = Len(array) \/ ~c.given \/ ~c.fits)
  /\ call' = [call EXCEPT ![t] = [c EXCEPT !.i = 0, !.phase =
       IF ~c.fits THEN "raised" ELSE IF Exhaustive(t) THEN "restart" ELSE "solve"]]
  /\ UNCHANGED python

\* Slip: the runner keeps references to the config and the chain of the caller.
SlipByReference(t) == [budget |-> config, limits |-> chain]

\* The criteria and the chain the call passes on.
Passed(t) == [budget |-> call[t].budget, limits |-> call[t].limits]

ExhaustiveStep(t) ==
  /\ Exhaustive(t)
  /\ \/ NextRestart(t, Passed(t).limits)
     \/ StepOne(t, Passed(t).budget)
     \/ OutOfIterations(t, Passed(t).budget)
     \/ Collect(t, Passed(t).limits)
  /\ UNCHANGED python

\* run_ik(): a runner of its own for every call, whose value or error becomes the IkResult.
\* An attempt of it starts from the seed; SingleRunner and RaceRunner say how it ends.
RunIk(t) ==
  /\ call[t].phase = "solve"
  /\ \E q \in Points, solver_index \in {-1, 0, 1} : \E norm \in Norms[q] :
       /\ call[t].kind # "solve_ik" => solver_index < 1
       /\ call' = [call EXCEPT ![t] = [@ EXCEPT !.phase = "done",
            !.solutions = <<[q |-> q, norm |-> norm, solver_index |-> solver_index]>>]]
  /\ UNCHANGED python

-------------------------------------------------------------------------------

Statement ==
  \/ \E b \in Budgets : SetConfig(b)
  \/ \E l \in Boxes : SetLimits(l)
  \/ \E j \in Joints, x \in SeedValues : WriteSeed(j, x)
  \/ NewRunner
  \/ \E ask \in Asks : Enter(ask)

Proceed(t) ==
  \/ Validate(t) \/ CopySeed(t) \/ SeedCopied(t)
  \/ ExhaustiveStep(t) \/ RunIk(t)

Next == Statement \/ \E t \in Threads : Proceed(t)

\* A thread that runs without the GIL is scheduled by the operating system.
Fairness == \A t \in Threads : WF_vars(Proceed(t))

Spec == Init /\ [][Next]_vars /\ Fairness

-------------------------------------------------------------------------------
\* Properties

Finished(t) == Exhaustive(t) /\ call[t].phase = "done"

(* What is returned is what was found: only verified positions, no two of  *)
(* them closer than the tolerance, every verified position within it of a  *)
(* returned one or returned itself, and in the order that was asked for.   *)
AnswerIsExact ==
  \A t \in Threads : Finished(t) =>
    LET c == call[t] IN
    /\ \A a \in DOMAIN c.solutions :
         /\ c.solutions[a].q \in Verified
         /\ \E v \in DOMAIN c.validated : c.validated[v] = c.solutions[a]
    /\ \A a, b \in DOMAIN c.solutions : a < b =>
         /\ SqDist(c.solutions[a].q, c.solutions[b].q) >= c.tolSq
         /\ Key(c.solutions[a], c.ranking, c.seed, c.limits)
              <= Key(c.solutions[b], c.ranking, c.seed, c.limits)
    /\ \A v \in DOMAIN c.validated : \E a \in DOMAIN c.solutions :
         \/ c.solutions[a] = c.validated[v]
         \/ SqDist(c.solutions[a].q, c.validated[v].q) < c.tolSq

\* An open range stands for one turn about zero.
HasRange(limit) == FiniteRange(limit) => limit.lo # limit.hi

\* Two fractions are equal.
SamePlace(x, y) == x.num * y.den = y.num * x.den

(* The counters of an exhaustive_result add up, also when max_restarts is  *)
(* not positive: an attempt ends in one verified solution, one rejected    *)
(* one or none, solutions carry the number of their attempt, and no two    *)
(* attempts after the first have a joint with a range start from the same  *)
(* place.                                                                  *)
AttemptsAccounted ==
  \A t \in Threads : Finished(t) =>
    LET c == call[t] IN
    /\ Len(c.starts) = (IF c.attempted > 0 THEN c.attempted ELSE 0)
    /\ c.before_dedup + c.failed <= Len(c.starts)
    /\ \A v, w \in DOMAIN c.validated : v < w =>
         /\ c.validated[v].solver_index < c.validated[w].solver_index
         /\ c.validated[w].solver_index < c.attempted
    /\ \A j \in DOMAIN c.limits : HasRange(c.limits[j]) =>
         \A k, l \in 2..Len(c.starts) : k < l => ~SamePlace(c.starts[k][j], c.starts[l][j])

\* A fraction x lies between the bounds, which nothing puts in order.
InsideOf(x, limit) ==
  LET lo == IF FiniteRange(limit) THEN 2 * limit.lo ELSE -Turn
      hi == IF FiniteRange(limit) THEN 2 * limit.hi ELSE Turn
  IN \/ lo * x.den <= 2 * x.num /\ 2 * x.num <= hi * x.den
     \/ hi * x.den <= 2 * x.num /\ 2 * x.num <= lo * x.den

(* A call runs on the criteria and the chain it was given, whatever other  *)
(* threads assign to the IkConfig and to the limits meanwhile: no attempt  *)
(* takes more iterations than they allowed then, and every Halton seed is  *)
(* within the limits of then, or, of a joint with one limit or none,       *)
(* within a turn about zero.                                               *)
ConfigAsAsked ==
  \A t \in Threads : Exhaustive(t) =>
    LET c == call[t] IN
    /\ c.starts # <<>> => c.i = 0 \/ c.i <= c.budget
    /\ \A k \in 2..Len(c.starts) : \A j \in DOMAIN c.limits : InsideOf(c.starts[k][j], c.limits[j])

(* Every call returns or raises, whatever its arguments.                   *)
CallsReturn == \A t \in Threads : Busy(t) ~> ~Busy(t)
===============================================================================
