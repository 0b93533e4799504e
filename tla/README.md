# Formal models of cartan

cartan is a header-only C++ library for serial-chain robots: Lie groups, forward kinematics (FK),
URDF import, closed-form and iterative inverse kinematics (IK), and Python bindings.  This project
models the parts that have state, protocols or discrete decisions: the *runner* that drives solve
policies, the twenty *policies*, the *wrapper* that restarts them and the stall detector they
share; the exhaustive runner and how Python threads call it; the URDF loader; the closed-form
solvers with unwrapping and selection; and `cartan::expected`.  The rest of the library is
stateless floating-point computation.

Every module parses with SANY; the `.cfg` files beside the `MC*` modules are TLC runs; the
`*Proofs` modules are checked by TLAPS.  `PROJECT.json` lists the runs, the source lines every
definition stands for, the hazards the properties are aimed at, and what was found.

Paths below are relative to `src/lib/cartan-serial-chain/include/cartan/serial/ik/` unless they
start with `src/`.

## 1. Inventory

| Component | State it keeps | Operations | Interacts with |
|---|---|---|---|
| `basic_ik_runner<Policy>` (`basic_ik_runner.h`) | chain borrow, objective, status, best solution and its metric, total iterations, convergence flag | `setup`, `step`, `step_n`, `solve`, `abort`, getters | calls `setup/step/abort` and reads the getters of its policy |
| `basic_ik_runner<Policies...>` (same file) | the above, plus per-policy parked flags and results, winner index, early-stop flag | the same; a `step` is a round over all policies | several policies, each seeded by the Halton generator |
| `solve_policy` concept (`concepts/solve_concept.h`) | - | the contract between runner and policy | every runner, policy and wrapper |
| native policies `builtin_lm`, `dls`, `newton_raphson`, `builtin_lbfgsb` (`solver/`) | working configuration, cached error, iteration count, status, error ring | `setup`, `step(chain, n)`, getters; `abort` is empty | limits policy, stall detector |
| `projected_lm` | the above, plus attempt counter, restart count, best-so-far, abort flag | `setup`, `step`, `abort` | Halton generator, stall detector |
| eight argmin adapters with one attempt | the above, plus an owned optimizer | `setup`, `step`, `abort` | the external argmin optimizer, one iteration per unit |
| five argmin adapters that restart | the above, plus restart and attempt counters, (four of them) best-so-far | `setup`, `step`, `abort` | argmin; perturbation of the configuration |
| `nlopt_slsqp`, `nlopt_bobyqa` (`detail/nlopt_common.h`) | configuration, error, previous error, restart count, an NLopt handle | `setup`, `step`, `abort` | NLopt, which calls back into the policy and may throw |
| `restart_wrapper` (`wrapper/`) | inner policy, restart count, best of failed attempts, abort flag, damping carried over | `setup`, `step`, `abort`, getters | inner policy, Halton generator |
| stall detection (`detail/stall_detection.h`) | ring of the last 32 error norms | `push`, `clear`, `check_stall_divergence` | every iterative policy |
| joint limits (`detail/limit_enforcement.h`, `policy/limits_policy.h`) | none | `enforce_limits`, `canonicalize_into_limits`, `feasible_after_canonicalization` | every policy |
| `exhaustive_ik_runner`, `ik_validation.h`, Halton generator | local to `solve` | restart loop, FK validation, dedup, ranking | a fresh policy per attempt, the Halton generator |
| Python bindings (`src/python/src`) | `IkConfig`, chain with limits, runner object, numpy arrays | validate arguments, release the GIL, copy the seed, solve, convert | runners; other Python threads |
| URDF import (`src/lib/cartan-urdf`) | link and joint tables, position of the walk | `load_urdf`: parse, then walk base to tip and build a chain | pugixml; chain types |
| analytical solvers (`src/lib/cartan-analytical`) | geometry measured at construction | constructors, `make`, `solve`; `unwrapped_solver`, `closest_to_seed` | joint limits, `expected` |
| `cartan::expected` (`src/lib/cartan-lie`) | a flag and a union of value and error | construction, assignment, `emplace`, `swap`, observers, monadic operations, destruction | result type of everything above |
| Lie groups, FK, Jacobians | none | pure functions | all |

What is hard here.  Nothing in the C++ core is multi-threaded: racing is cooperative, in one
thread.  The difficulty is in *protocols over several calls*: budgets that must add up over nested
loops; getters that are read together but written apart (a status of the last iterate, a solution
of the best one); restarts that reset some counters and keep others; a cached error that a later
mutation makes stale; aborts and repeated solves between any two calls; loops that end only because
somebody bills a unit of work.  Threads come in with Python: a solve runs without the GIL beside
statements that write to the objects it was given.  The closed-form solvers are hard at the
boundaries (pi and -pi, singular wrists, 0/0), the URDF walk on graphs that are not trees, and
`expected` between the destruction of one member and the construction of the other.
`PROJECT.json` lists these hazards at their lines.

What makes each part correct, in one line each: a runner never exceeds its budget, always returns,
and reports success only with a solution and failure only with the policy's own reason; a race is
won by the first to converge, or by the best; a policy converges only on a configuration that meets
both tolerances within the limits, counts exactly what it bills, and lets a running step use all of
its units; whatever restarts keeps the best of its attempts and stays within the restart budget;
the ring changes no decision of an unbounded history; an exhaustive solve returns what it verified,
once, in order, on the criteria of its call; a loaded chain is the path of its document, a refused
document deserves its error; a closed-form solve loses and repeats no solution and the one picked is
the nearest; exactly the member of an `expected` that the flag names is alive.

## 2. Modules

```
IkSpace            configurations, error norms, limits, statuses
  SolvePolicy      what a policy shows its driver
    SingleRunner       basic_ik_runner, one policy      -> SingleRunnerProofs
    RaceRunner         basic_ik_runner, several         refines Race            -> RaceRunnerProofs
    RestartWrapper     restart_wrapper                  refines PolicyContract  -> RestartWrapperProofs
    PolicyContract     the contract as a specification
    PolicyFrame        members, step() loop, limits, abort, best tracking
      NativePolicies       builtin_lm, dls, newton_raphson, builtin_lbfgsb
      ArgminPolicies       eight adapters
      RestartingPolicies   five self-restarting adapters
      NloptPolicies        nlopt_slsqp, nlopt_bobyqa
      ProjectedLm          projected_lm
        Policies             all of them                refines PolicyContract  -> PoliciesProofs
ErrorRing          error_ring, check_stall_divergence    -> PoliciesProofs
Halton             the seed generator
  ExhaustiveRunner     exhaustive_ik_runner::solve
    PyIkCalls            the iterative solvers as Python threads call them  -> PyIkCallsProofs
UrdfParse          the parser of load_urdf
  UrdfBuild            the parser, then build_chain      -> UrdfProofs
Angles             wrapping, limits, unwrapping on a circle of Turn units
  Analytical           the closed-form solvers
    UnwrappedSolver      unwrapped_solver, closest_to_seed  -> UnwrappedProofs
SumType            what an expected promises
Expected           expected<T, E> and expected<void, E>  refines SumType        -> ExpectedProofs
SmallSpace, MC*    instances for TLC
```

**The abstraction of numbers (`IkSpace`).**  A configuration is an element of a finite set; its
angular and linear errors are constants of the instance, small naturals.  What a numerical step
does is a choice of configuration; what the code *decides* is a comparison of those naturals, as in
the code.  `Canonical` (unwrapping full turns, which leaves the pose alone) and `Clamp` are maps.
The null-space limits policy moves a configuration along the kernel of the Jacobian as far as its
gradient says and then clamps: any configuration in the box.  The instances contain configurations
with a smaller norm that misses one tolerance (`split`), two solutions of different quality
(`goal`, `best`), a solution a full turn away (`wound`), a solution and a miss outside the limits
(`outside`, `astray`).

**Assume and guarantee.**  `SolvePolicy` is what the runners assume of a policy: `PolicySetups`,
`PolicySteps`, `UnitsBilled`, `AbortOutcomes`.  `PolicyContract` is the same as a specification,
and `Policies` and `RestartWrapper` implement it (`RefinesContract`, model-checked and proved), so what
is shown of the runners holds of those policies, wrapped or not.  The exceptions (section 5) are the
policies that keep a best iterate and hand it out with status converged, `builtin_lbfgsb` with
null-space centering, and the NLopt policies with null-space centering, which move an iterate after
they have judged it.  They are outside the contract, so nothing shown of a runner is claimed of it
over them.

**`SingleRunner`.**  `policy` is the policy as seen from outside, the other variables carry the
names of the members.  `pc` says where inside `solve()` or `step_n()` the calling thread is:
`SolveEnter`, then `SolveCall` (the policy call and `step_single_metrics`), `SolveAccount` (the code
after it), `SolveLoopEnds`, `SolveReturn` (`build_result`).  `converged_at` and `billed` are history
variables for the properties.

**`RaceRunner` and `Race`.**  A round is modelled tick by tick because ticks communicate through
`m_early_stop`, `m_parked` and `any_running`.  `Race` says what a race promises without rounds:
contestants finish once each, nobody after the winner of a stop-at-first race, the verdict names
one that converged.  The refinement mapping takes a contestant's outcome from its parked result.

**The policies.**  `PolicyFrame` holds what they share: the members, `SetupTo`, `Enter` (the call),
`Looping` (the loop condition), `Return` (the end of the call, and what the getters answer from then
on), `StallOnAbort`, `UpdateBest`.  Each loop body is an action of the policy's own, split by its exits,
and `Policies` is the disjunction of them all.  A *build* is a pair of solver and limits policy and is
chosen initially: the compile-time instantiation.  Members only some policies have keep their initial
values in the others.  The optimizers behind the adapters (argmin, NLopt) are not part of the
repository; their answers are arbitrary: any iterate, any status, no work at all, an exception.

**`RestartWrapper`** wraps an arbitrary policy of the contract with the accounts shown of the
concrete ones (a running step uses all its units; an attempt ends by its cap).  The damping
parameter carried between attempts is left out: it only biases inner iterates, which are arbitrary.

**`ErrorRing`** keeps the storage array, head and size of the ring, and beside it the unbounded
history.  The floating-point errors are naturals, the thresholds too.  Its definitions carry the
prefix `Ring`, so that they can be reasoned about beside those of the policies that own a ring.

**`Halton`, `ExhaustiveRunner`, `PyIkCalls`.**  A coordinate of a seed is an exact fraction
(the Halton element is in lowest terms, and scaling by a range is injective), so that seeds are equal
exactly when they are written alike.  `call` holds the locals of
`solve()`, one record per thread, and its `phase`; an attempt advances one `step_one()` at a time
and may answer anything.  A point is a tuple of integers, the FK check is membership in `Verified`,
and an unstable sort is any order that agrees with the keys.  In `PyIkCalls` a statement of Python
is one step, since it runs under the GIL; the steps of a solve are interleaved with the statements
of other threads, down to the single elements of the seed array (`CopySeed`).  `Enter` is where an
argument is converted: `exhaustive_ik_runner` works on copies of the config and the chain, and
`ConfigAsAsked` fails if it kept references.  `solve_ik*` reads the live chain, see section 5.

**`UrdfParse`, `UrdfBuild`.**  A document is what the XML reader hands over: sequences of elements
(`DocumentAssumption`) with absent attributes, numbers as tokens (`zero`, `one`, `nan`, `junk`).  `ReadLink` and `ReadJoint` handle
one element with all its early returns, in the code's order (`FirstFailure`).  A pose is the list
of the joints whose origins were composed to get it, so a transform composed twice, late or not at
all shows.  The walk is one iteration per step, split by its exits (`WalkEnds`, `FoldLeaf`,
`Branched`, `FoldFixed`, `Mobile`).

**`Angles`, `Analytical`, `UnwrappedSolver`.**  Angles are integers, `Turn` of them make a
revolution, `Tol` is the tolerance both of limits and of duplicates; wrapping, the band
of `within_limits` and the whole turns of `unwrap_to_range_nearest` are computed as in the code, and
`NaN` is a value apart from all integers that fails every comparison.  Properties of the selection
compare a pick with the angles `Turns` whole turns away: a range for TLC, any set of integers, all of
them included, for the proofs.  The geometry is abstracted to the outcomes the code
tells apart: a subproblem answers with no angle, one or two, from a set with boundary aliases in it;
a candidate's FK error is below the tolerance or not.  (The planar arm keeps its law of cosines,
because its edge cases are arithmetic.)  The loops over candidates, the early exits, the checks and
the error reasons are the code's.  `verified` is a history variable: the candidates that passed.

**`Expected`, `SumType`.**  An operation is a list of steps on members (destroy, construct, assign,
set the flag) taken one at a time; `void` chooses the specialization.  `Throws` says in which steps
a constructor or an assignment may throw.  `SumType` knows neither steps nor storage.  There a call is
recorded with its operands and its argument when it begins (`asked`); when it returns, the contents are
what that request promises of the contents it found (`Promised`), so that an assignment stores
exactly its argument or its source, a swap exchanges both ways, and a call that leaves this undone,
does something else or touches a third object is not one of its steps; when it throws, it leaves what it
found (`Left`).  The refinement mapping shows the contents as of before the call until it has ended.

## 3. Runs

Passing runs:

| Run | Shows | Instance |
|---|---|---|
| `single` | literal budget, exact iterations, honest success, best of all solutions, faithful failures, kept convergence, stable repeated solve; `solve` and `step_n` return | 2 solutions, 3 objectives, budget 3; 121 thousand states |
| `race` | first to converge wins, the least error of the converged is returned, all finish, equal share; rounds implement `Race`; `step` and `solve` return | 2 policies, 2 solutions, round limit 2; 291 thousand states |
| `policies` | feasible convergence, exact accounts, bounded work and restarts, all units used while running, limits applied on every path, best of everything tried; the 42 builds that keep it implement the contract; `step` returns | 20 solvers x 3 limits policies, 5 configurations, cap 3, 2 restarts; 146 thousand states |
| `wrapper` | best of attempts, restart budget, and the contract again | 3 configurations, 1 restart, cap 2; 151 thousand states |
| `ring` | contents and verdicts through two wrap-arounds | capacity 3, 6 pushes; 23 thousand states |
| `exhaustive` | the answer is exact, the counters add up, a call keeps to its criteria, calls return or raise | 1 solving thread beside all statements, 4 points (3 verified), up to 3 restarts, budgets -1 and 2; 125 thousand states |
| `urdf` | the parser is exact, the chain is the path, errors are true, a load ends | every tree, forest and cycle over 4 links with fixed and revolute joints, one document per defect, 3 bases x 4 tools; 443 thousand states |
| `analytical` | solutions distinct, none lost, no wrong reason, the nearest picked | 6 arms, 8 units to the turn; 665 thousand states |
| `expected` | members alive as flagged; both templates implement `SumType`: every call does what was asked, or throws and leaves what it found | 3 objects, 2 payloads, symmetric; throws where the code recovers; 12 thousand states |

**Bounds.**  `MaxWork`, `MaxIterations`, `MaxRestarts`, `MaxTotal` are parameters of the code, given
small values: every comparison with them is reached from below, at and above.  `MaxUnits` (the
largest n of `step(chain, n)`), `MaxRounds` (of `step_n(n)` in `SingleRunner`; the rounds after which a
race is no longer aborted in `RaceRunner`), `MaxSpent` (the units after which an ended `projected_lm`
or an exhausted wrapper is not stepped again) and `MaxPushed` (checks per attempt) bound the driver.
`Ends` narrows the failing statuses of racing policies to one of their own and the one of `abort()`:
all code after `tick_policy` tells only converged from the rest.  The bounds are chosen so that a call
can end before, at and after the limits inside; two attempts and a restart fit; the ring of three
wraps twice in six pushes.  Two policies suffice for a race: its rules compare a winner with the
others, or two parked results.  The runners decide by what policies say of themselves, so their
spaces hold two solutions of different error and no limit; a policy may fail at either.  The policies
decide by tolerances and limits, so theirs holds a configuration of every kind.

One solving thread suffices for Python: two calls share no variable but the objects, and every
statement another thread could make is in `Statement`.  Its points lie so that with the tolerances
asked for two are duplicates, or one is a duplicate of two; `max_restarts` is 3, 2, 1 and -1.  Four
links hold a fork of which one side goes on, three leaves at one link, a chain with a wrapper leaf at
its end, and a cycle beside a root.  Six
arms differ in link lengths, gaps, offsets, signs, pitch and limits (closed, half-open, free,
narrower than a turn, wider than one); `MaxSolutions` of 2, 4 and 8 are the code's and are reached.

Deadlock is checked in every run but `urdf`, where a load simply ends: elsewhere a driver can always
make another call.

**Fairness.**  Code runs: once a call has been entered, the thread executes it, so the actions
*inside* a call are weakly fair (`WF(Driving)`, `WF(Iterate)`, `WF(Return)`).  Nothing obliges a driver
to call anything, so `Setup`, `Step`, `Abort`, `Enter` have no fairness.  `load_urdf` is one
synchronous call, hence `WF(Next)` in `UrdfBuild`.  In `PyIkCalls` a thread that has released the GIL
is scheduled by the operating system: `WF(Proceed(t))` per thread, and none for Python statements.
Policies may answer running with zero units: that `solve()` returns all the same is the point of
`CallsReturn`.

**Mutants.**  Definitions named `Slip...` are plausible slips in the code (a guard dropped, a
counter not reset, two tests swapped); `PROJECT.json` pairs each property with one that breaks it.

## 4. Proofs

TLC checks small instances; the theorems below hold for every value of the constants: any number of
configurations and any errors, any budgets and caps, any number of policies, restarts, objects, links
and joints.  All of them are checked by TLAPS to the last leaf.  `PROJECT.json` lists them beside the
properties they prove.  All 30 invariants of the passing runs are proved, the action property
`RepeatedSolveStable` and the four refinements too: everything but liveness.

**Assumptions.**  Each is named in the module that declares the constants and evaluated by TLC in the
runs of that module.

| Assumption | Says | Why |
|---|---|---|
| `SpaceAssumption` | error norms are naturals below `ScalarMax`; canonicalizing preserves the errors, clamping lands in the limits, both leave what is in the limits | `ScalarMax` is `numeric_limits::max()`; what the two helpers do |
| `NoConfigAssumption` | the marker of "no error known" is no configuration | a marker |
| `RunnerAssumption`, `RaceAssumption`, `WrapperAssumption`, `FrameAssumption`, `BuildsAssumption` | budgets, caps and bounds are integers; a race has two policies or more | their types; one policy has its own template |
| `RingAssumption` | a capacity of one or more, errors and factors naturals, `StallWindow` any integer | `error_ring` is instantiated with 32; the window is an int |
| `StorageAssumption` | the markers for no payload, no object and a call in progress are no payloads and no objects | markers |
| `HaltonAssumption` | a turn is a positive integer and minus infinity is below infinity | the seed generator's `pi` and infinities |
| `ExhaustiveAssumption` | points are sequences of integers of one length, `Verified` are points, each has a set of natural norms | `Eigen::Vector` of the chain's size; norms are not negative |
| `PyAssumption` | boxes are sequences of limits, budgets and seed values integers, a call's arguments have their types, squared tolerances are naturals | their types; a square |
| `AngleAssumption` | the units of a turn are even and positive, the tolerance is less than half a turn, infinities are integers, `NaN` is not | 2 pi has a half; both tolerances are far below pi |
| `AnalyticalAssumption`, `SeedAssumption` | chains have four joints, two links of natural length, signs of 1 or -1; subproblems answer with integers; seeds have a number per joint | the types; what the constructors measure |
| `NameAssumption`, `DocumentAssumption` | elements come in sequences, a link's name is a string, `mimic` is present or not, the marker for a missing attribute is none of the strings | what the XML reader returns |

**One way through all of them.**  The property that matters is seldom inductive.  Each module states
the invariant that is, as a conjunction of named parts, and proves `Init => IInv`,
`IInv /\ [Next]_vars => IInv'` with one step per action, and `IInv => Property`; PTL makes the temporal
step.  Where two parts need each other they are one invariant, and where one only needs another it is
added on top of it.

**`SingleRunnerProofs`.**

- `TypeCorrect` includes that `m_status` is never `joint_limit_hit`: that case of `build_error()` is dead.
- `BudgetIsLiteral`, `IterationsAreUnits`.  `BudgetLiteral` says nothing of the local `total_units`;
  `Accounts` does: in the loop it equals what was billed, after a call the two differ by the units of
  that call, and a call never bills more than was left.
- `SuccessIsHonest` rests on `BestIsConverged` (what `m_best_q` is once something converged, objective by
  objective) and `ResultIsBest` (an answered success is still the best).
- `BestIsReturned` adds `BestBeatsConverged`: the best carries its own measure and no solution met so
  far beats it.
- `FailureIsFaithful`, `ConvergenceIsKept` rest on `StatusTracksPolicy`, which follows the three
  statuses (the runner's, the policy's, the one just returned) through the loop.  A budget of zero is
  a case of its own in `FailureFaithful`: the proof asks for it, since the loop is then never entered.
- `RepeatedSolveIsStable`, an action property, rests on `AnswerIsCurrent`: the answer of a finished
  solve is what `build_result()` would say now.

**`RaceRunnerProofs`**, for any number of policies.

- `SharesAreEven` rests on `Share`, which counts the round in progress up to the policy whose turn it
  is, and `StopParks`.
- `FirstWins`, `BestIsAnswered` and `AllFinish` rest on `Parking` (who has a result is parked, and an
  early stop is a convergence under the speed objective), `Winner` (the first to converge is
  remembered and in a speed race the only one) and `RaceStatus` (how the status stands to the race in
  every phase of a round).  That the search of `SelectBest` finds the least error is
  `LowestErrorIsLowest`.
- `ImplementsRace`: the refinement mapping (`OutcomeShown`, `VerdictShown`) takes the initial states to
  those of `Race`, and each step to one of `Race` or a stutter.

**`RestartWrapperProofs`**, for any policy under the contract inside.

- `BestIsHandedOut` rests on `BestSoFar`, about the ends of all attempts so far, whatever was aborted
  in between.
- `GivesUpOnlyLast` rests on `InnerShows` (the wrapper says what its inner policy says unless it was
  aborted) and `AttemptAccounts` (the units of the attempts begun and of the one that runs).
- `WrapperIsPolicy`: what the wrapper shows is a behaviour of `PolicyContract`.

**`PoliciesProofs`**, for all twenty policies, every limits policy and any cap.  The proofs go over the
loop bodies twice.  One lemma per group of policies says what one pass may do (`Moved`, `BoxKept`,
`Honest`, `CapKept`, `TriedKept`, `RestartKept`), and `IteratePass` collects them; the invariants over
the calls of a driver then need to know nothing of the policies.

- `Core` (`TypeOK` and what restarts, limits and the best need) holds first; on it rest
- `IterationsAreUnits` and `RunningIsUsedUp`, by `Accounts`;
- `ConvergedIsFeasible` and `BoxIsKept`, by `InLimitsWhen`;
- `BestIsHandedOut`, by `BestHandedOut` and `BestKept`;
- `CapsHold`, by `Budget`: one attempt has units left below the cap as long as it goes on, several
  have those of one attempt more for every restart;
- `PoliciesKeepContract`, by `UnderContract`: a build that keeps the contract stands where it met the
  pose when it has converged and shows its own members.

With these, what is proved of the runners against the contract holds of the policies and of the
wrapper around them, apart from the builds named in section 5.

The same module holds the theorems of the **error ring** the policies own, for every capacity,
window, threshold and length of an attempt.

- `RingHoldsLatest`: the ring holds the latest errors in order.  Not inductive alone: while the ring is
  filling one must know that the head has not moved (`HeadRests`).
- `RingDecidesAsUnbounded`: the verdict is that of an unbounded history, whatever the int
  `stall_window` is (negative and oversized windows clamp to the capacity on conversion).

**`ExpectedProofs`**, for any number of objects and any payloads.  `MembersAreLive` and `ImplementsSum` are
stated under `NoThrowOnReplace`, since without it the first is false: that is the finding
`expected_throws`.  Throwing constructors and assignments remain, in every place where the code can
recover from them.  An operation is a program of steps, so the invariant says of the program in
progress that it *runs well* from the storage it has reached (`Runs`): none of its steps is faulty,
where it may throw the operation may be left, and at its end flag and storage agree and the contents
are what the request on record promises of those before it (`Due`).  `Runs` is the largest set of
programs and storages closed under that; a witness for it is built per program shape (`Constructing`,
`Setting`, `Reiniting`, `Emplacing`, `SwappingMixed`, ...) and `OneStep` and `Onward` take it along one
step.

**`UrdfProofs`**, for documents of any size whose joints connect any links.

- `ParserExact` rests on `ParseInv`: what has been read is a good beginning of the document, and the
  parser has failed only on one that is not good to its end.  `FirstFailureIs` says of every list of
  checks that an element is kept exactly when none of them fails.
- `PathIsExtracted` rests on `WalkInv`: the joints walked are a `Path` on which every joint is the one
  the walk has to follow, and the axes pushed are those of its mobile joints.  That no link is reached
  twice is not invariant: a cycle through the start is walked round until the bound of
  `joints + 1` stops it.  What is invariant is that the path is `Fresh`, or a joint leads back to the
  start and the walk `Rounds`; only a fresh path can end, because a link the walk went on from
  is not one where it ends (`EndedWalk`).
- `RefusalsAreTrue`: by the same invariant a walk of more steps than joints has gone round
  (`LongWalk`).  That a tool it did not meet is not below the start, and that no mobile joint is lost,
  is `WalkCovers`: the links passed, with the leaves beside them, are closed under the joints, and
  `Below` is the least set that is.

**`PyIkCallsProofs`**, for any threads, points, joints, budgets, restarts and interleavings.  The
invariant `Inv` says of every call that it is `Sound`, by itself: an attempt leaves at most one
candidate or one failure, in order (`Counted`); attempts began at the seed and then at the
elements of the Halton sequence scaled to the limits copied on entry, and none has used more than its
iterations (`Started`); a finished call holds an `Answer`.  That it never mentions `config`, `chain` or
`array` is the point: statements of Python change nothing in it (`InvStatement`).

- `AnswersExact`: the deduplicated list is a `Kernel` of the candidates (`DedupKeeps`) and the ranking a
  reordering by key (`RankingIs`).  The loop of the deduplication is a recursive function; that it
  computes anything is `RecursionExists`: of the lengths without a solution the least could be
  reached from the one before.  This stands in for induction principles the provers cannot
  instantiate.
- `AttemptsAlwaysAccounted` adds to the counters that no two restarts begin at one place.  That rests on
  `HaltonElements` (elements of the sequence are proper fractions and different, for every base
  above one: the last digit and the rest can be told apart) and `ScaledInjective`.
- `ConfigAlwaysAsAsked`: no attempt goes past the iterations, and no Halton start leaves the limits, of
  the call, or, of a joint with one limit or none, a turn about zero (`ScaledIs`).

**`UnwrappedProofs`**, for every chain, limits, seed and answer of the subproblems.  Two
invariants: `Exact`, about the solve, and on top of it `Chosen`, about what a caller does with the
result.

- `SolutionsAlwaysDistinct` and `SolvesAlwaysExact` need each other.  `Matches` relates the solutions to
  the candidates that passed, both ways up to wrapping, and says that the solutions of the deduplicating
  solvers are wrapped and different; a candidate dropped as a duplicate is covered because
  duplicates are mutual (`CoincideSymmetric`) and wrapping twice is wrapping once (`WrapConfigIs`).
  `Stage` says where in its nested loops a solve of each kind can be, `Ending` that it ends with
  solutions or with a reason it deserves.  `NaN` angles occur in the planar arm only: it is why
  `Config` depends on the kind, and `WrapConfig` must leave them alone.
- `UnwrapIs`, about `unwrap_to_range_nearest`: the result stands for the same angle, and if any whole
  turns bring the angle within the limit, it is within the limit and none within is nearer.  The code
  rounds to the nearest turn and clamps to a window; `WindowIs` shows that the window is an
  interval of turns and `ClampNearest` that clamping a rounded value is nearest in it.
- `PickAlwaysNearest`: the branches are the solutions unwrapped (`Chosen`), so the nearest
  of the branches in range is the nearest of all placements of all solutions (`BranchIs`, joint by joint),
  and when none is in range no solution has a placement.

**Only model-checked.**  The liveness properties `CallsReturn` (of `SingleRunner`, `RaceRunner` and
`PyIkCalls`), `StepReturns` and `LoadReturns`: the prover knows neither fairness nor ENABLED.  The
properties of the runs that expect a violation are false, so there is nothing to prove of them.

The type invariants are lemmas of the proofs and are not among the properties of the runs.

## 5. Findings

Each has a run (`expect: violation`) whose counterexample shows the disagreement; `PROJECT.json`
quotes both sides.

| Run | What the code does |
|---|---|
| `policies_best` | converged, but the solution handed out is an earlier iterate of smaller norm that misses a tolerance: `filter_slsqp`, and in the same way `filter_nw_sqp`, `argmin_slsqp`, `argmin_projected_gn` and `projected_lm` |
| `expected_throws` | An assignment destroys the old member before it constructs the new one; when that throws, the flag names a destroyed member and the destructor destroys it again (`expected.h:820`) |
| `analytical_nan` | The planar solver with two links of one length and the target at its base computes 0/0; verification rejects by `>=`, which a NaN passes, so NaN angles are returned as a solution (`solver_2r.h:187`, `detail/fk_verification.h:53`) |

Seen in the code and visible in the models, without a run of their own.

Runners:

- A policy that ends on `joint_limit_hit` is reported as `iteration_limit`: `step_single_metrics` has no
  branch for it (`basic_ik_runner.h:316`), although `solver/dls.h:126` speaks of a joint-limit failure.
- A secondary objective that has met a solution fails when the budget ends inside the next attempt
  (`basic_ik_runner.h:213`).  `step()` charges nothing to the total budget and a second `solve()` gets a
  fresh one (`basic_ik_runner.h:177`).
- After a `min_distance` success `error_norm()` of a race may be that of a failed policy
  (`basic_ik_runner.h:262`).
- With a metric of zero at the solution (a singular one), a single-policy metric objective returns the
  seed as its success (`basic_ik_runner.h:468`); `SuccessHonest` is stated for positive metrics.
- A race under a metric objective selects by error norm (`basic_ik_runner.h:553`, `SelectBest`).
- A race cut at the round limit before any policy ended reports the seed with an error of `max()`
  (`basic_ik_runner.h:619`, `BuildError`).
- A restart of the wrapper after an attempt without work returns running with zero units, which the
  runner takes for no progress (`wrapper/restart_wrapper.h:221`).
- The reason `aborted` is never reported, and `abort()` resets the runner's status to running; non-speed
  objectives report the error norm of the policy's current attempt with an earlier solution; `step()` of
  a single-policy runner has no zero-unit guard; after `setup()` most adapters hold the previous
  problem's configuration until their first step.

Policies:

- `builtin_lbfgsb` with null-space centering converges on an error it cached before the limits policy
  moved the configuration (`solver/lbfgsb.h:177`); `KeepsContract` leaves the build out.
- The NLopt policies count a restart that is never made (`solver/nlopt_slsqp.h:146`, `CountRestart`) and
  report a solution found on the last allowed call as `iteration_limit` (`solver/nlopt_slsqp.h:161`,
  `Returned`).
- An ended `projected_lm` bills one unit for every further step (`EndedStep`), which is why
  `WorkIsBounded` speaks of it only while it runs.

Exhaustive runner and Python:

- `src/python/src/bindings/exhaustive_bindings.cpp:31` wants policies that do not restart inside the
  runner's own restart loop, and names `projected_lm`, which restarts itself.
- `ValueError`s are raised with the GIL released, although `exhaustive_bindings.cpp:194` says before.
- A seed array written by another thread during the copy is used torn (`CopySeed`); `solve_ik*` reads
  the live chain, whose limits may be assigned meanwhile.
- The Halton seed of a joint with one limit is drawn from a turn about zero and may lie outside that
  limit (`Scaled`); `mid_range` with an unbounded joint ranks arbitrarily (`Key`).

URDF:

- Two fixed leaves that are no self-collision wrappers end the walk, so that naming one of them as tool
  gives `tool_link_unreachable`, although the comment at `build.h:252` says that the tool
  disambiguates.  Two fixed subtrees without a mobile joint give `branched_kinematic_tree`, although
  `build.h:93` speaks of non-fixed joints.
- A cycle beside a single root is accepted silently; a document that is one cycle is called branched.
- NaN in a triple is `malformed_xml`; the finite check precedes a narrowing to float.

Analytical solvers:

- The planar solver returns two equal solutions (modulo a turn) at the inner boundary when the first
  link is the shorter, and does not wrap its angles.  The 6R solver verifies with the default
  tolerance, not that of `make` (`solver_6r.h:261`), and says unreachable where no candidate verifies.
- The OPW solver keeps flip and no-flip at a wrist singularity, and says unreachable with distance zero
  when only its back shoulder is out of reach.
- A joint without limits is not moved towards the seed (`detail/angle_unwrap.h:27`).  A NaN counts as
  within limits and, in front, stops the plain `closest_to_seed` (`FirstNearest`).

## 6. Not modelled, and the plan

Not modelled because they are pure floating-point functions or generated data: Lie groups, forward
kinematics and Jacobians, argmin problem adapters, the geometry inside the closed-form subproblems,
`opw_forward_kinematics`, `classify_branch` and `paden_kahan_1`, inertia and transforms of the URDF
loader beyond which origins are composed, benchmarks and their third-party code, examples, embedded
smoke tests, build files.  Left out of modelled files because nothing in the library calls them:
`filter_valid_solutions`, `wrap_joint_angle`.  The Python bindings of the analytical solvers, Lie groups,
FK and URDF convert values under the GIL and hold no state.

Left to prove: nothing among the safety properties of the runs.  Worth stating next: that the
tie-breaks of the two selections are stable, and that `projected_lm` draws its restarts from within the
limits (`SeedGenIs` carries over).

Next compositions: `SingleRunner` over `RestartWrapper` (the effect of the zero-unit restart on a
whole solve).
