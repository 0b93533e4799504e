--------------------------- MODULE ExhaustiveRunner ---------------------------
(***************************************************************************)
(* exhaustive_ik_runner::solve(): one attempt of a fresh policy from the   *)
(* caller's seed and from each Halton seed, every convergence checked by   *)
(* forward kinematics, near-duplicates dropped, the rest ranked.           *)
(*                                                                         *)
(* The runner holds no state: all there is are the locals of the calls     *)
(* under way, one record per thread.  chain and criteria are parameters of *)
(* the actions, as they are of solve(): who passes them decides whether    *)
(* they can change while it runs.  starts is history.                      *)
(***************************************************************************)
EXTENDS Halton, Functions

CONSTANTS
  Threads,   \* callers
  Points,    \* joint positions a policy may report, tuples of angle units
  Verified,  \* those whose forward kinematics is within both tolerances of the target
  Norms      \* what a policy's error_norm() may be when it converges at a point

ASSUME ExhaustiveAssumption ==
  /\ Points \subseteq Seq(Int) /\ \A p, q \in Points : Len(p) = Len(q)
  /\ Verified \subseteq Points /\ Norms \in [Points -> SUBSET Nat]

VARIABLE call  \* thread -> the call it is in, or its last one

\* The square of (p - q).norm().
SqDist(p, q) ==
  LET sum[j \in 0..Len(p)] ==
        IF j = 0 THEN 0 ELSE sum[j - 1] + (p[j] - q[j]) * (p[j] - q[j])
  IN sum[Len(p)]

NoCall ==
  [phase |-> "idle", kind |-> "none", finite |-> TRUE, fits |-> TRUE, given |-> TRUE,
   budget |-> 0, limits |-> <<>>, seed |-> <<>>,
   max_restarts |-> 0, tolSq |-> 0, ranking |-> "min_error",
   restart |-> 0, i |-> 0, validated |-> <<>>, failed |-> 0, attempted |-> 0,
   before_dedup |-> 0, solutions |-> <<>>, starts |-> <<>>]

-------------------------------------------------------------------------------
\* Deduplication and ranking

\* Slip: a candidate is compared with the solution kept last only.
SlipLastKept(kept, candidate, tolSq) ==
  kept # <<>> /\ SqDist(candidate.q, kept[Len(kept)].q) < tolSq

IsDup(kept, candidate, tolSq) ==
  \E k \in DOMAIN kept : SqDist(candidate.q, kept[k].q) < tolSq

Dedup(validated, tolSq) ==
  LET kept[n \in 0..Len(validated)] ==
        IF n = 0 THEN <<>>
        ELSE IF IsDup(kept[n - 1], validated[n], tolSq) THEN kept[n - 1]
        ELSE Append(kept[n - 1], validated[n])
  IN kept[Len(validated)]

\* Twice the position, so that the midpoint of the limits is an integer too.
Doubled(q) == [j \in DOMAIN q |-> 2 * q[j]]

\* What solutions are compared by.  A joint without both limits puts the midpoint at
\* infinity or makes it NaN: all distances to it compare alike.
Key(solution, ranking, seed, limits) ==
  CASE ranking = "distance_to_seed" -> SqDist(solution.q, seed)
    [] ranking = "min_error"        -> solution.norm
    [] ranking = "mid_range"        ->
         IF \A j \in DOMAIN limits : FiniteRange(limits[j])
         THEN SqDist(Doubled(solution.q), [j \in DOMAIN limits |-> limits[j].lo + limits[j].hi])
         ELSE 0

\* std::ranges::sort is not stable: any order in which no key decreases.
Rankings(kept, ranking, seed, limits) ==
  LET Ordered(s) == \A a, b \in DOMAIN s : a < b =>
                      Key(s[a], ranking, seed, limits) <= Key(s[b], ranking, seed, limits)
  IN {s \in {[a \in DOMAIN kept |-> kept[p[a]]] : p \in Bijection(DOMAIN kept, DOMAIN kept)} :
        Ordered(s)}

-------------------------------------------------------------------------------
\* The restart loop

AsStart(q) == [j \in DOMAIN q |-> [num |-> q[j], den |-> 1]]

\* One turn of the loop over restarts: a fresh policy is set up on its seed.
NextRestart(t, limits) ==
  LET c == call[t] IN
  /\ c.phase = "restart" /\ c.restart < c.max_restarts
  /\ call' = [call EXCEPT ![t] = [c EXCEPT
       !.phase = "step", !.i = 0,
       !.starts = Append(@, IF c.restart = 0 THEN AsStart(c.seed)
                            ELSE SeedGen(limits, c.restart - 1))]]

\* Slip: the loop over iterations ends on the exact count.
SlipExactCount(c, budget) == c.i = budget

AttemptOver(c, budget) == c.i >= budget

\* What an attempt leaves behind when the loop over iterations is left.
Leave(c) == [c EXCEPT !.phase = "restart", !.restart = @ + 1]

Billed(c) == [c EXCEPT !.i = @ + 1]

\* Slip: a rejected convergence is counted but the loop is not left.
SlipNoBreak(c, q, norm) ==
  IF q \in Verified
  THEN Leave([c EXCEPT !.validated = Append(@, [q |-> q, norm |-> norm, solver_index |-> c.restart])])
  ELSE [c EXCEPT !.failed = @ + 1]

\* A convergence is the solution of its attempt only when it verifies.
Converge(c, q, norm) ==
  IF q \in Verified
  THEN Leave([c EXCEPT !.validated = Append(@, [q |-> q, norm |-> norm, solver_index |-> c.restart])])
  ELSE Leave([c EXCEPT !.failed = @ + 1])

\* step_one() on the policy, and what solve() makes of its status.
StepOne(t, budget) ==
  /\ call[t].phase = "step" /\ call[t].i < budget
  /\ \/ call' = [call EXCEPT ![t] = Billed(call[t])]
     \/ call' = [call EXCEPT ![t] = Leave(Billed(call[t]))]
     \/ \E q \in Points : \E norm \in Norms[q] :
          call' = [call EXCEPT ![t] = Converge(Billed(call[t]), q, norm)]

OutOfIterations(t, budget) ==
  /\ call[t].phase = "step" /\ AttemptOver(call[t], budget)
  /\ call' = [call EXCEPT ![t] = Leave(call[t])]

\* The code after the loop.
Collect(t, limits) ==
  LET c == call[t]
      kept == Dedup(c.validated, c.tolSq)
  IN /\ c.phase = "restart" /\ c.restart >= c.max_restarts
     /\ \E ranked \in Rankings(kept, c.ranking, c.seed, limits) :
          call' = [call EXCEPT ![t] = [c EXCEPT
            !.phase = "done", !.attempted = c.max_restarts,
            !.before_dedup = Len(c.validated), !.solutions = ranked]]
===============================================================================
