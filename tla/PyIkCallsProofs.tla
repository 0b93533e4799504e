---------------------------- MODULE PyIkCallsProofs ----------------------------
(***************************************************************************)
(* What holds of every exhaustive solve, whatever Python threads do beside *)
(* it: the answer is exact, the attempts are accounted for, and a call     *)
(* runs on the criteria and limits it was given.                           *)
(***************************************************************************)
EXTENDS PyIkCalls, FiniteSetTheorems, TLAPS

------------------------------------------------------------------------------
(* Recursion *)

\* A nonempty set of naturals has a least element: its initial segments are
\* finite sets, and strict inclusion of those is well founded.
LEMMA LeastNatural ==
  ASSUME NEW T, T \subseteq Nat, T # {}
  PROVE  \E x \in T : \A y \in T : x <= y
<1> DEFINE U == {0..x : x \in T}
<1> DEFINE R == StrictSubsetOrdering(Nat)
<1>1. IsWellFoundedOn(R, FiniteSubsetsOf(Nat))
  BY FS_StrictSubsetOrderingWellFounded
<1>2. U \subseteq FiniteSubsetsOf(Nat) /\ U # {}
  <2>1. \A x \in T : x \in Nat /\ IsFiniteSet(0..x) /\ 0..x \in SUBSET Nat
    BY FS_Interval
  <2>. QED
    BY <2>1 DEF FiniteSubsetsOf
<1>3. PICK m \in U : \A w \in U : <<w, m>> \notin R
  <2> HIDE DEF U, R
  <2>. QED
    BY <1>1, <1>2, WFMin
<1>4. PICK x \in T : m = 0..x
  BY <1>3
<1>5. ASSUME NEW y \in T, y < x PROVE FALSE
  <2>1. 0..y \in SUBSET Nat /\ 0..x \in SUBSET Nat /\ 0..y \subseteq 0..x
    BY <1>5
  <2>2. x \in 0..x /\ x \notin 0..y
    BY <1>5
  <2>3. <<0..y, 0..x>> \in R
    BY <2>1, <2>2 DEF StrictSubsetOrdering
  <2>. QED
    BY <1>3, <1>4, <2>3
<1>. QED
  BY <1>5

\* Induction up to n: the least index that is missing would follow from the one before.
LEMMA Induction ==
  ASSUME NEW n \in Nat, NEW T, 0 \in T, \A i \in 1..n : i - 1 \in T => i \in T
  PROVE  \A i \in 0..n : i \in T
<1> DEFINE M == {i \in 0..n : i \notin T}
<1>1. ASSUME M # {} PROVE FALSE
  <2>1. PICK m \in M : \A k \in M : m <= k
    <3>1. M \subseteq Nat
      OBVIOUS
    <3> HIDE DEF M
    <3>. QED
      BY <1>1, <3>1, LeastNatural
  <2>2. m \in 1..n /\ m - 1 \in 0..n
    BY <2>1
  <2>. QED
    BY <2>1, <2>2
<1>. QED
  BY <1>1

\* f solves the recursion from start a by the steps g, where an index goes back to h[i].
Solves(f, n, a, h, g) == f[0] = a /\ \A i \in 1..n : f[i] = g[i][f[h[i]]]

\* A recursion that goes back to smaller indices has a solution: a least length
\* without one could be reached from the length before it.
LEMMA RecursionExists ==
  ASSUME NEW n \in Nat, NEW S, NEW a \in S, NEW h \in [1..n -> Nat],
         NEW g \in [1..n -> [S -> S]], \A i \in 1..n : h[i] < i
  PROVE  \E f \in [0..n -> S] : Solves(f, n, a, h, g)
<1> DEFINE T == {k \in 0..n : ~\E f \in [0..k -> S] : Solves(f, k, a, h, g)}
<1>1. ASSUME T # {} PROVE FALSE
  <2>1. PICK m \in T : \A k \in T : m <= k
    <3> T \subseteq Nat
      OBVIOUS
    <3> HIDE DEF T
    <3>. QED
      BY <1>1, LeastNatural
  <2>2. m # 0
    <3> DEFINE f == [i \in 0..0 |-> a]
    <3>1. f \in [0..0 -> S] /\ Solves(f, 0, a, h, g)
      BY DEF Solves
    <3> HIDE DEF f
    <3>. QED
      BY <2>1, <3>1
  <2>3. m - 1 \in 0..n /\ m - 1 \notin T
    BY <2>1, <2>2
  <2>4. PICK f \in [0..(m - 1) -> S] : Solves(f, m - 1, a, h, g)
    BY <2>3
  <2> DEFINE e == [i \in 0..m |-> IF i = m THEN g[m][f[h[m]]] ELSE f[i]]
  <2>5. h[m] \in 0..(m - 1) /\ m \in 1..n
    BY <2>1, <2>2
  <2>6. e \in [0..m -> S]
    <3>1. g[m][f[h[m]]] \in S
      BY <2>5
    <3>. QED
      BY <3>1, <2>1
  <2>7. Solves(e, m, a, h, g)
    <3>1. e[0] = a
      BY <2>1, <2>2, <2>4 DEF Solves
    <3>2. ASSUME NEW i \in 1..m PROVE e[i] = g[i][e[h[i]]]
      <4>1. i \in 1..n /\ h[i] \in 0..m /\ h[i] # m
        BY <2>1
      <4>2. e[h[i]] = f[h[i]]
        BY <4>1
      <4>3. CASE i = m
        BY <4>3, <4>2
      <4>4. CASE i # m
        <5>1. i \in 1..(m - 1) /\ e[i] = f[i]
          BY <4>4, <2>1
        <5>. QED
          BY <5>1, <4>2, <2>4 DEF Solves
      <4>. QED
        BY <4>3, <4>4
    <3>. QED
      BY <3>1, <3>2 DEF Solves
  <2> HIDE DEF e
  <2>. QED
    BY <2>1, <2>6, <2>7
<1>. QED
  BY <1>1

\* The same for steps that each go on from the one before.
Iterates(f, n, a, g) == f[0] = a /\ \A i \in 1..n : f[i] = g[i][f[i - 1]]

\* An iteration is a recursion that goes back by one.
LEMMA IterationExists ==
  ASSUME NEW n \in Nat, NEW S, NEW a \in S, NEW g \in [1..n -> [S -> S]]
  PROVE  \E f \in [0..n -> S] : Iterates(f, n, a, g)
<1> DEFINE h == [i \in 1..n |-> i - 1]
<1>1. h \in [1..n -> Nat] /\ \A i \in 1..n : h[i] < i /\ h[i] = i - 1
  OBVIOUS
<1> HIDE DEF h
<1>2. PICK f \in [0..n -> S] : Solves(f, n, a, h, g)
  BY <1>1, RecursionExists
<1>. QED
  BY <1>1, <1>2 DEF Solves, Iterates

------------------------------------------------------------------------------
(* Distances *)

\* The partial sums of a squared distance.
PartialSums(sum, p, q) ==
  /\ sum[0] = 0
  /\ \A j \in 1..Len(p) : sum[j] = sum[j - 1] + (p[j] - q[j]) * (p[j] - q[j])

\* The squared distance is the last of its partial sums.
LEMMA SqDistIs ==
  ASSUME NEW p \in Seq(Int), NEW q \in Seq(Int), Len(p) = Len(q)
  PROVE  \E sum \in [0..Len(p) -> Int] :
           PartialSums(sum, p, q) /\ SqDist(p, q) = sum[Len(p)]
<1> DEFINE N == Len(p)
<1> DEFINE g == [j \in 1..N |-> [x \in Int |-> x + (p[j] - q[j]) * (p[j] - q[j])]]
<1> DEFINE Is(s) == s = [j \in 0..N |-> IF j = 0 THEN 0
                                        ELSE s[j - 1] + (p[j] - q[j]) * (p[j] - q[j])]
<1>1. \A j \in 1..N : p[j] - q[j] \in Int
  OBVIOUS
<1>2. \A d \in Int : d * d \in Int
  OBVIOUS
<1>3. N \in Nat /\ g \in [1..N -> [Int -> Int]]
  BY <1>1, <1>2
<1>4. PICK f \in [0..N -> Int] : Iterates(f, N, 0, g)
  <2> DEFINE S == Int
  <2>1. 0 \in S /\ g \in [1..N -> [S -> S]]
    BY <1>3
  <2> HIDE DEF g, N, S
  <2>2. \E f \in [0..N -> S] : Iterates(f, N, 0, g)
    BY <1>3, <2>1, IterationExists
  <2>. QED
    BY <2>2 DEF S
<1>5. ASSUME NEW j \in 1..N
      PROVE  f[j] = f[j - 1] + (p[j] - q[j]) * (p[j] - q[j])
  <2>1. f[j - 1] \in Int
    <3>1. N \in Nat /\ j \in 1..N
      BY <1>3
    <3> HIDE DEF N
    <3>2. j - 1 \in 0..N
      BY <3>1
    <3>. QED
      BY <3>2
  <2>2. f[j] = g[j][f[j - 1]]
    BY <1>4 DEF Iterates
  <2>. QED
    BY <2>1, <2>2
<1>6. Is(f)
  BY <1>3, <1>4, <1>5 DEF Iterates
<1>7. Is(CHOOSE s : Is(s))
  <2> HIDE DEF Is
  <2>. QED
    BY <1>6
<1>8. SqDist(p, q) = (CHOOSE s : Is(s))[N]
  BY DEF SqDist
<1> DEFINE K == CHOOSE s : Is(s)
<1>9. K[0] = 0 /\ \A j \in 1..N : K[j] = K[j - 1] + (p[j] - q[j]) * (p[j] - q[j])
  <2>1. K = [j \in 0..N |-> IF j = 0 THEN 0 ELSE K[j - 1] + (p[j] - q[j]) * (p[j] - q[j])]
    BY <1>7
  <2> HIDE DEF K, Is, N
  <2>2. K[0] = 0
    BY <1>3, <2>1
  <2>3. ASSUME NEW j \in 1..N
        PROVE  K[j] = K[j - 1] + (p[j] - q[j]) * (p[j] - q[j])
    <3>1. j \in 0..N /\ j # 0
      BY <1>3
    <3>. QED
      BY <2>1, <3>1
  <2>. QED
    BY <2>2, <2>3
<1>10. \A j \in 0..N : K[j] = f[j]
  <2> DEFINE T == {j \in 0..N : K[j] = f[j]}
  <2>1. 0 \in T
    BY <1>3, <1>4, <1>9 DEF Iterates
  <2>2. \A j \in 1..N : j - 1 \in T => j \in T
    BY <1>3, <1>5, <1>9
  <2> HIDE DEF T, N
  <2>3. \A j \in 0..N : j \in T
    BY <1>3, <2>1, <2>2, Induction
  <2>. QED
    BY <2>3 DEF T
<1> HIDE DEF Is, K
<1>11. f[N] = SqDist(p, q)
  BY <1>3, <1>8, <1>10 DEF K
<1>. QED
  BY <1>4, <1>5, <1>11 DEF Iterates, PartialSums

\* The distance is the same either way.
LEMMA SqDistSymmetric ==
  ASSUME NEW p \in Points, NEW q \in Points
  PROVE  SqDist(p, q) \in Int /\ SqDist(p, q) = SqDist(q, p)
<1> DEFINE N == Len(p)
<1>1. p \in Seq(Int) /\ q \in Seq(Int) /\ N = Len(q) /\ Len(q) = Len(p) /\ N \in Nat
  BY ExhaustiveAssumption
<1>2. PICK to \in [0..N -> Int] :
        PartialSums(to, p, q) /\ SqDist(p, q) = to[N]
  BY <1>1, SqDistIs
<1>3. PICK fro \in [0..Len(q) -> Int] :
        PartialSums(fro, q, p) /\ SqDist(q, p) = fro[Len(q)]
  BY <1>1, SqDistIs
<1> DEFINE T == {j \in 0..N : to[j] = fro[j]}
<1>4. 0 \in T
  BY <1>1, <1>2, <1>3 DEF PartialSums
<1>5. ASSUME NEW m \in 1..N, m - 1 \in T PROVE m \in T
  <2>1. to[m - 1] = fro[m - 1]
    BY <1>5
  <2>2. \A x, y \in Int : (x - y) * (x - y) = (y - x) * (y - x)
    OBVIOUS
  <2>3. p[m] \in Int /\ q[m] \in Int
    BY <1>1
  <2>4. to[m] = fro[m]
    BY <1>1, <1>2, <1>3, <2>1, <2>2, <2>3 DEF PartialSums
  <2>. QED
    BY <1>1, <2>4
<1>6. \A j \in 0..N : j \in T
  <2> HIDE DEF T, N
  <2>. QED
    BY <1>1, <1>4, <1>5, Induction
<1>. QED
  BY <1>1, <1>2, <1>3, <1>6

------------------------------------------------------------------------------
(* Deduplication *)

Solution == [q : Points, norm : Nat, solver_index : Int]

\* The fields of a solution.
LEMMA SolutionType ==
  \A s \in Solution : s.q \in Points /\ s.norm \in Nat /\ s.solver_index \in Int
BY DEF Solution

\* One candidate of the deduplication.
Deduped(kept, candidate, tolSq) ==
  IF IsDup(kept, candidate, tolSq) THEN kept ELSE Append(kept, candidate)

\* What the loop has kept after each candidate.
DedupSteps(kept, validated, tolSq) ==
  /\ kept[0] = <<>>
  /\ \A n \in 1..Len(validated) : kept[n] = Deduped(kept[n - 1], validated[n], tolSq)

\* The deduplication returns what its loop has kept after the last candidate.
LEMMA DedupIs ==
  ASSUME NEW validated \in Seq(Solution), NEW tolSq
  PROVE  \E kept \in [0..Len(validated) -> Seq(Solution)] :
           DedupSteps(kept, validated, tolSq) /\ Dedup(validated, tolSq) = kept[Len(validated)]
<1> DEFINE N == Len(validated)
<1> DEFINE S == Seq(Solution)
<1> DEFINE g == [n \in 1..N |-> [k \in S |-> Deduped(k, validated[n], tolSq)]]
<1> DEFINE Is(s) == s = [n \in 0..N |-> IF n = 0 THEN <<>>
                                        ELSE IF IsDup(s[n - 1], validated[n], tolSq) THEN s[n - 1]
                                        ELSE Append(s[n - 1], validated[n])]
<1>1. N \in Nat /\ <<>> \in S
  OBVIOUS
<1>2. g \in [1..N -> [S -> S]]
  <2>1. ASSUME NEW n \in 1..N, NEW k \in S PROVE Deduped(k, validated[n], tolSq) \in S
    <3>1. validated[n] \in Solution
      OBVIOUS
    <3>. QED
      BY <3>1 DEF Deduped
  <2> HIDE DEF S, N
  <2>. QED
    BY <2>1
<1>3. PICK f \in [0..N -> S] : Iterates(f, N, <<>>, g)
  <2> HIDE DEF g, N, S
  <2>. QED
    BY <1>1, <1>2, IterationExists
<1>4. ASSUME NEW n \in 1..N PROVE n - 1 \in 0..N /\ f[n] = Deduped(f[n - 1], validated[n], tolSq)
  <2>1. n - 1 \in 0..N
    BY <1>1
  <2>2. f[n - 1] \in S
    <3> HIDE DEF N, S
    <3>. QED
      BY <2>1
  <2>3. f[n] = g[n][f[n - 1]]
    <3> HIDE DEF g, N, S
    <3>. QED
      BY <1>3 DEF Iterates
  <2> HIDE DEF S, N
  <2>. QED
    BY <2>1, <2>2, <2>3
<1>5. f[0] = <<>>
  BY <1>3 DEF Iterates
<1>6. Is(f)
  <2> HIDE DEF N, S, g
  <2>1. ASSUME NEW n \in 0..N
        PROVE  f[n] = IF n = 0 THEN <<>>
                      ELSE IF IsDup(f[n - 1], validated[n], tolSq) THEN f[n - 1]
                      ELSE Append(f[n - 1], validated[n])
    <3>1. n = 0 \/ n \in 1..N
      BY <1>1
    <3>. QED
      BY <1>4, <1>5, <3>1 DEF Deduped
  <2>2. f = [n \in 0..N |-> f[n]]
    OBVIOUS
  <2>. QED
    BY <2>1, <2>2
<1>7. Is(CHOOSE s : Is(s))
  <2> HIDE DEF Is
  <2>. QED
    BY <1>6
<1>8. Dedup(validated, tolSq) = (CHOOSE s : Is(s))[N]
  BY DEF Dedup
<1> DEFINE K == CHOOSE s : Is(s)
<1>9. K[0] = <<>> /\ \A n \in 1..N : K[n] = Deduped(K[n - 1], validated[n], tolSq)
  <2>1. K = [n \in 0..N |-> IF n = 0 THEN <<>>
                            ELSE IF IsDup(K[n - 1], validated[n], tolSq) THEN K[n - 1]
                            ELSE Append(K[n - 1], validated[n])]
    BY <1>7
  <2> HIDE DEF K, Is, N, S, g
  <2>2. K[0] = <<>>
    BY <1>1, <2>1
  <2>3. ASSUME NEW n \in 1..N PROVE K[n] = Deduped(K[n - 1], validated[n], tolSq)
    <3>1. n \in 0..N /\ n # 0
      BY <1>1
    <3>. QED
      BY <2>1, <3>1 DEF Deduped
  <2>. QED
    BY <2>2, <2>3
<1>10. \A n \in 0..N : K[n] = f[n]
  <2> DEFINE T == {n \in 0..N : K[n] = f[n]}
  <2> HIDE DEF N, S, K, Is, g
  <2>1. 0 \in T
    BY <1>1, <1>5, <1>9
  <2>2. \A n \in 1..N : n - 1 \in T => n \in T
    BY <1>1, <1>4, <1>9
  <2> HIDE DEF T
  <2>3. \A n \in 0..N : n \in T
    BY <1>1, <2>1, <2>2, Induction
  <2>. QED
    BY <2>3 DEF T
<1> HIDE DEF Is, K
<1>11. f[N] = Dedup(validated, tolSq)
  BY <1>1, <1>8, <1>10 DEF K
<1>. QED
  BY <1>4, <1>5, <1>11 DEF DedupSteps

\* What kept is to the first n candidates: some of them, apart from each other, and
\* none of the others far from all of these.
Kernel(kept, validated, n, tolSq) ==
  /\ \A a \in DOMAIN kept : \E v \in 1..n : validated[v] = kept[a]
  /\ \A a, b \in DOMAIN kept : a < b => SqDist(kept[b].q, kept[a].q) >= tolSq
  /\ \A v \in 1..n : \E a \in DOMAIN kept :
       kept[a] = validated[v] \/ SqDist(validated[v].q, kept[a].q) < tolSq

\* One more candidate.
LEMMA KernelGrows ==
  ASSUME NEW validated \in Seq(Solution), NEW tolSq \in Nat, NEW n \in 1..Len(validated),
         NEW kept \in Seq(Solution), Kernel(kept, validated, n - 1, tolSq)
  PROVE  Kernel(Deduped(kept, validated[n], tolSq), validated, n, tolSq)
<1> DEFINE c == validated[n]
<1>1. c \in Solution /\ c.q \in Points /\ n \in Nat \ {0}
  BY SolutionType
<1>2. \A v \in 1..n : v = n \/ v \in 1..(n - 1)
  BY <1>1
<1>3. \A v \in 1..(n - 1) : v \in 1..n
  BY <1>1
<1>4. CASE IsDup(kept, c, tolSq)
  <2>1. Deduped(kept, c, tolSq) = kept
    BY <1>4 DEF Deduped
  <2>2. \E a \in DOMAIN kept : SqDist(c.q, kept[a].q) < tolSq
    BY <1>4 DEF IsDup
  <2>3. \A a \in DOMAIN kept : \E v \in 1..n : validated[v] = kept[a]
    BY <1>3 DEF Kernel
  <2>4. \A v \in 1..n : \E a \in DOMAIN kept :
          kept[a] = validated[v] \/ SqDist(validated[v].q, kept[a].q) < tolSq
    <3> HIDE DEF c
    <3>. QED
      BY <1>2, <2>2 DEF Kernel, c
  <2>. QED
    BY <2>1, <2>3, <2>4 DEF Kernel
<1>5. CASE ~IsDup(kept, c, tolSq)
  <2> DEFINE longer == Append(kept, c)
  <2>1. Deduped(kept, c, tolSq) = longer
    BY <1>5 DEF Deduped
  <2>2. /\ longer \in Seq(Solution) /\ Len(longer) = Len(kept) + 1
        /\ longer[Len(kept) + 1] = c
        /\ \A a \in DOMAIN kept : longer[a] = kept[a]
    BY <1>1
  <2>3. /\ DOMAIN longer = 1..(Len(kept) + 1) /\ DOMAIN kept = 1..Len(kept) /\ Len(kept) \in Nat
        /\ \A a \in DOMAIN longer : a = Len(kept) + 1 \/ a \in DOMAIN kept
    BY <2>2
  <2>4. \A a \in DOMAIN kept : SqDist(c.q, kept[a].q) >= tolSq
    <3>1. ASSUME NEW a \in DOMAIN kept PROVE SqDist(c.q, kept[a].q) >= tolSq
      <4>1. kept[a].q \in Points
        BY SolutionType
      <4>2. SqDist(c.q, kept[a].q) \in Int
        BY <1>1, <4>1, SqDistSymmetric
      <4>3. ~(SqDist(c.q, kept[a].q) < tolSq)
        BY <1>5 DEF IsDup
      <4>. QED
        BY <4>2, <4>3
    <3>. QED
      BY <3>1
  <2> HIDE DEF longer, c
  <2>5. \A a \in DOMAIN longer : \E v \in 1..n : validated[v] = longer[a]
    <3>1. ASSUME NEW a \in DOMAIN longer PROVE \E v \in 1..n : validated[v] = longer[a]
      <4>1. CASE a = Len(kept) + 1
        <5>1. n \in 1..n
          BY <1>1
        <5>. QED
          BY <2>2, <4>1, <5>1 DEF c
      <4>2. CASE a \in DOMAIN kept
        <5>1. PICK v \in 1..(n - 1) : validated[v] = kept[a]
          BY <4>2 DEF Kernel
        <5>. QED
          BY <1>3, <2>2, <4>2, <5>1
      <4>. QED
        BY <2>3, <4>1, <4>2
    <3>. QED
      BY <3>1
  <2>6. \A a, b \in DOMAIN longer : a < b => SqDist(longer[b].q, longer[a].q) >= tolSq
    <3>1. ASSUME NEW a \in DOMAIN longer, NEW b \in DOMAIN longer, a < b
          PROVE  SqDist(longer[b].q, longer[a].q) >= tolSq
      <4>1. a \in DOMAIN kept
        BY <2>3, <3>1
      <4>2. CASE b = Len(kept) + 1
        BY <2>2, <2>4, <4>1, <4>2
      <4>3. CASE b \in DOMAIN kept
        BY <2>2, <3>1, <4>1, <4>3 DEF Kernel
      <4>. QED
        BY <2>3, <4>2, <4>3
    <3>. QED
      BY <3>1
  <2>7. ASSUME NEW v \in 1..n
        PROVE  \E a \in DOMAIN longer :
                 longer[a] = validated[v] \/ SqDist(validated[v].q, longer[a].q) < tolSq
    <3>1. CASE v = n
      <4>1. Len(kept) + 1 \in DOMAIN longer
        BY <2>3
      <4>. QED
        BY <2>2, <3>1, <4>1 DEF c
    <3>2. CASE v \in 1..(n - 1)
      <4>1. PICK a \in DOMAIN kept :
              kept[a] = validated[v] \/ SqDist(validated[v].q, kept[a].q) < tolSq
        BY <3>2 DEF Kernel
      <4>2. a \in DOMAIN longer /\ longer[a] = kept[a]
        BY <2>2, <2>3
      <4>. QED
        BY <4>1, <4>2
    <3>. QED
      BY <1>2, <3>1, <3>2
  <2>. QED
    BY <2>1, <2>5, <2>6, <2>7 DEF Kernel, c
<1>. QED
  BY <1>4, <1>5

\* The deduplication keeps a kernel of everything that was verified.
LEMMA DedupKeeps ==
  ASSUME NEW validated \in Seq(Solution), NEW tolSq \in Nat
  PROVE  /\ Dedup(validated, tolSq) \in Seq(Solution)
         /\ Kernel(Dedup(validated, tolSq), validated, Len(validated), tolSq)
<1> DEFINE N == Len(validated)
<1>1. PICK kept \in [0..N -> Seq(Solution)] :
        DedupSteps(kept, validated, tolSq) /\ Dedup(validated, tolSq) = kept[N]
  BY DedupIs
<1> DEFINE T == {n \in 0..N : Kernel(kept[n], validated, n, tolSq)}
<1>2. N \in Nat
  OBVIOUS
<1>3. 0 \in T
  <2>1. kept[0] = <<>>
    BY <1>1 DEF DedupSteps
  <2>. QED
    BY <1>2, <2>1 DEF Kernel
<1>4. ASSUME NEW n \in 1..N, n - 1 \in T PROVE n \in T
  <2>1. n - 1 \in 0..N /\ n \in 0..N /\ kept[n - 1] \in Seq(Solution)
    BY <1>2, <1>4
  <2>2. Kernel(kept[n - 1], validated, n - 1, tolSq)
    BY <1>4
  <2>3. kept[n] = Deduped(kept[n - 1], validated[n], tolSq)
    BY <1>1 DEF DedupSteps
  <2>4. Kernel(kept[n], validated, n, tolSq)
    BY <2>1, <2>2, <2>3, KernelGrows
  <2>. QED
    BY <2>1, <2>4
<1> HIDE DEF T, N
<1>5. \A n \in 0..N : n \in T
  BY <1>2, <1>3, <1>4, Induction
<1>6. N \in 0..N
  BY <1>2
<1>. QED
  BY <1>1, <1>5, <1>6 DEF T, N

------------------------------------------------------------------------------
(* Ranking *)

\* ranked has what kept has, and as often.
Permutes(p, ranked, kept) ==
  /\ \A a \in DOMAIN kept : ranked[a] = kept[p[a]]
  /\ \A a, b \in DOMAIN kept : p[a] = p[b] => a = b
  /\ \A k \in DOMAIN kept : \E a \in DOMAIN kept : p[a] = k

\* A ranking has every solution once, in the order of the keys.
LEMMA RankingIs ==
  ASSUME NEW kept \in Seq(Solution), NEW ranking, NEW seed, NEW limits,
         NEW ranked \in Rankings(kept, ranking, seed, limits)
  PROVE  /\ ranked \in Seq(Solution) /\ DOMAIN ranked = DOMAIN kept
         /\ \A a, b \in DOMAIN ranked : a < b =>
              Key(ranked[a], ranking, seed, limits) <= Key(ranked[b], ranking, seed, limits)
         /\ \E p \in [DOMAIN kept -> DOMAIN kept] : Permutes(p, ranked, kept)
<1> DEFINE D == DOMAIN kept
<1>1. /\ \E p \in Bijection(D, D) : ranked = [a \in D |-> kept[p[a]]]
      /\ \A a, b \in DOMAIN ranked : a < b =>
           Key(ranked[a], ranking, seed, limits) <= Key(ranked[b], ranking, seed, limits)
  BY Zenon DEF Rankings
<1>2. PICK p \in Bijection(D, D) : ranked = [a \in D |-> kept[p[a]]]
  BY <1>1
<1>3. /\ p \in [D -> D]
      /\ \A a, b \in D : p[a] = p[b] => a = b
      /\ \A k \in D : \E a \in D : p[a] = k
  <2> HIDE DEF D
  <2>. QED
    BY DEF Bijection, Injection, Surjection, IsInjective
<1>4. D = 1..Len(kept) /\ Len(kept) \in Nat
  OBVIOUS
<1>5. ranked \in [1..Len(kept) -> Solution] /\ DOMAIN ranked = D
  <2>1. \A a \in D : kept[p[a]] \in Solution
    BY <1>3
  <2> HIDE DEF D
  <2>. QED
    BY <1>2, <1>4, <2>1
<1>6. ranked \in Seq(Solution)
  BY <1>4, <1>5
<1> HIDE DEF D
<1>7. \A a \in D : ranked[a] = kept[p[a]]
  BY <1>2
<1>8. Permutes(p, ranked, kept)
  BY <1>3, <1>7 DEF Permutes, D
<1>. QED
  BY <1>1, <1>3, <1>5, <1>6, <1>8 DEF D

\* What a solve that verified these candidates may answer.
Answer(solutions, validated, tolSq, ranking, seed, limits) ==
  solutions \in Rankings(Dedup(validated, tolSq), ranking, seed, limits)

\* Deduplicated and ranked, the answer is what was verified: in order, apart, and complete
\* up to the threshold.
LEMMA AnswerExact ==
  ASSUME NEW validated \in Seq(Solution), NEW tolSq \in Nat, NEW ranking, NEW seed, NEW limits,
         NEW solutions, Answer(solutions, validated, tolSq, ranking, seed, limits),
         \A v \in DOMAIN validated : validated[v].q \in Verified
  PROVE  /\ \A a \in DOMAIN solutions :
              /\ solutions[a].q \in Verified
              /\ \E v \in DOMAIN validated : validated[v] = solutions[a]
         /\ \A a, b \in DOMAIN solutions : a < b =>
              /\ SqDist(solutions[a].q, solutions[b].q) >= tolSq
              /\ Key(solutions[a], ranking, seed, limits) <= Key(solutions[b], ranking, seed, limits)
         /\ \A v \in DOMAIN validated : \E a \in DOMAIN solutions :
              \/ solutions[a] = validated[v]
              \/ SqDist(solutions[a].q, validated[v].q) < tolSq
<1> DEFINE kept == Dedup(validated, tolSq)
<1>1. kept \in Seq(Solution) /\ Kernel(kept, validated, Len(validated), tolSq)
  BY DedupKeeps
<1>2. solutions \in Rankings(kept, ranking, seed, limits)
  BY DEF Answer
<1> HIDE DEF kept
<1>3. /\ solutions \in Seq(Solution) /\ DOMAIN solutions = DOMAIN kept
      /\ \A a, b \in DOMAIN solutions : a < b =>
           Key(solutions[a], ranking, seed, limits) <= Key(solutions[b], ranking, seed, limits)
  BY <1>1, <1>2, RankingIs
<1>4. PICK p \in [DOMAIN kept -> DOMAIN kept] : Permutes(p, solutions, kept)
  BY <1>1, <1>2, RankingIs
<1>5. DOMAIN validated = 1..Len(validated) /\ DOMAIN kept \subseteq Nat
  BY <1>1
<1>6. \A a \in DOMAIN kept : kept[a].q \in Points
  BY <1>1, SolutionType
<1>7. \A v \in DOMAIN validated : validated[v].q \in Points
  BY SolutionType
<1>8. ASSUME NEW a \in DOMAIN solutions
      PROVE  \E v \in DOMAIN validated : validated[v] = solutions[a]
  <2>1. p[a] \in DOMAIN kept /\ solutions[a] = kept[p[a]]
    BY <1>3, <1>4 DEF Permutes
  <2>. QED
    BY <1>1, <1>5, <2>1 DEF Kernel
<1>9. ASSUME NEW a \in DOMAIN solutions, NEW b \in DOMAIN solutions, a < b
      PROVE  SqDist(solutions[a].q, solutions[b].q) >= tolSq
  <2>1. /\ p[a] \in DOMAIN kept /\ p[b] \in DOMAIN kept /\ p[a] # p[b]
        /\ p[a] \in Nat /\ p[b] \in Nat
        /\ solutions[a] = kept[p[a]] /\ solutions[b] = kept[p[b]]
    BY <1>3, <1>4, <1>5, <1>9 DEF Permutes
  <2>2. CASE p[a] < p[b]
    <3>1. SqDist(solutions[b].q, solutions[a].q) >= tolSq
      BY <1>1, <2>1, <2>2 DEF Kernel
    <3>. QED
      BY <1>6, <2>1, <3>1, SqDistSymmetric
  <2>3. CASE p[b] < p[a]
    BY <1>1, <2>1, <2>3 DEF Kernel
  <2>. QED
    BY <2>1, <2>2, <2>3
<1>10. ASSUME NEW v \in DOMAIN validated
       PROVE  \E a \in DOMAIN solutions :
                \/ solutions[a] = validated[v]
                \/ SqDist(solutions[a].q, validated[v].q) < tolSq
  <2>1. PICK k \in DOMAIN kept :
          kept[k] = validated[v] \/ SqDist(validated[v].q, kept[k].q) < tolSq
    BY <1>1, <1>5 DEF Kernel
  <2>2. PICK a \in DOMAIN kept : p[a] = k
    BY <1>4 DEF Permutes
  <2>3. a \in DOMAIN solutions /\ solutions[a] = kept[k]
    BY <1>3, <1>4, <2>2 DEF Permutes
  <2>4. SqDist(validated[v].q, kept[k].q) = SqDist(kept[k].q, validated[v].q)
    BY <1>6, <1>7, SqDistSymmetric
  <2>. QED
    BY <2>1, <2>3, <2>4
<1>. QED
  BY <1>3, <1>8, <1>9, <1>10

------------------------------------------------------------------------------
(* Halton seeds *)

\* Induction on everything below.
LEMMA StrongInduction ==
  ASSUME NEW n \in Nat, NEW T,
         \A i \in 0..n : (\A j \in 0..n : j < i => j \in T) => i \in T
  PROVE  \A i \in 0..n : i \in T
<1> DEFINE M == {i \in 0..n : i \notin T}
<1>1. ASSUME M # {} PROVE FALSE
  <2>1. PICK m \in M : \A k \in M : m <= k
    <3>1. M \subseteq Nat
      OBVIOUS
    <3> HIDE DEF M
    <3>. QED
      BY <1>1, <3>1, LeastNatural
  <2>2. \A j \in 0..n : j < m => j \in T
    <3>1. ASSUME NEW j \in 0..n, j < m, j \notin T PROVE FALSE
      <4>1. j \in M /\ m \in 0..n
        BY <2>1, <3>1
      <4> HIDE DEF M
      <4>. QED
        BY <2>1, <3>1, <4>1
    <3>. QED
      BY <3>1
  <2>. QED
    BY <2>1, <2>2
<1>. QED
  BY <1>1

Fraction == [num : Int, den : Int]

\* The fields of a fraction.
LEMMA FractionType == \A x \in Fraction : x.num \in Int /\ x.den \in Int
BY DEF Fraction

\* What the digits above the last one come to, with the last one put before them.
Mirror(i, base, rest) ==
  [num |-> (i % base) * rest.den + rest.num, den |-> base * rest.den]

Mirrors(m, n, base) ==
  /\ m[0] = [num |-> 0, den |-> 1]
  /\ \A i \in 1..n : m[i] = Mirror(i, base, m[i \div base])

\* Dividing by a base leaves less.
LEMMA Digits ==
  ASSUME NEW i \in Nat, NEW base \in Nat, base > 1
  PROVE  /\ i \div base \in Nat /\ i % base \in 0..(base - 1)
         /\ i = base * (i \div base) + (i % base)
         /\ i > 0 => i \div base < i
<1>1. i \div base \in Nat /\ i % base \in 0..(base - 1) /\ i = base * (i \div base) + (i % base)
  OBVIOUS
<1>2. ASSUME i > 0, i \div base >= i PROVE FALSE
  <2>1. base * (i \div base) >= 2 * (i \div base)
    <3> DEFINE d == i \div base
    <3>1. d \in Nat
      BY <1>1
    <3> HIDE DEF d
    <3>2. \A x, y \in Nat : (x > 1) => x * y >= 2 * y
      <4>1. ASSUME NEW x \in Nat, NEW y \in Nat, x > 1 PROVE x * y >= 2 * y
        <5>1. x * y = 2 * y + (x - 2) * y /\ (x - 2) \in Nat
          BY <4>1
        <5>2. \A u, w \in Nat : u * w >= 0
          OBVIOUS
        <5>3. (x - 2) * y >= 0
          BY <5>1, <5>2
        <5>4. x * y \in Int /\ (x - 2) * y \in Int /\ 2 * y \in Int
          BY <5>1
        <5>. QED
          BY <5>1, <5>3, <5>4
      <4>. QED
        BY <4>1
    <3>3. base * d >= 2 * d
      BY <3>1, <3>2
    <3>. QED
      BY <3>3 DEF d
  <2> DEFINE p == base * (i \div base)
  <2>2. p \in Int /\ i = p + (i % base)
    BY <1>1
  <2> HIDE DEF p
  <2>3. p >= 2 * (i \div base)
    BY <2>1 DEF p
  <2>. QED
    BY <1>1, <1>2, <2>2, <2>3
<1>3. i > 0 => i \div base < i
  BY <1>1, <1>2
<1>. QED
  BY <1>1, <1>3

\* A digit more is a fraction.
LEMMA MirrorType ==
  ASSUME NEW i \in Nat, NEW base \in Nat, base > 1, NEW rest \in Fraction
  PROVE  Mirror(i, base, rest) \in Fraction
<1>1. rest.num \in Int /\ rest.den \in Int /\ i % base \in Int
  BY FractionType, Digits
<1>2. \A x, y \in Int : x * y \in Int
  OBVIOUS
<1>3. (i % base) * rest.den \in Int /\ base * rest.den \in Int
  BY <1>1, <1>2
<1>. QED
  BY <1>1, <1>3 DEF Mirror, Fraction

\* Every element comes from the element of the index without its last digit.
LEMMA HaltonIs ==
  ASSUME NEW n \in Nat, NEW base \in Nat, base > 1
  PROVE  \E m \in [0..n -> Fraction] :
           Mirrors(m, n, base) /\ \A i \in 0..n : HaltonElement(i, base) = m[i]
<1> DEFINE a == [num |-> 0, den |-> 1]
<1> DEFINE h == [i \in 1..n |-> i \div base]
<1> DEFINE g == [i \in 1..n |-> [x \in Fraction |-> Mirror(i, base, x)]]
<1>1. a \in Fraction
  BY DEF Fraction
<1>2. h \in [1..n -> Nat] /\ \A i \in 1..n : h[i] < i /\ h[i] = i \div base
  BY Digits
<1>3. g \in [1..n -> [Fraction -> Fraction]]
  <2>1. \A i \in 1..n : \A x \in Fraction : Mirror(i, base, x) \in Fraction
    BY MirrorType
  <2>. QED
    BY <2>1
<1>4. \A i \in 1..n : \A x \in Fraction : g[i][x] = Mirror(i, base, x)
  OBVIOUS
<1> HIDE DEF a, h, g
<1>5. PICK m \in [0..n -> Fraction] : Solves(m, n, a, h, g)
  BY <1>1, <1>2, <1>3, RecursionExists
<1>6. ASSUME NEW i \in 1..n
      PROVE  i \div base \in 0..n /\ m[i] = Mirror(i, base, m[i \div base])
  <2>1. i \div base \in 0..n /\ h[i] = i \div base
    BY <1>2
  <2>2. m[i] = g[i][m[i \div base]]
    BY <1>5, <2>1 DEF Solves
  <2>3. m[i \div base] \in Fraction
    BY <2>1
  <2>. QED
    BY <1>4, <2>1, <2>2, <2>3
<1>7. m[0] = a
  BY <1>5 DEF Solves
<1>8. Mirrors(m, n, base)
  BY <1>6, <1>7 DEF Mirrors, a
<1>9. ASSUME NEW k \in 0..n PROVE HaltonElement(k, base) = m[k]
  <2> DEFINE Is(s) == s = [i \in 0..k |-> IF i = 0 THEN [num |-> 0, den |-> 1]
                             ELSE LET rest == s[i \div base]
                                  IN [num |-> (i % base) * rest.den + rest.num,
                                      den |-> base * rest.den]]
  <2> DEFINE f == [i \in 0..k |-> m[i]]
  <2> DEFINE K == CHOOSE s : Is(s)
  <2>1. HaltonElement(k, base) = K[k]
    BY DEF HaltonElement
  <2>2. Is(f)
    <3>1. ASSUME NEW i \in 0..k
          PROVE  m[i] = IF i = 0 THEN [num |-> 0, den |-> 1]
                             ELSE LET rest == f[i \div base]
                                  IN [num |-> (i % base) * rest.den + rest.num,
                                      den |-> base * rest.den]
      <4>1. CASE i = 0
        BY <1>7, <4>1 DEF a
      <4>2. CASE i # 0
        <5>1. i \in 1..n /\ i \in Nat /\ i > 0 /\ k \in Nat
          BY <4>2
        <5>2. i \div base \in 0..k
          <6>1. i \div base \in Nat /\ i \div base < i
            BY <5>1, Digits
          <6>. QED
            BY <5>1, <6>1
        <5>3. f[i \div base] = m[i \div base]
          BY <5>2
        <5>4. m[i] = Mirror(i, base, m[i \div base])
          BY <5>1, <1>6
        <5> HIDE DEF f
        <5>. QED
          BY <4>2, <5>3, <5>4 DEF Mirror
      <4>. QED
        BY <4>1, <4>2
    <3>. QED
      BY <3>1
  <2>3. Is(K)
    <3> HIDE DEF Is, f
    <3>. QED
      BY <2>2
  <2>4. K[0] = a
    <3>1. 0 \in 0..k
      OBVIOUS
    <3> HIDE DEF K
    <3>. QED
      BY <2>3, <3>1 DEF a
  <2>5. ASSUME NEW i \in 1..k
        PROVE  K[i] = Mirror(i, base, K[i \div base])
    <3>1. i \in 0..k /\ i # 0
      OBVIOUS
    <3> HIDE DEF K
    <3>. QED
      BY <2>3, <3>1 DEF Mirror
  <2> HIDE DEF Is, f, K
  <2> DEFINE T == {i \in 0..k : K[i] = m[i]}
  <2>6. ASSUME NEW i \in 0..k, \A j \in 0..k : j < i => j \in T PROVE i \in T
    <3>1. CASE i = 0
      BY <1>7, <2>4, <3>1
    <3>2. CASE i # 0
      <4>1. i \in 1..k /\ i \in 1..n /\ i \in Nat /\ i > 0 /\ k \in Nat
        BY <3>2
      <4>2. i \div base \in 0..k /\ i \div base < i
        <5>1. i \div base \in Nat /\ i \div base < i
          BY <4>1, Digits
        <5>. QED
          BY <4>1, <5>1
      <4>3. K[i \div base] = m[i \div base]
        BY <2>6, <4>2
      <4>. QED
        BY <1>6, <2>5, <4>1, <4>3
    <3>. QED
      BY <3>1, <3>2
  <2>7. \A i \in 0..k : i \in T
    <3> HIDE DEF T
    <3>1. k \in Nat
      OBVIOUS
    <3>. QED
      BY <2>6, <3>1, StrongInduction
  <2>. QED
    BY <2>1, <2>7
<1>. QED
  BY <1>8, <1>9

\* A proper fraction.
Proper(x) == x.den > 0 /\ 0 <= x.num /\ x.num < x.den

\* A digit more leaves a proper fraction.
LEMMA MirrorProper ==
  ASSUME NEW i \in Nat, NEW base \in Nat, base > 1, NEW rest \in Fraction, Proper(rest)
  PROVE  Proper(Mirror(i, base, rest))
<1> DEFINE d == i % base
<1> DEFINE n == rest.num
<1> DEFINE e == rest.den
<1>1. d \in Int /\ 0 <= d /\ d <= base - 1
  BY Digits
<1>2. n \in Int /\ e \in Int /\ e > 0 /\ 0 <= n /\ n < e
  BY FractionType DEF Proper
<1>3. Mirror(i, base, rest).num = d * e + n /\ Mirror(i, base, rest).den = base * e
  BY DEF Mirror
<1> HIDE DEF d, n, e
<1>4. d * e \in Int /\ base * e \in Int /\ (base - 1 - d) * e \in Int
  BY <1>1, <1>2
<1>5. \A x, y \in Int : x >= 0 /\ y >= 0 => x * y >= 0
  OBVIOUS
<1>6. \A x, y \in Int : x > 0 /\ y > 0 => x * y > 0
  OBVIOUS
<1>7. d * e >= 0 /\ base * e > 0 /\ (base - 1 - d) * e >= 0
  <2>1. base - 1 - d \in Int /\ base - 1 - d >= 0
    BY <1>1
  <2>. QED
    BY <1>1, <1>2, <1>5, <1>6, <2>1
<1>8. (base - 1 - d) * e = base * e - e - d * e
  BY <1>1, <1>2
<1>9. 0 <= d * e + n /\ d * e + n < base * e
  BY <1>2, <1>4, <1>7, <1>8
<1>. QED
  BY <1>3, <1>7, <1>9 DEF Proper

\* The last digit and the rest can be told apart.
LEMMA MirrorInjective ==
  ASSUME NEW base \in Nat, base > 1, NEW i \in Nat, NEW k \in Nat,
         NEW x \in Fraction, NEW y \in Fraction, Proper(x), Proper(y),
         SamePlace(Mirror(i, base, x), Mirror(k, base, y))
  PROVE  i % base = k % base /\ SamePlace(x, y)
<1> DEFINE a == i % base
<1> DEFINE c == k % base
<1> DEFINE n1 == x.num
<1> DEFINE d1 == x.den
<1> DEFINE n2 == y.num
<1> DEFINE d2 == y.den
<1>1. a \in Int /\ c \in Int
  BY Digits
<1>2. /\ n1 \in Int /\ d1 \in Int /\ n2 \in Int /\ d2 \in Int
      /\ d1 > 0 /\ 0 <= n1 /\ n1 < d1
      /\ d2 > 0 /\ 0 <= n2 /\ n2 < d2
  BY FractionType DEF Proper
<1>3. (a * d1 + n1) * (base * d2) = (c * d2 + n2) * (base * d1)
  BY DEF SamePlace, Mirror
<1>4. SamePlace(x, y) <=> n1 * d2 = n2 * d1
  BY DEF SamePlace
<1> HIDE DEF a, c, n1, d1, n2, d2
<1> DEFINE u == (a * d1 + n1) * d2
<1> DEFINE w == (c * d2 + n2) * d1
<1>5. u \in Int /\ w \in Int /\ base * u = base * w
  <2>1. u \in Int /\ w \in Int
    BY <1>1, <1>2
  <2>2. \A p, q, r \in Int : p * (q * r) = q * (p * r)
    OBVIOUS
  <2>3. a * d1 + n1 \in Int /\ c * d2 + n2 \in Int
    BY <1>1, <1>2
  <2>4. /\ (a * d1 + n1) * (base * d2) = base * u
        /\ (c * d2 + n2) * (base * d1) = base * w
    BY <1>2, <2>2, <2>3
  <2>. QED
    BY <1>3, <2>1, <2>4
<1>6. u = w
  <2>1. \A p, q, r \in Int : p > 0 /\ p * q = p * r => q = r
    OBVIOUS
  <2> HIDE DEF u, w
  <2>. QED
    BY <1>5, <2>1
<1>7. u = a * (d1 * d2) + n1 * d2 /\ w = c * (d1 * d2) + n2 * d1
  BY <1>1, <1>2
<1> DEFINE D == d1 * d2
<1> DEFINE s == n1 * d2
<1> DEFINE t == n2 * d1
<1>8. D \in Int /\ s \in Int /\ t \in Int /\ 0 <= s /\ s < D /\ 0 <= t /\ t < D
  <2>1. \A p, q \in Int : p >= 0 /\ q >= 0 => p * q >= 0
    OBVIOUS
  <2>2. \A p, q, r \in Int : p > 0 /\ q < r => q * p < r * p
    OBVIOUS
  <2>3. d1 * d2 = d2 * d1
    BY <1>2
  <2>. QED
    BY <1>2, <2>1, <2>2, <2>3
<1> HIDE DEF D, s, t
<1>9. a * D + s = c * D + t
  BY <1>6, <1>7 DEF D, s, t
<1>10. a = c
  <2>1. (a - c) * D = t - s
    BY <1>1, <1>8, <1>9
  <2>2. \A p, q \in Int : q > 0 /\ p >= 1 => p * q >= q
    OBVIOUS
  <2>3. \A p, q \in Int : q > 0 /\ p <= -1 => p * q <= -q
    OBVIOUS
  <2>4. a - c \in Int /\ D > 0
    BY <1>1, <1>8
  <2>5. (a - c) < 1
    BY <1>8, <2>1, <2>2, <2>4
  <2>6. (a - c) > -1
    BY <1>8, <2>1, <2>3, <2>4
  <2>. QED
    BY <1>1, <2>5, <2>6
<1>11. s = t
  BY <1>1, <1>8, <1>9, <1>10
<1>. QED
  BY <1>4, <1>10, <1>11 DEF a, c, s, t

\* An element of the sequence lies in the unit interval, and no two of a base are at
\* the same place.
LEMMA HaltonElements ==
  ASSUME NEW base \in Nat, base > 1
  PROVE  /\ \A i \in Nat : HaltonElement(i, base) \in Fraction /\ Proper(HaltonElement(i, base))
         /\ \A i, k \in Nat : SamePlace(HaltonElement(i, base), HaltonElement(k, base)) => i = k
<1>1. ASSUME NEW n \in Nat,
             NEW m \in [0..n -> Fraction], Mirrors(m, n, base),
             \A i \in 0..n : HaltonElement(i, base) = m[i]
      PROVE  \A i \in 0..n : Proper(m[i])
  <2> DEFINE T == {i \in 0..n : Proper(m[i])}
  <2>1. ASSUME NEW i \in 0..n, \A j \in 0..n : j < i => j \in T PROVE i \in T
    <3>1. CASE i = 0
      BY <1>1, <3>1 DEF Mirrors, Proper
    <3>2. CASE i # 0
      <4>1. i \in 1..n /\ i \in Nat /\ i > 0
        BY <3>2
      <4>2. i \div base \in Nat /\ i \div base < i
        BY <4>1, Digits
      <4>3. i \div base \in 0..n
        BY <4>1, <4>2
      <4>4. m[i \div base] \in Fraction /\ Proper(m[i \div base])
        BY <2>1, <4>2, <4>3
      <4>5. m[i] = Mirror(i, base, m[i \div base])
        BY <1>1, <4>1 DEF Mirrors
      <4>. QED
        BY <4>1, <4>4, <4>5, MirrorProper
    <3>. QED
      BY <3>1, <3>2
  <2> HIDE DEF T
  <2>2. \A i \in 0..n : i \in T
    BY <2>1, StrongInduction
  <2>. QED
    BY <2>2 DEF T
<1>2. ASSUME NEW i \in Nat
      PROVE  HaltonElement(i, base) \in Fraction /\ Proper(HaltonElement(i, base))
  <2>1. PICK m \in [0..i -> Fraction] :
          Mirrors(m, i, base) /\ \A k \in 0..i : HaltonElement(k, base) = m[k]
    BY HaltonIs
  <2>2. i \in 0..i
    OBVIOUS
  <2>. QED
    BY <1>1, <2>1, <2>2
<1>3. ASSUME NEW i0 \in Nat, NEW k0 \in Nat,
             SamePlace(HaltonElement(i0, base), HaltonElement(k0, base))
      PROVE  i0 = k0
  <2> DEFINE n == i0 + k0
  <2>1. n \in Nat /\ i0 \in 0..n /\ k0 \in 0..n
    OBVIOUS
  <2> HIDE DEF n
  <2>2. PICK m \in [0..n -> Fraction] :
          Mirrors(m, n, base) /\ \A k \in 0..n : HaltonElement(k, base) = m[k]
    BY <2>1, HaltonIs
  <2>3. \A i \in 0..n : Proper(m[i])
    BY <1>1, <2>1, <2>2
  <2>4. ASSUME NEW i \in 1..n
        PROVE  /\ i \in Nat /\ i \div base \in 0..n /\ i \div base < i
               /\ m[i] = Mirror(i, base, m[i \div base])
               /\ m[i \div base] \in Fraction /\ Proper(m[i \div base])
    <3>1. i \in Nat /\ i > 0
      OBVIOUS
    <3>2. i \div base \in Nat /\ i \div base < i
      BY <3>1, Digits
    <3>3. i \div base \in 0..n
      BY <2>1, <3>1, <3>2
    <3>. QED
      BY <2>2, <2>3, <3>1, <3>2, <3>3 DEF Mirrors
  <2>5. ASSUME NEW i \in 1..n PROVE m[i].num # 0
    <3> DEFINE Z == {z \in 0..n : z = 0 \/ m[z].num # 0}
    <3>1. ASSUME NEW z \in 0..n, \A j \in 0..n : j < z => j \in Z PROVE z \in Z
      <4>1. CASE z = 0
        BY <4>1
      <4>2. CASE z # 0
        <5>1. z \in 1..n
          BY <4>2
        <5> DEFINE d == z % base
        <5> DEFINE r == z \div base
        <5>2. /\ z \in Nat /\ r \in 0..n /\ r < z /\ m[z] = Mirror(z, base, m[r])
              /\ m[r] \in Fraction /\ Proper(m[r])
          BY <2>4, <5>1
        <5>3. d \in Int /\ d >= 0 /\ z = base * r + d
          BY <5>2, Digits
        <5>4. /\ m[r].num \in Int /\ m[r].den \in Int /\ m[r].den > 0 /\ m[r].num >= 0
              /\ m[z].num = d * m[r].den + m[r].num
          BY <5>2, FractionType DEF Mirror, Proper
        <5>5. \A p, q \in Int : p >= 0 /\ q > 0 => p * q >= 0 /\ (p # 0 => p * q > 0) /\ p * q \in Int
          OBVIOUS
        <5> HIDE DEF d, r
        <5>6. d * m[r].den >= 0 /\ (d # 0 => d * m[r].den > 0) /\ d * m[r].den \in Int
          BY <5>3, <5>4, <5>5
        <5>7. CASE d # 0
          BY <5>4, <5>6, <5>7
        <5>8. CASE d = 0
          <6>1. r # 0
            BY <4>2, <5>3, <5>8
          <6>2. r \in Z
            BY <3>1, <5>2
          <6>3. m[r].num # 0
            BY <6>1, <6>2
          <6>. QED
            BY <5>4, <5>6, <6>3
        <5>. QED
          BY <5>7, <5>8
      <4>. QED
        BY <4>1, <4>2
    <3>2. \A z \in 0..n : z \in Z
      <4> HIDE DEF Z
      <4>. QED
        BY <2>1, <3>1, StrongInduction
    <3>3. i \in 0..n /\ i # 0
      OBVIOUS
    <3>. QED
      BY <3>2, <3>3
  <2> DEFINE T == {i \in 0..n : \A k \in 0..n : SamePlace(m[i], m[k]) => i = k}
  <2>6. ASSUME NEW i \in 0..n, \A j \in 0..n : j < i => j \in T PROVE i \in T
    <3>1. SUFFICES ASSUME NEW k \in 0..n, SamePlace(m[i], m[k]) PROVE i = k
      OBVIOUS
    <3>2. /\ m[i].num \in Int /\ m[i].den \in Int /\ m[k].num \in Int /\ m[k].den \in Int
          /\ m[i].den > 0 /\ m[k].den > 0
      BY <2>3, FractionType DEF Proper
    <3>3. m[0].num = 0
      BY <2>2 DEF Mirrors
    <3>4. m[i].num * m[k].den = m[k].num * m[i].den
      BY <3>1 DEF SamePlace
    <3>5. \A p, q \in Int : q > 0 /\ p * q = 0 => p = 0
      OBVIOUS
    <3>6. CASE i = 0
      <4>1. m[k].num * m[i].den = 0
        BY <3>2, <3>3, <3>4, <3>6
      <4>2. m[k].num = 0
        BY <3>2, <3>5, <4>1
      <4>3. k \notin 1..n
        BY <2>5, <4>2
      <4>. QED
        BY <3>6, <4>3
    <3>7. CASE k = 0
      <4>1. m[i].num * m[k].den = 0
        BY <3>2, <3>3, <3>4, <3>7
      <4>2. m[i].num = 0
        BY <3>2, <3>5, <4>1
      <4>3. i \notin 1..n
        BY <2>5, <4>2
      <4>. QED
        BY <3>7, <4>3
    <3>8. CASE i # 0 /\ k # 0
      <4>1. i \in 1..n /\ k \in 1..n
        BY <3>8
      <4> DEFINE r == i \div base
      <4> DEFINE s == k \div base
      <4>2. /\ i \in Nat /\ r \in 0..n /\ r < i /\ m[i] = Mirror(i, base, m[r])
            /\ m[r] \in Fraction /\ Proper(m[r])
        BY <2>4, <4>1
      <4>3. /\ k \in Nat /\ s \in 0..n /\ m[k] = Mirror(k, base, m[s])
            /\ m[s] \in Fraction /\ Proper(m[s])
        BY <2>4, <4>1
      <4>4. i = base * r + (i % base) /\ k = base * s + (k % base)
        BY <4>2, <4>3, Digits
      <4> HIDE DEF r, s
      <4>5. SamePlace(Mirror(i, base, m[r]), Mirror(k, base, m[s]))
        BY <3>1, <4>2, <4>3
      <4>6. i % base = k % base /\ SamePlace(m[r], m[s])
        BY <4>2, <4>3, <4>5, MirrorInjective
      <4>7. r = s
        BY <2>6, <4>2, <4>3, <4>6
      <4>. QED
        BY <4>4, <4>6, <4>7
    <3>. QED
      BY <3>6, <3>7, <3>8
  <2> HIDE DEF T
  <2>7. \A i \in 0..n : i \in T
    BY <2>1, <2>6, StrongInduction
  <2>. QED
    BY <1>3, <2>1, <2>2, <2>7 DEF T
<1>. QED
  BY <1>2, <1>3

\* The bases are above one.
LEMMA BaseIs == \A j \in Nat \ {0} : Base(j) \in Nat /\ Base(j) > 1
<1>1. Len(bases) = 32
  BY DEF bases
<1>2. \A i \in 1..32 : bases[i] \in Nat /\ bases[i] > 1
  BY DEF bases
<1>3. \A j \in Nat \ {0} : ((j - 1) % 32) + 1 \in 1..32
  OBVIOUS
<1>. QED
  BY <1>1, <1>2, <1>3 DEF Base

\* Scaling keeps a place within the limits, and two places apart where there is a range.
LEMMA ScaledIs ==
  ASSUME NEW limit \in Limits, NEW x \in Fraction, Proper(x)
  PROVE  Scaled(x, limit) \in Fraction /\ InsideOf(Scaled(x, limit), limit)
<1> DEFINE n == x.num
<1> DEFINE d == x.den
<1>1. n \in Int /\ d \in Int /\ 0 <= n /\ n < d
  BY FractionType DEF Proper
<1>2. \A p, q \in Int : p * q \in Int
  OBVIOUS
<1>3. \A p, q \in Int : p >= 0 /\ q >= 0 => p * q >= 0
  OBVIOUS
<1>4. CASE FiniteRange(limit)
  <2> DEFINE lo == limit.lo
  <2> DEFINE hi == limit.hi
  <2>1. lo \in Int /\ hi \in Int
    BY DEF Limits
  <2>2. Scaled(x, limit).num = lo * d + n * (hi - lo) /\ Scaled(x, limit).den = d
    BY <1>4 DEF Scaled
  <2>3. Scaled(x, limit) = [num |-> lo * d + n * (hi - lo), den |-> d]
    BY <1>4 DEF Scaled
  <2>4. InsideOf(Scaled(x, limit), limit) <=>
          LET num == lo * d + n * (hi - lo) IN
          \/ 2 * lo * d <= 2 * num /\ 2 * num <= 2 * hi * d
          \/ 2 * hi * d <= 2 * num /\ 2 * num <= 2 * lo * d
    BY <1>4, <2>2 DEF InsideOf
  <2> HIDE DEF n, d, lo, hi
  <2> DEFINE num == lo * d + n * (hi - lo)
  <2>5. num \in Int /\ lo * d \in Int /\ hi * d \in Int
    <3>1. hi - lo \in Int
      BY <2>1
    <3>2. lo * d \in Int /\ hi * d \in Int /\ n * (hi - lo) \in Int
      BY <1>1, <1>2, <2>1, <3>1
    <3>. QED
      BY <3>2
  <2>6. Scaled(x, limit) \in Fraction
    BY <1>1, <2>3, <2>5 DEF Fraction
  <2>7. CASE lo <= hi
    <3>1. n * (hi - lo) >= 0 /\ (d - n) * (hi - lo) >= 0
      BY <1>1, <1>3, <2>1, <2>7
    <3>2. num = lo * d + n * (hi - lo) /\ num = hi * d - (d - n) * (hi - lo)
      BY <1>1, <2>1
    <3>3. n * (hi - lo) \in Int /\ (d - n) * (hi - lo) \in Int
      BY <1>1, <2>1
    <3> DEFINE u == n * (hi - lo)
    <3> DEFINE w == (d - n) * (hi - lo)
    <3> DEFINE a == lo * d
    <3> DEFINE b == hi * d
    <3>4. num = a + u /\ num = b - w /\ u >= 0 /\ w >= 0
      BY <3>1, <3>2
    <3>5. 2 * lo * d = 2 * a /\ 2 * hi * d = 2 * b
      BY <1>1, <2>1
    <3>6. u \in Int /\ w \in Int /\ a \in Int /\ b \in Int
      BY <2>5, <3>3
    <3> HIDE DEF u, w, a, b, num
    <3>7. 2 * a <= 2 * num /\ 2 * num <= 2 * b
      BY <2>5, <3>4, <3>6
    <3>. QED
      BY <2>4, <2>6, <3>5, <3>7 DEF num
  <2>8. CASE hi < lo
    <3>1. n * (lo - hi) >= 0 /\ (d - n) * (lo - hi) >= 0
      BY <1>1, <1>3, <2>1, <2>8
    <3>2. num = lo * d - n * (lo - hi) /\ num = hi * d + (d - n) * (lo - hi)
      BY <1>1, <2>1
    <3>3. n * (lo - hi) \in Int /\ (d - n) * (lo - hi) \in Int
      BY <1>1, <2>1
    <3> DEFINE u == n * (lo - hi)
    <3> DEFINE w == (d - n) * (lo - hi)
    <3> DEFINE a == lo * d
    <3> DEFINE b == hi * d
    <3>4. num = a - u /\ num = b + w /\ u >= 0 /\ w >= 0
      BY <3>1, <3>2
    <3>5. 2 * lo * d = 2 * a /\ 2 * hi * d = 2 * b
      BY <1>1, <2>1
    <3>6. u \in Int /\ w \in Int /\ a \in Int /\ b \in Int
      BY <2>5, <3>3
    <3> HIDE DEF u, w, a, b, num
    <3>7. 2 * b <= 2 * num /\ 2 * num <= 2 * a
      BY <2>5, <3>4, <3>6
    <3>. QED
      BY <2>4, <2>6, <3>5, <3>7 DEF num
  <2>. QED
    BY <2>1, <2>7, <2>8
<1>5. CASE ~FiniteRange(limit)
  <2>1. Turn \in Int /\ Turn > 0
    BY HaltonAssumption
  <2>2. Scaled(x, limit) = [num |-> (2 * n - d) * Turn, den |-> 2 * d]
    BY <1>5 DEF Scaled
  <2>3. InsideOf(Scaled(x, limit), limit) <=>
          LET num == (2 * n - d) * Turn IN
          \/ (-Turn) * (2 * d) <= 2 * num /\ 2 * num <= Turn * (2 * d)
          \/ Turn * (2 * d) <= 2 * num /\ 2 * num <= (-Turn) * (2 * d)
    <3>1. Scaled(x, limit).num = (2 * n - d) * Turn /\ Scaled(x, limit).den = 2 * d
      BY <2>2
    <3> HIDE DEF n, d
    <3>. QED
      BY <1>5, <3>1 DEF InsideOf
  <2> HIDE DEF n, d
  <2>4. n * Turn >= 0 /\ (d - n) * Turn >= 0 /\ n * Turn \in Int /\ d * Turn \in Int
    BY <1>1, <1>3, <2>1
  <2>5. /\ (2 * n - d) * Turn = 2 * (n * Turn) - d * Turn
        /\ (d - n) * Turn = d * Turn - n * Turn
        /\ (-Turn) * (2 * d) = -2 * (d * Turn) /\ Turn * (2 * d) = 2 * (d * Turn)
    BY <1>1, <2>1
  <2> DEFINE u == n * Turn
  <2> DEFINE w == d * Turn
  <2> DEFINE num == (2 * n - d) * Turn
  <2>6. u \in Int /\ w \in Int /\ u >= 0 /\ w - u >= 0 /\ num = 2 * u - w
    BY <2>4, <2>5
  <2>7. (-Turn) * (2 * d) = -2 * w /\ Turn * (2 * d) = 2 * w
    BY <2>5
  <2> HIDE DEF u, w, num
  <2>8. -2 * w <= 2 * num /\ 2 * num <= 2 * w /\ num \in Int
    BY <2>6
  <2>9. InsideOf(Scaled(x, limit), limit)
    BY <2>3, <2>7, <2>8 DEF num
  <2>10. Scaled(x, limit) \in Fraction
    <3>1. 2 * d \in Int
      BY <1>1
    <3>. QED
      BY <2>2, <2>8, <3>1 DEF Fraction, num
  <2>. QED
    BY <2>9, <2>10
<1>. QED
  BY <1>4, <1>5

\* Scaling to a range is one to one.
LEMMA ScaledInjective ==
  ASSUME NEW limit \in Limits, HasRange(limit), NEW x \in Fraction, NEW y \in Fraction,
         SamePlace(Scaled(x, limit), Scaled(y, limit))
  PROVE  SamePlace(x, y)
<1> DEFINE n1 == x.num
<1> DEFINE d1 == x.den
<1> DEFINE n2 == y.num
<1> DEFINE d2 == y.den
<1>1. n1 \in Int /\ d1 \in Int /\ n2 \in Int /\ d2 \in Int
  BY FractionType
<1>2. SamePlace(x, y) <=> n1 * d2 = n2 * d1
  BY DEF SamePlace
<1>3. n1 * d2 \in Int /\ n2 * d1 \in Int
  BY <1>1
<1>4. \A p, q \in Int : p # 0 /\ p * q = 0 => q = 0
  OBVIOUS
<1>5. CASE FiniteRange(limit)
  <2> DEFINE lo == limit.lo
  <2> DEFINE hi == limit.hi
  <2>1. lo \in Int /\ hi \in Int /\ lo # hi
    BY <1>5 DEF Limits, HasRange
  <2>2. (lo * d1 + n1 * (hi - lo)) * d2 = (lo * d2 + n2 * (hi - lo)) * d1
    BY <1>5 DEF Scaled, SamePlace
  <2> HIDE DEF n1, d1, n2, d2, lo, hi
  <2>3. (lo * d1 + n1 * (hi - lo)) * d2 - (lo * d2 + n2 * (hi - lo)) * d1
          = (hi - lo) * (n1 * d2 - n2 * d1)
    BY <1>1, <2>1
  <2> DEFINE e == (lo * d1 + n1 * (hi - lo)) * d2
  <2>4. e \in Int
    BY <1>1, <2>1
  <2>5. e - e = (hi - lo) * (n1 * d2 - n2 * d1)
    BY <2>2, <2>3
  <2> HIDE DEF e
  <2>6. (hi - lo) * (n1 * d2 - n2 * d1) = 0
    BY <2>4, <2>5
  <2>7. hi - lo \in Int /\ hi - lo # 0 /\ n1 * d2 - n2 * d1 \in Int
    BY <1>3, <2>1
  <2>8. n1 * d2 - n2 * d1 = 0
    BY <1>4, <2>6, <2>7
  <2>. QED
    BY <1>2, <1>3, <2>8 DEF n1, d1, n2, d2
<1>6. CASE ~FiniteRange(limit)
  <2>1. Turn \in Int /\ Turn > 0
    BY HaltonAssumption
  <2>2. ((2 * n1 - d1) * Turn) * (2 * d2) = ((2 * n2 - d2) * Turn) * (2 * d1)
    BY <1>6 DEF Scaled, SamePlace
  <2> HIDE DEF n1, d1, n2, d2
  <2>3. ((2 * n1 - d1) * Turn) * (2 * d2) - ((2 * n2 - d2) * Turn) * (2 * d1)
          = (4 * Turn) * (n1 * d2 - n2 * d1)
    BY <1>1, <2>1
  <2> DEFINE e == ((2 * n1 - d1) * Turn) * (2 * d2)
  <2>4. e \in Int
    BY <1>1, <2>1
  <2>5. e - e = (4 * Turn) * (n1 * d2 - n2 * d1)
    BY <2>2, <2>3
  <2> HIDE DEF e
  <2>6. (4 * Turn) * (n1 * d2 - n2 * d1) = 0
    BY <2>4, <2>5
  <2>7. 4 * Turn \in Int /\ 4 * Turn # 0 /\ n1 * d2 - n2 * d1 \in Int
    BY <1>3, <2>1
  <2>8. n1 * d2 - n2 * d1 = 0
    BY <1>4, <2>6, <2>7
  <2>. QED
    BY <1>2, <1>3, <2>8 DEF n1, d1, n2, d2
<1>. QED
  BY <1>5, <1>6

\* The seeds of the restarts are within the limits, and no two of them are at the same
\* place in a joint that has a range.
LEMMA SeedGenIs ==
  ASSUME NEW limits \in Seq(Limits), NEW index \in Nat
  PROVE  /\ SeedGen(limits, index) \in Seq(Fraction)
         /\ \A j \in DOMAIN limits : InsideOf(SeedGen(limits, index)[j], limits[j])
         /\ \A other \in Nat : \A j \in DOMAIN limits :
              /\ HasRange(limits[j])
              /\ SamePlace(SeedGen(limits, index)[j], SeedGen(limits, other)[j])
              => index = other
<1> DEFINE H(i, j) == HaltonElement(i + skip_count + 1, Base(j))
<1>1. DOMAIN limits = 1..Len(limits) /\ Len(limits) \in Nat
  OBVIOUS
<1>2. \A j \in DOMAIN limits : j \in Nat \ {0} /\ limits[j] \in Limits
  OBVIOUS
<1>3. \A i \in Nat : i + skip_count + 1 \in Nat
  BY DEF skip_count
<1>4. ASSUME NEW i \in Nat, NEW j \in DOMAIN limits
      PROVE  H(i, j) \in Fraction /\ Proper(H(i, j))
  BY <1>2, <1>3, BaseIs, HaltonElements
<1>5. ASSUME NEW i \in Nat, NEW k \in Nat, NEW j \in DOMAIN limits,
             SamePlace(H(i, j), H(k, j))
      PROVE  i = k
  <2>1. i + skip_count + 1 = k + skip_count + 1
    BY <1>2, <1>3, <1>5, BaseIs, HaltonElements
  <2>. QED
    BY <2>1 DEF skip_count
<1>6. \A i \in Nat : SeedGen(limits, i) = [j \in DOMAIN limits |-> Scaled(H(i, j), limits[j])]
  BY DEF SeedGen
<1> HIDE DEF H
<1>7. \A i \in Nat : \A j \in DOMAIN limits :
        /\ SeedGen(limits, i)[j] = Scaled(H(i, j), limits[j])
        /\ Scaled(H(i, j), limits[j]) \in Fraction
        /\ InsideOf(Scaled(H(i, j), limits[j]), limits[j])
  BY <1>2, <1>4, <1>6, ScaledIs
<1>8. SeedGen(limits, index) \in [1..Len(limits) -> Fraction]
  BY <1>1, <1>6, <1>7
<1>9. SeedGen(limits, index) \in Seq(Fraction)
  BY <1>1, <1>8
<1>10. ASSUME NEW other \in Nat, NEW j \in DOMAIN limits, HasRange(limits[j]),
              SamePlace(SeedGen(limits, index)[j], SeedGen(limits, other)[j])
       PROVE  index = other
  <2>1. SamePlace(Scaled(H(index, j), limits[j]), Scaled(H(other, j), limits[j]))
    BY <1>7, <1>10
  <2>2. H(index, j) \in Fraction /\ H(other, j) \in Fraction /\ limits[j] \in Limits
    BY <1>2, <1>4
  <2>3. SamePlace(H(index, j), H(other, j))
    BY <1>10, <2>1, <2>2, ScaledInjective
  <2>. QED
    BY <1>5, <2>3
<1>. QED
  BY <1>7, <1>9, <1>10

------------------------------------------------------------------------------
(* Calls *)

Phases == {"idle", "validate", "copy", "restart", "step", "solve", "done", "raised"}

CallType ==
  [phase : Phases, kind : Kinds \cup {"none"}, finite : BOOLEAN, fits : BOOLEAN,
   given : BOOLEAN, budget : Int, limits : Seq(Limits), seed : Seq(Int), max_restarts : Int,
   tolSq : Nat, ranking : Strategies, restart : Nat, i : Nat, validated : Seq(Solution),
   failed : Nat, attempted : Int, before_dedup : Nat, solutions : Seq(Solution),
   starts : Seq(Seq(Fraction))]

\* An attempt leaves at most one solution or one failure.
Counted(c) ==
  /\ Len(c.validated) + c.failed <= c.restart
  /\ \A v \in DOMAIN c.validated :
       c.validated[v].q \in Verified /\ c.validated[v].solver_index < c.restart
  /\ \A v, w \in DOMAIN c.validated : v < w =>
       c.validated[v].solver_index < c.validated[w].solver_index

\* Where its attempts began, and how far the last one has come.
Started(c) ==
  /\ Len(c.starts) = (IF c.phase = "step" THEN c.restart + 1 ELSE c.restart)
  /\ \A k \in 2..Len(c.starts) : c.starts[k] = SeedGen(c.limits, k - 2)
  /\ c.starts # <<>> => c.i = 0 \/ c.i <= c.budget

\* An exhaustive solve at each of its stages.
Attempts(c) ==
  /\ Counted(c) /\ Started(c)
  /\ c.restart <= c.max_restarts \/ c.restart = 0
  /\ c.phase \notin {"idle", "solve"}
  /\ c.phase \in {"validate", "copy", "raised"} => c.restart = 0
  /\ c.phase = "step" => c.restart < c.max_restarts
  /\ c.phase = "done" =>
       /\ c.attempted = c.max_restarts /\ c.restart >= c.max_restarts
       /\ c.before_dedup = Len(c.validated)
       /\ Answer(c.solutions, c.validated, c.tolSq, c.ranking, c.seed, c.limits)

Sound(c) == c \in CallType /\ (c.kind = "exhaustive" => Attempts(c))

\* A call that has just been made.
LEMMA EnterSound ==
  ASSUME NEW ask \in Asks, NEW b \in Int, NEW l \in Seq(Limits), NEW s \in Seq(Int)
  PROVE  Sound([NoCall EXCEPT !.phase = "validate", !.kind = ask.kind, !.finite = ask.finite,
             !.fits = ask.fits, !.given = ask.given, !.max_restarts = ask.max_restarts,
             !.tolSq = ask.tolSq, !.ranking = ask.ranking, !.budget = b,
             !.limits = l, !.seed = s])
<1> DEFINE d == [NoCall EXCEPT !.phase = "validate", !.kind = ask.kind, !.finite = ask.finite,
             !.fits = ask.fits, !.given = ask.given, !.max_restarts = ask.max_restarts,
             !.tolSq = ask.tolSq, !.ranking = ask.ranking, !.budget = b,
             !.limits = l, !.seed = s]
<1>1. d \in CallType
  <2>1. /\ ask.kind \in Kinds /\ ask.finite \in BOOLEAN /\ ask.fits \in BOOLEAN
        /\ ask.given \in BOOLEAN /\ ask.max_restarts \in Int /\ ask.tolSq \in Nat
        /\ ask.ranking \in Strategies
    BY PyAssumption
  <2>2. <<>> \in Seq(Solution) /\ <<>> \in Seq(Seq(Fraction)) /\ <<>> \in Seq(Limits) /\ <<>> \in Seq(Int)
    OBVIOUS
  <2>3. NoCall \in CallType
    BY <2>2 DEF NoCall, CallType, Phases, Strategies
  <2>. QED
    BY <2>1, <2>3 DEF CallType, Phases
<1>2. /\ d.phase = "validate" /\ d.restart = 0 /\ d.validated = <<>> /\ d.failed = 0
      /\ d.starts = <<>> 
  BY DEF NoCall
<1> HIDE DEF d
<1>3. Counted(d)
  BY <1>2 DEF Counted
<1>4. Started(d)
  BY <1>2 DEF Started
<1>5. Attempts(d)
  BY <1>2, <1>3, <1>4 DEF Attempts
<1>. QED
  BY <1>1, <1>5 DEF Sound, d

\* Up to the first attempt nothing is counted.
LEMMA BeginSound ==
  ASSUME NEW c, Sound(c), c.phase \in {"validate", "copy"},
         NEW phase \in {"copy", "raised", "restart", "solve"},
         c.kind = "exhaustive" => phase # "solve"
  PROVE  Sound([c EXCEPT !.phase = phase]) /\ Sound([c EXCEPT !.i = 0, !.phase = phase])
<1> DEFINE d == [c EXCEPT !.phase = phase]
<1> DEFINE e == [c EXCEPT !.i = 0, !.phase = phase]
<1>1. d \in CallType /\ e \in CallType
  BY DEF Sound, CallType, Phases
<1>2. d.kind = c.kind /\ e.kind = c.kind
  BY DEF Sound, CallType
<1>3. ASSUME c.kind = "exhaustive" PROVE Attempts(d) /\ Attempts(e)
  <2>1. Attempts(c) /\ c \in CallType
    BY <1>3 DEF Sound
  <2>2. c.restart = 0 /\ Counted(c) /\ Started(c) /\ c.restart \in Nat
    BY <2>1 DEF Attempts, CallType
  <2>3. Len(c.starts) = 0 /\ c.starts \in Seq(Seq(Fraction))
    BY <2>1, <2>2 DEF Started, CallType
  <2>4. /\ d.phase = phase /\ d.restart = 0 /\ d.validated = c.validated /\ d.failed = c.failed
        /\ d.starts = c.starts
    BY <2>1, <2>2 DEF CallType
  <2>5. /\ e.phase = phase /\ e.restart = 0 /\ e.validated = c.validated /\ e.failed = c.failed
        /\ e.starts = c.starts
    BY <2>1, <2>2 DEF CallType
  <2> HIDE DEF d, e
  <2>6. Started(d) /\ Started(e)
    BY <2>3, <2>4, <2>5 DEF Started
  <2>7. Counted(d) /\ Counted(e)
    BY <2>2, <2>4, <2>5 DEF Counted
  <2>. QED
    BY <1>3, <2>4, <2>5, <2>6, <2>7 DEF Attempts
<1>. QED
  BY <1>1, <1>2, <1>3 DEF Sound

\* Copying an element of the seed.
LEMMA CopySound ==
  ASSUME NEW c, Sound(c), c.phase = "copy", NEW j, NEW x \in Int
  PROVE  Sound([c EXCEPT !.i = @ + 1, !.seed = [@ EXCEPT ![j] = x]])
<1> DEFINE d == [c EXCEPT !.i = @ + 1, !.seed = [@ EXCEPT ![j] = x]]
<1>1. c \in CallType /\ c.i \in Nat /\ c.seed \in Seq(Int)
  BY DEF Sound, CallType
<1>2. c.i + 1 \in Nat /\ [c.seed EXCEPT ![j] = x] \in Seq(Int)
  <2>1. c.seed \in [1..Len(c.seed) -> Int]
    BY <1>1
  <2>2. [c.seed EXCEPT ![j] = x] \in [1..Len(c.seed) -> Int]
    BY <2>1
  <2>. QED
    BY <1>1, <2>2
<1>3. d \in CallType
  BY <1>1, <1>2 DEF CallType
<1>4. /\ d.kind = c.kind /\ d.phase = "copy" /\ d.restart = c.restart
      /\ d.validated = c.validated /\ d.failed = c.failed /\ d.starts = c.starts
  BY <1>1 DEF CallType
<1> HIDE DEF d
<1>5. ASSUME c.kind = "exhaustive" PROVE Attempts(d)
  <2>1. Attempts(c)
    BY <1>5 DEF Sound
  <2>2. c.restart = 0 /\ Counted(c) /\ Started(c)
    BY <2>1 DEF Attempts
  <2>3. Len(c.starts) = 0 /\ c.starts \in Seq(Seq(Fraction))
    BY <1>1, <2>2 DEF Started, CallType
  <2>4. Started(d)
    BY <1>4, <2>2, <2>3 DEF Started
  <2>5. Counted(d)
    BY <1>4, <2>2 DEF Counted
  <2>. QED
    BY <1>4, <2>2, <2>4, <2>5 DEF Attempts
<1>. QED
  BY <1>3, <1>4, <1>5 DEF Sound, d

\* A seed is a start.
LEMMA AsStartType ==
  ASSUME NEW q \in Seq(Int) PROVE AsStart(q) \in Seq(Fraction)
<1>1. \A j \in DOMAIN q : [num |-> q[j], den |-> 1] \in Fraction
  BY DEF Fraction
<1>2. DOMAIN q = 1..Len(q) /\ Len(q) \in Nat
  OBVIOUS
<1>3. AsStart(q) \in [1..Len(q) -> Fraction]
  BY <1>1, <1>2 DEF AsStart
<1>. QED
  BY <1>2, <1>3

\* An attempt begins.
LEMMA RestartSound ==
  ASSUME NEW c, Sound(c), c.kind = "exhaustive", c.phase = "restart", c.restart < c.max_restarts
  PROVE  Sound([c EXCEPT !.phase = "step", !.i = 0,
                  !.starts = Append(@, IF c.restart = 0 THEN AsStart(c.seed)
                                       ELSE SeedGen(c.limits, c.restart - 1))])
<1> DEFINE start == IF c.restart = 0 THEN AsStart(c.seed) ELSE SeedGen(c.limits, c.restart - 1)
<1> DEFINE longer == Append(c.starts, start)
<1> DEFINE d == [c EXCEPT !.phase = "step", !.i = 0, !.starts = longer]
<1>1. c \in CallType /\ Attempts(c)
  BY DEF Sound
<1>2. /\ c.limits \in Seq(Limits) /\ c.seed \in Seq(Int) /\ c.restart \in Nat
      /\ c.starts \in Seq(Seq(Fraction)) /\ c.max_restarts \in Int
  BY <1>1 DEF CallType
<1>3. start \in Seq(Fraction)
  <2>1. CASE c.restart = 0
    BY <1>2, <2>1, AsStartType
  <2>2. CASE c.restart # 0
    <3>1. c.restart - 1 \in Nat
      BY <1>2, <2>2
    <3>. QED
      BY <1>2, <2>2, <3>1, SeedGenIs
  <2>. QED
    BY <2>1, <2>2
<1>4. Counted(c) /\ Len(c.starts) = c.restart
  BY <1>1 DEF Attempts, Started
<1>5. c.restart # 0 => start = SeedGen(c.limits, c.restart - 1)
  OBVIOUS
<1> HIDE DEF start
<1>6. /\ longer \in Seq(Seq(Fraction)) /\ Len(longer) = c.restart + 1
      /\ longer[c.restart + 1] = start
      /\ \A k \in 1..c.restart : longer[k] = c.starts[k]
  BY <1>2, <1>3, <1>4
<1> HIDE DEF longer
<1>7. d \in CallType
  BY <1>1, <1>6 DEF CallType, Phases
<1>8. /\ d.kind = "exhaustive" /\ d.phase = "step" /\ d.i = 0 /\ d.starts = longer
      /\ d.restart = c.restart /\ d.limits = c.limits /\ d.max_restarts = c.max_restarts
      /\ d.validated = c.validated /\ d.failed = c.failed
  BY <1>1 DEF CallType
<1> HIDE DEF d
<1>9. Counted(d)
  BY <1>4, <1>8 DEF Counted
<1>10. Started(d)
  <2>1. ASSUME NEW k \in 2..Len(longer) PROVE longer[k] = SeedGen(c.limits, k - 2)
    <3>1. CASE k = c.restart + 1
      <4>1. c.restart # 0 /\ k - 2 = c.restart - 1
        BY <1>2, <3>1
      <4>. QED
        BY <1>5, <1>6, <3>1, <4>1
    <3>2. CASE k # c.restart + 1
      <4>1. k \in 1..c.restart /\ k \in 2..Len(c.starts)
        BY <1>2, <1>4, <1>6, <3>2
      <4>. QED
        BY <1>1, <1>6, <4>1 DEF Attempts, Started
    <3>. QED
      BY <3>1, <3>2
  <2>. QED
    BY <1>6, <1>8, <2>1 DEF Started
<1>11. Attempts(d)
  BY <1>2, <1>8, <1>9, <1>10 DEF Attempts
<1>. QED
  BY <1>7, <1>11 DEF Sound, d, longer, start

\* An iteration is billed.
LEMMA BilledSound ==
  ASSUME NEW c, Sound(c), c.kind = "exhaustive", c.phase = "step", c.i < c.budget
  PROVE  /\ Sound(Billed(c)) /\ Billed(c).kind = "exhaustive" /\ Billed(c).phase = "step"
         /\ Billed(c).restart = c.restart
<1> DEFINE d == Billed(c)
<1>1. c \in CallType /\ Attempts(c)
  BY DEF Sound
<1>2. c.i \in Nat /\ c.budget \in Int
  BY <1>1 DEF CallType
<1>3. d \in CallType
  <2>1. c.i + 1 \in Nat
    BY <1>2
  <2>. QED
    BY <1>1, <2>1 DEF CallType, Billed
<1>4. /\ d.kind = "exhaustive" /\ d.phase = "step" /\ d.i = c.i + 1 /\ d.starts = c.starts
      /\ d.restart = c.restart /\ d.limits = c.limits /\ d.max_restarts = c.max_restarts
      /\ d.validated = c.validated /\ d.failed = c.failed /\ d.budget = c.budget
  BY <1>1 DEF CallType, Billed
<1> HIDE DEF d
<1>5. Counted(d)
  BY <1>1, <1>4 DEF Counted, Attempts
<1>6. d.i <= d.budget
  BY <1>2, <1>4
<1>7. Started(d)
  BY <1>1, <1>4, <1>6 DEF Started, Attempts
<1>8. Attempts(d)
  BY <1>1, <1>4, <1>5, <1>7 DEF Attempts
<1>. QED
  BY <1>3, <1>4, <1>8 DEF Sound, d

\* An attempt under way that may have one candidate or one failure of its own already.
Leaving(c) ==
  /\ c \in CallType /\ c.kind = "exhaustive" /\ c.phase = "step" /\ Started(c)
  /\ c.restart < c.max_restarts
  /\ Len(c.validated) + c.failed <= c.restart + 1
  /\ \A v \in DOMAIN c.validated :
       c.validated[v].q \in Verified /\ c.validated[v].solver_index <= c.restart
  /\ \A v, w \in DOMAIN c.validated : v < w =>
       c.validated[v].solver_index < c.validated[w].solver_index

\* Leaving an attempt counts it.
LEMMA LeaveSound ==
  ASSUME NEW c, Leaving(c) PROVE Sound(Leave(c))
<1> DEFINE d == Leave(c)
<1>1. c \in CallType /\ c.restart \in Nat /\ c.max_restarts \in Int
  BY DEF Leaving, CallType
<1>2. d \in CallType
  <2>1. c.restart + 1 \in Nat
    BY <1>1
  <2>. QED
    BY <1>1, <2>1 DEF CallType, Leave, Phases
<1>3. /\ d.kind = "exhaustive" /\ d.phase = "restart" /\ d.i = c.i /\ d.starts = c.starts
      /\ d.restart = c.restart + 1 /\ d.limits = c.limits /\ d.max_restarts = c.max_restarts
      /\ d.validated = c.validated /\ d.failed = c.failed /\ d.budget = c.budget
  BY <1>1 DEF CallType, Leave, Leaving
<1> HIDE DEF d
<1>4. Counted(d)
  <2>1. \A v \in DOMAIN c.validated : c.validated[v].solver_index < c.restart + 1
    <3>1. ASSUME NEW v \in DOMAIN c.validated
          PROVE  c.validated[v].solver_index < c.restart + 1
      <4>1. c.validated[v].solver_index \in Int
        BY <1>1, SolutionType DEF CallType
      <4>2. c.validated[v].solver_index <= c.restart
        BY DEF Leaving
      <4>. QED
        BY <1>1, <4>1, <4>2
    <3>. QED
      BY <3>1
  <2>. QED
    BY <1>3, <2>1 DEF Counted, Leaving
<1>5. Started(d)
  BY <1>3 DEF Started, Leaving
<1>6. d.restart <= d.max_restarts
  BY <1>1, <1>3 DEF Leaving
<1>7. Attempts(d)
  <2>1. d.restart # 0
    BY <1>1, <1>3
  <2>. QED
    BY <1>3, <1>4, <1>5, <1>6, <2>1 DEF Attempts
<1>. QED
  BY <1>2, <1>7 DEF Sound, d

\* An attempt in its loop can be left as it is.
LEMMA StepLeaving ==
  ASSUME NEW c, Sound(c), c.kind = "exhaustive", c.phase = "step" PROVE Leaving(c)
<1>1. c \in CallType /\ Attempts(c)
  BY DEF Sound
<1>2. c.restart \in Nat /\ c.failed \in Nat /\ c.validated \in Seq(Solution)
  BY <1>1 DEF CallType
<1>3. Len(c.validated) + c.failed <= c.restart
  BY <1>1 DEF Attempts, Counted
<1>4. Len(c.validated) + c.failed <= c.restart + 1
  BY <1>2, <1>3
<1>5. \A v \in DOMAIN c.validated :
       c.validated[v].q \in Verified /\ c.validated[v].solver_index <= c.restart
  <2>1. ASSUME NEW v \in DOMAIN c.validated
        PROVE  c.validated[v].q \in Verified /\ c.validated[v].solver_index <= c.restart
    <3>1. c.validated[v].solver_index \in Int
      BY <1>2, SolutionType
    <3>2. c.validated[v].q \in Verified /\ c.validated[v].solver_index < c.restart
      BY <1>1 DEF Attempts, Counted
    <3>. QED
      BY <1>2, <3>1, <3>2
  <2>. QED
    BY <2>1
<1>. QED
  BY <1>1, <1>4, <1>5 DEF Leaving, Attempts, Counted

\* A convergence is a candidate when it verifies and a failure when it does not.
LEMMA ConvergeSound ==
  ASSUME NEW c, Sound(c), c.kind = "exhaustive", c.phase = "step",
         NEW q \in Points, NEW norm \in Norms[q]
  PROVE  Sound(Converge(c, q, norm))
<1>1. c \in CallType /\ Attempts(c)
  BY DEF Sound
<1>2. /\ c.restart \in Nat /\ c.failed \in Nat /\ c.validated \in Seq(Solution)
      /\ Len(c.validated) \in Nat
  BY <1>1 DEF CallType
<1>3. Counted(c) /\ Started(c) /\ c.restart < c.max_restarts
  BY <1>1 DEF Attempts
<1>4. CASE q \in Verified
  <2> DEFINE candidate == [q |-> q, norm |-> norm, solver_index |-> c.restart]
  <2> DEFINE longer == Append(c.validated, candidate)
  <2> DEFINE d == [c EXCEPT !.validated = longer]
  <2>1. candidate \in Solution
    BY <1>2, ExhaustiveAssumption DEF Solution
  <2>2. candidate.q \in Verified /\ candidate.solver_index = c.restart
    BY <1>4
  <2> HIDE DEF candidate
  <2>3. /\ longer \in Seq(Solution) /\ Len(longer) = Len(c.validated) + 1
        /\ DOMAIN longer = 1..(Len(c.validated) + 1) /\ DOMAIN c.validated = 1..Len(c.validated)
        /\ longer[Len(c.validated) + 1] = candidate
        /\ \A v \in DOMAIN c.validated : longer[v] = c.validated[v]
    BY <1>2, <2>1
  <2> HIDE DEF longer
  <2>4. d \in CallType
    BY <1>1, <2>3 DEF CallType
  <2>5. /\ d.kind = "exhaustive" /\ d.phase = "step" /\ d.i = c.i /\ d.starts = c.starts
        /\ d.restart = c.restart /\ d.limits = c.limits /\ d.max_restarts = c.max_restarts
        /\ d.validated = longer /\ d.failed = c.failed /\ d.budget = c.budget
    BY <1>1 DEF CallType
  <2> HIDE DEF d
  <2>6. \A v \in DOMAIN c.validated : c.validated[v].solver_index \in Int
    BY <1>2, SolutionType
  <2>7. \A v \in DOMAIN longer : v = Len(c.validated) + 1 \/ v \in DOMAIN c.validated
    BY <1>2, <2>3
  <2>8. Len(longer) + c.failed <= c.restart + 1
    BY <1>2, <1>3, <2>3 DEF Counted
  <2>9. \A v \in DOMAIN longer : longer[v].q \in Verified /\ longer[v].solver_index <= c.restart
    <3>1. ASSUME NEW v \in DOMAIN longer
          PROVE  longer[v].q \in Verified /\ longer[v].solver_index <= c.restart
      <4>1. CASE v = Len(c.validated) + 1
        BY <1>2, <2>2, <2>3, <4>1
      <4>2. CASE v \in DOMAIN c.validated
        BY <1>2, <1>3, <2>3, <2>6, <4>2 DEF Counted
      <4>. QED
        BY <2>7, <4>1, <4>2
    <3>. QED
      BY <3>1
  <2>10. ASSUME NEW v \in DOMAIN longer, NEW w \in DOMAIN longer, v < w
         PROVE  longer[v].solver_index < longer[w].solver_index
    <3>1. v \in DOMAIN c.validated
      BY <1>2, <2>3, <2>10
    <3>2. CASE w = Len(c.validated) + 1
      BY <1>2, <1>3, <2>2, <2>3, <2>6, <3>1, <3>2 DEF Counted
    <3>3. CASE w \in DOMAIN c.validated
      BY <1>3, <2>3, <2>10, <3>1, <3>3 DEF Counted
    <3>. QED
      BY <2>7, <3>2, <3>3
  <2>11. Started(d)
    BY <1>3, <2>5 DEF Started
  <2>12. Leaving(d)
    BY <1>3, <2>4, <2>5, <2>8, <2>9, <2>10, <2>11 DEF Leaving
  <2>13. Converge(c, q, norm) = Leave(d)
    BY <1>4 DEF Converge, d, longer, candidate
  <2>. QED
    BY <2>12, <2>13, LeaveSound
<1>5. CASE q \notin Verified
  <2> DEFINE d == [c EXCEPT !.failed = @ + 1]
  <2>1. d \in CallType
    <3>1. c.failed + 1 \in Nat
      BY <1>2
    <3>. QED
      BY <1>1, <3>1 DEF CallType
  <2>2. /\ d.kind = "exhaustive" /\ d.phase = "step" /\ d.i = c.i /\ d.starts = c.starts
        /\ d.restart = c.restart /\ d.limits = c.limits /\ d.max_restarts = c.max_restarts
        /\ d.validated = c.validated /\ d.failed = c.failed + 1 /\ d.budget = c.budget
    BY <1>1 DEF CallType
  <2> HIDE DEF d
  <2>3. Leaving(c)
    BY StepLeaving
  <2>4. Len(d.validated) + d.failed <= d.restart + 1
    BY <1>2, <1>3, <2>2 DEF Counted
  <2>5. Started(d)
    BY <1>3, <2>2 DEF Started
  <2>6. Leaving(d)
    BY <2>1, <2>2, <2>3, <2>4, <2>5 DEF Leaving
  <2>7. Converge(c, q, norm) = Leave(d)
    BY <1>5 DEF Converge, d
  <2>. QED
    BY <2>6, <2>7, LeaveSound
<1>. QED
  BY <1>4, <1>5

\* The result of a solve.
LEMMA CollectSound ==
  ASSUME NEW c, Sound(c), c.kind = "exhaustive", c.phase = "restart", c.restart >= c.max_restarts,
         NEW ranked \in Rankings(Dedup(c.validated, c.tolSq), c.ranking, c.seed, c.limits)
  PROVE  Sound([c EXCEPT !.phase = "done", !.attempted = c.max_restarts,
                  !.before_dedup = Len(c.validated), !.solutions = ranked])
<1> DEFINE d == [c EXCEPT !.phase = "done", !.attempted = c.max_restarts,
                   !.before_dedup = Len(c.validated), !.solutions = ranked]
<1>1. c \in CallType /\ Attempts(c)
  BY DEF Sound
<1>2. c.validated \in Seq(Solution) /\ c.tolSq \in Nat /\ c.max_restarts \in Int /\ Len(c.validated) \in Nat
  BY <1>1 DEF CallType
<1>3. ranked \in Seq(Solution)
  <2>1. Dedup(c.validated, c.tolSq) \in Seq(Solution)
    BY <1>2, DedupKeeps
  <2>. QED
    BY <2>1, RankingIs
<1>4. d \in CallType
  BY <1>1, <1>2, <1>3 DEF CallType, Phases
<1>5. /\ d.kind = "exhaustive" /\ d.phase = "done" /\ d.i = c.i /\ d.starts = c.starts
      /\ d.restart = c.restart /\ d.limits = c.limits /\ d.max_restarts = c.max_restarts
      /\ d.validated = c.validated /\ d.failed = c.failed /\ d.budget = c.budget
      /\ d.attempted = c.max_restarts /\ d.before_dedup = Len(c.validated) /\ d.solutions = ranked
      /\ d.tolSq = c.tolSq /\ d.ranking = c.ranking /\ d.seed = c.seed
  BY <1>1 DEF CallType
<1> HIDE DEF d
<1>6. Counted(d) /\ Started(d)
  BY <1>1, <1>5 DEF Counted, Started, Attempts
<1>7. Answer(d.solutions, d.validated, d.tolSq, d.ranking, d.seed, d.limits)
  BY <1>5 DEF Answer
<1>8. Attempts(d)
  BY <1>1, <1>5, <1>6, <1>7 DEF Attempts
<1>. QED
  BY <1>4, <1>8 DEF Sound, d

\* The other solve functions have no attempts of this kind.
LEMMA RunIkSound ==
  ASSUME NEW c, Sound(c), c.phase = "solve",
         NEW q \in Points, NEW norm \in Norms[q], NEW solver_index \in {-1, 0, 1}
  PROVE  Sound([c EXCEPT !.phase = "done",
                  !.solutions = <<[q |-> q, norm |-> norm, solver_index |-> solver_index]>>])
<1> DEFINE solution == [q |-> q, norm |-> norm, solver_index |-> solver_index]
<1>1. c \in CallType /\ c.kind # "exhaustive"
  BY DEF Sound, Attempts
<1>2. solution \in Solution
  BY ExhaustiveAssumption DEF Solution
<1> HIDE DEF solution
<1>3. <<solution>> \in Seq(Solution)
  BY <1>2
<1>4. [c EXCEPT !.phase = "done", !.solutions = <<solution>>] \in CallType
  BY <1>1, <1>3 DEF CallType, Phases
<1>5. [c EXCEPT !.phase = "done", !.solutions = <<solution>>].kind = c.kind
  BY <1>1 DEF CallType
<1>. QED
  BY <1>1, <1>4, <1>5 DEF Sound, solution

------------------------------------------------------------------------------
(* The invariant *)

Holder == [budget : Int, limits : Seq(Limits)]

TypeOK ==
  /\ call \in [Threads -> CallType]
  /\ config \in Int /\ chain \in Seq(Limits) /\ array \in Seq(Int) /\ runner \in Holder

\* What every state keeps: all calls are sound.
Inv == TypeOK /\ \A t \in Threads : Sound(call[t])

\* One call goes on and Python waits.
LEMMA CallProceeds ==
  ASSUME Inv, UNCHANGED python, NEW t \in Threads, NEW d, Sound(d), call' = [call EXCEPT ![t] = d]
  PROVE  Inv'
<1>1. d \in CallType
  BY DEF Sound
<1>2. call' \in [Threads -> CallType]
  BY <1>1 DEF Inv, TypeOK
<1>3. \A u \in Threads : Sound(call'[u])
  <2>1. \A u \in Threads : call'[u] = IF u = t THEN d ELSE call[u]
    BY DEF Inv, TypeOK
  <2>. QED
    BY <2>1 DEF Inv
<1>4. config' = config /\ chain' = chain /\ array' = array /\ runner' = runner
  BY DEF python
<1>. QED
  BY <1>2, <1>3, <1>4 DEF Inv, TypeOK

\* Nothing has been called.
LEMMA InvInit == Init => Inv
<1> SUFFICES ASSUME Init PROVE Inv
  OBVIOUS
<1>1. NoCall \in CallType
  <2>1. <<>> \in Seq(Solution) /\ <<>> \in Seq(Seq(Fraction)) /\ <<>> \in Seq(Limits) /\ <<>> \in Seq(Int)
    OBVIOUS
  <2>. QED
    BY <2>1 DEF NoCall, CallType, Phases, Strategies
<1>2. NoCall.kind # "exhaustive"
  BY DEF NoCall
<1>3. call \in [Threads -> CallType] /\ \A t \in Threads : call[t] = NoCall
  BY <1>1 DEF Init
<1>4. config \in Int /\ chain \in Seq(Limits)
  BY PyAssumption DEF Init
<1>5. runner \in Holder
  BY <1>4 DEF Init, Holder
<1>6. array \in Seq(Int)
  <2>1. PICK x \in SeedValues : array = [j \in DOMAIN chain |-> x]
    BY DEF Init
  <2>2. x \in Int /\ DOMAIN chain = 1..Len(chain) /\ Len(chain) \in Nat
    BY <1>4, PyAssumption
  <2>3. array \in [1..Len(chain) -> Int]
    BY <2>1, <2>2
  <2>. QED
    BY <2>2, <2>3
<1>. QED
  BY <1>1, <1>2, <1>3, <1>4, <1>5, <1>6 DEF Inv, TypeOK, Sound

\* A statement of Python makes a call or changes the objects, and no call under way.
LEMMA InvStatement == Inv /\ Statement => Inv'
<1> SUFFICES ASSUME Inv, Statement PROVE Inv'
  OBVIOUS
<1>1. CASE \E b \in Budgets : SetConfig(b)
  BY <1>1, PyAssumption DEF SetConfig, Inv, TypeOK
<1>2. CASE \E l \in Boxes : SetLimits(l)
  BY <1>2, PyAssumption DEF SetLimits, Inv, TypeOK
<1>3. CASE \E j \in Joints, x \in SeedValues : WriteSeed(j, x)
  <2>1. PICK j \in Joints, x \in SeedValues : WriteSeed(j, x)
    BY <1>3
  <2>2. x \in Int /\ array \in [1..Len(array) -> Int] /\ Len(array) \in Nat
    BY PyAssumption DEF Inv, TypeOK
  <2>3. array' \in [1..Len(array) -> Int]
    BY <2>1, <2>2 DEF WriteSeed
  <2>4. array' \in Seq(Int)
    BY <2>2, <2>3
  <2>. QED
    BY <2>1, <2>4 DEF WriteSeed, Inv, TypeOK
<1>4. CASE NewRunner
  BY <1>4 DEF NewRunner, Holder, Inv, TypeOK
<1>5. CASE \E ask \in Asks : Enter(ask)
  <2>1. PICK ask \in Asks : Enter(ask)
    BY <1>5
  <2> DEFINE used == IF ask.kind = "exhaustive" THEN runner ELSE [budget |-> config, limits |-> chain]
  <2> DEFINE s == [j \in Joints |-> 0]
  <2>2. used.budget \in Int /\ used.limits \in Seq(Limits)
    BY DEF Inv, TypeOK, Holder
  <2>3. s \in Seq(Int)
    <3>1. Joints = 1..Len(array) /\ Len(array) \in Nat
      BY DEF Joints, Inv, TypeOK
    <3>2. s \in [1..Len(array) -> Int]
      BY <3>1
    <3>. QED
      BY <3>1, <3>2
  <2>4. ask.thread \in Threads
    BY PyAssumption
  <2>5. /\ call' = [call EXCEPT ![ask.thread] =
             [NoCall EXCEPT !.phase = "validate", !.kind = ask.kind, !.finite = ask.finite,
                !.fits = ask.fits, !.given = ask.given, !.max_restarts = ask.max_restarts,
                !.tolSq = ask.tolSq, !.ranking = ask.ranking, !.budget = used.budget,
                !.limits = used.limits, !.seed = s]]
        /\ UNCHANGED python
    BY <2>1, Zenon DEF Enter
  <2> HIDE DEF used, s
  <2>. QED
    BY <2>2, <2>3, <2>4, <2>5, EnterSound, CallProceeds
<1>. QED
  BY <1>1, <1>2, <1>3, <1>4, <1>5 DEF Statement

\* A call under way goes on, whatever stage it is at.
LEMMA InvProceed ==
  ASSUME Inv, NEW t \in Threads, Proceed(t) PROVE Inv'
<1> DEFINE c == call[t]
<1>1. Sound(c) /\ c \in CallType
  BY DEF Inv, TypeOK
<1>2. CASE Validate(t)
  <2> DEFINE phase == IF ~c.finite \/ (~Exhaustive(t) /\ ~c.fits) THEN "raised" ELSE "copy"
  <2>1. c.phase = "validate" /\ call' = [call EXCEPT ![t] = [c EXCEPT !.phase = phase]] /\ UNCHANGED python
    BY <1>2 DEF Validate, Inv, TypeOK
  <2>2. phase \in {"raised", "copy"}
    OBVIOUS
  <2> HIDE DEF phase, c
  <2>3. Sound([c EXCEPT !.phase = phase])
    BY <1>1, <2>1, <2>2, BeginSound
  <2>. QED
    BY <2>1, <2>3, CallProceeds
<1>3. CASE CopySeed(t)
  <2>1. /\ c.phase = "copy" /\ c.i < Len(array) /\ UNCHANGED python
        /\ call' = [call EXCEPT ![t] = [c EXCEPT !.i = @ + 1, !.seed = [@ EXCEPT ![c.i + 1] = array[c.i + 1]]]]
    BY <1>3 DEF CopySeed
  <2>2. c.i \in Nat /\ array \in Seq(Int)
    BY <1>1 DEF CallType, Inv, TypeOK
  <2>3. array[c.i + 1] \in Int
    BY <2>1, <2>2
  <2> HIDE DEF c
  <2>4. Sound([c EXCEPT !.i = @ + 1, !.seed = [@ EXCEPT ![c.i + 1] = array[c.i + 1]]])
    BY <1>1, <2>1, <2>3, CopySound
  <2>. QED
    BY <2>1, <2>4, CallProceeds
<1>4. CASE SeedCopied(t)
  <2> DEFINE phase == IF ~c.fits THEN "raised" ELSE IF Exhaustive(t) THEN "restart" ELSE "solve"
  <2>1. /\ c.phase = "copy" /\ UNCHANGED python
        /\ call' = [call EXCEPT ![t] = [c EXCEPT !.i = 0, !.phase = phase]]
    BY <1>4 DEF SeedCopied
  <2>2. phase \in {"raised", "restart", "solve"} /\ (c.kind = "exhaustive" => phase # "solve")
    BY DEF Exhaustive
  <2> HIDE DEF phase, c
  <2>3. Sound([c EXCEPT !.i = 0, !.phase = phase])
    BY <1>1, <2>1, <2>2, BeginSound
  <2>. QED
    BY <2>1, <2>3, CallProceeds
<1>5. CASE ExhaustiveStep(t)
  <2>1. c.kind = "exhaustive" /\ UNCHANGED python
    BY <1>5 DEF ExhaustiveStep, Exhaustive
  <2>2. Passed(t).limits = c.limits /\ Passed(t).budget = c.budget
    BY DEF Passed
  <2>3. CASE NextRestart(t, Passed(t).limits)
    <3>1. /\ c.phase = "restart" /\ c.restart < c.max_restarts
          /\ call' = [call EXCEPT ![t] = [c EXCEPT !.phase = "step", !.i = 0,
               !.starts = Append(@, IF c.restart = 0 THEN AsStart(c.seed)
                                    ELSE SeedGen(c.limits, c.restart - 1))]]
      BY <2>2, <2>3 DEF NextRestart
    <3> HIDE DEF c
    <3>. QED
      BY <1>1, <2>1, <3>1, RestartSound, CallProceeds
  <2>4. CASE StepOne(t, Passed(t).budget)
    <3>1. c.phase = "step" /\ c.i < c.budget
      BY <2>2, <2>4 DEF StepOne
    <3>2. /\ Sound(Billed(c)) /\ Billed(c).kind = "exhaustive" /\ Billed(c).phase = "step"
      BY <1>1, <2>1, <3>1, BilledSound
    <3>3. CASE call' = [call EXCEPT ![t] = Billed(call[t])]
      BY <2>1, <3>2, <3>3, CallProceeds
    <3>4. CASE call' = [call EXCEPT ![t] = Leave(Billed(call[t]))]
      <4>1. Sound(Leave(Billed(c)))
        BY <3>2, StepLeaving, LeaveSound
      <4>. QED
        BY <2>1, <3>4, <4>1, CallProceeds
    <3>5. CASE \E q \in Points : \E norm \in Norms[q] :
                 call' = [call EXCEPT ![t] = Converge(Billed(call[t]), q, norm)]
      <4>0. PICK q \in Points : \E norm \in Norms[q] :
                   call' = [call EXCEPT ![t] = Converge(Billed(call[t]), q, norm)]
        BY <3>5
      <4>1. PICK norm \in Norms[q] :
                   call' = [call EXCEPT ![t] = Converge(Billed(call[t]), q, norm)]
        BY <4>0
      <4>2. Sound(Converge(Billed(c), q, norm))
        BY <3>2, ConvergeSound
      <4>. QED
        BY <2>1, <4>1, <4>2, CallProceeds
    <3>. QED
      BY <2>4, <3>3, <3>4, <3>5 DEF StepOne
  <2>5. CASE OutOfIterations(t, Passed(t).budget)
    <3>1. c.phase = "step" /\ call' = [call EXCEPT ![t] = Leave(c)]
      BY <2>5 DEF OutOfIterations
    <3>2. Sound(Leave(c))
      BY <1>1, <2>1, <3>1, StepLeaving, LeaveSound
    <3>. QED
      BY <2>1, <3>1, <3>2, CallProceeds
  <2>6. CASE Collect(t, Passed(t).limits)
    <3>1. PICK ranked \in Rankings(Dedup(c.validated, c.tolSq), c.ranking, c.seed, c.limits) :
            call' = [call EXCEPT ![t] = [c EXCEPT !.phase = "done", !.attempted = c.max_restarts,
                      !.before_dedup = Len(c.validated), !.solutions = ranked]]
      BY <2>2, <2>6 DEF Collect
    <3>2. c.phase = "restart" /\ c.restart >= c.max_restarts
      BY <2>6 DEF Collect
    <3> HIDE DEF c
    <3>3. Sound([c EXCEPT !.phase = "done", !.attempted = c.max_restarts,
                    !.before_dedup = Len(c.validated), !.solutions = ranked])
      BY <1>1, <2>1, <3>2, CollectSound
    <3>. QED
      BY <2>1, <3>1, <3>3, CallProceeds
  <2>. QED
    BY <1>5, <2>3, <2>4, <2>5, <2>6 DEF ExhaustiveStep
<1>6. CASE RunIk(t)
  <2>0. PICK q \in Points, solver_index \in {-1, 0, 1} : \E norm \in Norms[q] :
          call' = [call EXCEPT ![t] = [c EXCEPT !.phase = "done",
            !.solutions = <<[q |-> q, norm |-> norm, solver_index |-> solver_index]>>]]
    BY <1>6 DEF RunIk, Inv, TypeOK
  <2>1. PICK norm \in Norms[q] :
          call' = [call EXCEPT ![t] = [c EXCEPT !.phase = "done",
            !.solutions = <<[q |-> q, norm |-> norm, solver_index |-> solver_index]>>]]
    BY <2>0
  <2>2. c.phase = "solve" /\ UNCHANGED python
    BY <1>6 DEF RunIk
  <2> HIDE DEF c
  <2>3. Sound([c EXCEPT !.phase = "done",
            !.solutions = <<[q |-> q, norm |-> norm, solver_index |-> solver_index]>>])
    BY <1>1, <2>2, RunIkSound
  <2>. QED
    BY <2>1, <2>2, <2>3, CallProceeds
<1>. QED
  BY <1>2, <1>3, <1>4, <1>5, <1>6 DEF Proceed

\* Every step keeps the invariant.
LEMMA InvNext == Inv /\ [Next]_vars => Inv'
<1> SUFFICES ASSUME Inv, [Next]_vars PROVE Inv'
  OBVIOUS
<1>1. CASE Statement
  BY <1>1, InvStatement
<1>2. CASE \E t \in Threads : Proceed(t)
  BY <1>2, InvProceed
<1>3. CASE UNCHANGED vars
  BY <1>3 DEF vars, python, Inv, TypeOK
<1>. QED
  BY <1>1, <1>2, <1>3 DEF Next

\* Whatever the statements of Python and the solves under way do in whatever order, every
\* solve has begun where it should, counted what it did and kept what it verified.
THEOREM AlwaysInv == Spec => []Inv
<1>. QED
  BY InvInit, InvNext, PTL DEF Spec

------------------------------------------------------------------------------
(* What follows *)

\* A finished call at rest is an exhaustive solve with its answer.
LEMMA FinishedIs ==
  ASSUME Inv, NEW t \in Threads, Finished(t)
  PROVE  call[t] \in CallType /\ Attempts(call[t]) /\ call[t].phase = "done"
BY DEF Inv, TypeOK, Sound, Finished, Exhaustive

\* The answer of a sound call is exact.
LEMMA InvAnswer == Inv => AnswerIsExact
<1> SUFFICES ASSUME Inv, NEW t \in Threads, Finished(t)
             PROVE  LET c == call[t] IN
               /\ \A a \in DOMAIN c.solutions :
                    /\ c.solutions[a].q \in Verified
                    /\ \E v \in DOMAIN c.validated : c.validated[v] = c.solutions[a]
               /\ \A a, b \in DOMAIN c.solutions : a < b =>
                    /\ SqDist(c.solutions[a].q, c.solutions[b].q) >= c.tolSq
                    /\ Key(c.solutions[a], c.ranking, c.seed, c.limits)
                         <= Key(c.solutions[b], c.ranking, c.seed, c.limits)
               /\ \A v \in DOMAIN c.validated : \E a \in DOMAIN c.solutions :
                    \/ c.solutions[a] = c.validated[v]
                    \/ SqDist(c.solutions[a].q, c.validated[v].q) < c.tolSq
  BY DEF AnswerIsExact
<1> DEFINE c == call[t]
<1>1. c \in CallType /\ Attempts(c) /\ c.phase = "done"
  BY FinishedIs
<1> HIDE DEF c
<1>2. c.validated \in Seq(Solution) /\ c.tolSq \in Nat
  BY <1>1 DEF CallType
<1>3. Answer(c.solutions, c.validated, c.tolSq, c.ranking, c.seed, c.limits)
  BY <1>1 DEF Attempts
<1>4. \A v \in DOMAIN c.validated : c.validated[v].q \in Verified
  BY <1>1 DEF Attempts, Counted
<1>. QED
  BY <1>2, <1>3, <1>4, AnswerExact DEF c

\* The attempts of a sound call are accounted for.
LEMMA InvAttempts == Inv => AttemptsAccounted
<1> SUFFICES ASSUME Inv, NEW t \in Threads, Finished(t)
             PROVE  LET c == call[t] IN
               /\ Len(c.starts) = (IF c.attempted > 0 THEN c.attempted ELSE 0)
               /\ c.before_dedup + c.failed <= Len(c.starts)
               /\ \A v, w \in DOMAIN c.validated : v < w =>
                    /\ c.validated[v].solver_index < c.validated[w].solver_index
                    /\ c.validated[w].solver_index < c.attempted
               /\ \A j \in DOMAIN c.limits : HasRange(c.limits[j]) =>
                    \A k, l \in 2..Len(c.starts) : k < l =>
                      ~SamePlace(c.starts[k][j], c.starts[l][j])
  BY DEF AttemptsAccounted
<1> DEFINE c == call[t]
<1>1. c \in CallType /\ Attempts(c) /\ c.phase = "done"
  BY FinishedIs
<1> HIDE DEF c
<1>2. /\ c.restart \in Nat /\ c.max_restarts \in Int /\ c.limits \in Seq(Limits)
      /\ c.validated \in Seq(Solution)
  BY <1>1 DEF CallType
<1>3. /\ Len(c.starts) = c.restart /\ c.attempted = c.max_restarts
      /\ c.restart >= c.max_restarts /\ (c.restart <= c.max_restarts \/ c.restart = 0)
      /\ c.before_dedup = Len(c.validated) /\ Len(c.validated) + c.failed <= c.restart
  BY <1>1 DEF Attempts, Counted, Started
<1>4. Len(c.starts) = (IF c.attempted > 0 THEN c.attempted ELSE 0)
  BY <1>2, <1>3
<1>5. ASSUME NEW v \in DOMAIN c.validated, NEW w \in DOMAIN c.validated, v < w
      PROVE  /\ c.validated[v].solver_index < c.validated[w].solver_index
             /\ c.validated[w].solver_index < c.attempted
  <2>1. /\ c.validated[v].solver_index < c.validated[w].solver_index
        /\ c.validated[w].solver_index < c.restart
    BY <1>1, <1>5 DEF Attempts, Counted
  <2>2. c.restart # 0
    <3>1. Len(c.validated) # 0 /\ c.failed \in Nat /\ Len(c.validated) \in Nat
      BY <1>1, <1>2, <1>5 DEF CallType
    <3>. QED
      BY <1>2, <1>3, <3>1
  <2>3. c.restart = c.attempted
    BY <1>2, <1>3, <2>2
  <2>. QED
    BY <2>1, <2>3
<1>6. ASSUME NEW j \in DOMAIN c.limits, HasRange(c.limits[j]),
             NEW k \in 2..Len(c.starts), NEW l \in 2..Len(c.starts), k < l
      PROVE  ~SamePlace(c.starts[k][j], c.starts[l][j])
  <2>1. c.starts[k] = SeedGen(c.limits, k - 2) /\ c.starts[l] = SeedGen(c.limits, l - 2)
    BY <1>1 DEF Attempts, Started
  <2>2. k - 2 \in Nat /\ l - 2 \in Nat /\ k - 2 # l - 2
    BY <1>2, <1>3, <1>6
  <2>. QED
    BY <1>2, <1>6, <2>1, <2>2, SeedGenIs
<1>7. c.before_dedup + c.failed <= Len(c.starts)
  BY <1>3
<1>. QED
  BY <1>4, <1>5, <1>6, <1>7 DEF c

\* A sound call has kept to the criteria and the limits it copied.
LEMMA InvConfig == Inv => ConfigAsAsked
<1> SUFFICES ASSUME Inv, NEW t \in Threads, Exhaustive(t)
             PROVE  LET c == call[t] IN
               /\ c.starts # <<>> => c.i = 0 \/ c.i <= c.budget
               /\ \A k \in 2..Len(c.starts) : \A j \in DOMAIN c.limits :
                    InsideOf(c.starts[k][j], c.limits[j])
  BY DEF ConfigAsAsked
<1> DEFINE c == call[t]
<1>1. c \in CallType /\ Attempts(c)
  BY DEF Inv, TypeOK, Sound, Exhaustive
<1> HIDE DEF c
<1>2. c.starts # <<>> => c.i = 0 \/ c.i <= c.budget
  BY <1>1 DEF Attempts, Started
<1>3. c.limits \in Seq(Limits) /\ c.starts \in Seq(Seq(Fraction))
  BY <1>1 DEF CallType
<1>4. ASSUME NEW k \in 2..Len(c.starts), NEW j \in DOMAIN c.limits
      PROVE  InsideOf(c.starts[k][j], c.limits[j])
  <2>1. c.starts[k] = SeedGen(c.limits, k - 2)
    BY <1>1 DEF Attempts, Started
  <2>2. k - 2 \in Nat
    BY <1>3
  <2>. QED
    BY <1>3, <2>1, <2>2, SeedGenIs
<1>. QED
  BY <1>2, <1>4 DEF c

\* exhaustive_ik_runner hands out what passed the validation, deduplicated and ranked:
\* nothing else, nothing lost beyond the distance threshold, in the order of the mode.
THEOREM AnswersExact == Spec => []AnswerIsExact
<1>. QED
  BY AlwaysInv, InvAnswer, PTL

\* Every attempt is a candidate, a failed validation or neither, the candidates keep the
\* order of their attempts, and no two restarts begin at the same place in a joint that
\* has a range, whatever the base and the length of the Halton sequence.
THEOREM AttemptsAlwaysAccounted == Spec => []AttemptsAccounted
<1>. QED
  BY AlwaysInv, InvAttempts, PTL

\* A solve that released the GIL runs on the criteria and the limits it was given: no
\* attempt goes on past their iterations and no Halton seed leaves their limits, or, of a
\* joint with one limit or none, a turn about zero, however often Python assigns to the
\* objects they came from.
THEOREM ConfigAlwaysAsAsked == Spec => []ConfigAsAsked
<1>. QED
  BY AlwaysInv, InvConfig, PTL
==============================================================================
