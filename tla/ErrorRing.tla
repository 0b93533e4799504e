------------------------------- MODULE ErrorRing -------------------------------
(***************************************************************************)
(* The stall and divergence check of the iterative policies: error_ring, a *)
(* ring of the last Cap error norms, and check_stall_divergence(), which   *)
(* pushes one and scans the consecutive changes in the window.             *)
(*                                                                         *)
(* Error norms are naturals here.  pushed is history: what an unbounded    *)
(* buffer would hold.                                                      *)
(***************************************************************************)
EXTENDS Integers, Sequences

CONSTANTS
  Errors,            \* the error norms
  Cap,               \* the capacity of the ring
  StallWindow,       \* options::stall_window, an int
  StallThreshold,    \* options::stall_threshold
  DivergenceFactor,  \* options::divergence_factor
  MaxPushed          \* bound: the checks of one attempt

ASSUME RingAssumption ==
  /\ Errors \subseteq Nat /\ Errors # {}
  /\ Cap \in Nat \ {0}
  /\ StallWindow \in Int
  /\ StallThreshold \in Nat /\ DivergenceFactor \in Nat
  /\ MaxPushed \in Nat

VARIABLES m_data, m_head, m_size,
          initial,  \* m_initial_error of the attempt
          verdict,  \* what the last check returned
          pushed

ring == <<m_data, m_head, m_size>>
ringVars == <<ring, initial, verdict, pushed>>

Slots == 0..(Cap - 1)

RingInit ==
  /\ m_data \in [Slots -> Errors] /\ m_head = 0 /\ m_size = 0
  /\ initial \in Errors
  /\ verdict = "running"
  /\ pushed = << >>

\* clear(): what setup() and a restart do before the first check of an attempt.
Clear ==
  /\ m_head' = 0 /\ m_size' = 0 /\ pushed' = << >>
  /\ initial' \in Errors /\ verdict' = "running"
  /\ UNCHANGED m_data

\* Slip: the head stays when the oldest value is overwritten.
SlipHeadStays(e) ==
  IF m_size < Cap
  THEN /\ m_data' = [m_data EXCEPT ![(m_head + m_size) % Cap] = e]
       /\ m_size' = m_size + 1 /\ UNCHANGED m_head
  ELSE m_data' = [m_data EXCEPT ![m_head] = e] /\ UNCHANGED <<m_head, m_size>>

\* push(): the oldest value is overwritten once the ring is full.
Push(e) ==
  IF m_size < Cap
  THEN /\ m_data' = [m_data EXCEPT ![(m_head + m_size) % Cap] = e]
       /\ m_size' = m_size + 1 /\ UNCHANGED m_head
  ELSE /\ m_data' = [m_data EXCEPT ![m_head] = e]
       /\ m_head' = (m_head + 1) % Cap /\ UNCHANGED m_size

\* operator[]: from the oldest value to the newest.
At(i) == m_data[(m_head + i) % Cap]

\* min(size_t(stall_window), Cap): a negative window converts to a huge one.
Window == IF StallWindow \in 0..Cap THEN StallWindow ELSE Cap

\* The change between two consecutive errors stays below the threshold.
Small(a, b) == (IF a < b THEN b - a ELSE a - b) < StallThreshold

Diverged(e) == e > DivergenceFactor * initial

\* Slip: the scan starts one value too late.
SlipShortScan ==
  /\ m_size >= Window
  /\ StallThreshold > 0
  /\ \A i \in (m_size - Window + 2)..(m_size - 1) : Small(At(i - 1), At(i))

\* The window is full and the largest change in it, zero if it holds fewer than two
\* values, is below the threshold.
StallSeen ==
  /\ m_size >= Window
  /\ StallThreshold > 0
  /\ \A i \in (m_size - Window + 1)..(m_size - 1) : Small(At(i - 1), At(i))

Check(e) ==
  /\ Len(pushed) < MaxPushed
  /\ Push(e)
  /\ pushed' = Append(pushed, e)
  /\ verdict' = IF Diverged(e) THEN "diverged" ELSE IF StallSeen' THEN "stalled" ELSE "running"
  /\ UNCHANGED initial

RingNext == Clear \/ \E e \in Errors : Check(e)

RingSpec == RingInit /\ [][RingNext]_ringVars

(***************************************************************************)
(* Properties.                                                             *)
(***************************************************************************)

RingTypeOK ==
  /\ m_data \in [Slots -> Errors]
  /\ m_head \in Slots
  /\ m_size \in 0..Cap
  /\ initial \in Errors
  /\ verdict \in {"running", "stalled", "diverged"}
  /\ pushed \in Seq(Errors)

\* The ring holds the most recent errors of this attempt, oldest first, and nothing
\* of an earlier one, however often it has wrapped around.
HoldsLatest ==
  /\ m_size = IF Len(pushed) < Cap THEN Len(pushed) ELSE Cap
  /\ \A i \in 0..(m_size - 1) : At(i) = pushed[Len(pushed) - m_size + i + 1]

\* What the check would see in an unbounded buffer: the last Window errors exist and
\* no two neighbours among them differ by the threshold.
StallInHistory ==
  /\ Len(pushed) >= Window
  /\ StallThreshold > 0
  /\ \A k \in (Len(pushed) - Window + 2)..Len(pushed) : Small(pushed[k - 1], pushed[k])

\* The fixed capacity changes no decision: the verdict is the one an unbounded
\* history would give.
DecidesAsUnbounded ==
  pushed # << >> =>
    verdict = IF Diverged(pushed[Len(pushed)]) THEN "diverged"
              ELSE IF StallInHistory THEN "stalled" ELSE "running"
===============================================================================
