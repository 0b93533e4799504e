--------------------------------- MODULE Race ---------------------------------
(***************************************************************************)
(* What racing several solve policies promises, without rounds, ticks or   *)
(* parking: contestants finish one at a time, each once, converged or not; *)
(* under a stop-at-first race nobody finishes after a winner; the verdict  *)
(* names a contestant that converged, and the race is lost only if nobody  *)
(* did.                                                                    *)
(***************************************************************************)
EXTENDS Integers

CONSTANT N   \* number of contestants, at least one

Contestants == 0..(N - 1)

VARIABLES
  stopAtFirst,  \* the speed objective
  outcome,      \* what each contestant has come to
  verdict       \* Open, lost, or won by the contestant whose solution is returned

vars == <<stopAtFirst, outcome, verdict>>

Open == [lost |-> FALSE, by |-> -1]

Converged == {i \in Contestants : outcome[i] = "converged"}

Init ==
  /\ stopAtFirst \in BOOLEAN
  /\ outcome = [i \in Contestants |-> "racing"]
  /\ verdict = Open

\* A new race, whatever became of the last one.
Start ==
  /\ stopAtFirst' \in BOOLEAN
  /\ outcome' = [i \in Contestants |-> "racing"]
  /\ verdict' = Open

Finish(i) ==
  /\ outcome[i] = "racing"
  /\ ~(stopAtFirst /\ Converged # {})
  /\ \E end \in {"converged", "failed"} : outcome' = [outcome EXCEPT ![i] = end]
  /\ verdict' = Open
  /\ UNCHANGED stopAtFirst

\* The race is called: at the round limit this may come before all finished.
Call ==
  /\ \/ Converged # {} /\ \E i \in Converged : verdict' = [lost |-> FALSE, by |-> i]
     \/ Converged = {} /\ verdict' = [lost |-> TRUE, by |-> -1]
  /\ UNCHANGED <<stopAtFirst, outcome>>

\* The answer is taken back when the caller drives or aborts the race again.
Reopen ==
  /\ verdict' = Open
  /\ UNCHANGED <<stopAtFirst, outcome>>

Next == Start \/ Call \/ Reopen \/ \E i \in Contestants : Finish(i)

Spec == Init /\ [][Next]_vars
=============================================================================
