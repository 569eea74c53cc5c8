------------------------------- MODULE Barrier -------------------------------
(***************************************************************************)
(* What a reusable barrier promises the group of threads that share it: a  *)
(* thread finishes its k-th wait only after every thread of the group has  *)
(* begun its own k-th.                                                     *)
(***************************************************************************)
EXTENDS Integers

CONSTANT Procs
VARIABLES group,      \* the threads that share the barrier
          begun,      \* how many waits each thread has begun ...
          finished    \* ... and finished

Idle == begun = finished

Init ==
  /\ group \in (SUBSET Procs) \ {{}}
  /\ begun = [p \in Procs |-> 0] /\ finished = begun

Enter(p) ==
  /\ begun[p] = finished[p]
  /\ begun' = [begun EXCEPT ![p] = @ + 1]
  /\ UNCHANGED << group, finished >>

Exit(p) ==
  /\ finished[p] < begun[p]
  /\ \A q \in group : begun[q] >= begun[p]
  /\ finished' = [finished EXCEPT ![p] = @ + 1]
  /\ UNCHANGED << group, begun >>

Regroup(g) ==
  /\ Idle
  /\ group' = g
  /\ begun' = [p \in Procs |-> 0] /\ finished' = begun'

Next ==
  \/ \E p \in group : Enter(p) \/ Exit(p)
  \/ \E g \in (SUBSET Procs) \ {{}} : Regroup(g)

Spec == Init /\ [][Next]_<< group, begun, finished >>
=============================================================================
