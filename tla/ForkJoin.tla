------------------------------- MODULE ForkJoin -------------------------------
(***************************************************************************)
(* What ThreadHandler promises parallel_for and parallel_reduce: the call  *)
(* hands one worker to each thread of the pool, every worker's work() is   *)
(* run exactly once, and the call deletes the workers and returns only     *)
(* after all have returned.                                                *)
(***************************************************************************)
EXTENDS Integers

CONSTANT Ids
VARIABLES calling,   \* a loop is between its first and last statement
          ran        \* how often work() has returned in each worker

Init == calling = FALSE /\ ran = [i \in Ids |-> 0]

Fork ==
  /\ ~calling /\ calling' = TRUE
  /\ ran' = [i \in Ids |-> 0]

Work(i) ==
  /\ calling /\ ran[i] = 0
  /\ ran' = [ran EXCEPT ![i] = 1]
  /\ UNCHANGED calling

Join ==
  /\ calling /\ \A i \in Ids : ran[i] = 1
  /\ calling' = FALSE
  /\ UNCHANGED ran

Next == Fork \/ Join \/ \E i \in Ids : Work(i)

Spec == Init /\ [][Next]_<< calling, ran >>
=============================================================================
