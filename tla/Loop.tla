-------------------------------- MODULE Loop --------------------------------
(***************************************************************************)
(* What adapt::parallel_for promises its caller: the loop body runs on     *)
(* every iteration of the range exactly once, in chunks and in any order,  *)
(* and the loop has ended only when all of it has run.                     *)
(***************************************************************************)
EXTENDS Integers

CONSTANT Iterations
VARIABLES done,   \* how often the body ran on each iteration
          ended   \* whether every thread has returned from work()

Init == done = [x \in Iterations |-> 0] /\ ended = FALSE

Run(chunk) ==
  /\ ~ended
  /\ \A x \in chunk : done[x] = 0
  /\ done' = [x \in Iterations |-> IF x \in chunk THEN 1 ELSE done[x]]
  /\ UNCHANGED ended

Finish ==
  /\ ~ended /\ ended' = TRUE
  /\ \A x \in Iterations : done[x] = 1
  /\ UNCHANGED done

Next == Finish \/ \E chunk \in SUBSET Iterations : Run(chunk)

Spec == Init /\ [][Next]_<< done, ended >>
=============================================================================
