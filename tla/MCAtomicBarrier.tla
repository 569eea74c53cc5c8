--------------------------- MODULE MCAtomicBarrier ---------------------------
(***************************************************************************)
(* Small instances of AtomicBarrier for TLC.                               *)
(***************************************************************************)
EXTENDS AtomicBarrier

CONSTANT MaxWaits    \* how many times each thread waits in a group

BoundedNext == Next /\ \A p \in Procs : waits'[p] <= MaxWaits /\ Begun(p)' <= MaxWaits
BoundedSpec ==
  /\ Init /\ [][BoundedNext]_barrier
  /\ \A p \in Procs : WF_barrier(p \in group /\ Leave(p))
=============================================================================
