------------------------------ MODULE MCWorker ------------------------------
(***************************************************************************)
(* Small instances of Worker for TLC.                                      *)
(***************************************************************************)
EXTENDS Worker

(***************************************************************************)
(* After an outdated cut the body may run on an iteration any number of    *)
(* times, so `done` has no bound: the runs with three threads follow a     *)
(* behaviour up to and including its first outdated cut, and stop there.   *)
(***************************************************************************)
BoundedNext == IF outdated THEN UNCHANGED vars ELSE Next
BoundedSpec == Init /\ [][BoundedNext]_vars

(***************************************************************************)
(* States that differ only in the value of a local variable that is        *)
(* overwritten before its next use count as one.                           *)
(***************************************************************************)
Inspecting == {"pick", "range", "try"} \cup ThiefLabels
Registers(t) ==
  LET Alive(value, labels) == IF pc[t] \in labels THEN value ELSE 0
      carrying == {"won", "setfirst"}
  IN << Alive(copy_first[t], SeqLabels),
        Alive(working_last[t], SeqLabels),
        Alive(working_first[t], {"publish", "check", "body"}),
        IF pc[t] \in Inspecting THEN visited[t] ELSE {},
        Alive(victim[t], Inspecting \ {"pick"}),
        Alive(vic_last[t], carrying \cup (ThiefLabels \ {"load"})),
        Alive(new_last[t], carrying \cup (ThiefLabels \ {"load", "remain"})),
        Alive(seen[t], {"range", "recheck2"}) >>
View == << pc, first, last, lock, done, outdated, [t \in Threads |-> Registers(t)] >>
=============================================================================
