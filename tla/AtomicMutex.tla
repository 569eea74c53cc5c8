----------------------------- MODULE AtomicMutex -----------------------------
(***************************************************************************)
(* class AtomicMutex, a spin lock over one atomic flag, and threads that   *)
(* update a shared counter under it, as tests/test_locks.cpp does.         *)
(*                                                                         *)
(* The compare-and-exchange that takes the lock has release order when it  *)
(* succeeds and relaxed order when it fails: it never acquires.  Where the *)
(* exchange is one locked instruction (x86) it orders the loads after it   *)
(* all the same.  Where it is a pair of exclusive accesses (the ARM boards *)
(* of _defines.hpp) a plain load of the critical section can be satisfied  *)
(* before the exchange succeeds: EarlyLoad.                                *)
(***************************************************************************)
EXTENDS Integers, FiniteSets

CONSTANTS
  Threads,
  Iters,      \* how often each thread tries to enter
  Machines    \* the machines considered: whether the exchange orders the
              \* loads that follow it

ASSUME ThreadsAssumption == IsFiniteSet(Threads)
ASSUME ItersAssumption   == Iters \in Nat
ASSUME MachinesAssumption == Machines \subseteq BOOLEAN

VARIABLES
  ordered,    \* the machine the program runs on
  locked,     \* AtomicMutex::locked
  pc,         \* where each thread is
  tries,      \* the iterations each has left
  count,      \* the variable the lock protects
  reg,        \* each thread's copy of it
  early,      \* whether that copy was loaded ahead of the exchange
  entered     \* history: how many critical sections have ended

vars == << ordered, locked, pc, tries, count, reg, early, entered >>

Goto(t, from, to) == pc[t] = from /\ pc' = [pc EXCEPT ![t] = to]

Init ==
  /\ ordered \in Machines
  /\ locked  = FALSE
  /\ pc      = [t \in Threads |-> "outside"]
  /\ tries   = [t \in Threads |-> Iters]
  /\ count   = 0
  /\ reg     = [t \in Threads |-> 0]
  /\ early   = [t \in Threads |-> FALSE]
  /\ entered = 0

-----------------------------------------------------------------------------
\* The caller calls lock() or try_lock().
Call(t, method) ==
  /\ Goto(t, "outside", method)
  /\ tries[t] > 0 /\ tries' = [tries EXCEPT ![t] = @ - 1]
  /\ UNCHANGED << ordered, locked, count, reg, early, entered >>

\* The flag is tested in one step and set in another.
FaultyExchange(t) ==
  /\ \/ /\ pc[t] \in {"lock", "try_lock"} /\ ~locked
        /\ pc' = [pc EXCEPT ![t] = "set"] /\ UNCHANGED locked
     \/ Goto(t, "set", "load") /\ locked' = TRUE
  /\ UNCHANGED << ordered, tries, count, reg, early, entered >>

\* The exchange of false by true succeeds, in lock() or in try_lock().
Exchange(t) ==
  /\ pc[t] \in {"lock", "try_lock"}
  /\ ~locked /\ locked' = TRUE
  /\ pc' = [pc EXCEPT ![t] = "load"]
  /\ UNCHANGED << ordered, tries, count, reg, early, entered >>

\* try_lock() is taken to have succeeded when the exchange fails.
FaultyGiveUp(t) ==
  /\ Goto(t, "try_lock", "load")
  /\ locked
  /\ early' = [early EXCEPT ![t] = FALSE]
  /\ UNCHANGED << ordered, locked, tries, count, reg, entered >>

\* The exchange fails: lock() tries again, try_lock() returns false, and a
\* load made early is discarded with the branch it was on.
GiveUp(t) ==
  /\ Goto(t, "try_lock", "outside")
  /\ locked
  /\ early' = [early EXCEPT ![t] = FALSE]
  /\ UNCHANGED << ordered, locked, tries, count, reg, entered >>

\* count++ in the critical section: its load, made too early or not ...
EarlyLoad(t) ==
  /\ ~ordered
  /\ pc[t] \in {"lock", "try_lock"}
  /\ reg' = [reg EXCEPT ![t] = count] /\ early' = [early EXCEPT ![t] = TRUE]
  /\ UNCHANGED << ordered, locked, pc, tries, count, entered >>

Load(t) ==
  /\ Goto(t, "load", "store")
  /\ reg'   = [reg EXCEPT ![t] = IF early[t] THEN @ ELSE count]
  /\ early' = [early EXCEPT ![t] = FALSE]
  /\ UNCHANGED << ordered, locked, tries, count, entered >>

\* ... and its store.
Store(t) ==
  /\ Goto(t, "store", "unlock")
  /\ count' = reg[t] + 1
  /\ UNCHANGED << ordered, locked, tries, reg, early, entered >>

\* unlock() leaves the flag as it is.
FaultyUnlock(t) ==
  /\ Goto(t, "unlock", "outside")
  /\ entered' = entered + 1
  /\ UNCHANGED << ordered, locked, tries, count, reg, early >>

\* unlock(): a sequentially consistent store, after the store of count.
Unlock(t) ==
  /\ Goto(t, "unlock", "outside")
  /\ locked'  = FALSE
  /\ entered' = entered + 1
  /\ UNCHANGED << ordered, tries, count, reg, early >>

-----------------------------------------------------------------------------
Step(t) ==
  \/ Call(t, "lock") \/ Call(t, "try_lock") \/ Exchange(t) \/ GiveUp(t)
  \/ Load(t) \/ Store(t) \/ Unlock(t)

Finished == \A t \in Threads : pc[t] = "outside" /\ tries[t] = 0

Next == (Finished /\ UNCHANGED vars) \/ \E t \in Threads : Step(t) \/ EarlyLoad(t)

Spec == Init /\ [][Next]_vars

\* Every thread keeps being scheduled.
FairSpec == Spec /\ \A t \in Threads : WF_vars(Step(t))

-----------------------------------------------------------------------------
Inside(t) == pc[t] \in {"load", "store", "unlock"}

TypeOK ==
  /\ ordered \in BOOLEAN /\ locked \in BOOLEAN
  /\ pc \in [Threads -> {"outside", "lock", "try_lock", "load", "store", "unlock"}]
  /\ tries \in [Threads -> 0 .. Iters]
  /\ count \in Nat /\ reg \in [Threads -> Nat]
  /\ early \in [Threads -> BOOLEAN] /\ entered \in Nat

(***************************************************************************)
(* At most one thread is between lock() or a successful try_lock() and     *)
(* unlock(): the exchange excludes others even without acquire order.      *)
(***************************************************************************)
MutualExclusion == \A t, u \in Threads : Inside(t) /\ Inside(u) => t = u

(***************************************************************************)
(* No update made under the lock is lost: when nobody is inside, the       *)
(* counter tells how many critical sections there have been.               *)
(***************************************************************************)
NoLostUpdate == (\A t \in Threads : ~Inside(t)) => count = entered

\* It is so where the exchange orders the loads after it.
NoLostUpdateIfOrdered == ordered => NoLostUpdate

(***************************************************************************)
(* Every lock() and try_lock() returns when those inside leave: a bounded  *)
(* number of callers of a spin lock cannot starve each other.              *)
(***************************************************************************)
EveryCallReturns == <>Finished
=============================================================================
