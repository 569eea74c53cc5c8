--------------------------- MODULE ReductionWorker ---------------------------
(***************************************************************************)
(* class ReductionWorker: each thread folds the results of the chunks it   *)
(* runs into its reduction_value; when it finds no more work the values    *)
(* are combined along a tree.  A worker is created with its red_lock held  *)
(* and releases it when its value is final, so that lock() by the thread   *)
(* above it in the tree waits for the value.                               *)
(*                                                                         *)
(* A value is the sequence of what has been combined into it, the identity *)
(* and chunks, and the reduction concatenates: any associative reduction   *)
(* is an image of this one, whether it commutes or not.  Which iterations  *)
(* a chunk has is the business of Worker.                                  *)
(***************************************************************************)
EXTENDS Integers, FiniteSets, Sequences

CONSTANTS
  NThreads,    \* Worker::_nthr
  MaxChunks,   \* a bound on the chunks a thread runs
  Machines     \* the machines considered: whether the exchange in lock()
               \* orders the loads that follow it

ADPT_MAX_THREADS == 256

ASSUME ThreadsAssumption == NThreads \in 1 .. ADPT_MAX_THREADS
ASSUME ChunksAssumption  == MaxChunks \in Nat
ASSUME MachinesAssumption == Machines \subseteq BOOLEAN

Threads  == 0 .. NThreads - 1
Chunks   == Threads \X (1 .. MaxChunks)    \* << t, k >>: the k-th chunk of t
Identity == << -1, 0 >>
Values   == Seq(Chunks \cup {Identity})
Reduce(a, b) == a \o b

\* The powers of two up to twice ADPT_MAX_THREADS.
Strides == {2, 4, 8, 16, 32, 64, 128, 256, 512}

VARIABLES
  ordered,          \* the machine the program runs on
  pc,               \* where each thread is in work()
  reduction_value,  \* ReductionWorker::reduction_value
  red_lock,         \* ReductionWorker::red_lock
  stride,           \* the tree reduction's `i`
  early,            \* the value below, when loaded ahead of the exchange
  chunks            \* history: the chunks each thread has run

vars == << ordered, pc, reduction_value, red_lock, stride, early, chunks >>

Goto(t, from, to) == pc[t] = from /\ pc' = [pc EXCEPT ![t] = to]

\* The constructor of a worker takes its red_lock.
Init ==
  /\ ordered \in Machines
  /\ pc = [t \in Threads |-> "work"]
  /\ reduction_value = [t \in Threads |-> << Identity >>]
  /\ red_lock = [t \in Threads |-> TRUE]
  /\ stride = [t \in Threads |-> 2]
  /\ early  = [t \in Threads |-> {}]
  /\ chunks = [t \in Threads |-> 0]

an_thr(t)     == t + stride[t] \div 2
Combining(t)  == t % stride[t] = 0 /\ an_thr(t) < NThreads

-----------------------------------------------------------------------------
\* extract_seq() found a chunk: the body starts from the identity, and its
\* result is folded in.
Chunk(t) ==
  /\ pc[t] = "work" /\ chunks[t] < MaxChunks
  /\ chunks' = [chunks EXCEPT ![t] = @ + 1]
  /\ LET partial_value == << Identity, << t, chunks[t] + 1 >> >>
     IN  reduction_value' = [reduction_value EXCEPT ![t] = Reduce(@, partial_value)]
  /\ UNCHANGED << ordered, pc, red_lock, stride, early >>

\* extract_par() found nothing to steal.
NoMoreWork(t) ==
  /\ Goto(t, "work", "tree")
  /\ UNCHANGED << ordered, reduction_value, red_lock, stride, early, chunks >>

\* A thread goes on as long as it has a subtree to combine.
Branch(t) ==
  /\ pc[t] = "tree"
  /\ pc' = [pc EXCEPT ![t] = IF Combining(t) THEN "lock" ELSE "unlock"]
  /\ UNCHANGED << ordered, reduction_value, red_lock, stride, early, chunks >>

\* red_lock is not waited for.
FaultyLock(t) ==
  /\ Goto(t, "lock", "combine")
  /\ red_lock' = [red_lock EXCEPT ![an_thr(t)] = TRUE]
  /\ UNCHANGED << ordered, reduction_value, stride, early, chunks >>

Lock(t) ==
  /\ Goto(t, "lock", "combine")
  /\ ~red_lock[an_thr(t)]
  /\ red_lock' = [red_lock EXCEPT ![an_thr(t)] = TRUE]
  /\ UNCHANGED << ordered, reduction_value, stride, early, chunks >>

\* The plain load of the other thread's value need not wait for the exchange
\* that takes its lock, when that does not order loads.
EarlyLoad(t) ==
  /\ ~ordered
  /\ pc[t] = "lock"
  /\ early' = [early EXCEPT ![t] = {reduction_value[an_thr(t)]}]
  /\ UNCHANGED << ordered, pc, reduction_value, red_lock, stride, chunks >>

\* The other thread's value is put in front.
FaultyCombine(t) ==
  /\ Goto(t, "combine", "release")
  /\ reduction_value' =
       [reduction_value EXCEPT ![t] = Reduce(reduction_value[an_thr(t)], @)]
  /\ early' = [early EXCEPT ![t] = {}]
  /\ UNCHANGED << ordered, red_lock, stride, chunks >>

Combine(t) ==
  /\ Goto(t, "combine", "release")
  /\ \E below \in IF early[t] = {} THEN {reduction_value[an_thr(t)]} ELSE early[t] :
       reduction_value' = [reduction_value EXCEPT ![t] = Reduce(@, below)]
  /\ early' = [early EXCEPT ![t] = {}]
  /\ UNCHANGED << ordered, red_lock, stride, chunks >>

\* The next subtree is the one after the next.
FaultyRelease(t) ==
  /\ Goto(t, "release", "tree")
  /\ red_lock' = [red_lock EXCEPT ![an_thr(t)] = FALSE]
  /\ stride'   = [stride EXCEPT ![t] = @ + 2]
  /\ UNCHANGED << ordered, reduction_value, early, chunks >>

Release(t) ==
  /\ Goto(t, "release", "tree")
  /\ red_lock' = [red_lock EXCEPT ![an_thr(t)] = FALSE]
  /\ stride'   = [stride EXCEPT ![t] = 2 * @]
  /\ UNCHANGED << ordered, reduction_value, early, chunks >>

\* The thread's own lock is left taken.
FaultyUnlock(t) ==
  /\ Goto(t, "unlock", "end")
  /\ UNCHANGED << ordered, reduction_value, red_lock, stride, early, chunks >>

\* The value is final: the thread's own red_lock is released.
Unlock(t) ==
  /\ Goto(t, "unlock", "end")
  /\ red_lock' = [red_lock EXCEPT ![t] = FALSE]
  /\ UNCHANGED << ordered, reduction_value, stride, early, chunks >>

-----------------------------------------------------------------------------
TreeStep(t) ==
  Branch(t) \/ Lock(t) \/ Combine(t) \/ Release(t) \/ Unlock(t)

AllEnded   == \A t \in Threads : pc[t] = "end"
Terminated == AllEnded /\ UNCHANGED vars

Next ==
  \/ Terminated
  \/ \E t \in Threads : Chunk(t) \/ NoMoreWork(t) \/ TreeStep(t) \/ EarlyLoad(t)

Spec == Init /\ [][Next]_vars

\* Threads keep being scheduled, and run out of work.
FairSpec ==
  Spec /\ \A t \in Threads : WF_vars(TreeStep(t)) /\ WF_vars(NoMoreWork(t))

-----------------------------------------------------------------------------
TypeOK ==
  /\ ordered \in BOOLEAN
  /\ pc \in [Threads -> {"work", "tree", "lock", "combine", "release", "unlock", "end"}]
  /\ reduction_value \in [Threads -> Values]
  /\ red_lock \in [Threads -> BOOLEAN]
  /\ stride \in [Threads -> Strides]
  /\ early \in [Threads -> SUBSET Values]
  /\ chunks \in [Threads -> 0 .. MaxChunks]

EndsWith(v, w) ==
  /\ Len(w) <= Len(v)
  /\ \A i \in 1 .. Len(w) : v[Len(v) - Len(w) + i] = w[i]

(***************************************************************************)
(* What a thread has combined into its value is the final value of another *)
(* thread, the one that has returned from work() with it and writes it no  *)
(* more: red_lock is all that keeps it from reading a value that lacks     *)
(* chunks or subtrees.  It is so where the exchange in lock() orders the   *)
(* loads after it; elsewhere the value may be read too early.              *)
(***************************************************************************)
CombinesFinalValues ==
  ordered => \A t \in Threads : pc[t] = "release" =>
    /\ pc[an_thr(t)] = "end"
    /\ EndsWith(reduction_value[t], reduction_value[an_thr(t)])

\* The chunks that have been combined into a value, and their order: by
\* thread, and then as the thread ran them.
Within(v)    == {v[i] : i \in 1 .. Len(v)} \ {Identity}
Before(p, q) == p[1] < q[1] \/ (p[1] = q[1] /\ p[2] < q[2])
InOrder(v)   ==
  \A i, j \in 1 .. Len(v) :
    i < j /\ v[i] # Identity /\ v[j] # Identity => Before(v[i], v[j])

(***************************************************************************)
(* When all have returned from work(), the value parallel_reduce returns   *)
(* has every chunk of every thread in it exactly once, in the order of the *)
(* threads' numbers and of their chunks: whatever number of threads the    *)
(* tree has, the reduction need be associative only, and which chunks a    *)
(* thread ran is all that a steal can change.  It is so where the exchange *)
(* in lock() orders the loads after it.                                    *)
(***************************************************************************)
ReducedInOrder ==
  ordered /\ AllEnded =>
    /\ Within(reduction_value[0]) = {p \in Chunks : p[2] <= chunks[p[1]]}
    /\ InOrder(reduction_value[0])

(***************************************************************************)
(* The waiting along the tree has no cycle: every thread gets through it.  *)
(***************************************************************************)
EveryThreadEnds == <>AllEnded

(***************************************************************************)
(* The initial value the caller gives is in the result once.               *)
(***************************************************************************)
InitialValueOnce ==
  AllEnded =>
    Cardinality({i \in 1 .. Len(reduction_value[0]) : reduction_value[0][i] = Identity}) = 1
=============================================================================
