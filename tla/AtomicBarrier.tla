---------------------------- MODULE AtomicBarrier ----------------------------
(***************************************************************************)
(* class AtomicBarrier: a counter of arrivals that is never taken back.    *)
(* An arrival computes from its place in the count where its round ends,   *)
(* and spins until the count gets there.                                   *)
(***************************************************************************)
EXTENDS Integers, FiniteSets

CONSTANTS
  Procs,      \* the threads that may share the barrier
  SizeT       \* the number of values of size_t

ASSUME ProcsAssumption == IsFiniteSet(Procs) /\ Procs # {}
ASSUME SizeAssumption  == SizeT \in Nat /\ Cardinality(Procs) < SizeT

VARIABLES
  _counter,       \* the arrivals since the counter was last set to 0
  _participants,  \* the size of a round
  end,            \* wait(): where each thread's round ends
  waiting,        \* whether each thread is inside wait()
  group,          \* history: the threads that share the barrier now
  waits,          \* history: the waits each has finished since they do
  wrapped         \* history: a round's end has not fitted in size_t

barrier == << _counter, _participants, end, waiting, group, waits, wrapped >>

Init ==
  /\ \E g \in (SUBSET Procs) \ {{}} : group = g /\ _participants = Cardinality(g)
  /\ _counter = 0
  /\ end      = [p \in Procs |-> 0]
  /\ waiting  = [p \in Procs |-> FALSE]
  /\ waits    = [p \in Procs |-> 0]
  /\ wrapped  = FALSE

-----------------------------------------------------------------------------
RoundEnd(partial) == partial - (partial % _participants) + _participants

\* The round ends one full round after this arrival.
FaultyRoundEnd(p) ==
  /\ ~waiting[p]
  /\ _counter' = (_counter + 1) % SizeT
  /\ end'      = [end EXCEPT ![p] = (_counter + _participants) % SizeT]
  /\ waiting'  = [waiting EXCEPT ![p] = TRUE]
  /\ wrapped'  = (wrapped \/ _counter + _participants >= SizeT)
  /\ UNCHANGED << _participants, group, waits >>

\* wait(): the fetch-and-increment, and the end of the round it falls in.
Arrive(p) ==
  /\ ~waiting[p]
  /\ _counter' = (_counter + 1) % SizeT
  /\ end'      = [end EXCEPT ![p] = RoundEnd(_counter) % SizeT]
  /\ waiting'  = [waiting EXCEPT ![p] = TRUE]
  /\ wrapped'  = (wrapped \/ RoundEnd(_counter) >= SizeT)
  /\ UNCHANGED << _participants, group, waits >>

\* The round is taken to be over one arrival early.
FaultyLeave(p) ==
  /\ waiting[p]
  /\ _counter + 1 >= end[p]
  /\ waiting' = [waiting EXCEPT ![p] = FALSE]
  /\ waits'   = [waits EXCEPT ![p] = @ + 1]
  /\ UNCHANGED << _counter, _participants, end, group, wrapped >>

\* wait(): the loop ends.
Leave(p) ==
  /\ waiting[p]
  /\ _counter >= end[p]
  /\ waiting' = [waiting EXCEPT ![p] = FALSE]
  /\ waits'   = [waits EXCEPT ![p] = @ + 1]
  /\ UNCHANGED << _counter, _participants, end, group, wrapped >>

\* The caller is not counted.
FaultyGroup(g) ==
  /\ _counter'      = 0
  /\ _participants' = Cardinality(g) - 1
  /\ group' = g
  /\ waits' = [p \in Procs |-> 0]
  /\ UNCHANGED << end, waiting, wrapped >>

\* The counter keeps the arrivals of the previous group.
FaultySetParticipants(g) ==
  /\ _participants' = Cardinality(g)
  /\ group' = g
  /\ waits' = [p \in Procs |-> 0]
  /\ UNCHANGED << _counter, end, waiting, wrapped >>

\* set_participants(), for a group of threads of that number.
SetParticipants(g) ==
  /\ _counter'      = 0
  /\ _participants' = Cardinality(g)
  /\ group' = g
  /\ waits' = [p \in Procs |-> 0]
  /\ UNCHANGED << end, waiting, wrapped >>

Reset ==
  /\ _counter' = 0
  /\ UNCHANGED << _participants, end, waiting, group, waits, wrapped >>

IsFree == _counter % _participants = 0

-----------------------------------------------------------------------------
(* The threads of a group wait any number of times; set_participants() and *)
(* reset() are called between rounds, as the tests and ThreadHandler do.   *)

Idle == \A p \in Procs : ~waiting[p]

Next ==
  \/ \E p \in group : Arrive(p) \/ Leave(p)
  \/ Idle /\ \E g \in (SUBSET Procs) \ {{}} : SetParticipants(g)
  \/ Idle /\ IsFree /\ Reset

Spec == Init /\ [][Next]_barrier

\* A thread that spins in wait() keeps being scheduled.
FairSpec == Spec /\ \A p \in Procs : WF_barrier(p \in group /\ Leave(p))

-----------------------------------------------------------------------------
Begun(p) == waits[p] + (IF waiting[p] THEN 1 ELSE 0)

TypeOK ==
  /\ _counter \in 0 .. SizeT - 1 /\ _participants \in 1 .. Cardinality(Procs)
  /\ end \in [Procs -> 0 .. SizeT - 1] /\ waiting \in [Procs -> BOOLEAN]
  /\ group \in (SUBSET Procs) \ {{}} /\ waits \in [Procs -> Nat]
  /\ wrapped \in BOOLEAN

(***************************************************************************)
(* is_free() tells whether a round is in progress: it is true exactly when *)
(* all the threads of the group have begun the same number of waits, even  *)
(* though some may still be spinning in the last of them.                  *)
(***************************************************************************)
FreeBetweenRounds ==
  ~wrapped => (IsFree <=> \A p, q \in group : Begun(p) = Begun(q))

(***************************************************************************)
(* No thread finishes its k-th wait before all the others have begun       *)
(* theirs, whatever rounds the others have raced ahead to - until the end  *)
(* of a round no longer fits in size_t.                                    *)
(***************************************************************************)
NobodyLeavesEarly == ~wrapped => \A p, q \in group : waits[p] <= Begun(q)

(***************************************************************************)
(* A thread inside wait() finds the round over exactly when every thread   *)
(* of the group has begun as many waits as it has: none leaves early, and  *)
(* no group spins with all of its threads there.                           *)
(***************************************************************************)
OpensForAll ==
  ~wrapped => \A p \in group : waiting[p] =>
    (_counter >= end[p] <=> \A q \in group : Begun(q) >= Begun(p))

(***************************************************************************)
(* AtomicBarrier implements a barrier.                                     *)
(***************************************************************************)
Promise == INSTANCE Barrier WITH
  begun <- [p \in Procs |-> Begun(p)], finished <- waits
ImplementsBarrier == Promise!Spec

(***************************************************************************)
(* A thread whose round is complete leaves it, even when faster threads    *)
(* have begun the next rounds before it looks at the counter again.        *)
(***************************************************************************)
EveryoneLeaves ==
  \A p \in Procs :
    (waiting[p] /\ \A q \in group : Begun(q) >= Begun(p)) ~> ~waiting[p]
=============================================================================
