------------------------------- MODULE Worker -------------------------------
(***************************************************************************)
(* The work-stealing loop scheduler: class Worker<Index> and the loop of   *)
(* ForWorker::work.  Every thread owns one Worker object, holding the      *)
(* sub-range [first, last) of the loop.  The owner takes chunks from the   *)
(* front (extract_seq), idle threads steal from the back (extract_par).    *)
(* The THE protocol lets the owner do so without a lock unless it meets a  *)
(* thief; thieves serialise on the victim's lock.                          *)
(*                                                                         *)
(* One action is one access to a std::atomic shared by several threads,    *)
(* with the local computation that follows it.  All these accesses use the *)
(* default order (sequentially consistent), so interleaving them is exact. *)
(* The build modelled is the one the CMake files produce: none of the      *)
(* optional macros (STEAL_HALF, GRAIN_LOG, ...) is defined.                *)
(***************************************************************************)
EXTENDS Integers, FiniteSets

CONSTANTS
  NThreads,   \* get_num_threads(): the number of Worker objects
  First,      \* global_first of the loop
  Last,       \* global_last of the loop
  Grain,      \* get_grain(), the chunk size seq_chunk
  IndexMax,   \* std::numeric_limits<Index>::max()
  Signed      \* whether Index is a signed type

(***************************************************************************)
(* A range may end at the maximum of its type.  Where the sum of an index  *)
(* and the grain does not fit, an unsigned one wraps; a signed one would   *)
(* be undefined, and is assumed to fit.  An int loop with negative indices *)
(* is not modelled.  A grain of 0 cannot be configured (get_from_env keeps *)
(* the default when atoi yields 0).                                        *)
(***************************************************************************)
ASSUME ThreadsAssumption == NThreads \in Nat \ {0}
ASSUME RangeAssumption   == First \in Nat /\ Last \in Nat /\ First <= Last
ASSUME GrainAssumption   == Grain \in Nat \ {0}
ASSUME SignedAssumption  == Signed \in BOOLEAN
ASSUME IndexAssumption   == IndexMax \in Nat /\ Last <= IndexMax
ASSUME SignedFits        == Signed => Last + Grain <= IndexMax

Threads == 0 .. NThreads - 1
Nobody  == -1                   \* lock[w] = Nobody: AtomicMutex::locked is false
Iterations == First .. Last - 1
MinOf(x, y) == IF x < y THEN x ELSE y
MaxOf(x, y) == IF x > y THEN x ELSE y

\* a + b and a - b in the type Index, modulo IndexMax + 1 when it is unsigned.
Plus(a, b)  == IF Signed THEN a + b ELSE (a + b) % (IndexMax + 1)
Minus(a, b) == IF a < b /\ ~Signed THEN a - b + IndexMax + 1 ELSE a - b

-----------------------------------------------------------------------------
(* The constructor divides the range equally; the first threads get one    *)
(* iteration of the remainder each.                                        *)

Chunk  == (Last - First) \div NThreads
Remain == (Last - First) % NThreads
InitialFirst(id) == Chunk * id + First + MinOf(id, Remain)
InitialLast(id)  == InitialFirst(id) + Chunk + (IF id < Remain THEN 1 ELSE 0)

\* How much a thief takes from a sub-range with `remain` iterations left.
StealSize(remain) == IF remain > 0 THEN MaxOf(remain \div 2, 1) ELSE 0

-----------------------------------------------------------------------------
VARIABLES
  pc,             \* where each thread is in work()
  first, last,    \* Worker::first, Worker::last (shared atomics)
  lock,           \* Worker::lock, with the thread that holds it
  copy_first,     \* Worker::copy_first (touched by the owner alone)
  working_first,  \* Worker::_working_first (owner)
  working_last,   \* Worker::_working_last (owner)
  visited,        \* extract_par: the sub-ranges already inspected
  victim,         \* extract_par: the sub-range being inspected
  vic_last,       \* extract_par: its `last`, as read under its lock
  new_last,       \* extract_par: where the thief wants to cut it
  seen,           \* a register: an atomic just loaded, to be compared
  done,           \* how often local_compute ran on each iteration
  outdated        \* history: a thief cut a sub-range whose `last` was no
                  \* longer the one it had read (only properties read it)

shared == << first, last, lock >>
own    == << copy_first, working_first, working_last >>
thief  == << visited, victim, vic_last, new_last, seen >>
vars   == << pc, first, last, lock, copy_first, working_first, working_last,
             visited, victim, vic_last, new_last, seen, done, outdated >>

Goto(t, from, to) == pc[t] = from /\ pc' = [pc EXCEPT ![t] = to]
Set(f, t, x)      == [f EXCEPT ![t] = x]

(***************************************************************************)
(* Operators named Faulty... are the definition that follows them with a   *)
(* plausible bug; they show that a property can fail, and no action of the *)
(* specification uses them.                                                *)
(***************************************************************************)

Init ==
  /\ pc            = [t \in Threads |-> "seq"]
  /\ first         = [t \in Threads |-> InitialFirst(t)]
  /\ last          = [t \in Threads |-> InitialLast(t)]
  /\ lock          = [t \in Threads |-> Nobody]
  /\ copy_first    = first
  /\ working_first = first
  /\ working_last  = first
  /\ visited       = [t \in Threads |-> {}]
  /\ victim        = [t \in Threads |-> t]
  /\ vic_last      = [t \in Threads |-> 0]
  /\ new_last      = [t \in Threads |-> 0]
  /\ seen          = [t \in Threads |-> 0]
  /\ done          = [x \in Iterations |-> 0]
  /\ outdated      = FALSE

-----------------------------------------------------------------------------
(* extract_seq *)

\* The bound of the chunk is computed; a chunk that is empty (it does not
\* exceed _working_last) is a conflict and sends the owner to its lock.
Bound(t, b) ==
  /\ working_first' = Set(working_first, t, b)
  /\ pc' = Set(pc, t, IF b > working_last[t] THEN "publish" ELSE "lock")

\* MIN is a macro: `last` is loaded once for the comparison ...
SeqBound(t) ==
  /\ pc[t] = "seq"
  /\ IF Plus(copy_first[t], Grain) < last[t]
       THEN Bound(t, Plus(copy_first[t], Grain))
       ELSE pc' = Set(pc, t, "min") /\ UNCHANGED working_first
  /\ UNCHANGED << shared, copy_first, working_last, thief, done, outdated >>

\* ... and loaded again when it is the smaller one.
SeqBoundLast(t) ==
  /\ pc[t] = "min"
  /\ Bound(t, last[t])
  /\ UNCHANGED << shared, copy_first, working_last, thief, done, outdated >>

SeqPublish(t) ==
  /\ Goto(t, "publish", "check")
  /\ first' = Set(first, t, working_first[t])
  /\ UNCHANGED << last, lock, own, thief, done, outdated >>

\* The chunk [copy_first, _working_first) is the owner's if no thief has cut
\* the sub-range at or below its end.
SeqCheck(t) ==
  /\ pc[t] = "check"
  /\ IF working_first[t] < last[t]
       THEN /\ pc' = Set(pc, t, "body")
            /\ working_last'  = Set(working_last, t, working_first[t])
            /\ copy_first'    = Set(copy_first, t, working_first[t])
            /\ working_first' = Set(working_first, t, copy_first[t])
       ELSE pc' = Set(pc, t, "undo") /\ UNCHANGED own
  /\ UNCHANGED << shared, thief, done, outdated >>

SeqUndo(t) ==
  /\ Goto(t, "undo", "lock")
  /\ first' = Set(first, t, copy_first[t])
  /\ UNCHANGED << last, lock, own, thief, done, outdated >>

\* lock() does not wait for the holder.
FaultyLock(t) ==
  /\ Goto(t, "lock", "take")
  /\ lock' = Set(lock, t, t)
  /\ UNCHANGED << first, last, own, thief, done, outdated >>

SeqLock(t) ==
  /\ Goto(t, "lock", "take")
  /\ lock[t] = Nobody
  /\ lock' = Set(lock, t, t)
  /\ UNCHANGED << first, last, own, thief, done, outdated >>

\* The last iteration is left to the thieves.
FaultyTake(t) ==
  /\ pc[t] = "take"
  /\ working_first' = Set(working_first, t, copy_first[t])
  /\ IF copy_first[t] + 1 < last[t]
       THEN /\ first'        = Set(first, t, last[t])
            /\ working_last' = Set(working_last, t, last[t])
            /\ copy_first'   = Set(copy_first, t, last[t])
       ELSE UNCHANGED << first, working_last, copy_first >>
  /\ lock' = Set(lock, t, Nobody)
  /\ pc' = Set(pc, t, IF working_first'[t] < first'[t] THEN "body" ELSE "par")
  /\ UNCHANGED << last, thief, done, outdated >>

\* Under the lock the owner takes all that is left.  Nobody else writes
\* `last` meanwhile, so its loads, the store of `first` and unlock() are one.
SeqTake(t) ==
  /\ pc[t] = "take"
  /\ working_first' = Set(working_first, t, copy_first[t])
  /\ IF copy_first[t] < last[t]
       THEN /\ first'        = Set(first, t, last[t])
            /\ working_last' = Set(working_last, t, last[t])
            /\ copy_first'   = Set(copy_first, t, last[t])
       ELSE UNCHANGED << first, working_last, copy_first >>
  /\ lock' = Set(lock, t, Nobody)
  /\ pc' = Set(pc, t, IF working_first'[t] < first'[t] THEN "body" ELSE "par")
  /\ UNCHANGED << last, thief, done, outdated >>

\* The chunk is taken for a closed interval.
FaultyBody(t) ==
  /\ Goto(t, "body", "seq")
  /\ done' = [x \in Iterations |->
       IF x \in working_first[t] .. working_last[t] THEN done[x] + 1 ELSE done[x]]
  /\ UNCHANGED << shared, own, thief, outdated >>

\* ForWorker::work runs the loop body on [_working_first, _working_last).
Body(t) ==
  /\ Goto(t, "body", "seq")
  /\ done' = [x \in Iterations |->
       IF x \in working_first[t] .. working_last[t] - 1 THEN done[x] + 1 ELSE done[x]]
  /\ UNCHANGED << shared, own, thief, outdated >>

-----------------------------------------------------------------------------
(* extract_par *)

ParHideFirst(t) ==
  /\ Goto(t, "par", "hide")
  /\ first' = Set(first, t, IndexMax)
  /\ UNCHANGED << last, lock, own, thief, done, outdated >>

ParHideLast(t) ==
  /\ Goto(t, "hide", "pick")
  /\ last' = Set(last, t, IndexMax)
  /\ visited' = Set(visited, t, {t})
  /\ UNCHANGED << first, lock, own, victim, vic_last, new_last, seen, done, outdated >>

\* The victim is not marked as visited; its successor is, counting from 1.
FaultyGiveUp(t) ==
  /\ pc' = Set(pc, t, "pick")
  /\ UNCHANGED visited

FaultyMark(t) ==
  /\ pc' = Set(pc, t, "pick")
  /\ visited' = Set(visited, t, visited[t] \cup {victim[t] + 1})

\* The inspection of the victim ends without a steal.
GiveUp(t) ==
  /\ pc' = Set(pc, t, "pick")
  /\ visited' = Set(visited, t, visited[t] \cup {victim[t]})

\* rand() and the probe after it reach any sub-range not yet visited; the
\* left operand of `victim.last > victim.first` is loaded.
ParPick(t) ==
  /\ Goto(t, "pick", "range")
  /\ \E v \in Threads \ visited[t] :
       /\ victim' = Set(victim, t, v)
       /\ seen' = Set(seen, t, last[v])
  /\ UNCHANGED << shared, own, visited, vic_last, new_last, done, outdated >>

\* Nothing to steal anywhere: extract_par returns false and work() returns.
ParReturn(t) ==
  /\ Goto(t, "pick", "end")
  /\ visited[t] = Threads
  /\ UNCHANGED << shared, own, thief, done, outdated >>

ParRange(t) ==
  /\ pc[t] = "range"
  /\ IF seen[t] > first[victim[t]]
       THEN pc' = Set(pc, t, "try") /\ UNCHANGED visited
       ELSE GiveUp(t)
  /\ UNCHANGED << shared, own, victim, vic_last, new_last, seen, done, outdated >>

\* try_lock() succeeds on a lock that is held.
FaultyTryLock(t) ==
  /\ Goto(t, "try", "load")
  /\ lock' = Set(lock, victim[t], t)
  /\ UNCHANGED << first, last, own, thief, done, outdated >>

\* A victim whose lock is taken is not marked as visited.
ParTryLock(t) ==
  /\ pc[t] = "try"
  /\ IF lock[victim[t]] = Nobody
       THEN pc' = Set(pc, t, "load") /\ lock' = Set(lock, victim[t], t)
       ELSE pc' = Set(pc, t, "pick") /\ UNCHANGED lock
  /\ UNCHANGED << first, last, own, thief, done, outdated >>

ParLoadLast(t) ==
  /\ Goto(t, "load", "remain")
  /\ vic_last' = Set(vic_last, t, last[victim[t]])
  /\ UNCHANGED << shared, own, visited, victim, new_last, seen, done, outdated >>

ParLoadFirst(t) ==
  /\ Goto(t, "remain", "verify")
  /\ LET remain == Minus(vic_last[t], first[victim[t]])
     IN  new_last' = Set(new_last, t, Minus(vic_last[t], StealSize(remain)))
  /\ UNCHANGED << shared, own, visited, victim, vic_last, seen, done, outdated >>

\* unlock() after an attempt that stole nothing.
Abandon(t) ==
  /\ lock' = Set(lock, victim[t], Nobody)
  /\ GiveUp(t)

ParVerifyLast(t) ==
  /\ pc[t] = "verify"
  /\ IF last[victim[t]] > new_last[t]
       THEN pc' = Set(pc, t, "verify2") /\ UNCHANGED << lock, visited >>
       ELSE Abandon(t)
  /\ UNCHANGED << first, last, own, victim, vic_last, new_last, seen, done, outdated >>

ParVerifyFirst(t) ==
  /\ pc[t] = "verify2"
  /\ IF first[victim[t]] <= new_last[t]
       THEN pc' = Set(pc, t, "cut") /\ UNCHANGED << lock, visited >>
       ELSE Abandon(t)
  /\ UNCHANGED << first, last, own, victim, vic_last, new_last, seen, done, outdated >>

ParCut(t) ==
  /\ Goto(t, "cut", "recheck")
  /\ last' = Set(last, victim[t], new_last[t])
  /\ outdated' = (outdated \/ last[victim[t]] # vic_last[t])
  /\ UNCHANGED << first, lock, own, thief, done >>

ParRecheckFirst(t) ==
  /\ Goto(t, "recheck", "recheck2")
  /\ seen' = Set(seen, t, first[victim[t]])
  /\ UNCHANGED << shared, own, visited, victim, vic_last, new_last, done, outdated >>

\* The cut stands unless the owner's `first` has passed it; steal_size > 0
\* is the same as new_last # vic_last.
ParRecheckLast(t) ==
  /\ pc[t] = "recheck2"
  /\ \/ /\ seen[t] > last[victim[t]]
        /\ pc' = Set(pc, t, "rollback")
        /\ UNCHANGED << lock, visited >>
     \/ /\ seen[t] <= last[victim[t]]
        /\ new_last[t] # vic_last[t]
        /\ pc' = Set(pc, t, "won")
        /\ lock' = Set(lock, victim[t], Nobody)
        /\ UNCHANGED visited
     \/ /\ seen[t] <= last[victim[t]]
        /\ new_last[t] = vic_last[t]
        /\ Abandon(t)
  /\ UNCHANGED << first, last, own, victim, vic_last, new_last, seen, done, outdated >>

\* The cut is abandoned but not undone.
FaultyRollback(t) ==
  /\ pc[t] = "rollback"
  /\ Abandon(t)
  /\ UNCHANGED << first, last, own, victim, vic_last, new_last, seen, done, outdated >>

ParRollback(t) ==
  /\ pc[t] = "rollback"
  /\ last' = Set(last, victim[t], vic_last[t])
  /\ Abandon(t)
  /\ UNCHANGED << first, own, victim, vic_last, new_last, seen, done, outdated >>

ParSetLast(t) ==
  /\ Goto(t, "won", "setfirst")
  /\ last' = Set(last, t, vic_last[t])
  /\ UNCHANGED << first, lock, own, thief, done, outdated >>

\* The store of `first` and recalc_internal(), which restarts the owner's
\* copies from it; the registers of extract_par are dead from here on.
ParSetFirst(t) ==
  /\ Goto(t, "setfirst", "seq")
  /\ first'         = Set(first, t, new_last[t])
  /\ copy_first'    = Set(copy_first, t, new_last[t])
  /\ working_first' = Set(working_first, t, new_last[t])
  /\ working_last'  = Set(working_last, t, new_last[t])
  /\ visited'       = Set(visited, t, {})
  /\ UNCHANGED << last, lock, victim, vic_last, new_last, seen, done, outdated >>

-----------------------------------------------------------------------------
ExtractSeq(t) ==
  \/ SeqBound(t) \/ SeqBoundLast(t) \/ SeqPublish(t) \/ SeqCheck(t)
  \/ SeqUndo(t)  \/ SeqLock(t)      \/ SeqTake(t)

ExtractPar(t) ==
  \/ ParHideFirst(t)  \/ ParHideLast(t)     \/ ParPick(t)     \/ ParReturn(t)
  \/ ParRange(t)      \/ ParTryLock(t)      \/ ParLoadLast(t) \/ ParLoadFirst(t)
  \/ ParVerifyLast(t) \/ ParVerifyFirst(t)  \/ ParCut(t)      \/ ParRecheckFirst(t)
  \/ ParRecheckLast(t) \/ ParRollback(t)    \/ ParSetLast(t)  \/ ParSetFirst(t)

Step(t) == ExtractSeq(t) \/ Body(t) \/ ExtractPar(t)

AllEnded == \A t \in Threads : pc[t] = "end"

Terminated == AllEnded /\ UNCHANGED vars

Next == Terminated \/ \E t \in Threads : Step(t)

Spec == Init /\ [][Next]_vars

\* The operating system keeps scheduling every thread.
FairSpec == Spec /\ \A t \in Threads : WF_vars(Step(t))

-----------------------------------------------------------------------------
(* Properties *)

SeqLabels   == {"seq", "min", "publish", "check", "undo", "lock", "take", "body"}
ThiefLabels == {"load", "remain", "verify", "verify2", "cut",
                "recheck", "recheck2", "rollback"}
ParLabels   == {"par", "hide", "pick", "range", "try", "won", "setfirst", "end"}

TypeOK ==
  /\ pc \in [Threads -> SeqLabels \cup ThiefLabels \cup ParLabels]
  /\ first \in [Threads -> Int] /\ last \in [Threads -> Int]
  /\ lock \in [Threads -> Threads \cup {Nobody}]
  /\ copy_first \in [Threads -> Int]
  /\ working_first \in [Threads -> Int] /\ working_last \in [Threads -> Int]
  /\ visited \in [Threads -> SUBSET Threads] /\ victim \in [Threads -> Threads]
  /\ vic_last \in [Threads -> Int] /\ new_last \in [Threads -> Int]
  /\ seen \in [Threads -> Int]
  /\ done \in [Iterations -> Nat]
  /\ outdated \in BOOLEAN

\* Thread t is between lock()/try_lock() and unlock() of Worker w's lock.
InSection(t, w) ==
  \/ pc[t] = "take" /\ w = t
  \/ pc[t] \in ThiefLabels /\ w = victim[t]

(***************************************************************************)
(* The owner's locked retry in extract_seq and the thieves' critical       *)
(* section in extract_par exclude each other on every sub-range.           *)
(***************************************************************************)
MutualExclusion ==
  \A w \in Threads : \A t, u \in Threads :
    InSection(t, w) /\ InSection(u, w) => t = u

\* A thief has cut `last` but has not yet learnt whether the cut stands.
Undecided(t) ==
  \/ pc[t] \in {"recheck", "rollback"}
  \/ pc[t] = "recheck2" /\ seen[t] > new_last[t]

\* The end of w's sub-range, not counting a cut that may be rolled back.
EffectiveLast(w) ==
  IF lock[w] \notin {w, Nobody} /\ Undecided(lock[w]) THEN vic_last[lock[w]] ELSE last[w]

\* Thread t answers for iteration x: it is in the chunk t is about to run, in
\* what is left of its sub-range, or in what t has stolen and not yet published.
Claims(t, x) == pc[t] = "body" /\ working_first[t] <= x /\ x < working_last[t]
Owns(t, x)   == pc[t] \in SeqLabels /\ copy_first[t] <= x /\ x < EffectiveLast(t)
Carrying(t)  == \/ pc[t] \in {"won", "setfirst"}
                \/ pc[t] = "recheck2" /\ seen[t] <= new_last[t]
Carries(t, x) == Carrying(t) /\ new_last[t] <= x /\ x < vic_last[t]
Holds(t, x)   == Claims(t, x) \/ Owns(t, x) \/ Carries(t, x)

(***************************************************************************)
(* At every moment each iteration has either run once and is held by no    *)
(* thread, or has not run and is held by exactly one: whatever the races   *)
(* of owner and thieves, extraction, cut, rollback and hand-over neither   *)
(* lose nor duplicate work.  It holds as long as no thief has cut a        *)
(* sub-range whose `last` has changed since the thief read it: that cut is *)
(* the only way the scheduler can go wrong.                                *)
(***************************************************************************)
OnceUnlessOutdated ==
  ~outdated => \A x \in Iterations :
    LET holders == {t \in Threads : Holds(t, x)}
    IN  \/ done[x] = 1 /\ holders = {}
        \/ done[x] = 0 /\ \E t \in Threads : holders = {t}

(***************************************************************************)
(* A loop with an iteration for every thread runs its first bodies on all  *)
(* of them: until a body has returned, no thread is without one and none   *)
(* looks for work, so that the bodies may wait for each other, as those of *)
(* tests/test_barriers.cpp do.                                             *)
(***************************************************************************)
BodiesMeet ==
  Last - First >= NThreads /\ (\A x \in Iterations : done[x] = 0) =>
    \A t \in Threads : pc[t] \in SeqLabels

(***************************************************************************)
(* A thief's copy of its victim's `last` is still right when it cuts the   *)
(* sub-range.  True of two threads: a victim that leaves its sub-range     *)
(* while the only thief holds its lock finds nothing to steal back.        *)
(***************************************************************************)
NeverOutdated == ~outdated

\* No iteration is run twice (parallel_for runs the body once on each).
RunAtMostOnce == \A x \in Iterations : done[x] <= 1

\* When every thread has returned from work(), every iteration has run.
NoneLost == AllEnded => \A x \in Iterations : done[x] >= 1

\* What parallel_for promises of every iteration.
RunExactlyOnce == RunAtMostOnce /\ NoneLost

\* The scheduler implements the loop its caller asked for.
Promise == INSTANCE Loop WITH ended <- AllEnded
ImplementsLoop == Promise!Spec

(***************************************************************************)
(* Every thread returns from work() unless threads steal from each other   *)
(* for ever: the spinning locks, the retries after a failed try_lock and   *)
(* the rollbacks cannot keep a loop from ending on their own.              *)
(***************************************************************************)
EndsUnlessStealsForever ==
  <>AllEnded \/ []<><<\E t \in Threads : ParSetFirst(t)>>_vars
=============================================================================
