# Adaptive in TLA+

Specifications of *Adaptive* (`adaptive/`), a work-stealing scheduler of
parallel loops: modules that model its components, TLC configurations that check
them on small instances, and theorems that TLAPS proves for every instance. Paths
below are relative to the repository.

## The system

A program calls `adapt::parallel_for(first, last, body)` or
`adapt::parallel_reduce(...)`. A global pool of threads runs the loop: each
thread owns a *worker* with a sub-range of the iterations, takes chunks from its
front, and steals from the back of others when it runs dry.

| component | source | state | operations |
|---|---|---|---|
| loop scheduler | `_worker.hpp`, `_parallel_for_worker.hpp` | per worker: atomics `first`, `last`, `lock`; the owner's `copy_first`, `_working_first`, `_working_last` | constructor (division of the range), `extract_seq`, `extract_par`, `recalc_internal`, `work` |
| reduction | `_reduction_worker.hpp` | `reduction_value`, `red_lock` per worker | `work` (fold of the chunks, tree reduction) |
| thread pool | `_thread_handler.cpp` | `stop`, `counter`, `workers_array`, the barrier, the pthreads | constructor, `start_threads`, `spawn_worker`, `work`, `stop_threads`, destructor |
| loop calls | `adaptive.hpp` | the workers of the call | `parallel_for`, `parallel_reduce` |
| barrier | `atomic_barrier.cpp` | `_counter`, `_participants` | `wait`, `set_participants`, `reset`, `is_free` |
| mutex | `atomic_mutex.cpp` | `locked` | `lock`, `try_lock`, `unlock` |
| configuration, pinning | `_thread_handler.cpp` | - | `get_from_env`, `pin_thread` |
| C connector | `adaptive_c_connector.cpp` | - | `c_parallel_for` |

How they interact. `parallel_for` creates one worker per thread and stores them
in `workers_array`; it then joins the threads that wait at the pool's barrier,
runs worker 0 itself, waits at the barrier again and deletes the workers. A
worker's `work()` alternates `extract_seq` with the loop body and, when its
sub-range is empty, `extract_par`, which reads and writes the sub-ranges of the
other workers, under their `lock` or not. `ReductionWorker::work` does the same and
then combines the values of the threads along a tree, using each worker's
`red_lock` to wait for its value.

What is hard:

* owner and thieves share `first` and `last` with at most one of them locked
  (the THE protocol): they store one, then load the other;
* a thief acts on values of its victim it read several steps earlier;
* sub-ranges are hidden (both ends set to the maximum of the index type) and
  published again with two stores while other threads inspect them, and lengths
  are computed in a type that may wrap;
* all waiting is spinning: at the barrier, on locks, and in the retries of
  `extract_par`;
* the barrier's counter is never taken back, threads race through its rounds, and
  it is the only thing that orders the plain accesses to `stop` and `workers_array`;
* threads take their numbers from a counter while the pool may already be stopping,
  and one that could not be created is not missed;
* with optional macros, thieves change plain variables of their victims;
* the lock's exchange does not acquire.

What makes each component correct:

* scheduler: every iteration runs exactly once and every thread returns;
* reduction: every chunk is in the result exactly once, in the order of the tree;
* pool: workers outlive their use, each thread runs its own, a loop returns after
  all have ended, a result is read when it is final, the barrier is reset only
  when idle, and calls return;
* barrier: nobody leaves a round before all have arrived, and then all do;
* mutex: exclusion, and no lost update.

## Modules

| module | what it is |
|---|---|
| `Loop` | abstract: a loop body runs once on every iteration, then the loop ends |
| `Worker` | the loop scheduler, one action per access to a shared atomic |
| `MCWorker` | the bounded behaviours and the view of Worker's three-thread runs |
| `WorkerProofs` | theorems about Worker: types, mutual exclusion |
| `WorkerOnce` | theorem: no iteration lost or repeated before an outdated cut |
| `WorkerLoop` | theorems: two threads never make one, and implement `Loop`; with an iteration for each, every thread starts a body before any looks for work |
| `WorkerVariants` | the loop scheduler in the builds with optional macros; extends `Worker` |
| `VariantProofs` | the same theorems about WorkerVariants, over an instance of `WorkerLoop` |
| `Barrier` | abstract: a reusable barrier for a group of threads |
| `AtomicBarrier` | the barrier's counter; implements `Barrier` |
| `MCAtomicBarrier` | bounds the waits for TLC |
| `BarrierProofs` | theorems about AtomicBarrier, its refinement among them |
| `ForkJoin` | abstract: a call hands out the workers, each runs once, the call joins them |
| `ThreadHandler` | the pool and the calls of the main thread, over an instance of `AtomicBarrier`; implements `ForkJoin` |
| `ThreadHandlerProofs` | theorems about ThreadHandler, over an instance of `BarrierProofs` |
| `AtomicMutex` | the lock and the counting threads of `tests/test_locks.cpp` |
| `MutexProofs` | theorems about AtomicMutex |
| `ReductionWorker` | the folding of chunks and the tree reduction |
| `ReductionProofs` | theorems about ReductionWorker |

Operators named `Faulty...` are a definition of the module with a bug put in. No
action uses them; they show, substituted for that definition, that a property can
be violated.

### Worker

`pc[t]` says where thread `t` is in `ForWorker::work`. The labels follow the code
of `extract_seq` (`seq`, `min`, `publish`, `check`, `undo`, `lock`, `take`), the
loop body (`body`) and `extract_par` (`par`, `hide`, `pick`, `range`, `try`,
`load`, `remain`, `verify`, `verify2`, `cut`, `recheck`, `recheck2`, `rollback`,
`won`, `setfirst`), and `end`. Each action makes at most one access to an atomic
that another thread may access at the time, and the local computation up to the
next such access. `SeqTake` merges the accesses the owner makes under its own lock:
nobody else writes them then. `MIN` is a macro, so that `last` is loaded once or
twice (`SeqBound`, `SeqBoundLast`).

All accesses to `first` and `last` have the default (sequentially consistent)
order. `lock` is taken to be sequentially consistent too; what the weaker order of
its exchange can do is the subject of `AtomicMutex`.

A range may end at the maximum of its type. Sums and differences of an unsigned
index wrap (`Plus`, `Minus`): the end of a chunk (line 106) may come out before its
start, and the length of a hidden sub-range is a small number. Those of a signed
index would be undefined when they do not fit, and `SignedFits` assumes they do.

Two variables are not in the code: `done` counts the runs of the body on each
iteration, and `outdated` remembers that a thief cut a sub-range whose `last` was
no longer the value it had read. `recalc_internal` also computes `half_range` and
`min_steal`, which the default build never reads; they are in `WorkerVariants`.

`OnceUnlessOutdated` is the heart of the matter. At every moment, each iteration
has run once and nobody holds it, or has not run and exactly one thread holds it: as
part of the chunk it is about to run, of the sub-range it owns (up to its `last`,
or to what `last` will be again if a cut under way is rolled back), or of a stolen
piece it has not published yet. The invariant is claimed as long as `outdated` is
false. An outdated cut is possible with three threads, and it does break the loop:
see the findings.

`BodiesMeet` is about loops whose bodies wait for each other, as those of
`tests/test_barriers.cpp` do: with an iteration for every thread, as long as no body
has returned, no thread has returned or looks for work. Each runs a body or is about
to.

### WorkerVariants

The optional macros change how the range is divided (`DISTRIB_BY_DEMAND`), how large
a chunk is (`GRAIN_FRACTION`, `GRAIN_LOG`, `GRAIN_SMALLER_LITTLE`,
`EXTRACT_THRESHOLD`, `REDUCE_GRAIN_ON_STEAL`) and how much a thief takes from whom
(`STEAL_HALF`, `STEAL_ONLY_FROM_LITTLE`, `STEAL_THRESHOLD_LITTLE`); two more name a
board and so decide which threads are LITTLE. `build` is the set of macros defined;
it is chosen in `VariantInit` from the constant `Builds` and never changes. Actions
that no macro touches are `Worker`'s own (`Unchanging`); the others are stated for
every build, with the steps the macros add.

`seq_chunk`, `half_range` and `min_steal` are plain variables that owner and thieves
read and write with no common lock. Each such access is an action, in the order of the
program; what is read stays in a register (`chunk`, `steal_size`, `reg`) until it is
used or stored. `MIN` and `MAX` are macros that evaluate the operand they return a
second time, and so the variable is read twice, with any step of another thread in
between:

| line | accesses | actions |
|---|---|---|
| 103 | `last`, then `seq_chunk` in the test of `EXTRACT_THRESHOLD` and again as its result | `LoadLeft`, `TestLeft`, `ReadChunk` |
| 106 | `seq_chunk` in the comparison of `MIN`, and again in its result, where a compiler may also keep the first | `ReadChunk`, `TestBound`, `BoundChunk` |
| 166-168 | `half_range` read, read again and stored halved; the test | `ReadHalf`, `Halve`, `StoreHalf`, `TestHalf` |
| 177 | `min_steal` of the victim | `TestThreshold` |
| 192 | the victim's `seq_chunk` compared by `MAX`, halved, stored; then the unlock | `TestReduce`, `ReadReduce`, `StoreReduced`, `UnlockReduced` |
| 73-88 | `first`; `last`; `seq_chunk` stored, read twice again (line 85) and stored; `half_range`; `min_steal` | `SetFirst`, `LoadSize`, `StoreChunk`, `TestLittle`, `ReadLittle`, `StoreLittle`, `StoreHalfRange`, `StoreMinSteal` |

`recalc_internal` runs after a stolen sub-range has been published: thieves steal from
it meanwhile, down to an empty one, whose logarithm has no defined value (`Logs`), and
halve or test what its owner is about to overwrite.

One of these races stores a chunk of 0: with `REDUCE_GRAIN_ON_STEAL` and a grain that
depends on the sub-range (`GRAIN_LOG`, `GRAIN_FRACTION`, `GRAIN_SMALLER_LITTLE`;
`Shrinks` in the module), a thief compares half of 4 with 1, the owner stores 1, and the
thief halves that. `NoEmptyChunk` says that there is no other way to an empty
chunk. It harms no iteration: an owner with an empty chunk goes to its lock and takes
what is left, and the theorems about the loop hold for any chunk. In four of the ten
builds of `variants2` thieves halve chunks, and in the one with `GRAIN_LOG` the chunk
of 0 comes to pass; `ImplementsLoop` and the liveness property hold there too.

A steal of `half_range` iterations can be longer than what is left of an unsigned
sub-range, and its end then wraps to one beyond the end the thief has read. `Cut`
counts such a cut as outdated too. `NeverOutdated` says that it does not come to pass
with two threads: the verification of line 185 fails then.

Two assumptions are the variants' own. `GrainFits`: the grain is a value of the index
type, as the code casts it to one. `ChunksFit`: four times the longest chunk fits in a
signed index, as `EXTRACT_THRESHOLD` shifts it by two (line 103).

`DISTRIB_BY_ALPHA` and `STEAL_SMALLER_LITTLE` are left out: they name `num_big_cores`
and `alpha`, which no source declares, and do not compile.

### AtomicBarrier and ThreadHandler

`Arrive` is the fetch-and-increment of `wait()`, with the computation of `end`;
`Leave` is the end of the spin loop. `_participants` is written only between rounds
(`RestartsAnIdlePool` checks it of the pool), so reading it with the increment loses
nothing. `group`, `waits` and `wrapped` are history.

`ThreadHandler` has the main thread (0) make up to `MaxCalls` calls between the
constructor and the destructor. Each access to `stop`, `counter`, `workers_array`
and the barrier is an action; `Work` stands for the whole of `Worker::work()`,
whose own model is `Worker`. `overtaken` is history: `stop_threads()` has set
`counter` before every thread had taken its number. A thread that goes through a
null or dangling pointer is in `crash`, and stays there.

`parallel_reduce` differs from `parallel_for` in what the main thread does after the
second wait: it reads the value of worker 0 (`AfterLoop`, `ReadResult`) before it
deletes the workers. `CreateThread` ignores the result of `pthread_create`, as the
code does: where `MayFail`, any thread may be missing (`missing`), and the first
barrier then never opens. A loop may be called in a stopped pool. With several
threads the main thread waits at the barrier for threads that do not exist
(`Deserted`); with one it passes, finds `stop`
set and returns without having run the loop (`_thread_handler.cpp:67-68`), the
exception in the theorem about `ForkJoin`. `EveryCallReturns` excepts only that the main
thread is `Deserted` in a pool of several threads, or that a thread has crashed (which
takes a restart after a stop that overtook a thread, `FindsUnlessOvertaken`): a
`stop_threads()` that runs while threads still take their numbers does return.

### AtomicMutex and ReductionWorker

`lock()` and `try_lock()` exchange with release order, which does not keep later
loads behind the exchange. `Machines` gives the machines considered: `TRUE` is one
whose exchange orders later loads all the same (x86), `FALSE` one where a plain
load of the critical section can be satisfied first (`EarlyLoad`).

A reduction's value is the sequence of the chunks combined into it, and `Reduce` is
concatenation. Every associative reduction is an image of it, so what holds of the
sequence holds of the result whether the reduction commutes or not. `ReducedInOrder`:
when all threads have ended, the result has each chunk of each thread once, by thread and
then in the order in which the thread ran them. (Which iterations a chunk has
depends on the steals: threads with stolen chunks run them out of the order of the
loop, so a reduction must commute all the same.)

`CombinesFinalValues` compares data: when a thread has combined, its value ends with the
one its partner has returned from `work()` with. It is claimed of machines that order the
loads; on the others `EarlyLoad` really makes `Combine` use a value that lacks chunks.
In the run, with one chunk per thread at most, the order of the chunks of one thread
cannot go wrong; the theorem has any number of chunks.

## Runs

| run | module | instance | shows |
|---|---|---|---|
| `loop2` | Worker | 2 threads, 6 iterations, grain 2, signed | `TypeOK`, `ImplementsLoop`, `NeverOutdated`, `EndsUnlessStealsForever` |
| `steal3` | MCWorker | 3 threads, iterations 3..6, grain 2, an unsigned type with maximum 7 | `MutualExclusion`, `OnceUnlessOutdated`, `BodiesMeet` |
| `once3` | MCWorker | 3 threads, 3 iterations, grain 1 | `RunExactlyOnce` is violated |
| `variants2` | WorkerVariants | ten builds, 2 threads, iterations 1..6, grain 2, an unsigned type with maximum 7, alpha 2 | `VariantTypeOK`, `NeverOutdated`, `NoEmptyChunk`, `ImplementsLoop`, `VariantsEndUnlessStealsForever` |
| `barrier3` | MCAtomicBarrier | groups of 1 to 3 of 3 threads, 4 waits each | `NobodyLeavesEarly`, `FreeBetweenRounds`, `OpensForAll`, `ImplementsBarrier`, `EveryoneLeaves` |
| `handler3` | ThreadHandler | 3 threads that may fail to be created, 4 calls of any kind | `WorkersOutliveWork`, `ResultIsFinal`, `FindsUnlessOvertaken`, `RestartsAnIdlePool`, `ImplementsForkJoin`, `EveryCallReturns` |
| `restart2` | ThreadHandler | 2 threads, 3 calls | `FindsItsWorker` is violated |
| `wrap2` | ThreadHandler | 2 threads, 2 loops, `size_t` of 3 bits | `WorkersOutliveWork` is violated |
| `mutex3` | AtomicMutex | 3 threads, 2 tries each, both machines | `MutualExclusion`, `NoLostUpdateIfOrdered`, `EveryCallReturns` |
| `mutex2` | AtomicMutex | 2 threads, 1 try each | `NoLostUpdate` is violated |
| `reduce5` | ReductionWorker | 5 threads, at most 1 chunk each, both machines | `CombinesFinalValues`, `ReducedInOrder`, `EveryThreadEnds` |
| `initial2` | ReductionWorker | 2 threads | `InitialValueOnce` is violated |

Bounds. In `loop2` six iterations and a grain of two make the owners take full
chunks, a last short one and a locked one, and let stolen pieces be stolen again. In
`steal3` three threads are the least with which a thief can find a victim that is
itself a thief of a third; grain 2 against sub-ranges of 1 and 2 takes both
branches of `MIN`. Its loop ends at the maximum of the type, so that sums and
differences wrap. `View` identifies states of Worker that differ only in registers
that will be overwritten before they are read. After an outdated cut the body may run
on an iteration any number of times, so `BoundedSpec` ends a behaviour at its
first outdated cut: nothing is claimed of what follows. In `handler3` four calls allow
loop, stop, start, loop, and `SizeT = 32` is the least power of two with which the
counter cannot wrap (`LongEnough`, below).
Five threads give the tree of `reduce5` three levels with missing branches.
The ten builds of `variants2` have every macro that compiles at least once, and some
several: a division by demand with halved chunks, and also with halved steals, with
`GRAIN_LOG`, or with `GRAIN_FRACTION` and `EXTRACT_THRESHOLD`. In the last the chunk of
the whole loop is 3, four times which wraps to 4, and later chunks are of 1, so that
the test of `EXTRACT_THRESHOLD` goes both ways while there is work left.

Fairness. Every thread keeps being scheduled (weak fairness of its steps): the
threads are pthreads of a preemptive system and each spins rather than blocks.
Nothing is assumed of which spinning thread gets a lock, of what `rand()`
returns, or of calls the program may or may not make. `ReductionWorker` also
assumes that threads run out of work; `Worker` says when they do. A loop is not
certain to end even so: two threads can steal the last iteration from each other
for ever, hence the second disjunct of
`EndsUnlessStealsForever` and of `VariantsEndUnlessStealsForever`.

## Findings

* `once3`: with three or more threads `parallel_for` can skip
  iterations or run them twice. A thief T finds that victim V has work
  (line 159); V empties its sub-range before T has locked it; T reads `last` (line 162);
  V hides its sub-range and, holding only the lock of the thread it steals from,
  publishes a stolen piece in the same `first` and `last`; T then cuts or restores the
  end of the new piece according to the old one.
* `restart2`: `stop_workers()` soon after `start_workers()`, followed by another
  start, gives a thread a number that has no worker.
* `wrap2`: with a 32-bit `size_t` the barrier opens early in the round in which its
  counter wraps.
* `mutex2`: on a machine that does not order loads after the exchange, an update
  made under the lock is lost.
* `initial2`: the initial value of a reduction is combined into the result once per
  thread and per chunk, so it must be neutral; the documentation calls it the
  initial value.

Two comments of `_worker.hpp` describe an older program: the amount extracted is
the grain and not "ALHPA * log2(m)" (line 105), and nothing bounds a steal from
below by "sqrt(m)" (line 134): `min_steal` is read only under
`STEAL_THRESHOLD_LITTLE`. A comment of `test_internal_functions.cpp` (line 30) names
`ADPT_NUM_THREADS`; the variable read is `ADAPT_NUM_THREADS`.

## Proofs

A theorem holds for every value of the constants that satisfies the named
assumptions of its module. Each follows from an inductive invariant: the initial
states satisfy it, every step keeps it, and it implies the property.

`WorkerProofs`, `WorkerOnce`, `WorkerLoop`: any number of threads,
range, grain and index type; indices are natural numbers, a signed type has room for
`Last + Grain`, the grain is not 0. The accesses are as modelled: sequentially
consistent, the lock included.

The lemmas are about `AnyStep(t)`, a step of the protocol with *any* chunk and *any*
size of a steal: an owner may bound its chunk anywhere, a thief aim its cut at any
index. `StepAny` shows that the steps of `Worker` are such steps. What holds of
`AnyStep` owes nothing to how chunks and steals are sized, so it holds of
the optional builds as well; only what depends on sizes is proved apart.

* `TypeCorrect` - `Spec => []TypeOK`, inductive as it stands.
* `Exclusion` - `Spec => []MutualExclusion`, from `LockInv`: a sub-range's lock is
  held by a thread exactly when that thread is in its critical section. (Exclusion
  alone is not inductive: it does not say that the lock of an occupied section is
  taken.)
* `NothingLostOrRepeated` - `Spec => []OnceUnlessOutdated`. The inductive invariant
  is `TypeOK /\ LockInv /\ OnceInv /\ CutsInv`, where `OnceInv` adds `Good`, in three
  parts, as long as no cut was outdated. `RangeInv`: shared indices are in
  `0 .. IndexMax`. `OwnerInv(v)`: in `extract_seq` the owner's copies describe
  `[copy_first, EffectiveLast)`, a part of the loop; outside it `first` hides the
  sub-range. `SessionInv(t, v)`: what thief t has computed under v's lock. Its core is
  that a thief that passes both verifications has a victim in `extract_seq`, where the
  held lock keeps it until the cut is decided. `CutsInv` is what remains of the size of
  a steal: a cut is not beyond the end read, or is beyond every sub-range and fails
  the verification, as that of a length that wraps does (`CutPoint`). Then each step
  either moves no end of a sub-range (`StepEffective`), or moves iterations from the
  victim to the thief that finds its cut standing (`HoldsRecheck`), or turns
  those of a chunk from held to run (`HoldsBody`). `Partition` shows that the
  constructor's division covers every iteration exactly once.
* `ChunkEndsFit` - the end of the chunk an owner is about to compute fits in a
  signed index, until a cut was outdated: `SignedFits` is all that is needed for
  the sums of `extract_seq` not to overflow.
* `TwoThreadsNeverOutdated` - with at most two threads, `Spec => []NeverOutdated`,
  from `PairInv`, which has `~outdated`, `VictimInv` and `StaleInv`. While a thief is
  at a victim, the victim is `Calm`: it has its sub-range, is emptying it, or looks
  for work, and as the thief is the only other thread and has none, it finds none.
  So what the thief has read is right or the victim has hidden its sub-range. A third
  thread gives the victim something to find: this is where the argument, and the
  code, breaks.
* `TwoThreadsImplementLoop` - with at most two threads, `Spec => ImplementsLoop`:
  `Body` is `Run`, the last `ParReturn` is `Finish`, any other step stutters.
* `FirstBodiesMeet` - `Spec => []BodiesMeet`, from `MeetInv`: while nothing has run,
  every thread is `Ready`, with the sub-range the constructor gave it and a first
  chunk that is not empty, whatever chunk a sum that wraps leads to.

`VariantProofs`: any set of builds and any alpha as well. `W` is the instance of
`WorkerLoop`, and so of `Worker` and its lemmas, in which a thread at one of the labels
the macros add is where `Worker` has it (`BaseLabel`); every step of a build is an
`AnyStep` of it or changes nothing there.

* `VariantsExclude`, `VariantsLoseNothing` - `Exclusion` and `NothingLostOrRepeated` in
  every build. `TuneInv` is what the first needs (the new variables have values that
  the steps can compute with; a thief halves a chunk only after a steal that stands),
  `HalfInv`, `RegsInv`, `ChunkInv` and `RecalcsInv` what the second does: what is in a
  register and what it may be stored to are indices, and a thread that is to compute
  its tuning has a sub-range inside the loop. The reads, tests and stores of plain
  variables change nothing that `Worker` has: they are stutters of `W`.
* `VariantTypeCorrect` (`VariantTypeOK`), whatever races on the tuning; and
  `SizesAreIndices`: until a cut was outdated, `half_range` and what thieves read of it
  are indices. After one a signed length may be negative, and `half_range` with it.
* `ChunksNotEmpty` (`NoEmptyChunk`) - outdated cuts or not. A thief's second read of
  line 192 halves a chunk it has found to be 4 or more. The chunk stays so until then
  (`FullInv`): no other thief is in the victim's critical section, and where `Shrinks` is
  false the owner stores nothing but the grain, which is as large as any chunk
  (`MaxInv`).
* `TwoThreadVariantsNeverOutdated`, `TwoThreadVariantsImplementLoop` - two threads
  implement the loop in every build.
* `OneVictimImplementsLoop` - so do three threads when all but one are passed over
  as victims, as `STEAL_ONLY_FROM_LITTLE` does on the Jetson TX2 (`LittleInv`): the one
  victim has nobody to steal from and stays `Calm`.
* `VariantsMeet` - `BodiesMeet` in the builds that divide the loop equally. With
  `DISTRIB_BY_DEMAND` the first thread has all of it, and the others must steal first.
* `NothingOverflows` - no sum or product of `extract_seq` overflows a signed index
  until a cut was outdated, from `ChunkInv`: a chunk is never longer than the grain
  or the loop.

`MutexProofs`: any number of threads and tries.

* `MutexTypes`, `Exclusion` - `Spec => []MutualExclusion`, on both kinds of machine,
  from `FlagInv`: the flag is set while a thread is inside.
* `NothingLost` - `Spec => []NoLostUpdateIfOrdered`, from `CountInv`: how far the
  thread inside has got with `count++`, where loads are ordered.

`BarrierProofs`: any finite set of threads, groups and width of the counter; all but
the first until the end of a round does not fit the counter.

* `BarrierTypes`, `WaitsForAll` (`NobodyLeavesEarly`), `TellsRounds`
  (`FreeBetweenRounds`), `IsABarrier` (`ImplementsBarrier`). The invariant is
  `InRound(B)` for some `B`: some threads of the group have begun `B + 1` waits, as
  many as the counter has arrivals of the current round, and wait for its end; all
  others have begun `B`, and those of them that still spin wait for an end the
  counter has already passed.
* `OpensWhenAllArrive` - `Spec => []OpensForAll`: a thread can leave exactly when no
  other has begun fewer waits. This is the part of `EveryoneLeaves` that is not
  fairness; the pool's freedom from deadlock rests on it.

`ReductionProofs`: up to `ADPT_MAX_THREADS` threads, any number of chunks.

* `ReductionTypes`; `OnlyFinalValues` (`CombinesFinalValues`) from `LockInv`, on any
  machine (a `red_lock` is held until its thread ends, and who waits for one is
  combining), and `FinalInv`, where loads are ordered (no value has been loaded ahead
  of the lock, and one just combined is still its thread's value).
* `EveryChunkInOrder` (`ReducedInOrder`) from `TreeInv` and `ValueInv`: a thread's
  value has exactly the chunks of the threads its subtree covers so far, in order,
  and those threads have ended; concatenation with the neighbouring subtree keeps
  the order (`ConcatWithin` and the lemmas after it).
* `NoCircularWait` - until all have returned some thread can take its next step
  (`Progress`). By `HeldInv` the lock of a thread that has ended is held only by one
  that is combining its value, and every thread waits for a higher one: so the
  highest that has not ended moves, or the one that keeps it waiting does.

`ThreadHandlerProofs`: any number of threads, calls and failures to create a thread.
All but `HandlerTypes` and `IdleRestart` hold until the barrier's counter wraps, and
`NeverWraps` says when it does not.

* The invariant is `TypeOK`, the invariant of `BarrierProofs` for the pool's
  threads, and `LabelInv` (who is where; the threads of a stopped pool are gone),
  `ParityInv` (between the two waits of a loop a thread has finished an odd number of
  waits, elsewhere an even one), `WorkersInv` (from when to when the workers
  live), `NumberInv` (numbers are distinct, and as many as have been taken) and
  `LoopInv` (who has run a worker in this loop, counted from the waits the main
  thread had finished when it began).
* `HandlerTypes`, `WorkersLive` (`WorkersOutliveWork`), `FindsWorker`
  (`FindsUnlessOvertaken`), `IdleRestart` (`RestartsAnIdlePool`). Parity is
  what separates the phases: no thread can be running a worker when the main thread has
  finished an even number of waits.
* `FinalResult` (`ResultIsFinal`): past the second wait all threads have run a
  worker, each its own, hence, by counting, every worker has run once.
* `IsForkJoin`: if `NumThreads > 1`, `Spec /\ []~wrapped => ImplementsForkJoin`. A
  stopped pool of one thread returns from a loop without running it; one of several
  never returns from it.
* `NobodyStuck` - `Spec => [](~wrapped => Progress)`: some thread can take its next
  step, or the program has ended, a thread has crashed, or the main thread is
  `Deserted`. `CanMove` collects what the actions wait for: the end of a round, and
  the end of a thread that is joined. The thread that has begun the fewest waits
  always passes the barrier (`LastMoves`), so if nothing moves it is one that has ended
  or does not exist. `MoveInv` tells when there is such a thread: threads end only in
  a stopped pool (`ExitInv`), where one still spinning in the second wait of the last
  loop finds it over (`DrainInv`); and a running pool has all threads unless a creation
  failed (`MadeInv`). While threads are joined, parity tells those that have ended from
  those that have not (`JoinInv`).
* `NeverWraps` - `wrapped` stays false if `NumThreads * 2 * (MaxCalls + 1) < SizeT`
  (`LongEnough`): by `BudgetInv` the main thread begins at most two waits for each
  call since the pool was started and one for the destructor, and by `RoundsInv`
  the round that is open starts at `NumThreads` times the waits before it. With a
  `size_t` of 64 bits no program makes as many calls; with 32 bits and eight threads it
  takes 268 million.
* `SafePool`, `JoinsEveryLoop` - the theorems before it, for such programs and without
  a condition on the counter.

Only model-checked: liveness (`EndsUnlessStealsForever`,
`VariantsEndUnlessStealsForever`, `EveryoneLeaves`, `EveryCallReturns`,
`EveryThreadEnds`), as temporal reasoning about fairness and `ENABLED` is out of the
prover's reach. What is proved in that direction is that nothing deadlocks
(`OpensWhenAllArrive`, `NoCircularWait`, `NobodyStuck`), with the guards of the actions
spelled out in place of `ENABLED`. Induction over data is out of reach as well, and no
backend takes `RECURSIVE` operators; the modules have none, and a root or a logarithm
is a cardinality.

## Not modelled

* `get_from_env` and `pin_thread`, which read the environment and call the operating
  system; their results are constants. `c_parallel_for` only forwards to
  `parallel_for` with an unsigned index of type `size_t` and has no state.
* Signed overflow, and ranges with negative indices: an `int` loop from below 0 would
  make the initial `0` of an empty sub-range (`DISTRIB_BY_DEMAND`) and the comparisons
  with a hidden one behave differently.
* More than `ADPT_MAX_THREADS` threads, which overflow the pool's arrays; loops
  called from inside a loop body or from a thread other than the one that made the
  pool; exceptions from the loop body, after which nobody reaches the second wait.
* `Worker` over a lock that does not order loads. What an early load can do is
  shown where it is smallest, in `AtomicMutex` and `ReductionWorker`.
* `DISTRIB_BY_ALPHA` and `STEAL_SMALLER_LITTLE`, which do not compile.
* `include/Catch2/catch.hpp`, a vendored test framework and 17618 of the repository's
  18579 lines, and the examples, which are benchmarks. The models map about half of the
  lines that remain; nothing else in them keeps state.

## Plan

1. `Worker`, `AtomicBarrier`, `ThreadHandler`, `AtomicMutex`, `ReductionWorker`
   and their runs (done); type correctness and exclusion in `Worker` (done).
2. Proofs that every iteration is run at most once and none is lost unless a cut
   was outdated, for any number of threads; that two threads never make an outdated
   cut and implement the loop (done).
3. Theorems about the barrier, the pool, the mutex and the reduction for any number of
   threads, their freedom from deadlock among them (done).
4. The scheduler's optional macros, the limits of the index type, loops in a stopped
   pool, threads that cannot be created, reductions that do not commute (done).
5. Theorems about the optional builds, by way of steps with any chunk and any
   steal (done).
6. Left: `Worker` over a lock that does not order loads; negative indices; which other
   loops of three threads are safe.
