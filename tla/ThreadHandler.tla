---------------------------- MODULE ThreadHandler ----------------------------
(***************************************************************************)
(* class ThreadHandler: the pool of threads, and the calls the program's   *)
(* main thread makes to it.  Thread 0 is the main thread, `master`.  The   *)
(* other threads take the number of their worker from `counter`, wait at   *)
(* the barrier for the next loop to create the workers, run theirs and     *)
(* wait again for the workers to be deleted.                               *)
(*                                                                         *)
(* `stop` and `workers_array` are not atomic: an action reads or writes    *)
(* one of them, so that every order the barrier allows is explored.        *)
(***************************************************************************)
EXTENDS Integers, FiniteSets

CONSTANTS
  NumThreads,   \* ThreadHandler::num_threads
  Calls,        \* what the program calls: loops, "start", "stop"
  MaxCalls,     \* a bound on how many calls it makes
  MayFail,      \* whether pthread_create() may fail
  SizeT         \* the number of values of size_t

Loops == {"parallel_for", "parallel_reduce"}

ASSUME NumThreadsAssumption == NumThreads \in Nat \ {0}
ASSUME CallsAssumption == Calls \subseteq Loops \cup {"start", "stop"} /\ MaxCalls \in Nat
ASSUME MayFailAssumption == MayFail \in BOOLEAN
ASSUME SizeTAssumption == SizeT \in Nat /\ NumThreads < SizeT

Threads == 0 .. NumThreads - 1
Ids     == Threads
Master  == 0
Others  == Threads \ {Master}

VARIABLES
  pc,             \* where each thread is
  call,           \* the call the master is in, or was in last
  calls,          \* how many it has made
  i,              \* the index of the master's for loops
  stop,           \* ThreadHandler::stop
  counter,        \* ThreadHandler::counter, the next thread's number
  my_id,          \* each thread's number
  workers_array,  \* "null", "live" or "deleted", for each worker
  ran,            \* history: how often work() has returned in each worker
                  \* of the current loop
  overtaken,      \* history: stop_threads() set `counter` before every
                  \* thread had taken its number from it
  missing,        \* history: a thread of the pool could not be created
  _counter, _participants, end, waiting, group, waits, wrapped

Barrier == INSTANCE AtomicBarrier WITH Procs <- Threads

barrier == << _counter, _participants, end, waiting, group, waits, wrapped >>
pool    == << stop, counter, my_id >>
program == << call, calls, i >>
loop    == << workers_array, ran >>
ghosts  == << overtaken, missing >>
vars    == << pc, call, calls, i, stop, counter, my_id, workers_array, ran, overtaken,
              missing, _counter, _participants, end, waiting, group, waits, wrapped >>

Goto(t, from, to) == pc[t] = from /\ pc' = [pc EXCEPT ![t] = to]

\* The object is a global: its constructor runs before main, and calls
\* start_threads().  AtomicBarrier() makes a barrier of one participant.
Init ==
  /\ pc = [t \in Threads |-> IF t = Master THEN "start" ELSE "none"]
  /\ call = "start" /\ calls = 0 /\ i = 0
  /\ stop = TRUE /\ counter = 1
  /\ my_id = [t \in Threads |-> 0]
  /\ workers_array = [w \in Ids |-> "null"]
  /\ ran = [w \in Ids |-> 0]
  /\ overtaken = FALSE /\ missing = FALSE
  /\ _counter = 0 /\ _participants = 1
  /\ end = [t \in Threads |-> 0]
  /\ waiting = [t \in Threads |-> FALSE]
  /\ group = {Master} /\ waits = [t \in Threads |-> 0] /\ wrapped = FALSE

-----------------------------------------------------------------------------
(* The program.  Its last call is the destructor, which stops the threads. *)

Call(c) ==
  /\ Goto(Master, "main", c)
  /\ calls < MaxCalls
  /\ call' = c /\ calls' = calls + 1 /\ i' = 0
  /\ ran' = IF c \in Loops THEN [w \in Ids |-> 0] ELSE ran
  /\ UNCHANGED << pool, workers_array, ghosts, barrier >>

Exit ==
  /\ Goto(Master, "main", "stop")
  /\ call' = "exit" /\ i' = 0
  /\ UNCHANGED << calls, pool, loop, ghosts, barrier >>

AfterCall == IF call = "exit" THEN "exit" ELSE "main"
Return    == pc' = [pc EXCEPT ![Master] = AfterCall]

-----------------------------------------------------------------------------
(* start_threads *)

Start ==
  /\ pc[Master] = "start"
  /\ IF stop
       THEN /\ pc' = [pc EXCEPT ![Master] = "create"]
            /\ stop' = FALSE /\ i' = 1
            /\ Barrier!SetParticipants(Threads)
       ELSE Return /\ UNCHANGED << stop, i, barrier >>
  /\ UNCHANGED << call, calls, counter, my_id, loop, ghosts >>

\* The loop over the threads runs once too often.
FaultyCreate ==
  /\ pc[Master] = "create"
  /\ IF i <= NumThreads
       THEN pc' = [pc EXCEPT ![i] = "spawn"] /\ i' = i + 1 /\ UNCHANGED my_id
       ELSE Return /\ my_id' = [my_id EXCEPT ![Master] = 0] /\ UNCHANGED i
  /\ UNCHANGED << call, calls, stop, counter, loop, ghosts, barrier >>

\* A thread that pthread_create() fails to create is not missed: its result is
\* ignored.  The master's own spawn_worker() makes it number 0.
CreateThread ==
  /\ pc[Master] = "create"
  /\ IF i < NumThreads
       THEN /\ i' = i + 1 /\ UNCHANGED my_id
            /\ \/ pc' = [pc EXCEPT ![i] = "spawn"] /\ UNCHANGED missing
               \/ MayFail /\ missing' = TRUE /\ UNCHANGED pc
       ELSE Return /\ my_id' = [my_id EXCEPT ![Master] = 0] /\ UNCHANGED << i, missing >>
  /\ UNCHANGED << call, calls, stop, counter, loop, overtaken, barrier >>

\* The increment is not a single atomic step: a number can be given twice.
FaultySpawn(t) ==
  /\ t \in Others
  /\ \/ /\ Goto(t, "spawn", "number")
        /\ my_id' = [my_id EXCEPT ![t] = counter]
        /\ UNCHANGED counter
     \/ /\ Goto(t, "number", "arrive")
        /\ counter' = my_id[t] + 1
        /\ UNCHANGED my_id
  /\ UNCHANGED << program, stop, loop, ghosts, barrier >>

\* A thread that starts only when the pool has been stopped ends at once.
FaultyLateSpawn(t) ==
  /\ t \in Others
  /\ Goto(t, "spawn", IF stop THEN "exit" ELSE "arrive")
  /\ my_id'   = [my_id EXCEPT ![t] = counter]
  /\ counter' = counter + 1
  /\ UNCHANGED << program, stop, loop, ghosts, barrier >>

\* A created thread takes its number and starts ThreadHandler::work().
SpawnWorker(t) ==
  /\ t \in Others
  /\ Goto(t, "spawn", "arrive")
  /\ my_id'   = [my_id EXCEPT ![t] = counter]
  /\ counter' = counter + 1
  /\ UNCHANGED << program, stop, loop, ghosts, barrier >>

-----------------------------------------------------------------------------
(* parallel_for and parallel_reduce *)

CreateWorker ==
  /\ pc[Master] \in Loops
  /\ IF i < NumThreads
       THEN /\ workers_array' = [workers_array EXCEPT ![i] = "live"]
            /\ i' = i + 1 /\ UNCHANGED pc
       ELSE pc' = [pc EXCEPT ![Master] = "arrive"] /\ UNCHANGED << i, workers_array >>
  /\ UNCHANGED << call, calls, pool, ran, ghosts, barrier >>

\* What the master does when all threads have run: parallel_reduce reads the
\* value that the threads have combined into worker 0.
AfterLoop == IF call = "parallel_reduce" THEN "result" ELSE "delete"

ReadResult ==
  /\ Goto(Master, "result", "delete")
  /\ UNCHANGED << program, pool, loop, ghosts, barrier >>

DeleteWorker ==
  /\ pc[Master] = "delete"
  /\ IF i < NumThreads
       THEN /\ workers_array' = [workers_array EXCEPT ![i] = "deleted"]
            /\ i' = i + 1 /\ UNCHANGED pc
       ELSE Return /\ UNCHANGED << i, workers_array >>
  /\ UNCHANGED << call, calls, pool, ran, ghosts, barrier >>

-----------------------------------------------------------------------------
(* work(my_id), of every thread; the second wait of the master is the one  *)
(* in parallel_for or parallel_reduce.                                     *)

FirstArrive(t) ==
  /\ Goto(t, "arrive", "wait")
  /\ Barrier!Arrive(t)
  /\ UNCHANGED << program, pool, loop, ghosts >>

FirstLeave(t) ==
  /\ Goto(t, "wait", "check")
  /\ Barrier!Leave(t)
  /\ UNCHANGED << program, pool, loop, ghosts >>

\* A stopped pool ends the thread.
CheckStop(t) ==
  /\ pc[t] = "check"
  /\ pc' = [pc EXCEPT ![t] = IF ~stop THEN "fetch"
                             ELSE IF t = Master THEN "arrive2" ELSE "exit"]
  /\ UNCHANGED << program, pool, loop, ghosts, barrier >>

\* workers_array has ADPT_MAX_THREADS entries; those that were never set are
\* null, and calling work() through one crashes.
FetchWorker(t) ==
  /\ pc[t] = "fetch"
  /\ pc' = [pc EXCEPT ![t] =
       IF my_id[t] \in Ids /\ workers_array[my_id[t]] = "live" THEN "work" ELSE "crash"]
  /\ UNCHANGED << program, pool, loop, ghosts, barrier >>

\* m_worker.work() returns.
Work(t) ==
  /\ Goto(t, "work", "arrive2")
  /\ ran' = [ran EXCEPT ![my_id[t]] = @ + 1]
  /\ UNCHANGED << program, pool, workers_array, ghosts, barrier >>

\* The master does not wait for the other threads.
FaultySecondArrive(t) ==
  /\ Goto(t, "arrive2", IF t = Master THEN AfterLoop ELSE "wait2")
  /\ IF t = Master THEN i' = 0 /\ UNCHANGED barrier ELSE UNCHANGED i /\ Barrier!Arrive(t)
  /\ UNCHANGED << call, calls, pool, loop, ghosts >>

SecondArrive(t) ==
  /\ Goto(t, "arrive2", "wait2")
  /\ Barrier!Arrive(t)
  /\ UNCHANGED << program, pool, loop, ghosts >>

SecondLeave(t) ==
  /\ Goto(t, "wait2", IF t = Master THEN AfterLoop ELSE "arrive")
  /\ i' = IF t = Master THEN 0 ELSE i
  /\ Barrier!Leave(t)
  /\ UNCHANGED << call, calls, pool, loop, ghosts >>

-----------------------------------------------------------------------------
(* stop_threads *)

Stop ==
  /\ pc[Master] = "stop"
  /\ IF stop
       THEN Return /\ UNCHANGED stop
       ELSE pc' = [pc EXCEPT ![Master] = "recount"] /\ stop' = TRUE
  /\ UNCHANGED << program, counter, my_id, loop, ghosts, barrier >>

Recount ==
  /\ Goto(Master, "recount", "free")
  /\ counter' = 1
  /\ overtaken' = (overtaken \/ \E t \in Others : pc[t] = "spawn")
  /\ UNCHANGED << program, stop, my_id, loop, missing, barrier >>

FreeBarrier ==
  /\ Goto(Master, "free", "freed")
  /\ Barrier!Arrive(Master)
  /\ UNCHANGED << program, pool, loop, ghosts >>

LeaveFreed ==
  /\ Goto(Master, "freed", "join")
  /\ i' = 1
  /\ Barrier!Leave(Master)
  /\ UNCHANGED << call, calls, pool, loop, ghosts >>

\* The threads are not joined.
FaultyJoin ==
  /\ pc[Master] = "join"
  /\ Return
  /\ UNCHANGED << program, pool, loop, ghosts, barrier >>

JoinThread ==
  /\ pc[Master] = "join"
  /\ IF i < NumThreads
       THEN pc[i] = "exit" /\ pc' = [pc EXCEPT ![i] = "none"] /\ i' = i + 1
       ELSE Return /\ UNCHANGED i
  /\ UNCHANGED << call, calls, pool, loop, ghosts, barrier >>

-----------------------------------------------------------------------------
MasterStep ==
  \/ Start \/ CreateThread \/ CreateWorker \/ ReadResult \/ DeleteWorker
  \/ Stop \/ Recount \/ FreeBarrier \/ LeaveFreed \/ JoinThread

ThreadStep(t) ==
  \/ SpawnWorker(t) \/ FirstArrive(t) \/ FirstLeave(t) \/ CheckStop(t)
  \/ FetchWorker(t) \/ Work(t) \/ SecondArrive(t) \/ SecondLeave(t)

\* The master waits at the barrier for threads that do not exist.
Deserted == pc[Master] \in {"wait", "freed"} /\ (missing \/ (stop /\ call \in Loops))

Terminated ==
  /\ pc[Master] = "exit" \/ Deserted \/ \E t \in Threads : pc[t] = "crash"
  /\ UNCHANGED vars

Next ==
  \/ (\E c \in Calls : Call(c)) \/ Exit \/ MasterStep
  \/ \E t \in Threads : ThreadStep(t)
  \/ Terminated

Spec == Init /\ [][Next]_vars

\* Every thread keeps being scheduled, and every loop body ends.
FairSpec ==
  Spec /\ WF_vars(MasterStep) /\ \A t \in Threads : WF_vars(ThreadStep(t))

-----------------------------------------------------------------------------
(* Properties *)

TypeOK ==
  /\ pc \in [Threads -> {"none", "main", "start", "create", "stop",
                         "recount", "free", "freed", "join", "result", "delete", "spawn",
                         "arrive", "wait", "check", "fetch", "work", "arrive2", "wait2",
                         "exit", "crash"} \cup Loops]
  /\ call \in {"start", "stop", "exit"} \cup Loops
  /\ calls \in 0 .. MaxCalls /\ i \in 0 .. NumThreads
  /\ stop \in BOOLEAN /\ counter \in Nat /\ my_id \in [Threads -> Nat]
  /\ workers_array \in [Ids -> {"null", "live", "deleted"}]
  /\ ran \in [Ids -> Nat] /\ overtaken \in BOOLEAN /\ missing \in BOOLEAN
  /\ Barrier!TypeOK

(***************************************************************************)
(* While a thread runs its worker - and may steal from any other - no      *)
(* worker has been deleted, or is still to be created.                     *)
(***************************************************************************)
WorkersOutliveWork ==
  (\E t \in Threads : pc[t] = "work") => \A w \in Ids : workers_array[w] = "live"

(***************************************************************************)
(* parallel_reduce reads the result from a worker that still exists, when  *)
(* no thread of the pool has yet to run its worker, or to combine values.  *)
(***************************************************************************)
ResultIsFinal ==
  pc[Master] = "result" =>
    /\ workers_array[Master] = "live" /\ (stop \/ \A w \in Ids : ran[w] = 1)
    /\ \A t \in Threads : pc[t] \notin {"check", "fetch", "work"}

(***************************************************************************)
(* A thread that has passed the barrier at the top of work() finds its own *)
(* worker, which no other thread has.                                      *)
(***************************************************************************)
FindsItsWorker ==
  \A t \in Threads : pc[t] \in {"fetch", "work", "crash"} =>
    /\ pc[t] # "crash" /\ my_id[t] \in Ids
    /\ \A u \in Threads : pc[u] = pc[t] /\ my_id[u] = my_id[t] => u = t

\* It does unless stop_threads() set `counter` too early in an earlier pool.
FindsUnlessOvertaken == ~overtaken => FindsItsWorker

(***************************************************************************)
(* start_threads() sets the barrier's counter to 0 only when no thread of  *)
(* the previous pool is left that could still compare it with its end.     *)
(***************************************************************************)
RestartsAnIdlePool ==
  pc[Master] \in {"start", "main"} /\ stop =>
    \A t \in Threads : ~waiting[t] /\ (t \in Others => pc[t] = "none")

(***************************************************************************)
(* A loop returns only when each worker has run exactly once.  Not one of  *)
(* a stopped pool of a single thread, which returns without running.       *)
(***************************************************************************)
Promise == INSTANCE ForkJoin WITH
  calling <- call \in Loops /\ pc[Master] # "main"
ImplementsForkJoin == Promise!Spec

(***************************************************************************)
(* Every call returns and the program ends: the barrier is passed by all   *)
(* of the pool in every round, all threads learn of a stop in the same     *)
(* one, and stop_threads() returns although threads still take their       *)
(* numbers while it runs.  The main thread can wait for ever only when a   *)
(* thread has crashed, or at a barrier for threads that could not be       *)
(* created or, in a loop of a pool that is stopped, have ended.            *)
(***************************************************************************)
EveryCallReturns ==
  pc[Master] # "main" ~>
    \/ pc[Master] \in {"main", "exit"}
    \/ NumThreads > 1 /\ Deserted
    \/ \E t \in Threads : pc[t] = "crash"
=============================================================================
