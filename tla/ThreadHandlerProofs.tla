------------------------- MODULE ThreadHandlerProofs -------------------------
(***************************************************************************)
(* Proofs about ThreadHandler, for any number of threads, any calls and    *)
(* any failure to create a thread.  What AtomicBarrier does is known from  *)
(* BarrierProofs, of which Pool is the instance for the pool's threads.    *)
(***************************************************************************)
EXTENDS ThreadHandler, FiniteSetTheorems, TLAPS

Pool == INSTANCE BarrierProofs WITH Procs <- Threads

MasterLabels == Loops \cup
  {"main", "start", "create", "stop", "recount", "free", "freed", "join", "result", "delete",
   "arrive", "wait", "check", "fetch", "work", "arrive2", "wait2", "exit", "crash"}
OtherLabels ==
  {"none", "spawn", "arrive", "wait", "check", "fetch", "work", "arrive2", "wait2", "exit",
   "crash"}

\* The pool is stopped, and its threads are joined.
Settled == stop /\ pc[Master] \notin {"recount", "free", "freed", "join"}

(***************************************************************************)
(* Who is where.  A thread is inside the barrier exactly at the labels of  *)
(* a wait; the threads of a stopped pool are gone.                         *)
(***************************************************************************)
LabelInv ==
  /\ pc[Master] \in MasterLabels /\ \A t \in Others : pc[t] \in OtherLabels
  /\ \A t \in Threads : waiting[t] <=> pc[t] \in {"wait", "wait2", "freed"}
  /\ pc[Master] \in {"recount", "free", "freed", "join"} => stop
  /\ pc[Master] = "create" => ~stop /\ i >= 1 /\ \A t \in Others : t >= i => pc[t] = "none"
  /\ pc[Master] = "join" => i >= 1 /\ \A t \in Others : t < i => pc[t] = "none"
  /\ Settled => \A t \in Others : pc[t] = "none"
  /\ group = Threads \/ (group = {Master} /\ stop /\ pc[Master] = "start")

(***************************************************************************)
(* A loop is two waits of every thread, and so is a pass through work():   *)
(* between them a thread has finished an odd number of waits.              *)
(***************************************************************************)
HalfWay(t) ==
  \/ pc[t] \in {"check", "fetch", "work", "arrive2", "wait2", "crash", "join"}
  \/ t # Master /\ pc[t] = "exit"

ParityInv ==
  ~Settled => \A t \in Threads :
    /\ HalfWay(t) => waits[t] % 2 = 1
    /\ ~HalfWay(t) /\ pc[t] # "none" => waits[t] % 2 = 0
    /\ pc[t] = "none" => pc[Master] = "join" \/ waits[t] = 0
    /\ pc[t] = "spawn" => waits[t] = 0
    /\ pc[t] \in {"result", "delete"} => waits[t] >= 2

\* The workers of a loop live from before its first wait to after its second.
WorkersInv ==
  /\ pc[Master] \in {"arrive", "wait", "check", "fetch", "work", "arrive2", "wait2", "result",
                     "crash"} => \A w \in Ids : workers_array[w] = "live"
  /\ pc[Master] \in Loops => \A w \in Ids : w < i => workers_array[w] = "live"

(***************************************************************************)
(* The numbers of a pool's threads are distinct and below `counter`; they  *)
(* are 1, 2, ... unless stop_threads() set the counter too early.          *)
(***************************************************************************)
Numbered == {t \in Others : pc[t] \notin {"none", "spawn"}}

NumberInv ==
  /\ my_id[Master] = 0 /\ counter >= 1
  /\ ~stop => \A t \in Numbered :
       /\ 1 <= my_id[t] /\ my_id[t] < counter
       /\ \A u \in Numbered : my_id[u] = my_id[t] => u = t
  /\ ~stop /\ ~overtaken => counter = 1 + Cardinality(Numbered)
  /\ stop /\ ~overtaken /\ pc[Master] # "recount" =>
       counter = 1 /\ \A t \in Others : pc[t] # "spawn"

(***************************************************************************)
(* Base is the number of waits the master had finished when it began the   *)
(* loop it is in; every thread had then, and those that have run their     *)
(* worker are further.                                                     *)
(***************************************************************************)
LoopLabels == Loops \cup
  {"arrive", "wait", "check", "fetch", "work", "arrive2", "wait2", "result", "delete"}

Base ==
  CASE pc[Master] \in Loops \cup {"arrive", "wait"} -> waits[Master]
    [] pc[Master] \in {"check", "fetch", "work", "arrive2", "wait2"} -> waits[Master] - 1
    [] OTHER -> waits[Master] - 2

HasRun(t) ==
  \/ waits[t] = Base + 1 /\ pc[t] \in {"arrive2", "wait2"}
  \/ waits[t] > Base + 1

RanInv ==
  ~stop /\ pc[Master] \in LoopLabels => \A w \in Ids :
    ran[w] = IF \E t \in Threads : HasRun(t) /\ my_id[t] = w THEN 1 ELSE 0

\* What the barrier's rounds give, until the end of one does not fit in size_t.
LoopInv ==
  /\ stop => \A t \in Threads : pc[t] \notin {"fetch", "work"}
  /\ ~overtaken => \A t \in Threads : pc[t] # "crash"
  /\ \A t \in Threads : pc[t] = "work" => my_id[t] \in Ids
  /\ ~stop /\ pc[Master] \in LoopLabels => \A t \in Threads : HasRun(t) => my_id[t] \in Ids
  /\ RanInv

IInv ==
  /\ TypeOK /\ Pool!IInv /\ LabelInv /\ ParityInv /\ WorkersInv /\ NumberInv
  /\ ~wrapped => LoopInv

-----------------------------------------------------------------------------
(* The barrier's steps. *)

LEMMA ThreadsFinite ==
  /\ IsFiniteSet(Threads) /\ Cardinality(Threads) = NumThreads
  /\ Master \in Threads /\ Others \subseteq Threads
  <1>1. IsFiniteSet(Threads) /\ Cardinality(Threads) = NumThreads
    BY NumThreadsAssumption, FS_Interval DEF Threads
  <1>. QED
    BY <1>1, NumThreadsAssumption DEF Threads, Master, Others

LEMMA PoolSets ==
  ASSUME NEW S
  PROVE  /\ Pool!IsFiniteSet(S) <=> IsFiniteSet(S)
         /\ Pool!Cardinality(S) = Cardinality(S)
         /\ Barrier!Cardinality(S) = Cardinality(S)
  <1>1. Pool!IsFiniteSet(S) <=> IsFiniteSet(S)
    BY DEF Pool!IsFiniteSet, IsFiniteSet
  <1>2. Pool!Cardinality(S) = Cardinality(S)
    BY DEF Pool!Cardinality, Cardinality
  <1>3. Barrier!Cardinality(S) = Cardinality(S)
    BY DEF Barrier!Cardinality, Cardinality
  <1>. QED
    BY <1>1, <1>2, <1>3

LEMMA PoolAssumptions ==
  /\ Pool!IsFiniteSet(Threads) /\ Threads # {}
  /\ SizeT \in Nat /\ Pool!Cardinality(Threads) < SizeT
  <1>1. Pool!IsFiniteSet(Threads) /\ Pool!Cardinality(Threads) = NumThreads
    BY ThreadsFinite, PoolSets
  <1>2. Threads # {}
    BY ThreadsFinite
  <1>. QED
    BY <1>1, <1>2, SizeTAssumption

\* What the barrier's own proofs give: a step of it keeps its invariant.
LEMMA PoolStep ==
  ASSUME Pool!IInv, Pool!Next \/ UNCHANGED barrier
  PROVE  Pool!IInv'
  BY PoolAssumptions, Pool!NextBarrier DEF barrier, Pool!barrier

LEMMA PoolTypes ==
  ASSUME Pool!IInv
  PROVE  Barrier!TypeOK
  BY PoolSets DEF Pool!IInv, Pool!TypeOK, Barrier!TypeOK

LEMMA PoolArrives ==
  ASSUME Pool!IInv, NEW t \in group, Barrier!Arrive(t)
  PROVE  Pool!IInv'
  BY PoolStep DEF Pool!Next, Barrier!Arrive, Pool!Arrive, Barrier!RoundEnd, Pool!RoundEnd

LEMMA PoolLeaves ==
  ASSUME Pool!IInv, NEW t \in group, Barrier!Leave(t)
  PROVE  Pool!IInv'
  BY PoolStep DEF Pool!Next, Barrier!Leave, Pool!Leave

LEMMA PoolStarts ==
  ASSUME Pool!IInv, \A t \in Threads : ~waiting[t], Barrier!SetParticipants(Threads)
  PROVE  Pool!IInv'
  <1>1. Pool!Idle /\ Threads \in (SUBSET Threads) \ {{}}
    BY ThreadsFinite DEF Pool!Idle
  <1>2. Pool!SetParticipants(Threads)
    BY PoolSets DEF Barrier!SetParticipants, Pool!SetParticipants
  <1>. QED
    BY <1>1, <1>2, PoolStep DEF Pool!Next

\* Two threads that are not in a wait have finished equally many.
LEMMA InStep ==
  ASSUME IInv, ~wrapped, group = Threads, NEW t \in Threads, NEW u \in Threads
  PROVE  /\ waits[t] \in Nat /\ waits[u] \in Nat
         /\ waits[t] <= waits[u] + (IF waiting[u] THEN 1 ELSE 0)
  <1>1. Pool!NobodyLeavesEarly
    BY PoolAssumptions, Pool!WithinOneWait DEF IInv
  <1>2. waits[t] \in Nat /\ waits[u] \in Nat
    BY DEF IInv, Pool!IInv, Pool!TypeOK
  <1>. QED
    BY <1>1, <1>2 DEF Pool!NobodyLeavesEarly, Pool!Begun

\* Whoever is in the pool, or in a call, shares the barrier.
LEMMA Sharing ==
  ASSUME LabelInv, NEW t \in Threads, pc[t] \notin {"none", "start"}
  PROVE  group = Threads
  BY DEF LabelInv, Settled, Others

-----------------------------------------------------------------------------
LEMMA InitPool == Init => IInv
  <1>. SUFFICES ASSUME Init PROVE IInv
    OBVIOUS
  <1>1. Pool!IInv
    <2>1. {Master} \in (SUBSET Threads) \ {{}} /\ Pool!Cardinality({Master}) = 1
      BY ThreadsFinite, PoolSets, FS_Singleton
    <2>2. Pool!Init
      BY <2>1 DEF Init, Pool!Init
    <2>. QED
      BY <2>2, PoolAssumptions, Pool!InitBarrier
  <1>2. TypeOK
    <2>1. Barrier!TypeOK
      BY <1>1, PoolTypes
    <2>2. i \in 0 .. NumThreads /\ calls \in 0 .. MaxCalls
      BY NumThreadsAssumption, CallsAssumption DEF Init
    <2>3. stop \in BOOLEAN /\ overtaken \in BOOLEAN /\ missing \in BOOLEAN
      BY DEF Init
    <2>. QED
      BY <2>1, <2>2, <2>3 DEF Init, TypeOK
  <1>3. Settled /\ LabelInv
    <2>1. pc[Master] = "start" /\ \A t \in Others : pc[t] = "none"
      BY ThreadsFinite DEF Init, Others
    <2>. QED
      BY <2>1 DEF Init, LabelInv, Settled, Others, MasterLabels, OtherLabels
  <1>4. ParityInv /\ WorkersInv
    BY <1>3, ThreadsFinite DEF Init, ParityInv, WorkersInv, Loops
  <1>5. NumberInv
    BY ThreadsFinite DEF Init, NumberInv, Others
  <1>6. LoopInv
    BY DEF Init, LoopInv, RanInv, LoopLabels, Loops
  <1>. QED
    BY <1>1, <1>2, <1>3, <1>4, <1>5, <1>6 DEF IInv

LEMMA NextPool ==
  ASSUME IInv, [Next]_vars
  PROVE  Pool!IInv'
  <1>1. CASE UNCHANGED barrier
    BY <1>1, PoolStep DEF IInv
  <1>2. ASSUME NEW t \in Threads, pc[t] \notin {"none", "start"}, Barrier!Arrive(t) \/ Barrier!Leave(t)
        PROVE  Pool!IInv'
    <2>1. t \in group
      BY <1>2, Sharing DEF IInv
    <2>. QED
      BY <1>2, <2>1, PoolArrives, PoolLeaves DEF IInv
  <1>3. CASE Start
    <2>1. ASSUME stop PROVE Pool!IInv'
      <3>1. \A t \in Threads : ~waiting[t]
        BY <1>3, <2>1 DEF Start, IInv, LabelInv, Settled, Others
      <3>. QED
        BY <1>3, <2>1, <3>1, PoolStarts DEF Start, IInv
    <2>. QED
      BY <1>1, <1>3, <2>1 DEF Start
  <1>4. CASE CreateThread \/ CreateWorker \/ ReadResult \/ DeleteWorker
    BY <1>1, <1>4 DEF CreateThread, CreateWorker, ReadResult, DeleteWorker
  <1>5. CASE Stop \/ Recount \/ JoinThread
    BY <1>1, <1>5 DEF Stop, Recount, JoinThread
  <1>6. CASE FreeBarrier \/ LeaveFreed
    BY <1>2, <1>6, ThreadsFinite DEF FreeBarrier, LeaveFreed, Goto
  <1>7. ASSUME NEW t \in Threads, ThreadStep(t) PROVE Pool!IInv'
    <2>1. CASE SpawnWorker(t) \/ CheckStop(t) \/ FetchWorker(t) \/ Work(t)
      BY <1>1, <2>1 DEF SpawnWorker, CheckStop, FetchWorker, Work
    <2>2. CASE FirstArrive(t) \/ FirstLeave(t) \/ SecondArrive(t) \/ SecondLeave(t)
      BY <1>2, <2>2 DEF FirstArrive, FirstLeave, SecondArrive, SecondLeave, Goto
    <2>. QED
      BY <1>7, <2>1, <2>2 DEF ThreadStep
  <1>8. ASSUME NEW c \in Calls, Call(c) PROVE Pool!IInv'
    BY <1>1, <1>8 DEF Call
  <1>9. CASE Exit
    BY <1>1, <1>9 DEF Exit
  <1>10. CASE UNCHANGED vars
    BY <1>1, <1>10 DEF vars, barrier
  <1>. QED
    BY <1>3, <1>4, <1>5, <1>6, <1>7, <1>8, <1>9, <1>10 DEF Next, MasterStep, Terminated

LEMMA NextTypes ==
  ASSUME IInv, [Next]_vars
  PROVE  TypeOK'
  <1>0. Barrier!TypeOK'
    <2>1. Pool!IInv'
      BY NextPool
    <2>. QED
      BY <2>1, PoolSets DEF Pool!IInv, Pool!TypeOK, Barrier!TypeOK
  <1>. DEFINE Labels == {"none", "main", "start", "create", "stop",
                         "recount", "free", "freed", "join", "result", "delete", "spawn",
                         "arrive", "wait", "check", "fetch", "work", "arrive2", "wait2",
                         "exit", "crash"} \cup Loops
              Values == /\ call \in {"start", "stop", "exit"} \cup Loops
                        /\ calls \in 0 .. MaxCalls /\ i \in 0 .. NumThreads
                        /\ counter \in Nat /\ my_id \in [Threads -> Nat]
                        /\ workers_array \in [Ids -> {"null", "live", "deleted"}]
                        /\ ran \in [Ids -> Nat]
              Flags == stop \in BOOLEAN /\ overtaken \in BOOLEAN /\ missing \in BOOLEAN
  <1>. USE DEF AfterLoop, AfterCall, Return, Goto, program, pool, loop, ghosts
  <1>1. pc \in [Threads -> Labels] /\ Values /\ Flags /\ NumThreads \in Nat \ {0}
    BY NumThreadsAssumption DEF IInv, TypeOK
  <1>. USE <1>1, ThreadsFinite
  <1>2. CASE MasterStep
    <2>1. Flags'
      BY <1>2 DEF MasterStep, Start, CreateThread, CreateWorker, ReadResult, DeleteWorker,
                  Stop, Recount, FreeBarrier, LeaveFreed, JoinThread
    <2>2. pc' \in [Threads -> Labels] /\ Values'
      <3>1. CASE Start
        BY <3>1 DEF Start
      <3>2. CASE CreateThread
        BY <3>2 DEF CreateThread, Threads
      <3>3. CASE CreateWorker
        BY <3>3 DEF CreateWorker
      <3>4. CASE ReadResult \/ DeleteWorker
        BY <3>4 DEF ReadResult, DeleteWorker
      <3>5. CASE Stop \/ Recount \/ FreeBarrier
        BY <3>5 DEF Stop, Recount, FreeBarrier
      <3>6. CASE LeaveFreed \/ JoinThread
        BY <3>6 DEF LeaveFreed, JoinThread, Threads
      <3>. QED
        BY <1>2, <3>1, <3>2, <3>3, <3>4, <3>5, <3>6 DEF MasterStep
    <2>. QED
      BY <1>0, <2>1, <2>2 DEF TypeOK
  <1>3. ASSUME NEW t \in Threads, ThreadStep(t) PROVE TypeOK'
    <2>1. Flags'
      BY <1>3 DEF ThreadStep, SpawnWorker, FirstArrive, FirstLeave, CheckStop,
                  FetchWorker, Work, SecondArrive, SecondLeave
    <2>2. pc' \in [Threads -> Labels] /\ Values'
      <3>1. CASE SpawnWorker(t) \/ FirstArrive(t) \/ FirstLeave(t)
        BY <3>1 DEF SpawnWorker, FirstArrive, FirstLeave
      <3>2. CASE CheckStop(t) \/ FetchWorker(t)
        BY <3>2 DEF CheckStop, FetchWorker
      <3>3. CASE Work(t)
        <4>1. ran' = [w \in Ids |-> IF w = my_id[t] THEN ran[w] + 1 ELSE ran[w]]
          BY <3>3 DEF Work
        <4>2. ran' \in [Ids -> Nat]
          BY <4>1
        <4>. QED
          BY <3>3, <4>2 DEF Work
      <3>4. CASE SecondArrive(t) \/ SecondLeave(t)
        BY <3>4 DEF SecondArrive, SecondLeave
      <3>. QED
        BY <1>3, <3>1, <3>2, <3>3, <3>4 DEF ThreadStep
    <2>. QED
      BY <1>0, <2>1, <2>2 DEF TypeOK
  <1>4. ASSUME NEW c \in Calls, Call(c) PROVE TypeOK'
    <2>1. c \in Loops \cup {"start", "stop"} /\ calls' \in 0 .. MaxCalls
      BY <1>4, CallsAssumption DEF Call
    <2>2. Flags'
      BY <1>4 DEF Call
    <2>. QED
      BY <1>0, <1>4, <2>1, <2>2 DEF Call, TypeOK
  <1>5. CASE Exit
    <2>1. Flags'
      BY <1>5 DEF Exit
    <2>. QED
      BY <1>0, <1>5, <2>1 DEF Exit, TypeOK
  <1>6. CASE UNCHANGED vars
    <2>1. Flags'
      BY <1>6 DEF vars
    <2>. QED
      BY <1>0, <1>6, <2>1 DEF vars, TypeOK
  <1>. QED
    BY <1>2, <1>3, <1>4, <1>5, <1>6 DEF Next, Terminated

\* The thread that the master is about to create is none yet.
LEMMA CreatedThread ==
  ASSUME LabelInv, pc[Master] = "create", i \in Nat, i < NumThreads
  PROVE  i \in Others /\ pc[i] = "none"
  <1>1. i >= 1 /\ \A t \in Others : t >= i => pc[t] = "none"
    BY DEF LabelInv
  <1>2. i \in Threads /\ i # Master
    BY <1>1, NumThreadsAssumption DEF Threads, Master
  <1>. QED
    BY <1>1, <1>2 DEF Others

\* The new place of the thread that takes a step.
LEMMA NextLabels ==
  ASSUME IInv, [Next]_vars
  PROVE  LabelInv'
  <1>. USE ThreadsFinite DEF Goto, program, pool, loop, ghosts, barrier, Settled, Loops
  <1>1. /\ DOMAIN pc = Threads /\ LabelInv /\ waiting \in [Threads -> BOOLEAN]
        /\ i \in Nat /\ NumThreads \in Nat \ {0} /\ stop \in BOOLEAN
    <2>1. DOMAIN pc = Threads
      BY DEF IInv, TypeOK
    <2>4. LabelInv /\ i \in Nat /\ NumThreads \in Nat \ {0}
      BY NumThreadsAssumption DEF IInv, TypeOK
    <2>2. waiting \in [Threads -> BOOLEAN]
      BY PoolTypes DEF IInv, Barrier!TypeOK
    <2>3. stop \in BOOLEAN
      BY DEF IInv, TypeOK
    <2>. QED
      BY <2>1, <2>2, <2>3, <2>4
  <1>2. CASE Start
    BY <1>1, <1>2 DEF LabelInv, MasterLabels, OtherLabels, Others, Start, Return, AfterCall, Barrier!SetParticipants
  <1>3. CASE CreateThread
    <2>1. CASE i < NumThreads
      <3>0. i \in Others /\ pc[i] = "none"
        BY <1>1, <1>3, <2>1, CreatedThread DEF CreateThread
      <3>1. i \in Others /\ i' = i + 1 /\ UNCHANGED << stop, waiting, group >> /\ pc[i] = "none"
        BY <1>3, <2>1, <3>0 DEF CreateThread
      <3>2. pc' = pc \/ pc' = [pc EXCEPT ![i] = "spawn"]
        BY <1>3, <2>1 DEF CreateThread
      <3>3. pc'[Master] = "create" /\ \A t \in Others : t # i => pc'[t] = pc[t]
        BY <1>1, <1>3, <3>1, <3>2 DEF CreateThread, Others
      <3>4. pc'[i] \in {"none", "spawn"} /\ \A t \in Others : t >= i + 1 => t # i /\ t >= i
        BY <1>1, <3>1, <3>2 DEF Others, Threads
      <3>. QED
        BY <1>1, <1>3, <3>1, <3>3, <3>4 DEF CreateThread, LabelInv, MasterLabels, OtherLabels, Others
    <2>2. CASE ~(i < NumThreads)
      <3>1. pc' = [pc EXCEPT ![Master] = AfterCall] /\ AfterCall \in {"exit", "main"}
        BY <1>3, <2>2 DEF CreateThread, Return, AfterCall
      <3>. QED
        BY <1>1, <1>3, <2>2, <3>1 DEF CreateThread, LabelInv, MasterLabels, Others
    <2>. QED
      BY <2>1, <2>2
  <1>4. CASE CreateWorker
    <2>1. pc' = pc \/ pc' = [pc EXCEPT ![Master] = "arrive"]
      BY <1>4 DEF CreateWorker
    <2>2. pc[Master] \in {"parallel_for", "parallel_reduce"} /\ UNCHANGED << stop, waiting, group >>
      BY <1>4 DEF CreateWorker
    <2>. QED
      BY <1>1, <2>1, <2>2 DEF LabelInv, MasterLabels, OtherLabels, Others
  <1>5. CASE ReadResult
    BY <1>1, <1>5 DEF LabelInv, MasterLabels, OtherLabels, Others, ReadResult
  <1>6. CASE DeleteWorker
    BY <1>1, <1>6 DEF LabelInv, MasterLabels, OtherLabels, Others, DeleteWorker, Return, AfterCall
  <1>7. CASE Stop
    BY <1>1, <1>7 DEF LabelInv, MasterLabels, OtherLabels, Others, Stop, Return, AfterCall
  <1>8. CASE Recount
    BY <1>1, <1>8 DEF LabelInv, MasterLabels, OtherLabels, Others, Recount
  <1>9. CASE FreeBarrier
    BY <1>1, <1>9 DEF LabelInv, MasterLabels, OtherLabels, Others, FreeBarrier, Barrier!Arrive
  <1>10. CASE LeaveFreed
    <2>1. pc'[Master] = "join" /\ ~waiting'[Master] /\ i' = 1 /\ UNCHANGED << stop, group >>
      BY <1>1, <1>10 DEF LeaveFreed, Barrier!Leave
    <2>2. \A t \in Others : pc'[t] = pc[t] /\ (waiting'[t] <=> waiting[t])
      BY <1>1, <1>10 DEF LeaveFreed, Barrier!Leave, Others
    <2>4. \A t \in Others : ~(t < 1)
      BY <1>1 DEF Others, Threads, Master
    <2>3. pc[Master] = "freed"
      BY <1>10 DEF LeaveFreed
    <2>. QED
      BY <1>1, <2>1, <2>2, <2>3, <2>4 DEF LabelInv, MasterLabels, Others
  <1>11. CASE JoinThread
    <2>1. CASE i < NumThreads
      <3>1. i \in Others /\ pc' = [pc EXCEPT ![i] = "none"] /\ i' = i + 1
        BY <1>1, <1>11, <2>1 DEF JoinThread, LabelInv, Others, Threads
      <3>. QED
        BY <1>1, <1>11, <3>1 DEF LabelInv, MasterLabels, OtherLabels, Others, JoinThread, Threads
    <2>2. CASE ~(i < NumThreads)
      <3>1. \A t \in Others : pc[t] = "none"
        BY <1>1, <1>11, <2>2 DEF JoinThread, LabelInv, Others, Threads
      <3>2. pc' = [pc EXCEPT ![Master] = AfterCall] /\ AfterCall \in {"exit", "main"}
        BY <1>11, <2>2 DEF JoinThread, Return, AfterCall
      <3>. QED
        BY <1>1, <1>11, <2>2, <3>1, <3>2 DEF LabelInv, MasterLabels, OtherLabels, Others, JoinThread
    <2>. QED
      BY <2>1, <2>2
  <1>12. ASSUME NEW t \in Threads, ThreadStep(t) PROVE LabelInv'
    <2>1. CASE SpawnWorker(t)
      BY <1>1, <2>1 DEF LabelInv, MasterLabels, OtherLabels, Others, SpawnWorker
    <2>2. CASE FirstArrive(t)
      BY <1>1, <2>2 DEF LabelInv, MasterLabels, OtherLabels, Others, FirstArrive, Barrier!Arrive
    <2>3. CASE FirstLeave(t)
      BY <1>1, <2>3 DEF LabelInv, MasterLabels, OtherLabels, Others, FirstLeave, Barrier!Leave
    <2>4. CASE CheckStop(t)
      BY <1>1, <2>4 DEF LabelInv, MasterLabels, OtherLabels, Others, CheckStop
    <2>5. CASE FetchWorker(t)
      BY <1>1, <2>5 DEF LabelInv, MasterLabels, OtherLabels, Others, FetchWorker
    <2>6. CASE Work(t)
      BY <1>1, <2>6 DEF LabelInv, MasterLabels, OtherLabels, Others, Work
    <2>7. CASE SecondArrive(t)
      BY <1>1, <2>7 DEF LabelInv, MasterLabels, OtherLabels, Others, SecondArrive, Barrier!Arrive
    <2>8. CASE SecondLeave(t)
      BY <1>1, <2>8 DEF LabelInv, MasterLabels, OtherLabels, Others, SecondLeave, AfterLoop, Barrier!Leave
    <2>. QED
      BY <1>12, <2>1, <2>2, <2>3, <2>4, <2>5, <2>6, <2>7, <2>8 DEF ThreadStep
  <1>13. ASSUME NEW c \in Calls, Call(c) PROVE LabelInv'
    <2>1. c \in Loops \cup {"start", "stop"}
      BY CallsAssumption
    <2>. QED
      BY <1>1, <1>13, <2>1 DEF LabelInv, MasterLabels, OtherLabels, Others, Call
  <1>14. CASE Exit
    BY <1>1, <1>14 DEF LabelInv, MasterLabels, OtherLabels, Others, Exit
  <1>15. CASE UNCHANGED vars
    BY <1>1, <1>15 DEF LabelInv, Others, vars
  <1>. QED
    BY <1>2, <1>3, <1>4, <1>5, <1>6, <1>7, <1>8, <1>9, <1>10, <1>11, <1>12, <1>13, <1>14, <1>15 DEF Next, MasterStep, Terminated

LEMMA NextParity ==
  ASSUME IInv, [Next]_vars
  PROVE  ParityInv'
  <1>. USE ThreadsFinite DEF Goto, program, pool, loop, ghosts, barrier, Settled, Loops
  <1>1. /\ DOMAIN pc = Threads /\ waits \in [Threads -> Nat]
        /\ LabelInv /\ LabelInv' /\ ParityInv /\ i \in Nat
    BY PoolTypes, NextLabels DEF IInv, TypeOK, Barrier!TypeOK
  <1>2. CASE Start
    BY <1>1, <1>2 DEF LabelInv, ParityInv, HalfWay, MasterLabels, OtherLabels, Others, Start, Return, AfterCall, Barrier!SetParticipants
  <1>3. CASE CreateThread
    <2>1. CASE i < NumThreads
      <3>1. pc[Master] = "create" /\ ~stop /\ UNCHANGED << stop, waits >>
        BY <1>1, <1>3 DEF CreateThread, LabelInv
      <3>2. i \in Others /\ pc[i] = "none"
        BY <1>1, <1>3, <2>1, CreatedThread DEF CreateThread
      <3>3. pc' = pc \/ pc' = [pc EXCEPT ![i] = "spawn"]
        BY <1>3, <2>1 DEF CreateThread
      <3>. QED
        BY <1>1, <3>1, <3>2, <3>3 DEF ParityInv, HalfWay, Others
    <2>2. CASE ~(i < NumThreads)
      <3>1. pc' = [pc EXCEPT ![Master] = AfterCall] /\ AfterCall \in {"exit", "main"}
        BY <1>3, <2>2 DEF CreateThread, Return, AfterCall
      <3>2. pc[Master] = "create" /\ ~stop /\ UNCHANGED << stop, waits >>
        BY <1>1, <1>3 DEF CreateThread, LabelInv
      <3>. QED
        BY <1>1, <3>1, <3>2 DEF ParityInv, HalfWay
    <2>. QED
      BY <2>1, <2>2
  <1>4. CASE CreateWorker
    BY <1>1, <1>4 DEF LabelInv, ParityInv, HalfWay, MasterLabels, OtherLabels, Others, CreateWorker
  <1>5. CASE ReadResult
    BY <1>1, <1>5 DEF LabelInv, ParityInv, HalfWay, MasterLabels, OtherLabels, Others, ReadResult
  <1>6. CASE DeleteWorker
    BY <1>1, <1>6 DEF LabelInv, ParityInv, HalfWay, MasterLabels, OtherLabels, Others, DeleteWorker, Return, AfterCall
  <1>7. CASE Stop
    BY <1>1, <1>7 DEF LabelInv, ParityInv, HalfWay, MasterLabels, OtherLabels, Others, Stop, Return, AfterCall
  <1>8. CASE Recount
    BY <1>1, <1>8 DEF LabelInv, ParityInv, HalfWay, MasterLabels, OtherLabels, Others, Recount
  <1>9. CASE FreeBarrier
    BY <1>1, <1>9 DEF LabelInv, ParityInv, HalfWay, MasterLabels, OtherLabels, Others, FreeBarrier, Barrier!Arrive
  <1>10. CASE LeaveFreed
    BY <1>1, <1>10 DEF LabelInv, ParityInv, HalfWay, MasterLabels, OtherLabels, Others, LeaveFreed, Barrier!Leave
  <1>11. CASE JoinThread
    BY <1>1, <1>11 DEF LabelInv, ParityInv, HalfWay, MasterLabels, OtherLabels, Others, JoinThread, Return, AfterCall
  <1>12. ASSUME NEW t \in Threads, ThreadStep(t) PROVE ParityInv'
    <2>1. CASE SpawnWorker(t)
      BY <1>1, <2>1 DEF LabelInv, ParityInv, HalfWay, MasterLabels, OtherLabels, Others, SpawnWorker
    <2>2. CASE FirstArrive(t)
      BY <1>1, <2>2 DEF LabelInv, ParityInv, HalfWay, MasterLabels, OtherLabels, Others, FirstArrive, Barrier!Arrive
    <2>3. CASE FirstLeave(t)
      BY <1>1, <2>3 DEF LabelInv, ParityInv, HalfWay, MasterLabels, OtherLabels, Others, FirstLeave, Barrier!Leave
    <2>4. CASE CheckStop(t)
      BY <1>1, <2>4 DEF LabelInv, ParityInv, HalfWay, MasterLabels, OtherLabels, Others, CheckStop
    <2>5. CASE FetchWorker(t)
      BY <1>1, <2>5 DEF LabelInv, ParityInv, HalfWay, MasterLabels, OtherLabels, Others, FetchWorker
    <2>6. CASE Work(t)
      BY <1>1, <2>6 DEF LabelInv, ParityInv, HalfWay, MasterLabels, OtherLabels, Others, Work
    <2>7. CASE SecondArrive(t)
      BY <1>1, <2>7 DEF LabelInv, ParityInv, HalfWay, MasterLabels, OtherLabels, Others, SecondArrive, Barrier!Arrive
    <2>8. CASE SecondLeave(t)
      BY <1>1, <2>8 DEF LabelInv, ParityInv, HalfWay, MasterLabels, OtherLabels, Others, SecondLeave, AfterLoop, Barrier!Leave
    <2>. QED
      BY <1>12, <2>1, <2>2, <2>3, <2>4, <2>5, <2>6, <2>7, <2>8 DEF ThreadStep
  <1>13. ASSUME NEW c \in Calls, Call(c) PROVE ParityInv'
    <2>1. c \in Loops \cup {"start", "stop"}
      BY CallsAssumption
    <2>. QED
      BY <1>1, <1>13, <2>1 DEF LabelInv, ParityInv, HalfWay, MasterLabels, OtherLabels, Others, Call
  <1>14. CASE Exit
    BY <1>1, <1>14 DEF LabelInv, ParityInv, HalfWay, MasterLabels, OtherLabels, Others, Exit
  <1>15. CASE UNCHANGED vars
    BY <1>1, <1>15 DEF LabelInv, ParityInv, HalfWay, MasterLabels, OtherLabels, Others, vars
  <1>. QED
    BY <1>2, <1>3, <1>4, <1>5, <1>6, <1>7, <1>8, <1>9, <1>10, <1>11, <1>12, <1>13, <1>14, <1>15 DEF Next, MasterStep, Terminated

LEMMA NextWorkers ==
  ASSUME IInv, [Next]_vars
  PROVE  WorkersInv'
  <1>. USE ThreadsFinite DEF Goto, program, pool, loop, ghosts, barrier, Loops
  <1>1. /\ DOMAIN pc = Threads /\ i \in Nat /\ NumThreads \in Nat \ {0}
        /\ LabelInv /\ WorkersInv /\ workers_array \in [Ids -> {"null", "live", "deleted"}]
    BY NumThreadsAssumption DEF IInv, TypeOK
  <1>2. CASE Start
    BY <1>1, <1>2 DEF LabelInv, WorkersInv, OtherLabels, Others, Start, Return, AfterCall, Barrier!SetParticipants
  <1>3. CASE CreateThread
    BY <1>1, <1>3 DEF LabelInv, WorkersInv, OtherLabels, Others, CreateThread, Return, AfterCall
  <1>4. CASE CreateWorker
    <2>1. CASE i < NumThreads
      <3>1. pc' = pc /\ workers_array' = [workers_array EXCEPT ![i] = "live"] /\ i' = i + 1
        BY <1>4, <2>1 DEF CreateWorker
      <3>2. pc[Master] \in Loops /\ \A w \in Ids : w < i' => w = i \/ w < i
        BY <1>1, <1>4, <3>1 DEF CreateWorker, Ids, Threads
      <3>. QED
        BY <1>1, <3>1, <3>2 DEF WorkersInv
    <2>2. CASE ~(i < NumThreads)
      <3>1. \A w \in Ids : workers_array[w] = "live"
        BY <1>1, <1>4, <2>2 DEF CreateWorker, WorkersInv, Ids, Threads
      <3>. QED
        BY <1>1, <1>4, <2>2, <3>1 DEF CreateWorker, WorkersInv
    <2>. QED
      BY <2>1, <2>2
  <1>5. CASE ReadResult
    BY <1>1, <1>5 DEF LabelInv, WorkersInv, OtherLabels, Others, ReadResult
  <1>6. CASE DeleteWorker
    BY <1>1, <1>6 DEF LabelInv, WorkersInv, OtherLabels, Others, DeleteWorker, Return, AfterCall
  <1>7. CASE Stop
    BY <1>1, <1>7 DEF LabelInv, WorkersInv, OtherLabels, Others, Stop, Return, AfterCall
  <1>8. CASE Recount
    BY <1>1, <1>8 DEF LabelInv, WorkersInv, OtherLabels, Others, Recount
  <1>9. CASE FreeBarrier
    BY <1>1, <1>9 DEF LabelInv, WorkersInv, OtherLabels, Others, FreeBarrier, Barrier!Arrive
  <1>10. CASE LeaveFreed
    BY <1>1, <1>10 DEF LabelInv, WorkersInv, OtherLabels, Others, LeaveFreed, Barrier!Leave
  <1>11. CASE JoinThread
    BY <1>1, <1>11 DEF LabelInv, WorkersInv, OtherLabels, Others, JoinThread, Return, AfterCall
  <1>12. ASSUME NEW t \in Threads, ThreadStep(t) PROVE WorkersInv'
    <2>1. CASE SpawnWorker(t)
      BY <1>1, <2>1 DEF LabelInv, WorkersInv, OtherLabels, Others, SpawnWorker
    <2>2. CASE FirstArrive(t)
      BY <1>1, <2>2 DEF LabelInv, WorkersInv, OtherLabels, Others, FirstArrive, Barrier!Arrive
    <2>3. CASE FirstLeave(t)
      BY <1>1, <2>3 DEF LabelInv, WorkersInv, OtherLabels, Others, FirstLeave, Barrier!Leave
    <2>4. CASE CheckStop(t)
      BY <1>1, <2>4 DEF LabelInv, WorkersInv, OtherLabels, Others, CheckStop
    <2>5. CASE FetchWorker(t)
      BY <1>1, <2>5 DEF LabelInv, WorkersInv, OtherLabels, Others, FetchWorker
    <2>6. CASE Work(t)
      BY <1>1, <2>6 DEF LabelInv, WorkersInv, OtherLabels, Others, Work
    <2>7. CASE SecondArrive(t)
      BY <1>1, <2>7 DEF LabelInv, WorkersInv, OtherLabels, Others, SecondArrive, Barrier!Arrive
    <2>8. CASE SecondLeave(t)
      BY <1>1, <2>8 DEF LabelInv, WorkersInv, OtherLabels, Others, SecondLeave, AfterLoop, Barrier!Leave
    <2>. QED
      BY <1>12, <2>1, <2>2, <2>3, <2>4, <2>5, <2>6, <2>7, <2>8 DEF ThreadStep
  <1>13. ASSUME NEW c \in Calls, Call(c) PROVE WorkersInv'
    <2>1. c \in Loops \cup {"start", "stop"}
      BY CallsAssumption
    <2>. QED
      BY <1>1, <1>13, <2>1 DEF LabelInv, WorkersInv, Ids, Threads, Call
  <1>14. CASE Exit
    BY <1>1, <1>14 DEF LabelInv, WorkersInv, OtherLabels, Others, Exit
  <1>15. CASE UNCHANGED vars
    BY <1>1, <1>15 DEF LabelInv, WorkersInv, OtherLabels, Others, vars
  <1>. QED
    BY <1>2, <1>3, <1>4, <1>5, <1>6, <1>7, <1>8, <1>9, <1>10, <1>11, <1>12, <1>13, <1>14, <1>15 DEF Next, MasterStep, Terminated

LEMMA NextNumbers ==
  ASSUME IInv, [Next]_vars
  PROVE  NumberInv'
  <1>. USE ThreadsFinite DEF Goto, program, loop, ghosts
  <1>1. /\ DOMAIN pc = Threads /\ my_id \in [Threads -> Nat] /\ counter \in Nat
        /\ LabelInv /\ NumberInv /\ i \in Nat
    BY DEF IInv, TypeOK
  <1>2. IsFiniteSet(Numbered) /\ Cardinality(Numbered) \in Nat
    <2>1. Numbered \subseteq Threads
      BY DEF Numbered
    <2>. QED
      BY <2>1, FS_Subset, FS_CardinalityType
  \* Most steps number no thread and leave the numbers alone.
  <1>3. ASSUME UNCHANGED << stop, counter, my_id, overtaken >>,
               Numbered' = Numbered,
               \A t \in Others : pc'[t] = "spawn" => pc[t] = "spawn" \/ ~stop,
               pc[Master] = "recount" => pc'[Master] = "recount"
        PROVE  NumberInv'
    BY <1>1, <1>3 DEF NumberInv
  <1>4. ASSUME UNCHANGED << stop, counter, my_id, overtaken >>,
               pc[Master] # "recount", \A t \in Others : pc'[t] = pc[t]
        PROVE  NumberInv'
    <2>1. Numbered' = Numbered
      BY <1>4 DEF Numbered
    <2>. QED
      BY <1>3, <1>4, <2>1
  <1>5. CASE Start
    <2>1. CASE stop
      <3>1. Numbered' = {} /\ \A t \in Others : pc'[t] = "none"
        BY <1>1, <1>5, <2>1 DEF Start, LabelInv, Settled, Numbered, Others
      <3>2. Cardinality({}) = 0
        BY FS_EmptySet
      <3>3. UNCHANGED << counter, my_id, overtaken >> /\ ~stop' /\ pc[Master] = "start"
        BY <1>5, <2>1 DEF Start
      <3>4. ~overtaken => counter = 1
        BY <1>1, <2>1, <3>3 DEF NumberInv
      <3>. QED
        BY <1>1, <3>1, <3>2, <3>3, <3>4 DEF NumberInv
    <2>2. CASE ~stop
      BY <1>1, <1>4, <1>5, <2>2 DEF Start, Return, Others
    <2>. QED
      BY <2>1, <2>2
  <1>6. CASE CreateThread
    <2>1. CASE i < NumThreads
      <3>1. i \in Others /\ pc[i] = "none"
        BY <1>1, <1>6, <2>1, CreatedThread DEF CreateThread
      <3>2. pc' = pc \/ pc' = [pc EXCEPT ![i] = "spawn"]
        BY <1>6, <2>1 DEF CreateThread
      <3>3. Numbered' = Numbered
        BY <1>1, <3>1, <3>2 DEF Numbered, Others
      <3>4. pc[Master] = "create" /\ ~stop /\ UNCHANGED << stop, counter, my_id, overtaken >>
        BY <1>1, <1>6, <2>1 DEF CreateThread, LabelInv
      <3>. QED
        BY <1>3, <3>3, <3>4
    <2>2. CASE ~(i < NumThreads)
      <3>1. my_id' = my_id
        BY <1>1, <1>6, <2>2 DEF CreateThread, NumberInv
      <3>. QED
        BY <1>1, <1>4, <1>6, <2>2, <3>1 DEF CreateThread, Return, Others
    <2>. QED
      BY <2>1, <2>2
  <1>7. CASE CreateWorker \/ ReadResult \/ DeleteWorker
    BY <1>1, <1>4, <1>7 DEF CreateWorker, ReadResult, DeleteWorker, Return, Others, pool, Loops
  <1>8. CASE Stop
    <2>1. CASE stop
      BY <1>1, <1>4, <1>8, <2>1 DEF Stop, Return, Others
    <2>2. CASE ~stop
      BY <1>1, <1>8, <2>2 DEF Stop, NumberInv
    <2>. QED
      BY <2>1, <2>2
  <1>9. CASE Recount
    <2>1. stop /\ stop' = stop /\ counter' = 1 /\ my_id' = my_id
      BY <1>1, <1>9 DEF Recount, LabelInv
    <2>2. ~overtaken' => \A t \in Others : pc[t] # "spawn" /\ pc'[t] = pc[t]
      BY <1>1, <1>9 DEF Recount, Others
    <2>. QED
      BY <1>1, <2>1, <2>2 DEF NumberInv
  <1>10. CASE FreeBarrier \/ LeaveFreed
    BY <1>1, <1>4, <1>10 DEF FreeBarrier, LeaveFreed, Others, pool
  <1>11. CASE JoinThread
    <2>1. stop /\ UNCHANGED << stop, counter, my_id, overtaken >> /\ pc[Master] = "join"
      BY <1>1, <1>11 DEF JoinThread, LabelInv, pool
    <2>2. \A t \in Others : pc'[t] = "spawn" => pc[t] = "spawn"
      BY <1>1, <1>11 DEF JoinThread, Return, Others
    <2>. QED
      BY <1>1, <2>1, <2>2 DEF NumberInv
  <1>12. ASSUME NEW t \in Threads, ThreadStep(t) PROVE NumberInv'
    <2>1. CASE SpawnWorker(t)
      <3>1. t \in Others /\ pc[t] = "spawn" /\ pc' = [pc EXCEPT ![t] = "arrive"]
            /\ my_id' = [my_id EXCEPT ![t] = counter] /\ counter' = counter + 1
            /\ UNCHANGED << stop, overtaken >>
        BY <2>1 DEF SpawnWorker
      <3>2. t \notin Numbered /\ Numbered' = Numbered \cup {t}
        BY <1>1, <3>1 DEF Numbered, Others
      <3>3. Cardinality(Numbered') = Cardinality(Numbered) + 1
        BY <1>2, <3>2, FS_AddElement
      <3>4. my_id'[Master] = 0 /\ my_id'[t] = counter /\ \A u \in Numbered : my_id'[u] = my_id[u]
        BY <1>1, <3>1, <3>2 DEF NumberInv, Numbered, Others
      <3>5. ~stop => \A u \in Numbered' :
              /\ 1 <= my_id'[u] /\ my_id'[u] < counter'
              /\ \A v \in Numbered' : my_id'[v] = my_id'[u] => v = u
        <4>1. Numbered \subseteq Threads
          BY DEF Numbered
        <4>. QED
          BY <1>1, <3>1, <3>2, <3>4, <4>1 DEF NumberInv
      <3>6. stop => overtaken \/ pc[Master] = "recount"
        BY <1>1, <3>1 DEF NumberInv
      <3>7. pc'[Master] = pc[Master]
        BY <1>1, <3>1 DEF Others
      <3>. QED
        BY <1>1, <1>2, <3>1, <3>3, <3>4, <3>5, <3>6, <3>7 DEF NumberInv
    <2>2. ASSUME UNCHANGED pool, UNCHANGED overtaken, NEW b, pc' = [pc EXCEPT ![t] = b],
                 pc[t] \notin {"none", "spawn", "recount"}, b \notin {"none", "spawn"}
          PROVE  NumberInv'
      <3>1. Numbered' = Numbered
        BY <1>1, <2>2 DEF Numbered
      <3>. QED
        BY <1>1, <1>3, <2>2, <3>1 DEF pool, Others
    <2>3. CASE FirstArrive(t) \/ FirstLeave(t)
      BY <2>2, <2>3 DEF FirstArrive, FirstLeave
    <2>4. CASE CheckStop(t) \/ FetchWorker(t)
      BY <2>2, <2>4 DEF CheckStop, FetchWorker
    <2>5. CASE Work(t) \/ SecondArrive(t)
      BY <2>2, <2>5 DEF Work, SecondArrive
    <2>6. CASE SecondLeave(t)
      <3>. DEFINE b == IF t = Master THEN AfterLoop ELSE "arrive"
      <3>1. b \notin {"none", "spawn"}
        BY DEF AfterLoop
      <3>2. pc' = [pc EXCEPT ![t] = b] /\ pc[t] = "wait2" /\ UNCHANGED pool /\ UNCHANGED overtaken
        BY <2>6 DEF SecondLeave
      <3>. HIDE DEF b
      <3>. QED
        BY <2>2, <3>1, <3>2
    <2>. QED
      BY <1>12, <2>1, <2>3, <2>4, <2>5, <2>6 DEF ThreadStep
  <1>13. ASSUME NEW c \in Calls, Call(c) PROVE NumberInv'
    BY <1>1, <1>4, <1>13 DEF Call, Others, pool
  <1>14. CASE Exit
    BY <1>1, <1>4, <1>14 DEF Exit, Others, pool
  <1>15. CASE UNCHANGED vars
    BY <1>3, <1>15 DEF vars, Numbered
  <1>. QED
    BY <1>5, <1>6, <1>7, <1>8, <1>9, <1>10, <1>11, <1>12, <1>13, <1>14, <1>15
    DEF Next, MasterStep, Terminated

\* While a thread runs a worker of a running pool, the master is in the loop.
LEMMA LoopIsOpen ==
  ASSUME IInv, ~wrapped, ~stop, NEW t \in Threads, pc[t] \in {"fetch", "work"}
  PROVE  /\ pc[Master] \in {"wait", "check", "fetch", "work", "arrive2", "wait2", "crash"}
         /\ \A w \in Ids : workers_array[w] = "live"
  <1>1. group = Threads /\ ~Settled /\ ~waiting[t] /\ waits[t] % 2 = 1
    BY Sharing DEF IInv, LabelInv, ParityInv, HalfWay, Settled
  <1>2. Master \in Threads /\ pc[Master] \in MasterLabels /\ ~(pc[Master] \in {"recount", "free", "freed", "join"})
    BY ThreadsFinite DEF IInv, LabelInv
  <1>3. /\ waits[t] \in Nat /\ waits[Master] \in Nat
        /\ waits[t] <= waits[Master] + (IF waiting[Master] THEN 1 ELSE 0)
        /\ waits[Master] <= waits[t]
    BY <1>1, <1>2, InStep
  <1>4. HalfWay(Master) \/ pc[Master] = "wait"
    <2>. SUFFICES ASSUME ~HalfWay(Master), pc[Master] # "wait" PROVE FALSE
      OBVIOUS
    <2>1. ~waiting[Master]
      BY <1>2 DEF IInv, LabelInv, HalfWay
    <2>2. waits[Master] % 2 = 0
      BY <1>1, <1>2 DEF IInv, ParityInv, MasterLabels, Loops
    <2>3. waits[t] = waits[Master]
      BY <1>3, <2>1
    <2>. QED
      BY <1>1, <2>2, <2>3
  <1>5. pc[Master] \in {"wait", "check", "fetch", "work", "arrive2", "wait2", "crash"}
    BY <1>2, <1>4 DEF HalfWay
  <1>. QED
    BY <1>5 DEF IInv, WorkersInv

LEMMA WrappedStays ==
  ASSUME [Next]_vars, ~wrapped', TypeOK
  PROVE  ~wrapped
  <1>1. wrapped \in BOOLEAN
    BY DEF TypeOK, Barrier!TypeOK
  <1>2. UNCHANGED wrapped \/ \E t \in Threads : Barrier!Arrive(t) \/ Barrier!Leave(t)
    BY ThreadsFinite
    DEF Next, vars, barrier, Call, Exit, MasterStep, Start, Barrier!SetParticipants, CreateThread,
        CreateWorker, ReadResult, DeleteWorker, Stop, Recount, FreeBarrier, LeaveFreed, JoinThread,
        ThreadStep, SpawnWorker, FirstArrive, FirstLeave, CheckStop, FetchWorker, Work,
        SecondArrive, SecondLeave, Terminated
  <1>. QED
    BY <1>1, <1>2 DEF Barrier!Arrive, Barrier!Leave

LEMMA Parities ==
  ASSUME NEW n \in Nat
  PROVE  /\ n % 2 = 1 => n - 1 \in Nat /\ (n - 1) % 2 = 0
         /\ n % 2 = 0 => (n + 1) % 2 = 1 /\ (n + 2) % 2 = 0
         /\ n % 2 = 0 /\ n >= 2 => n - 2 \in Nat /\ (n - 2) % 2 = 0
  OBVIOUS

\* In a loop the base is even, and tells how many waits the master has finished.
LEMMA BaseFacts ==
  ASSUME IInv, ~stop, pc[Master] \in LoopLabels
  PROVE  /\ Base \in Nat /\ Base % 2 = 0
         /\ pc[Master] \in Loops \cup {"arrive", "wait"} => waits[Master] = Base
         /\ pc[Master] \in {"check", "fetch", "work", "arrive2", "wait2"} => waits[Master] = Base + 1
         /\ pc[Master] \in {"result", "delete"} => waits[Master] = Base + 2
  <1>1. waits[Master] \in Nat /\ Master \in Threads /\ ~Settled
    BY ThreadsFinite, PoolTypes DEF IInv, Barrier!TypeOK, Settled
  <1>2. HalfWay(Master) => waits[Master] % 2 = 1
    BY <1>1 DEF IInv, ParityInv
  <1>3. ~HalfWay(Master) => waits[Master] % 2 = 0
    BY <1>1 DEF IInv, ParityInv, LoopLabels, Loops
  <1>4. CASE pc[Master] \in Loops \cup {"arrive", "wait"}
    <2>1. Base = waits[Master]
      BY <1>4 DEF Base, Loops
    <2>. QED
      BY <1>1, <1>3, <1>4, <2>1 DEF HalfWay, Loops
  <1>5. CASE pc[Master] \in {"check", "fetch", "work", "arrive2", "wait2"}
    <2>1. Base = waits[Master] - 1
      BY <1>5 DEF Base, Loops
    <2>2. Base \in Nat /\ Base % 2 = 0
      BY <1>1, <1>2, <1>5, <2>1, Parities DEF HalfWay
    <2>. QED
      BY <1>1, <1>5, <2>1, <2>2 DEF Loops
  <1>6. CASE pc[Master] \in {"result", "delete"}
    <2>1. Base = waits[Master] - 2
      BY <1>6 DEF Base, Loops
    <2>2. waits[Master] >= 2
      BY <1>1, <1>6 DEF IInv, ParityInv
    <2>. QED
      BY <1>1, <1>3, <1>6, <2>1, <2>2 DEF HalfWay, Loops
  <1>. QED
    BY <1>4, <1>5, <1>6 DEF LoopLabels

\* Where a thread of a running loop is, by the waits it has finished.
LEMMA RunnerFacts ==
  ASSUME IInv, ~wrapped, ~stop, pc[Master] \in LoopLabels, NEW t \in Threads
  PROVE  /\ waits[t] \in Nat /\ Base \in Nat /\ Base % 2 = 0
         /\ HalfWay(t) => waits[t] % 2 = 1
         /\ ~HalfWay(t) => waits[t] % 2 = 0
         /\ pc[t] \in {"none", "spawn"} => waits[t] = 0
         /\ HasRun(t) => t = Master \/ t \in Numbered
         /\ pc[t] = "work" => waits[t] = Base + 1
  <1>1. ~Settled /\ group = Threads /\ pc[Master] # "join" /\ waits \in [Threads -> Nat]
    <2>1. pc[Master] \notin {"none", "start", "join"}
      BY DEF LoopLabels, Loops
    <2>2. waits \in [Threads -> Nat]
      BY PoolTypes DEF IInv, Barrier!TypeOK
    <2>. QED
      BY <2>1, <2>2, Sharing, ThreadsFinite DEF IInv, Settled
  <1>2. waits[t] \in Nat /\ waits[Master] \in Nat /\ Base \in Nat /\ Base % 2 = 0
    BY <1>1, BaseFacts, ThreadsFinite
  <1>3. (HalfWay(t) => waits[t] % 2 = 1) /\ (pc[t] \in {"none", "spawn"} => waits[t] = 0)
    BY <1>1 DEF IInv, ParityInv
  <1>4. ~HalfWay(t) => waits[t] % 2 = 0
    BY <1>1, <1>3 DEF IInv, ParityInv
  <1>5. HasRun(t) => t = Master \/ t \in Numbered
    BY <1>2, <1>3 DEF HasRun, Numbered, Others
  <1>6. ASSUME pc[t] = "work" PROVE waits[t] = Base + 1
    <2>1. pc[Master] \in {"wait", "check", "fetch", "work", "arrive2", "wait2"}
      BY <1>6, LoopIsOpen DEF LoopLabels, Loops
    <2>2. waits[Master] = Base \/ waits[Master] = Base + 1
      BY <2>1, BaseFacts DEF Loops
    <2>3. waits[Master] = Base => pc[Master] = "wait"
      BY <1>2, <2>1, BaseFacts
    <2>4. ~waiting[t] /\ waits[t] % 2 = 1
      BY <1>3, <1>6 DEF IInv, LabelInv, HalfWay
    <2>5. waits[t] <= waits[Master] + 1 /\ waits[Master] <= waits[t]
      BY <1>1, <1>2, <2>4, InStep, ThreadsFinite
    <2>6. ASSUME waits[t] = Base + 2 PROVE FALSE
      BY <1>2, <2>4, <2>6, Parities
    <2>7. ASSUME waits[t] = Base PROVE FALSE
      BY <1>2, <2>4, <2>7
    <2>. QED
      BY <1>2, <2>2, <2>5, <2>6, <2>7
  <1>. QED
    BY <1>2, <1>3, <1>4, <1>5, <1>6

\* A loop goes on, and nobody's worker returns.
Continues ==
  /\ ~stop /\ pc[Master] \in LoopLabels /\ ran' = ran
  /\ \A t \in Threads : (HasRun(t)' <=> HasRun(t)) /\ (HasRun(t) => my_id'[t] = my_id[t])

LEMMA RunsContinue ==
  ASSUME LoopInv, Continues
  PROVE  /\ \A t \in Threads : HasRun(t)' => my_id'[t] \in Ids
         /\ RanInv'
  <1>1. /\ \A t \in Threads : HasRun(t) => my_id[t] \in Ids
        /\ \A w \in Ids :
             ran[w] = IF \E t \in Threads : HasRun(t) /\ my_id[t] = w THEN 1 ELSE 0
    BY DEF LoopInv, RanInv, Continues
  <1>2. ASSUME NEW w \in Ids
        PROVE  (\E t \in Threads : HasRun(t)' /\ my_id'[t] = w)
                 <=> (\E t \in Threads : HasRun(t) /\ my_id[t] = w)
    BY DEF Continues
  <1>. HIDE DEF HasRun
  <1>3. \A w \in Ids :
          ran'[w] = IF \E t \in Threads : HasRun(t)' /\ my_id'[t] = w THEN 1 ELSE 0
    BY <1>1, <1>2 DEF Continues
  <1>. QED
    BY <1>1, <1>3 DEF Continues, RanInv

\* What keeps the base.
LEMMA SameBase ==
  ASSUME pc'[Master] = pc[Master], waits'[Master] = waits[Master]
  PROVE  Base' = Base
  BY DEF Base

LEMMA SameRun ==
  ASSUME Base' = Base, NEW t \in Threads, waits'[t] = waits[t],
         pc'[t] \in {"arrive2", "wait2"} <=> pc[t] \in {"arrive2", "wait2"}
  PROVE  HasRun(t)' <=> HasRun(t)
  BY DEF HasRun

LEMMA MasterContinues ==
  ASSUME IInv, ~wrapped, ~stop', pc'[Master] \in LoopLabels, MasterStep
  PROVE  Continues
  <1>. USE ThreadsFinite DEF Goto, program, pool, loop, ghosts, barrier
  <1>1. DOMAIN pc = Threads /\ LabelInv /\ waits \in [Threads -> Nat]
    BY PoolTypes DEF IInv, TypeOK, Barrier!TypeOK
  <1>2. AfterCall \notin LoopLabels
    BY DEF AfterCall, LoopLabels, Loops
  <1>3. ~Start /\ ~CreateThread
    <2>1. pc[Master] # "create"
      <3>1. ASSUME CreateThread PROVE FALSE
        <4>1. CASE i < NumThreads
          <5>1. pc[Master] = "create" /\ i \in Others
            BY <1>1, <3>1, <4>1, CreatedThread DEF CreateThread, IInv, TypeOK
          <5>2. pc'[Master] = "create"
            BY <1>1, <3>1, <4>1, <5>1 DEF CreateThread, Others
          <5>. QED
            BY <5>2 DEF LoopLabels, Loops
        <4>2. CASE ~(i < NumThreads)
          BY <1>1, <1>2, <3>1, <4>2 DEF CreateThread, Return
        <4>. QED
          BY <4>1, <4>2
      <3>. QED
        BY <3>1 DEF MasterStep, Start, CreateWorker, ReadResult, DeleteWorker, Stop, Recount,
                    FreeBarrier, LeaveFreed, JoinThread, Loops
    <2>2. ~Start
      BY <1>1, <1>2 DEF Start, Return, LoopLabels, Loops
    <2>. QED
      BY <2>1, <2>2 DEF CreateThread
  <1>4. ~Stop /\ ~Recount /\ ~FreeBarrier /\ ~LeaveFreed /\ ~JoinThread
    <2>1. ~Stop
      BY <1>1, <1>2 DEF Stop, Return
    <2>2. ~Recount /\ ~FreeBarrier /\ ~LeaveFreed /\ ~JoinThread
      BY <1>1 DEF LabelInv, Recount, FreeBarrier, LeaveFreed, JoinThread
    <2>. QED
      BY <2>1, <2>2
  <1>5. CreateWorker \/ ReadResult \/ DeleteWorker
    BY <1>3, <1>4 DEF MasterStep
  <1>6. /\ ~stop /\ UNCHANGED << ran, my_id, waits >> /\ pc[Master] \in LoopLabels
        /\ \A t \in Others : pc'[t] = pc[t]
    BY <1>1, <1>5 DEF CreateWorker, ReadResult, DeleteWorker, Return, LoopLabels, Others
  <1>7. \/ pc'[Master] = pc[Master]
        \/ pc[Master] \in Loops /\ pc'[Master] = "arrive"
        \/ pc[Master] = "result" /\ pc'[Master] = "delete"
    BY <1>1, <1>2, <1>5 DEF CreateWorker, ReadResult, DeleteWorker, Return
  <1>8. Base' = Base
    BY <1>6, <1>7 DEF Base, Loops
  <1>9. \A t \in Threads : pc'[t] \in {"arrive2", "wait2"} <=> pc[t] \in {"arrive2", "wait2"}
    BY <1>6, <1>7 DEF Others, Loops
  <1>. QED
    BY <1>6, <1>8, <1>9, SameRun DEF Continues

LEMMA ThreadContinues ==
  ASSUME IInv, ~wrapped, ~stop', pc'[Master] \in LoopLabels,
         NEW t \in Threads, ThreadStep(t), ~Work(t)
  PROVE  Continues
  <1>. USE ThreadsFinite DEF Goto, program, pool, loop, ghosts, barrier
  <1>1. /\ DOMAIN pc = Threads /\ waits \in [Threads -> Nat] /\ DOMAIN my_id = Threads
        /\ ~stop /\ ran' = ran
    BY PoolTypes
    DEF IInv, TypeOK, Barrier!TypeOK, ThreadStep, SpawnWorker, FirstArrive, FirstLeave, CheckStop,
        FetchWorker, SecondArrive, SecondLeave
  <1>2. \A u \in Threads : u # t => pc'[u] = pc[u] /\ waits'[u] = waits[u] /\ my_id'[u] = my_id[u]
    BY <1>1
    DEF ThreadStep, SpawnWorker, FirstArrive, FirstLeave, CheckStop, FetchWorker, SecondArrive,
        SecondLeave, Barrier!Arrive, Barrier!Leave
  <1>3. pc[Master] \in LoopLabels
    <2>1. CASE t = Master
      BY <1>1, <2>1
      DEF ThreadStep, SpawnWorker, Others, FirstArrive, FirstLeave, CheckStop, FetchWorker,
          SecondArrive, SecondLeave, LoopLabels
    <2>. QED
      BY <1>2, <2>1
  <1>4. SUFFICES /\ Base' = Base /\ (HasRun(t)' <=> HasRun(t))
                 /\ HasRun(t) => my_id'[t] = my_id[t]
    <2>1. ASSUME Base' = Base, NEW u \in Threads, u # t PROVE HasRun(u)' <=> HasRun(u)
      BY <1>2, <2>1, SameRun
    <2>. QED
      BY <1>1, <1>2, <1>3, <2>1 DEF Continues
  <1>5. /\ waits[t] \in Nat /\ Base \in Nat /\ Base % 2 = 0
        /\ HalfWay(t) => waits[t] % 2 = 1
        /\ ~HalfWay(t) => waits[t] % 2 = 0
        /\ pc[t] \in {"none", "spawn"} => waits[t] = 0
    BY <1>1, <1>3, RunnerFacts
  <1>6. CASE SpawnWorker(t)
    <2>1. t # Master /\ waits' = waits /\ pc[t] = "spawn" /\ pc'[t] = "arrive"
      BY <1>1, <1>6 DEF SpawnWorker, Others
    <2>2. Base' = Base
      BY <1>2, <2>1, SameBase
    <2>3. ~HasRun(t)
      BY <1>5, <2>1 DEF HasRun
    <2>. QED
      BY <2>1, <2>2, <2>3, SameRun
  <1>7. CASE FirstArrive(t) \/ CheckStop(t) \/ FetchWorker(t) \/ SecondArrive(t)
    <2>1. waits' = waits /\ my_id' = my_id
      BY <1>7 DEF FirstArrive, CheckStop, FetchWorker, SecondArrive, Barrier!Arrive
    <2>2. \/ pc[t] = "arrive" /\ pc'[t] = "wait"
          \/ pc[t] = "check" /\ pc'[t] = "fetch"
          \/ pc[t] = "fetch" /\ pc'[t] \in {"work", "crash"}
          \/ pc[t] = "arrive2" /\ pc'[t] = "wait2"
      BY <1>1, <1>7 DEF FirstArrive, CheckStop, FetchWorker, SecondArrive
    <2>3. Base' = Base
      <3>1. CASE t = Master
        BY <1>3, <2>1, <2>2, <3>1 DEF Base, LoopLabels, Loops
      <3>. QED
        BY <1>2, <3>1, SameBase
    <2>. QED
      BY <2>1, <2>2, <2>3, SameRun
  <1>8. CASE FirstLeave(t) \/ SecondLeave(t)
    <2>1. waits'[t] = waits[t] + 1 /\ my_id' = my_id
      BY <1>1, <1>8 DEF FirstLeave, SecondLeave, Barrier!Leave
    <2>2. \/ pc[t] = "wait" /\ pc'[t] = "check"
          \/ pc[t] = "wait2" /\ pc'[t] = (IF t = Master THEN AfterLoop ELSE "arrive")
      BY <1>1, <1>8 DEF FirstLeave, SecondLeave
    <2>3. Base' = Base
      <3>1. CASE t = Master
        <4>1. AfterLoop \in {"result", "delete"}
          BY DEF AfterLoop
        <4>. HIDE DEF AfterLoop
        <4>2. waits[Master] \in Nat /\ waits'[Master] = waits[Master] + 1
          BY <1>5, <2>1, <3>1
        <4>3. CASE pc[Master] = "wait" /\ pc'[Master] = "check"
          BY <4>2, <4>3 DEF Base, Loops
        <4>4. CASE pc[Master] = "wait2" /\ pc'[Master] \in {"result", "delete"}
          BY <4>2, <4>4 DEF Base, Loops
        <4>. QED
          BY <2>2, <3>1, <4>1, <4>3, <4>4
      <3>. QED
        BY <1>2, <3>1, SameBase
    <2>4. CASE pc[t] = "wait" /\ pc'[t] = "check"
      <3>1. waits[t] # Base + 1
        BY <1>5, <2>4, Parities DEF HalfWay
      <3>. QED
        BY <1>5, <2>1, <2>3, <2>4, <3>1 DEF HasRun
    <2>5. CASE pc[t] = "wait2" /\ pc'[t] \notin {"arrive2", "wait2"}
      <3>1. waits[t] # Base
        BY <1>5, <2>5 DEF HalfWay
      <3>. QED
        BY <1>5, <2>1, <2>3, <2>5, <3>1 DEF HasRun
    <2>. QED
      BY <2>2, <2>4, <2>5 DEF AfterLoop
  <1>. QED
    BY <1>6, <1>7, <1>8 DEF ThreadStep

\* The threads that can have run have numbers of their own.
LEMMA Distinct ==
  ASSUME NumberInv, ~stop, NEW t \in Numbered \cup {Master}, NEW u \in Numbered \cup {Master},
         my_id[t] = my_id[u]
  PROVE  t = u
  <1>1. my_id[Master] = 0 /\ \A v \in Numbered : 1 <= my_id[v]
    BY DEF NumberInv
  <1>2. CASE t \in Numbered /\ u \in Numbered
    BY <1>2 DEF NumberInv
  <1>3. ~(1 <= 0)
    OBVIOUS
  <1>. QED
    BY <1>1, <1>2, <1>3

LEMMA NotYetRun ==
  ASSUME IInv, ~wrapped, pc[Master] \in LoopLabels, NEW t \in Threads, pc[t] = "work"
  PROVE  /\ ~stop /\ my_id[t] \in Ids /\ ran[my_id[t]] = 0
         /\ waits[t] = Base + 1 /\ Base \in Nat
         /\ \A u \in Threads : HasRun(u) => my_id[u] # my_id[t]
  <1>1. ~stop /\ LoopInv /\ NumberInv /\ my_id[t] \in Ids
    BY DEF IInv, LoopInv
  <1>2. /\ waits[t] = Base + 1 /\ Base \in Nat
        /\ \A u \in Threads : HasRun(u) => u \in Numbered \cup {Master}
    BY <1>1, RunnerFacts
  <1>3. ~HasRun(t)
    BY <1>2 DEF HasRun
  <1>4. t \in Numbered \cup {Master}
    BY DEF Numbered, Others
  <1>5. \A u \in Threads : HasRun(u) => my_id[u] # my_id[t]
    BY <1>1, <1>2, <1>3, <1>4, Distinct
  <1>6. ran[my_id[t]] = 0
    BY <1>1, <1>5 DEF LoopInv, RanInv
  <1>. QED
    BY <1>1, <1>2, <1>5, <1>6

LEMMA WorkRuns ==
  ASSUME IInv, ~wrapped, ~stop', pc'[Master] \in LoopLabels, NEW t \in Threads, Work(t)
  PROVE  /\ \A u \in Threads : HasRun(u)' => my_id'[u] \in Ids
         /\ RanInv'
  <1>1. /\ DOMAIN pc = Threads /\ ran \in [Ids -> Nat] /\ LoopInv
        /\ pc[t] = "work" /\ pc' = [pc EXCEPT ![t] = "arrive2"]
        /\ ran' = [ran EXCEPT ![my_id[t]] = ran[my_id[t]] + 1]
        /\ my_id' = my_id /\ waits' = waits
    BY DEF IInv, TypeOK, LoopInv, Work, Goto, pool, barrier
  <1>2. pc[Master] \in LoopLabels
    BY <1>1, ThreadsFinite DEF LoopLabels
  <1>3. Base' = Base
    <2>1. CASE t = Master
      BY <1>1, <2>1 DEF Base, Loops
    <2>2. CASE t # Master
      BY <1>1, <2>2, SameBase, ThreadsFinite
    <2>. QED
      BY <2>1, <2>2
  <1>4. /\ ~stop /\ my_id[t] \in Ids /\ ran[my_id[t]] = 0
        /\ waits[t] = Base + 1 /\ Base \in Nat
        /\ \A u \in Threads : HasRun(u) => my_id[u] # my_id[t]
    BY <1>1, <1>2, NotYetRun
  <1>5. HasRun(t)'
    BY <1>1, <1>3, <1>4 DEF HasRun
  <1>6. \A u \in Threads : u # t => (HasRun(u)' <=> HasRun(u))
    BY <1>1, <1>3, SameRun
  <1>7. /\ \A u \in Threads : HasRun(u) => my_id[u] \in Ids
        /\ \A w \in Ids :
             ran[w] = IF \E u \in Threads : HasRun(u) /\ my_id[u] = w THEN 1 ELSE 0
    BY <1>1, <1>2, <1>4 DEF LoopInv, RanInv
  <1>. HIDE DEF HasRun
  <1>8. ASSUME NEW w \in Ids
        PROVE  ran'[w] = IF \E u \in Threads : HasRun(u)' /\ my_id[u] = w THEN 1 ELSE 0
    <2>1. CASE w = my_id[t]
      <3>1. ran'[w] = 1
        BY <1>1, <1>4, <2>1
      <3>. QED
        BY <1>5, <2>1, <3>1
    <2>2. CASE w # my_id[t]
      <3>1. ran'[w] = ran[w]
        BY <1>1, <2>2
      <3>2. (\E u \in Threads : HasRun(u)' /\ my_id[u] = w)
              <=> (\E u \in Threads : HasRun(u) /\ my_id[u] = w)
        BY <1>4, <1>5, <1>6, <2>2
      <3>. QED
        BY <1>7, <3>1, <3>2
    <2>. QED
      BY <2>1, <2>2
  <1>. QED
    BY <1>1, <1>4, <1>6, <1>7, <1>8 DEF RanInv

LEMMA CallRuns ==
  ASSUME IInv, ~wrapped, ~stop', pc'[Master] \in LoopLabels, NEW c \in Calls, Call(c)
  PROVE  /\ \A t \in Threads : HasRun(t)' => my_id'[t] \in Ids
         /\ RanInv'
  <1>1. /\ DOMAIN pc = Threads /\ pc[Master] = "main" /\ pc' = [pc EXCEPT ![Master] = c]
        /\ ~stop /\ waits' = waits /\ ran' = IF c \in Loops THEN [w \in Ids |-> 0] ELSE ran
        /\ c \in Loops \cup {"start", "stop"}
    BY CallsAssumption DEF IInv, TypeOK, Call, Goto, pool, barrier
  <1>2. c \in Loops /\ pc'[Master] = c /\ ran' = [w \in Ids |-> 0]
    BY <1>1, ThreadsFinite DEF LoopLabels, Loops
  <1>3. group = Threads /\ ~waiting[Master]
    BY <1>1, Sharing, ThreadsFinite DEF IInv, LabelInv
  <1>4. Base' = waits[Master]
    BY <1>1, <1>2 DEF Base, Loops
  <1>5. \A t \in Threads : waits[t] \in Nat /\ waits[Master] \in Nat /\ waits[t] <= waits[Master]
    BY <1>3, InStep, ThreadsFinite
  <1>6. \A t \in Threads : ~HasRun(t)'
    BY <1>1, <1>4, <1>5 DEF HasRun
  <1>. HIDE DEF HasRun
  <1>. QED
    BY <1>2, <1>6 DEF RanInv

\* How a thread comes to run a worker, and how the pool is stopped.
LEMMA Enters ==
  ASSUME IInv, [Next]_vars, NEW u \in Threads
  PROVE  /\ pc'[u] = "fetch" => pc[u] = "fetch" \/ (~stop /\ ~stop')
         /\ pc'[u] \in {"work", "crash"} => pc'[u] = pc[u] \/ FetchWorker(u)
         /\ pc'[u] = "work" => my_id'[u] = my_id[u]
         /\ stop' => stop \/ Stop
         /\ overtaken => overtaken'
  <1>. DEFINE Goal == /\ pc'[u] = "fetch" => pc[u] = "fetch" \/ (~stop /\ ~stop')
                      /\ pc'[u] \in {"work", "crash"} => pc'[u] = pc[u] \/ FetchWorker(u)
                      /\ pc'[u] = "work" => my_id'[u] = my_id[u]
                      /\ stop' => stop \/ Stop
                      /\ overtaken => overtaken'
  <1>. USE ThreadsFinite DEF Goto, program, pool, loop, ghosts
  <1>1. DOMAIN pc = Threads /\ DOMAIN my_id = Threads /\ Master \in Threads
    BY DEF IInv, TypeOK
  <1>2. CASE Start \/ CreateThread
    BY <1>1, <1>2 DEF Start, CreateThread, Return, AfterCall
  <1>3. CASE CreateWorker \/ ReadResult \/ DeleteWorker
    BY <1>1, <1>3 DEF CreateWorker, ReadResult, DeleteWorker, Return, AfterCall
  <1>4. CASE Stop
    <2>1. pc'[u] \notin {"fetch", "work", "crash"} \/ pc'[u] = pc[u]
      BY <1>1, <1>4 DEF Stop, Return, AfterCall
    <2>2. overtaken' = overtaken /\ my_id' = my_id
      BY <1>4 DEF Stop
    <2>. QED
      BY <1>4, <2>1, <2>2
  <1>5. CASE Recount
    <2>1. pc'[u] = "free" \/ pc'[u] = pc[u]
      BY <1>1, <1>5 DEF Recount
    <2>2. stop' = stop /\ my_id' = my_id
      BY <1>5 DEF Recount
    <2>3. overtaken => overtaken'
      BY <1>5 DEF Recount
    <2>. QED
      BY <2>1, <2>2, <2>3
  <1>6. CASE FreeBarrier \/ LeaveFreed \/ JoinThread
    BY <1>1, <1>6 DEF FreeBarrier, LeaveFreed, JoinThread, Return, AfterCall
  <1>7. ASSUME NEW t \in Threads, ThreadStep(t) PROVE Goal
    <2>1. CASE SpawnWorker(t) \/ FirstArrive(t) \/ FirstLeave(t)
      BY <1>1, <2>1 DEF SpawnWorker, FirstArrive, FirstLeave
    <2>2. CASE CheckStop(t)
      BY <1>1, <2>2 DEF CheckStop
    <2>3. CASE FetchWorker(t)
      <3>1. CASE u = t
        BY <1>1, <2>3, <3>1 DEF FetchWorker
      <3>2. CASE u # t
        BY <1>1, <2>3, <3>2 DEF FetchWorker
      <3>. QED
        BY <3>1, <3>2
    <2>4. CASE Work(t) \/ SecondArrive(t) \/ SecondLeave(t)
      BY <1>1, <2>4 DEF Work, SecondArrive, SecondLeave, AfterLoop
    <2>. QED
      BY <1>7, <2>1, <2>2, <2>3, <2>4 DEF ThreadStep
  <1>8. ASSUME NEW c \in Calls, Call(c) PROVE Goal
    <2>1. c \notin {"fetch", "work", "crash"}
      BY CallsAssumption DEF Loops
    <2>. QED
      BY <1>1, <1>8, <2>1 DEF Call
  <1>9. CASE Exit \/ UNCHANGED vars
    BY <1>1, <1>9 DEF Exit, vars
  <1>. QED
    BY <1>2, <1>3, <1>4, <1>5, <1>6, <1>7, <1>8, <1>9 DEF Next, MasterStep, Terminated

\* Unless the counter was set too early, there is a worker of a thread's number.
LEMMA OwnNumber ==
  ASSUME TypeOK, NumberInv, ~stop, ~overtaken, NEW t \in Numbered \cup {Master}
  PROVE  my_id[t] \in Ids
  <1>1. NumThreads \in Nat \ {0} /\ my_id \in [Threads -> Nat] /\ Numbered \subseteq Others
    BY NumThreadsAssumption DEF TypeOK, Numbered
  <1>2. CASE t = Master
    BY <1>1, <1>2 DEF NumberInv, Ids, Threads, Master
  <1>3. CASE t \in Numbered
    <2>1. my_id[t] < 1 + Cardinality(Numbered)
      BY <1>3 DEF NumberInv
    <2>2. IsFiniteSet(Others) /\ Cardinality(Others) = NumThreads - 1
      BY ThreadsFinite, FS_RemoveElement DEF Others
    <2>3. Cardinality(Numbered) \in Nat /\ Cardinality(Numbered) <= NumThreads - 1
      BY <1>1, <2>2, FS_Subset, FS_CardinalityType
    <2>4. my_id[t] \in Nat
      BY <1>1, <1>3, ThreadsFinite
    <2>. QED
      BY <1>1, <2>1, <2>3, <2>4 DEF Ids, Threads
  <1>. QED
    BY <1>2, <1>3

\* Then a thread finds its worker.
LEMMA Finds ==
  ASSUME IInv, ~wrapped, NEW t \in Threads, FetchWorker(t)
  PROVE  /\ pc'[t] = "work" => my_id[t] \in Ids
         /\ ~overtaken => pc'[t] = "work"
  <1>1. /\ pc[t] = "fetch" /\ DOMAIN pc = Threads /\ NumThreads \in Nat \ {0} /\ NumberInv
        /\ pc' = [pc EXCEPT ![t] =
             IF my_id[t] \in Ids /\ workers_array[my_id[t]] = "live" THEN "work" ELSE "crash"]
        /\ my_id \in [Threads -> Nat] /\ LoopInv
    BY NumThreadsAssumption DEF FetchWorker, IInv, TypeOK
  <1>2. pc'[t] = "work" => my_id[t] \in Ids
    BY <1>1
  <1>3. ASSUME ~overtaken PROVE pc'[t] = "work"
    <2>1. ~stop
      BY <1>1 DEF LoopInv
    <2>2. \A w \in Ids : workers_array[w] = "live"
      BY <1>1, <2>1, LoopIsOpen
    <2>3. my_id[t] \in Ids
      <3>1. t \in Numbered \cup {Master}
        BY <1>1 DEF Numbered, Others
      <3>. QED
        BY <1>3, <2>1, <3>1, OwnNumber DEF IInv
    <2>. QED
      BY <1>1, <2>2, <2>3
  <1>. QED
    BY <1>2, <1>3

LEMMA NextLoop ==
  ASSUME IInv, [Next]_vars, ~wrapped'
  PROVE  LoopInv'
  <1>1. ~wrapped /\ LoopInv
    BY WrappedStays DEF IInv
  <1>2. ASSUME stop', NEW t \in Threads PROVE pc'[t] \notin {"fetch", "work"}
    <2>1. ASSUME Stop, ~stop PROVE pc[t] \notin {"fetch", "work"}
      <3>1. pc[Master] = "stop"
        BY <2>1 DEF Stop
      <3>. QED
        BY <1>1, <2>1, <3>1, LoopIsOpen
    <2>2. pc[t] \notin {"fetch", "work"}
      BY <1>1, <1>2, <2>1, Enters DEF LoopInv
    <2>3. pc'[t] # "fetch"
      BY <1>2, <2>2, Enters
    <2>4. ~FetchWorker(t)
      BY <2>2 DEF FetchWorker
    <2>. QED
      BY <2>2, <2>3, <2>4, Enters
  <1>3. ASSUME ~overtaken', NEW t \in Threads PROVE pc'[t] # "crash"
    <2>1. ~overtaken
      BY <1>3, Enters
    <2>2. pc[t] # "crash"
      BY <1>1, <2>1 DEF LoopInv
    <2>3. FetchWorker(t) => pc'[t] = "work"
      BY <1>1, <2>1, Finds
    <2>. QED
      BY <2>2, <2>3, Enters
  <1>4. ASSUME NEW t \in Threads, pc'[t] = "work" PROVE my_id'[t] \in Ids
    <2>1. my_id'[t] = my_id[t] /\ (pc[t] = "work" \/ FetchWorker(t))
      BY <1>4, Enters
    <2>. QED
      BY <1>1, <1>4, <2>1, Finds DEF LoopInv
  <1>5. ASSUME ~stop', pc'[Master] \in LoopLabels
        PROVE  (\A t \in Threads : HasRun(t)' => my_id'[t] \in Ids) /\ RanInv'
    <2>1. CASE MasterStep
      BY <1>1, <1>5, <2>1, MasterContinues, RunsContinue
    <2>2. ASSUME NEW t \in Threads, ThreadStep(t)
          PROVE  (\A u \in Threads : HasRun(u)' => my_id'[u] \in Ids) /\ RanInv'
      <3>1. CASE Work(t)
        BY <1>1, <1>5, <3>1, WorkRuns
      <3>2. CASE ~Work(t)
        BY <1>1, <1>5, <2>2, <3>2, ThreadContinues, RunsContinue
      <3>. QED
        BY <3>1, <3>2
    <2>3. ASSUME NEW c \in Calls, Call(c)
          PROVE  (\A u \in Threads : HasRun(u)' => my_id'[u] \in Ids) /\ RanInv'
      BY <1>1, <1>5, <2>3, CallRuns
    <2>4. CASE Exit
      <3>1. pc'[Master] = "stop"
        BY <2>4, ThreadsFinite DEF Exit, Goto, IInv, TypeOK
      <3>. QED
        BY <1>5, <3>1 DEF LoopLabels, Loops
    <2>5. CASE UNCHANGED vars
      <3>1. pc' = pc /\ waits' = waits /\ ran' = ran /\ my_id' = my_id /\ stop' = stop
        BY <2>5 DEF vars
      <3>2. Base' = Base
        BY <3>1, SameBase
      <3>3. Continues
        BY <1>5, <3>1, <3>2, SameRun DEF Continues
      <3>. QED
        BY <1>1, <3>3, RunsContinue
    <2>. QED
      BY <2>1, <2>2, <2>3, <2>4, <2>5 DEF Next, Terminated
  <1>6. RanInv'
    BY <1>5 DEF RanInv
  <1>. QED
    BY <1>2, <1>3, <1>4, <1>5, <1>6 DEF LoopInv

LEMMA NextIInv == IInv /\ [Next]_vars => IInv'
  <1>. SUFFICES ASSUME IInv, [Next]_vars PROVE IInv'
    OBVIOUS
  <1>1. TypeOK' /\ Pool!IInv'
    BY NextTypes, NextPool
  <1>2. LabelInv' /\ ParityInv' /\ WorkersInv' /\ NumberInv'
    BY NextLabels, NextParity, NextWorkers, NextNumbers
  <1>3. ~wrapped' => LoopInv'
    BY NextLoop
  <1>. QED
    BY <1>1, <1>2, <1>3 DEF IInv

LEMMA Invariance == Spec => []IInv
  <1>. QED
    BY InitPool, NextIInv, PTL DEF Spec

-----------------------------------------------------------------------------
(* The theorems. *)

(***************************************************************************)
(* The variables have their types; the barrier is always set up for a      *)
(* group of threads of the pool.                                           *)
(***************************************************************************)
THEOREM HandlerTypes == Spec => []TypeOK
  <1>1. IInv => TypeOK
    BY DEF IInv
  <1>. QED
    BY <1>1, Invariance, PTL

(***************************************************************************)
(* parallel_for and parallel_reduce delete no worker while any thread runs *)
(* one, and start no loop with a worker missing - until the end of a round *)
(* does not fit in size_t.                                                 *)
(***************************************************************************)
THEOREM WorkersLive == Spec => [](~wrapped => WorkersOutliveWork)
  <1>1. IInv /\ ~wrapped => WorkersOutliveWork
    <2>. SUFFICES ASSUME IInv, ~wrapped, NEW t \in Threads, pc[t] = "work"
                  PROVE  \A w \in Ids : workers_array[w] = "live"
      BY DEF WorkersOutliveWork
    <2>1. ~stop
      BY DEF IInv, LoopInv
    <2>. QED
      BY <2>1, LoopIsOpen
  <1>. QED
    BY <1>1, Invariance, PTL

(***************************************************************************)
(* A thread that has passed the first barrier of work() finds a worker of  *)
(* its own, unless stop_threads() has set `counter` too early.             *)
(***************************************************************************)
THEOREM FindsWorker == Spec => [](~wrapped => FindsUnlessOvertaken)
  <1>1. IInv /\ ~wrapped => FindsUnlessOvertaken
    <2>. SUFFICES ASSUME IInv, ~wrapped, ~overtaken,
                         NEW t \in Threads, pc[t] \in {"fetch", "work", "crash"}
                  PROVE  /\ pc[t] # "crash" /\ my_id[t] \in Ids
                         /\ \A u \in Threads : pc[u] = pc[t] /\ my_id[u] = my_id[t] => u = t
      BY DEF FindsUnlessOvertaken, FindsItsWorker
    <2>1. pc[t] # "crash" /\ ~stop
      BY DEF IInv, LoopInv
    <2>2. \A u \in Threads : pc[u] = pc[t] => u \in Numbered \cup {Master}
      BY DEF Numbered, Others
    <2>. QED
      BY <2>1, <2>2, OwnNumber, Distinct DEF IInv
  <1>. QED
    BY <1>1, Invariance, PTL

(***************************************************************************)
(* start_threads() resets the barrier only when no thread waits at it and  *)
(* every thread of the previous pool has been joined.                      *)
(***************************************************************************)
THEOREM IdleRestart == Spec => []RestartsAnIdlePool
  <1>1. IInv => RestartsAnIdlePool
    <2>. SUFFICES ASSUME IInv, pc[Master] \in {"start", "main"}, stop
                  PROVE  \A t \in Threads : ~waiting[t] /\ (t \in Others => pc[t] = "none")
      BY DEF RestartsAnIdlePool
    <2>1. Settled
      BY DEF Settled
    <2>. QED
      BY <2>1 DEF IInv, LabelInv, Others
  <1>. QED
    BY <1>1, Invariance, PTL

\* When the master has passed the second barrier, every thread has run.
LEMMA AllHaveRun ==
  ASSUME IInv, ~wrapped, ~stop, pc[Master] \in {"result", "delete"}
  PROVE  /\ \A w \in Ids : ran[w] = 1
         /\ \A t \in Threads : pc[t] \notin {"check", "fetch", "work"}
  <1>1. pc[Master] \in LoopLabels /\ group = Threads /\ ~waiting[Master]
    BY Sharing, ThreadsFinite DEF IInv, LabelInv, LoopLabels
  <1>2. waits[Master] = Base + 2
    BY <1>1, BaseFacts
  <1>3. ASSUME NEW t \in Threads
        PROVE  HasRun(t) /\ pc[t] \notin {"check", "fetch", "work"}
    <2>1. /\ waits[t] \in Nat /\ Base \in Nat /\ Base % 2 = 0
          /\ HalfWay(t) => waits[t] % 2 = 1
          /\ ~HalfWay(t) => waits[t] % 2 = 0
      BY <1>1, RunnerFacts
    <2>2. waits[t] <= Base + 2 /\ Base + 2 <= waits[t] + (IF waiting[t] THEN 1 ELSE 0)
      BY <1>1, <1>2, <2>1, InStep, ThreadsFinite
    <2>3. CASE waits[t] = Base + 1
      <3>1. HalfWay(t) /\ waiting[t]
        BY <2>1, <2>2, <2>3, Parities
      <3>2. pc[t] = "wait2"
        BY <3>1, <1>1 DEF IInv, LabelInv, HalfWay, Others, OtherLabels
      <3>. QED
        BY <2>3, <3>2 DEF HasRun
    <2>4. CASE waits[t] = Base + 2
      <3>1. ~HalfWay(t)
        BY <2>1, <2>4, Parities
      <3>. QED
        BY <2>1, <2>4, <3>1 DEF HasRun, HalfWay
    <2>. QED
      BY <2>1, <2>2, <2>3, <2>4
  <1>4. my_id \in [Threads -> Threads]
    BY <1>1, <1>3 DEF IInv, TypeOK, LoopInv, Ids
  <1>5. \A t \in Threads : t \in Numbered \cup {Master}
    BY <1>1, <1>3, RunnerFacts
  <1>6. my_id \in Injection(Threads, Threads)
    BY <1>4, <1>5, Distinct DEF IInv, Injection, IsInjective
  <1>7. my_id \in Surjection(Threads, Threads)
    BY <1>6, ThreadsFinite, FS_Injection
  <1>8. \A w \in Ids : \E t \in Threads : my_id[t] = w
    BY <1>7 DEF Surjection, Ids
  <1>. QED
    BY <1>1, <1>3, <1>8 DEF IInv, LoopInv, RanInv

(***************************************************************************)
(* parallel_reduce reads its result after every worker of the loop has     *)
(* run, each once, and while none is at work, however many threads.        *)
(***************************************************************************)
THEOREM FinalResult == Spec => [](~wrapped => ResultIsFinal)
  <1>1. IInv /\ ~wrapped => ResultIsFinal
    <2>. SUFFICES ASSUME IInv, ~wrapped, pc[Master] = "result"
                  PROVE  /\ workers_array[Master] = "live"
                         /\ stop \/ \A w \in Ids : ran[w] = 1
                         /\ \A t \in Threads : pc[t] \notin {"check", "fetch", "work"}
      BY DEF ResultIsFinal
    <2>1. workers_array[Master] = "live"
      BY ThreadsFinite DEF IInv, WorkersInv, Ids
    <2>2. CASE stop
      BY <2>1, <2>2 DEF IInv, LabelInv, Settled, Others
    <2>3. CASE ~stop
      BY <2>1, <2>3, AllHaveRun
    <2>. QED
      BY <2>2, <2>3
  <1>. QED
    BY <1>1, Invariance, PTL

-----------------------------------------------------------------------------
(* The pool implements ForkJoin, as long as it has more than one thread.   *)

(***************************************************************************)
(* The master is in a loop exactly when `call` says so, and never crashes; *)
(* in a stopped pool it does not get past the first wait, since no other   *)
(* thread is left to begin another.                                        *)
(***************************************************************************)
CallInv ==
  /\ pc[Master] \in LoopLabels => call \in Loops
  /\ pc[Master] \notin LoopLabels \cup {"main"} => call \notin Loops
  /\ pc[Master] # "crash"

StoppedInv ==
  stop /\ pc[Master] \in LoopLabels =>
    \/ pc[Master] \in Loops \cup {"arrive"}
    \/ pc[Master] = "wait" /\ \A t \in Others : waits[t] = waits[Master]

\* The master's own worker is number 0.
LEMMA MasterFinds ==
  ASSUME IInv, ~wrapped, FetchWorker(Master)
  PROVE  pc'[Master] = "work"
  <1>1. /\ pc[Master] = "fetch" /\ DOMAIN pc = Threads /\ my_id[Master] = 0 /\ 0 \in Ids
        /\ pc' = [pc EXCEPT ![Master] =
             IF my_id[Master] \in Ids /\ workers_array[my_id[Master]] = "live"
               THEN "work" ELSE "crash"]
    BY ThreadsFinite DEF FetchWorker, IInv, TypeOK, NumberInv, Ids, Master
  <1>2. \A w \in Ids : workers_array[w] = "live"
    BY <1>1 DEF IInv, WorkersInv
  <1>. QED
    BY <1>1, <1>2, ThreadsFinite

\* InStep, before and after a step.
InStepGoal ==
  IInv /\ ~wrapped /\ group = Threads =>
    \A t, u \in Threads : ~waiting[u] => waits[t] <= waits[u]

LEMMA InStepHere == InStepGoal
  BY InStep DEF InStepGoal

LEMMA InStepNext == InStepGoal'
  BY InStepHere, PTL

LEMMA NextCall ==
  ASSUME IInv, ~wrapped, CallInv, [Next]_vars
  PROVE  CallInv'
  <1>. USE ThreadsFinite DEF Goto, program, LoopLabels, Loops
  <1>1. DOMAIN pc = Threads /\ Master \in Threads /\ Master \notin Others
    BY DEF IInv, TypeOK, Others
  <1>2. CASE Start
    BY <1>1, <1>2 DEF CallInv, Start, Return, AfterCall
  <1>3. CASE CreateThread
    <2>1. CASE i < NumThreads
      <3>1. i \in Others /\ pc[Master] = "create" /\ call' = call
        BY <1>3, <2>1, CreatedThread DEF CreateThread, IInv, TypeOK
      <3>2. pc'[Master] = pc[Master]
        BY <1>1, <1>3, <2>1, <3>1 DEF CreateThread
      <3>. QED
        BY <3>1, <3>2 DEF CallInv
    <2>2. CASE ~(i < NumThreads)
      BY <1>1, <1>3, <2>2 DEF CallInv, CreateThread, Return, AfterCall
    <2>. QED
      BY <2>1, <2>2
  <1>4. CASE CreateWorker \/ ReadResult \/ DeleteWorker
    BY <1>1, <1>4 DEF CallInv, CreateWorker, ReadResult, DeleteWorker, Return, AfterCall
  <1>5. CASE Stop \/ Recount \/ FreeBarrier \/ LeaveFreed
    BY <1>1, <1>5 DEF CallInv, Stop, Recount, FreeBarrier, LeaveFreed, Return, AfterCall
  <1>6. CASE JoinThread
    <2>1. pc[Master] = "join" /\ call' = call /\ call \notin Loops
      BY <1>6 DEF JoinThread, CallInv
    <2>2. pc'[Master] \in {"join", "none", "exit", "main"}
      BY <1>1, <1>6, <2>1 DEF JoinThread, Return, AfterCall
    <2>. QED
      BY <2>1, <2>2 DEF CallInv
  <1>7. ASSUME NEW t \in Threads, ThreadStep(t) PROVE CallInv'
    <2>1. call' = call
      BY <1>7 DEF ThreadStep, SpawnWorker, FirstArrive, FirstLeave, CheckStop, FetchWorker, Work,
                  SecondArrive, SecondLeave
    <2>2. pc'[Master] = pc[Master] \/ (pc[Master] \in LoopLabels /\ pc'[Master] \in LoopLabels)
      <3>1. CASE t # Master
        BY <1>1, <1>7, <3>1
        DEF ThreadStep, SpawnWorker, FirstArrive, FirstLeave, CheckStop, FetchWorker, Work,
            SecondArrive, SecondLeave
      <3>2. CASE t = Master /\ FetchWorker(t)
        BY <1>1, <3>2, MasterFinds DEF FetchWorker
      <3>3. CASE t = Master /\ ~FetchWorker(t)
        BY <1>1, <1>7, <3>3
        DEF ThreadStep, SpawnWorker, FirstArrive, FirstLeave, CheckStop, Work,
            SecondArrive, SecondLeave, AfterLoop
      <3>. QED
        BY <3>1, <3>2, <3>3
    <2>. QED
      BY <2>1, <2>2 DEF CallInv
  <1>8. ASSUME NEW c \in Calls, Call(c) PROVE CallInv'
    <2>1. c \in Loops \cup {"start", "stop"}
      BY CallsAssumption
    <2>. QED
      BY <1>1, <1>8, <2>1 DEF CallInv, Call
  <1>9. CASE Exit
    BY <1>1, <1>9 DEF CallInv, Exit
  <1>10. CASE UNCHANGED vars
    BY <1>10 DEF CallInv, vars
  <1>. QED
    BY <1>2, <1>3, <1>4, <1>5, <1>6, <1>7, <1>8, <1>9, <1>10 DEF Next, MasterStep, Terminated

LEMMA NextStopped ==
  ASSUME IInv, IInv', ~wrapped, ~wrapped', NumThreads > 1, StoppedInv, [Next]_vars
  PROVE  StoppedInv'
  <1>. USE ThreadsFinite DEF Goto, program, pool, barrier, LoopLabels, Loops
  <1>. SUFFICES ASSUME stop', pc'[Master] \in LoopLabels
                PROVE  \/ pc'[Master] \in Loops \cup {"arrive"}
                       \/ pc'[Master] = "wait" /\ \A t \in Others : waits'[t] = waits'[Master]
    BY DEF StoppedInv
  <1>1. DOMAIN pc = Threads /\ LabelInv /\ LabelInv' /\ Master \notin Others
    BY DEF IInv, TypeOK, Others
  <1>2. Settled' /\ group' = Threads /\ \A t \in Others : pc'[t] = "none"
    BY <1>1 DEF LabelInv, Settled
  <1>3. CASE MasterStep
    BY <1>1, <1>3
    DEF MasterStep, Start, CreateThread, CreateWorker, ReadResult, DeleteWorker, Stop, Recount,
        FreeBarrier, LeaveFreed, JoinThread, Return, AfterCall, StoppedInv
  <1>4. ASSUME NEW t \in Threads, ThreadStep(t)
        PROVE  \/ pc'[Master] \in Loops \cup {"arrive"}
               \/ pc'[Master] = "wait" /\ \A u \in Others : waits'[u] = waits'[Master]
    <2>1. stop
      BY <1>4 DEF ThreadStep, SpawnWorker, FirstArrive, FirstLeave, CheckStop, FetchWorker, Work,
                  SecondArrive, SecondLeave
    <2>2. t = Master
      <3>1. SUFFICES ASSUME t \in Others PROVE FALSE
        BY DEF Others
      <3>2. pc[t] \notin {"none"}
        BY <1>4 DEF ThreadStep, SpawnWorker, FirstArrive, FirstLeave, CheckStop, FetchWorker, Work,
                    SecondArrive, SecondLeave
      <3>3. pc'[Master] = pc[Master]
        BY <1>1, <1>4, <3>1
        DEF ThreadStep, SpawnWorker, FirstArrive, FirstLeave, CheckStop, FetchWorker, Work,
            SecondArrive, SecondLeave
      <3>. QED
        BY <1>1, <2>1, <3>1, <3>2, <3>3 DEF LabelInv, Settled
    <2>3. CASE pc[Master] = "arrive"
      <3>1. FirstArrive(t)
        BY <1>4, <2>2, <2>3
        DEF ThreadStep, SpawnWorker, FirstLeave, CheckStop, FetchWorker, Work, SecondArrive, SecondLeave
      <3>2. pc'[Master] = "wait" /\ waits' = waits
        BY <1>1, <2>2, <3>1 DEF FirstArrive, Barrier!Arrive
      <3>3. ~waiting[Master] /\ group = Threads /\ \A u \in Others : ~waiting[u]
        BY <1>1, <2>1, <2>3 DEF LabelInv, Settled
      <3>4. \A u \in Others : waits[u] = waits[Master]
        BY <3>3, InStep
      <3>. QED
        BY <3>2, <3>4
    <2>4. CASE pc[Master] = "wait" /\ \A u \in Others : waits[u] = waits[Master]
      <3>1. FirstLeave(t)
        BY <1>4, <2>2, <2>4
        DEF ThreadStep, SpawnWorker, FirstArrive, CheckStop, FetchWorker, Work, SecondArrive, SecondLeave
      <3>2. 1 \in Others
        BY NumThreadsAssumption DEF Others, Threads, Master
      <3>3. waits \in [Threads -> Nat] /\ waits'[Master] = waits[Master] + 1 /\ waits'[1] = waits[1]
        BY <2>2, <3>1, <3>2, PoolTypes, <1>1 DEF FirstLeave, Barrier!Leave, IInv, Barrier!TypeOK
      <3>4. ~waiting'[1]
        BY <1>1, <1>2, <3>2 DEF LabelInv
      <3>5. waits'[Master] <= waits'[1]
        BY <1>2, <3>2, <3>4, InStepNext DEF InStepGoal
      <3>. QED
        BY <2>4, <3>2, <3>3, <3>5
    <2>. QED
      BY <1>1, <1>4, <2>1, <2>2, <2>3, <2>4
      DEF StoppedInv, ThreadStep, SpawnWorker, Others, FirstArrive, FirstLeave, CheckStop,
          FetchWorker, Work, SecondArrive, SecondLeave
  <1>5. ASSUME NEW c \in Calls, Call(c) PROVE pc'[Master] \in Loops \cup {"arrive"}
    BY <1>1, <1>5, CallsAssumption DEF Call
  <1>6. CASE Exit
    BY <1>1, <1>6 DEF Exit
  <1>7. CASE UNCHANGED vars
    BY <1>7 DEF vars, StoppedInv
  <1>. QED
    BY <1>3, <1>4, <1>5, <1>6, <1>7 DEF Next, Terminated

Calling == call \in Loops /\ pc[Master] # "main"

LEMMA ForkJoinStep ==
  ASSUME IInv, ~wrapped, CallInv, StoppedInv, [Next]_vars
  PROVE  [Promise!Next]_<< Calling, ran >>
  <1>. USE ThreadsFinite DEF Goto, program, loop
  <1>1. DOMAIN pc = Threads /\ Master \notin Others /\ ran \in [Ids -> Nat]
    BY DEF IInv, TypeOK, Others
  <1>. DEFINE Stutter == UNCHANGED << Calling, ran >>
  <1>2. ASSUME call' = call, ran' = ran, call \notin Loops PROVE Stutter
    BY <1>2 DEF Calling
  <1>3. ASSUME call' = call, ran' = ran, pc[Master] # "main", pc'[Master] # "main" PROVE Stutter
    BY <1>3 DEF Calling
  <1>4. pc[Master] \notin LoopLabels \cup {"main"} => call \notin Loops
    BY DEF CallInv
  <1>5. CASE Start \/ CreateThread \/ Stop \/ Recount \/ FreeBarrier \/ LeaveFreed \/ JoinThread
    <2>1. pc[Master] \in {"start", "create", "stop", "recount", "free", "freed", "join"}
          /\ call' = call /\ ran' = ran
      BY <1>5 DEF Start, CreateThread, Stop, Recount, FreeBarrier, LeaveFreed, JoinThread
    <2>. QED
      BY <1>2, <1>4, <2>1 DEF LoopLabels, Loops
  <1>6. CASE CreateWorker \/ ReadResult
    BY <1>1, <1>3, <1>6 DEF CreateWorker, ReadResult, Loops
  <1>7. CASE DeleteWorker
    <2>1. pc[Master] = "delete" /\ call' = call /\ ran' = ran
      BY <1>7 DEF DeleteWorker
    <2>2. CASE i < NumThreads
      BY <1>3, <1>7, <2>1, <2>2 DEF DeleteWorker
    <2>3. CASE ~(i < NumThreads)
      <3>1. ~stop /\ call \in Loops
        BY <2>1 DEF StoppedInv, CallInv, LoopLabels, Loops
      <3>2. \A w \in Ids : ran[w] = 1
        BY <2>1, <3>1, AllHaveRun
      <3>3. pc'[Master] = "main"
        BY <1>1, <1>7, <2>3, <3>1 DEF DeleteWorker, Return, AfterCall, Loops
      <3>4. Promise!Join
        BY <2>1, <3>1, <3>2, <3>3 DEF Promise!Join
      <3>. QED
        BY <3>4 DEF Promise!Next, Calling
    <2>. QED
      BY <2>2, <2>3
  <1>8. ASSUME NEW t \in Threads, ThreadStep(t) PROVE [Promise!Next]_<< Calling, ran >>
    <2>1. call' = call
      BY <1>8 DEF ThreadStep, SpawnWorker, FirstArrive, FirstLeave, CheckStop, FetchWorker, Work,
                  SecondArrive, SecondLeave
    <2>2. pc'[Master] = pc[Master] \/ (pc[Master] # "main" /\ pc'[Master] # "main")
      BY <1>1, <1>8
      DEF ThreadStep, SpawnWorker, FirstArrive, FirstLeave, CheckStop, FetchWorker, Work,
          SecondArrive, SecondLeave, AfterLoop
    <2>3. Calling' = Calling
      BY <2>1, <2>2 DEF Calling
    <2>4. CASE Work(t)
      <3>1. pc[t] = "work" /\ ran' = [ran EXCEPT ![my_id[t]] = ran[my_id[t]] + 1]
        BY <2>4 DEF Work
      <3>2. ~stop
        BY <3>1 DEF IInv, LoopInv
      <3>3. pc[Master] \in {"wait", "check", "fetch", "work", "arrive2", "wait2", "crash"}
        BY <3>1, <3>2, LoopIsOpen
      <3>4. pc[Master] \in LoopLabels /\ call \in Loops
        BY <3>3 DEF CallInv, LoopLabels
      <3>5. my_id[t] \in Ids /\ ran[my_id[t]] = 0
        BY <3>1, <3>4, NotYetRun
      <3>6. Calling /\ ran' = [ran EXCEPT ![my_id[t]] = 1]
        BY <3>1, <3>3, <3>4, <3>5 DEF Calling
      <3>7. Promise!Work(my_id[t])
        BY <2>3, <3>5, <3>6 DEF Promise!Work, Calling
      <3>. QED
        BY <3>5, <3>7 DEF Promise!Next
    <2>5. CASE ~Work(t)
      <3>1. ran' = ran
        BY <1>8, <2>5 DEF ThreadStep, SpawnWorker, FirstArrive, FirstLeave, CheckStop,
                          FetchWorker, SecondArrive, SecondLeave
      <3>. QED
        BY <2>3, <3>1
    <2>. QED
      BY <2>4, <2>5
  <1>9. ASSUME NEW c \in Calls, Call(c) PROVE [Promise!Next]_<< Calling, ran >>
    <2>1. c \in Loops \cup {"start", "stop"} /\ pc[Master] = "main" /\ pc'[Master] = c /\ call' = c
      BY <1>1, <1>9, CallsAssumption DEF Call
    <2>2. CASE c \in Loops
      <3>1. c # "main" /\ ran' = [w \in Ids |-> 0]
        BY <1>9, <2>2 DEF Call, Loops
      <3>2. Promise!Fork
        BY <2>1, <2>2, <3>1 DEF Promise!Fork
      <3>. QED
        BY <3>2 DEF Promise!Next
    <2>3. CASE c \notin Loops
      BY <1>9, <2>1, <2>3 DEF Call, Calling
    <2>. QED
      BY <2>2, <2>3
  <1>10. CASE Exit
    BY <1>1, <1>10 DEF Exit, Calling, Loops
  <1>11. CASE UNCHANGED vars
    BY <1>11 DEF vars, Calling
  <1>. QED
    BY <1>5, <1>6, <1>7, <1>8, <1>9, <1>10, <1>11 DEF Next, MasterStep, Terminated

(***************************************************************************)
(* A pool of more than one thread implements ForkJoin: a loop returns only *)
(* when each of its workers has run exactly once, whatever the threads'    *)
(* numbers, and whatever calls came before - until the end of a round does *)
(* not fit in size_t.                                                      *)
(***************************************************************************)
THEOREM IsForkJoin ==
  ASSUME NumThreads > 1
  PROVE  Spec /\ []~wrapped => ImplementsForkJoin
  <1>1. Init => CallInv /\ StoppedInv /\ Promise!Init
    BY ThreadsFinite DEF Init, CallInv, StoppedInv, LoopLabels, Loops, Promise!Init
  <1>2. IInv /\ IInv' /\ ~wrapped /\ ~wrapped' /\ CallInv /\ StoppedInv /\ [Next]_vars
          => CallInv' /\ StoppedInv'
    BY NextCall, NextStopped
  <1>3. IInv /\ ~wrapped /\ CallInv /\ StoppedInv /\ [Next]_vars
          => [Promise!Next]_<< call \in Loops /\ pc[Master] # "main", ran >>
    BY ForkJoinStep DEF Calling
  <1>4. Spec => []IInv
    BY Invariance
  <1>. QED
    BY <1>1, <1>2, <1>3, <1>4, PTL DEF Spec, ImplementsForkJoin, Promise!Spec

-----------------------------------------------------------------------------
(* The pool does not deadlock. *)

(***************************************************************************)
(* Threads end only in a stopped pool.  There, one that is still inside    *)
(* the second wait of the last loop is a round behind the master and finds *)
(* it over, and none begins another.                                       *)
(***************************************************************************)
ExitInv == ~stop => \A t \in Others : pc[t] # "exit"
DrainInv ==
  stop => \A t \in Others :
    pc[t] # "arrive2" /\ (pc[t] = "wait2" => waits[t] < waits[Master])

(***************************************************************************)
(* If no creation failed a running pool has all of its threads, but for    *)
(* those still to be created and those joined already.                     *)
(***************************************************************************)
MadeInv ==
  ~missing /\ ~Settled => \A t \in Others : pc[t] = "none" =>
    (pc[Master] = "create" /\ t >= i) \/ (pc[Master] = "join" /\ t < i)
JoinInv ==
  pc[Master] = "join" => \A t \in Others :
    IF t < i THEN waits[t] % 2 = 1 ELSE pc[t] = "none" => waits[t] = 0

MoveInv == ExitInv /\ DrainInv /\ MadeInv /\ JoinInv

LEMMA NextExit ==
  ASSUME IInv, ExitInv, [Next]_vars
  PROVE  ExitInv'
  <1>. USE ThreadsFinite DEF Goto, program, pool, loop, ghosts, barrier, Loops
  <1>1. DOMAIN pc = Threads /\ LabelInv /\ Master \notin Others
    BY DEF IInv, TypeOK, Others
  <1>2. CASE MasterStep
    BY <1>1, <1>2
    DEF ExitInv, LabelInv, Settled, MasterStep, Start, CreateThread, CreateWorker, ReadResult,
        DeleteWorker, Stop, Recount, FreeBarrier, LeaveFreed, JoinThread, Return, AfterCall
  <1>3. ASSUME NEW t \in Threads, ThreadStep(t) PROVE ExitInv'
    BY <1>1, <1>3
    DEF ExitInv, ThreadStep, SpawnWorker, FirstArrive, FirstLeave, CheckStop, FetchWorker, Work,
        SecondArrive, SecondLeave
  <1>4. ASSUME NEW c \in Calls, Call(c) PROVE ExitInv'
    BY <1>1, <1>4 DEF ExitInv, Call
  <1>5. CASE Exit
    BY <1>1, <1>5 DEF ExitInv, Exit
  <1>6. CASE UNCHANGED vars
    BY <1>6 DEF ExitInv, vars
  <1>. QED
    BY <1>2, <1>3, <1>4, <1>5, <1>6 DEF Next, Terminated

\* When the master stops the pool all threads have begun what it has finished.
LEMMA StopDrains ==
  ASSUME IInv, ~wrapped, ~stop, pc[Master] = "stop", NEW t \in Others
  PROVE  pc[t] # "arrive2" /\ (pc[t] = "wait2" => waits[t] < waits[Master])
  <1>1. /\ t \in Threads /\ Master \in Threads /\ group = Threads /\ ~Settled
        /\ waiting[Master] = FALSE /\ (waiting[t] <=> pc[t] \in {"wait", "wait2", "freed"})
    BY ThreadsFinite, Sharing, PoolTypes DEF IInv, LabelInv, Settled, Barrier!TypeOK
  <1>2. /\ waits[t] \in Nat /\ waits[Master] \in Nat /\ waits[t] <= waits[Master]
        /\ waits[Master] <= waits[t] + (IF waiting[t] THEN 1 ELSE 0)
    BY <1>1, InStep
  <1>3. waits[Master] % 2 = 0 /\ (pc[t] \in {"arrive2", "wait2"} => waits[t] % 2 = 1)
    BY <1>1 DEF IInv, ParityInv, HalfWay
  <1>. QED
    BY <1>1, <1>2, <1>3

LEMMA NextDrain ==
  ASSUME IInv, ~wrapped, DrainInv, [Next]_vars
  PROVE  DrainInv'
  <1>. USE ThreadsFinite DEF Goto, program, pool, loop, ghosts, barrier, Loops
  <1>1. /\ DOMAIN pc = Threads /\ LabelInv /\ Master \notin Others /\ waits \in [Threads -> Nat]
        /\ stop \in BOOLEAN
    BY PoolTypes DEF IInv, TypeOK, Barrier!TypeOK, Others
  <1>2. CASE Start
    BY <1>1, <1>2 DEF DrainInv, Start, Return, AfterCall
  <1>3. CASE Stop
    <2>1. CASE stop
      BY <1>1, <1>3, <2>1 DEF DrainInv, Stop, Return, AfterCall
    <2>2. CASE ~stop
      <3>1. \A t \in Others : pc'[t] = pc[t] /\ waits' = waits
        BY <1>1, <1>3, <2>2 DEF Stop
      <3>. QED
        BY <1>3, <2>2, <3>1, StopDrains DEF DrainInv, Stop
    <2>. QED
      BY <2>1, <2>2
  <1>4. CASE CreateThread \/ CreateWorker \/ ReadResult \/ DeleteWorker \/ Recount \/ JoinThread
    BY <1>1, <1>4 DEF DrainInv, CreateThread, CreateWorker, ReadResult, DeleteWorker, Recount,
                      JoinThread, Return, AfterCall
  <1>5. CASE FreeBarrier
    BY <1>1, <1>5 DEF DrainInv, FreeBarrier, Barrier!Arrive
  <1>6. CASE LeaveFreed
    <2>1. /\ waits'[Master] = waits[Master] + 1 /\ stop' = stop
          /\ \A t \in Others : waits'[t] = waits[t] /\ pc'[t] = pc[t]
      BY <1>1, <1>6 DEF LeaveFreed, Barrier!Leave
    <2>. QED
      BY <1>1, <2>1 DEF DrainInv
  <1>7. ASSUME NEW t \in Threads, ThreadStep(t) PROVE DrainInv'
    <2>0. stop' = stop
      BY <1>7 DEF ThreadStep, SpawnWorker, FirstArrive, FirstLeave, CheckStop, FetchWorker, Work,
                  SecondArrive, SecondLeave
    <2>1. CASE SpawnWorker(t) \/ CheckStop(t) \/ FetchWorker(t)
      BY <1>1, <2>1 DEF DrainInv, SpawnWorker, CheckStop, FetchWorker
    <2>2. CASE Work(t)
      <3>1. ~stop
        BY <2>2 DEF Work, IInv, LoopInv
      <3>. QED
        BY <2>0, <3>1 DEF DrainInv
    <2>3. CASE FirstArrive(t)
      BY <1>1, <2>3 DEF DrainInv, FirstArrive, Barrier!Arrive
    <2>4. CASE SecondArrive(t)
      <3>1. waits' = waits /\ pc[t] = "arrive2" /\ pc' = [pc EXCEPT ![t] = "wait2"]
        BY <2>4 DEF SecondArrive, Barrier!Arrive
      <3>. QED
        BY <1>1, <2>0, <3>1 DEF DrainInv
    <2>5. CASE FirstLeave(t) \/ SecondLeave(t)
      <3>1. waits' = [waits EXCEPT ![t] = @ + 1] /\ \A u \in Threads : u # t => pc'[u] = pc[u]
        BY <1>1, <2>5 DEF FirstLeave, SecondLeave, Barrier!Leave
      <3>2. t # Master => pc'[t] \in {"check", "arrive"}
        BY <1>1, <2>5 DEF FirstLeave, SecondLeave
      <3>3. waits'[Master] >= waits[Master] /\ \A u \in Threads : u # t => waits'[u] = waits[u]
        BY <1>1, <3>1
      <3>4. ASSUME stop, NEW u \in Others
            PROVE  pc'[u] # "arrive2" /\ (pc'[u] = "wait2" => waits'[u] < waits'[Master])
        <4>1. CASE u = t
          BY <1>1, <3>2, <4>1
        <4>2. CASE u # t
          <5>1. pc'[u] = pc[u] /\ waits'[u] = waits[u] /\ u \in Threads
            BY <3>1, <3>3, <4>2
          <5>2. pc[u] # "arrive2" /\ (pc[u] = "wait2" => waits[u] < waits[Master])
            BY <3>4 DEF DrainInv
          <5>3. waits'[Master] \in Nat
            BY <1>1, <3>1
          <5>. QED
            BY <1>1, <3>3, <5>1, <5>2, <5>3
        <4>. QED
          BY <4>1, <4>2
      <3>. QED
        BY <2>0, <3>4 DEF DrainInv
    <2>. QED
      BY <1>7, <2>1, <2>2, <2>3, <2>4, <2>5 DEF ThreadStep
  <1>8. ASSUME NEW c \in Calls, Call(c) PROVE DrainInv'
    BY <1>1, <1>8 DEF DrainInv, Call
  <1>9. CASE Exit
    BY <1>1, <1>9 DEF DrainInv, Exit
  <1>10. CASE UNCHANGED vars
    BY <1>10 DEF DrainInv, vars
  <1>. QED
    BY <1>2, <1>3, <1>4, <1>5, <1>6, <1>7, <1>8, <1>9, <1>10 DEF Next, MasterStep, Terminated

LEMMA NextMade ==
  ASSUME IInv, MadeInv, [Next]_vars
  PROVE  MadeInv'
  <1>. USE ThreadsFinite DEF Goto, program, pool, loop, ghosts, barrier, Loops, Settled
  <1>1. /\ DOMAIN pc = Threads /\ LabelInv /\ Master \notin Others /\ i \in Nat
        /\ \A t \in Others : t \in Nat /\ t >= 1 /\ t < NumThreads
        /\ missing \in BOOLEAN /\ stop \in BOOLEAN /\ NumThreads \in Nat
    BY NumThreadsAssumption DEF IInv, TypeOK, Others, Threads, Master
  <1>2. CASE Start
    BY <1>1, <1>2 DEF MadeInv, Start, Return, AfterCall
  <1>3. CASE CreateThread
    <2>1. CASE i < NumThreads
      <3>1. i \in Others /\ i' = i + 1 /\ stop' = stop /\ pc[Master] = "create"
        BY <1>1, <1>3, <2>1, CreatedThread DEF CreateThread
      <3>2. \/ pc' = [pc EXCEPT ![i] = "spawn"] /\ missing' = missing
            \/ missing'
        BY <1>3, <2>1 DEF CreateThread
      <3>. QED
        BY <1>1, <3>1, <3>2 DEF MadeInv
    <2>2. CASE ~(i < NumThreads)
      BY <1>1, <1>3, <2>2 DEF MadeInv, CreateThread, Return, AfterCall
    <2>. QED
      BY <2>1, <2>2
  <1>4. CASE CreateWorker \/ ReadResult \/ DeleteWorker
    BY <1>1, <1>4 DEF MadeInv, CreateWorker, ReadResult, DeleteWorker, Return, AfterCall
  <1>5. CASE Stop \/ Recount
    BY <1>1, <1>5 DEF MadeInv, Stop, Recount, Return, AfterCall
  <1>6. CASE FreeBarrier \/ LeaveFreed
    BY <1>1, <1>6 DEF MadeInv, FreeBarrier, LeaveFreed
  <1>7. CASE JoinThread
    <2>1. CASE i < NumThreads
      BY <1>1, <1>7, <2>1 DEF MadeInv, JoinThread, LabelInv
    <2>2. CASE ~(i < NumThreads)
      BY <1>1, <1>7, <2>2 DEF MadeInv, JoinThread, Return, AfterCall, LabelInv
    <2>. QED
      BY <2>1, <2>2
  <1>8. ASSUME NEW t \in Threads, ThreadStep(t) PROVE MadeInv'
    <2>1. UNCHANGED << stop, missing >>
      BY <1>8 DEF ThreadStep, SpawnWorker, FirstArrive, FirstLeave, CheckStop, FetchWorker, Work,
                  SecondArrive, SecondLeave
    <2>2. pc'[t] # "none" /\ \A u \in Threads : u # t => pc'[u] = pc[u]
      BY <1>1, <1>8 DEF ThreadStep, SpawnWorker, FirstArrive, FirstLeave, CheckStop, FetchWorker,
                        Work, SecondArrive, SecondLeave, AfterLoop
    <2>3. t = Master => /\ pc[Master] \notin {"create", "recount", "free", "freed", "join"}
                        /\ pc'[Master] \notin {"create", "recount", "free", "freed", "join"}
      BY <1>1, <1>8 DEF ThreadStep, SpawnWorker, FirstArrive, FirstLeave, CheckStop, FetchWorker,
                        Work, SecondArrive, SecondLeave, AfterLoop
    <2>4. i' = i \/ t = Master
      BY <1>8 DEF ThreadStep, SpawnWorker, FirstArrive, FirstLeave, CheckStop, FetchWorker,
                  Work, SecondArrive, SecondLeave
    <2>. QED
      BY <1>1, <2>1, <2>2, <2>3, <2>4 DEF MadeInv
  <1>9. ASSUME NEW c \in Calls, Call(c) PROVE MadeInv'
    <2>1. c \in Loops \cup {"start", "stop"}
      BY <1>9, CallsAssumption
    <2>. QED
      BY <1>1, <1>9, <2>1 DEF MadeInv, Call
  <1>10. CASE Exit
    BY <1>1, <1>10 DEF MadeInv, Exit
  <1>11. CASE UNCHANGED vars
    BY <1>11 DEF MadeInv, vars
  <1>. QED
    BY <1>2, <1>3, <1>4, <1>5, <1>6, <1>7, <1>8, <1>9, <1>10, <1>11 DEF Next, MasterStep, Terminated

LEMMA NextJoin ==
  ASSUME IInv, JoinInv, [Next]_vars
  PROVE  JoinInv'
  <1>. USE ThreadsFinite DEF Goto, program, pool, loop, ghosts, barrier, Loops
  <1>1. /\ DOMAIN pc = Threads /\ LabelInv /\ ParityInv /\ Master \notin Others /\ i \in Nat
        /\ \A t \in Others : t \in Nat /\ t >= 1
        /\ waits \in [Threads -> Nat]
    BY PoolTypes DEF IInv, TypeOK, Barrier!TypeOK, Others, Threads, Master
  <1>2. CASE Start \/ CreateThread \/ CreateWorker \/ ReadResult \/ DeleteWorker
    <2>1. pc'[Master] # "join"
      BY <1>1, <1>2, CreatedThread DEF Start, CreateThread, CreateWorker, ReadResult, DeleteWorker, Return, AfterCall
    <2>. QED
      BY <2>1 DEF JoinInv
  <1>3. CASE Stop \/ Recount \/ FreeBarrier
    <2>1. pc'[Master] # "join"
      BY <1>1, <1>3 DEF Stop, Recount, FreeBarrier, Return, AfterCall
    <2>. QED
      BY <2>1 DEF JoinInv
  <1>4. CASE LeaveFreed
    <2>1. pc[Master] = "freed" /\ i' = 1 /\ \A t \in Others : pc'[t] = pc[t] /\ waits'[t] = waits[t]
      BY <1>1, <1>4 DEF LeaveFreed, Barrier!Leave
    <2>2. \A t \in Others : pc[t] = "none" => waits[t] = 0
      BY <1>1, <2>1 DEF ParityInv, Settled
    <2>. QED
      BY <1>1, <2>1, <2>2 DEF JoinInv
  <1>5. CASE JoinThread
    <2>1. CASE i < NumThreads
      <3>1. /\ pc[Master] = "join" /\ pc[i] = "exit" /\ pc' = [pc EXCEPT ![i] = "none"]
            /\ i' = i + 1 /\ waits' = waits
        BY <1>5, <2>1 DEF JoinThread
      <3>2. i \in Others
        <4>1. i >= 1 /\ NumThreads \in Nat
          BY <1>1, <3>1, NumThreadsAssumption DEF LabelInv
        <4>. QED
          BY <1>1, <2>1, <4>1 DEF Others, Threads, Master
      <3>3. waits[i] % 2 = 1
        BY <1>1, <3>1, <3>2 DEF ParityInv, Settled, HalfWay
      <3>. QED
        BY <1>1, <3>1, <3>2, <3>3 DEF JoinInv
    <2>2. CASE ~(i < NumThreads)
      BY <1>1, <1>5, <2>2 DEF JoinInv, JoinThread, Return, AfterCall
    <2>. QED
      BY <2>1, <2>2
  <1>6. ASSUME NEW t \in Threads, ThreadStep(t) PROVE JoinInv'
    <2>1. CASE t = Master
      BY <1>1, <1>6, <2>1
      DEF JoinInv, ThreadStep, SpawnWorker, FirstArrive, FirstLeave, CheckStop, FetchWorker, Work,
          SecondArrive, SecondLeave, AfterLoop
    <2>2. CASE t # Master
      <3>1. /\ pc[t] # "none" /\ pc'[t] # "none" /\ i' = i
            /\ \A u \in Threads : u # t => pc'[u] = pc[u] /\ waits'[u] = waits[u]
        BY <1>1, <1>6, <2>2
        DEF ThreadStep, SpawnWorker, FirstArrive, FirstLeave, CheckStop, FetchWorker, Work,
            SecondArrive, SecondLeave, Barrier!Arrive, Barrier!Leave
      <3>2. pc[Master] = "join" => t >= i
        BY <1>1, <2>2, <3>1 DEF LabelInv, Others
      <3>. QED
        BY <1>1, <2>2, <3>1, <3>2 DEF JoinInv, Others
    <2>. QED
      BY <2>1, <2>2
  <1>7. ASSUME NEW c \in Calls, Call(c) PROVE JoinInv'
    BY <1>1, <1>7, CallsAssumption DEF JoinInv, Call
  <1>8. CASE Exit
    BY <1>1, <1>8 DEF JoinInv, Exit
  <1>9. CASE UNCHANGED vars
    <2>1. pc' = pc /\ i' = i /\ waits' = waits
      BY <1>9 DEF vars
    <2>. QED
      BY <2>1 DEF JoinInv
  <1>. QED
    BY <1>2, <1>3, <1>4, <1>5, <1>6, <1>7, <1>8, <1>9 DEF Next, MasterStep, Terminated

(***************************************************************************)
(* A thread can take its next step unless it has ended, waits for a round  *)
(* that is not over, or joins a thread that has not ended.                 *)
(***************************************************************************)
CanMove(t) ==
  /\ pc[t] \notin {"none", "exit", "crash"}
  /\ waiting[t] => _counter >= end[t]
  /\ pc[t] = "join" /\ i < NumThreads => pc[i] = "exit"

Progress ==
  \/ \E t \in Threads : CanMove(t) \/ pc[t] = "crash"
  \/ pc[Master] = "exit" \/ Deserted

\* The round is over for a thread that no other has still to follow.
LEMMA LastMoves ==
  ASSUME IInv, ~wrapped, group = Threads
  PROVE  \E q \in Threads : /\ \A t \in Threads : Pool!Begun(q) <= Pool!Begun(t)
                            /\ waiting[q] => _counter >= end[q]
  <1>1. PICK B \in Nat : Pool!InRound(B)
    BY DEF IInv, Pool!IInv, Pool!RoundInv
  <1>2. PICK q \in Threads : Pool!Begun(q) = B
    <2>1. Pool!IInv
      BY DEF IInv
    <2>2. \E q \in group : Pool!Begun(q) = B
      BY <1>1, <2>1, PoolAssumptions, Pool!NobodyAhead
    <2>. QED
      BY <2>2
  <1>3. \A t \in Threads : Pool!Begun(t) >= B
    BY <1>1 DEF Pool!InRound
  <1>4. waiting[q] => _counter >= end[q]
    BY <1>2, <1>3, Pool!RoundOpens, PoolAssumptions DEF IInv
  <1>. QED
    BY <1>2, <1>3, <1>4

\* A thread that waits for another has finished as many waits as that one.
LEMMA WaitsFor ==
  ASSUME IInv, ~wrapped, group = Threads, NEW t \in Threads, NEW q \in Threads,
         waiting[t], ~(_counter >= end[t]), ~waiting[q],
         \A u \in Threads : Pool!Begun(q) <= Pool!Begun(u)
  PROVE  waits[t] = waits[q] /\ waits[t] \in Nat
  <1>1. waits[t] \in Nat /\ waits[q] \in Nat
    BY DEF IInv, Pool!IInv, Pool!TypeOK
  <1>2. ~ \A u \in Threads : Pool!Begun(u) >= Pool!Begun(t)
    BY Pool!RoundOpens, PoolAssumptions DEF IInv
  <1>3. Pool!Begun(t) = waits[t] + 1 /\ Pool!Begun(q) = waits[q]
    BY <1>1 DEF Pool!Begun
  <1>4. waits[q] < waits[t] + 1
    <2>1. PICK u \in Threads : ~(Pool!Begun(u) >= Pool!Begun(t))
      BY <1>2
    <2>2. waits[u] \in Nat /\ waiting[u] \in BOOLEAN
      BY DEF IInv, Pool!IInv, Pool!TypeOK
    <2>3. Pool!Begun(u) \in Nat
      BY <2>2 DEF Pool!Begun
    <2>4. Pool!Begun(q) <= Pool!Begun(u)
      OBVIOUS
    <2>. QED
      BY <1>1, <1>3, <2>1, <2>3, <2>4
  <1>5. waits[t] <= waits[q]
    BY <1>1, InStep
  <1>. QED
    BY <1>1, <1>4, <1>5

\* The thread that the master joins next ends: it has missed no round.
LEMMA JoinedMoves ==
  ASSUME IInv, ~wrapped, MoveInv, pc[Master] = "join", i < NumThreads, pc[i] # "exit",
         \A t \in Threads : ~CanMove(t) /\ pc[t] # "crash"
  PROVE  FALSE
  <1>1. /\ group = Threads /\ stop /\ ~Settled /\ Master \in Threads /\ i \in Others
        /\ i \in Threads /\ waits \in [Threads -> Nat] /\ waits[Master] % 2 = 1
        /\ ~waiting[Master] /\ ~waiting[Master] /\ \A t \in Others : t \in Threads
    <2>1. i \in 1 .. NumThreads - 1
      BY NumThreadsAssumption DEF IInv, TypeOK, LabelInv
    <2>2. i \in Others
      BY <2>1, NumThreadsAssumption DEF Others, Threads, Master
    <2>3. group = Threads
      BY ThreadsFinite, Sharing DEF IInv
    <2>4. stop /\ ~Settled /\ waits[Master] % 2 = 1 /\ ~waiting[Master]
      BY ThreadsFinite DEF IInv, LabelInv, Settled, ParityInv, HalfWay
    <2>. QED
      BY <2>2, <2>3, <2>4, ThreadsFinite DEF IInv, Pool!IInv, Pool!TypeOK
  <1>2. waits[Master] <= waits[i] + (IF waiting[i] THEN 1 ELSE 0)
    BY <1>1, InStep
  <1>3. CASE pc[i] = "none"
    <2>1. ~waiting[i]
      BY <1>1, <1>3 DEF IInv, LabelInv
    <2>2. waits[i] = 0
      BY <1>1, <1>3 DEF MoveInv, JoinInv, IInv, TypeOK
    <2>. QED
      BY <1>1, <1>2, <2>1, <2>2
  <1>4. CASE pc[i] = "wait2"
    <2>1. waits[i] < waits[Master]
      BY <1>1, <1>4 DEF MoveInv, DrainInv
    <2>2. waits[i] % 2 = 1
      BY <1>1, <1>4 DEF IInv, ParityInv, HalfWay
    <2>. QED
      BY <1>1, <1>2, <2>1, <2>2
  <1>5. CASE pc[i] = "wait"
    <2>1. waiting[i] /\ ~(_counter >= end[i]) /\ waits[i] % 2 = 0
      BY <1>1, <1>5 DEF IInv, LabelInv, ParityInv, HalfWay, CanMove
    <2>2. PICK q \in Threads : /\ \A t \in Threads : Pool!Begun(q) <= Pool!Begun(t)
                               /\ waiting[q] => _counter >= end[q]
      BY <1>1, LastMoves
    <2>3. pc[q] \in {"none", "exit", "join"}
      BY <1>1, <2>2 DEF CanMove
    <2>4. ~waiting[q]
      BY <2>3 DEF IInv, LabelInv
    <2>5. waits[i] = waits[q] /\ waits[q] % 2 = 0
      BY <1>1, <2>1, <2>2, <2>4, WaitsFor
    <2>6. waits[Master] <= waits[q]
      BY <1>1, <2>4, InStep
    <2>7. q \in Others /\ pc[q] # "exit"
      <3>1. q # Master
        BY <1>1, <2>5
      <3>2. pc[q] = "exit" => waits[q] % 2 = 1
        BY <1>1, <3>1 DEF IInv, ParityInv, HalfWay
      <3>. QED
        BY <2>5, <3>1, <3>2 DEF Others
    <2>8. pc[q] = "none"
      BY <2>3, <2>7 DEF IInv, LabelInv, OtherLabels
    <2>9. waits[q] % 2 = 1 \/ waits[q] = 0
      BY <2>7, <2>8 DEF MoveInv, JoinInv
    <2>. QED
      BY <1>1, <2>5, <2>6, <2>9
  <1>. QED
    <2>1. pc[i] \in OtherLabels /\ (waiting[i] => pc[i] \in {"wait", "wait2", "freed"})
      BY <1>1 DEF IInv, LabelInv
    <2>2. pc[i] \in {"none", "exit", "crash"} \/ waiting[i]
      BY <1>1, <2>1 DEF CanMove, OtherLabels
    <2>. QED
      BY <1>1, <1>3, <1>4, <1>5, <2>1, <2>2 DEF OtherLabels

LEMMA SomeoneMoves ==
  ASSUME IInv, ~wrapped, CallInv, NumThreads > 1 => StoppedInv, MoveInv
  PROVE  Progress
  <1>. SUFFICES ASSUME \A t \in Threads : ~CanMove(t) /\ pc[t] # "crash", pc[Master] # "exit"
                PROVE  Deserted
    BY DEF Progress
  <1>1. /\ LabelInv /\ Master \in Threads /\ pc[Master] \in MasterLabels
        /\ waiting[Master] <=> pc[Master] \in {"wait", "wait2", "freed"}
    BY ThreadsFinite DEF IInv, LabelInv
  <1>2. /\ pc[Master] \notin {"none", "start", "join", "crash"}
        /\ waiting[Master] /\ ~(_counter >= end[Master]) /\ group = Threads
    <2>1. pc[Master] # "join"
      BY <1>1, JoinedMoves DEF CanMove
    <2>2. pc[Master] \notin {"none", "exit", "crash"}
      BY <1>1 DEF MasterLabels, Loops
    <2>3. waiting[Master] /\ ~(_counter >= end[Master])
      BY <1>1, <2>1, <2>2 DEF CanMove
    <2>4. pc[Master] # "start"
      BY <1>1, <2>3
    <2>. QED
      BY <1>1, <2>1, <2>2, <2>3, <2>4, Sharing
  <1>3. PICK q \in Threads : /\ \A t \in Threads : Pool!Begun(q) <= Pool!Begun(t)
                             /\ waiting[q] => _counter >= end[q]
    BY <1>2, LastMoves
  <1>4. q \in Others /\ pc[q] \in {"none", "exit"} /\ ~waiting[q]
    <2>1. q # Master
      BY <1>2, <1>3
    <2>2. q \in Others /\ pc[q] \in OtherLabels
      BY <1>1, <2>1 DEF LabelInv, Others
    <2>. QED
      BY <1>1, <1>3, <2>2 DEF CanMove, OtherLabels, LabelInv
  <1>5. waits[Master] = waits[q] /\ waits[q] \in Nat
    BY <1>1, <1>2, <1>3, <1>4, WaitsFor
  <1>6. stop /\ pc[Master] # "freed" => pc[Master] = "wait" /\ call \in Loops
    <2>1. NumThreads > 1
      BY <1>4, NumThreadsAssumption DEF Others, Threads, Master
    <2>. QED
      BY <1>1, <1>2, <2>1 DEF StoppedInv, CallInv, LoopLabels, Loops
  <1>7. CASE stop /\ pc[Master] # "freed"
    BY <1>6, <1>7 DEF Deserted
  <1>8. CASE ~stop \/ pc[Master] = "freed"
    <2>1. ~Settled
      BY <1>8 DEF Settled
    <2>2. pc[q] # "exit"
      <3>1. CASE ~stop
        BY <1>4, <3>1 DEF MoveInv, ExitInv
      <3>2. CASE pc[Master] = "freed"
        <4>1. waits[Master] % 2 = 0
          BY <1>1, <2>1, <3>2 DEF IInv, ParityInv, HalfWay
        <4>2. pc[q] = "exit" => waits[q] % 2 = 1
          BY <1>4, <2>1, <1>3 DEF IInv, ParityInv, HalfWay, Others
        <4>. QED
          BY <1>5, <4>1, <4>2
      <3>. QED
        BY <1>8, <3>1, <3>2
    <2>3. missing
      BY <1>2, <1>4, <2>1, <2>2, <1>1 DEF MoveInv, MadeInv
    <2>4. pc[Master] # "wait2"
      <3>1. waits[q] = 0
        BY <1>2, <1>4, <2>1, <2>2 DEF IInv, ParityInv
      <3>2. pc[Master] = "wait2" => waits[Master] % 2 = 1
        BY <1>1, <2>1 DEF IInv, ParityInv, HalfWay
      <3>. QED
        BY <1>5, <3>1, <3>2
    <2>. QED
      BY <1>1, <1>2, <2>3, <2>4 DEF Deserted
  <1>. QED
    BY <1>7, <1>8

(***************************************************************************)
(* The pool does not deadlock: until the barrier's counter wraps some      *)
(* thread can take its next step, the program has ended, a thread of a     *)
(* restarted pool has crashed, or the master waits for threads that do not *)
(* exist, of a loop in a stopped pool or because a creation failed.        *)
(***************************************************************************)
THEOREM NobodyStuck == Spec => [](~wrapped => Progress)
  <1>. DEFINE Inv == ~wrapped => CallInv /\ (NumThreads > 1 => StoppedInv) /\ MoveInv
  <1>1. Init => Inv
    <2>. SUFFICES ASSUME Init PROVE Inv
      OBVIOUS
    <2>1. CallInv /\ StoppedInv
      BY ThreadsFinite DEF Init, CallInv, StoppedInv, LoopLabels, Loops
    <2>2. stop /\ pc[Master] = "start" /\ \A t \in Others : pc[t] = "none"
      BY ThreadsFinite DEF Init, Others
    <2>3. MoveInv
      BY <2>2 DEF MoveInv, ExitInv, DrainInv, MadeInv, JoinInv, Settled
    <2>. QED
      BY <2>1, <2>3
  <1>2. IInv /\ IInv' /\ Inv /\ [Next]_vars => Inv'
    <2>. SUFFICES ASSUME IInv, IInv', Inv, ~wrapped', [Next]_vars
                  PROVE  CallInv' /\ (NumThreads > 1 => StoppedInv') /\ MoveInv'
      OBVIOUS
    <2>1. ~wrapped
      BY WrappedStays DEF IInv
    <2>2. CallInv' /\ (NumThreads > 1 => StoppedInv')
      BY <2>1, NextCall, NextStopped
    <2>3. MoveInv'
      BY <2>1, NextExit, NextDrain, NextMade, NextJoin DEF MoveInv
    <2>. QED
      BY <2>2, <2>3
  <1>3. IInv /\ Inv => (~wrapped => Progress)
    BY SomeoneMoves
  <1>. QED
    BY <1>1, <1>2, <1>3, Invariance, PTL DEF Spec

-----------------------------------------------------------------------------
(* How long the counter lasts. *)

\* How many waits the master's call may have yet to begin.
ToBegin ==
  CASE pc[Master] \in Loops \cup {"arrive"} -> 2
    [] pc[Master] \in {"wait", "check", "fetch", "work", "crash", "arrive2",
                      "stop", "recount", "free"} -> 1
    [] OTHER -> 0

(***************************************************************************)
(* Since the pool was last started the master has begun at most two waits  *)
(* for each call that it has made, and one for the destructor.             *)
(***************************************************************************)
BudgetInv ==
  /\ pc[Master] = "main" => call # "exit"
  /\ Pool!Begun(Master) + ToBegin <= 2 * calls + (IF call = "exit" THEN 1 ELSE 0)

\* A round starts where the rounds before it end: the counter has not wrapped.
RoundsInv ==
  /\ ~wrapped
  /\ group = Threads =>
       \E B \in Nat : Pool!InRound(B) /\ Pool!RoundBase = B * NumThreads

LEMMA NextBudget ==
  ASSUME IInv, BudgetInv, [Next]_vars
  PROVE  BudgetInv'
  <1>. USE ThreadsFinite, CallsAssumption
       DEF Goto, program, pool, barrier, Loops, Return, AfterCall, Master
  <1>. DEFINE Begun == waits[0] + (IF waiting[0] THEN 1 ELSE 0)
              Budget == 2 * calls + (IF call = "exit" THEN 1 ELSE 0)
  <1>1. /\ DOMAIN pc = Threads /\ DOMAIN waits = Threads /\ DOMAIN waiting = Threads
        /\ waits[0] \in Nat /\ waiting[0] \in BOOLEAN /\ calls \in Nat
        /\ \A t \in Others : t # 0
    BY DEF IInv, TypeOK, Barrier!TypeOK, Others
  <1>2. (pc[0] = "main" => call # "exit") /\ Begun + ToBegin <= Budget
    BY DEF BudgetInv, Pool!Begun
  <1>. SUFFICES (pc'[0] = "main" => call' # "exit") /\ Begun' + ToBegin' <= Budget'
    BY DEF BudgetInv, Pool!Begun
  <1>3. CASE Start
    <2>1. CASE stop
      <3>1. pc[0] = "start" /\ ~waiting[0]
        BY <1>3 DEF Start, IInv, LabelInv
      <3>2. waits'[0] = 0 /\ waiting' = waiting /\ pc'[0] = "create" /\ UNCHANGED << call, calls >>
        BY <1>1, <1>3, <2>1 DEF Start, Barrier!SetParticipants
      <3>. QED
        BY <1>1, <1>2, <3>1, <3>2 DEF ToBegin
    <2>2. CASE ~stop
      BY <1>1, <1>2, <1>3, <2>2 DEF Start, ToBegin
    <2>. QED
      BY <2>1, <2>2
  <1>4. CASE CreateThread
    <2>1. CASE i < NumThreads
      <3>1. i \in Others
        BY <1>4, <2>1, CreatedThread DEF CreateThread, IInv, TypeOK
      <3>. QED
        BY <1>1, <1>2, <1>4, <2>1, <3>1 DEF CreateThread, ToBegin
    <2>2. CASE ~(i < NumThreads)
      BY <1>1, <1>2, <1>4, <2>2 DEF CreateThread, ToBegin
    <2>. QED
      BY <2>1, <2>2
  <1>5. CASE CreateWorker \/ ReadResult \/ DeleteWorker
    BY <1>1, <1>2, <1>5 DEF CreateWorker, ReadResult, DeleteWorker, ToBegin
  <1>6. CASE Stop \/ Recount
    BY <1>1, <1>2, <1>6 DEF Stop, Recount, ToBegin
  <1>7. CASE FreeBarrier \/ LeaveFreed
    BY <1>1, <1>2, <1>7 DEF FreeBarrier, LeaveFreed, ToBegin, Barrier!Arrive, Barrier!Leave
  <1>8. CASE JoinThread
    <2>1. CASE i < NumThreads
      <3>1. i # 0
        BY <1>8 DEF JoinThread, IInv, LabelInv
      <3>. QED
        BY <1>1, <1>2, <1>8, <2>1, <3>1 DEF JoinThread, ToBegin
    <2>2. CASE ~(i < NumThreads)
      BY <1>1, <1>2, <1>8, <2>2 DEF JoinThread, ToBegin
    <2>. QED
      BY <2>1, <2>2
  <1>9. ASSUME NEW t \in Threads, ThreadStep(t), t # 0
        PROVE  (pc'[0] = "main" => call' # "exit") /\ Begun' + ToBegin' <= Budget'
    <2>1. UNCHANGED << pc[0], waits[0], waiting[0], call, calls >>
      BY <1>1, <1>9
      DEF ThreadStep, SpawnWorker, FirstArrive, FirstLeave, CheckStop, FetchWorker, Work,
          SecondArrive, SecondLeave, Barrier!Arrive, Barrier!Leave
    <2>. QED
      BY <1>2, <2>1 DEF ToBegin
  <1>10. ASSUME ThreadStep(0)
         PROVE  (pc'[0] = "main" => call' # "exit") /\ Begun' + ToBegin' <= Budget'
    <2>1. CASE FirstArrive(0) \/ FirstLeave(0)
      BY <1>1, <1>2, <2>1 DEF FirstArrive, FirstLeave, Barrier!Arrive, Barrier!Leave, ToBegin
    <2>2. CASE SecondArrive(0) \/ SecondLeave(0)
      BY <1>1, <1>2, <2>2
      DEF SecondArrive, SecondLeave, Barrier!Arrive, Barrier!Leave, ToBegin, AfterLoop
    <2>3. CASE CheckStop(0) \/ FetchWorker(0) \/ Work(0)
      BY <1>1, <1>2, <2>3 DEF CheckStop, FetchWorker, Work, ToBegin
    <2>. QED
      BY <1>1, <1>10, <2>1, <2>2, <2>3 DEF ThreadStep, SpawnWorker, Others
  <1>11. ASSUME NEW c \in Calls, Call(c)
         PROVE  (pc'[0] = "main" => call' # "exit") /\ Begun' + ToBegin' <= Budget'
    <2>1. c \in Loops \cup {"start", "stop"}
      BY <1>11
    <2>. QED
      BY <1>1, <1>2, <1>11, <2>1 DEF Call, ToBegin
  <1>12. CASE Exit
    BY <1>1, <1>2, <1>12 DEF Exit, ToBegin
  <1>13. CASE UNCHANGED vars
    BY <1>2, <1>13 DEF vars, ToBegin
  <1>. QED
    BY <1>3, <1>4, <1>5, <1>6, <1>7, <1>8, <1>9, <1>10, <1>11, <1>12, <1>13
    DEF Next, MasterStep, Terminated

\* The rounds of a program of MaxCalls calls all end below SizeT.
LongEnough == NumThreads * 2 * (MaxCalls + 1) < SizeT

LEMMA RoundEnds ==
  ASSUME LongEnough, NEW B \in Nat, B <= 2 * MaxCalls + 1
  PROVE  B * NumThreads + NumThreads < SizeT /\ (B + 1) * NumThreads = B * NumThreads + NumThreads
  <1>1. NumThreads \in Nat /\ MaxCalls \in Nat /\ SizeT \in Nat
    BY NumThreadsAssumption, CallsAssumption, SizeTAssumption
  <1>. DEFINE rest == 2 * MaxCalls + 1 - B
  <1>2. rest \in Nat /\ 2 * (MaxCalls + 1) = B + 1 + rest
    BY <1>1
  <1>. HIDE DEF rest
  <1>3. NumThreads * 2 * (MaxCalls + 1) = NumThreads * (B + 1 + rest)
    BY <1>1, <1>2
  <1>4. NumThreads * (B + 1 + rest) = B * NumThreads + NumThreads + NumThreads * rest
    BY <1>1, <1>2
  <1>5. NumThreads * rest >= 0
    BY <1>1, <1>2
  <1>6. (B + 1) * NumThreads = B * NumThreads + NumThreads
    BY <1>1
  <1>7. B * NumThreads \in Nat /\ NumThreads * rest \in Nat
    BY <1>1, <1>2
  <1>. QED
    BY <1>1, <1>3, <1>4, <1>5, <1>6, <1>7 DEF LongEnough

\* A thread that arrives does so in a round that the master has not passed.
LEMMA NextRounds ==
  ASSUME LongEnough, IInv, BudgetInv, RoundsInv, [Next]_vars
  PROVE  RoundsInv'
  <1>. USE PoolAssumptions
  <1>1. CASE UNCHANGED barrier
    BY <1>1 DEF barrier, RoundsInv, Pool!InRound, Pool!Ahead, Pool!Begun, Pool!RoundBase
  <1>2. ASSUME NEW t \in Threads, pc[t] \notin {"none", "start"}, Barrier!Arrive(t)
        PROVE  RoundsInv'
    <2>1. group = Threads /\ ~wrapped
      BY <1>2, Sharing DEF IInv, RoundsInv
    <2>2. PICK B \in Nat : Pool!InRound(B) /\ Pool!RoundBase = B * NumThreads
      BY <2>1 DEF RoundsInv
    <2>3. Pool!IInv /\ Pool!TypeOK /\ _participants = NumThreads
      BY <2>1, ThreadsFinite, PoolSets DEF IInv, Pool!IInv, Pool!GroupInv
    <2>4. Barrier!RoundEnd(_counter) = B * NumThreads + NumThreads
      BY <2>2, <2>3, Pool!CounterTypes DEF Pool!RoundEnd, Barrier!RoundEnd
    <2>5. B <= 2 * MaxCalls + 1
      <3>1. Pool!Begun(Master) = B + 1 \/ Pool!Begun(Master) = B
        BY <2>1, <2>2, ThreadsFinite DEF Pool!InRound
      <3>2. ToBegin >= 0 /\ ToBegin \in Nat
        BY DEF ToBegin
      <3>3. calls \in 0 .. MaxCalls /\ MaxCalls \in Nat
        BY CallsAssumption DEF IInv, TypeOK
      <3>4. Pool!Begun(Master) \in Nat /\ Pool!Begun(Master) + ToBegin <= 2 * calls + 1
        BY <3>1, <3>2, <3>3 DEF BudgetInv
      <3>. QED
        BY <3>1, <3>2, <3>3, <3>4
    <2>6. ~wrapped'
      <3>1. B * NumThreads + NumThreads < SizeT
        BY <2>5, RoundEnds
      <3>2. B * NumThreads + NumThreads \in Nat /\ SizeT \in Nat
        BY NumThreadsAssumption, SizeTAssumption
      <3>3. ~(Barrier!RoundEnd(_counter) >= SizeT)
        BY <2>4, <3>1, <3>2
      <3>. QED
        BY <1>2, <2>1, <3>3 DEF Barrier!Arrive
    <2>7. Pool!Arrive(t) /\ t \in group
      BY <1>2, <2>1 DEF Barrier!Arrive, Pool!Arrive, Barrier!RoundEnd, Pool!RoundEnd
    <2>8. \/ Pool!InRound(B)' /\ Pool!RoundBase' = B * NumThreads
          \/ Pool!InRound(B + 1)' /\ Pool!RoundBase' = (B + 1) * NumThreads
      <3>1. \/ Pool!InRound(B)' /\ Pool!RoundBase' = Pool!RoundBase
            \/ Pool!InRound(B + 1)' /\ Pool!RoundBase' = Pool!RoundBase + _participants
        BY <2>2, <2>3, <2>6, <2>7, Pool!ArriveInRound
      <3>2. Pool!RoundBase + _participants = (B + 1) * NumThreads
        BY <2>2, <2>3, <2>5, RoundEnds
      <3>. QED
        BY <2>2, <3>1, <3>2
    <2>9. B + 1 \in Nat
      OBVIOUS
    <2>. QED
      BY <2>6, <2>8, <2>9 DEF RoundsInv
  <1>3. ASSUME NEW t \in Threads, pc[t] \notin {"none", "start"}, Barrier!Leave(t)
        PROVE  RoundsInv'
    <2>1. group = Threads
      BY <1>3, Sharing DEF IInv
    <2>2. PICK B \in Nat : Pool!InRound(B) /\ Pool!RoundBase = B * NumThreads
      BY <2>1 DEF RoundsInv
    <2>3. Pool!Leave(t) /\ t \in group /\ wrapped' = wrapped
      BY <1>3, <2>1 DEF Barrier!Leave, Pool!Leave
    <2>4. Pool!InRound(B)' /\ Pool!RoundBase' = Pool!RoundBase
      BY <2>2, <2>3, Pool!LeaveInRound DEF IInv
    <2>. QED
      BY <2>2, <2>3, <2>4 DEF RoundsInv
  <1>4. CASE Start
    <2>1. ASSUME stop PROVE RoundsInv'
      <3>1. \A t \in Threads : ~waiting[t]
        BY <1>4, <2>1 DEF Start, IInv, LabelInv, Settled, Others
      <3>2. Pool!Idle /\ Threads \in (SUBSET Threads) \ {{}} /\ Pool!SetParticipants(Threads)
        BY <1>4, <2>1, <3>1, PoolSets
        DEF Start, Pool!Idle, Barrier!SetParticipants, Pool!SetParticipants
      <3>3. Pool!InRound(0)' /\ Pool!RoundBase' = 0 /\ ~wrapped'
        BY <3>2, Pool!FirstRound DEF Pool!SetParticipants, RoundsInv
      <3>4. 0 = 0 * NumThreads /\ 0 \in Nat
        BY NumThreadsAssumption
      <3>. QED
        BY <3>3, <3>4 DEF RoundsInv
    <2>. QED
      BY <1>1, <1>4, <2>1 DEF Start
  <1>5. CASE CreateThread \/ CreateWorker \/ ReadResult \/ DeleteWorker
    BY <1>1, <1>5 DEF CreateThread, CreateWorker, ReadResult, DeleteWorker
  <1>6. CASE Stop \/ Recount \/ JoinThread
    BY <1>1, <1>6 DEF Stop, Recount, JoinThread
  <1>7. CASE FreeBarrier \/ LeaveFreed
    BY <1>2, <1>3, <1>7, ThreadsFinite DEF FreeBarrier, LeaveFreed, Goto
  <1>8. ASSUME NEW t \in Threads, ThreadStep(t) PROVE RoundsInv'
    <2>1. CASE SpawnWorker(t) \/ CheckStop(t) \/ FetchWorker(t) \/ Work(t)
      BY <1>1, <2>1 DEF SpawnWorker, CheckStop, FetchWorker, Work
    <2>2. CASE FirstArrive(t) \/ FirstLeave(t) \/ SecondArrive(t) \/ SecondLeave(t)
      BY <1>2, <1>3, <2>2 DEF FirstArrive, FirstLeave, SecondArrive, SecondLeave, Goto
    <2>. QED
      BY <1>8, <2>1, <2>2 DEF ThreadStep
  <1>9. ASSUME NEW c \in Calls, Call(c) PROVE RoundsInv'
    BY <1>1, <1>9 DEF Call
  <1>10. CASE Exit
    BY <1>1, <1>10 DEF Exit
  <1>11. CASE UNCHANGED vars
    BY <1>1, <1>11 DEF vars, barrier
  <1>. QED
    BY <1>4, <1>5, <1>6, <1>7, <1>8, <1>9, <1>10, <1>11 DEF Next, MasterStep, Terminated

(***************************************************************************)
(* The barrier's counter does not wrap in a program that makes few enough  *)
(* calls: two rounds of all threads for each, and for the destructor, fit  *)
(* in size_t.  Of 64 bits, that is every program.                          *)
(***************************************************************************)
THEOREM NeverWraps == ASSUME LongEnough PROVE Spec => []~wrapped
  <1>. DEFINE Inv == BudgetInv /\ RoundsInv
  <1>1. Init => Inv
    <2>. SUFFICES ASSUME Init PROVE Inv
      OBVIOUS
    <2>1. Pool!Begun(Master) = 0 /\ ToBegin = 0 /\ calls = 0 /\ call = "start" /\ ~wrapped
      BY ThreadsFinite DEF Init, Pool!Begun, ToBegin, Loops
    <2>2. BudgetInv
      BY <2>1 DEF BudgetInv, Init
    <2>3. ASSUME group = Threads
          PROVE  \E B \in Nat : Pool!InRound(B) /\ Pool!RoundBase = B * NumThreads
      <3>1. PICK B \in Nat : Pool!InRound(B)
        BY <2>1, InitPool DEF IInv, Pool!IInv, Pool!RoundInv
      <3>2. Pool!Begun(Master) = B \/ Pool!Begun(Master) = B + 1
        BY <2>3, <3>1, ThreadsFinite DEF Pool!InRound
      <3>3. B = 0
        BY <2>1, <3>2
      <3>4. Pool!RoundBase = 0
        BY DEF Init, Pool!RoundBase
      <3>. QED
        BY <3>1, <3>3, <3>4, NumThreadsAssumption
    <2>. QED
      BY <2>1, <2>2, <2>3 DEF RoundsInv
  <1>2. IInv /\ Inv /\ [Next]_vars => Inv'
    BY NextBudget, NextRounds
  <1>3. Inv => ~wrapped
    BY DEF RoundsInv
  <1>. QED
    BY <1>1, <1>2, <1>3, Invariance, PTL DEF Spec

(***************************************************************************)
(* So, for such a program and without another condition on the barrier:    *)
(* workers outlive their use, threads find workers of their own unless     *)
(* they are overtaken, a result is final when it is read, and the pool     *)
(* does not deadlock.                                                      *)
(***************************************************************************)
THEOREM SafePool ==
  ASSUME LongEnough
  PROVE  Spec => [](WorkersOutliveWork /\ FindsUnlessOvertaken /\ ResultIsFinal /\ Progress)
  BY NeverWraps, WorkersLive, FindsWorker, FinalResult, NobodyStuck, PTL

(***************************************************************************)
(* And a pool of more than one thread implements ForkJoin.                 *)
(***************************************************************************)
THEOREM JoinsEveryLoop ==
  ASSUME LongEnough, NumThreads > 1
  PROVE  Spec => ImplementsForkJoin
  BY NeverWraps, IsForkJoin, PTL
=============================================================================
