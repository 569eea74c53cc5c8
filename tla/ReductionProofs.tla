--------------------------- MODULE ReductionProofs ---------------------------
(***************************************************************************)
(* Proofs about ReductionWorker, for any number of threads the library     *)
(* allows (ADPT_MAX_THREADS) and any number of chunks.                     *)
(***************************************************************************)
EXTENDS ReductionWorker, WellFoundedInduction, TLAPS

(***************************************************************************)
(* A worker's red_lock is held until its thread ends, and who waits for a  *)
(* lock or has it is combining.                                            *)
(***************************************************************************)
LockInv ==
  \A t \in Threads :
    /\ pc[t] # "end" => red_lock[t]
    /\ pc[t] \in {"lock", "combine", "release"} => Combining(t)
    /\ pc[t] \in {"combine", "release"} => pc[an_thr(t)] = "end"

LEMMA StrideFacts ==
  ASSUME NEW s \in Strides
  PROVE  /\ s \in Nat /\ s >= 2 /\ s \div 2 \in Nat /\ s \div 2 >= 1
         /\ s = 2 * (s \div 2)
  BY DEF Strides

LEMMA ThreadFacts ==
  /\ NThreads \in Nat /\ NThreads >= 1 /\ NThreads <= 256
  /\ Threads \subseteq Nat /\ 0 \in Threads
  /\ \A t \in Nat : t \in Threads <=> t < NThreads
  BY ThreadsAssumption DEF Threads, ADPT_MAX_THREADS

\* A thread that combines does so with a thread of the pool.
LEMMA AnotherThread ==
  ASSUME TypeOK, NEW t \in Threads, Combining(t)
  PROVE  an_thr(t) \in Threads /\ an_thr(t) # t
  <1>1. stride[t] \in Strides /\ t \in Nat
    BY ThreadFacts DEF TypeOK
  <1>. QED
    BY <1>1, StrideFacts, ThreadFacts DEF Combining, an_thr

-----------------------------------------------------------------------------
LEMMA ReduceType ==
  ASSUME NEW a \in Values, NEW b \in Values
  PROVE  Reduce(a, b) \in Values
  BY DEF Reduce, Values

LEMMA InitType == Init => TypeOK
  <1>. SUFFICES ASSUME Init PROVE TypeOK
    OBVIOUS
  <1>1. << Identity >> \in Values
    BY DEF Values
  <1>2. ordered \in BOOLEAN
    BY MachinesAssumption DEF Init
  <1>3. chunks \in [Threads -> 0 .. MaxChunks]
    BY ChunksAssumption DEF Init
  <1>. QED
    BY <1>1, <1>2, <1>3 DEF Init, TypeOK, Strides

LEMMA NextType == TypeOK /\ LockInv /\ [Next]_vars => TypeOK'
  <1>. SUFFICES ASSUME TypeOK, LockInv, [Next]_vars PROVE TypeOK'
    OBVIOUS
  <1>. USE DEF TypeOK
  <1>1. ASSUME NEW t \in Threads, Chunk(t) PROVE TypeOK'
    <2>. DEFINE partial_value == << Identity, << t, chunks[t] + 1 >> >>
    <2>1. chunks[t] + 1 \in 1 .. MaxChunks /\ chunks[t] + 1 \in 0 .. MaxChunks
      BY <1>1, ChunksAssumption DEF Chunk
    <2>2. << t, chunks[t] + 1 >> \in Chunks
      BY <2>1 DEF Chunks
    <2>3. partial_value \in Values
      BY <2>2 DEF Values
    <2>4. Reduce(reduction_value[t], partial_value) \in Values
      BY <2>3, ReduceType
    <2>. QED
      BY <1>1, <2>1, <2>4 DEF Chunk
  <1>2. ASSUME NEW t \in Threads, NoMoreWork(t) PROVE TypeOK'
    BY <1>2 DEF NoMoreWork, Goto
  <1>3. ASSUME NEW t \in Threads, Branch(t) PROVE TypeOK'
    BY <1>3 DEF Branch
  <1>4. ASSUME NEW t \in Threads, Lock(t) PROVE TypeOK'
    BY <1>4 DEF Lock, Goto
  <1>5. ASSUME NEW t \in Threads, EarlyLoad(t) PROVE TypeOK'
    <2>1. an_thr(t) \in Threads
      BY <1>5, AnotherThread DEF EarlyLoad, LockInv
    <2>. QED
      BY <1>5, <2>1 DEF EarlyLoad
  <1>6. ASSUME NEW t \in Threads, Combine(t) PROVE TypeOK'
    <2>1. PICK below \in IF early[t] = {} THEN {reduction_value[an_thr(t)]} ELSE early[t] :
            reduction_value' = [reduction_value EXCEPT ![t] = Reduce(@, below)]
      BY <1>6 DEF Combine
    <2>2. an_thr(t) \in Threads
      BY <1>6, AnotherThread DEF Combine, Goto, LockInv
    <2>3. Reduce(reduction_value[t], below) \in Values
      BY <2>1, <2>2, ReduceType
    <2>. QED
      BY <1>6, <2>1, <2>3 DEF Combine, Goto
  <1>7. ASSUME NEW t \in Threads, Release(t) PROVE TypeOK'
    <2>1. Combining(t) /\ an_thr(t) \in Threads
      BY <1>7, AnotherThread DEF Release, Goto, LockInv
    <2>2. 2 * stride[t] \in Strides
      BY <2>1, ThreadFacts DEF Strides, Combining, an_thr
    <2>. QED
      BY <1>7, <2>1, <2>2 DEF Release, Goto
  <1>8. ASSUME NEW t \in Threads, Unlock(t) PROVE TypeOK'
    BY <1>8 DEF Unlock, Goto
  <1>9. CASE UNCHANGED vars
    BY <1>9 DEF vars
  <1>. QED
    BY <1>1, <1>2, <1>3, <1>4, <1>5, <1>6, <1>7, <1>8, <1>9 DEF Next, TreeStep, Terminated

-----------------------------------------------------------------------------
LEMMA InitLock == Init => LockInv
  BY DEF Init, LockInv

LEMMA NextLock == TypeOK /\ LockInv /\ [Next]_vars => LockInv'
  <1>. SUFFICES ASSUME TypeOK, LockInv, [Next]_vars PROVE LockInv'
    OBVIOUS
  <1>. USE DEF TypeOK, LockInv, Combining, an_thr
  <1>1. ASSUME NEW t \in Threads, Chunk(t) PROVE LockInv'
    BY <1>1 DEF Chunk
  <1>2. ASSUME NEW t \in Threads, NoMoreWork(t) PROVE LockInv'
    BY <1>2 DEF NoMoreWork, Goto
  <1>3. ASSUME NEW t \in Threads, Branch(t) PROVE LockInv'
    BY <1>3 DEF Branch
  <1>4. ASSUME NEW t \in Threads, Lock(t) PROVE LockInv'
    <2>1. an_thr(t) \in Threads /\ pc[an_thr(t)] = "end"
      BY <1>4, AnotherThread DEF Lock, Goto
    <2>. QED
      BY <1>4, <2>1 DEF Lock, Goto
  <1>5. ASSUME NEW t \in Threads, EarlyLoad(t) PROVE LockInv'
    BY <1>5 DEF EarlyLoad
  <1>6. ASSUME NEW t \in Threads, Combine(t) PROVE LockInv'
    BY <1>6 DEF Combine, Goto
  <1>7. ASSUME NEW t \in Threads, Release(t) PROVE LockInv'
    <2>1. an_thr(t) \in Threads /\ pc[an_thr(t)] = "end"
      BY <1>7, AnotherThread DEF Release, Goto
    <2>. QED
      BY <1>7, <2>1 DEF Release, Goto
  <1>8. ASSUME NEW t \in Threads, Unlock(t) PROVE LockInv'
    BY <1>8 DEF Unlock, Goto
  <1>9. CASE UNCHANGED vars
    BY <1>9 DEF vars
  <1>. QED
    BY <1>1, <1>2, <1>3, <1>4, <1>5, <1>6, <1>7, <1>8, <1>9 DEF Next, TreeStep, Terminated

(***************************************************************************)
(* Every variable of the reduction keeps its type; the strides stay powers *)
(* of two that an int and the 256 threads of the library can hold.         *)
(***************************************************************************)
THEOREM ReductionTypes == Spec => []TypeOK
  <1>1. TypeOK /\ LockInv /\ [Next]_vars => (TypeOK /\ LockInv)'
    BY NextType, NextLock
  <1>. QED
    BY InitType, InitLock, <1>1, PTL DEF Spec

(***************************************************************************)
(* A loaded value is the one to be combined, where loads are ordered, and  *)
(* stays at the end of what it was combined into: its thread has ended.    *)
(***************************************************************************)
FinalInv ==
  ordered => \A t \in Threads :
    /\ early[t] = {}
    /\ pc[t] = "release" => EndsWith(reduction_value[t], reduction_value[an_thr(t)])

LEMMA ReduceEndsWith ==
  ASSUME NEW a \in Values, NEW b \in Values
  PROVE  EndsWith(Reduce(a, b), b)
  BY DEF EndsWith, Reduce, Values

LEMMA NextFinal == TypeOK /\ LockInv /\ FinalInv /\ [Next]_vars => FinalInv'
  <1>. SUFFICES ASSUME TypeOK, LockInv, FinalInv, [Next]_vars, ordered', NEW w \in Threads
                PROVE  /\ early'[w] = {}
                       /\ pc'[w] = "release" =>
                            EndsWith(reduction_value'[w], reduction_value'[an_thr(w)'])
    BY DEF FinalInv
  <1>. DEFINE u == an_thr(w)
  <1>1. /\ ordered' = ordered /\ early[w] = {}
        /\ pc[w] = "release" => EndsWith(reduction_value[w], reduction_value[u])
        /\ pc[w] \in {"combine", "release"} => u \in Threads /\ u # w /\ pc[u] = "end"
    <2>1. ordered' = ordered
      BY DEF Next, TreeStep, Terminated, Chunk, NoMoreWork, Branch, Lock, EarlyLoad, Combine,
             Release, Unlock, vars
    <2>. QED
      BY <2>1, AnotherThread DEF FinalInv, LockInv
  <1>2. early'[w] = {}
    BY <1>1 DEF TypeOK, Next, TreeStep, Terminated, Chunk, NoMoreWork, Branch, Lock, EarlyLoad,
           Combine, Release, Unlock, vars
  <1>3. SUFFICES ASSUME pc'[w] = "release"
                 PROVE  EndsWith(reduction_value'[w], reduction_value'[an_thr(w)'])
    BY <1>2
  <1>4. CASE pc[w] = "release"
    <2>1. pc[u] = "end" /\ u \in Threads
      BY <1>1, <1>4
    <2>2. stride'[w] = stride[w] /\ reduction_value'[w] = reduction_value[w]
      BY <1>3, <1>4 DEF TypeOK, Next, TreeStep, Terminated, Goto, Chunk, NoMoreWork, Branch,
             Lock, EarlyLoad, Combine, Release, Unlock, vars
    <2>3. reduction_value'[u] = reduction_value[u]
      BY <2>1 DEF TypeOK, Next, TreeStep, Terminated, Goto, Chunk, NoMoreWork, Branch,
             Lock, EarlyLoad, Combine, Release, Unlock, vars
    <2>4. an_thr(w)' = u
      BY <2>2 DEF an_thr
    <2>. QED
      BY <1>1, <1>4, <2>2, <2>3, <2>4
  <1>5. CASE pc[w] # "release"
    <2>1. Combine(w)
      BY <1>3, <1>5 DEF TypeOK, Next, TreeStep, Terminated, Goto, Chunk, NoMoreWork, Branch,
             Lock, EarlyLoad, Combine, Release, Unlock, vars
    <2>2. u \in Threads /\ u # w
      BY <1>1, <2>1 DEF Combine, Goto
    <2>3. reduction_value'[w] = Reduce(reduction_value[w], reduction_value[u])
      BY <1>1, <2>1 DEF Combine, TypeOK
    <2>4. an_thr(w)' = u /\ reduction_value'[u] = reduction_value[u]
      BY <2>1, <2>2 DEF Combine, TypeOK, an_thr
    <2>. QED
      BY <2>2, <2>3, <2>4, ReduceEndsWith DEF TypeOK
  <1>. QED
    BY <1>4, <1>5

(***************************************************************************)
(* Where the exchange in lock() orders loads, what a thread combines is    *)
(* the value another has returned from work() with, for any number of      *)
(* threads.                                                                *)
(***************************************************************************)
THEOREM OnlyFinalValues == Spec => []CombinesFinalValues
  <1>. DEFINE IInv == TypeOK /\ LockInv /\ FinalInv
  <1>1. Init => FinalInv
    BY DEF Init, FinalInv
  <1>2. IInv /\ [Next]_vars => IInv'
    BY NextType, NextLock, NextFinal
  <1>3. IInv => CombinesFinalValues
    BY DEF LockInv, FinalInv, CombinesFinalValues
  <1>. QED
    BY InitType, InitLock, <1>1, <1>2, <1>3, PTL DEF Spec

-----------------------------------------------------------------------------
(* Nobody waits for a thread that waits for it. *)

\* A lock is free once its thread has ended, but for the thread that has it to
\* combine the value, which waits for nothing.
HeldInv ==
  \A t \in Threads : pc[t] = "end" /\ red_lock[t] =>
    \E u \in Threads : pc[u] \in {"combine", "release"} /\ an_thr(u) = t

\* Some thread has a step to take that waits for no other.
CanMove(t) == pc[t] # "end" /\ (pc[t] = "lock" => ~red_lock[an_thr(t)])
Progress   == AllEnded \/ \E t \in Threads : CanMove(t)

LEMMA NextHeld == TypeOK /\ LockInv /\ HeldInv /\ [Next]_vars => HeldInv'
  <1>. SUFFICES ASSUME TypeOK, LockInv, HeldInv, [Next]_vars,
                       NEW v \in Threads, pc'[v] = "end", red_lock'[v]
                PROVE  \E u \in Threads : pc'[u] \in {"combine", "release"} /\ an_thr(u)' = v
    BY DEF HeldInv
  <1>. USE DEF TypeOK, an_thr
  <1>0. pc[v] = "end" /\ red_lock[v] =>
          \E u \in Threads : pc[u] \in {"combine", "release"} /\ an_thr(u) = v
    BY DEF HeldInv
  <1>1. ASSUME NEW t \in Threads, Chunk(t) \/ NoMoreWork(t) \/ Branch(t) \/ EarlyLoad(t)
        PROVE  \E u \in Threads : pc'[u] \in {"combine", "release"} /\ an_thr(u)' = v
    BY <1>0, <1>1 DEF Chunk, NoMoreWork, Branch, EarlyLoad, Goto
  <1>2. ASSUME NEW t \in Threads, Lock(t)
        PROVE  \E u \in Threads : pc'[u] \in {"combine", "release"} /\ an_thr(u)' = v
    BY <1>0, <1>2 DEF Lock, Goto
  <1>3. ASSUME NEW t \in Threads, Combine(t)
        PROVE  \E u \in Threads : pc'[u] \in {"combine", "release"} /\ an_thr(u)' = v
    BY <1>0, <1>3 DEF Combine, Goto
  <1>4. ASSUME NEW t \in Threads, Release(t)
        PROVE  \E u \in Threads : pc'[u] \in {"combine", "release"} /\ an_thr(u)' = v
    BY <1>0, <1>4 DEF Release, Goto
  <1>5. ASSUME NEW t \in Threads, Unlock(t)
        PROVE  \E u \in Threads : pc'[u] \in {"combine", "release"} /\ an_thr(u)' = v
    BY <1>0, <1>5 DEF Unlock, Goto
  <1>6. CASE UNCHANGED vars
    BY <1>0, <1>6 DEF vars
  <1>. QED
    BY <1>1, <1>2, <1>3, <1>4, <1>5, <1>6 DEF Next, TreeStep, Terminated

\* The highest thread that has not ended has none above it to wait for.
LEMMA HighestMoves ==
  ASSUME TypeOK, LockInv, HeldInv
  PROVE  Progress
  <1>. SUFFICES ASSUME ~AllEnded PROVE \E t \in Threads : CanMove(t)
    BY DEF Progress
  <1>. DEFINE Depths == {n \in Nat : NThreads - 1 - n \in Threads /\ pc[NThreads - 1 - n] # "end"}
  <1>1. PICK s \in Threads : pc[s] # "end"
    BY DEF AllEnded
  <1>2. NThreads - 1 - s \in Depths
    BY <1>1, ThreadFacts
  <1>3. PICK n \in Depths : \A m \in Depths : ~(<< m, n >> \in OpToRel(<, Nat))
    BY <1>2, WFMin, NatLessThanWellFounded
  <1>. DEFINE t == NThreads - 1 - n
  <1>4. t \in Threads /\ pc[t] # "end" /\ t \in Nat
    BY ThreadFacts
  <1>5. \A u \in Threads : u > t => pc[u] = "end"
    <2>. SUFFICES ASSUME NEW u \in Threads, u > t, pc[u] # "end" PROVE FALSE
      OBVIOUS
    <2>1. NThreads - 1 - u \in Depths /\ NThreads - 1 - u < n
      BY ThreadFacts
    <2>. QED
      BY <1>3, <2>1 DEF OpToRel
  <1>. HIDE DEF t
  <1>6. CASE pc[t] # "lock"
    BY <1>4, <1>6 DEF CanMove
  <1>7. CASE pc[t] = "lock"
    <2>1. an_thr(t) \in Threads /\ an_thr(t) > t
      BY <1>4, <1>7, AnotherThread, StrideFacts DEF LockInv, an_thr, TypeOK
    <2>2. pc[an_thr(t)] = "end"
      BY <1>5, <2>1
    <2>3. CASE ~red_lock[an_thr(t)]
      BY <1>4, <1>7, <2>3 DEF CanMove
    <2>4. CASE red_lock[an_thr(t)]
      <3>1. PICK u \in Threads : pc[u] \in {"combine", "release"}
        BY <2>1, <2>2, <2>4 DEF HeldInv
      <3>. QED
        BY <3>1 DEF CanMove
    <2>. QED
      BY <2>3, <2>4
  <1>. QED
    BY <1>6, <1>7

(***************************************************************************)
(* However many threads reduce, as long as one has not returned some       *)
(* thread has a step that no lock keeps it from.                           *)
(***************************************************************************)
THEOREM NoCircularWait == Spec => []Progress
  <1>1. TypeOK /\ LockInv /\ HeldInv /\ [Next]_vars => (TypeOK /\ LockInv /\ HeldInv)'
    BY NextType, NextLock, NextHeld
  <1>2. Init => HeldInv
    BY DEF Init, HeldInv
  <1>. QED
    BY InitType, InitLock, <1>1, <1>2, HighestMoves, PTL DEF Spec

-----------------------------------------------------------------------------
(***************************************************************************)
(* What a thread's value has combined: its own chunks and those of the     *)
(* threads up to the next one of its stride, which have ended.             *)
(***************************************************************************)
Width(t)    == IF pc[t] = "release" THEN stride[t] ELSE stride[t] \div 2
Covers(t)   == {u \in Threads : t <= u /\ u < t + Width(t)}
ChunksOf(S) == {p \in Chunks : p[1] \in S /\ p[2] <= chunks[p[1]]}

TreeInv ==
  \A t \in Threads :
    /\ t % (stride[t] \div 2) = 0
    /\ pc[t] = "work" => stride[t] = 2
    /\ pc[t] \in {"unlock", "end"} => ~Combining(t)
    /\ \A u \in Covers(t) \ {t} : pc[u] = "end"

ValueInv ==
  ordered => \A t \in Threads :
    /\ early[t] = {}
    /\ Within(reduction_value[t]) = ChunksOf(Covers(t))
    /\ InOrder(reduction_value[t])

(***************************************************************************)
(* Concatenation keeps the order when all of the left is before all of the *)
(* right.                                                                  *)
(***************************************************************************)
LEMMA ConcatWithin ==
  ASSUME NEW a \in Values, NEW b \in Values
  PROVE  Within(Reduce(a, b)) = Within(a) \cup Within(b)
  <1>. DEFINE c == Reduce(a, b)
  <1>1. /\ Len(c) = Len(a) + Len(b) /\ Len(a) \in Nat /\ Len(b) \in Nat
        /\ \A i \in 1 .. Len(a) : c[i] = a[i]
        /\ \A i \in 1 .. Len(b) : c[Len(a) + i] = b[i]
        /\ \A i \in 1 .. Len(c) : i \in 1 .. Len(a) \/ i - Len(a) \in 1 .. Len(b)
    BY DEF Reduce, Values
  <1>2. ASSUME NEW x \in Within(c) PROVE x \in Within(a) \cup Within(b)
    <2>1. PICK i \in 1 .. Len(c) : x = c[i]
      BY <1>2 DEF Within
    <2>2. CASE i \in 1 .. Len(a)
      BY <1>1, <1>2, <2>1, <2>2 DEF Within
    <2>3. CASE i - Len(a) \in 1 .. Len(b)
      <3>1. c[i] = b[i - Len(a)]
        BY <1>1, <2>1, <2>3
      <3>. QED
        BY <1>2, <2>1, <2>3, <3>1 DEF Within
    <2>. QED
      BY <1>1, <2>1, <2>2, <2>3
  <1>3. ASSUME NEW x \in Within(a) \cup Within(b) PROVE x \in Within(c)
    <2>1. CASE x \in Within(a)
      BY <1>1, <2>1 DEF Within
    <2>2. CASE x \in Within(b)
      <3>1. PICK i \in 1 .. Len(b) : x = b[i]
        BY <2>2 DEF Within
      <3>2. Len(a) + i \in 1 .. Len(c) /\ c[Len(a) + i] = x
        BY <1>1, <3>1
      <3>. QED
        BY <2>2, <3>2 DEF Within
    <2>. QED
      BY <1>3, <2>1, <2>2
  <1>. QED
    BY <1>2, <1>3

LEMMA ConcatInOrder ==
  ASSUME NEW a \in Values, NEW b \in Values, InOrder(a), InOrder(b),
         \A p \in Within(a), q \in Within(b) : Before(p, q)
  PROVE  InOrder(Reduce(a, b))
  <1>. DEFINE c == Reduce(a, b)
  <1>1. /\ Len(c) = Len(a) + Len(b) /\ Len(a) \in Nat /\ Len(b) \in Nat
        /\ \A i \in 1 .. Len(a) : c[i] = a[i]
        /\ \A i \in 1 .. Len(c) : i > Len(a) => c[i] = b[i - Len(a)]
    BY DEF Reduce, Values
  <1>2. SUFFICES ASSUME NEW i \in 1 .. Len(c), NEW j \in 1 .. Len(c),
                        i < j, c[i] # Identity, c[j] # Identity
                 PROVE  Before(c[i], c[j])
    BY DEF InOrder
  <1>3. CASE j <= Len(a)
    <2>1. i \in 1 .. Len(a) /\ j \in 1 .. Len(a)
      BY <1>1, <1>2, <1>3
    <2>. QED
      BY <1>1, <1>2, <2>1 DEF InOrder
  <1>4. CASE i > Len(a)
    <2>1. /\ i - Len(a) \in 1 .. Len(b) /\ j - Len(a) \in 1 .. Len(b)
          /\ c[i] = b[i - Len(a)] /\ c[j] = b[j - Len(a)] /\ i - Len(a) < j - Len(a)
      BY <1>1, <1>2, <1>4
    <2>. QED
      BY <1>2, <2>1 DEF InOrder
  <1>5. CASE i <= Len(a) /\ j > Len(a)
    <2>1. /\ i \in 1 .. Len(a) /\ c[i] = a[i]
          /\ j - Len(a) \in 1 .. Len(b) /\ c[j] = b[j - Len(a)]
      BY <1>1, <1>2, <1>5
    <2>2. c[i] \in Within(a) /\ c[j] \in Within(b)
      BY <1>2, <2>1 DEF Within
    <2>. QED
      BY <2>2
  <1>. QED
    BY <1>1, <1>2, <1>3, <1>4, <1>5

(***************************************************************************)
(* Where a thread's subtree ends.  u is the thread t combines with: it has *)
(* stopped either at t's own stride or where no thread is left above it.   *)
(***************************************************************************)
LEMMA Aligned ==
  ASSUME NEW t \in Nat, NEW u \in Nat, NEW s \in Strides, NEW r \in Strides,
         t % s = 0, u = t + s \div 2, u % (r \div 2) = 0,
         ~(u % r = 0 /\ u + r \div 2 < NThreads)
  PROVE  \A w \in Nat : w < NThreads => (w < u + r \div 2 <=> w < u + s \div 2)
  <1>1. NThreads \in Nat
    BY ThreadFacts
  <1>2. CASE r = s
    BY <1>2
  <1>3. CASE r > s
    <2>1. u % s = 0
      BY <1>3, SMTT(60) DEF Strides
    <2>2. u % s = s \div 2
      BY SMTT(60) DEF Strides
    <2>. QED
      BY <2>1, <2>2, StrideFacts
  <1>4. CASE r < s
    <2>1. u % r = 0
      BY <1>4, SMTT(60) DEF Strides
    <2>2. u + r \div 2 >= NThreads /\ u + s \div 2 >= NThreads
      BY <1>1, <1>4, <2>1, StrideFacts DEF Strides
    <2>. QED
      BY <1>1, <2>2, StrideFacts
  <1>. QED
    BY <1>2, <1>3, <1>4, StrideFacts

LEMMA CoversBoth ==
  ASSUME TypeOK, LockInv, TreeInv, NEW t \in Threads, Combine(t)
  PROVE  LET u == an_thr(t) IN
         /\ u \in Threads /\ pc[u] = "end"
         /\ \A w \in Covers(t) : w < u
         /\ \A w \in Covers(u) : u <= w /\ pc[w] = "end"
         /\ Covers(t)' = Covers(t) \cup Covers(u)
         /\ \A w \in Threads \ {t} : Covers(w)' = Covers(w)
  <1>. DEFINE u == an_thr(t)
  <1>1. u \in Threads /\ pc[u] = "end" /\ pc[t] = "combine" /\ Combining(t)
    BY AnotherThread DEF Combine, Goto, LockInv
  <1>2. /\ t \in Nat /\ u \in Nat /\ stride[t] \in Strides /\ stride[u] \in Strides
        /\ t % stride[t] = 0 /\ u = t + stride[t] \div 2
        /\ u % (stride[u] \div 2) = 0
        /\ ~(u % stride[u] = 0 /\ u + stride[u] \div 2 < NThreads)
    BY <1>1, ThreadFacts DEF TypeOK, TreeInv, Combining, an_thr
  <1>3. \A w \in Threads : w < u + stride[u] \div 2 <=> w < u + stride[t] \div 2
    BY <1>2, Aligned, ThreadFacts
  <1>4. /\ Width(t) = stride[t] \div 2 /\ Width(u) = stride[u] \div 2
        /\ Width(t)' = stride[t] /\ stride[t] = stride[t] \div 2 + stride[t] \div 2
        /\ stride[t] \div 2 \in Nat
    BY <1>1, <1>2, StrideFacts DEF Width, Combine, Goto, TypeOK
  <1>5. Covers(t)' = Covers(t) \cup Covers(u)
    <2>1. \A w \in Threads : w \in Covers(u) <=> u <= w /\ w < t + stride[t]
      BY <1>2, <1>3, <1>4, ThreadFacts DEF Covers
    <2>2. \A w \in Threads : w \in Covers(t) <=> t <= w /\ w < u
      BY <1>2, <1>4, ThreadFacts DEF Covers
    <2>3. \A w \in Threads : w \in Covers(t)' <=> t <= w /\ w < t + stride[t]
      BY <1>4 DEF Covers
    <2>4. \A w \in Threads : w \in Covers(t)' <=> w \in Covers(t) \/ w \in Covers(u)
      <3>. HIDE DEF u
      <3>1. t <= u /\ u <= t + stride[t] /\ stride[t] \in Nat
        BY <1>2, <1>4, StrideFacts
      <3>. QED
        BY <1>2, <2>1, <2>2, <2>3, <3>1, ThreadFacts
    <2>5. Covers(t) \subseteq Threads /\ Covers(u) \subseteq Threads /\ Covers(t)' \subseteq Threads
      BY DEF Covers
    <2>. QED
      BY <2>4, <2>5
  <1>6. \A w \in Threads \ {t} : Covers(w)' = Covers(w)
    BY DEF Covers, Width, Combine, Goto, TypeOK
  <1>7. \A w \in Covers(t) : w < u
    BY <1>2, <1>4 DEF Covers
  <1>8. \A w \in Covers(u) : u <= w /\ pc[w] = "end"
    BY <1>1 DEF TreeInv, Covers
  <1>. QED
    BY <1>1, <1>5, <1>6, <1>7, <1>8

LEMMA InitTree == Init => TreeInv
  BY ThreadFacts DEF Init, TreeInv, Covers, Width

LEMMA NextTree == TypeOK /\ LockInv /\ TreeInv /\ [Next]_vars => TreeInv'
  <1>. SUFFICES ASSUME TypeOK, LockInv, TreeInv, [Next]_vars PROVE TreeInv'
    OBVIOUS
  <1>. USE DEF TypeOK, TreeInv, Combining, an_thr, Covers, Width
  <1>1. ASSUME NEW t \in Threads, Chunk(t) PROVE TreeInv'
    BY <1>1 DEF Chunk
  <1>2. ASSUME NEW t \in Threads, NoMoreWork(t) PROVE TreeInv'
    BY <1>2 DEF NoMoreWork, Goto
  <1>3. ASSUME NEW t \in Threads, Branch(t) PROVE TreeInv'
    BY <1>3 DEF Branch
  <1>4. ASSUME NEW t \in Threads, Lock(t) PROVE TreeInv'
    BY <1>4 DEF Lock, Goto
  <1>5. ASSUME NEW t \in Threads, EarlyLoad(t) PROVE TreeInv'
    BY <1>5 DEF EarlyLoad
  <1>6. ASSUME NEW t \in Threads, Combine(t) PROVE TreeInv'
    <2>. HIDE DEF Covers, Width, Combining, an_thr
    <2>1. \A w \in Threads : \A x \in Covers(w)' \ {w} : x \in Threads /\ pc[x] = "end"
      BY <1>6, CoversBoth DEF Covers
    <2>2. pc[t] = "combine" /\ pc'[t] = "release" /\ UNCHANGED stride
      BY <1>6 DEF Combine, Goto
    <2>3. \A x \in Threads : pc[x] = "end" => pc'[x] = "end"
      BY <1>6 DEF Combine, Goto
    <2>4. \A w \in Threads : Combining(w)' = Combining(w)
      BY <2>2 DEF Combining, an_thr
    <2>. QED
      BY <1>6, <2>1, <2>2, <2>3, <2>4 DEF Combine, Goto
  <1>7. ASSUME NEW t \in Threads, Release(t) PROVE TreeInv'
    <2>1. /\ pc[t] = "release" /\ t % stride[t] = 0 /\ pc'[t] = "tree"
          /\ stride'[t] = 2 * stride[t] /\ stride'[t] \div 2 = stride[t]
      BY <1>7, StrideFacts DEF Release, Goto, LockInv
    <2>2. \A w \in Threads : Covers(w)' = Covers(w)
      BY <1>7, <2>1 DEF Release, Goto
    <2>3. \A w \in Threads : pc[w] = "end" => pc'[w] = "end"
      BY <1>7 DEF Release, Goto
    <2>. HIDE DEF Covers, Width
    <2>4. \A w \in Threads : \A x \in Covers(w)' \ {w} : pc'[x] = "end"
      BY <2>2, <2>3 DEF Covers
    <2>. QED
      BY <1>7, <2>1, <2>4 DEF Release, Goto
  <1>8. ASSUME NEW t \in Threads, Unlock(t) PROVE TreeInv'
    BY <1>8 DEF Unlock, Goto
  <1>9. CASE UNCHANGED vars
    BY <1>9 DEF vars
  <1>. QED
    BY <1>1, <1>2, <1>3, <1>4, <1>5, <1>6, <1>7, <1>8, <1>9 DEF Next, TreeStep, Terminated

-----------------------------------------------------------------------------
LEMMA InitValue == Init => ValueInv
  <1>. SUFFICES ASSUME Init, NEW t \in Threads
                PROVE  /\ Within(reduction_value[t]) = ChunksOf(Covers(t))
                       /\ InOrder(reduction_value[t])
    BY DEF Init, ValueInv
  <1>1. reduction_value[t] = << Identity >> /\ Len(<< Identity >>) = 1
    BY DEF Init
  <1>2. Within(<< Identity >>) = {} /\ InOrder(<< Identity >>)
    BY DEF Within, InOrder
  <1>3. ChunksOf(Covers(t)) = {}
    BY DEF Init, ChunksOf, Chunks, Covers
  <1>. QED
    BY <1>1, <1>2, <1>3

\* A step that leaves the values, the chunks and the subtrees alone.
LEMMA SameValues ==
  ASSUME ValueInv, UNCHANGED << ordered, reduction_value, chunks >>,
         ordered => early' = early, \A t \in Threads : Covers(t)' = Covers(t)
  PROVE  ValueInv'
  BY DEF ValueInv, ChunksOf

LEMMA NextValue ==
  TypeOK /\ LockInv /\ TreeInv /\ ValueInv /\ [Next]_vars => ValueInv'
  <1>. SUFFICES ASSUME TypeOK, LockInv, TreeInv, ValueInv, [Next]_vars PROVE ValueInv'
    OBVIOUS
  <1>1. ASSUME NEW t \in Threads, Chunk(t) PROVE ValueInv'
    <2>. SUFFICES ASSUME ordered, NEW w \in Threads
                  PROVE  /\ early'[w] = {}
                         /\ Within(reduction_value'[w]) = ChunksOf(Covers(w))'
                         /\ InOrder(reduction_value'[w])
      BY <1>1 DEF ValueInv, Chunk
    <2>. DEFINE part == << t, chunks[t] + 1 >>
                partial_value == << Identity, part >>
    <2>1. early'[w] = {}
      BY <1>1 DEF ValueInv, Chunk
    <2>2. Covers(w)' = Covers(w) /\ Covers(w) \subseteq Threads
      BY <1>1 DEF Chunk, Covers, Width
    <2>3. CASE w # t
      <3>1. t \notin Covers(w)
        BY <1>1, <2>3 DEF TreeInv, Chunk
      <3>2. ChunksOf(Covers(w))' = ChunksOf(Covers(w))
        BY <1>1, <2>2, <3>1 DEF ChunksOf, Chunk, TypeOK, Chunks
      <3>3. reduction_value'[w] = reduction_value[w]
        BY <1>1, <2>3 DEF Chunk, TypeOK
      <3>. QED
        BY <2>1, <3>2, <3>3 DEF ValueInv
    <2>4. CASE w = t
      <3>1. part \in Chunks /\ part # Identity /\ chunks[t] \in Nat
        BY <1>1, ChunksAssumption, ThreadFacts DEF Chunk, TypeOK, Chunks, Identity
      <3>2. partial_value \in Values /\ reduction_value[t] \in Values
        BY <3>1 DEF Values, TypeOK
      <3>3. Within(partial_value) = {part} /\ InOrder(partial_value)
        <4>1. Len(partial_value) = 2 /\ partial_value[1] = Identity /\ partial_value[2] = part
          OBVIOUS
        <4>. HIDE DEF part, partial_value
        <4>. QED
          BY <3>1, <4>1 DEF Within, InOrder
      <3>4. reduction_value'[t] = Reduce(reduction_value[t], partial_value)
        BY <1>1 DEF Chunk, TypeOK
      <3>5. Covers(t) = {t}
        <4>1. stride[t] = 2 /\ Width(t) = 1
          BY <1>1 DEF Chunk, TreeInv, Width
        <4>2. \A x \in Threads : t <= x /\ x < t + 1 <=> x = t
          BY ThreadFacts
        <4>. QED
          BY <4>1, <4>2 DEF Covers
      <3>6. Within(reduction_value[t]) = {p \in Chunks : p[1] = t /\ p[2] <= chunks[t]}
        BY <3>5 DEF ValueInv, ChunksOf
      <3>7. \A p \in Within(reduction_value[t]), q \in Within(partial_value) : Before(p, q)
        BY <3>1, <3>3, <3>6 DEF Before, Chunks
      <3>8. ChunksOf({t})' = {p \in Chunks : p[1] = t /\ p[2] <= chunks[t] + 1}
        BY <1>1 DEF ChunksOf, Chunk, TypeOK
      <3>9. ChunksOf({t})' = Within(reduction_value[t]) \cup {part}
        <4>1. \A p \in Chunks : p = << p[1], p[2] >> /\ p[2] \in Nat
          BY DEF Chunks
        <4>2. \A p \in Chunks : p[1] = t /\ p[2] = chunks[t] + 1 => p = part
          BY <4>1
        <4>3. \A p \in Chunks : p[2] <= chunks[t] + 1 <=> p[2] <= chunks[t] \/ p[2] = chunks[t] + 1
          BY <3>1, <4>1
        <4>4. part[1] = t /\ part[2] = chunks[t] + 1
          OBVIOUS
        <4>. HIDE DEF part
        <4>. QED
          BY <3>1, <3>6, <3>8, <4>2, <4>3, <4>4
      <3>10. InOrder(reduction_value[t])
        BY DEF ValueInv
      <3>. HIDE DEF partial_value, part
      <3>11. Within(reduction_value'[t]) = Within(reduction_value[t]) \cup {part}
        BY <3>2, <3>3, <3>4, ConcatWithin
      <3>12. InOrder(reduction_value'[t])
        BY <3>2, <3>3, <3>4, <3>7, <3>10, ConcatInOrder
      <3>13. ChunksOf(Covers(t))' = ChunksOf({t})'
        BY <2>2, <2>4, <3>5 DEF ChunksOf
      <3>. QED
        BY <2>1, <2>4, <3>9, <3>11, <3>12, <3>13
    <2>. QED
      BY <2>3, <2>4
  <1>2. ASSUME NEW t \in Threads, NoMoreWork(t) PROVE ValueInv'
    BY <1>2, SameValues DEF NoMoreWork, Goto, Covers, Width, TypeOK
  <1>3. ASSUME NEW t \in Threads, Branch(t) PROVE ValueInv'
    BY <1>3, SameValues DEF Branch, Covers, Width, TypeOK
  <1>4. ASSUME NEW t \in Threads, Lock(t) PROVE ValueInv'
    BY <1>4, SameValues DEF Lock, Goto, Covers, Width, TypeOK
  <1>5. ASSUME NEW t \in Threads, EarlyLoad(t) PROVE ValueInv'
    BY <1>5, SameValues DEF EarlyLoad, Covers, Width
  <1>6. ASSUME NEW t \in Threads, Combine(t) PROVE ValueInv'
    <2>. SUFFICES ASSUME ordered, NEW w \in Threads
                  PROVE  /\ early'[w] = {}
                         /\ Within(reduction_value'[w]) = ChunksOf(Covers(w))'
                         /\ InOrder(reduction_value'[w])
      BY <1>6 DEF ValueInv, Combine
    <2>. DEFINE u == an_thr(t)
    <2>1. early'[w] = {} /\ UNCHANGED chunks
      BY <1>6 DEF ValueInv, Combine, TypeOK
    <2>2. CASE w # t
      <3>1. Covers(w)' = Covers(w) /\ reduction_value'[w] = reduction_value[w]
        BY <1>6, <2>2, CoversBoth DEF Combine, TypeOK
      <3>. QED
        BY <2>1, <3>1 DEF ValueInv, ChunksOf
    <2>3. CASE w = t
      <3>1. u \in Threads /\ u \in Nat
        BY <1>6, CoversBoth, ThreadFacts
      <3>2. reduction_value'[t] = Reduce(reduction_value[t], reduction_value[u])
        BY <1>6 DEF Combine, ValueInv, TypeOK
      <3>3. ChunksOf(Covers(t))' = ChunksOf(Covers(t)) \cup ChunksOf(Covers(u))
        BY <1>6, <2>1, CoversBoth DEF ChunksOf
      <3>4. /\ reduction_value[t] \in Values /\ reduction_value[u] \in Values
            /\ Within(reduction_value[t]) = ChunksOf(Covers(t)) /\ InOrder(reduction_value[t])
            /\ Within(reduction_value[u]) = ChunksOf(Covers(u)) /\ InOrder(reduction_value[u])
        BY <3>1 DEF ValueInv, TypeOK
      <3>5. \A x \in Covers(t), y \in Covers(u) : x \in Nat /\ y \in Nat /\ x < u /\ u <= y
        BY <1>6, CoversBoth, ThreadFacts DEF Covers
      <3>6. \A p \in ChunksOf(Covers(t)), q \in ChunksOf(Covers(u)) : Before(p, q)
        BY <3>1, <3>5 DEF ChunksOf, Before
      <3>. QED
        BY <2>1, <2>3, <3>2, <3>3, <3>4, <3>6, ConcatWithin, ConcatInOrder
    <2>. QED
      BY <2>2, <2>3
  <1>7. ASSUME NEW t \in Threads, Release(t) PROVE ValueInv'
    <2>1. pc[t] = "release" /\ pc'[t] = "tree" /\ stride'[t] \div 2 = stride[t]
      BY <1>7, StrideFacts DEF Release, Goto, TypeOK
    <2>2. \A w \in Threads : Covers(w)' = Covers(w)
      BY <1>7, <2>1 DEF Release, Goto, Covers, Width, TypeOK
    <2>. QED
      BY <1>7, <2>2, SameValues DEF Release
  <1>8. ASSUME NEW t \in Threads, Unlock(t) PROVE ValueInv'
    BY <1>8, SameValues DEF Unlock, Goto, Covers, Width, TypeOK
  <1>9. CASE UNCHANGED vars
    BY <1>9, SameValues DEF vars, Covers, Width
  <1>. QED
    BY <1>1, <1>2, <1>3, <1>4, <1>5, <1>6, <1>7, <1>8, <1>9 DEF Next, TreeStep, Terminated

(***************************************************************************)
(* What parallel_reduce returns has every chunk exactly once, in the order *)
(* of the threads' numbers and of their chunks, for any number of threads  *)
(* up to ADPT_MAX_THREADS.  Thread 0 ends where its stride has covered all *)
(* the threads.                                                            *)
(***************************************************************************)
THEOREM EveryChunkInOrder == Spec => []ReducedInOrder
  <1>. DEFINE IInv == TypeOK /\ LockInv /\ TreeInv /\ ValueInv
  <1>1. Init => IInv
    BY InitType, InitLock, InitTree, InitValue
  <1>2. IInv /\ [Next]_vars => IInv'
    BY NextType, NextLock, NextTree, NextValue
  <1>3. IInv => ReducedInOrder
    <2>. SUFFICES ASSUME IInv, ordered, AllEnded
                  PROVE  /\ Within(reduction_value[0]) = {p \in Chunks : p[2] <= chunks[p[1]]}
                         /\ InOrder(reduction_value[0])
      BY DEF ReducedInOrder
    <2>1. 0 \in Threads /\ pc[0] = "end" /\ stride[0] \in Strides
      BY ThreadFacts DEF AllEnded, TypeOK
    <2>2. Width(0) = stride[0] \div 2 /\ Width(0) \in Nat
      BY <2>1, StrideFacts DEF Width
    <2>3. ~Combining(0) /\ 0 % stride[0] = 0
      BY <2>1 DEF TreeInv, Strides
    <2>4. Width(0) >= NThreads
      <3>1. ~(0 + stride[0] \div 2 < NThreads)
        BY <2>3 DEF Combining, an_thr
      <3>. QED
        BY <2>2, <3>1, ThreadFacts
    <2>5. Covers(0) = Threads
      <3>1. \A u \in Threads : 0 <= u /\ u < 0 + Width(0)
        BY <2>2, <2>4, ThreadFacts
      <3>. QED
        BY <3>1 DEF Covers
    <2>6. ChunksOf(Covers(0)) = {p \in Chunks : p[2] <= chunks[p[1]]}
      <3>1. \A p \in Chunks : p[1] \in Threads
        BY DEF Chunks
      <3>. QED
        BY <2>5, <3>1 DEF ChunksOf
    <2>. QED
      BY <2>1, <2>6 DEF ValueInv
  <1>. QED
    BY <1>1, <1>2, <1>3, PTL DEF Spec
=============================================================================
