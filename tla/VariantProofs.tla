---------------------------- MODULE VariantProofs ----------------------------
(***************************************************************************)
(* Theorems about WorkerVariants, for any number of threads, any range and *)
(* any build: every step is one that WorkerProofs calls AnyStep, or is an  *)
(* access to what the macros add, so that what is proved of the default    *)
(* build holds of the others.                                              *)
(***************************************************************************)
EXTENDS WorkerVariants, FiniteSetTheorems, TLAPS

-----------------------------------------------------------------------------
(* The protocol below a build *)

\* Where a thread accesses its tuning in extract_seq or recalc_internal, looks
\* for the size of a steal, or reduces its victim's chunk.
OwnerLabels  == {"left", "size", "bound", "again", "recalc", "store", "little", "little2",
                 "little3", "half", "least"}
StealLabels  == {"halving", "halving2", "halved", "threshold"}
ReduceLabels == {"reduce", "reduce2", "reduced", "unlock"}

\* Where Worker has it meanwhile.
BaseLabel(label) ==
  IF label \in OwnerLabels THEN "seq"
  ELSE IF label \in StealLabels THEN "remain"
  ELSE IF label \in ReduceLabels THEN "recheck2" ELSE label
wpc == [t \in Threads |-> BaseLabel(pc[t])]

W == INSTANCE WorkerLoop WITH pc <- wpc

Labels == SeqLabels \cup ThiefLabels \cup ParLabels \cup OwnerLabels \cup StealLabels \cup ReduceLabels

\* What holds of the variables that the macros add, outdated or not.
TuneInv ==
  /\ pc \in [Threads -> Labels]
  /\ build \in Builds
  /\ seq_chunk \in [Threads -> Nat] /\ min_steal \in [Threads -> Nat \ {0}]
  /\ half_range \in [Threads -> Int] /\ steal_size \in [Threads -> Int]
  /\ chunk \in [Threads -> Nat] /\ reg \in [Threads -> Int]
  /\ \A t \in Threads : pc[t] \in ReduceLabels => new_last[t] # vic_last[t]

\* As long as nothing went wrong the sizes of a steal are indices.
HalfInv == half_range \in [Threads -> 0 .. IndexMax] /\ steal_size \in [Threads -> 0 .. IndexMax]

\* What a thread has in its registers: in recalc_internal the size of its
\* sub-range; of its victim the half of half_range, a size that leaves an index,
\* and what tells that the cut stands.
SizeLabels == {"store", "little", "little2", "little3", "half", "least"}
RegInv(t) ==
  /\ pc[t] \in SizeLabels \cup {"halving2"} => reg[t] \in 0 .. IndexMax
  /\ Signed /\ pc[t] \in SizeLabels => reg[t] <= Last
  /\ pc[t] = "threshold" => Minus(vic_last[t], steal_size[t]) \in 0 .. IndexMax
  /\ pc[t] \in ReduceLabels => seen[t] <= new_last[t]
RegsInv == \A t \in Threads : RegInv(t)

\* The longest chunk of a signed type.
Longest == MaxOf(Last, Grain)
ChunkInv == Signed => \A t \in Threads : seq_chunk[t] <= Longest /\ chunk[t] <= Longest

\* A thread about to read the size of its sub-range is stolen from already; but
\* what a thief cuts off leaves it the start of its sub-range: the cut stands.
RecalcInv(t, v) ==
  pc[v] = "recalc" /\ wpc[t] \in {"cut", "recheck", "recheck2", "rollback"} =>
    /\ first[v] <= new_last[t] /\ wpc[t] # "rollback"
    /\ wpc[t] = "recheck2" => seen[t] <= new_last[t]
RecalcsInv == \A t \in Threads : RecalcInv(t, victim[t])

VInv ==
  /\ W!TypeOK /\ W!LockInv /\ W!OnceInv /\ W!VictimsInv /\ TuneInv
  /\ ~outdated => HalfInv /\ RegsInv /\ ChunkInv /\ RecalcsInv

\* The accesses to the tuning, and to the registers alone.
Quiet(t) ==
  \/ LoadLeft(t) \/ TestLeft(t) \/ ReadChunk(t)
  \/ ReadHalf(t) \/ Halve(t) \/ StoreHalf(t)
  \/ TestReduce(t) \/ ReadReduce(t) \/ StoreReduced(t)
  \/ LoadSize(t) \/ StoreChunk(t) \/ TestLittle(t) \/ ReadLittle(t) \/ StoreLittle(t)
  \/ StoreHalfRange(t) \/ StoreMinSteal(t)

\* A move of one thread.
LEMMA Move ==
  ASSUME TuneInv, NEW t \in Threads, NEW label, pc' = [pc EXCEPT ![t] = label]
  PROVE  wpc' = [wpc EXCEPT ![t] = BaseLabel(label)]
  BY DEF wpc, TuneInv

LEMMA Stay == UNCHANGED pc => UNCHANGED wpc
  BY DEF wpc

LEMMA Where ==
  ASSUME NEW t \in Threads
  PROVE  wpc[t] = BaseLabel(pc[t])
  BY DEF wpc

\* A move that Worker does not see.
LEMMA Within ==
  ASSUME TuneInv, NEW t \in Threads, NEW label, pc' = [pc EXCEPT ![t] = label],
         BaseLabel(label) = BaseLabel(pc[t])
  PROVE  UNCHANGED wpc
  BY Move, Where DEF wpc

LEMMA QuietStep ==
  ASSUME TuneInv, NEW t \in Threads, Quiet(t)
  PROVE  /\ UNCHANGED << shared, own, thief, done, outdated, build >> /\ UNCHANGED W!vars
         /\ pc[t] \in OwnerLabels \cup StealLabels \cup ReduceLabels \cup {"seq", "remain"}
         /\ pc'[t] \in OwnerLabels \cup StealLabels \cup ReduceLabels \cup {"seq"}
<1> USE DEF Goto, Set, TuneInv, OwnerLabels, StealLabels, ReduceLabels, BaseLabel, protocol
<1>1. /\ UNCHANGED << shared, own, thief, done, outdated, build >>
      /\ pc' = [pc EXCEPT ![t] = pc'[t]] /\ BaseLabel(pc'[t]) = BaseLabel(pc[t])
      /\ pc[t] \in OwnerLabels \cup StealLabels \cup ReduceLabels \cup {"seq", "remain"}
      /\ pc'[t] \in OwnerLabels \cup StealLabels \cup ReduceLabels \cup {"seq"}
  <2>1. CASE LoadLeft(t) \/ TestLeft(t) \/ ReadChunk(t)
    BY <2>1 DEF LoadLeft, TestLeft, ReadChunk
  <2>2. CASE ReadHalf(t) \/ Halve(t) \/ StoreHalf(t)
    BY <2>2 DEF ReadHalf, Halve, StoreHalf
  <2>3. CASE TestReduce(t) \/ ReadReduce(t) \/ StoreReduced(t)
    BY <2>3 DEF TestReduce, ReadReduce, StoreReduced
  <2>4. CASE LoadSize(t) \/ StoreChunk(t) \/ StoreHalfRange(t) \/ StoreMinSteal(t)
    BY <2>4 DEF LoadSize, StoreChunk, StoreHalfRange, StoreMinSteal
  <2>5. CASE TestLittle(t) \/ ReadLittle(t) \/ StoreLittle(t)
    BY <2>5 DEF TestLittle, ReadLittle, StoreLittle
  <2> QED BY <2>1, <2>2, <2>3, <2>4, <2>5 DEF Quiet
<1>2. UNCHANGED wpc
  BY <1>1, Within
<1> QED BY <1>1, <1>2 DEF W!vars, shared, own, thief

\* The actions that no macro changes.
LEMMA UnchangingStep ==
  ASSUME TuneInv, NEW t \in Threads, Unchanging(t)
  PROVE  W!AnyStep(t)
<1>0. wpc[t] = BaseLabel(pc[t])
  BY Where
<1> USE <1>0 DEF shared, own, thief, Goto, Set, W!shared, W!own, W!thief, W!Goto, W!Set,
                 BaseLabel, OwnerLabels, StealLabels, ReduceLabels
<1>1. SeqBoundLast(t) => W!SeqBoundLast(t)
  BY Move DEF SeqBoundLast, W!SeqBoundLast, Bound, W!Bound
<1>2. SeqPublish(t) => W!SeqPublish(t)
  BY Move DEF SeqPublish, W!SeqPublish
<1>3. SeqCheck(t) => W!SeqCheck(t)
  BY Move DEF SeqCheck, W!SeqCheck
<1>4. SeqUndo(t) => W!SeqUndo(t)
  BY Move DEF SeqUndo, W!SeqUndo
<1>5. SeqLock(t) => W!SeqLock(t)
  BY Move DEF SeqLock, W!SeqLock, Nobody, W!Nobody
<1>6. SeqTake(t) => W!SeqTake(t)
  BY Move DEF SeqTake, W!SeqTake, Nobody, W!Nobody
<1>7. Body(t) => W!Body(t)
  BY Move DEF Body, W!Body, Iterations, W!Iterations
<1>8. ParHideFirst(t) => W!ParHideFirst(t)
  BY Move DEF ParHideFirst, W!ParHideFirst
<1>9. ParHideLast(t) => W!ParHideLast(t)
  BY Move DEF ParHideLast, W!ParHideLast
<1>10. ParReturn(t) => W!ParReturn(t)
  BY Move DEF ParReturn, W!ParReturn, Threads, W!Threads
<1>11. ParRange(t) => W!ParRange(t)
  BY Move DEF ParRange, W!ParRange, GiveUp, W!GiveUp
<1>12. ParTryLock(t) => W!ParTryLock(t)
  BY Move DEF ParTryLock, W!ParTryLock, Nobody, W!Nobody
<1>13. ParLoadLast(t) => W!ParLoadLast(t)
  BY Move DEF ParLoadLast, W!ParLoadLast
<1>14. ParVerifyLast(t) => W!ParVerifyLast(t)
  BY Move DEF ParVerifyLast, W!ParVerifyLast, Abandon, GiveUp, W!Abandon, W!GiveUp, Nobody, W!Nobody
<1>15. ParVerifyFirst(t) => W!ParVerifyFirst(t)
  BY Move DEF ParVerifyFirst, W!ParVerifyFirst, Abandon, GiveUp, W!Abandon, W!GiveUp, Nobody, W!Nobody
<1>16. ParRecheckFirst(t) => W!ParRecheckFirst(t)
  BY Move DEF ParRecheckFirst, W!ParRecheckFirst
<1>17. ParRollback(t) => W!ParRollback(t)
  BY Move DEF ParRollback, W!ParRollback, Abandon, GiveUp, W!Abandon, W!GiveUp, Nobody, W!Nobody
<1>18. ParSetLast(t) => W!ParSetLast(t)
  BY Move DEF ParSetLast, W!ParSetLast
<1>19. Cut(t) => W!AnyCut(t)
  <2> SUFFICES ASSUME Cut(t) PROVE W!AnyCut(t)
    OBVIOUS
  <2>1. W!Goto(t, "cut", "recheck")
    BY Move DEF Cut
  <2>2. outdated' \in BOOLEAN /\ (~outdated' => ~outdated /\ last[victim[t]] = vic_last[t])
    BY DEF Cut
  <2> QED BY <2>1, <2>2 DEF Cut, W!AnyCut
<1> QED BY <1>1, <1>2, <1>3, <1>4, <1>5, <1>6, <1>7, <1>8, <1>9, <1>10, <1>11, <1>12, <1>13, <1>14, <1>15, <1>16, <1>17, <1>18, <1>19 DEF Unchanging, W!AnyStep

\* The lemmas about Worker rest on its assumptions.
LEMMA BaseAssumptions ==
  /\ NThreads \in Nat \ {0} /\ First \in Nat /\ Last \in Nat /\ First <= Last
  /\ Grain \in Nat \ {0} /\ Signed \in BOOLEAN /\ IndexMax \in Nat /\ Last <= IndexMax
  /\ Signed => Last + Grain <= IndexMax
  BY ThreadsAssumption, RangeAssumption, GrainAssumption, SignedAssumption, IndexAssumption, SignedFits

LEMMA Constants ==
  /\ W!Threads = Threads /\ W!Iterations = Iterations /\ W!Nobody = Nobody
  /\ W!SeqLabels = SeqLabels /\ W!ThiefLabels = ThiefLabels /\ W!ParLabels = ParLabels
  BY DEF W!Threads, Threads, W!Iterations, Iterations, W!Nobody, Nobody, W!SeqLabels, SeqLabels,
    W!ThiefLabels, ThiefLabels, W!ParLabels, ParLabels

\* A number of iterations taken from an index leaves an index.
LEMMA MinusIndex ==
  ASSUME NEW a \in 0 .. IndexMax, NEW b \in 0 .. IndexMax, ~Signed \/ b <= a
  PROVE  Minus(a, b) \in 0 .. IndexMax
  BY IndexAssumption DEF Minus

LEMMA LongestFits ==
  /\ Longest \in Nat \ {0} /\ Last <= Longest /\ Grain <= Longest
  /\ Signed => 4 * Longest <= IndexMax
  BY RangeAssumption, GrainAssumption, ChunksFit DEF Longest, MaxOf

\* An owner that is still in its sub-range has not passed the end of the loop.
LEMMA CopyBelow ==
  ASSUME W!TypeOK, W!LockInv, W!Good, NEW t \in Threads, wpc[t] = "seq"
  PROVE  copy_first[t] \in 0 .. Last
<1>1. /\ 0 <= copy_first[t] /\ copy_first[t] <= W!EffectiveLast(t) /\ W!EffectiveLast(t) <= Last
      /\ copy_first[t] \in Int
  BY Constants DEF W!Good, W!OwnerInv, W!SeqLabels, W!TypeOK
<1>2. W!EffectiveLast(t) \in Int
  BY W!LastBelow, BaseAssumptions, Constants
<1> QED BY <1>1, <1>2, RangeAssumption

-----------------------------------------------------------------------------
(* Every step is one of AnyStep *)

LEMMA BoundStep ==
  ASSUME TuneInv, NEW t \in Threads, NEW b \in Int, Bound(t, b), wpc[t] = "seq",
         UNCHANGED << shared, copy_first, working_last, thief, done, outdated >>,
         ~outdated /\ copy_first[t] \in Nat /\ last[t] <= IndexMax => b \in 0 .. IndexMax
  PROVE  W!AnyBound(t)
<1>1. wpc' = [wpc EXCEPT ![t] = IF b > working_last[t] THEN "publish" ELSE "lock"]
  BY Move DEF Bound, Set, BaseLabel, OwnerLabels, StealLabels, ReduceLabels
<1>2. W!Bound(t, b)
  BY <1>1 DEF Bound, W!Bound, Set, W!Set
<1> QED BY <1>2 DEF W!AnyBound, shared, thief, W!shared, W!thief

\* A sum of an unsigned type wraps, and one that stays below an index is one.
LEMMA PlusIndex ==
  ASSUME NEW a \in Int, NEW b \in Nat
  PROVE  /\ Plus(a, b) \in Int
         /\ ~Signed => Plus(a, b) \in 0 .. IndexMax
         /\ \A l \in Int : Plus(a, b) < l /\ a \in Nat /\ l <= IndexMax
              => Plus(a, b) \in 0 .. IndexMax
<1>1. CASE Signed
  BY <1>1, IndexAssumption DEF Plus
<1>2. CASE ~Signed
  <2>1. (a + b) % (IndexMax + 1) \in 0 .. IndexMax
    BY IndexAssumption
  <2> QED BY <1>2, <2>1, IndexAssumption DEF Plus
<1> QED BY <1>1, <1>2

LEMMA TestBoundStep ==
  ASSUME TuneInv, W!TypeOK, NEW t \in Threads, TestBound(t)
  PROVE  W!AnyBound(t) \/ UNCHANGED W!vars
<1> DEFINE b == Plus(copy_first[t], chunk[t])
<1>0. wpc[t] = "seq" /\ pc[t] = "bound" /\ BaseLabel("again") = "seq" /\ BaseLabel("min") = "min"
  BY Where DEF TestBound, BaseLabel, OwnerLabels, StealLabels, ReduceLabels
<1>1. /\ IF b < last[t]
           THEN IF Has("EXTRACT_THRESHOLD")
                  THEN Bound(t, b) ELSE pc' = Set(pc, t, "again") /\ UNCHANGED working_first
           ELSE pc' = Set(pc, t, "min") /\ UNCHANGED working_first
      /\ UNCHANGED << shared, copy_first, working_last, thief, done, outdated >>
  BY DEF TestBound
<1>2. chunk[t] \in Nat /\ copy_first[t] \in Int /\ last[t] \in Int
  BY Constants DEF TuneInv, W!TypeOK
<1>3. b \in Int /\ (b < last[t] /\ copy_first[t] \in Nat /\ last[t] <= IndexMax => b \in 0 .. IndexMax)
  BY <1>2, PlusIndex
<1> HIDE DEF b
<1>4. CASE b < last[t] /\ Has("EXTRACT_THRESHOLD")
  BY <1>0, <1>1, <1>3, <1>4, BoundStep
<1>5. CASE b < last[t] /\ ~Has("EXTRACT_THRESHOLD")
  <2>1. UNCHANGED wpc
    BY <1>0, <1>1, <1>5, Within, Where DEF Set
  <2> QED BY <1>1, <1>5, <2>1 DEF W!vars, shared, thief
<1>6. CASE ~ (b < last[t])
  <2>1. wpc' = [wpc EXCEPT ![t] = "min"] /\ UNCHANGED working_first
    BY <1>0, <1>1, <1>6, Move DEF Set
  <2> QED BY <1>0, <1>1, <2>1 DEF W!AnyBound, W!Set, shared, thief, W!shared, W!thief
<1> QED BY <1>4, <1>5, <1>6

LEMMA BoundChunkStep ==
  ASSUME VInv, NEW t \in Threads, BoundChunk(t)
  PROVE  W!AnyBound(t)
<1>0. TuneInv /\ W!TypeOK /\ W!LockInv /\ wpc[t] = "seq"
  BY Where DEF VInv, BoundChunk, BaseLabel, OwnerLabels
<1>1. PICK c \in {chunk[t], seq_chunk[t]} : Bound(t, Plus(copy_first[t], c))
  BY DEF BoundChunk
<1>2. c \in Nat /\ copy_first[t] \in Int
  BY <1>0, <1>1, Constants DEF TuneInv, W!TypeOK
<1> DEFINE b == Plus(copy_first[t], c)
<1>3. b \in Int
  BY <1>2, PlusIndex
<1>4. ASSUME ~outdated
      PROVE  b \in 0 .. IndexMax
  <2>1. CASE ~Signed
    BY <1>2, <2>1, PlusIndex
  <2>2. CASE Signed
    <3>1. c <= Longest
      BY <1>1, <1>4, <2>2 DEF VInv, ChunkInv
    <3>2. copy_first[t] \in 0 .. Last
      BY <1>0, <1>4, CopyBelow DEF VInv, W!OnceInv
    <3> QED BY <1>2, <2>2, <3>1, <3>2, LongestFits, IndexAssumption, RangeAssumption DEF Plus
  <2> QED BY <2>1, <2>2
<1>5. Bound(t, b) /\ UNCHANGED << shared, copy_first, working_last, thief, done, outdated >>
  BY <1>1 DEF BoundChunk
<1> HIDE DEF b
<1> QED BY <1>0, <1>3, <1>4, <1>5, BoundStep

LEMMA PickVictimStep ==
  ASSUME TuneInv, NEW t \in Threads, PickVictim(t)
  PROVE  W!AnyPick(t)
<1> USE DEF BaseLabel, OwnerLabels, StealLabels, ReduceLabels
<1>0. wpc[t] = "pick" /\ pc[t] = "pick"
  BY Where DEF PickVictim
<1>1. PICK v \in Threads \ visited[t] :
        /\ victim' = Set(victim, t, v)
        /\ IF Has("STEAL_ONLY_FROM_LITTLE") /\ ~IsLittle(v)
             THEN visited' = Set(visited, t, visited[t] \cup {v}) /\ UNCHANGED << pc, seen >>
             ELSE pc' = Set(pc, t, "range") /\ seen' = Set(seen, t, last[v])
                  /\ UNCHANGED visited
  BY DEF PickVictim
<1>2. \/ visited' = Set(visited, t, visited[t] \cup {v}) /\ UNCHANGED << wpc, seen >>
      \/ wpc' = Set(wpc, t, "range") /\ seen' = Set(seen, t, last[v]) /\ UNCHANGED visited
  BY <1>1, Stay, Move DEF Set
<1> QED BY <1>0, <1>1, <1>2, Constants
        DEF PickVictim, W!AnyPick, Set, W!Set, shared, own, W!shared, W!own

\* The end of a steal is computed.
LEMMA AimStep ==
  ASSUME TuneInv, W!TypeOK, NEW t \in Threads, NEW size \in Int, Aim(t, size), wpc[t] = "remain",
         UNCHANGED << first, last, own, victim, vic_last, seen, done, outdated >>,
         ~outdated /\ vic_last[t] \in 0 .. IndexMax /\ first[victim[t]] \in 0 .. IndexMax
           => Minus(vic_last[t], size) \in 0 .. IndexMax
  PROVE  W!AnyRemain(t)
<1> DEFINE n == Minus(vic_last[t], size)
<1>1. n \in Int
  BY Constants, IndexAssumption DEF Minus, W!TypeOK
<1>2. /\ wpc' = W!Set(wpc, t, "verify") /\ new_last' = W!Set(new_last, t, n)
      /\ UNCHANGED << lock, visited >>
  BY Move DEF Aim, Set, W!Set, BaseLabel, OwnerLabels, StealLabels, ReduceLabels
<1> HIDE DEF n
<1>3. ~outdated /\ vic_last[t] \in 0 .. IndexMax /\ first[victim[t]] \in 0 .. IndexMax => n \in 0 .. IndexMax
  BY DEF n
<1> QED BY <1>1, <1>2, <1>3 DEF W!AnyRemain, own, W!own

\* The size of a steal is known.
LEMMA DecideStep ==
  ASSUME TuneInv, W!TypeOK, NEW t \in Threads, NEW size \in Int, Decide(t, size), wpc[t] = "remain",
         UNCHANGED << first, last, own, victim, vic_last, seen, done, outdated >>,
         ~outdated /\ vic_last[t] \in 0 .. IndexMax /\ first[victim[t]] \in 0 .. IndexMax
           => Minus(vic_last[t], size) \in 0 .. IndexMax
  PROVE  W!AnyRemain(t) \/ UNCHANGED W!vars
<1>1. CASE Has("STEAL_THRESHOLD_LITTLE")
  <2>1. UNCHANGED wpc /\ UNCHANGED << lock, visited, new_last >>
    BY <1>1, Within, Where DEF Decide, Set, BaseLabel, StealLabels, OwnerLabels
  <2> QED BY <2>1 DEF W!vars, own
<1>2. CASE ~Has("STEAL_THRESHOLD_LITTLE")
  BY <1>2, AimStep DEF Decide
<1> QED BY <1>1, <1>2

\* Half of what is left, and what it leaves.
LEMMA StealFits ==
  ASSUME NEW l \in 0 .. IndexMax, NEW f \in 0 .. IndexMax
  PROVE  /\ StealSize(Minus(l, f)) \in 0 .. IndexMax
         /\ Minus(l, StealSize(Minus(l, f))) \in 0 .. IndexMax
<1>1. Minus(l, StealSize(Minus(l, f))) \in 0 .. IndexMax
  BY W!CutPoint, BaseAssumptions DEF W!Minus, W!StealSize, W!MaxOf, Minus, StealSize, MaxOf
<1>2. Minus(l, f) \in Int /\ Minus(l, f) <= IndexMax
  BY IndexAssumption, SignedAssumption DEF Minus
<1>3. ASSUME NEW r \in Int, r <= IndexMax
      PROVE  StealSize(r) \in 0 .. IndexMax
  BY <1>3, IndexAssumption DEF StealSize, MaxOf
<1> QED BY <1>1, <1>2, <1>3

\* A steal of half_range that TestHalf lets pass leaves an index.
LEMMA HalfFits ==
  ASSUME NEW l \in 0 .. IndexMax, NEW f \in 0 .. IndexMax, NEW s \in 0 .. IndexMax,
         ~ (f > Minus(l, s) /\ s # 0)
  PROVE  Minus(l, s) \in 0 .. IndexMax
<1>1. CASE Signed
  BY <1>1, IndexAssumption DEF Minus
<1>2. CASE ~Signed
  BY <1>2, MinusIndex
<1> QED BY <1>1, <1>2

LEMMA SizeStep ==
  ASSUME VInv, NEW t \in Threads, HalfRemaining(t) \/ TestHalf(t) \/ TestThreshold(t)
  PROVE  W!AnyRemain(t) \/ UNCHANGED W!vars
<1> USE DEF BaseLabel, OwnerLabels, StealLabels, ReduceLabels
<1>0. /\ TuneInv /\ W!TypeOK /\ wpc[t] = BaseLabel(pc[t])
      /\ vic_last[t] \in Int /\ first[victim[t]] \in Int /\ steal_size[t] \in Int
  BY Where, Constants DEF VInv, W!TypeOK, TuneInv
<1>a. UNCHANGED << first, last, own, victim, vic_last, seen, done, outdated >>
  BY DEF HalfRemaining, TestHalf, TestThreshold
<1>1. CASE HalfRemaining(t)
  <2> DEFINE size == StealSize(Minus(vic_last[t], first[victim[t]]))
  <2>1. size \in Int
    BY <1>0, IndexAssumption DEF StealSize, MaxOf, Minus
  <2>2. vic_last[t] \in 0 .. IndexMax /\ first[victim[t]] \in 0 .. IndexMax
          => Minus(vic_last[t], size) \in 0 .. IndexMax
    BY StealFits
  <2> HIDE DEF size
  <2>3. Decide(t, size) /\ wpc[t] = "remain"
    BY <1>0, <1>1 DEF HalfRemaining, size
  <2> QED BY <1>0, <1>a, <2>1, <2>2, <2>3, DecideStep
<1>2. CASE TestHalf(t)
  <2> DEFINE again == first[victim[t]] > Minus(vic_last[t], steal_size[t]) /\ steal_size[t] # 0
  <2>1. CASE again
    <3>1. UNCHANGED wpc /\ UNCHANGED << lock, visited, new_last >>
      BY <1>0, <1>2, <2>1, Within DEF TestHalf, Set
    <3> QED BY <1>a, <3>1 DEF own, W!vars
  <2>2. CASE ~again
    <3>1. ~outdated /\ vic_last[t] \in 0 .. IndexMax /\ first[victim[t]] \in 0 .. IndexMax
            => Minus(vic_last[t], steal_size[t]) \in 0 .. IndexMax
      BY <2>2, HalfFits DEF VInv, HalfInv
    <3>2. Decide(t, steal_size[t]) /\ wpc[t] = "remain"
      BY <1>0, <1>2, <2>2 DEF TestHalf
    <3> QED BY <1>0, <1>a, <3>1, <3>2, DecideStep
  <2> QED BY <2>1, <2>2
<1>3. CASE TestThreshold(t)
  <2>0. wpc[t] = "remain" /\ pc[t] = "threshold"
    BY <1>0, <1>3 DEF TestThreshold
  <2>1. CASE Abandon(t) /\ UNCHANGED new_last
    <3>1. W!Abandon(t)
      BY <1>0, <2>1, Move DEF Abandon, GiveUp, W!Abandon, W!GiveUp, Set, W!Set, Nobody, W!Nobody
    <3> QED BY <1>a, <2>0, <2>1, <3>1 DEF W!AnyRemain, own, W!own
  <2>2. CASE Aim(t, steal_size[t])
    <3>1. ~outdated => Minus(vic_last[t], steal_size[t]) \in 0 .. IndexMax
      BY <2>0 DEF VInv, RegsInv, RegInv
    <3> QED BY <1>0, <1>a, <2>0, <2>2, <3>1, AimStep
  <2> QED BY <1>3, <2>1, <2>2 DEF TestThreshold
<1> QED BY <1>1, <1>2, <1>3

\* The cut of a thief that reduces its victim's chunk stands.
LEMMA UnlockStep ==
  ASSUME VInv, NEW t \in Threads, UnlockReduced(t)
  PROVE  W!AnyRecheckLast(t)
<1>0. /\ TuneInv /\ W!TypeOK /\ pc[t] = "unlock" /\ wpc[t] = "recheck2"
      /\ UNCHANGED << first, last, own, thief, done, outdated >>
  BY Where DEF VInv, UnlockReduced, Goto, BaseLabel, OwnerLabels, StealLabels, ReduceLabels
<1>1. wpc' = W!Set(wpc, t, "won") /\ lock' = W!Set(lock, victim[t], W!Nobody)
  BY <1>0, Move, Constants
     DEF UnlockReduced, Goto, Set, W!Set, BaseLabel, OwnerLabels, StealLabels, ReduceLabels
<1>2. CASE outdated
  BY <1>0, <1>1, <1>2 DEF W!AnyRecheckLast, W!Goto, W!Set, own, thief, W!own, W!thief
<1>3. CASE ~outdated
  <2>1. last[victim[t]] = new_last[t]
    BY <1>0, <1>3, Constants DEF VInv, W!OnceInv, W!Good, W!SessionInv, W!Cutting
  <2>2. seen[t] <= new_last[t] /\ new_last[t] # vic_last[t]
    BY <1>0, <1>3 DEF VInv, RegsInv, RegInv, TuneInv, ReduceLabels
  <2> QED BY <1>0, <1>1, <2>1, <2>2 DEF W!AnyRecheckLast, W!ParRecheckLast, own, thief, W!own, W!thief
<1> QED BY <1>2, <1>3

LEMMA RecheckStep ==
  ASSUME TuneInv, NEW t \in Threads, RecheckLast(t)
  PROVE  W!ParRecheckLast(t) \/ UNCHANGED W!vars
<1> USE DEF BaseLabel, OwnerLabels, StealLabels, ReduceLabels
<1>0. wpc[t] = BaseLabel(pc[t])
  BY Where
<1>1. CASE Reduces(t)
  <2>1. UNCHANGED wpc /\ UNCHANGED protocol
    BY <1>0, <1>1, Within DEF RecheckLast, Goto
  <2> QED BY <2>1 DEF protocol, shared, own, thief, W!vars
<1>2. CASE ~Reduces(t)
  BY <1>0, <1>2, Move DEF RecheckLast, ParRecheckLast, W!ParRecheckLast, Abandon, GiveUp,
     W!Abandon, W!GiveUp, Set, W!Set, Nobody, W!Nobody, own, W!own
<1> QED BY <1>1, <1>2

(***************************************************************************)
(* Every step of every build is one of AnyStep, or touches only what the   *)
(* macros add.                                                             *)
(***************************************************************************)
LEMMA VariantAny ==
  ASSUME VInv, NEW t \in Threads, VariantStep(t)
  PROVE  W!AnyStep(t) \/ UNCHANGED W!vars
<1>0. TuneInv /\ W!TypeOK
  BY DEF VInv
<1>1. CASE Unchanging(t)
  BY <1>0, <1>1, UnchangingStep
<1>2. CASE Quiet(t)
  BY <1>0, <1>2, QuietStep
<1>3. CASE TestBound(t) \/ BoundChunk(t)
  BY <1>0, <1>3, TestBoundStep, BoundChunkStep DEF W!AnyStep
<1>4. CASE PickVictim(t)
  BY <1>0, <1>4, PickVictimStep DEF W!AnyStep
<1>5. CASE HalfRemaining(t) \/ TestHalf(t) \/ TestThreshold(t)
  BY <1>5, SizeStep DEF W!AnyStep
<1>6. CASE RecheckLast(t)
  BY <1>0, <1>6, RecheckStep DEF W!AnyStep, W!AnyRecheckLast
<1>7. CASE UnlockReduced(t)
  BY <1>7, UnlockStep DEF W!AnyStep
<1>8. CASE SetFirst(t)
  <2>1. wpc[t] = "setfirst" /\ wpc' = [wpc EXCEPT ![t] = "seq"]
    BY <1>0, <1>8, Move, Where DEF SetFirst, Goto, BaseLabel, OwnerLabels, StealLabels, ReduceLabels
  <2>2. W!ParSetFirst(t)
    BY <1>8, <2>1 DEF SetFirst, W!ParSetFirst, W!Goto, Set, W!Set
  <2> QED BY <2>2 DEF W!AnyStep
<1> QED BY <1>1, <1>2, <1>3, <1>4, <1>5, <1>6, <1>7, <1>8 DEF VariantStep, Quiet

-----------------------------------------------------------------------------
(* The tuning *)

\* How many of the first n numbers satisfy a test.
LEMMA CountType ==
  ASSUME NEW n \in Int, NEW S, S \subseteq 1 .. n
  PROVE  Cardinality(S) \in Nat
<1>1. IsFiniteSet(1 .. n)
  BY FS_Interval
<1>2. IsFiniteSet(S)
  BY <1>1, FS_Subset
<1> QED BY <1>2, FS_CardinalityType

\* Whatever they are computed from, a chunk and a least steal are not empty.
LEMMA Sizes ==
  ASSUME NEW size \in Int
  PROVE  /\ BaseChunks(size) \subseteq Nat \ {0} /\ MinSteal(size) \in Nat \ {0}
         /\ HalfRange(size) \in Int
         /\ size \in 0 .. IndexMax => HalfRange(size) \in 0 .. IndexMax
         /\ \A id : Chunks(id, size) \subseteq Nat \ {0}
<1>1. FloorSqrt(size) \in Nat /\ FloorLog2(size) \in Nat
  <2>1. {r \in 1 .. size : r * r <= size} \subseteq 1 .. size
    OBVIOUS
  <2>2. {e \in 1 .. size : 2 ^ e <= size} \subseteq 1 .. size
    OBVIOUS
  <2> QED BY <2>1, <2>2, CountType DEF FloorSqrt, FloorLog2
<1>2. Logs(size) \subseteq Nat \ {0}
  BY <1>1, IndexAssumption, GrainAssumption, GrainFits DEF Logs, MaxOf
<1>3. BaseChunks(size) \subseteq Nat \ {0}
  BY <1>2, GrainAssumption DEF BaseChunks, MaxOf
<1>4. \A id : Chunks(id, size) \subseteq Nat \ {0}
  BY <1>3, AlphaAssumption DEF Chunks, MaxOf
<1> QED BY <1>1, <1>3, <1>4, IndexAssumption DEF MinSteal, HalfRange, MaxOf

\* A logarithm is not greater than what it is taken of.
LEMMA LogBelow ==
  ASSUME NEW size \in Nat
  PROVE  FloorLog2(size) \in 0 .. size
<1> DEFINE S == {e \in 1 .. size : 2 ^ e <= size}
<1>1. IsFiniteSet(1 .. size) /\ Cardinality(1 .. size) = size
  BY FS_Interval
<1>2. S \subseteq 1 .. size
  OBVIOUS
<1> HIDE DEF S
<1>3. IsFiniteSet(S) /\ Cardinality(S) <= size
  BY <1>1, <1>2, FS_Subset
<1>4. Cardinality(S) \in Nat
  BY <1>3, FS_CardinalityType
<1> QED BY <1>3, <1>4 DEF FloorLog2, S

\* No chunk of a signed type is longer than the loop or the grain.
LEMMA ChunkBelow ==
  ASSUME Signed, NEW size \in 0 .. Last
  PROVE  /\ \A c \in BaseChunks(size) : c \in 1 .. Longest
         /\ \A id : \A c \in Chunks(id, size) : c \in 1 .. Longest
<1>1. size \in Nat /\ size <= Longest /\ FloorLog2(size) \in 0 .. size
  BY LongestFits, LogBelow, RangeAssumption
<1>2. size \div Grain \in 0 .. size
  BY <1>1, GrainAssumption
<1>3. BaseChunks(size) \subseteq 1 .. Longest
  BY <1>1, <1>2, LongestFits, GrainAssumption DEF BaseChunks, Logs, MaxOf
<1>4. \A c \in 1 .. Longest : MaxOf(c \div Alpha, 1) \in 1 .. Longest
  BY AlphaAssumption, LongestFits DEF MaxOf
<1>5. \A id : Chunks(id, size) \subseteq 1 .. Longest
  BY <1>3, <1>4 DEF Chunks
<1> QED BY <1>3, <1>5

\* A thread moves alone, between the labels of its program.
LEMMA PcStep ==
  ASSUME pc \in [Threads -> Labels], NEW t \in Threads, VariantStep(t)
  PROVE  pc' = [pc EXCEPT ![t] = pc'[t]] /\ pc'[t] \in Labels
<1> USE DEF Goto, Set, Labels, SeqLabels, ThiefLabels, ParLabels, OwnerLabels, StealLabels, ReduceLabels
<1>1. CASE Unchanging(t)
  BY <1>1 DEF Unchanging, SeqBoundLast, Bound, SeqPublish, SeqCheck, SeqUndo, SeqLock, SeqTake, Body,
    ParHideFirst, ParHideLast, ParReturn, ParRange, ParTryLock, ParLoadLast, ParVerifyLast,
    ParVerifyFirst, Cut, ParRecheckFirst, ParRollback, ParSetLast, Abandon, GiveUp
<1>2. CASE Quiet(t)
  BY <1>2 DEF Quiet, LoadLeft, TestLeft, ReadChunk, ReadHalf, Halve, StoreHalf, TestReduce, ReadReduce,
    StoreReduced, LoadSize, StoreChunk, TestLittle, ReadLittle, StoreLittle, StoreHalfRange, StoreMinSteal
<1>3. CASE TestBound(t) \/ BoundChunk(t)
  BY <1>3 DEF TestBound, BoundChunk, Bound
<1>4. CASE PickVictim(t)
  BY <1>4 DEF PickVictim
<1>5. CASE HalfRemaining(t) \/ TestHalf(t) \/ TestThreshold(t)
  BY <1>5 DEF HalfRemaining, TestHalf, TestThreshold, Decide, Aim, Abandon, GiveUp
<1>6. CASE RecheckLast(t) \/ UnlockReduced(t) \/ SetFirst(t)
  BY <1>6 DEF RecheckLast, ParRecheckLast, Abandon, GiveUp, UnlockReduced, SetFirst
<1> QED BY <1>1, <1>2, <1>3, <1>4, <1>5, <1>6 DEF VariantStep, Quiet

\* The actions that touch neither the tuning nor the registers, and those that
\* only decide on a steal.
Plain(t) ==
  Unchanging(t) \/ TestBound(t) \/ BoundChunk(t) \/ PickVictim(t) \/ RecheckLast(t)
  \/ UnlockReduced(t) \/ SetFirst(t) \/ TestThreshold(t)
Sizing(t) == HalfRemaining(t) \/ TestHalf(t)

LEMMA Split ==
  ASSUME NEW t \in Threads, VariantStep(t)
  PROVE  Plain(t) \/ Sizing(t) \/ Quiet(t)
  BY DEF VariantStep, Plain, Sizing, Quiet

LEMMA PlainStep ==
  ASSUME TuneInv, NEW t \in Threads, Plain(t)
  PROVE  UNCHANGED << build, tuning, locals >>
  BY DEF Plain, Unchanging, TestBound, BoundChunk, PickVictim, RecheckLast, UnlockReduced, SetFirst,
    TestThreshold

\* How a size is decided on.
LEMMA SizingStep ==
  ASSUME TuneInv, NEW t \in Threads, Sizing(t)
  PROVE  /\ UNCHANGED << build, tuning, chunk, reg >>
         /\ \/ UNCHANGED steal_size /\ pc'[t] \in {"remain", "verify"}
            \/ /\ HalfRemaining(t) /\ pc'[t] = "threshold"
               /\ steal_size' = [steal_size EXCEPT ![t] = StealSize(Minus(vic_last[t], first[victim[t]]))]
            \/ /\ TestHalf(t) /\ pc'[t] = "threshold" /\ UNCHANGED steal_size
               /\ ~ (first[victim[t]] > Minus(vic_last[t], steal_size[t]) /\ steal_size[t] # 0)
<1> USE DEF TuneInv, Set
<1>1. CASE HalfRemaining(t)
  BY <1>1 DEF HalfRemaining, Decide, Aim
<1>2. CASE TestHalf(t)
  BY <1>2 DEF TestHalf, Decide, Aim
<1> QED BY <1>1, <1>2 DEF Sizing

\* What the accesses change of the tuning and the registers.
LEMMA QuietType ==
  ASSUME TuneInv, W!TypeOK, NEW t \in Threads, Quiet(t)
  PROVE  /\ seq_chunk' \in [Threads -> Nat] /\ min_steal' \in [Threads -> Nat \ {0}]
         /\ half_range' \in [Threads -> Int] /\ steal_size' \in [Threads -> Int]
         /\ chunk' \in [Threads -> Nat] /\ reg' \in [Threads -> Int]
<1> USE DEF TuneInv, Set, Goto, tuning, locals
<1>0. victim[t] \in Threads /\ last[t] \in Int /\ working_last[t] \in Int /\ copy_first[t] \in Int
  BY Constants DEF W!TypeOK
<1>1. CASE LoadLeft(t)
  <2>1. Minus(last[t], working_last[t]) \in Int
    BY <1>0, IndexAssumption DEF Minus
  <2> QED BY <1>1, <2>1 DEF LoadLeft
<1>2. CASE TestLeft(t) \/ ReadChunk(t)
  BY <1>2 DEF TestLeft, ReadChunk
<1>3. CASE ReadHalf(t) \/ Halve(t) \/ StoreHalf(t)
  <2>1. half_range[victim[t]] \in Int /\ half_range[victim[t]] \div 2 \in Int
    BY <1>0
  <2> HIDE DEF Goto
  <2> QED BY <1>0, <1>3, <2>1 DEF ReadHalf, Halve, StoreHalf
<1>4. CASE TestReduce(t) \/ ReadReduce(t) \/ StoreReduced(t)
  <2>1. seq_chunk[victim[t]] \div 2 \in Nat
    BY <1>0
  <2> QED BY <1>0, <1>4, <2>1 DEF TestReduce, ReadReduce, StoreReduced
<1>5. CASE LoadSize(t)
  <2>1. Minus(last[t], copy_first[t]) \in Int
    BY <1>0, IndexAssumption DEF Minus
  <2> QED BY <1>5, <2>1 DEF LoadSize
<1>6. CASE StoreChunk(t)
  <2>1. PICK c \in BaseChunks(reg[t]) : seq_chunk' = [seq_chunk EXCEPT ![t] = c]
    BY <1>6 DEF StoreChunk
  <2>2. c \in Nat
    BY <2>1, Sizes
  <2> QED BY <1>6, <2>1, <2>2 DEF StoreChunk
<1>7. CASE TestLittle(t) \/ ReadLittle(t) \/ StoreLittle(t)
  <2>1. seq_chunk[t] \div Alpha \in Nat
    BY AlphaAssumption
  <2> QED BY <1>7, <2>1 DEF TestLittle, ReadLittle, StoreLittle
<1>8. CASE StoreHalfRange(t) \/ StoreMinSteal(t)
  <2>1. HalfRange(reg[t]) \in Int /\ MinSteal(reg[t]) \in Nat \ {0}
    BY Sizes
  <2> QED BY <1>8, <2>1 DEF StoreHalfRange, StoreMinSteal
<1> QED BY <1>1, <1>2, <1>3, <1>4, <1>5, <1>6, <1>7, <1>8 DEF Quiet

\* What a step leaves alone of another thread.
LEMMA OtherStep ==
  ASSUME TuneInv, W!TypeOK, NEW u \in Threads, VariantStep(u),
         W!AnyStep(u) \/ UNCHANGED W!vars, NEW t \in Threads, t # u
  PROVE  /\ pc'[t] = pc[t] /\ wpc'[t] = wpc[t] /\ first'[t] = first[t] /\ victim'[t] = victim[t]
         /\ seen'[t] = seen[t] /\ new_last'[t] = new_last[t] /\ vic_last'[t] = vic_last[t]
         /\ chunk'[t] = chunk[t] /\ steal_size'[t] = steal_size[t] /\ reg'[t] = reg[t]
<1>1. pc'[t] = pc[t] /\ wpc'[t] = wpc[t]
  BY PcStep DEF TuneInv, wpc
<1>2. /\ first'[t] = first[t] /\ victim'[t] = victim[t]
      /\ seen'[t] = seen[t] /\ new_last'[t] = new_last[t] /\ vic_last'[t] = vic_last[t]
  <2>1. CASE UNCHANGED W!vars
    BY <2>1 DEF W!vars, W!shared, W!own, W!thief
  <2>2. CASE W!AnyStep(u)
    BY <2>2, W!StepOther, BaseAssumptions, Constants
  <2> QED BY <2>1, <2>2
<1>3. chunk'[t] = chunk[t] /\ steal_size'[t] = steal_size[t] /\ reg'[t] = reg[t]
  <2>1. CASE Plain(u)
    BY <2>1, PlainStep DEF locals
  <2>2. CASE Sizing(u)
    BY <2>2, SizingStep DEF TuneInv
  <2>3. CASE Quiet(u)
    BY <2>3 DEF Quiet, LoadLeft, TestLeft, ReadChunk, ReadHalf, Halve, StoreHalf, TestReduce, ReadReduce,
      StoreReduced, LoadSize, StoreChunk, TestLittle, ReadLittle, StoreLittle, StoreHalfRange,
      StoreMinSteal, locals, Set, TuneInv
  <2> QED BY <2>1, <2>2, <2>3, Split
<1> QED BY <1>1, <1>2, <1>3

\* Only a thief whose cut stands comes to reduce its victim's chunk.
LEMMA IntoReduce ==
  ASSUME TuneInv, NEW u \in Threads, VariantStep(u), pc'[u] \in ReduceLabels
  PROVE  /\ UNCHANGED << shared, thief >>
         /\ pc[u] \in ReduceLabels \/ (pc[u] = "recheck2" /\ Reduces(u))
<1> USE DEF Goto, Set, TuneInv, ReduceLabels, protocol
<1>1. ~ Unchanging(u)
  BY DEF Unchanging, SeqBoundLast, Bound, SeqPublish, SeqCheck, SeqUndo, SeqLock, SeqTake, Body,
    ParHideFirst, ParHideLast, ParReturn, ParRange, ParTryLock, ParLoadLast, ParVerifyLast,
    ParVerifyFirst, Cut, ParRecheckFirst, ParRollback, ParSetLast, Abandon, GiveUp
<1>2. ~ (TestBound(u) \/ BoundChunk(u) \/ PickVictim(u) \/ UnlockReduced(u) \/ SetFirst(u))
  BY DEF TestBound, BoundChunk, Bound, PickVictim, UnlockReduced, SetFirst
<1>3. ~ (HalfRemaining(u) \/ TestHalf(u) \/ TestThreshold(u))
  BY DEF HalfRemaining, TestHalf, TestThreshold, Decide, Aim, Abandon, GiveUp
<1>4. CASE RecheckLast(u)
  BY <1>4 DEF RecheckLast, ParRecheckLast, Abandon, GiveUp
<1>5. CASE Quiet(u)
  <2>1. pc[u] \in ReduceLabels
    BY <1>5 DEF Quiet, LoadLeft, TestLeft, ReadChunk, ReadHalf, Halve, StoreHalf, TestReduce, ReadReduce,
      StoreReduced, LoadSize, StoreChunk, TestLittle, ReadLittle, StoreLittle, StoreHalfRange, StoreMinSteal
  <2> QED BY <1>5, <2>1, QuietStep
<1> QED BY <1>1, <1>2, <1>3, <1>4, <1>5 DEF VariantStep, Quiet

\* What the macros add keeps its type, and a thief that reduces has stolen.
LEMMA TuneStep ==
  ASSUME TuneInv, W!TypeOK, NEW u \in Threads, VariantStep(u), W!AnyStep(u) \/ UNCHANGED W!vars
  PROVE  TuneInv'
<1>1. pc' \in [Threads -> Labels]
  BY PcStep DEF TuneInv
<1>2. /\ build' = build
      /\ seq_chunk' \in [Threads -> Nat] /\ min_steal' \in [Threads -> Nat \ {0}]
      /\ half_range' \in [Threads -> Int] /\ steal_size' \in [Threads -> Int]
      /\ chunk' \in [Threads -> Nat] /\ reg' \in [Threads -> Int]
  <2>1. CASE Plain(u)
    BY <2>1, PlainStep DEF TuneInv, tuning, locals
  <2>2. CASE Sizing(u)
    <3>1. vic_last[u] \in Int /\ first[victim[u]] \in Int
      BY Constants DEF W!TypeOK
    <3>2. StealSize(Minus(vic_last[u], first[victim[u]])) \in Int
      BY <3>1, IndexAssumption DEF StealSize, MaxOf, Minus
    <3> QED BY <2>2, <3>2, SizingStep DEF TuneInv, tuning
  <2>3. CASE Quiet(u)
    BY <2>3, QuietStep, QuietType
  <2> QED BY <2>1, <2>2, <2>3, Split
<1>3. ASSUME NEW t \in Threads, pc'[t] \in ReduceLabels
      PROVE  new_last'[t] # vic_last'[t]
  <2>1. CASE t # u
    BY <1>3, <2>1, OtherStep DEF TuneInv
  <2>2. CASE t = u
    BY <1>3, <2>2, IntoReduce DEF TuneInv, Reduces, thief
  <2> QED BY <2>1, <2>2
<1> QED BY <1>1, <1>2, <1>3 DEF TuneInv

\* Only a thread that stores its stolen sub-range is about to compute its tuning.
LEMMA IntoRecalc ==
  ASSUME TuneInv, NEW u \in Threads, VariantStep(u), pc'[u] = "recalc"
  PROVE  pc[u] = "setfirst"
<1> USE DEF Goto, Set, TuneInv
<1>1. ~ Unchanging(u)
  BY DEF Unchanging, SeqBoundLast, Bound, SeqPublish, SeqCheck, SeqUndo, SeqLock, SeqTake, Body,
    ParHideFirst, ParHideLast, ParReturn, ParRange, ParTryLock, ParLoadLast, ParVerifyLast,
    ParVerifyFirst, Cut, ParRecheckFirst, ParRollback, ParSetLast, Abandon, GiveUp
<1>2. ~ (TestBound(u) \/ BoundChunk(u) \/ UnlockReduced(u))
  BY DEF TestBound, BoundChunk, Bound, UnlockReduced
<1>3. ~ (PickVictim(u) \/ HalfRemaining(u) \/ TestHalf(u) \/ TestThreshold(u) \/ RecheckLast(u))
  BY DEF PickVictim, HalfRemaining, TestHalf, TestThreshold, Decide, Aim, RecheckLast, ParRecheckLast,
    Abandon, GiveUp
<1>4. ~ Quiet(u)
  BY DEF Quiet, LoadLeft, TestLeft, ReadChunk, ReadHalf, Halve, StoreHalf, TestReduce, ReadReduce,
    StoreReduced, LoadSize, StoreChunk, TestLittle, ReadLittle, StoreLittle, StoreHalfRange, StoreMinSteal
<1> QED BY <1>1, <1>2, <1>3, <1>4 DEF VariantStep, Quiet, SetFirst

\* How a thief comes to where RecalcInv says something of it.
LEMMA IntoCut ==
  ASSUME TuneInv, W!TypeOK, NEW u \in Threads, VariantStep(u),
         wpc'[u] \in {"cut", "recheck", "recheck2", "rollback"}
  PROVE  /\ UNCHANGED << victim, new_last >>
         /\ \/ wpc'[u] = "cut" /\ first[victim[u]] <= new_last[u]
            \/ wpc'[u] = "recheck" /\ wpc[u] = "cut"
            \/ wpc'[u] = "recheck2" /\ wpc[u] = "recheck" /\ seen'[u] = first[victim[u]]
            \/ wpc'[u] = "rollback" /\ wpc[u] = "recheck2" /\ seen[u] > last[victim[u]]
            \/ wpc'[u] = wpc[u] /\ seen'[u] = seen[u]
<1>0. wpc'[u] = BaseLabel(pc'[u]) /\ wpc[u] = BaseLabel(pc[u])
  BY Where DEF wpc
<1>1. CASE pc'[u] \in ReduceLabels
  BY <1>0, <1>1, IntoReduce DEF thief, BaseLabel, OwnerLabels, StealLabels, ReduceLabels
<1>2. CASE pc'[u] \notin ReduceLabels
  <2>0. pc'[u] = wpc'[u]
    BY <1>0, <1>2 DEF BaseLabel, OwnerLabels, StealLabels, ReduceLabels
  <2> USE <1>0, <2>0, Constants DEF Goto, Set, TuneInv, W!TypeOK, BaseLabel, OwnerLabels, StealLabels,
        ReduceLabels
  <2>1. CASE Unchanging(u)
    BY <2>1 DEF Unchanging, SeqBoundLast, Bound, SeqPublish, SeqCheck, SeqUndo, SeqLock, SeqTake, Body,
      ParHideFirst, ParHideLast, ParReturn, ParRange, ParTryLock, ParLoadLast, ParVerifyLast,
      ParVerifyFirst, Cut, ParRecheckFirst, ParRollback, ParSetLast, Abandon, GiveUp, thief
  <2>2. ~ (TestBound(u) \/ BoundChunk(u) \/ UnlockReduced(u) \/ SetFirst(u) \/ PickVictim(u))
    BY DEF TestBound, BoundChunk, Bound, UnlockReduced, SetFirst, PickVictim
  <2>3. ~ (HalfRemaining(u) \/ TestHalf(u) \/ TestThreshold(u))
    BY DEF HalfRemaining, TestHalf, TestThreshold, Decide, Aim, Abandon, GiveUp
  <2>4. CASE RecheckLast(u)
    <3>1. ~Reduces(u)
      BY <1>2, <2>4 DEF RecheckLast
    <3>2. ParRecheckLast(u)
      BY <2>4, <3>1 DEF RecheckLast
    <3> QED BY <3>2 DEF ParRecheckLast, Abandon, GiveUp
  <2>5. ~ Quiet(u)
    BY QuietStep
  <2> QED BY <2>1, <2>2, <2>3, <2>4, <2>5 DEF VariantStep, Quiet
<1> QED BY <1>1, <1>2

LEMMA RecalcStep ==
  ASSUME TuneInv, W!TypeOK, W!Good, RecalcsInv, NEW u \in Threads, VariantStep(u),
         W!AnyStep(u) \/ UNCHANGED W!vars
  PROVE  RecalcsInv'
<1> SUFFICES ASSUME NEW t \in Threads
             PROVE  RecalcInv(t, victim[t])'
  BY DEF RecalcsInv
<1>0. RecalcInv(t, victim[t]) /\ victim[t] \in Threads /\ W!SessionInv(t, victim[t])
  BY Constants DEF RecalcsInv, W!TypeOK, W!Good
<1>1. CASE t # u
  <2>1. /\ wpc'[t] = wpc[t] /\ victim'[t] = victim[t]
        /\ seen'[t] = seen[t] /\ new_last'[t] = new_last[t]
    BY <1>1, OtherStep
  <2>2. CASE victim[t] # u
    <3>1. pc'[victim[t]] = pc[victim[t]] /\ first'[victim[t]] = first[victim[t]]
      BY <1>0, <2>2, OtherStep
    <3> QED BY <1>0, <2>1, <3>1 DEF RecalcInv
  <2>3. CASE victim[t] = u
    <3>1. pc'[u] = "recalc" => wpc[t] \notin {"cut", "recheck", "recheck2", "rollback"}
      BY <1>0, <2>3, IntoRecalc, Where
         DEF W!SessionInv, W!Cutting, W!SeqLabels, BaseLabel, OwnerLabels, StealLabels, ReduceLabels
    <3> QED BY <2>1, <2>3, <3>1 DEF RecalcInv
  <2> QED BY <2>2, <2>3
<1>2. CASE t = u
  <2> SUFFICES ASSUME pc'[victim'[u]] = "recalc",
                      wpc'[u] \in {"cut", "recheck", "recheck2", "rollback"}
               PROVE  RecalcInv(u, victim[u])'
    BY <1>2 DEF RecalcInv
  <2> DEFINE v == victim[u]
  <2>1. victim' = victim /\ new_last' = new_last /\ v \in Threads
    BY <1>0, <1>2, IntoCut
  <2>2. v # u
    <3>1. wpc'[u] = BaseLabel(pc'[u])
      BY DEF wpc
    <3> QED BY <2>1, <3>1 DEF BaseLabel, OwnerLabels
  <2>3. pc[v] = "recalc" /\ first'[v] = first[v]
    BY <2>1, <2>2, OtherStep
  <2>4. RecalcInv(u, v) /\ W!SessionInv(u, v)
    BY <1>0, <1>2
  <2> HIDE DEF v
  <2>5. /\ first[v] <= new_last[u] /\ wpc'[u] # "rollback"
        /\ wpc'[u] = "recheck2" => seen'[u] <= new_last[u]
    <3>1. wpc[u] = "recheck2" => last[v] = new_last[u]
      BY <2>4 DEF W!SessionInv, W!Cutting
    <3>2. first[v] \in Int /\ last[v] \in Int /\ seen[u] \in Int /\ new_last[u] \in Int
      BY <2>1, Constants DEF W!TypeOK
    <3> QED BY <2>3, <2>4, <3>1, <3>2, IntoCut DEF RecalcInv, v
  <2> QED BY <2>1, <2>3, <2>5 DEF RecalcInv, v
<1> QED BY <1>1, <1>2

\* The sub-range a thread computes its tuning from is one, and no longer than
\* the loop.
LEMMA RecalcSize ==
  ASSUME TuneInv, W!TypeOK, W!LockInv, W!Good, RecalcsInv, NEW t \in Threads, pc[t] = "recalc"
  PROVE  /\ Minus(last[t], copy_first[t]) \in 0 .. IndexMax
         /\ Signed => Minus(last[t], copy_first[t]) <= Last
<1>1. /\ W!OwnerInv(t) /\ wpc[t] = "seq" /\ last[t] \in 0 .. IndexMax
      /\ first[t] \in 0 .. IndexMax
  BY Where, Constants DEF W!Good, W!RangeInv, BaseLabel, OwnerLabels
<1>2. /\ first[t] = copy_first[t] /\ copy_first[t] <= W!EffectiveLast(t)
      /\ W!EffectiveLast(t) <= Last
  BY <1>1 DEF W!OwnerInv, W!SeqLabels
<1>3. last[t] <= W!EffectiveLast(t) /\ W!EffectiveLast(t) \in Int
  BY W!LastBelow, BaseAssumptions, Constants
<1>4. copy_first[t] <= last[t]
  <2>1. CASE W!EffectiveLast(t) = last[t]
    BY <1>2, <2>1
  <2>2. CASE W!EffectiveLast(t) # last[t]
    <3> DEFINE h == lock[t]
    <3>1. h \notin {t, W!Nobody} /\ W!Undecided(h)
      BY <2>2 DEF W!EffectiveLast
    <3>2. h \in Threads /\ victim[h] = t
      BY <3>1, W!Holder, BaseAssumptions, Constants
    <3>3. RecalcInv(h, t) /\ W!SessionInv(h, t)
      BY <3>2, Constants DEF RecalcsInv, W!Good
    <3> HIDE DEF h
    <3>4. wpc[h] = "recheck"
      BY <3>1, <3>2, <3>3, Constants DEF W!Undecided, RecalcInv, W!TypeOK
    <3>5. last[t] = new_last[h] /\ first[t] <= new_last[h]
      BY <3>2, <3>3, <3>4 DEF W!SessionInv, W!Cutting, RecalcInv
    <3> QED BY <1>2, <3>5
  <2> QED BY <2>1, <2>2
<1>5. Minus(last[t], copy_first[t]) \in 0 .. IndexMax
  BY <1>1, <1>2, <1>4, MinusIndex
<1>6. CASE Signed
  BY <1>1, <1>2, <1>3, <1>5, <1>6, RangeAssumption DEF Minus
<1> QED BY <1>5, <1>6

\* How a thread comes by what RegInv says of its registers.
LEMMA IntoSize ==
  ASSUME TuneInv, NEW u \in Threads, VariantStep(u)
  PROVE  /\ pc'[u] \in SizeLabels =>
              \/ pc[u] = "recalc" /\ reg'[u] = Minus(last[u], copy_first[u])
              \/ pc[u] \in SizeLabels /\ reg'[u] = reg[u]
         /\ pc'[u] = "halving2" => reg'[u] = half_range[victim[u]] \div 2
         /\ pc'[u] = "threshold" => Sizing(u)
<1> USE DEF Goto, Set, TuneInv, SizeLabels
<1>1. CASE Unchanging(u)
  <2>1. pc'[u] \notin SizeLabels \cup {"halving2", "threshold"}
    BY <1>1 DEF Unchanging, SeqBoundLast, Bound, SeqPublish, SeqCheck, SeqUndo, SeqLock, SeqTake, Body,
      ParHideFirst, ParHideLast, ParReturn, ParRange, ParTryLock, ParLoadLast, ParVerifyLast,
      ParVerifyFirst, Cut, ParRecheckFirst, ParRollback, ParSetLast, Abandon, GiveUp
  <2> QED BY <2>1
<1>2. CASE TestBound(u) \/ BoundChunk(u) \/ PickVictim(u) \/ UnlockReduced(u) \/ SetFirst(u)
           \/ RecheckLast(u) \/ TestThreshold(u)
  <2>1. pc'[u] \notin SizeLabels \cup {"halving2", "threshold"}
    BY <1>2 DEF TestBound, BoundChunk, Bound, PickVictim, UnlockReduced, SetFirst, RecheckLast,
      ParRecheckLast, TestThreshold, Aim, Abandon, GiveUp
  <2> QED BY <2>1
<1>3. CASE Sizing(u)
  BY <1>3, SizingStep
<1>4. CASE LoadLeft(u) \/ TestLeft(u) \/ ReadChunk(u) \/ ReadHalf(u) \/ StoreHalf(u)
           \/ TestReduce(u) \/ ReadReduce(u) \/ StoreReduced(u) \/ StoreMinSteal(u)
  <2>1. pc'[u] \notin SizeLabels \cup {"halving2", "threshold"}
    BY <1>4 DEF LoadLeft, TestLeft, ReadChunk, ReadHalf, StoreHalf, TestReduce, ReadReduce, StoreReduced,
      StoreMinSteal
  <2> QED BY <2>1
<1>5. CASE Halve(u) \/ LoadSize(u)
  BY <1>5 DEF Halve, LoadSize
<1>6. CASE StoreChunk(u) \/ TestLittle(u) \/ ReadLittle(u) \/ StoreLittle(u) \/ StoreHalfRange(u)
  BY <1>6 DEF StoreChunk, TestLittle, ReadLittle, StoreLittle, StoreHalfRange, locals
<1> QED BY <1>1, <1>2, <1>3, <1>4, <1>5, <1>6, Split DEF Plain, Quiet

LEMMA RegsStep ==
  ASSUME VInv, W!Good, HalfInv, RegsInv, RecalcsInv, NEW u \in Threads, VariantStep(u),
         W!AnyStep(u) \/ UNCHANGED W!vars
  PROVE  RegsInv'
<1> SUFFICES ASSUME NEW t \in Threads
             PROVE  RegInv(t)'
  BY DEF RegsInv
<1>0. TuneInv /\ W!TypeOK /\ W!LockInv /\ RegInv(t)
  BY DEF VInv, RegsInv
<1>1. CASE t # u
  BY <1>0, <1>1, OtherStep DEF RegInv
<1>2. CASE t = u
  <2>0. /\ victim[u] \in Threads
        /\ first[victim[u]] \in 0 .. IndexMax /\ vic_last[u] \in 0 .. IndexMax
        /\ half_range[victim[u]] \in 0 .. IndexMax /\ steal_size[u] \in 0 .. IndexMax
    BY <1>0, Constants DEF W!TypeOK, W!Good, W!RangeInv, HalfInv
  <2>1. pc'[u] \in SizeLabels => reg'[u] \in 0 .. IndexMax /\ (Signed => reg'[u] <= Last)
    <3>1. CASE pc[u] = "recalc" /\ reg'[u] = Minus(last[u], copy_first[u])
      BY <1>0, <3>1, RecalcSize
    <3>2. CASE pc[u] \in SizeLabels /\ reg'[u] = reg[u]
      BY <1>0, <1>2, <3>2 DEF RegInv
    <3> QED BY <1>0, <3>1, <3>2, IntoSize
  <2>2. pc'[u] = "halving2" => reg'[u] \in 0 .. IndexMax
    <3>1. half_range[victim[u]] \div 2 \in 0 .. IndexMax
      BY <2>0, IndexAssumption
    <3> QED BY <1>0, <3>1, IntoSize
  <2>3. pc'[u] = "threshold" => Minus(vic_last'[u], steal_size'[u]) \in 0 .. IndexMax
    <3> SUFFICES ASSUME pc'[u] = "threshold"
                 PROVE  Minus(vic_last'[u], steal_size'[u]) \in 0 .. IndexMax
      OBVIOUS
    <3>1. Sizing(u)
      BY <1>0, IntoSize
    <3>2. vic_last' = vic_last
      BY <3>1 DEF Sizing, HalfRemaining, TestHalf
    <3>3. Minus(vic_last[u], steal_size'[u]) \in 0 .. IndexMax
      <4> DEFINE size == StealSize(Minus(vic_last[u], first[victim[u]]))
      <4>1. Minus(vic_last[u], size) \in 0 .. IndexMax
        BY <2>0, StealFits
      <4>2. CASE steal_size' = [steal_size EXCEPT ![u] = size]
        <5>1. steal_size'[u] = size
          BY <1>0, <4>2 DEF TuneInv
        <5> QED BY <4>1, <5>1
      <4> HIDE DEF size
      <4>3. CASE /\ UNCHANGED steal_size
                 /\ ~ (first[victim[u]] > Minus(vic_last[u], steal_size[u]) /\ steal_size[u] # 0)
        BY <2>0, <4>3, HalfFits
      <4> QED BY <1>0, <3>1, <4>2, <4>3, SizingStep DEF size
    <3> QED BY <3>2, <3>3, IndexAssumption DEF Minus
  <2>4. pc'[u] \in ReduceLabels => seen'[u] <= new_last'[u]
    <3> SUFFICES ASSUME pc'[u] \in ReduceLabels PROVE seen'[u] <= new_last'[u]
      OBVIOUS
    <3>1. UNCHANGED << seen, new_last >>
      BY <1>0, IntoReduce DEF thief
    <3>2. CASE pc[u] \in ReduceLabels
      BY <1>0, <1>2, <3>1, <3>2 DEF RegInv
    <3>3. CASE pc[u] = "recheck2" /\ Reduces(u)
      <4>1. wpc[u] = "recheck2"
        BY <3>3, Where DEF BaseLabel, OwnerLabels, StealLabels, ReduceLabels
      <4>2. last[victim[u]] = new_last[u]
        BY <4>1, Constants DEF W!Good, W!SessionInv, W!Cutting
      <4> QED BY <3>1, <3>3, <4>2 DEF Reduces
    <3> QED BY <1>0, <3>2, <3>3, IntoReduce
  <2> QED BY <1>2, <2>1, <2>2, <2>3, <2>4 DEF RegInv
<1> QED BY <1>1, <1>2

LEMMA HalfStep ==
  ASSUME VInv, W!Good, HalfInv, RegsInv, NEW u \in Threads, VariantStep(u)
  PROVE  HalfInv'
<1>0. /\ TuneInv /\ RegInv(u) /\ victim[u] \in Threads
      /\ first[victim[u]] \in 0 .. IndexMax /\ vic_last[u] \in 0 .. IndexMax
      /\ half_range[victim[u]] \in 0 .. IndexMax
  BY Constants DEF VInv, RegsInv, W!TypeOK, W!Good, W!RangeInv, HalfInv
<1>1. CASE UNCHANGED << half_range, steal_size >>
  BY <1>1 DEF HalfInv
<1>2. CASE ReadHalf(u)
  BY <1>0, <1>2 DEF ReadHalf, HalfInv, Set, tuning
<1>3. CASE StoreHalf(u)
  BY <1>0, <1>3 DEF StoreHalf, HalfInv, RegInv, Goto, Set, locals
<1>4. CASE StoreHalfRange(u)
  <2>1. HalfRange(reg[u]) \in 0 .. IndexMax
    BY <1>0, <1>4, Sizes DEF StoreHalfRange, Goto, RegInv, SizeLabels
  <2> QED BY <1>4, <2>1 DEF StoreHalfRange, HalfInv, Set, locals
<1>5. CASE Sizing(u)
  <2> DEFINE size == StealSize(Minus(vic_last[u], first[victim[u]]))
  <2>1. size \in 0 .. IndexMax
    BY <1>0, StealFits
  <2> HIDE DEF size
  <2>2. UNCHANGED half_range /\ (UNCHANGED steal_size \/ steal_size' = [steal_size EXCEPT ![u] = size])
    BY <1>0, <1>5, SizingStep DEF tuning, size
  <2> QED BY <2>1, <2>2 DEF HalfInv
<1>6. CASE Plain(u)
  BY <1>0, <1>1, <1>6, PlainStep DEF tuning, locals
<1>7. CASE Quiet(u) /\ ~ (ReadHalf(u) \/ StoreHalf(u) \/ StoreHalfRange(u))
  <2>1. UNCHANGED << half_range, steal_size >>
    BY <1>7 DEF Quiet, LoadLeft, TestLeft, ReadChunk, Halve, TestReduce, ReadReduce, StoreReduced, LoadSize,
      StoreChunk, TestLittle, ReadLittle, StoreLittle, StoreMinSteal, tuning, locals
  <2> QED BY <1>1, <2>1
<1> QED BY <1>2, <1>3, <1>4, <1>5, <1>6, <1>7, Split

LEMMA ChunkStep ==
  ASSUME VInv, RegsInv, ChunkInv, NEW u \in Threads, VariantStep(u)
  PROVE  ChunkInv'
<1> SUFFICES ASSUME Signed PROVE ChunkInv'
  BY DEF ChunkInv
<1>0. /\ TuneInv /\ RegInv(u) /\ victim[u] \in Threads /\ Longest \in Nat \ {0}
      /\ \A t \in Threads : seq_chunk[t] <= Longest /\ chunk[t] <= Longest
      /\ seq_chunk \in [Threads -> Nat] /\ chunk \in [Threads -> Nat]
  BY LongestFits, Constants DEF VInv, RegsInv, ChunkInv, TuneInv, W!TypeOK
<1>1. CASE UNCHANGED << seq_chunk, chunk >>
  BY <1>0, <1>1 DEF ChunkInv, Longest
<1>2. ASSUME NEW c \in Nat, c <= Longest, NEW t \in Threads,
             \/ seq_chunk' = [seq_chunk EXCEPT ![t] = c] /\ UNCHANGED chunk
             \/ chunk' = [chunk EXCEPT ![t] = c] /\ UNCHANGED seq_chunk
      PROVE  ChunkInv'
  BY <1>0, <1>2 DEF ChunkInv, Longest
<1>3. CASE TestLeft(u) \/ ReadChunk(u)
  <2>1. UNCHANGED << seq_chunk, chunk >> \/ \E c \in {1, seq_chunk[u]} :
          chunk' = [chunk EXCEPT ![u] = c] /\ UNCHANGED seq_chunk
    BY <1>3 DEF TestLeft, ReadChunk, tuning, Set
  <2> QED BY <1>0, <1>1, <1>2, <2>1
<1>4. CASE TestReduce(u) \/ ReadReduce(u) \/ StoreReduced(u)
  <2> DEFINE half == seq_chunk[victim[u]] \div 2
  <2>1. half \in Nat /\ half <= Longest
    BY <1>0
  <2> HIDE DEF half
  <2>2. \/ UNCHANGED << seq_chunk, chunk >>
        \/ \E c \in {1, half} : chunk' = [chunk EXCEPT ![u] = c] /\ UNCHANGED seq_chunk
        \/ seq_chunk' = [seq_chunk EXCEPT ![victim[u]] = chunk[u]] /\ UNCHANGED chunk
    BY <1>4 DEF TestReduce, ReadReduce, StoreReduced, tuning, locals, Set, half
  <2> QED BY <1>0, <1>1, <1>2, <2>1, <2>2
<1>5. CASE TestLittle(u) \/ ReadLittle(u) \/ StoreLittle(u)
  <2> DEFINE part == seq_chunk[u] \div Alpha
  <2>1. part \in Nat /\ part <= Longest
    <3>1. \A c \in Nat : c \div Alpha \in 0 .. c
      BY AlphaAssumption
    <3> QED BY <1>0, <3>1
  <2> HIDE DEF part
  <2>2. \/ UNCHANGED << seq_chunk, chunk >>
        \/ \E c \in {1, part} : chunk' = [chunk EXCEPT ![u] = c] /\ UNCHANGED seq_chunk
        \/ seq_chunk' = [seq_chunk EXCEPT ![u] = chunk[u]] /\ UNCHANGED chunk
    BY <1>5 DEF TestLittle, ReadLittle, StoreLittle, tuning, locals, Set, part
  <2> QED BY <1>0, <1>1, <1>2, <2>1, <2>2
<1>6. CASE StoreChunk(u)
  <2>1. reg[u] \in 0 .. Last
    BY <1>0, <1>6, RangeAssumption DEF StoreChunk, Goto, RegInv, SizeLabels
  <2>2. PICK c \in BaseChunks(reg[u]) : seq_chunk' = [seq_chunk EXCEPT ![u] = c] /\ UNCHANGED chunk
    BY <1>6 DEF StoreChunk, Set, locals
  <2>3. c \in Nat /\ c <= Longest
    BY <2>1, <2>2, ChunkBelow, LongestFits
  <2> QED BY <1>2, <2>2, <2>3
<1>7. CASE LoadLeft(u) \/ ReadHalf(u) \/ Halve(u) \/ StoreHalf(u) \/ LoadSize(u)
           \/ StoreHalfRange(u) \/ StoreMinSteal(u)
  BY <1>1, <1>7 DEF LoadLeft, ReadHalf, Halve, StoreHalf, LoadSize, StoreHalfRange, StoreMinSteal,
    tuning, locals
<1>8. CASE Plain(u) \/ Sizing(u)
  BY <1>0, <1>1, <1>8, PlainStep, SizingStep DEF tuning, locals
<1> QED BY <1>3, <1>4, <1>5, <1>6, <1>7, <1>8, Split DEF Quiet

-----------------------------------------------------------------------------
(* All of it *)

\* DISTRIB_BY_DEMAND gives thread 0 the whole loop and the others nothing; they
\* steal their first sub-range.
LEMMA VariantInitAny == VariantInit => W!AnyInit
<1> SUFFICES ASSUME VariantInit PROVE W!AnyInit
  OBVIOUS
<1> USE Constants
<1>1. wpc = [t \in Threads |-> "seq"]
  BY DEF VariantInit, wpc, BaseLabel, OwnerLabels, StealLabels, ReduceLabels
<1>2. /\ first \in [Threads -> Nat] /\ last \in [Threads -> Nat]
      /\ \A t \in Threads : first[t] <= last[t] /\ last[t] <= Last
      /\ \A x \in Iterations : \E t \in Threads : \A s \in Threads :
           first[s] <= x /\ x < last[s] <=> s = t
  <2>1. CASE Has("DISTRIB_BY_DEMAND")
    <3>1. /\ first = [t \in Threads |-> DemandFirst(t)]
          /\ last = [t \in Threads |-> DemandLast(t)]
      BY <2>1 DEF VariantInit
    <3>2. 0 \in Threads
      BY ThreadsAssumption DEF Threads
    <3>3. \A x \in Iterations, s \in Threads : first[s] <= x /\ x < last[s] <=> s = 0
      BY <3>1, RangeAssumption DEF Iterations, DemandFirst, DemandLast
    <3> QED BY <3>1, <3>2, <3>3, RangeAssumption DEF DemandFirst, DemandLast
  <2>2. CASE ~Has("DISTRIB_BY_DEMAND")
    <3>1. /\ first = [t \in Threads |-> InitialFirst(t)]
          /\ last = [t \in Threads |-> InitialLast(t)]
      BY <2>2 DEF VariantInit
    <3>2. \A t \in Threads : W!InitialFirst(t) = InitialFirst(t) /\ W!InitialLast(t) = InitialLast(t)
      BY DEF W!InitialFirst, InitialFirst, W!InitialLast, InitialLast, W!Chunk, Chunk,
        W!Remain, Remain, W!MinOf, MinOf
    <3>3. \A t \in Threads :
            /\ W!InitialFirst(t) \in Nat /\ W!InitialLast(t) \in Nat
            /\ W!InitialFirst(t) <= W!InitialLast(t) /\ W!InitialLast(t) <= Last
      BY W!WithinLoop, BaseAssumptions
    <3>4. \A x \in Iterations : \E t \in Threads : \A s \in Threads :
            W!InitialFirst(s) <= x /\ x < W!InitialLast(s) <=> s = t
      BY W!Partition, BaseAssumptions
    <3> QED BY <3>1, <3>2, <3>3, <3>4
  <2> QED BY <2>1, <2>2
<1> QED BY <1>1, <1>2 DEF VariantInit, W!AnyInit

LEMMA InitV == VariantInit => VInv
<1> SUFFICES ASSUME VariantInit PROVE VInv
  OBVIOUS
<1>0. W!AnyInit
  BY VariantInitAny
<1>1. W!TypeOK /\ W!LockInv /\ W!OnceInv /\ W!VictimsInv
  BY <1>0, W!InitGood, W!InitPair, BaseAssumptions DEF W!OnceInv
<1>2. \A t \in Threads : last[t] - first[t] \in 0 .. IndexMax /\ last[t] - first[t] \in 0 .. Last
  BY <1>0, Constants, IndexAssumption, RangeAssumption DEF W!AnyInit
<1>3. \A t \in Threads :
        /\ MinSteal(last[t] - first[t]) \in Nat \ {0}
        /\ HalfRange(last[t] - first[t]) \in 0 .. IndexMax
  BY <1>2, Sizes
<1>4. /\ build \in Builds /\ pc = [t \in Threads |-> "seq"]
      /\ seq_chunk \in [Threads -> 1 .. IndexMax]
      /\ \A t \in Threads : seq_chunk[t] \in Chunks(t, last[t] - first[t])
      /\ half_range = [t \in Threads |-> HalfRange(last[t] - first[t])]
      /\ min_steal  = [t \in Threads |-> MinSteal(last[t] - first[t])]
      /\ chunk = [t \in Threads |-> 0] /\ steal_size = [t \in Threads |-> 0]
      /\ reg = [t \in Threads |-> 0]
  BY DEF VariantInit
<1>5. min_steal \in [Threads -> Nat \ {0}] /\ half_range \in [Threads -> 0 .. IndexMax]
  BY <1>3, <1>4
<1>6. TuneInv
  BY <1>4, <1>5, IndexAssumption DEF TuneInv, Labels, SeqLabels, ReduceLabels
<1>7. HalfInv
  BY <1>4, <1>5, IndexAssumption DEF HalfInv
<1>8. RegsInv /\ RecalcsInv
  <2>1. \A t \in Threads : victim[t] = t /\ pc[t] = "seq"
    BY DEF VariantInit
  <2> QED BY <2>1 DEF RegsInv, RegInv, SizeLabels, ReduceLabels, RecalcsInv, RecalcInv
<1>9. ChunkInv
  BY <1>2, <1>4, ChunkBelow, LongestFits DEF ChunkInv
<1> QED BY <1>1, <1>6, <1>7, <1>8, <1>9 DEF VInv

\* A cut that goes beyond the end read is outdated in every build.
LEMMA CutBelow ==
  ASSUME W!TypeOK, NEW u \in Threads, VariantStep(u), wpc[u] = "cut"
  PROVE  Cut(u) /\ (~outdated' => new_last[u] <= vic_last[u])
<1>1. pc[u] = "cut"
  BY Where DEF BaseLabel, OwnerLabels, StealLabels, ReduceLabels
<1>2. Cut(u)
  <2>1. ~ Quiet(u)
    BY <1>1 DEF Quiet, LoadLeft, TestLeft, ReadChunk, ReadHalf, Halve, StoreHalf, TestReduce, ReadReduce,
      StoreReduced, LoadSize, StoreChunk, TestLittle, ReadLittle, StoreLittle, StoreHalfRange,
      StoreMinSteal, Goto
  <2>2. ~ (TestBound(u) \/ BoundChunk(u) \/ PickVictim(u) \/ UnlockReduced(u) \/ SetFirst(u)
           \/ RecheckLast(u) \/ TestThreshold(u) \/ Sizing(u))
    BY <1>1 DEF TestBound, BoundChunk, PickVictim, UnlockReduced, SetFirst, RecheckLast, ParRecheckLast,
      TestThreshold, Sizing, HalfRemaining, TestHalf, Goto
  <2>3. Unchanging(u)
    BY <2>1, <2>2, Split DEF Plain
  <2> QED BY <1>1, <2>3 DEF Unchanging, SeqBoundLast, SeqPublish, SeqCheck, SeqUndo, SeqLock,
    SeqTake, Body, ParHideFirst, ParHideLast, ParReturn, ParRange, ParTryLock, ParLoadLast,
    ParVerifyLast, ParVerifyFirst, ParRecheckFirst, ParRollback, ParSetLast, Goto
<1>3. new_last[u] \in Int /\ vic_last[u] \in Int
  BY Constants DEF W!TypeOK
<1>4. ~outdated' => ~ (new_last[u] > vic_last[u])
  BY <1>2 DEF Cut
<1> QED BY <1>2, <1>3, <1>4

LEMMA NotOutdated ==
  ASSUME NEW u \in Threads, W!AnyStep(u) \/ UNCHANGED W!vars, ~outdated'
  PROVE  ~outdated
<1>1. CASE W!AnyStep(u)
  BY <1>1, W!StepOutdated, BaseAssumptions, Constants
<1>2. CASE UNCHANGED W!vars
  BY <1>2 DEF W!vars
<1> QED BY <1>1, <1>2

LEMMA StepV ==
  ASSUME VInv, NEW u \in Threads, VariantStep(u)
  PROVE  VInv' /\ (W!AnyStep(u) \/ UNCHANGED W!vars)
<1>0. W!AnyStep(u) \/ UNCHANGED W!vars
  BY VariantAny
<1>a. W!TypeOK /\ W!LockInv /\ W!OnceInv /\ W!VictimsInv /\ TuneInv
  BY DEF VInv
<1>1. W!TypeOK' /\ W!LockInv' /\ W!OnceInv' /\ W!VictimsInv'
  <2>1. CASE W!AnyStep(u)
    <3>1. W!TypeOK' /\ W!LockInv' /\ W!VictimsInv'
      BY <1>a, <2>1, W!StepType, W!StepLock, W!StepVictims, BaseAssumptions, Constants
    <3>2. wpc[u] = "cut" /\ ~outdated' => new_last[u] <= vic_last[u]
      BY <1>a, CutBelow
    <3>3. W!OnceInv'
      BY <1>a, <2>1, <3>2, W!StepOnce, BaseAssumptions, Constants
    <3> QED BY <3>1, <3>3
  <2>2. CASE UNCHANGED W!vars
    BY <1>a, <2>2, W!StutterOnce, W!StutterPair, BaseAssumptions
  <2> QED BY <1>0, <2>1, <2>2
<1>2. TuneInv'
  BY <1>0, <1>a, TuneStep
<1>3. ~outdated' => HalfInv' /\ RegsInv' /\ ChunkInv' /\ RecalcsInv'
  <2> SUFFICES ASSUME ~outdated' PROVE HalfInv' /\ RegsInv' /\ ChunkInv' /\ RecalcsInv'
    OBVIOUS
  <2>1. W!Good /\ HalfInv /\ RegsInv /\ ChunkInv /\ RecalcsInv
    BY <1>0, NotOutdated DEF VInv, W!OnceInv
  <2>2. HalfInv' /\ ChunkInv'
    BY <2>1, HalfStep, ChunkStep
  <2>3. RegsInv' /\ RecalcsInv'
    BY <1>0, <1>a, <2>1, RegsStep, RecalcStep
  <2> QED BY <2>2, <2>3
<1> QED BY <1>0, <1>1, <1>2, <1>3 DEF VInv

LEMMA StutterV ==
  ASSUME VInv, UNCHANGED allvars
  PROVE  VInv' /\ UNCHANGED W!vars
<1>1. UNCHANGED W!vars /\ UNCHANGED << pc, wpc, build, tuning, locals >>
  BY Stay DEF allvars, vars, shared, own, thief, W!vars, W!shared, W!own, W!thief
<1>2. W!TypeOK' /\ W!LockInv' /\ W!OnceInv' /\ W!VictimsInv'
  BY <1>1, W!StutterOnce, W!StutterPair, BaseAssumptions DEF VInv
<1>3. TuneInv'
  BY <1>1 DEF VInv, TuneInv, tuning, locals, W!vars, W!thief
<1>4. ~outdated' => HalfInv' /\ RegsInv' /\ ChunkInv' /\ RecalcsInv'
  <2>1. UNCHANGED << outdated, first, victim, seen, new_last, vic_last >>
    BY <1>1 DEF W!vars
  <2>2. RecalcsInv => RecalcsInv'
    BY <1>1, <2>1 DEF RecalcsInv, RecalcInv
  <2>3. RegsInv => RegsInv'
    <3>1. \A t \in Threads : Minus(vic_last'[t], steal_size'[t]) = Minus(vic_last[t], steal_size[t])
      BY <1>1, <2>1 DEF locals
    <3> QED BY <1>1, <2>1, <3>1 DEF RegsInv, RegInv, locals, Minus
  <2>4. (HalfInv => HalfInv') /\ (ChunkInv => ChunkInv')
    BY <1>1 DEF HalfInv, ChunkInv, Longest, tuning, locals
  <2> QED BY <2>1, <2>2, <2>3, <2>4 DEF VInv
<1> QED BY <1>1, <1>2, <1>3, <1>4 DEF VInv

LEMMA VInductive == VariantSpec => []VInv
<1>1. VInv /\ [VariantNext]_allvars => VInv'
  BY StepV, StutterV DEF VariantNext
<1> QED BY InitV, <1>1, PTL DEF VariantSpec

(***************************************************************************)
(* Owner and thieves exclude each other on every sub-range, whatever       *)
(* macros are defined; a thief that reduces its victim's chunk still does. *)
(***************************************************************************)
THEOREM VariantsExclude == VariantSpec => []W!MutualExclusion
<1>1. VInv => W!MutualExclusion
  BY DEF VInv, W!LockInv, W!MutualExclusion
<1> QED BY <1>1, VInductive, PTL

(***************************************************************************)
(* In every build, and with any number of threads, no iteration is lost or *)
(* run twice before an outdated cut.                                       *)
(***************************************************************************)
THEOREM VariantsLoseNothing == VariantSpec => []W!OnceUnlessOutdated
<1>1. VInv => W!OnceUnlessOutdated
  BY W!AnsweredOnce, BaseAssumptions DEF VInv, W!OnceInv
<1> QED BY <1>1, VInductive, PTL

-----------------------------------------------------------------------------
(* The size of a chunk *)

(***************************************************************************)
(* What the macros add keeps its type in every build, outdated cuts or     *)
(* not: in particular a least steal is never empty.                        *)
(***************************************************************************)
THEOREM VariantTypeCorrect == VariantSpec => []VariantTypeOK
<1>1. VInv => VariantTypeOK
  BY DEF VInv, TuneInv, VariantTypeOK
<1> QED BY <1>1, VInductive, PTL

\* Where a LITTLE thread divides its chunk, and what the two reads of MAX find.
LittleLabels == {"little", "little2", "little3"}
MaxInv(t) ==
  /\ pc[t] \in LittleLabels => Divides(t)
  /\ pc[t] = "little2" => seq_chunk[t] \div Alpha > 1
  /\ pc[t] = "little3" => chunk[t] > 0
  /\ pc[t] \in ReduceLabels => Has("REDUCE_GRAIN_ON_STEAL")
  /\ pc[t] = "reduce2" => seq_chunk[victim[t]] \div 2 > 1
  /\ pc[t] = "reduced" => chunk[t] \in 1 .. Grain

\* A build that does not make chunks smaller while thieves reduce them: its
\* owners only ever store the grain, which is not less than what thieves leave.
FullInv ==
  ~Shrinks =>
    /\ \A t \in Threads : seq_chunk[t] > 0 /\ MaxInv(t)
    /\ Has("REDUCE_GRAIN_ON_STEAL") => \A t \in Threads : seq_chunk[t] <= Grain

\* Who stores a chunk.
LEMMA StoresChunk ==
  ASSUME TuneInv, W!TypeOK, NEW u \in Threads, VariantStep(u)
  PROVE  \/ UNCHANGED seq_chunk
         \/ /\ StoreChunk(u)
            /\ \E c \in BaseChunks(reg[u]) : seq_chunk' = [seq_chunk EXCEPT ![u] = c]
         \/ StoreLittle(u) /\ seq_chunk' = [seq_chunk EXCEPT ![u] = chunk[u]]
         \/ StoreReduced(u) /\ seq_chunk' = [seq_chunk EXCEPT ![victim[u]] = chunk[u]]
<1>1. CASE Plain(u) \/ Sizing(u)
  BY <1>1, PlainStep, SizingStep DEF tuning
<1>2. CASE LoadLeft(u) \/ TestLeft(u) \/ ReadChunk(u) \/ ReadHalf(u) \/ Halve(u) \/ StoreHalf(u)
           \/ TestReduce(u) \/ ReadReduce(u) \/ LoadSize(u) \/ TestLittle(u) \/ ReadLittle(u)
           \/ StoreHalfRange(u) \/ StoreMinSteal(u)
  BY <1>2 DEF LoadLeft, TestLeft, ReadChunk, ReadHalf, Halve, StoreHalf, TestReduce, ReadReduce, LoadSize,
    TestLittle, ReadLittle, StoreHalfRange, StoreMinSteal, tuning
<1>3. CASE StoreChunk(u)
  BY <1>3 DEF StoreChunk, Set
<1>4. CASE StoreLittle(u) \/ StoreReduced(u)
  BY <1>4 DEF StoreLittle, StoreReduced, Set
<1> QED BY <1>1, <1>2, <1>3, <1>4, Split DEF Quiet

\* How a thread comes to where MaxInv says something of it.
LEMMA IntoMax ==
  ASSUME TuneInv, NEW u \in Threads, VariantStep(u)
  PROVE  /\ pc'[u] \in LittleLabels => Divides(u) \/ pc[u] \in LittleLabels
         /\ pc'[u] = "little2" =>
              seq_chunk[u] \div Alpha > 1 /\ UNCHANGED seq_chunk
         /\ pc'[u] = "little3" =>
              \/ chunk'[u] = 1
              \/ pc[u] = "little2" /\ chunk'[u] = seq_chunk[u] \div Alpha
         /\ pc'[u] = "reduce2" =>
              seq_chunk[victim[u]] \div 2 > 1 /\ UNCHANGED << seq_chunk, victim >>
         /\ pc'[u] = "reduced" =>
              \/ chunk'[u] = 1
              \/ pc[u] = "reduce2" /\ chunk'[u] = seq_chunk[victim[u]] \div 2
<1> USE DEF Goto, Set, TuneInv, LittleLabels
<1>1. CASE Unchanging(u)
  <2>1. pc'[u] \notin LittleLabels \cup {"reduce2", "reduced"}
    BY <1>1 DEF Unchanging, SeqBoundLast, Bound, SeqPublish, SeqCheck, SeqUndo, SeqLock, SeqTake, Body,
      ParHideFirst, ParHideLast, ParReturn, ParRange, ParTryLock, ParLoadLast, ParVerifyLast,
      ParVerifyFirst, Cut, ParRecheckFirst, ParRollback, ParSetLast, Abandon, GiveUp
  <2> QED BY <2>1
<1>2. CASE TestBound(u) \/ BoundChunk(u) \/ PickVictim(u) \/ UnlockReduced(u) \/ SetFirst(u)
           \/ RecheckLast(u) \/ TestThreshold(u) \/ Sizing(u)
  <2>1. pc'[u] \notin LittleLabels \cup {"reduce2", "reduced"}
    BY <1>2 DEF TestBound, BoundChunk, Bound, PickVictim, UnlockReduced, SetFirst, RecheckLast,
      ParRecheckLast, TestThreshold, Sizing, HalfRemaining, TestHalf, Decide, Aim, Abandon, GiveUp
  <2> QED BY <2>1
<1>3. CASE LoadLeft(u) \/ TestLeft(u) \/ ReadChunk(u) \/ ReadHalf(u) \/ Halve(u) \/ StoreHalf(u)
           \/ StoreReduced(u) \/ LoadSize(u) \/ StoreLittle(u) \/ StoreHalfRange(u) \/ StoreMinSteal(u)
  <2>1. pc'[u] \notin LittleLabels \cup {"reduce2", "reduced"}
    BY <1>3 DEF LoadLeft, TestLeft, ReadChunk, ReadHalf, Halve, StoreHalf, StoreReduced, LoadSize,
      StoreLittle, StoreHalfRange, StoreMinSteal
  <2> QED BY <2>1
<1>4. CASE StoreChunk(u)
  BY <1>4 DEF StoreChunk
<1>5. CASE TestLittle(u) \/ ReadLittle(u)
  BY <1>5 DEF TestLittle, ReadLittle, tuning
<1>6. CASE TestReduce(u) \/ ReadReduce(u)
  BY <1>6 DEF TestReduce, ReadReduce, tuning, protocol, thief
<1> QED BY <1>1, <1>2, <1>3, <1>4, <1>5, <1>6, Split DEF Plain, Quiet

LEMMA FullStep ==
  ASSUME VInv, FullInv, NEW u \in Threads, VariantStep(u)
  PROVE  FullInv'
<1>0. /\ TuneInv /\ W!TypeOK /\ W!LockInv /\ TuneInv'
      /\ W!AnyStep(u) \/ UNCHANGED W!vars
      /\ victim[u] \in Threads
  BY StepV, Constants DEF VInv, W!TypeOK
<1>1. build' = build
  <2>1. Plain(u) => build' = build
    BY <1>0, PlainStep
  <2>2. Sizing(u) => build' = build
    BY <1>0, SizingStep
  <2>3. Quiet(u) => build' = build
    BY <1>0, QuietStep
  <2> QED BY <2>1, <2>2, <2>3, Split
<1>2. \A macro : Has(macro)' <=> Has(macro)
  BY <1>1 DEF Has
<1>3. Shrinks' <=> Shrinks
  BY <1>1 DEF Shrinks, Has
<1> SUFFICES ASSUME ~Shrinks
             PROVE  /\ \A t \in Threads : seq_chunk'[t] > 0 /\ MaxInv(t)'
                    /\ Has("REDUCE_GRAIN_ON_STEAL") => \A t \in Threads : seq_chunk'[t] <= Grain
  BY <1>2, <1>3 DEF FullInv
<1>4. /\ \A t \in Threads : seq_chunk[t] > 0 /\ MaxInv(t)
      /\ Has("REDUCE_GRAIN_ON_STEAL") => \A t \in Threads : seq_chunk[t] <= Grain
      /\ seq_chunk \in [Threads -> Nat] /\ chunk \in [Threads -> Nat]
  BY <1>0 DEF FullInv, TuneInv
\* Where thieves reduce chunks, owners store the grain and divide nothing.
<1>5. Has("REDUCE_GRAIN_ON_STEAL") =>
        /\ \A size : BaseChunks(size) = {Grain}
        /\ \A t \in Threads : ~Divides(t) /\ pc[t] \notin LittleLabels
  BY <1>4 DEF Shrinks, BaseChunks, Divides, MaxInv
<1>6. /\ \A t \in Threads : seq_chunk'[t] > 0
      /\ Has("REDUCE_GRAIN_ON_STEAL") => \A t \in Threads : seq_chunk'[t] <= Grain
  <2>1. CASE UNCHANGED seq_chunk
    BY <1>4, <2>1
  <2>2. CASE StoreChunk(u)
    <3>1. PICK c \in BaseChunks(reg[u]) : seq_chunk' = [seq_chunk EXCEPT ![u] = c]
      BY <2>2 DEF StoreChunk, Set
    <3>2. c > 0
      BY <1>0, <3>1, Sizes DEF TuneInv
    <3>3. Has("REDUCE_GRAIN_ON_STEAL") => c = Grain
      BY <1>5, <3>1
    <3> QED BY <1>4, <3>1, <3>2, <3>3, GrainAssumption
  <2>3. CASE StoreLittle(u) /\ seq_chunk' = [seq_chunk EXCEPT ![u] = chunk[u]]
    <3>1. pc[u] = "little3"
      BY <2>3 DEF StoreLittle, Goto
    <3> QED BY <1>4, <1>5, <2>3, <3>1 DEF MaxInv, LittleLabels
  <2>4. CASE StoreReduced(u) /\ seq_chunk' = [seq_chunk EXCEPT ![victim[u]] = chunk[u]]
    <3>1. pc[u] = "reduced"
      BY <2>4 DEF StoreReduced, Goto
    <3> QED BY <1>0, <1>4, <2>4, <3>1, GrainAssumption DEF MaxInv
  <2> QED BY <1>0, <2>1, <2>2, <2>3, <2>4, StoresChunk
<1>7. ASSUME NEW t \in Threads
      PROVE  MaxInv(t)'
  <2>0. MaxInv(t) /\ (Divides(t)' <=> Divides(t))
    BY <1>1, <1>4 DEF Divides, IsLittle, Has
  <2>1. CASE t # u
    <3>0. pc'[t] = pc[t] /\ chunk'[t] = chunk[t] /\ victim'[t] = victim[t]
      BY <1>0, <2>1, OtherStep
    <3>1. pc[t] = "little2" => seq_chunk'[t] = seq_chunk[t]
      <4> SUFFICES ASSUME pc[t] = "little2" PROVE seq_chunk'[t] = seq_chunk[t]
        OBVIOUS
      <4>1. ~StoreReduced(u)
        <5>1. ~Has("REDUCE_GRAIN_ON_STEAL")
          BY <1>5 DEF LittleLabels
        <5> QED BY <1>4, <5>1 DEF StoreReduced, Goto, MaxInv, ReduceLabels
      <4> QED BY <1>0, <1>4, <2>1, <4>1, StoresChunk
    <3>2. pc[t] = "reduce2" => seq_chunk'[victim[t]] >= seq_chunk[victim[t]]
      <4> SUFFICES ASSUME pc[t] = "reduce2" PROVE seq_chunk'[victim[t]] >= seq_chunk[victim[t]]
        OBVIOUS
      <4>0. Has("REDUCE_GRAIN_ON_STEAL") /\ victim[t] \in Threads
        BY <1>0, <2>0, Constants DEF MaxInv, ReduceLabels, W!TypeOK
      <4>1. CASE UNCHANGED seq_chunk
        BY <1>4, <4>0, <4>1
      <4>2. CASE \E c \in BaseChunks(reg[u]) : seq_chunk' = [seq_chunk EXCEPT ![u] = c]
        BY <1>4, <1>5, <4>0, <4>2, GrainAssumption
      <4>3. ~StoreLittle(u)
        BY <1>5, <4>0 DEF StoreLittle, Goto, LittleLabels
      <4>4. CASE StoreReduced(u) /\ seq_chunk' = [seq_chunk EXCEPT ![victim[u]] = chunk[u]]
        <5>1. wpc[t] = "recheck2" /\ wpc[u] = "recheck2"
          BY <4>4, Where DEF StoreReduced, Goto, BaseLabel, OwnerLabels, StealLabels, ReduceLabels
        <5>2. victim[t] # victim[u]
          BY <1>0, <2>1, <5>1, Constants DEF W!LockInv, W!InSection, W!ThiefLabels
        <5> QED BY <1>4, <4>0, <4>4, <5>2
      <4> QED BY <1>0, <4>1, <4>2, <4>3, <4>4, StoresChunk
    <3>3. pc[t] = "reduce2" => seq_chunk'[victim[t]] \div 2 > 1
      <4>1. pc[t] = "reduce2" => victim[t] \in Threads
        BY <1>0, Constants DEF W!TypeOK
      <4> QED BY <1>0, <1>4, <2>0, <3>2, <4>1 DEF MaxInv, TuneInv
    <3> QED BY <1>2, <2>0, <3>0, <3>1, <3>3 DEF MaxInv
  <2>2. CASE t = u
    <3>1. pc'[u] \in LittleLabels => Divides(u)'
      BY <1>0, <2>0, <2>2, IntoMax DEF MaxInv
    <3>2. pc'[u] = "little2" => seq_chunk'[u] \div Alpha > 1
      BY <1>0, IntoMax
    <3>3. pc'[u] = "little3" => chunk'[u] > 0
      <4>1. pc[u] = "little2" => seq_chunk[u] \div Alpha > 1
        BY <2>0, <2>2 DEF MaxInv
      <4>2. seq_chunk[u] \div Alpha \in Int
        BY <1>4, AlphaAssumption
      <4> QED BY <1>0, <4>1, <4>2, IntoMax
    <3>4. pc'[u] \in ReduceLabels => Has("REDUCE_GRAIN_ON_STEAL")'
      BY <1>0, <1>2, <2>0, <2>2, IntoReduce DEF MaxInv, Reduces
    <3>5. pc'[u] = "reduce2" => seq_chunk'[victim'[u]] \div 2 > 1
      BY <1>0, IntoMax
    <3>6. pc'[u] = "reduced" => chunk'[u] \in 1 .. Grain
      <4>1. CASE chunk'[u] = 1
        BY <4>1, GrainAssumption
      <4>2. CASE pc[u] = "reduce2" /\ chunk'[u] = seq_chunk[victim[u]] \div 2
        <5>1. seq_chunk[victim[u]] \div 2 > 1 /\ Has("REDUCE_GRAIN_ON_STEAL")
          BY <2>0, <2>2, <4>2 DEF MaxInv, ReduceLabels
        <5>2. seq_chunk[victim[u]] <= Grain /\ seq_chunk[victim[u]] \in Nat
          BY <1>0, <1>4, <5>1
        <5> QED BY <4>2, <5>1, <5>2, GrainAssumption
      <4> QED BY <1>0, <4>1, <4>2, IntoMax
    <3> QED BY <2>2, <3>1, <3>2, <3>3, <3>4, <3>5, <3>6 DEF MaxInv
  <2> QED BY <2>1, <2>2
<1> QED BY <1>6, <1>7

(***************************************************************************)
(* In every build but those that Shrinks names no thread is ever left with *)
(* an empty chunk, however many thieves reduce it while its owner computes *)
(* it: the value that MAX tests cannot become smaller before it is read    *)
(* again.                                                                  *)
(***************************************************************************)
THEOREM ChunksNotEmpty == VariantSpec => []NoEmptyChunk
<1>1. VariantInit => FullInv
  <2> SUFFICES ASSUME VariantInit, ~Shrinks PROVE FullInv
    BY DEF FullInv
  <2>1. VInv /\ pc = [t \in Threads |-> "seq"]
    BY InitV DEF VariantInit
  <2>2. \A t \in Threads : MaxInv(t)
    BY <2>1 DEF MaxInv, LittleLabels, ReduceLabels
  <2>3. /\ seq_chunk \in [Threads -> 1 .. IndexMax]
        /\ \A t \in Threads : seq_chunk[t] \in Chunks(t, last[t] - first[t])
    BY DEF VariantInit
  <2>4. Has("REDUCE_GRAIN_ON_STEAL") => \A t \in Threads : seq_chunk[t] <= Grain
    BY <2>3, GrainAssumption DEF Shrinks, Chunks, BaseChunks, Divides
  <2> QED BY <2>2, <2>3, <2>4, IndexAssumption DEF FullInv
<1>2. VInv /\ FullInv /\ [VariantNext]_allvars => FullInv'
  <2> SUFFICES ASSUME VInv, FullInv, [VariantNext]_allvars PROVE FullInv'
    OBVIOUS
  <2>1. CASE UNCHANGED allvars
    BY <2>1 DEF allvars, vars, tuning, locals, thief, FullInv, MaxInv, Shrinks, Has, Divides, IsLittle
  <2> QED BY <2>1, FullStep DEF VariantNext
<1>3. FullInv => NoEmptyChunk
  BY DEF FullInv, NoEmptyChunk
<1> QED BY <1>1, <1>2, <1>3, VInductive, PTL DEF VariantSpec

(***************************************************************************)
(* Until an outdated cut no half_range and no steal is negative, whatever  *)
(* an owner computes from a sub-range that is already being stolen from.   *)
(***************************************************************************)
THEOREM SizesAreIndices == VariantSpec => [](~outdated => HalfInv)
<1>1. VInv => (~outdated => HalfInv)
  BY DEF VInv
<1> QED BY <1>1, VInductive, PTL

-----------------------------------------------------------------------------
(* Builds in which no cut is outdated *)

LEMMA StepVPair ==
  ASSUME VInv, W!PairInv, W!Unchained, NEW u \in Threads, VariantStep(u)
  PROVE  W!PairInv'
<1>1. ~outdated /\ W!Good
  BY DEF VInv, W!OnceInv, W!PairInv
<1>2. CASE W!AnyStep(u)
  <2>1. wpc[u] = "cut" => ~outdated'
    <3> SUFFICES ASSUME wpc[u] = "cut" PROVE ~outdated'
      OBVIOUS
    <3>1. Cut(u) /\ last[victim[u]] = vic_last[u] /\ new_last[u] < vic_last[u]
      BY <1>1, CutBelow, W!CutStands, BaseAssumptions, Constants DEF VInv
    <3>2. new_last[u] \in Int /\ vic_last[u] \in Int
      BY Constants DEF VInv, W!TypeOK
    <3>3. ~ (new_last[u] > vic_last[u])
      BY <3>1, <3>2
    <3> QED BY <1>1, <3>1, <3>3 DEF Cut
  <2> QED BY <1>1, <1>2, <2>1, W!StepPair, BaseAssumptions, Constants DEF VInv
<1>3. CASE UNCHANGED W!vars
  BY <1>3, W!StutterPair, BaseAssumptions
<1> QED BY <1>2, <1>3, StepV

\* Nothing goes wrong as long as the threads that steal from each other do so
\* in pairs.
LEMMA PairV == VariantSpec /\ []W!Unchained => []W!PairInv
<1>1. VariantInit => W!PairInv
  BY VariantInitAny, W!InitPair, BaseAssumptions
<1>2. VInv /\ W!PairInv /\ W!Unchained /\ [VariantNext]_allvars => W!PairInv'
  <2> SUFFICES ASSUME VInv, W!PairInv, W!Unchained, [VariantNext]_allvars
               PROVE  W!PairInv'
    OBVIOUS
  <2>1. CASE UNCHANGED allvars
    BY <2>1, StutterV, W!StutterPair, BaseAssumptions
  <2> QED BY <2>1, StepVPair DEF VariantNext
<1> QED BY <1>1, <1>2, VInductive, PTL DEF VariantSpec

LEMMA Ended == AllEnded <=> W!AllEnded
<1>1. \A t \in Threads : pc[t] = "end" <=> wpc[t] = "end"
  BY Where DEF BaseLabel, OwnerLabels, StealLabels, ReduceLabels
<1> QED BY <1>1, Constants DEF AllEnded, W!AllEnded

LEMMA EndedNext == AllEnded' <=> W!AllEnded'
<1>1. \A t \in Threads : wpc'[t] = BaseLabel(pc'[t])
  BY DEF wpc
<1>2. \A t \in Threads : pc'[t] = "end" <=> wpc'[t] = "end"
  BY <1>1 DEF BaseLabel, OwnerLabels, StealLabels, ReduceLabels
<1> QED BY <1>2, Constants DEF AllEnded, W!AllEnded

\* Where no cut is outdated the scheduler implements the loop.
LEMMA LoopV == VariantSpec /\ []W!PairInv => ImplementsLoop
<1>1. VariantInit => Promise!Init
  <2> SUFFICES ASSUME VariantInit PROVE Promise!Init
    OBVIOUS
  <2>1. W!Promise!Init
    BY VariantInitAny, W!InitLoop, BaseAssumptions
  <2>2. done = [x \in Iterations |-> 0] /\ ~W!AllEnded
    BY <2>1, Constants DEF W!Promise!Init
  <2>3. AllEnded = FALSE
    BY <2>2, Ended DEF AllEnded
  <2> QED BY <2>2, <2>3 DEF Promise!Init
<1>2. VInv /\ W!PairInv /\ W!PairInv' /\ [VariantNext]_allvars
        => [Promise!Next]_<< done, AllEnded >>
  <2> SUFFICES ASSUME VInv, W!PairInv, W!PairInv', [VariantNext]_allvars
               PROVE  [Promise!Next]_<< done, AllEnded >>
    OBVIOUS
  <2>1. CASE UNCHANGED allvars
    BY <2>1 DEF allvars, vars, AllEnded
  <2>2. ASSUME NEW u \in Threads, VariantStep(u)
        PROVE  [Promise!Next]_<< done, AllEnded >>
    <3>1. W!AnyStep(u) \/ UNCHANGED W!vars
      BY <2>2, StepV
    <3>2. (AllEnded' <=> AllEnded) => AllEnded' = AllEnded
      BY DEF AllEnded
    <3>3. CASE UNCHANGED W!vars
      <4>1. done' = done /\ W!AllEnded' = W!AllEnded
        BY <3>3 DEF W!vars, W!AllEnded
      <4> QED BY <3>2, <4>1, Ended, EndedNext
    <3>4. CASE W!AnyStep(u)
      <4>1. [W!Promise!Next]_<< done, W!AllEnded >>
        BY <3>4, W!StepLoop, BaseAssumptions, Constants DEF VInv, W!OnceInv, W!PairInv
      <4>2. CASE UNCHANGED << done, W!AllEnded >>
        BY <3>2, <4>2, Ended, EndedNext
      <4>3. CASE W!Promise!Finish
        BY <4>3, Ended, EndedNext, Constants DEF W!Promise!Finish, Promise!Finish, Promise!Next, AllEnded
      <4>4. ASSUME NEW part \in SUBSET Iterations, W!Promise!Run(part)
            PROVE  Promise!Next
        <5>1. AllEnded' = AllEnded
          BY <3>2, <4>4, Ended, EndedNext DEF W!Promise!Run
        <5>2. Promise!Run(part)
          BY <4>4, <5>1, Ended, Constants DEF W!Promise!Run, Promise!Run
        <5> QED BY <5>2 DEF Promise!Next
      <4> QED BY <4>1, <4>2, <4>3, <4>4, Constants DEF W!Promise!Next, Promise!Next
    <3> QED BY <3>1, <3>3, <3>4
  <2> QED BY <2>1, <2>2 DEF VariantNext
<1> QED BY <1>1, <1>2, VInductive, PTL DEF VariantSpec, ImplementsLoop, Promise!Spec

\* Two threads have only each other to steal from.
LEMMA TwoV ==
  ASSUME NThreads <= 2
  PROVE  VariantSpec => []W!PairInv
<1>1. VInv => W!Unchained
  BY W!TwoUnchained, BaseAssumptions DEF VInv
<1> QED BY <1>1, VInductive, PairV, PTL

LEMMA PairNeverOutdated == W!PairInv => NeverOutdated
  BY DEF W!PairInv, NeverOutdated

(***************************************************************************)
(* With two threads a thief's copy of its victim's `last` is right when it *)
(* cuts, and it never cuts beyond that copy, whatever macros are defined.  *)
(***************************************************************************)
THEOREM TwoThreadVariantsNeverOutdated ==
  ASSUME NThreads <= 2
  PROVE  VariantSpec => []NeverOutdated
  BY TwoV, PairNeverOutdated, PTL

(***************************************************************************)
(* With two threads every build implements the loop its caller asked for.  *)
(***************************************************************************)
THEOREM TwoThreadVariantsImplementLoop ==
  ASSUME NThreads <= 2
  PROVE  VariantSpec => ImplementsLoop
  BY TwoV, LoopV, PTL

\* The victims that STEAL_ONLY_FROM_LITTLE leaves.
Watching == {"range", "try"} \cup W!ThiefLabels
LittleInv == \A t \in Threads : wpc[t] \in Watching => IsLittle(victim[t])

LEMMA LittleStep ==
  ASSUME TuneInv, W!TypeOK, LittleInv, Has("STEAL_ONLY_FROM_LITTLE"),
         NEW u \in Threads, VariantStep(u), W!AnyStep(u) \/ UNCHANGED W!vars
  PROVE  LittleInv'
<1>0. build' = build
  <2>1. Plain(u) => build' = build
    BY PlainStep
  <2>2. Sizing(u) => build' = build
    BY SizingStep
  <2>3. Quiet(u) => build' = build
    BY QuietStep
  <2> QED BY <2>1, <2>2, <2>3, Split
<1> SUFFICES ASSUME NEW t \in Threads, wpc'[t] \in Watching
             PROVE  IsLittle(victim'[t])
  BY <1>0 DEF LittleInv, IsLittle, Has
<1>1. CASE t # u
  BY <1>1, OtherStep DEF LittleInv
<1>2. CASE t = u
  <2>0. /\ wpc[u] \in Watching => IsLittle(victim[u])
        /\ wpc[u] = BaseLabel(pc[u]) /\ wpc'[u] = BaseLabel(pc'[u])
    BY Where DEF LittleInv, wpc
  <2> USE Constants DEF Watching, W!ThiefLabels, BaseLabel, OwnerLabels, StealLabels, ReduceLabels
  <2>1. CASE PickVictim(u)
    <3>1. PICK v \in Threads \ visited[u] :
            /\ victim' = [victim EXCEPT ![u] = v]
            /\ ~IsLittle(v) => UNCHANGED pc
      BY <2>1 DEF PickVictim, Set
    <3>2. pc[u] = "pick" /\ victim'[u] = v
      BY <2>1, <3>1, Constants DEF PickVictim, W!TypeOK
    <3> QED BY <1>2, <2>0, <3>1, <3>2
  <2>2. CASE ~PickVictim(u)
    <3>1. victim' = victim /\ wpc[u] \in Watching
      <4>0. wpc'[u] \in Watching
        BY <1>2
      <4> USE <2>0, <4>0 DEF Goto, Set, TuneInv, own, thief
      <4>1. CASE Unchanging(u)
        BY <4>1 DEF Unchanging, SeqBoundLast, Bound, SeqPublish, SeqCheck, SeqUndo, SeqLock, SeqTake,
          Body, ParHideFirst, ParHideLast, ParReturn, ParRange, ParTryLock, ParLoadLast, ParVerifyLast,
          ParVerifyFirst, Cut, ParRecheckFirst, ParRollback, ParSetLast, Abandon, GiveUp
      <4>2. ~ (TestBound(u) \/ BoundChunk(u) \/ SetFirst(u) \/ UnlockReduced(u))
        BY DEF TestBound, BoundChunk, Bound, SetFirst, UnlockReduced
      <4>3. CASE HalfRemaining(u) \/ TestHalf(u) \/ TestThreshold(u)
        BY <4>3 DEF HalfRemaining, TestHalf, TestThreshold, Decide, Aim, Abandon, GiveUp
      <4>4. CASE RecheckLast(u)
        <5>1. victim' = victim
          BY <4>4 DEF RecheckLast, ParRecheckLast, protocol
        <5>2. pc[u] = "recheck2"
          BY <4>4 DEF RecheckLast, ParRecheckLast
        <5> QED BY <5>1, <5>2
      <4>5. CASE Quiet(u)
        BY <4>5, QuietStep DEF W!vars
      <4> QED BY <2>2, <4>1, <4>2, <4>3, <4>4, <4>5 DEF VariantStep, Quiet
    <3> QED BY <1>2, <2>0, <3>1
  <2> QED BY <2>1, <2>2
<1> QED BY <1>1, <1>2

\* Of three threads of an NVIDIA Jetson TX2 only the first is LITTLE.
LEMMA OneVictim ==
  ASSUME NThreads <= 3, \A b \in Builds : {"STEAL_ONLY_FROM_LITTLE", "NVIDIA_JETSON_TX2"} \subseteq b
  PROVE  VariantSpec => []W!PairInv
<1>1. VariantInit => LittleInv
  BY DEF VariantInit, LittleInv, Watching, W!ThiefLabels, wpc, BaseLabel, OwnerLabels, StealLabels,
    ReduceLabels
<1>2. VInv /\ LittleInv /\ [VariantNext]_allvars => LittleInv'
  <2> SUFFICES ASSUME VInv, LittleInv, [VariantNext]_allvars PROVE LittleInv'
    OBVIOUS
  <2>1. CASE UNCHANGED allvars
    BY <2>1, Stay DEF allvars, vars, LittleInv, IsLittle, Has
  <2>2. ASSUME NEW u \in Threads, VariantStep(u)
        PROVE  LittleInv'
    <3>1. Has("STEAL_ONLY_FROM_LITTLE")
      BY DEF VInv, TuneInv, Has
    <3> QED BY <2>2, <3>1, StepV, LittleStep DEF VInv
  <2> QED BY <2>1, <2>2 DEF VariantNext
<1>3. VInv /\ LittleInv => W!Unchained
  <2> SUFFICES ASSUME VInv, LittleInv, NEW t \in Threads, NEW u \in Threads,
                      wpc[t] \in {"try"} \cup ThiefLabels, victim[t] = u, wpc[u] = "range"
               PROVE  FALSE
    BY Constants DEF W!Unchained
  <2>1. Has("NVIDIA_JETSON_TX2")
    BY DEF VInv, TuneInv, Has
  <2>2. \A v \in Threads : IsLittle(v) => v = 0
    BY <2>1, ThreadsAssumption DEF IsLittle, Threads
  <2>3. wpc[t] \in Watching /\ wpc[u] \in Watching
    BY Constants DEF Watching
  <2>4. IsLittle(u) /\ IsLittle(victim[u]) /\ victim[u] \in Threads
    BY <2>3, Constants DEF LittleInv, VInv, W!TypeOK
  <2>5. victim[u] # u
    BY Constants DEF VInv, W!VictimsInv, W!VictimInv
  <2> QED BY <2>2, <2>4, <2>5
<1> QED BY <1>1, <1>2, <1>3, VInductive, PairV, PTL DEF VariantSpec

(***************************************************************************)
(* On a Jetson TX2 with three threads, STEAL_ONLY_FROM_LITTLE leaves one   *)
(* thread to steal from, which itself finds nobody: the loop is run exactly*)
(* once, which the default build does not ensure of three threads.         *)
(***************************************************************************)
THEOREM OneVictimImplementsLoop ==
  ASSUME NThreads <= 3, \A b \in Builds : {"STEAL_ONLY_FROM_LITTLE", "NVIDIA_JETSON_TX2"} \subseteq b
  PROVE  VariantSpec => []NeverOutdated /\ ImplementsLoop
  BY OneVictim, PairNeverOutdated, LoopV, PTL

(***************************************************************************)
(* In every build that divides the loop equally the first bodies can wait  *)
(* for each other, however small or large their chunks are.                *)
(***************************************************************************)
THEOREM VariantsMeet ==
  ASSUME \A b \in Builds : "DISTRIB_BY_DEMAND" \notin b
  PROVE  VariantSpec => []W!BodiesMeet
<1>1. CASE Last - First >= NThreads
  <2>1. VariantInit => W!MeetInv
    <3> SUFFICES ASSUME VariantInit PROVE W!MeetInv
      OBVIOUS
    <3>1. ~Has("DISTRIB_BY_DEMAND")
      BY DEF VariantInit, Has
    <3>2. \A t \in Threads : W!InitialFirst(t) = first[t] /\ W!InitialLast(t) = last[t]
      BY <3>1 DEF VariantInit, W!InitialFirst, InitialFirst, W!InitialLast, InitialLast,
        W!Chunk, Chunk, W!Remain, Remain, W!MinOf, MinOf
    <3>3. wpc = [t \in Threads |-> "seq"]
      BY DEF VariantInit, wpc, BaseLabel, OwnerLabels, StealLabels, ReduceLabels
    <3>4. first \in [Threads -> Nat]
      BY VariantInitAny, Constants DEF W!AnyInit
    <3> QED BY <3>2, <3>3, <3>4, Constants DEF VariantInit, W!MeetInv, W!Ready, W!SeqLabels
  <2>2. VInv /\ W!MeetInv /\ [VariantNext]_allvars => W!MeetInv'
    <3> SUFFICES ASSUME VInv, W!MeetInv, [VariantNext]_allvars PROVE W!MeetInv'
      OBVIOUS
    <3>1. CASE UNCHANGED W!vars
      BY <3>1, W!StutterMeet, BaseAssumptions
    <3>2. ASSUME NEW u \in Threads, W!AnyStep(u)
          PROVE  W!MeetInv'
      BY <1>1, <3>2, W!StepMeet, BaseAssumptions, Constants DEF VInv
    <3> QED BY <3>1, <3>2, StepV, StutterV DEF VariantNext
  <2>3. W!MeetInv => W!BodiesMeet
    BY W!ReadyMeet, BaseAssumptions
  <2> QED BY <2>1, <2>2, <2>3, VInductive, PTL DEF VariantSpec
<1>2. CASE ~ (Last - First >= NThreads)
  <2>1. W!BodiesMeet
    BY <1>2 DEF W!BodiesMeet
  <2> QED BY <2>1, PTL
<1> QED BY <1>1, <1>2

-----------------------------------------------------------------------------
(* The sums of a signed type *)

\* Sums of a build with a signed Index: EXTRACT_THRESHOLD compares what is left
\* with four chunks, and a chunk ends where its size, as read once or twice, says.
NoOverflow ==
  Signed /\ ~outdated => \A t \in Threads :
    /\ 4 * seq_chunk[t] <= IndexMax
    /\ wpc[t] = "seq" => \A c \in {chunk[t], seq_chunk[t]} : copy_first[t] + c <= IndexMax

(***************************************************************************)
(* Where ChunksFit holds, a signed Index holds every sum that extract_seq  *)
(* computes, in every build: that is all the assumption is for.            *)
(***************************************************************************)
THEOREM NothingOverflows == VariantSpec => []NoOverflow
<1>1. VInv => NoOverflow
  <2> SUFFICES ASSUME VInv, Signed, ~outdated, NEW t \in Threads
               PROVE  /\ 4 * seq_chunk[t] <= IndexMax
                      /\ wpc[t] = "seq" =>
                           \A c \in {chunk[t], seq_chunk[t]} : copy_first[t] + c <= IndexMax
    BY DEF NoOverflow
  <2>1. /\ seq_chunk[t] \in Nat /\ chunk[t] \in Nat
        /\ seq_chunk[t] <= Longest /\ chunk[t] <= Longest
    BY DEF ChunkInv, VInv, TuneInv
  <2>2. wpc[t] = "seq" => copy_first[t] \in 0 .. Last
    BY CopyBelow DEF VInv, W!OnceInv
  <2> QED BY <2>1, <2>2, LongestFits, IndexAssumption, RangeAssumption
<1> QED BY <1>1, VInductive, PTL
=============================================================================
