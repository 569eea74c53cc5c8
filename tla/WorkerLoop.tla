----------------------------- MODULE WorkerLoop -----------------------------
(***************************************************************************)
(* Theorems about Worker, for any range and any grain.  With at most two   *)
(* threads no cut is outdated, and the scheduler implements the loop that  *)
(* the caller of parallel_for asked for.  With any number of threads, the  *)
(* bodies of a loop with an iteration for each can wait for each other.    *)
(***************************************************************************)
EXTENDS WorkerOnce

-----------------------------------------------------------------------------
(* The invariant *)

\* A thread has marked its own sub-range as visited, and never picks it.
VictimInv(t) ==
  /\ pc[t] = "pick" => t \in visited[t]
  /\ pc[t] \in {"range", "try"} \cup ThiefLabels => t \in visited[t] /\ victim[t] # t

VictimsInv == \A t \in Threads : VictimInv(t)

\* The victim of a thief may look for work in turn, but at nobody but the thief.
Unchained ==
  \A t, u \in Threads :
    pc[t] \in {"try"} \cup ThiefLabels /\ victim[t] = u /\ pc[u] = "range" => victim[u] = t

\* A thread that has its sub-range, or has emptied it and finds nothing.
Searching == {"pick", "range", "end"}
Calm == SeqLabels \cup {"par", "hide"} \cup Searching

\* A thief that has found v with a sub-range keeps it from finding another:
\* all that v can look at is the thief, which has none.  So what it has read
\* under v's lock is right, or v has emptied its sub-range and looks for work.
StaleInv(t, v) ==
  /\ pc[t] \in {"try"} \cup ThiefLabels => pc[v] \in Calm
  /\ pc[t] \in {"remain", "verify", "verify2", "cut"} =>
       vic_last[t] = last[v] \/ pc[v] \in Searching
  /\ pc[t] \in {"verify2", "cut"} => new_last[t] < last[v] \/ pc[v] \in Searching

PairInv ==
  /\ ~outdated
  /\ seen \in [Threads -> 0 .. IndexMax]
  /\ \A t \in Threads : StaleInv(t, victim[t])

-----------------------------------------------------------------------------
(* Every step keeps it *)

\* A cut that is about to be stored is right.
LEMMA CutStands ==
  ASSUME Good, PairInv, NEW u \in Threads, pc[u] = "cut"
  PROVE  last[victim[u]] = vic_last[u] /\ new_last[u] < vic_last[u]
  BY DEF Good, PairInv, SessionInv, StaleInv, SeqLabels, Searching

\* What a thread loads is an index.
LEMMA StepSeen ==
  ASSUME TypeOK, Good, PairInv, NEW u \in Threads, AnyStep(u)
  PROVE  seen' \in [Threads -> 0 .. IndexMax]
<1>a. RangeInv /\ seen \in [Threads -> 0 .. IndexMax]
  BY DEF Good, PairInv
<1> USE <1>a DEF RangeInv, TypeOK, shared, own, thief, Goto, Set
<1>1. CASE AnyBound(u)
  BY <1>1, BoundEffect
<1>2. CASE SeqBoundLast(u)
  BY <1>2 DEF SeqBoundLast, Bound
<1>3. CASE SeqPublish(u)
  BY <1>3 DEF SeqPublish
<1>4. CASE SeqCheck(u)
  BY <1>4 DEF SeqCheck
<1>5. CASE SeqUndo(u)
  BY <1>5 DEF SeqUndo
<1>6. CASE SeqLock(u)
  BY <1>6 DEF SeqLock
<1>7. CASE SeqTake(u)
  BY <1>7 DEF SeqTake
<1>8. CASE Body(u)
  BY <1>8 DEF Body
<1>9. CASE ParHideFirst(u)
  BY <1>9 DEF ParHideFirst
<1>10. CASE ParHideLast(u)
  BY <1>10 DEF ParHideLast
<1>11. CASE AnyPick(u)
  BY <1>11 DEF AnyPick
<1>12. CASE ParReturn(u)
  BY <1>12 DEF ParReturn
<1>13. CASE ParRange(u)
  BY <1>13 DEF ParRange, GiveUp
<1>14. CASE ParTryLock(u)
  BY <1>14 DEF ParTryLock
<1>15. CASE ParLoadLast(u)
  BY <1>15 DEF ParLoadLast
<1>16. CASE AnyRemain(u)
  BY <1>16, RemainEffect
<1>17. CASE ParVerifyLast(u)
  BY <1>17 DEF ParVerifyLast, Abandon, GiveUp
<1>18. CASE ParVerifyFirst(u)
  BY <1>18 DEF ParVerifyFirst, Abandon, GiveUp
<1>19. CASE AnyCut(u)
  BY <1>19 DEF AnyCut
<1>20. CASE ParRecheckFirst(u)
  BY <1>20 DEF ParRecheckFirst
<1>21. CASE AnyRecheckLast(u)
  BY <1>21 DEF AnyRecheckLast, ParRecheckLast, Abandon, GiveUp
<1>22. CASE ParRollback(u)
  BY <1>22 DEF ParRollback, Abandon, GiveUp
<1>23. CASE ParSetLast(u)
  BY <1>23 DEF ParSetLast
<1>24. CASE ParSetFirst(u)
  BY <1>24 DEF ParSetFirst
<1> QED BY <1>1, <1>2, <1>3, <1>4, <1>5, <1>6, <1>7, <1>8, <1>9, <1>10, <1>11, <1>12, <1>13, <1>14, <1>15, <1>16, <1>17, <1>18, <1>19, <1>20, <1>21, <1>22, <1>23, <1>24 DEF AnyStep

\* A step keeps what the acting thread knows of itself.
LEMMA StepVictim ==
  ASSUME TypeOK, VictimsInv, NEW u \in Threads, AnyStep(u)
  PROVE  VictimInv(u)'
<1>a. VictimInv(u) /\ victim[u] \in Threads
  BY DEF VictimsInv, TypeOK
<1> USE <1>a DEF VictimInv, ThiefLabels, TypeOK, shared, own, thief, Goto, Set
<1>1. CASE AnyBound(u)
  BY <1>1, BoundEffect
<1>2. CASE SeqBoundLast(u)
  BY <1>2 DEF SeqBoundLast, Bound
<1>3. CASE SeqPublish(u)
  BY <1>3 DEF SeqPublish
<1>4. CASE SeqCheck(u)
  BY <1>4 DEF SeqCheck
<1>5. CASE SeqUndo(u)
  BY <1>5 DEF SeqUndo
<1>6. CASE SeqLock(u)
  BY <1>6 DEF SeqLock
<1>7. CASE SeqTake(u)
  BY <1>7 DEF SeqTake
<1>8. CASE Body(u)
  BY <1>8 DEF Body
<1>9. CASE ParHideFirst(u)
  BY <1>9 DEF ParHideFirst
<1>10. CASE ParHideLast(u)
  BY <1>10 DEF ParHideLast
<1>11. CASE AnyPick(u)
  BY <1>11 DEF AnyPick
<1>12. CASE ParReturn(u)
  BY <1>12 DEF ParReturn
<1>13. CASE ParRange(u)
  BY <1>13 DEF ParRange, GiveUp
<1>14. CASE ParTryLock(u)
  BY <1>14 DEF ParTryLock
<1>15. CASE ParLoadLast(u)
  BY <1>15 DEF ParLoadLast
<1>16. CASE AnyRemain(u)
  BY <1>16, RemainEffect
<1>17. CASE ParVerifyLast(u)
  BY <1>17 DEF ParVerifyLast, Abandon, GiveUp
<1>18. CASE ParVerifyFirst(u)
  BY <1>18 DEF ParVerifyFirst, Abandon, GiveUp
<1>19. CASE AnyCut(u)
  BY <1>19 DEF AnyCut
<1>20. CASE ParRecheckFirst(u)
  BY <1>20 DEF ParRecheckFirst
<1>21. CASE AnyRecheckLast(u)
  BY <1>21 DEF AnyRecheckLast, ParRecheckLast, Abandon, GiveUp
<1>22. CASE ParRollback(u)
  BY <1>22 DEF ParRollback, Abandon, GiveUp
<1>23. CASE ParSetLast(u)
  BY <1>23 DEF ParSetLast
<1>24. CASE ParSetFirst(u)
  BY <1>24 DEF ParSetFirst
<1> QED BY <1>1, <1>2, <1>3, <1>4, <1>5, <1>6, <1>7, <1>8, <1>9, <1>10, <1>11, <1>12, <1>13, <1>14, <1>15, <1>16, <1>17, <1>18, <1>19, <1>20, <1>21, <1>22, <1>23, <1>24 DEF AnyStep

LEMMA StepVictims ==
  ASSUME TypeOK, VictimsInv, NEW u \in Threads, AnyStep(u)
  PROVE  VictimsInv'
<1> SUFFICES ASSUME NEW t \in Threads, t # u PROVE VictimInv(t)'
  BY StepVictim DEF VictimsInv
<1>1. pc'[t] = pc[t] /\ visited'[t] = visited[t] /\ victim'[t] = victim[t]
  BY StepOther
<1> QED BY <1>1 DEF VictimsInv, VictimInv

\* What a thread can do while there is nothing to steal.
LEMMA StepWatched ==
  ASSUME TypeOK, NEW u \in Threads, pc[u] \in Calm, AnyStep(u),
         pc[u] = "range" => seen[u] <= first[victim[u]]
  PROVE  /\ pc'[u] \in Calm
         /\ last'[u] = last[u] \/ pc'[u] \in Searching
         /\ pc[u] \in Searching => pc'[u] \in Searching
<1>a. victim[u] \in Threads
  BY DEF TypeOK
<1> USE <1>a DEF Calm, Searching, SeqLabels, TypeOK, shared, own, thief, Goto, Set
<1>1. CASE AnyBound(u)
  BY <1>1, BoundEffect
<1>2. CASE SeqBoundLast(u)
  BY <1>2 DEF SeqBoundLast, Bound
<1>3. CASE SeqPublish(u)
  BY <1>3 DEF SeqPublish
<1>4. CASE SeqCheck(u)
  BY <1>4 DEF SeqCheck
<1>5. CASE SeqUndo(u)
  BY <1>5 DEF SeqUndo
<1>6. CASE SeqLock(u)
  BY <1>6 DEF SeqLock
<1>7. CASE SeqTake(u)
  BY <1>7 DEF SeqTake
<1>8. CASE Body(u)
  BY <1>8 DEF Body
<1>9. CASE ParHideFirst(u)
  BY <1>9 DEF ParHideFirst
<1>10. CASE ParHideLast(u)
  BY <1>10 DEF ParHideLast
<1>11. CASE AnyPick(u)
  BY <1>11 DEF AnyPick
<1>12. CASE ParReturn(u)
  BY <1>12 DEF ParReturn
<1>13. CASE ParRange(u)
  BY <1>13 DEF ParRange, GiveUp
<1>14. CASE ParTryLock(u)
  BY <1>14 DEF ParTryLock
<1>15. CASE ParLoadLast(u)
  BY <1>15 DEF ParLoadLast
<1>16. CASE AnyRemain(u)
  BY <1>16, RemainEffect
<1>17. CASE ParVerifyLast(u)
  BY <1>17 DEF ParVerifyLast, Abandon, GiveUp
<1>18. CASE ParVerifyFirst(u)
  BY <1>18 DEF ParVerifyFirst, Abandon, GiveUp
<1>19. CASE AnyCut(u)
  BY <1>19 DEF AnyCut
<1>20. CASE ParRecheckFirst(u)
  BY <1>20 DEF ParRecheckFirst
<1>21. CASE AnyRecheckLast(u)
  BY <1>21 DEF AnyRecheckLast, ParRecheckLast, Abandon, GiveUp
<1>22. CASE ParRollback(u)
  BY <1>22 DEF ParRollback, Abandon, GiveUp
<1>23. CASE ParSetLast(u)
  BY <1>23 DEF ParSetLast
<1>24. CASE ParSetFirst(u)
  BY <1>24 DEF ParSetFirst
<1> QED BY <1>1, <1>2, <1>3, <1>4, <1>5, <1>6, <1>7, <1>8, <1>9, <1>10, <1>11, <1>12, <1>13, <1>14, <1>15, <1>16, <1>17, <1>18, <1>19, <1>20, <1>21, <1>22, <1>23, <1>24 DEF AnyStep

\* A step of the other thread keeps what thread t knows of it.
LEMMA StepStaleOther ==
  ASSUME TypeOK, LockInv, Good, VictimsInv, PairInv, Unchained, NEW u \in Threads, AnyStep(u),
         NEW t \in Threads, t # u
  PROVE  StaleInv(t, victim[t])'
<1>1. /\ pc'[t] = pc[t] /\ victim'[t] = victim[t]
      /\ vic_last'[t] = vic_last[t] /\ new_last'[t] = new_last[t]
  BY StepOther
<1>2. CASE pc[t] \notin {"try"} \cup ThiefLabels
  BY <1>1, <1>2 DEF StaleInv, ThiefLabels
<1>3. CASE pc[t] \in {"try"} \cup ThiefLabels /\ victim[t] # u
  <2>1. StaleInv(t, victim[t]) /\ victim[t] \in Threads
    BY DEF PairInv, TypeOK
  <2>2. pc'[victim[t]] = pc[victim[t]]
    BY <1>3, <2>1, StepOther
  <2>3. pc[t] \in ThiefLabels => ~ (victim[t] = victim[u] /\ pc[u] \in {"cut", "rollback"})
    BY <2>1 DEF LockInv, InSection, ThiefLabels
  <2>4. pc[t] \in ThiefLabels => last'[victim[t]] = last[victim[t]]
    BY <1>3, <2>1, <2>3, StepOther
  <2> QED BY <1>1, <1>3, <2>1, <2>2, <2>4 DEF StaleInv, ThiefLabels
<1>4. CASE pc[t] \in {"try"} \cup ThiefLabels /\ victim[t] = u
  <2>1. StaleInv(t, u) /\ pc[u] \in Calm
    BY <1>4 DEF PairInv, StaleInv
  <2>2. pc[u] = "range" => seen[u] <= first[victim[u]]
    <3>1. pc[u] = "range" => victim[u] = t
      BY <1>4 DEF Unchained
    <3>2. first[t] = IndexMax
      BY <1>4 DEF Good, OwnerInv, Hidden, ThiefLabels
    <3>3. seen[u] \in 0 .. IndexMax
      BY DEF PairInv
    <3> QED BY <3>1, <3>2, <3>3, IndexAssumption
  <2>3. /\ pc'[u] \in Calm
        /\ last'[u] = last[u] \/ pc'[u] \in Searching
        /\ pc[u] \in Searching => pc'[u] \in Searching
    BY <2>1, <2>2, StepWatched
  <2> QED BY <1>1, <1>4, <2>1, <2>3 DEF StaleInv
<1> QED BY <1>2, <1>3, <1>4

\* A thief's own step keeps what it knows of the other thread.
LEMMA StepStaleSelf ==
  ASSUME TypeOK, LockInv, Good, VictimsInv, PairInv, NEW u \in Threads, AnyStep(u)
  PROVE  StaleInv(u, victim[u])'
<1>a. StaleInv(u, victim[u]) /\ VictimInv(u) /\ victim[u] \in Threads
  BY DEF PairInv, VictimsInv, TypeOK
<1> USE <1>a DEF StaleInv, VictimInv, ThiefLabels, SeqLabels, TypeOK, shared, own, thief, Goto, Set
<1>1. CASE AnyBound(u)
  BY <1>1, BoundEffect
<1>2. CASE SeqBoundLast(u)
  BY <1>2 DEF SeqBoundLast, Bound
<1>3. CASE SeqPublish(u)
  BY <1>3 DEF SeqPublish
<1>4. CASE SeqCheck(u)
  BY <1>4 DEF SeqCheck
<1>5. CASE SeqUndo(u)
  BY <1>5 DEF SeqUndo
<1>6. CASE SeqLock(u)
  BY <1>6 DEF SeqLock
<1>7. CASE SeqTake(u)
  BY <1>7 DEF SeqTake
<1>8. CASE Body(u)
  BY <1>8 DEF Body
<1>9. CASE ParHideFirst(u)
  BY <1>9 DEF ParHideFirst
<1>10. CASE ParHideLast(u)
  BY <1>10 DEF ParHideLast
<1>11. CASE AnyPick(u)
  BY <1>11 DEF AnyPick
<1>12. CASE ParReturn(u)
  BY <1>12 DEF ParReturn
<1>13. CASE ParRange(u)
  <2>1. CASE seen[u] > first[victim[u]]
    <3>1. first[victim[u]] < IndexMax
      BY <2>1, IndexAssumption DEF PairInv, Good, RangeInv
    <3>2. pc[victim[u]] \in Calm
      BY <3>1 DEF Good, OwnerInv, Hidden, Calm, ParLabels
    <3> QED BY <1>13, <2>1, <3>2 DEF ParRange, Calm
  <2>2. CASE ~ (seen[u] > first[victim[u]])
    BY <1>13, <2>2 DEF ParRange, GiveUp
  <2> QED BY <2>1, <2>2
<1>14. CASE ParTryLock(u)
  BY <1>14 DEF ParTryLock
<1>15. CASE ParLoadLast(u)
  BY <1>15 DEF ParLoadLast
<1>16. CASE AnyRemain(u)
  BY <1>16, RemainEffect
<1>17. CASE ParVerifyLast(u)
  BY <1>17 DEF ParVerifyLast, Abandon, GiveUp
<1>18. CASE ParVerifyFirst(u)
  BY <1>18 DEF ParVerifyFirst, Abandon, GiveUp
<1>19. CASE AnyCut(u)
  BY <1>19 DEF AnyCut
<1>20. CASE ParRecheckFirst(u)
  BY <1>20 DEF ParRecheckFirst
<1>21. CASE AnyRecheckLast(u)
  BY <1>21 DEF AnyRecheckLast, ParRecheckLast, Abandon, GiveUp
<1>22. CASE ParRollback(u)
  BY <1>22 DEF ParRollback, Abandon, GiveUp
<1>23. CASE ParSetLast(u)
  BY <1>23 DEF ParSetLast
<1>24. CASE ParSetFirst(u)
  BY <1>24 DEF ParSetFirst
<1> QED BY <1>1, <1>2, <1>3, <1>4, <1>5, <1>6, <1>7, <1>8, <1>9, <1>10, <1>11, <1>12, <1>13, <1>14, <1>15, <1>16, <1>17, <1>18, <1>19, <1>20, <1>21, <1>22, <1>23, <1>24 DEF AnyStep

\* The invariants that keep every cut right, taken together.
LEMMA StepPair ==
  ASSUME TypeOK, LockInv, Good, VictimsInv, PairInv, Unchained, NEW u \in Threads, AnyStep(u),
         pc[u] = "cut" => ~outdated'
  PROVE  PairInv'
<1>1. ~outdated'
  BY DEF PairInv, AnyStep, AnyBound, SeqBoundLast, SeqPublish, SeqCheck, SeqUndo, SeqLock,
    SeqTake, Body, ParHideFirst, ParHideLast, AnyPick, ParReturn, ParRange, ParTryLock,
    ParLoadLast, AnyRemain, ParVerifyLast, ParVerifyFirst, AnyCut, Goto, ParRecheckFirst,
    AnyRecheckLast, ParRecheckLast, ParRollback, ParSetLast, ParSetFirst
<1>2. ASSUME NEW t \in Threads
      PROVE  StaleInv(t, victim[t])'
  BY StepStaleOther, StepStaleSelf
<1> QED BY <1>1, <1>2, StepSeen DEF PairInv

LEMMA InitPair ==
  ASSUME AnyInit
  PROVE  VictimsInv /\ PairInv
<1>1. seen \in [Threads -> 0 .. IndexMax]
  BY IndexAssumption DEF AnyInit
<1>2. \A t \in Threads : VictimInv(t) /\ StaleInv(t, victim[t])
  BY DEF AnyInit, VictimInv, StaleInv, ThiefLabels
<1> QED BY <1>1, <1>2 DEF AnyInit, VictimsInv, PairInv

LEMMA StutterPair ==
  ASSUME UNCHANGED vars
  PROVE  (VictimsInv => VictimsInv') /\ (PairInv => PairInv')
  BY DEF vars, VictimsInv, PairInv, VictimInv, StaleInv

\* Two threads have only each other to steal from.
LEMMA TwoUnchained ==
  ASSUME NThreads <= 2, TypeOK, VictimsInv
  PROVE  Unchained
<1> SUFFICES ASSUME NEW t \in Threads, NEW u \in Threads,
                    pc[t] \in {"try"} \cup ThiefLabels, victim[t] = u, pc[u] = "range"
             PROVE  victim[u] = t
  BY DEF Unchained
<1>1. t # u /\ victim[u] # u /\ victim[u] \in Threads
  BY DEF VictimsInv, VictimInv, TypeOK
<1> QED BY <1>1, ThreadsAssumption DEF Threads

LEMMA PairInductive ==
  ASSUME NThreads <= 2
  PROVE  Spec => [](VictimsInv /\ PairInv)
<1>1. Init => VictimsInv /\ PairInv
  BY InitAny, InitPair
<1>2. TypeOK /\ LockInv /\ OnceInv /\ VictimsInv /\ PairInv /\ [Next]_vars
        => (VictimsInv /\ PairInv)'
  <2> SUFFICES ASSUME TypeOK, LockInv, OnceInv, VictimsInv, PairInv, [Next]_vars
               PROVE  VictimsInv' /\ PairInv'
    OBVIOUS
  <2>1. CASE UNCHANGED vars
    BY <2>1, StutterPair
  <2>2. ASSUME NEW u \in Threads, Step(u)
        PROVE  VictimsInv' /\ PairInv'
    <3>1. Good /\ Unchained /\ AnyStep(u) /\ ~outdated
      BY <2>2, StepAny, TwoUnchained DEF OnceInv, PairInv
    <3>2. pc[u] = "cut" => ParCut(u)
      BY <2>2 DEF Step, ExtractSeq, ExtractPar, Goto, SeqBound, SeqBoundLast, SeqPublish,
        SeqCheck, SeqUndo, SeqLock, SeqTake, Body, ParHideFirst, ParHideLast, ParPick,
        ParReturn, ParRange, ParTryLock, ParLoadLast, ParLoadFirst, ParVerifyLast,
        ParVerifyFirst, ParRecheckFirst, ParRecheckLast, ParRollback, ParSetLast, ParSetFirst
    <3>3. pc[u] = "cut" => ~outdated'
      BY <3>1, <3>2, CutStands DEF ParCut
    <3> QED BY <3>1, <3>3, StepVictims, StepPair
  <2> QED BY <2>1, <2>2 DEF Next, Terminated
<1> QED BY <1>1, <1>2, OnceInductive, PTL DEF Spec

(***************************************************************************)
(* With two threads a thief's copy of its victim's `last` is still right   *)
(* when it cuts the sub-range, so that nothing can go wrong.               *)
(***************************************************************************)
THEOREM TwoThreadsNeverOutdated ==
  ASSUME NThreads <= 2
  PROVE  Spec => []NeverOutdated
<1>1. PairInv => NeverOutdated
  BY DEF PairInv, NeverOutdated
<1> QED BY <1>1, PairInductive, PTL

-----------------------------------------------------------------------------
(* The scheduler implements the loop *)

\* Only the body counts an iteration.
LEMMA StepDone ==
  ASSUME NEW u \in Threads, AnyStep(u), ~Body(u)
  PROVE  done' = done
  BY DEF AnyStep, AnyBound, SeqBoundLast, SeqPublish, SeqCheck, SeqUndo, SeqLock, SeqTake,
    ParHideFirst, ParHideLast, AnyPick, ParReturn, ParRange, ParTryLock, ParLoadLast,
    AnyRemain, ParVerifyLast, ParVerifyFirst, AnyCut, ParRecheckFirst, AnyRecheckLast, ParRecheckLast,
    ParRollback, ParSetLast, ParSetFirst

\* A thread that returned takes no step.
LEMMA StepRuns ==
  ASSUME NEW u \in Threads, AnyStep(u)
  PROVE  ~AllEnded
<1>1. pc[u] # "end"
  BY DEF AnyStep, Goto, AnyBound, SeqBoundLast, SeqPublish, SeqCheck, SeqUndo, SeqLock, SeqTake,
    Body, ParHideFirst, ParHideLast, AnyPick, ParReturn, ParRange, ParTryLock, ParLoadLast,
    AnyRemain, ParVerifyLast, ParVerifyFirst, AnyCut, ParRecheckFirst, AnyRecheckLast, ParRecheckLast,
    ParRollback, ParSetLast, ParSetFirst
<1> QED BY <1>1 DEF AllEnded

\* A chunk is run by a body; the loop ends when nothing is left to answer for.
LEMMA StepLoop ==
  ASSUME TypeOK, LockInv, Good, ~outdated', \A x \in Iterations : Answered(x),
         NEW u \in Threads, AnyStep(u)
  PROVE  [Promise!Next]_<< done, AllEnded >>
<1>0. ~AllEnded /\ done \in [Iterations -> Nat]
  BY StepRuns DEF TypeOK
<1>1. CASE Body(u)
  <2> DEFINE chunk == {x \in Iterations : Claims(u, x)}
  <2>1. ~AllEnded'
    BY <1>1 DEF AllEnded, Body, Goto, TypeOK
  <2>2. \A x \in chunk : done[x] = 0
    BY DEF Answered, Holds
  <2>3. done' = [x \in Iterations |-> IF x \in chunk THEN 1 ELSE done[x]]
    <3>1. \A x \in Iterations : done'[x] = IF x \in chunk THEN 1 ELSE done[x]
      BY <1>0, <1>1, <2>2, HoldsBody
    <3>2. done' = [x \in Iterations |-> done'[x]]
      BY <1>1 DEF Body
    <3> QED BY <3>1, <3>2
  <2>4. AllEnded' = AllEnded
    BY <1>0, <2>1 DEF AllEnded
  <2>5. Promise!Run(chunk)
    BY <1>0, <2>1, <2>2, <2>3, <2>4 DEF Promise!Run
  <2> QED BY <2>5 DEF Promise!Next
<1>2. CASE ~Body(u)
  <2>1. done' = done
    BY <1>2, StepDone
  <2>2. CASE ~AllEnded'
    <3>1. AllEnded' = AllEnded
      BY <1>0, <2>2 DEF AllEnded
    <3> QED BY <2>1, <3>1
  <2>3. CASE AllEnded'
    <3>1. \A x \in Iterations : Answered(x)'
      BY StepAnswered
    <3>2. \A x \in Iterations, t \in Threads : ~Holds(t, x)'
      BY <2>3 DEF AllEnded, Holds, Claims, Owns, Carries, Carrying, SeqLabels
    <3>3. \A x \in Iterations : done[x] = 1
      BY <2>1, <3>1, <3>2 DEF Answered
    <3>4. Promise!Finish
      BY <1>0, <2>1, <2>3, <3>3 DEF Promise!Finish
    <3> QED BY <3>4 DEF Promise!Next
  <2> QED BY <2>2, <2>3
<1> QED BY <1>1, <1>2

LEMMA InitLoop == AnyInit => Promise!Init
<1> SUFFICES ASSUME AnyInit PROVE Promise!Init
  OBVIOUS
<1>1. 0 \in Threads
  BY ThreadsAssumption DEF Threads
<1>2. ~AllEnded
  BY <1>1 DEF AnyInit, AllEnded
<1>3. AllEnded = FALSE
  BY <1>2 DEF AllEnded
<1> QED BY <1>3 DEF AnyInit, Promise!Init

(***************************************************************************)
(* With two threads the scheduler runs the loop body exactly once on every *)
(* iteration, and all of them have run when the last thread returns.       *)
(***************************************************************************)
THEOREM TwoThreadsImplementLoop ==
  ASSUME NThreads <= 2
  PROVE  Spec => ImplementsLoop
<1>1. Init => Promise!Init
  BY InitAny, InitLoop
<1>2. TypeOK /\ LockInv /\ OnceInv /\ PairInv /\ PairInv' /\ [Next]_vars
        => [Promise!Next]_<< done, AllEnded >>
  <2> SUFFICES ASSUME TypeOK, LockInv, OnceInv, PairInv, PairInv', [Next]_vars
               PROVE  [Promise!Next]_<< done, AllEnded >>
    OBVIOUS
  <2>1. CASE UNCHANGED vars
    BY <2>1 DEF vars, AllEnded
  <2>2. ASSUME NEW u \in Threads, Step(u)
        PROVE  [Promise!Next]_<< done, AllEnded >>
    BY <2>2, StepAny, StepLoop DEF OnceInv, PairInv
  <2> QED BY <2>1, <2>2 DEF Next, Terminated
<1> QED BY <1>1, <1>2, OnceInductive, PairInductive, PTL DEF Spec, ImplementsLoop, Promise!Spec

-----------------------------------------------------------------------------
(* The first bodies *)

\* No body has returned yet.
Fresh == \A x \in Iterations : done[x] = 0

\* Thread t is about to run its first body, from the start of its sub-range.
Ready(t) ==
  /\ pc[t] \in SeqLabels /\ last[t] = InitialLast(t)
  /\ pc[t] # "body" =>
       /\ copy_first[t] = InitialFirst(t) /\ working_last[t] = copy_first[t]
       /\ first[t] = IF pc[t] \in {"check", "undo"} THEN working_first[t] ELSE copy_first[t]
  /\ pc[t] \in {"publish", "check", "undo"} => copy_first[t] < working_first[t]
  /\ pc[t] = "body" => working_first[t] = InitialFirst(t) /\ working_first[t] < working_last[t]

MeetInv == Fresh => \A t \in Threads : Ready(t)

\* Every thread has an iteration of its own to begin with.
LEMMA OneForEach ==
  ASSUME Last - First >= NThreads, NEW t \in Threads
  PROVE  InitialFirst(t) < InitialLast(t) /\ InitialFirst(t) \in Iterations
<1>1. Chunk # 0
  BY Division, ThreadsAssumption, RangeAssumption
<1>2. InitialFirst(t) < InitialLast(t)
  BY <1>1, Division, WithinLoop DEF InitialLast
<1>3. First <= InitialFirst(t)
  <2>1. t \in Nat /\ Chunk * t \in Nat
    BY Division DEF Threads
  <2> QED BY <2>1, Division, RangeAssumption DEF InitialFirst, MinOf
<1> QED BY <1>2, <1>3, WithinLoop, RangeAssumption DEF Iterations

\* Taking the first chunk of a sub-range that nobody has touched ends in a body.
LEMMA StepReady ==
  ASSUME TypeOK, Last - First >= NThreads, NEW u \in Threads, AnyStep(u), Ready(u), ~Body(u)
  PROVE  Ready(u)'
<1>a. InitialFirst(u) \in Nat /\ InitialLast(u) \in Nat /\ InitialFirst(u) < InitialLast(u)
  BY WithinLoop, OneForEach
<1> USE <1>a DEF Ready, TypeOK, shared, own, thief, Goto, Set, SeqLabels
<1>1. CASE AnyBound(u)
  BY <1>1, BoundEffect
<1>2. CASE SeqBoundLast(u)
  BY <1>2 DEF SeqBoundLast, Bound
<1>3. CASE SeqPublish(u)
  BY <1>3 DEF SeqPublish
<1>4. CASE SeqCheck(u)
  BY <1>4 DEF SeqCheck
<1>5. CASE SeqUndo(u)
  BY <1>5 DEF SeqUndo
<1>6. CASE SeqLock(u)
  BY <1>6 DEF SeqLock
<1>7. CASE SeqTake(u)
  BY <1>7 DEF SeqTake
<1>8. CASE ~ (AnyBound(u) \/ SeqBoundLast(u) \/ SeqPublish(u) \/ SeqCheck(u) \/ SeqUndo(u)
               \/ SeqLock(u) \/ SeqTake(u))
  <2>1. pc[u] \notin SeqLabels
    BY <1>8 DEF AnyStep, ParHideFirst, ParHideLast, AnyPick, ParReturn, ParRange, ParTryLock,
      ParLoadLast, AnyRemain, ParVerifyLast, ParVerifyFirst, AnyCut, ParRecheckFirst,
      AnyRecheckLast, ParRecheckLast, ParRollback, ParSetLast, ParSetFirst
  <2> QED BY <2>1
<1> QED BY <1>1, <1>2, <1>3, <1>4, <1>5, <1>6, <1>7, <1>8

\* A body that returns has run an iteration.
LEMMA StepFresh ==
  ASSUME TypeOK, MeetInv, Last - First >= NThreads, NEW u \in Threads, AnyStep(u), Fresh'
  PROVE  Fresh /\ ~Body(u)
<1>1. CASE Body(u)
  <2>1. \A x \in Iterations : done'[x] \in {done[x], done[x] + 1} /\ done[x] \in Nat
    BY <1>1 DEF Body, TypeOK
  <2>2. Fresh
    BY <2>1 DEF Fresh
  <2>3. pc[u] = "body" /\ Ready(u)
    BY <1>1, <2>2 DEF MeetInv, Body, Goto
  <2>4. InitialFirst(u) \in working_first[u] .. working_last[u] - 1 /\ InitialFirst(u) \in Iterations
    BY <2>3, OneForEach, WithinLoop DEF Ready, TypeOK
  <2>5. done'[InitialFirst(u)] = 1
    BY <1>1, <2>2, <2>4 DEF Body, Fresh
  <2> QED BY <2>4, <2>5 DEF Fresh
<1>2. CASE ~Body(u)
  <2>1. done' = done
    BY <1>2, StepDone
  <2> QED BY <1>2, <2>1 DEF Fresh
<1> QED BY <1>1, <1>2

\* Until the first body returns, every step leaves every thread ready.
LEMMA StepMeet ==
  ASSUME TypeOK, MeetInv, Last - First >= NThreads, NEW u \in Threads, AnyStep(u)
  PROVE  MeetInv'
<1> SUFFICES ASSUME Fresh', NEW t \in Threads
             PROVE  Ready(t)'
  BY DEF MeetInv
<1>1. Fresh /\ ~Body(u)
  BY StepFresh
<1>2. Ready(t) /\ Ready(u)
  BY <1>1 DEF MeetInv
<1>3. CASE t = u
  BY <1>1, <1>2, <1>3, StepReady
<1>4. CASE t # u
  <2>1. /\ pc'[t] = pc[t] /\ first'[t] = first[t] /\ copy_first'[t] = copy_first[t]
        /\ working_first'[t] = working_first[t] /\ working_last'[t] = working_last[t]
        /\ last'[t] = last[t] \/ (t = victim[u] /\ pc[u] \in {"cut", "rollback"})
    BY <1>4, StepOther
  <2>2. pc[u] \notin {"cut", "rollback"}
    BY <1>2 DEF Ready, SeqLabels
  <2> QED BY <1>2, <2>1, <2>2 DEF Ready
<1> QED BY <1>3, <1>4

LEMMA StutterMeet ==
  ASSUME UNCHANGED vars, MeetInv
  PROVE  MeetInv'
  BY DEF vars, MeetInv, Fresh, Ready

LEMMA ReadyMeet == MeetInv => BodiesMeet
  BY DEF MeetInv, BodiesMeet, Fresh, Ready

(***************************************************************************)
(* Until a body has returned, every thread has one to run or is running    *)
(* it, in any loop with at least as many iterations as threads.            *)
(***************************************************************************)
THEOREM FirstBodiesMeet == Spec => []BodiesMeet
<1>1. CASE Last - First >= NThreads
  <2>1. Init => MeetInv
    BY WithinLoop DEF Init, MeetInv, Ready, SeqLabels
  <2>2. TypeOK /\ MeetInv /\ [Next]_vars => MeetInv'
    <3> SUFFICES ASSUME TypeOK, MeetInv, [Next]_vars PROVE MeetInv'
      OBVIOUS
    <3>1. CASE UNCHANGED vars
      BY <3>1, StutterMeet
    <3>2. ASSUME NEW u \in Threads, Step(u)
          PROVE  MeetInv'
      BY <1>1, <3>2, StepAny, StepMeet
    <3> QED BY <3>1, <3>2 DEF Next, Terminated
  <2> QED BY <2>1, <2>2, ReadyMeet, TypeCorrect, PTL DEF Spec
<1>2. CASE ~ (Last - First >= NThreads)
  <2>1. BodiesMeet
    BY <1>2 DEF BodiesMeet
  <2> QED BY <2>1, PTL
<1> QED BY <1>1, <1>2
=============================================================================
