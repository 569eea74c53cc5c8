---------------------------- MODULE WorkerProofs ----------------------------
(***************************************************************************)
(* Theorems about Worker, for any number of threads, any range and any     *)
(* grain.                                                                  *)
(***************************************************************************)
EXTENDS Worker, TLAPS

-----------------------------------------------------------------------------
(* Any chunk and any steal *)

(***************************************************************************)
(* How long a chunk is, which sub-ranges a thief tries and how much it     *)
(* would take are matters of tuning, which the optional macros change (see *)
(* WorkerVariants).  AnyStep leaves them open: it is Step with five of its *)
(* actions loosened.  Most lemmas are about AnyStep, so that they hold of  *)
(* the default build and of every other.                                   *)
(***************************************************************************)

\* The chunk ends anywhere; an index is computed from indices.
AnyBound(t) ==
  /\ pc[t] = "seq"
  /\ \/ \E b \in Int : /\ ~outdated /\ copy_first[t] \in Nat /\ last[t] <= IndexMax
                            => b \in 0 .. IndexMax
                       /\ Bound(t, b)
     \/ pc' = Set(pc, t, "min") /\ UNCHANGED working_first
  /\ UNCHANGED << shared, copy_first, working_last, thief, done, outdated >>

\* A victim may be passed over, as if it had been inspected.
AnyPick(t) ==
  /\ pc[t] = "pick"
  /\ \E v \in Threads \ visited[t] :
       /\ victim' = Set(victim, t, v)
       /\ \/ pc' = Set(pc, t, "range") /\ seen' = Set(seen, t, last[v]) /\ UNCHANGED visited
          \/ visited' = Set(visited, t, visited[t] \cup {v}) /\ UNCHANGED << pc, seen >>
  /\ UNCHANGED << shared, own, vic_last, new_last, done, outdated >>

\* The thief would take any number of iterations, or finds too few of them.
AnyRemain(t) ==
  /\ pc[t] = "remain"
  /\ \/ Abandon(t) /\ UNCHANGED new_last
     \/ \E n \in Int :
          /\ ~outdated /\ vic_last[t] \in 0 .. IndexMax /\ first[victim[t]] \in 0 .. IndexMax
               => n \in 0 .. IndexMax
          /\ pc' = Set(pc, t, "verify")
          /\ new_last' = Set(new_last, t, n)
          /\ UNCHANGED << lock, visited >>
  /\ UNCHANGED << first, last, own, victim, vic_last, seen, done, outdated >>

\* A cut is outdated at least when `last` is no longer what the thief has read.
AnyCut(t) ==
  /\ Goto(t, "cut", "recheck")
  /\ last' = Set(last, victim[t], new_last[t])
  /\ outdated' \in BOOLEAN
  /\ ~outdated' => ~outdated /\ last[victim[t]] = vic_last[t]
  /\ UNCHANGED << first, lock, own, thief, done >>

\* A thief that does more before it unlocks its victim tells by its earlier
\* load of `last` that the cut stands.
AnyRecheckLast(t) ==
  \/ ParRecheckLast(t)
  \/ /\ outdated
     /\ Goto(t, "recheck2", "won")
     /\ lock' = Set(lock, victim[t], Nobody)
     /\ UNCHANGED << first, last, own, thief, done, outdated >>

AnyStep(t) ==
  \/ AnyBound(t) \/ SeqBoundLast(t) \/ SeqPublish(t) \/ SeqCheck(t)
  \/ SeqUndo(t) \/ SeqLock(t) \/ SeqTake(t) \/ Body(t)
  \/ ParHideFirst(t) \/ ParHideLast(t) \/ AnyPick(t) \/ ParReturn(t)
  \/ ParRange(t) \/ ParTryLock(t) \/ ParLoadLast(t) \/ AnyRemain(t)
  \/ ParVerifyLast(t) \/ ParVerifyFirst(t) \/ AnyCut(t) \/ ParRecheckFirst(t)
  \/ AnyRecheckLast(t) \/ ParRollback(t) \/ ParSetLast(t) \/ ParSetFirst(t)

\* Where a thief would cut a sub-range it has read as [f, l): at or below l,
\* unless the unsigned subtraction wrapped, which puts the cut beyond it.
LEMMA CutPoint ==
  ASSUME NEW f \in 0 .. IndexMax, NEW l \in 0 .. IndexMax,
         NEW n, n = Minus(l, StealSize(Minus(l, f)))
  PROVE  /\ n \in 0 .. IndexMax
         /\ n <= l \/ (l < f /\ l < n /\ (f = IndexMax => n = IndexMax))
<1> USE RangeAssumption, IndexAssumption, SignedAssumption
<1>1. CASE f <= l
  <2>1. Minus(l, f) = l - f
    BY <1>1 DEF Minus
  <2>2. StealSize(l - f) \in 0 .. l - f
    BY <1>1 DEF StealSize, MaxOf
  <2> QED BY <1>1, <2>1, <2>2 DEF Minus
<1>2. CASE l < f /\ Signed
  <2>1. StealSize(Minus(l, f)) = 0
    BY <1>2 DEF Minus, StealSize
  <2> QED BY <1>2, <2>1 DEF Minus
<1>3. CASE l < f /\ ~Signed
  <2>1. PICK d \in 1 .. IndexMax : d = l - f + IndexMax + 1 /\ Minus(l, f) = d
    BY <1>3 DEF Minus
  <2>2. PICK s \in 1 .. IndexMax : StealSize(d) = s /\ (s = 1 \/ 2 * s <= d)
    BY <2>1 DEF StealSize, MaxOf
  <2>3. CASE s <= l
    BY <2>1, <2>2, <2>3 DEF Minus
  <2>4. CASE l < s
    <3>1. n = l - s + IndexMax + 1
      BY <1>3, <2>1, <2>2, <2>4 DEF Minus
    <3> QED BY <1>3, <2>1, <2>2, <2>4, <3>1
  <2> QED BY <2>3, <2>4
<1> QED BY <1>1, <1>2, <1>3

\* The default build takes one of these steps.
LEMMA StepAny ==
  ASSUME TypeOK, NEW t \in Threads, Step(t)
  PROVE  AnyStep(t)
<1>1. SeqBound(t) => AnyBound(t)
  <2> SUFFICES ASSUME SeqBound(t) PROVE AnyBound(t)
    OBVIOUS
  <2> DEFINE b == Plus(copy_first[t], Grain)
  <2>1. CASE b < last[t]
    <3>1. b \in Int /\ (copy_first[t] \in Nat /\ last[t] <= IndexMax => b \in 0 .. IndexMax)
      BY <2>1, GrainAssumption, IndexAssumption DEF Plus, TypeOK
    <3>2. Bound(t, b)
      BY <2>1 DEF SeqBound
    <3> HIDE DEF b
    <3> QED BY <3>1, <3>2 DEF SeqBound, AnyBound
  <2>2. CASE ~ (b < last[t])
    BY <2>2 DEF SeqBound, AnyBound
  <2> QED BY <2>1, <2>2
<1>2. ParPick(t) => AnyPick(t)
  BY DEF ParPick, AnyPick, Goto, Set, own, thief
<1>3. ParLoadFirst(t) => AnyRemain(t)
  <2> SUFFICES ASSUME ParLoadFirst(t) PROVE AnyRemain(t)
    OBVIOUS
  <2> DEFINE n == Minus(vic_last[t], StealSize(Minus(vic_last[t], first[victim[t]])))
  <2>1. vic_last[t] \in Int /\ first[victim[t]] \in Int
    BY DEF TypeOK
  <2>2. n \in Int
    BY <2>1, IndexAssumption DEF Minus, StealSize, MaxOf
  <2>3. vic_last[t] \in 0 .. IndexMax /\ first[victim[t]] \in 0 .. IndexMax => n \in 0 .. IndexMax
    BY CutPoint
  <2>4. /\ pc' = Set(pc, t, "verify") /\ new_last' = Set(new_last, t, n)
        /\ UNCHANGED << lock, visited >>
    BY DEF ParLoadFirst, Goto, Set, shared
  <2> HIDE DEF n
  <2> QED BY <2>2, <2>3, <2>4 DEF ParLoadFirst, AnyRemain, Goto, shared
<1>4. ParCut(t) => AnyCut(t)
  BY DEF ParCut, AnyCut, TypeOK
<1> QED BY <1>1, <1>2, <1>3, <1>4 DEF Step, ExtractSeq, ExtractPar, AnyStep, AnyRecheckLast

\* What the two actions that choose a number do, without the choice.
LEMMA BoundEffect ==
  ASSUME TypeOK, NEW t \in Threads, AnyBound(t)
  PROVE  /\ pc[t] = "seq" /\ pc'[t] \in {"min", "publish", "lock"}
         /\ pc' = [pc EXCEPT ![t] = pc'[t]]
         /\ working_first' = [working_first EXCEPT ![t] = working_first'[t]]
         /\ working_first'[t] \in Int
         /\ pc'[t] = "publish" => working_first'[t] > working_last[t]
         /\ ~outdated /\ pc'[t] # "min" /\ copy_first[t] \in Nat /\ last[t] <= IndexMax
              => working_first'[t] \in 0 .. IndexMax
         /\ UNCHANGED << shared, copy_first, working_last, thief, done, outdated >>
<1>1. CASE pc' = Set(pc, t, "min") /\ UNCHANGED working_first
  BY <1>1 DEF AnyBound, TypeOK, Set
<1>2. ASSUME NEW b \in Int, Bound(t, b),
             ~outdated /\ copy_first[t] \in Nat /\ last[t] <= IndexMax => b \in 0 .. IndexMax
      PROVE  /\ pc'[t] \in {"publish", "lock"} /\ pc' = [pc EXCEPT ![t] = pc'[t]]
             /\ working_first' = [working_first EXCEPT ![t] = working_first'[t]]
             /\ working_first'[t] = b /\ (pc'[t] = "publish" => b > working_last[t])
  BY <1>2 DEF Bound, TypeOK, Set
<1> QED BY <1>1, <1>2 DEF AnyBound

LEMMA RemainEffect ==
  ASSUME TypeOK, NEW t \in Threads, AnyRemain(t)
  PROVE  /\ pc[t] = "remain"
         /\ \/ /\ pc' = [pc EXCEPT ![t] = "pick"] /\ lock' = [lock EXCEPT ![victim[t]] = Nobody]
               /\ visited' = [visited EXCEPT ![t] = visited[t] \cup {victim[t]}]
               /\ UNCHANGED new_last
            \/ /\ pc' = [pc EXCEPT ![t] = "verify"] /\ UNCHANGED << lock, visited >>
               /\ new_last' = [new_last EXCEPT ![t] = new_last'[t]]
               /\ new_last'[t] \in Int
               /\ ~outdated /\ vic_last[t] \in 0 .. IndexMax /\ first[victim[t]] \in 0 .. IndexMax
                    => new_last'[t] \in 0 .. IndexMax
         /\ UNCHANGED << first, last, own, victim, vic_last, seen, done, outdated >>
<1>1. CASE Abandon(t) /\ UNCHANGED new_last
  BY <1>1 DEF AnyRemain, Abandon, GiveUp, TypeOK, Set
<1>2. ASSUME NEW n \in Int,
             ~outdated /\ vic_last[t] \in 0 .. IndexMax /\ first[victim[t]] \in 0 .. IndexMax
               => n \in 0 .. IndexMax,
             pc' = Set(pc, t, "verify"), new_last' = Set(new_last, t, n), UNCHANGED << lock, visited >>
      PROVE  /\ pc' = [pc EXCEPT ![t] = "verify"]
             /\ new_last' = [new_last EXCEPT ![t] = new_last'[t]] /\ new_last'[t] = n
  BY <1>2 DEF TypeOK, Set
<1> QED BY <1>1, <1>2 DEF AnyRemain

-----------------------------------------------------------------------------
(* Type correctness *)

LEMMA PartitionType ==
  ASSUME NEW i \in Threads
  PROVE  InitialFirst(i) \in Int /\ InitialLast(i) \in Int
<1>1. Chunk \in Int /\ Remain \in Int
  BY ThreadsAssumption, RangeAssumption DEF Chunk, Remain
<1>2. InitialFirst(i) \in Int
  BY <1>1, RangeAssumption DEF Threads, InitialFirst, MinOf
<1> QED BY <1>1, <1>2 DEF InitialLast

LEMMA InitType == Init => TypeOK
<1> SUFFICES ASSUME Init PROVE TypeOK
  OBVIOUS
<1>1. first \in [Threads -> Int] /\ last \in [Threads -> Int]
  BY PartitionType DEF Init
<1>2. lock \in [Threads -> Threads \cup {Nobody}]
  BY DEF Init
<1>3. pc \in [Threads -> SeqLabels \cup ThiefLabels \cup ParLabels]
  BY DEF Init, SeqLabels
<1>4. done \in [Iterations -> Nat]
  BY DEF Init
<1>5. visited \in [Threads -> SUBSET Threads] /\ victim \in [Threads -> Threads]
  BY DEF Init
<1>6. /\ vic_last \in [Threads -> Int] /\ new_last \in [Threads -> Int]
      /\ seen \in [Threads -> Int]
  BY DEF Init
<1> QED BY <1>1, <1>2, <1>3, <1>4, <1>5, <1>6 DEF Init, TypeOK

LEMMA StepType ==
  ASSUME TypeOK, NEW t \in Threads, AnyStep(t)
  PROVE  TypeOK'
<1> USE DEF TypeOK, shared, own, thief, Goto, Set, SeqLabels, ThiefLabels, ParLabels
<1>1. CASE AnyBound(t)
  BY <1>1, BoundEffect
<1>2. CASE SeqBoundLast(t)
  BY <1>2 DEF SeqBoundLast, Bound
<1>3. CASE SeqPublish(t)
  BY <1>3 DEF SeqPublish
<1>4. CASE SeqCheck(t)
  BY <1>4 DEF SeqCheck
<1>5. CASE SeqUndo(t)
  BY <1>5 DEF SeqUndo
<1>6. CASE SeqLock(t)
  BY <1>6 DEF SeqLock
<1>7. CASE SeqTake(t)
  BY <1>7 DEF SeqTake
<1>8. CASE Body(t)
  BY <1>8 DEF Body
<1>9. CASE ParHideFirst(t)
  BY <1>9, IndexAssumption DEF ParHideFirst
<1>10. CASE ParHideLast(t)
  BY <1>10, IndexAssumption DEF ParHideLast
<1>11. CASE AnyPick(t)
  BY <1>11 DEF AnyPick
<1>12. CASE ParReturn(t)
  BY <1>12 DEF ParReturn
<1>13. CASE ParRange(t)
  BY <1>13 DEF ParRange, GiveUp
<1>14. CASE ParTryLock(t)
  BY <1>14 DEF ParTryLock
<1>15. CASE ParLoadLast(t)
  BY <1>15 DEF ParLoadLast
<1>16. CASE AnyRemain(t)
  <2>0. UNCHANGED << first, last, own, victim, vic_last, seen, done, outdated >>
    BY <1>16 DEF AnyRemain
  <2>1. CASE Abandon(t) /\ UNCHANGED new_last
    BY <2>0, <2>1 DEF Abandon, GiveUp
  <2>2. ASSUME NEW n \in Int, pc' = Set(pc, t, "verify"), new_last' = Set(new_last, t, n),
               UNCHANGED << lock, visited >>
        PROVE  TypeOK'
    BY <2>0, <2>2
  <2> QED BY <1>16, <2>1, <2>2 DEF AnyRemain
<1>17. CASE ParVerifyLast(t)
  BY <1>17 DEF ParVerifyLast, Abandon, GiveUp
<1>18. CASE ParVerifyFirst(t)
  BY <1>18 DEF ParVerifyFirst, Abandon, GiveUp
<1>19. CASE AnyCut(t)
  BY <1>19 DEF AnyCut
<1>20. CASE ParRecheckFirst(t)
  BY <1>20 DEF ParRecheckFirst
<1>21. CASE AnyRecheckLast(t)
  BY <1>21 DEF AnyRecheckLast, ParRecheckLast, Abandon, GiveUp
<1>22. CASE ParRollback(t)
  BY <1>22 DEF ParRollback, Abandon, GiveUp
<1>23. CASE ParSetLast(t)
  BY <1>23 DEF ParSetLast
<1>24. CASE ParSetFirst(t)
  BY <1>24 DEF ParSetFirst
<1> QED BY <1>1, <1>2, <1>3, <1>4, <1>5, <1>6, <1>7, <1>8, <1>9, <1>10, <1>11, <1>12, <1>13, <1>14, <1>15, <1>16, <1>17, <1>18, <1>19, <1>20, <1>21, <1>22, <1>23, <1>24 DEF AnyStep

(***************************************************************************)
(* Every variable keeps its type, in every loop any number of threads run. *)
(***************************************************************************)
THEOREM TypeCorrect == Spec => []TypeOK
<1>1. TypeOK /\ [Next]_vars => TypeOK'
  <2> SUFFICES ASSUME TypeOK, [Next]_vars PROVE TypeOK'
    OBVIOUS
  <2>1. CASE UNCHANGED vars
    BY <2>1 DEF vars, TypeOK
  <2>2. CASE Next
    BY <2>1, <2>2, StepAny, StepType DEF Next, Terminated
  <2> QED BY <2>1, <2>2
<1> QED BY InitType, <1>1, PTL DEF Spec

-----------------------------------------------------------------------------
(* Mutual exclusion *)

\* The holder of a sub-range's lock is the thread in its critical section: no
\* path leaves extract_seq or extract_par with a lock still taken.
LockInv == \A t, w \in Threads : lock[w] = t <=> InSection(t, w)

LEMMA StepLock ==
  ASSUME TypeOK, LockInv, NEW u \in Threads, AnyStep(u)
  PROVE  LockInv'
<1> SUFFICES ASSUME NEW t \in Threads, NEW w \in Threads
             PROVE  (lock[w] = t <=> InSection(t, w))'
  BY DEF LockInv
<1>a. Nobody \notin Threads
  BY DEF Nobody, Threads
<1>b. lock[w] = t <=> InSection(t, w)
  BY DEF LockInv
<1>c. lock[w] = u <=> InSection(u, w)
  BY DEF LockInv
<1>d. victim[u] \in Threads /\ victim[t] \in Threads
  BY DEF TypeOK
<1> USE <1>a, <1>b, <1>c, <1>d DEF TypeOK, InSection, shared, own, thief, Goto, Set, ThiefLabels
<1>1. CASE AnyBound(u)
  BY <1>1, BoundEffect
<1>2. CASE SeqBoundLast(u)
  BY <1>2 DEF SeqBoundLast, Bound
<1>3. CASE SeqPublish(u)
  BY <1>3 DEF SeqPublish
<1>4. CASE SeqCheck(u)
  BY <1>4 DEF SeqCheck
<1>5. CASE SeqUndo(u)
  BY <1>5 DEF SeqUndo
<1>6. CASE SeqLock(u)
  BY <1>6 DEF SeqLock
<1>7. CASE SeqTake(u)
  BY <1>7 DEF SeqTake
<1>8. CASE Body(u)
  BY <1>8 DEF Body
<1>9. CASE ParHideFirst(u)
  BY <1>9 DEF ParHideFirst
<1>10. CASE ParHideLast(u)
  BY <1>10 DEF ParHideLast
<1>11. CASE AnyPick(u)
  BY <1>11 DEF AnyPick
<1>12. CASE ParReturn(u)
  BY <1>12 DEF ParReturn
<1>13. CASE ParRange(u)
  BY <1>13 DEF ParRange, GiveUp
<1>14. CASE ParTryLock(u)
  BY <1>14 DEF ParTryLock
<1>15. CASE ParLoadLast(u)
  BY <1>15 DEF ParLoadLast
<1>16. CASE AnyRemain(u)
  BY <1>16, RemainEffect
<1>17. CASE ParVerifyLast(u)
  BY <1>17 DEF ParVerifyLast, Abandon, GiveUp
<1>18. CASE ParVerifyFirst(u)
  BY <1>18 DEF ParVerifyFirst, Abandon, GiveUp
<1>19. CASE AnyCut(u)
  BY <1>19 DEF AnyCut
<1>20. CASE ParRecheckFirst(u)
  BY <1>20 DEF ParRecheckFirst
<1>21. CASE AnyRecheckLast(u)
  BY <1>21 DEF AnyRecheckLast, ParRecheckLast, Abandon, GiveUp
<1>22. CASE ParRollback(u)
  BY <1>22 DEF ParRollback, Abandon, GiveUp
<1>23. CASE ParSetLast(u)
  BY <1>23 DEF ParSetLast
<1>24. CASE ParSetFirst(u)
  BY <1>24 DEF ParSetFirst
<1> QED BY <1>1, <1>2, <1>3, <1>4, <1>5, <1>6, <1>7, <1>8, <1>9, <1>10, <1>11, <1>12, <1>13, <1>14, <1>15, <1>16, <1>17, <1>18, <1>19, <1>20, <1>21, <1>22, <1>23, <1>24 DEF AnyStep

(***************************************************************************)
(* Owner and thieves exclude each other on every sub-range.                *)
(***************************************************************************)
THEOREM Exclusion == Spec => []MutualExclusion
<1>1. Init => LockInv
  BY DEF Init, LockInv, InSection, ThiefLabels, Nobody, Threads
<1>2. TypeOK /\ LockInv /\ [Next]_vars => LockInv'
  <2> SUFFICES ASSUME TypeOK, LockInv, [Next]_vars PROVE LockInv'
    OBVIOUS
  <2>1. CASE UNCHANGED vars
    BY <2>1 DEF vars, LockInv, InSection
  <2>2. CASE Next
    BY <2>1, <2>2, StepAny, StepLock DEF Next, Terminated
  <2> QED BY <2>1, <2>2
<1>3. LockInv => MutualExclusion
  BY DEF LockInv, MutualExclusion
<1> QED BY <1>1, <1>2, <1>3, TypeCorrect, PTL DEF Spec

=============================================================================
