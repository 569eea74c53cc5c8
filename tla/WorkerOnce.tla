----------------------------- MODULE WorkerOnce -----------------------------
(***************************************************************************)
(* The main theorem about Worker: for any number of threads, any range and *)
(* any grain, no iteration is lost or run twice before an outdated cut.    *)
(***************************************************************************)
EXTENDS WorkerProofs, WellFoundedInduction

-----------------------------------------------------------------------------
(* The inductive invariant *)

\* The owner has published that its sub-range is empty.
Hidden  == {"hide", "pick", "range", "try", "won", "setfirst", "end"} \cup ThiefLabels
\* The thief has stored its cut.
Cutting == {"recheck", "recheck2", "rollback"}

RangeInv ==
  /\ first \in [Threads -> 0 .. IndexMax] /\ last \in [Threads -> 0 .. IndexMax]
  /\ vic_last \in [Threads -> 0 .. IndexMax] /\ new_last \in [Threads -> 0 .. IndexMax]

\* What thread v knows of its own sub-range.
OwnerInv(v) ==
  /\ pc[v] \in SeqLabels =>
       /\ 0 <= copy_first[v] /\ copy_first[v] <= EffectiveLast(v)
       /\ EffectiveLast(v) <= Last
       /\ working_last[v] = copy_first[v]
       /\ first[v] = IF pc[v] \in {"check", "undo"} THEN working_first[v] ELSE copy_first[v]
  /\ pc[v] \in {"publish", "check", "undo"} =>
       copy_first[v] < working_first[v] /\ working_first[v] <= IndexMax
  /\ pc[v] = "body" => 0 <= working_first[v] /\ working_first[v] <= working_last[v]
  /\ pc[v] = "par" => first[v] = last[v] /\ last[v] <= Last
  /\ pc[v] \in Hidden => first[v] = IndexMax
  /\ pc[v] = "setfirst" => last[v] = vic_last[v]
  /\ pc[v] \in {"won", "setfirst"} => new_last[v] <= vic_last[v] /\ vic_last[v] <= Last

\* What thread t knows of v, the sub-range whose lock it holds.  A cut that is
\* about to be stored, or is stored and undecided, has an owner that is still
\* in extract_seq: the thief's lock keeps it there.
SessionInv(t, v) ==
  /\ pc[t] \in {"verify2", "cut"} => new_last[t] < IndexMax
  /\ pc[t] = "verify2" /\ pc[v] = "par" => new_last[t] < first[v]
  /\ pc[t] \in {"cut"} \cup Cutting => pc[v] \in SeqLabels
  /\ pc[t] \in Cutting =>
       last[v] = new_last[t] /\ new_last[t] <= vic_last[t] /\ vic_last[t] <= Last

Good == RangeInv /\ \A t \in Threads : OwnerInv(t) /\ SessionInv(t, victim[t])

-----------------------------------------------------------------------------
(* The end of a sub-range *)

\* A lock that the owner does not hold is held by a thief inspecting its victim.
LEMMA Holder ==
  ASSUME TypeOK, LockInv, NEW v \in Threads, lock[v] \notin {v, Nobody}
  PROVE  lock[v] \in Threads /\ victim[lock[v]] = v /\ pc[lock[v]] \in ThiefLabels
<1>1. lock[v] \in Threads
  BY DEF TypeOK
<1> QED BY <1>1 DEF LockInv, InSection

\* An undecided cut only shortens the sub-range.
LEMMA LastBelow ==
  ASSUME TypeOK, LockInv, Good, NEW v \in Threads
  PROVE  last[v] <= EffectiveLast(v) /\ EffectiveLast(v) \in Int
<1>1. CASE lock[v] \notin {v, Nobody} /\ Undecided(lock[v])
  BY <1>1, Holder DEF EffectiveLast, Undecided, Good, SessionInv, RangeInv, Cutting, TypeOK
<1>2. CASE ~ (lock[v] \notin {v, Nobody} /\ Undecided(lock[v]))
  BY <1>2 DEF EffectiveLast, TypeOK
<1> QED BY <1>1, <1>2

\* Only the owner moves the end of its sub-range, while it has none, and a thief
\* that learns that its cut stands.
Moves(u, v) ==
  \/ v = u /\ (ParHideLast(u) \/ ParSetLast(u))
  \/ v = victim[u] /\ ParRecheckFirst(u) /\ first[v] <= new_last[u]

\* Any other step leaves the end of every sub-range where it was.
LEMMA StepEffective ==
  ASSUME TypeOK, LockInv, Good, ~outdated', NEW u \in Threads, AnyStep(u),
         NEW v \in Threads, ~Moves(u, v)
  PROVE  EffectiveLast(v)' = EffectiveLast(v)
<1>a. victim[u] \in Threads /\ lock[v] \in Threads \cup {Nobody}
  BY DEF TypeOK
<1>b. lock[v] = u <=> InSection(u, v)
  BY DEF LockInv
<1>c. lock[v] = v <=> InSection(v, v)
  BY DEF LockInv
<1>d. pc[u] \in Cutting => last[victim[u]] = new_last[u]
  BY DEF Good, SessionInv
<1>e. Nobody \notin Threads
  BY DEF Nobody, Threads
<1>f. AnyCut(u) => last[victim[u]] = vic_last[u]
  BY DEF AnyCut
<1>g. pc[u] \in Cutting \cup {"cut"} => victim[u] # u
  BY DEF Good, SessionInv, SeqLabels, Cutting
<1> USE <1>a, <1>b, <1>c, <1>d, <1>e, <1>f, <1>g
    DEF TypeOK, InSection, Moves, EffectiveLast, Undecided, Cutting,
        shared, own, thief, Goto, Set, ThiefLabels
<1>1. CASE AnyBound(u)
  BY <1>1, BoundEffect
<1>2. CASE SeqBoundLast(u)
  BY <1>2 DEF SeqBoundLast, Bound
<1>3. CASE SeqPublish(u)
  BY <1>3 DEF SeqPublish
<1>4. CASE SeqCheck(u)
  BY <1>4 DEF SeqCheck
<1>5. CASE SeqUndo(u)
  BY <1>5 DEF SeqUndo
<1>6. CASE SeqLock(u)
  BY <1>6 DEF SeqLock
<1>7. CASE SeqTake(u)
  BY <1>7 DEF SeqTake
<1>8. CASE Body(u)
  BY <1>8 DEF Body
<1>9. CASE ParHideFirst(u)
  BY <1>9 DEF ParHideFirst
<1>10. CASE ParHideLast(u)
  BY <1>10 DEF ParHideLast
<1>11. CASE AnyPick(u)
  BY <1>11 DEF AnyPick
<1>12. CASE ParReturn(u)
  BY <1>12 DEF ParReturn
<1>13. CASE ParRange(u)
  BY <1>13 DEF ParRange, GiveUp
<1>14. CASE ParTryLock(u)
  BY <1>14 DEF ParTryLock
<1>15. CASE ParLoadLast(u)
  BY <1>15 DEF ParLoadLast
<1>16. CASE AnyRemain(u)
  BY <1>16, RemainEffect
<1>17. CASE ParVerifyLast(u)
  BY <1>17 DEF ParVerifyLast, Abandon, GiveUp
<1>18. CASE ParVerifyFirst(u)
  BY <1>18 DEF ParVerifyFirst, Abandon, GiveUp
<1>19. CASE AnyCut(u)
  <2>0. pc[u] = "cut"
    BY <1>19 DEF AnyCut
  <2>1. lock[victim[u]] = u /\ victim[u] # u /\ last[victim[u]] = vic_last[u]
    BY <1>19, <2>0 DEF LockInv
  <2>2. pc' = [pc EXCEPT ![u] = "recheck"] /\ last' = [last EXCEPT ![victim[u]] = new_last[u]]
        /\ lock' = lock /\ vic_last' = vic_last /\ seen' = seen /\ new_last' = new_last
    BY <1>19 DEF AnyCut
  <2>3. CASE v = victim[u]
    BY <1>19, <2>1, <2>2, <2>3
  <2>4. CASE v # victim[u]
    BY <1>19, <2>1, <2>2, <2>4
  <2> QED BY <2>3, <2>4
<1>20. CASE ParRecheckFirst(u)
  BY <1>20 DEF ParRecheckFirst
<1>21. CASE AnyRecheckLast(u)
  BY <1>21 DEF AnyRecheckLast, ParRecheckLast, Abandon, GiveUp
<1>22. CASE ParRollback(u)
  <2>1. CASE v = victim[u]
    BY <1>22, <2>1 DEF ParRollback, Abandon, GiveUp
  <2>2. CASE v # victim[u]
    BY <1>22, <2>2 DEF ParRollback, Abandon, GiveUp
  <2> QED BY <2>1, <2>2
<1>23. CASE ParSetLast(u)
  BY <1>23 DEF ParSetLast
<1>24. CASE ParSetFirst(u)
  BY <1>24 DEF ParSetFirst
<1> QED BY <1>1, <1>2, <1>3, <1>4, <1>5, <1>6, <1>7, <1>8, <1>9, <1>10, <1>11, <1>12, <1>13, <1>14, <1>15, <1>16, <1>17, <1>18, <1>19, <1>20, <1>21, <1>22, <1>23, <1>24 DEF AnyStep

-----------------------------------------------------------------------------
(* The invariant is kept *)

\* The shared indices and the thieves' copies stay within the type Index.
LEMMA StepRange ==
  ASSUME TypeOK, LockInv, Good, ~outdated, NEW u \in Threads, AnyStep(u)
  PROVE  RangeInv'
<1>a. RangeInv /\ victim[u] \in Threads
  BY DEF Good, TypeOK
<1>b. EffectiveLast(u) \in Int /\ last[u] <= EffectiveLast(u)
  BY LastBelow
<1>c. /\ pc[u] \in SeqLabels => copy_first[u] \in 0 .. IndexMax
      /\ pc[u] = "publish" => working_first[u] \in 0 .. IndexMax
  BY <1>b, IndexAssumption, RangeAssumption DEF Good, OwnerInv, SeqLabels, TypeOK
<1> USE <1>a, <1>c, IndexAssumption DEF RangeInv, TypeOK, shared, own, thief, Goto, Set, SeqLabels
<1>1. CASE AnyBound(u)
  BY <1>1, BoundEffect
<1>2. CASE SeqBoundLast(u)
  BY <1>2 DEF SeqBoundLast, Bound
<1>3. CASE SeqPublish(u)
  BY <1>3 DEF SeqPublish
<1>4. CASE SeqCheck(u)
  BY <1>4 DEF SeqCheck
<1>5. CASE SeqUndo(u)
  BY <1>5 DEF SeqUndo
<1>6. CASE SeqLock(u)
  BY <1>6 DEF SeqLock
<1>7. CASE SeqTake(u)
  BY <1>7 DEF SeqTake
<1>8. CASE Body(u)
  BY <1>8 DEF Body
<1>9. CASE ParHideFirst(u)
  BY <1>9 DEF ParHideFirst
<1>10. CASE ParHideLast(u)
  BY <1>10 DEF ParHideLast
<1>11. CASE AnyPick(u)
  BY <1>11 DEF AnyPick
<1>12. CASE ParReturn(u)
  BY <1>12 DEF ParReturn
<1>13. CASE ParRange(u)
  BY <1>13 DEF ParRange, GiveUp
<1>14. CASE ParTryLock(u)
  BY <1>14 DEF ParTryLock
<1>15. CASE ParLoadLast(u)
  BY <1>15 DEF ParLoadLast
<1>16. CASE AnyRemain(u)
  BY <1>16, RemainEffect
<1>17. CASE ParVerifyLast(u)
  BY <1>17 DEF ParVerifyLast, Abandon, GiveUp
<1>18. CASE ParVerifyFirst(u)
  BY <1>18 DEF ParVerifyFirst, Abandon, GiveUp
<1>19. CASE AnyCut(u)
  BY <1>19 DEF AnyCut
<1>20. CASE ParRecheckFirst(u)
  BY <1>20 DEF ParRecheckFirst
<1>21. CASE AnyRecheckLast(u)
  BY <1>21 DEF AnyRecheckLast, ParRecheckLast, Abandon, GiveUp
<1>22. CASE ParRollback(u)
  BY <1>22 DEF ParRollback, Abandon, GiveUp
<1>23. CASE ParSetLast(u)
  BY <1>23 DEF ParSetLast
<1>24. CASE ParSetFirst(u)
  BY <1>24 DEF ParSetFirst
<1> QED BY <1>1, <1>2, <1>3, <1>4, <1>5, <1>6, <1>7, <1>8, <1>9, <1>10, <1>11, <1>12, <1>13, <1>14, <1>15, <1>16, <1>17, <1>18, <1>19, <1>20, <1>21, <1>22, <1>23, <1>24 DEF AnyStep

\* What a step of u does to another thread v.
LEMMA StepOther ==
  ASSUME TypeOK, NEW u \in Threads, AnyStep(u), NEW v \in Threads, v # u
  PROVE  /\ pc'[v] = pc[v] /\ first'[v] = first[v] /\ copy_first'[v] = copy_first[v]
         /\ working_first'[v] = working_first[v] /\ working_last'[v] = working_last[v]
         /\ visited'[v] = visited[v] /\ victim'[v] = victim[v] /\ seen'[v] = seen[v]
         /\ vic_last'[v] = vic_last[v] /\ new_last'[v] = new_last[v]
         /\ last'[v] = last[v] \/ (v = victim[u] /\ pc[u] \in {"cut", "rollback"})
<1> USE DEF TypeOK, shared, own, thief, Goto, Set
<1>1. CASE AnyBound(u)
  BY <1>1, BoundEffect
<1>2. CASE SeqBoundLast(u)
  BY <1>2 DEF SeqBoundLast, Bound
<1>3. CASE SeqPublish(u)
  BY <1>3 DEF SeqPublish
<1>4. CASE SeqCheck(u)
  BY <1>4 DEF SeqCheck
<1>5. CASE SeqUndo(u)
  BY <1>5 DEF SeqUndo
<1>6. CASE SeqLock(u)
  BY <1>6 DEF SeqLock
<1>7. CASE SeqTake(u)
  BY <1>7 DEF SeqTake
<1>8. CASE Body(u)
  BY <1>8 DEF Body
<1>9. CASE ParHideFirst(u)
  BY <1>9 DEF ParHideFirst
<1>10. CASE ParHideLast(u)
  BY <1>10 DEF ParHideLast
<1>11. CASE AnyPick(u)
  BY <1>11 DEF AnyPick
<1>12. CASE ParReturn(u)
  BY <1>12 DEF ParReturn
<1>13. CASE ParRange(u)
  BY <1>13 DEF ParRange, GiveUp
<1>14. CASE ParTryLock(u)
  BY <1>14 DEF ParTryLock
<1>15. CASE ParLoadLast(u)
  BY <1>15 DEF ParLoadLast
<1>16. CASE AnyRemain(u)
  BY <1>16, RemainEffect
<1>17. CASE ParVerifyLast(u)
  BY <1>17 DEF ParVerifyLast, Abandon, GiveUp
<1>18. CASE ParVerifyFirst(u)
  BY <1>18 DEF ParVerifyFirst, Abandon, GiveUp
<1>19. CASE AnyCut(u)
  BY <1>19 DEF AnyCut
<1>20. CASE ParRecheckFirst(u)
  BY <1>20 DEF ParRecheckFirst
<1>21. CASE AnyRecheckLast(u)
  BY <1>21 DEF AnyRecheckLast, ParRecheckLast, Abandon, GiveUp
<1>22. CASE ParRollback(u)
  BY <1>22 DEF ParRollback, Abandon, GiveUp
<1>23. CASE ParSetLast(u)
  BY <1>23 DEF ParSetLast
<1>24. CASE ParSetFirst(u)
  BY <1>24 DEF ParSetFirst
<1> QED BY <1>1, <1>2, <1>3, <1>4, <1>5, <1>6, <1>7, <1>8, <1>9, <1>10, <1>11, <1>12, <1>13, <1>14, <1>15, <1>16, <1>17, <1>18, <1>19, <1>20, <1>21, <1>22, <1>23, <1>24 DEF AnyStep

\* A step of another thread keeps what v knows of its sub-range.
LEMMA StepOwnerOther ==
  ASSUME TypeOK, LockInv, Good, ~outdated', NEW u \in Threads, AnyStep(u),
         NEW v \in Threads, v # u
  PROVE  OwnerInv(v)'
<1>1. OwnerInv(v) /\ SessionInv(u, victim[u]) /\ new_last[u] \in Int
  BY DEF Good, TypeOK
<1>2. \/ EffectiveLast(v)' = EffectiveLast(v)
      \/ /\ pc[v] \in SeqLabels /\ EffectiveLast(v)' = new_last[u]
         /\ first[v] <= new_last[u] /\ new_last[u] <= Last
  <2>1. CASE Moves(u, v)
    <3>1. ParRecheckFirst(u) /\ v = victim[u] /\ first[v] <= new_last[u]
      BY <2>1 DEF Moves
    <3>2. pc[u] = "recheck"
      BY <3>1 DEF ParRecheckFirst, Goto
    <3>3. /\ pc[v] \in SeqLabels /\ last[v] = new_last[u]
          /\ new_last[u] <= vic_last[u] /\ vic_last[u] <= Last
      BY <1>1, <3>1, <3>2 DEF SessionInv, Cutting
    <3>4. EffectiveLast(v)' = last[v]
      BY <3>1, <3>2 DEF ParRecheckFirst, EffectiveLast, Undecided, shared, TypeOK, Goto, Set, LockInv, InSection, ThiefLabels
    <3> QED BY <3>1, <3>3, <3>4, <1>1, RangeAssumption DEF TypeOK
  <2> QED BY <2>1, StepEffective
<1>3. pc[u] \in {"cut", "rollback"} => pc[victim[u]] \in SeqLabels
  BY <1>1 DEF SessionInv, Cutting
<1>4. first[v] \in Int /\ copy_first[v] \in Int /\ working_first[v] \in Int
  BY DEF TypeOK
<1> QED BY <1>1, <1>2, <1>3, <1>4, StepOther DEF OwnerInv, SeqLabels, Hidden, ThiefLabels

\* The end of its sub-range, as the acting thread may rely on it.
LEMMA OwnEnd ==
  ASSUME TypeOK, LockInv, Good, ~outdated', NEW u \in Threads, AnyStep(u)
  PROVE  /\ EffectiveLast(u) \in Int /\ last[u] <= EffectiveLast(u)
         /\ pc[u] \in {"take", "setfirst"} => EffectiveLast(u) = last[u]
         /\ pc[u] \notin {"hide", "won"} => EffectiveLast(u)' = EffectiveLast(u)
<1>1. EffectiveLast(u) \in Int /\ last[u] <= EffectiveLast(u)
  BY LastBelow
<1>2. pc[u] = "take" => EffectiveLast(u) = last[u]
  BY DEF LockInv, InSection, EffectiveLast
<1>3. pc[u] = "setfirst" => EffectiveLast(u) = last[u]
  <2>1. lock[u] \notin {u, Nobody} => SessionInv(lock[u], u)
    BY Holder DEF Good
  <2> QED BY <2>1 DEF EffectiveLast, Undecided, SessionInv, Cutting, SeqLabels
<1>4. pc[u] \notin {"hide", "won"} => EffectiveLast(u)' = EffectiveLast(u)
  <2>1. SessionInv(u, victim[u])
    BY DEF Good
  <2>2. Moves(u, u) => pc[u] \in {"hide", "won"}
    BY <2>1 DEF Moves, ParHideLast, ParSetLast, ParRecheckFirst, Goto, SessionInv, Cutting, SeqLabels
  <2> QED BY <2>2, StepEffective
<1> QED BY <1>1, <1>2, <1>3, <1>4

\* A thread's own step keeps what it knows of its sub-range.
LEMMA StepOwnerSelf ==
  ASSUME TypeOK, LockInv, Good, ~outdated', NEW u \in Threads, AnyStep(u)
  PROVE  OwnerInv(u)'
<1>a. OwnerInv(u) /\ victim[u] \in Threads
  BY DEF Good, TypeOK
<1>b. /\ EffectiveLast(u) \in Int /\ last[u] <= EffectiveLast(u)
      /\ pc[u] \in {"take", "setfirst"} => EffectiveLast(u) = last[u]
      /\ pc[u] \notin {"hide", "won"} => EffectiveLast(u)' = EffectiveLast(u)
  BY OwnEnd
<1>c. pc[u] = "recheck2" => /\ last[victim[u]] = new_last[u]
                            /\ new_last[u] <= vic_last[u] /\ vic_last[u] <= Last
  BY DEF Good, SessionInv, Cutting
<1>d. RangeInv
  BY DEF Good
<1> USE <1>a, <1>b, <1>c, <1>d, RangeAssumption, GrainAssumption
    DEF OwnerInv, RangeInv, TypeOK, shared, own, thief, Goto, Set, SeqLabels, ThiefLabels, Hidden
<1>1. CASE AnyBound(u)
  BY <1>1, BoundEffect
<1>2. CASE SeqBoundLast(u)
  BY <1>2 DEF SeqBoundLast, Bound
<1>3. CASE SeqPublish(u)
  BY <1>3 DEF SeqPublish
<1>4. CASE SeqCheck(u)
  BY <1>4 DEF SeqCheck
<1>5. CASE SeqUndo(u)
  BY <1>5 DEF SeqUndo
<1>6. CASE SeqLock(u)
  BY <1>6 DEF SeqLock
<1>7. CASE SeqTake(u)
  <2>1. CASE copy_first[u] < last[u]
    BY <1>7, <2>1 DEF SeqTake
  <2>2. CASE ~ (copy_first[u] < last[u])
    BY <1>7, <2>2 DEF SeqTake
  <2> QED BY <2>1, <2>2
<1>8. CASE Body(u)
  BY <1>8 DEF Body
<1>9. CASE ParHideFirst(u)
  BY <1>9 DEF ParHideFirst
<1>10. CASE ParHideLast(u)
  BY <1>10 DEF ParHideLast
<1>11. CASE AnyPick(u)
  BY <1>11 DEF AnyPick
<1>12. CASE ParReturn(u)
  BY <1>12 DEF ParReturn
<1>13. CASE ParRange(u)
  BY <1>13 DEF ParRange, GiveUp
<1>14. CASE ParTryLock(u)
  BY <1>14 DEF ParTryLock
<1>15. CASE ParLoadLast(u)
  BY <1>15 DEF ParLoadLast
<1>16. CASE AnyRemain(u)
  BY <1>16, RemainEffect
<1>17. CASE ParVerifyLast(u)
  BY <1>17 DEF ParVerifyLast, Abandon, GiveUp
<1>18. CASE ParVerifyFirst(u)
  BY <1>18 DEF ParVerifyFirst, Abandon, GiveUp
<1>19. CASE AnyCut(u)
  BY <1>19 DEF AnyCut
<1>20. CASE ParRecheckFirst(u)
  BY <1>20 DEF ParRecheckFirst
<1>21. CASE AnyRecheckLast(u)
  BY <1>21 DEF AnyRecheckLast, ParRecheckLast, Abandon, GiveUp
<1>22. CASE ParRollback(u)
  BY <1>22 DEF ParRollback, Abandon, GiveUp
<1>23. CASE ParSetLast(u)
  BY <1>23 DEF ParSetLast
<1>24. CASE ParSetFirst(u)
  BY <1>24 DEF ParSetFirst
<1> QED BY <1>1, <1>2, <1>3, <1>4, <1>5, <1>6, <1>7, <1>8, <1>9, <1>10, <1>11, <1>12, <1>13, <1>14, <1>15, <1>16, <1>17, <1>18, <1>19, <1>20, <1>21, <1>22, <1>23, <1>24 DEF AnyStep

\* An owner that cannot get its lock stays in extract_seq.
LEMMA StepOwned ==
  ASSUME TypeOK, NEW u \in Threads, AnyStep(u), pc[u] # "take"
  PROVE  /\ pc'[u] # "par"
         /\ pc[u] \in SeqLabels => pc'[u] \in SeqLabels /\ last'[u] = last[u]
<1> USE DEF TypeOK, shared, own, thief, Goto, Set, SeqLabels
<1>1. CASE AnyBound(u)
  BY <1>1, BoundEffect
<1>2. CASE SeqBoundLast(u)
  BY <1>2 DEF SeqBoundLast, Bound
<1>3. CASE SeqPublish(u)
  BY <1>3 DEF SeqPublish
<1>4. CASE SeqCheck(u)
  BY <1>4 DEF SeqCheck
<1>5. CASE SeqUndo(u)
  BY <1>5 DEF SeqUndo
<1>6. CASE SeqLock(u)
  BY <1>6 DEF SeqLock
<1>7. CASE SeqTake(u)
  BY <1>7 DEF SeqTake
<1>8. CASE Body(u)
  BY <1>8 DEF Body
<1>9. CASE ParHideFirst(u)
  BY <1>9 DEF ParHideFirst
<1>10. CASE ParHideLast(u)
  BY <1>10 DEF ParHideLast
<1>11. CASE AnyPick(u)
  BY <1>11 DEF AnyPick
<1>12. CASE ParReturn(u)
  BY <1>12 DEF ParReturn
<1>13. CASE ParRange(u)
  BY <1>13 DEF ParRange, GiveUp
<1>14. CASE ParTryLock(u)
  BY <1>14 DEF ParTryLock
<1>15. CASE ParLoadLast(u)
  BY <1>15 DEF ParLoadLast
<1>16. CASE AnyRemain(u)
  BY <1>16, RemainEffect
<1>17. CASE ParVerifyLast(u)
  BY <1>17 DEF ParVerifyLast, Abandon, GiveUp
<1>18. CASE ParVerifyFirst(u)
  BY <1>18 DEF ParVerifyFirst, Abandon, GiveUp
<1>19. CASE AnyCut(u)
  BY <1>19 DEF AnyCut
<1>20. CASE ParRecheckFirst(u)
  BY <1>20 DEF ParRecheckFirst
<1>21. CASE AnyRecheckLast(u)
  BY <1>21 DEF AnyRecheckLast, ParRecheckLast, Abandon, GiveUp
<1>22. CASE ParRollback(u)
  BY <1>22 DEF ParRollback, Abandon, GiveUp
<1>23. CASE ParSetLast(u)
  BY <1>23 DEF ParSetLast
<1>24. CASE ParSetFirst(u)
  BY <1>24 DEF ParSetFirst
<1> QED BY <1>1, <1>2, <1>3, <1>4, <1>5, <1>6, <1>7, <1>8, <1>9, <1>10, <1>11, <1>12, <1>13, <1>14, <1>15, <1>16, <1>17, <1>18, <1>19, <1>20, <1>21, <1>22, <1>23, <1>24 DEF AnyStep

\* A step of another thread keeps what thief t knows of its victim.
LEMMA StepSessionOther ==
  ASSUME TypeOK, LockInv, Good, ~outdated', NEW u \in Threads, AnyStep(u),
         NEW t \in Threads, t # u
  PROVE  SessionInv(t, victim[t])'
<1> DEFINE v == victim[t]
<1>1. SessionInv(t, v) /\ v \in Threads
  BY DEF Good, TypeOK
<1>2. /\ pc'[t] = pc[t] /\ victim'[t] = v
      /\ vic_last'[t] = vic_last[t] /\ new_last'[t] = new_last[t]
  BY StepOther
<1>3. CASE pc[t] \notin ThiefLabels
  BY <1>2, <1>3 DEF SessionInv, ThiefLabels, Cutting
<1>4. CASE pc[t] \in ThiefLabels /\ v # u
  <2>1. ~ (v = victim[u] /\ pc[u] \in {"cut", "rollback"})
    BY <1>1, <1>4 DEF LockInv, InSection, ThiefLabels
  <2>2. pc'[v] = pc[v] /\ first'[v] = first[v] /\ last'[v] = last[v]
    BY <1>1, <1>4, <2>1, StepOther
  <2> QED BY <1>1, <1>2, <2>2 DEF SessionInv
<1>5. CASE pc[t] \in ThiefLabels /\ v = u
  <2>1. pc[u] # "take"
    BY <1>1, <1>5 DEF LockInv, InSection
  <2>2. /\ pc'[v] # "par"
        /\ pc[v] \in SeqLabels => pc'[v] \in SeqLabels /\ last'[v] = last[v]
    BY <1>5, <2>1, StepOwned
  <2> QED BY <1>1, <1>2, <2>2 DEF SessionInv, Cutting
<1> QED BY <1>3, <1>4, <1>5

\* A thief's own step keeps what it knows of its victim.
LEMMA StepSessionSelf ==
  ASSUME TypeOK, LockInv, Good, ~outdated', NEW u \in Threads, AnyStep(u),
         pc[u] = "cut" => new_last[u] <= vic_last[u]
  PROVE  SessionInv(u, victim[u])'
<1> DEFINE v == victim[u]
<1>a. v \in Threads /\ SessionInv(u, v) /\ RangeInv
  BY DEF Good, TypeOK
<1>b. /\ pc[v] \in SeqLabels => last[v] <= Last
      /\ pc[v] = "par" => first[v] = last[v]
      /\ pc[v] \in Hidden => first[v] = IndexMax
  BY <1>a, LastBelow, RangeAssumption DEF Good, OwnerInv, TypeOK
<1>c. pc[v] \in SeqLabels \cup Hidden \cup {"par"}
  BY <1>a DEF TypeOK, SeqLabels, Hidden, ThiefLabels, ParLabels
<1>d. AnyCut(u) => last[v] = vic_last[u]
  BY DEF AnyCut
<1> USE <1>a, <1>b, <1>c, <1>d, RangeAssumption
    DEF SessionInv, RangeInv, TypeOK, shared, own, thief, Goto, Set, SeqLabels, Hidden, ThiefLabels, Cutting
<1>1. CASE AnyBound(u)
  BY <1>1, BoundEffect
<1>2. CASE SeqBoundLast(u)
  BY <1>2 DEF SeqBoundLast, Bound
<1>3. CASE SeqPublish(u)
  BY <1>3 DEF SeqPublish
<1>4. CASE SeqCheck(u)
  BY <1>4 DEF SeqCheck
<1>5. CASE SeqUndo(u)
  BY <1>5 DEF SeqUndo
<1>6. CASE SeqLock(u)
  BY <1>6 DEF SeqLock
<1>7. CASE SeqTake(u)
  BY <1>7 DEF SeqTake
<1>8. CASE Body(u)
  BY <1>8 DEF Body
<1>9. CASE ParHideFirst(u)
  BY <1>9 DEF ParHideFirst
<1>10. CASE ParHideLast(u)
  BY <1>10 DEF ParHideLast
<1>11. CASE AnyPick(u)
  BY <1>11 DEF AnyPick
<1>12. CASE ParReturn(u)
  BY <1>12 DEF ParReturn
<1>13. CASE ParRange(u)
  BY <1>13 DEF ParRange, GiveUp
<1>14. CASE ParTryLock(u)
  BY <1>14 DEF ParTryLock
<1>15. CASE ParLoadLast(u)
  BY <1>15 DEF ParLoadLast
<1>16. CASE AnyRemain(u)
  BY <1>16, RemainEffect
<1>17. CASE ParVerifyLast(u)
  <2>1. CASE last[v] > new_last[u]
    <3>1. /\ pc' = [pc EXCEPT ![u] = "verify2"] /\ pc[u] = "verify"
          /\ UNCHANGED << first, last, victim, vic_last, new_last >>
      BY <1>17, <2>1 DEF ParVerifyLast
    <3>2. new_last[u] < IndexMax
      BY <2>1, IndexAssumption
    <3>3. pc[v] = "par" => new_last[u] < first[v]
      BY <2>1
    <3> QED BY <3>1, <3>2, <3>3
  <2>2. CASE ~ (last[v] > new_last[u])
    BY <1>17, <2>2 DEF ParVerifyLast, Abandon, GiveUp
  <2> QED BY <2>1, <2>2
<1>18. CASE ParVerifyFirst(u)
  BY <1>18 DEF ParVerifyFirst, Abandon, GiveUp
<1>19. CASE AnyCut(u)
  BY <1>19 DEF AnyCut
<1>20. CASE ParRecheckFirst(u)
  BY <1>20 DEF ParRecheckFirst
<1>21. CASE AnyRecheckLast(u)
  BY <1>21 DEF AnyRecheckLast, ParRecheckLast, Abandon, GiveUp
<1>22. CASE ParRollback(u)
  BY <1>22 DEF ParRollback, Abandon, GiveUp
<1>23. CASE ParSetLast(u)
  BY <1>23 DEF ParSetLast
<1>24. CASE ParSetFirst(u)
  BY <1>24 DEF ParSetFirst
<1> QED BY <1>1, <1>2, <1>3, <1>4, <1>5, <1>6, <1>7, <1>8, <1>9, <1>10, <1>11, <1>12, <1>13, <1>14, <1>15, <1>16, <1>17, <1>18, <1>19, <1>20, <1>21, <1>22, <1>23, <1>24 DEF AnyStep

-----------------------------------------------------------------------------
(* Who answers for an iteration *)

\* A thread's answers depend on another's step only through the end of its range.
LEMMA HoldsOther ==
  ASSUME TypeOK, LockInv, Good, ~outdated', NEW u \in Threads, AnyStep(u),
         NEW t \in Threads, t # u, ~Moves(u, t), NEW x \in Int
  PROVE  Holds(t, x)' <=> Holds(t, x)
<1>1. EffectiveLast(t)' = EffectiveLast(t)
  BY StepEffective
<1> QED BY <1>1, StepOther DEF Holds, Claims, Owns, Carries, Carrying

\* Only running the body and learning that a cut stands change what the acting
\* thread answers for: taking a chunk, failing and handing over do not.
LEMMA HoldsSelf ==
  ASSUME TypeOK, LockInv, Good, ~outdated', NEW u \in Threads, AnyStep(u),
         ~Body(u), ~ (ParRecheckFirst(u) /\ first[victim[u]] <= new_last[u]), NEW x \in Int
  PROVE  Holds(u, x)' <=> Holds(u, x)
<1>a. OwnerInv(u) /\ victim[u] \in Threads
  BY DEF Good, TypeOK
<1>b. /\ EffectiveLast(u) \in Int /\ last[u] <= EffectiveLast(u)
      /\ pc[u] \in {"take", "setfirst"} => EffectiveLast(u) = last[u]
      /\ pc[u] \notin {"hide", "won"} => EffectiveLast(u)' = EffectiveLast(u)
  BY OwnEnd
<1>c. pc[u] = "recheck2" => last[victim[u]] = new_last[u]
  BY DEF Good, SessionInv, Cutting
<1> USE <1>a, <1>b, <1>c
    DEF Holds, Claims, Owns, Carries, Carrying, OwnerInv, TypeOK, shared, own, thief, Goto, Set, SeqLabels
<1>1. CASE AnyBound(u)
  BY <1>1, BoundEffect
<1>2. CASE SeqBoundLast(u)
  BY <1>2 DEF SeqBoundLast, Bound
<1>3. CASE SeqPublish(u)
  BY <1>3 DEF SeqPublish
<1>4. CASE SeqCheck(u)
  BY <1>4 DEF SeqCheck
<1>5. CASE SeqUndo(u)
  BY <1>5 DEF SeqUndo
<1>6. CASE SeqLock(u)
  BY <1>6 DEF SeqLock
<1>7. CASE SeqTake(u)
  BY <1>7 DEF SeqTake
<1>8. CASE Body(u)
  BY <1>8 DEF Body
<1>9. CASE ParHideFirst(u)
  BY <1>9 DEF ParHideFirst
<1>10. CASE ParHideLast(u)
  BY <1>10 DEF ParHideLast
<1>11. CASE AnyPick(u)
  BY <1>11 DEF AnyPick
<1>12. CASE ParReturn(u)
  BY <1>12 DEF ParReturn
<1>13. CASE ParRange(u)
  BY <1>13 DEF ParRange, GiveUp
<1>14. CASE ParTryLock(u)
  BY <1>14 DEF ParTryLock
<1>15. CASE ParLoadLast(u)
  BY <1>15 DEF ParLoadLast
<1>16. CASE AnyRemain(u)
  BY <1>16, RemainEffect
<1>17. CASE ParVerifyLast(u)
  BY <1>17 DEF ParVerifyLast, Abandon, GiveUp
<1>18. CASE ParVerifyFirst(u)
  BY <1>18 DEF ParVerifyFirst, Abandon, GiveUp
<1>19. CASE AnyCut(u)
  BY <1>19 DEF AnyCut
<1>20. CASE ParRecheckFirst(u)
  BY <1>20 DEF ParRecheckFirst
<1>21. CASE AnyRecheckLast(u)
  BY <1>21 DEF AnyRecheckLast, ParRecheckLast, Abandon, GiveUp
<1>22. CASE ParRollback(u)
  BY <1>22 DEF ParRollback, Abandon, GiveUp
<1>23. CASE ParSetLast(u)
  BY <1>23 DEF ParSetLast
<1>24. CASE ParSetFirst(u)
  BY <1>24 DEF ParSetFirst
<1> QED BY <1>1, <1>2, <1>3, <1>4, <1>5, <1>6, <1>7, <1>8, <1>9, <1>10, <1>11, <1>12, <1>13, <1>14, <1>15, <1>16, <1>17, <1>18, <1>19, <1>20, <1>21, <1>22, <1>23, <1>24 DEF AnyStep

\* A thief that learns that its cut stands takes over the iterations behind it.
LEMMA HoldsRecheck ==
  ASSUME TypeOK, LockInv, Good, ~outdated', NEW u \in Threads, ParRecheckFirst(u),
         NEW v \in Threads, v = victim[u], first[v] <= new_last[u], NEW x \in Int
  PROVE  /\ v # u /\ ~Holds(u, x)
         /\ Holds(u, x)' <=> Holds(v, x) /\ new_last[u] <= x
         /\ Holds(v, x)' <=> Holds(v, x) /\ x < new_last[u]
<1>1. pc[u] = "recheck" /\ lock[v] = u
  BY DEF ParRecheckFirst, Goto, TypeOK, LockInv, InSection, ThiefLabels
<1>2. /\ pc[v] \in SeqLabels /\ last[v] = new_last[u] /\ OwnerInv(v)
      /\ new_last[u] <= vic_last[u] /\ v # u
  BY <1>1 DEF Good, SessionInv, Cutting, SeqLabels
<1>3. EffectiveLast(v) = vic_last[u]
  BY <1>1, <1>2 DEF EffectiveLast, Undecided, Nobody, Threads
<1>4. /\ pc' = [pc EXCEPT ![u] = "recheck2"] /\ seen' = [seen EXCEPT ![u] = first[v]]
      /\ UNCHANGED << shared, own, victim, vic_last, new_last >>
  BY DEF ParRecheckFirst, Goto, Set
<1>5. pc'[u] = "recheck2" /\ seen'[u] = first[v]
  BY <1>4 DEF TypeOK
<1>6. EffectiveLast(v)' = new_last[u]
  BY <1>1, <1>2, <1>4, <1>5 DEF EffectiveLast, Undecided, shared, TypeOK
<1>7. /\ Holds(v, x) <=> Claims(v, x) \/ (copy_first[v] <= x /\ x < vic_last[u])
      /\ ~Holds(u, x)
  BY <1>1, <1>2, <1>3 DEF Holds, Claims, Owns, Carries, Carrying, SeqLabels
<1>8. Claims(v, x) => x < copy_first[v]
  BY <1>2 DEF Claims, OwnerInv, SeqLabels, TypeOK
<1>9. copy_first[v] <= first[v]
  BY <1>2 DEF OwnerInv, TypeOK, SeqLabels
<1>10. Holds(u, x)' <=> new_last[u] <= x /\ x < vic_last[u]
  BY <1>4, <1>5 DEF Holds, Claims, Owns, Carries, Carrying, SeqLabels
<1>11. pc'[v] = pc[v]
  BY <1>1, <1>2, <1>4 DEF TypeOK
<1>12. Claims(v, x)' <=> Claims(v, x)
  BY <1>4, <1>11 DEF Claims, own
<1>13. Holds(v, x)' <=> Claims(v, x) \/ (copy_first[v] <= x /\ x < new_last[u])
  BY <1>2, <1>4, <1>6, <1>11, <1>12 DEF Holds, Owns, Carries, Carrying, SeqLabels, own
<1>14. /\ copy_first[v] \in Int /\ first[v] \in Int
       /\ new_last[u] \in Int /\ vic_last[u] \in Int
  BY <1>1 DEF TypeOK
<1> QED BY <1>1, <1>2, <1>7, <1>8, <1>9, <1>10, <1>13, <1>14

\* The iterations of a chunk leave the thread's answers as the body runs on them.
LEMMA HoldsBody ==
  ASSUME TypeOK, LockInv, Good, ~outdated', NEW u \in Threads, Body(u), NEW x \in Iterations
  PROVE  \/ Claims(u, x) /\ ~Holds(u, x)' /\ done'[x] = done[x] + 1
         \/ ~Claims(u, x) /\ (Holds(u, x)' <=> Holds(u, x)) /\ done'[x] = done[x]
<1>1. pc[u] = "body" /\ pc' = [pc EXCEPT ![u] = "seq"] /\ UNCHANGED << own, thief >>
  BY DEF Body, Goto
<1>2. pc'[u] = "seq"
  BY <1>1 DEF TypeOK
<1>3. x \in Int /\ working_first[u] \in Int /\ working_last[u] \in Int /\ copy_first[u] \in Int
  BY RangeAssumption DEF Iterations, TypeOK
<1>4. done'[x] = IF x \in working_first[u] .. working_last[u] - 1 THEN done[x] + 1 ELSE done[x]
  BY DEF Body
<1>5. done'[x] = IF Claims(u, x) THEN done[x] + 1 ELSE done[x]
  BY <1>1, <1>3, <1>4 DEF Claims
<1>6. EffectiveLast(u)' = EffectiveLast(u)
  <2>1. ~Moves(u, u)
    BY <1>1 DEF Moves, ParHideLast, ParSetLast, ParRecheckFirst, Goto
  <2> QED BY <2>1, StepEffective DEF AnyStep
<1>7. Holds(u, x)' <=> Owns(u, x)
  BY <1>1, <1>2, <1>6 DEF Holds, Claims, Owns, Carries, Carrying, SeqLabels, own
<1>8. Holds(u, x) <=> Claims(u, x) \/ Owns(u, x)
  BY <1>1 DEF Holds, Carries, Carrying
<1>9. Claims(u, x) => ~Owns(u, x)
  BY <1>1, <1>3 DEF Claims, Owns, Good, OwnerInv, SeqLabels
<1> QED BY <1>5, <1>7, <1>8, <1>9

\* An iteration has run or has exactly one thread that answers for it.
Answered(x) ==
  \/ done[x] = 1 /\ \A t \in Threads : ~Holds(t, x)
  \/ done[x] = 0 /\ \E t \in Threads : \A s \in Threads : Holds(s, x) <=> s = t

\* Answered is the property checked by the runs, without the set of holders.
LEMMA AnsweredOnce ==
  TypeOK => (OnceUnlessOutdated <=> (~outdated => \A x \in Iterations : Answered(x)))
<1> SUFFICES ASSUME NEW x \in Iterations
             PROVE  LET holders == {t \in Threads : Holds(t, x)}
                    IN  Answered(x) <=> \/ done[x] = 1 /\ holders = {}
                                        \/ done[x] = 0 /\ \E t \in Threads : holders = {t}
  BY DEF OnceUnlessOutdated
<1> DEFINE holders == {t \in Threads : Holds(t, x)}
<1>1. holders = {} <=> \A t \in Threads : ~Holds(t, x)
  OBVIOUS
<1>2. ASSUME NEW t \in Threads
      PROVE  holders = {t} <=> \A s \in Threads : Holds(s, x) <=> s = t
  OBVIOUS
<1> QED BY <1>1, <1>2 DEF Answered

\* An outdated cut is never forgotten.
LEMMA StepOutdated ==
  ASSUME NEW u \in Threads, AnyStep(u), ~outdated'
  PROVE  ~outdated
  BY DEF AnyStep, AnyBound, SeqBoundLast, SeqPublish, SeqCheck, SeqUndo,
    SeqLock, SeqTake, Body, ParHideFirst, ParHideLast, AnyPick, ParReturn, ParRange,
    ParTryLock, ParLoadLast, AnyRemain, ParVerifyLast, ParVerifyFirst, AnyCut,
    ParRecheckFirst, AnyRecheckLast, ParRecheckLast, ParRollback, ParSetLast, ParSetFirst

\* Every step keeps every iteration run or answered for by one thread.
LEMMA StepAnswered ==
  ASSUME TypeOK, LockInv, Good, ~outdated', NEW u \in Threads, AnyStep(u),
         NEW x \in Iterations, Answered(x)
  PROVE  Answered(x)'
<1>0. x \in Int
  BY RangeAssumption DEF Iterations
<1>1. CASE Body(u)
  <2>1. \A t \in Threads : t # u => (Holds(t, x)' <=> Holds(t, x))
    <3>1. \A t \in Threads : t # u => ~Moves(u, t)
      BY <1>1 DEF Moves, Body, ParRecheckFirst, Goto
    <3> QED BY <1>0, <3>1, HoldsOther
  <2>2. Claims(u, x) => Holds(u, x)
    BY DEF Holds
  <2>3. CASE Claims(u, x)
    <3>1. done[x] = 0 /\ \A s \in Threads : Holds(s, x) <=> s = u
      BY <2>2, <2>3 DEF Answered
    <3>2. done'[x] = 1 /\ ~Holds(u, x)'
      BY <1>1, <2>3, <3>1, HoldsBody
    <3> QED BY <2>1, <3>1, <3>2 DEF Answered
  <2>4. CASE ~Claims(u, x)
    <3>1. done'[x] = done[x] /\ (Holds(u, x)' <=> Holds(u, x))
      BY <1>1, <2>4, HoldsBody
    <3> QED BY <2>1, <3>1 DEF Answered
  <2> QED BY <2>3, <2>4
<1>2. CASE ~Body(u)
  <2>0. done'[x] = done[x]
    <3>1. done' = done
      BY <1>2 DEF AnyStep, AnyBound, SeqBoundLast, SeqPublish, SeqCheck,
        SeqUndo, SeqLock, SeqTake, ParHideFirst, ParHideLast, AnyPick, ParReturn, ParRange,
        ParTryLock, ParLoadLast, AnyRemain, ParVerifyLast, ParVerifyFirst, AnyCut,
        ParRecheckFirst, AnyRecheckLast, ParRecheckLast, ParRollback, ParSetLast, ParSetFirst
    <3> QED BY <3>1
  <2>1. CASE ParRecheckFirst(u) /\ first[victim[u]] <= new_last[u]
    <3>0. PICK v \in Threads : v = victim[u]
      BY DEF TypeOK
    <3>1. /\ v # u /\ ~Holds(u, x)
          /\ Holds(u, x)' <=> Holds(v, x) /\ new_last[u] <= x
          /\ Holds(v, x)' <=> Holds(v, x) /\ x < new_last[u]
      BY <1>0, <2>1, <3>0, HoldsRecheck
    <3>2. \A t \in Threads : t \notin {u, v} => (Holds(t, x)' <=> Holds(t, x))
      <4>1. \A t \in Threads : t \notin {u, v} => ~Moves(u, t)
        BY <3>0 DEF Moves
      <4> QED BY <1>0, <4>1, HoldsOther
    <3>3. new_last[u] <= x <=> ~ (x < new_last[u])
      BY <1>0 DEF TypeOK
    <3>4. CASE done[x] = 1 /\ \A t \in Threads : ~Holds(t, x)
      BY <2>0, <3>1, <3>2, <3>4 DEF Answered
    <3>5. CASE done[x] = 0 /\ \E t \in Threads : \A s \in Threads : Holds(s, x) <=> s = t
      <4>1. PICK t \in Threads : \A s \in Threads : Holds(s, x) <=> s = t
        BY <3>5
      <4>2. t # u
        BY <3>1, <4>1
      <4>3. CASE t = v /\ new_last[u] <= x
        <5>1. \A s \in Threads : Holds(s, x)' <=> s = u
          BY <3>1, <3>2, <3>3, <4>1, <4>3
        <5> QED BY <2>0, <3>5, <5>1 DEF Answered
      <4>4. CASE ~ (t = v /\ new_last[u] <= x)
        <5>1. \A s \in Threads : Holds(s, x)' <=> s = t
          BY <3>1, <3>2, <3>3, <4>1, <4>2, <4>4
        <5> QED BY <2>0, <3>5, <5>1 DEF Answered
      <4> QED BY <4>3, <4>4
    <3> QED BY <3>4, <3>5 DEF Answered
  <2>2. CASE ~ (ParRecheckFirst(u) /\ first[victim[u]] <= new_last[u])
    <3>1. \A t \in Threads : Holds(t, x)' <=> Holds(t, x)
      <4>1. Holds(u, x)' <=> Holds(u, x)
        BY <1>0, <1>2, <2>2, HoldsSelf
      <4>2. \A t \in Threads : t # u => ~Moves(u, t)
        BY <2>2 DEF Moves
      <4> QED BY <1>0, <4>1, <4>2, HoldsOther
    <3> QED BY <2>0, <3>1 DEF Answered
  <2> QED BY <2>1, <2>2
<1> QED BY <1>1, <1>2

-----------------------------------------------------------------------------
(* The initial division of the loop *)

\* The quotient and the remainder of the range by the number of threads.
LEMMA Division ==
  /\ Chunk \in Nat /\ Remain \in 0 .. NThreads - 1
  /\ Last - First = Chunk * NThreads + Remain
  BY ThreadsAssumption, RangeAssumption DEF Chunk, Remain

\* Each initial sub-range starts where the one before it ends ...
LEMMA Adjacent ==
  ASSUME NEW i \in Nat
  PROVE  /\ InitialFirst(i) \in Nat /\ InitialFirst(0) = First
         /\ InitialLast(i) = InitialFirst(i + 1) /\ InitialFirst(i) <= InitialLast(i)
<1>1. /\ Chunk * (i + 1) = Chunk * i + Chunk
      /\ Chunk * 0 = 0 /\ Chunk * i \in Nat
  BY Division
<1> QED BY <1>1, Division, RangeAssumption, ThreadsAssumption DEF InitialFirst, InitialLast, MinOf

\* ... so that no two of them overlap ...
LEMMA Ordered ==
  ASSUME NEW i \in Nat, NEW j \in Nat, i < j
  PROVE  InitialLast(i) <= InitialFirst(j)
<1>1. Chunk * j = Chunk * (i + 1) + Chunk * (j - i - 1) /\ Chunk * (j - i - 1) \in Nat
  BY Division
<1>2. Chunk * (i + 1) \in Nat
  BY Division
<1>3. InitialFirst(i + 1) <= InitialFirst(j)
  BY <1>1, <1>2, Division, RangeAssumption, ThreadsAssumption DEF InitialFirst, MinOf
<1> QED BY <1>3, Adjacent

\* ... and the last one ends with the loop.
LEMMA DivisionEnds == InitialFirst(NThreads) = Last
  BY Division, ThreadsAssumption, RangeAssumption DEF InitialFirst, MinOf

\* Every initial sub-range lies within the loop.
LEMMA WithinLoop ==
  ASSUME NEW t \in Threads
  PROVE  /\ InitialFirst(t) \in Nat /\ InitialLast(t) \in Nat
         /\ InitialFirst(t) <= InitialLast(t) /\ InitialLast(t) <= Last
<1>1. t \in Nat /\ t < NThreads /\ NThreads \in Nat
  BY ThreadsAssumption DEF Threads
<1>2. InitialLast(t) <= InitialFirst(NThreads)
  BY <1>1, Ordered
<1>3. InitialLast(t) = InitialFirst(t + 1) /\ InitialFirst(t + 1) \in Nat
  BY <1>1, Adjacent
<1> QED BY <1>1, <1>2, <1>3, Adjacent, DivisionEnds

\* Every iteration is in exactly one of the initial sub-ranges.
LEMMA Partition ==
  ASSUME NEW x \in Iterations
  PROVE  \E t \in Threads : \A s \in Threads :
           InitialFirst(s) <= x /\ x < InitialLast(s) <=> s = t
<1> DEFINE Beyond == {k \in Nat : x < InitialFirst(k)}
<1>1. x \in Nat /\ First <= x /\ x < Last /\ NThreads \in Nat
  BY RangeAssumption, ThreadsAssumption DEF Iterations
<1>2. NThreads \in Beyond
  BY <1>1, DivisionEnds
<1>3. PICK m \in Beyond : \A k \in Beyond : ~ (k < m)
  <2>1. PICK m \in Beyond : \A k \in Beyond : << k, m >> \notin OpToRel(<, Nat)
    BY <1>2, WFMin, NatLessThanWellFounded
  <2>2. \A k \in Beyond : k < m => << k, m >> \in OpToRel(<, Nat)
    BY DEF OpToRel
  <2> QED BY <2>1, <2>2
<1>4. m \in Nat /\ m <= NThreads /\ x < InitialFirst(m)
  BY <1>1, <1>2, <1>3
<1>5. m # 0
  BY <1>1, <1>4, Adjacent
<1> DEFINE t == m - 1
<1>6. t \in Nat /\ t \in Threads /\ t + 1 = m
  BY <1>1, <1>4, <1>5 DEF Threads
<1>7. InitialFirst(t) <= x /\ x < InitialLast(t)
  <2>1. t \notin Beyond
    BY <1>3, <1>6
  <2>2. InitialFirst(t) \in Nat /\ InitialLast(t) = InitialFirst(m)
    BY <1>6, Adjacent
  <2> QED BY <1>1, <1>4, <1>6, <2>1, <2>2
<1>8. ASSUME NEW s \in Threads, InitialFirst(s) <= x, x < InitialLast(s)
      PROVE  s = t
  <2>1. s \in Nat
    BY DEF Threads
  <2>2. ~ (s < t) /\ ~ (t < s)
    BY <1>1, <1>6, <1>7, <1>8, <2>1, Ordered, WithinLoop
  <2> QED BY <1>6, <2>1, <2>2
<1> QED BY <1>6, <1>7, <1>8

\* Worker objects whose sub-ranges divide the loop in any way.
AnyInit ==
  /\ pc = [t \in Threads |-> "seq"]
  /\ first \in [Threads -> Nat] /\ last \in [Threads -> Nat]
  /\ \A t \in Threads : first[t] <= last[t] /\ last[t] <= Last
  /\ \A x \in Iterations : \E t \in Threads : \A s \in Threads :
       first[s] <= x /\ x < last[s] <=> s = t
  /\ lock = [t \in Threads |-> Nobody]
  /\ copy_first = first /\ working_first = first /\ working_last = first
  /\ visited = [t \in Threads |-> {}] /\ victim = [t \in Threads |-> t]
  /\ vic_last = [t \in Threads |-> 0] /\ new_last = [t \in Threads |-> 0]
  /\ seen = [t \in Threads |-> 0]
  /\ done = [x \in Iterations |-> 0] /\ outdated = FALSE

\* The constructor divides the loop equally.
LEMMA InitAny == Init => AnyInit
  BY WithinLoop, Partition DEF Init, AnyInit

\* The invariant holds of every division.
LEMMA InitGood ==
  ASSUME AnyInit
  PROVE  TypeOK /\ LockInv /\ Good /\ \A x \in Iterations : Answered(x)
<1>0. TypeOK
  <2>1. first \in [Threads -> Int] /\ last \in [Threads -> Int]
    BY DEF AnyInit
  <2>2. /\ vic_last \in [Threads -> Int] /\ new_last \in [Threads -> Int]
        /\ seen \in [Threads -> Int] /\ done \in [Iterations -> Nat]
    BY DEF AnyInit
  <2>3. /\ lock \in [Threads -> Threads \cup {Nobody}]
        /\ visited \in [Threads -> SUBSET Threads] /\ victim \in [Threads -> Threads]
    BY DEF AnyInit
  <2>4. pc \in [Threads -> SeqLabels \cup ThiefLabels \cup ParLabels]
    BY DEF AnyInit, SeqLabels
  <2> QED BY <2>1, <2>2, <2>3, <2>4 DEF AnyInit, TypeOK
<1>1. LockInv
  BY DEF AnyInit, LockInv, InSection, ThiefLabels, Nobody, Threads
<1>2. \A t \in Threads : EffectiveLast(t) = last[t]
  BY DEF AnyInit, EffectiveLast
<1>3. RangeInv
  BY IndexAssumption, RangeAssumption DEF AnyInit, RangeInv
<1>4. ASSUME NEW t \in Threads
      PROVE  OwnerInv(t) /\ SessionInv(t, victim[t])
  <2>1. pc[t] = "seq"
    BY DEF AnyInit
  <2>2. OwnerInv(t)
    BY <1>2, <2>1 DEF AnyInit, OwnerInv, Hidden, ThiefLabels
  <2>3. SessionInv(t, victim[t])
    BY <2>1 DEF SessionInv, Cutting
  <2> QED BY <2>2, <2>3
<1>5. ASSUME NEW x \in Iterations
      PROVE  Answered(x)
  <2>1. \A t \in Threads : Holds(t, x) <=> first[t] <= x /\ x < last[t]
    BY <1>2 DEF AnyInit, Holds, Claims, Owns, Carries, Carrying, SeqLabels
  <2> QED BY <2>1 DEF Answered, AnyInit
<1> QED BY <1>0, <1>1, <1>3, <1>4, <1>5 DEF Good

-----------------------------------------------------------------------------
(* All of it *)

\* The strengthening of OnceUnlessOutdated that every step keeps.
OnceInv == ~outdated => Good /\ \A x \in Iterations : Answered(x)

\* A step keeps it if it never cuts a sub-range beyond the end read, and so does
\* a step that touches none of the variables.
LEMMA StepOnce ==
  ASSUME TypeOK, LockInv, OnceInv, NEW u \in Threads, AnyStep(u),
         pc[u] = "cut" /\ ~outdated' => new_last[u] <= vic_last[u]
  PROVE  OnceInv'
<1> SUFFICES ASSUME ~outdated'
             PROVE  Good' /\ \A x \in Iterations : Answered(x)'
  BY DEF OnceInv
<1>1. Good /\ \A x \in Iterations : Answered(x)
  BY StepOutdated DEF OnceInv
<1>2. RangeInv'
  BY <1>1, StepOutdated, StepRange
<1>3. ASSUME NEW t \in Threads
      PROVE  OwnerInv(t)' /\ SessionInv(t, victim[t])'
  BY <1>1, StepOwnerSelf, StepOwnerOther, StepSessionSelf, StepSessionOther
<1>4. \A x \in Iterations : Answered(x)'
  BY <1>1, StepAnswered
<1> QED BY <1>2, <1>3, <1>4 DEF Good

LEMMA StutterOnce ==
  ASSUME UNCHANGED vars
  PROVE  /\ TypeOK => TypeOK'
         /\ LockInv => LockInv'
         /\ OnceInv => OnceInv'
<1>1. (TypeOK => TypeOK') /\ (LockInv => LockInv')
  BY DEF vars, TypeOK, LockInv, InSection
<1>2. \A t \in Threads : EffectiveLast(t)' = EffectiveLast(t)
  BY DEF vars, EffectiveLast, Undecided
<1>3. Good => Good'
  BY <1>2 DEF vars, Good, RangeInv, OwnerInv, SessionInv
<1>4. \A t \in Threads, x \in Iterations : Holds(t, x)' <=> Holds(t, x)
  BY <1>2 DEF vars, Holds, Claims, Owns, Carries, Carrying
<1>5. \A x \in Iterations : Answered(x) => Answered(x)'
  BY <1>4 DEF vars, Answered
<1> QED BY <1>1, <1>3, <1>5 DEF vars, OnceInv

-----------------------------------------------------------------------------
(* Where the default build cuts *)

\* A thief that halves what it has read cuts at or below the end read; or the
\* unsigned subtraction wrapped, and it cuts nothing or is outdated.
CutInv(t, v) ==
  /\ pc[t] = "remain" /\ pc[v] = "par" => vic_last[t] = last[v]
  /\ pc[t] = "verify" =>
       \/ new_last[t] <= vic_last[t]
       \/ new_last[t] = IndexMax
       \/ pc[v] \in SeqLabels /\ (last[v] <= new_last[t] \/ last[v] # vic_last[t])
  /\ pc[t] \in {"verify2", "cut"} =>
       \/ new_last[t] <= vic_last[t]
       \/ pc[v] \in SeqLabels /\ last[v] # vic_last[t]

\* A step of another thread keeps it.
LEMMA StepCutOther ==
  ASSUME TypeOK, LockInv, NEW u \in Threads, AnyStep(u),
         NEW t \in Threads, t # u, CutInv(t, victim[t])
  PROVE  CutInv(t, victim[t])'
<1> DEFINE v == victim[t]
<1>1. v \in Threads
  BY DEF TypeOK
<1>2. /\ pc'[t] = pc[t] /\ victim'[t] = v
      /\ vic_last'[t] = vic_last[t] /\ new_last'[t] = new_last[t]
  BY StepOther
<1>3. CASE pc[t] \notin ThiefLabels
  BY <1>2, <1>3 DEF CutInv, ThiefLabels
<1>4. CASE pc[t] \in ThiefLabels /\ v # u
  <2>1. ~ (v = victim[u] /\ pc[u] \in {"cut", "rollback"})
    BY <1>1, <1>4 DEF LockInv, InSection, ThiefLabels
  <2>2. pc'[v] = pc[v] /\ first'[v] = first[v] /\ last'[v] = last[v]
    BY <1>1, <1>4, <2>1, StepOther
  <2> QED BY <1>1, <1>2, <2>2 DEF CutInv
<1>5. CASE pc[t] \in ThiefLabels /\ v = u
  <2>1. pc[u] # "take"
    BY <1>1, <1>5 DEF LockInv, InSection
  <2>2. /\ pc'[v] # "par"
        /\ pc[v] \in SeqLabels => pc'[v] \in SeqLabels /\ last'[v] = last[v]
    BY <1>5, <2>1, StepOwned
  <2> QED BY <1>1, <1>2, <2>2 DEF CutInv
<1> QED BY <1>3, <1>4, <1>5

\* The thief's own step keeps it.
LEMMA StepCutSelf ==
  ASSUME TypeOK, LockInv, Good, NEW u \in Threads, Step(u), CutInv(u, victim[u])
  PROVE  CutInv(u, victim[u])'
<1> DEFINE v == victim[u]
<1>a. v \in Threads /\ RangeInv /\ victim' \in [Threads -> Threads]
  BY StepAny, StepType DEF Good, TypeOK
<1>b. /\ pc[v] \in SeqLabels => last[v] <= Last
      /\ pc[v] = "par" => first[v] = last[v]
      /\ pc[v] \in Hidden => first[v] = IndexMax
  BY <1>a, LastBelow, RangeAssumption DEF Good, OwnerInv, TypeOK
<1>c. pc[v] \in SeqLabels \cup Hidden \cup {"par"}
  BY <1>a DEF TypeOK, SeqLabels, Hidden, ThiefLabels, ParLabels
<1> USE <1>a, <1>b, <1>c, RangeAssumption
    DEF CutInv, RangeInv, TypeOK, shared, own, thief, Goto, Set, SeqLabels, Hidden, ThiefLabels
<1>1. CASE ParLoadLast(u)
  BY <1>1 DEF ParLoadLast
<1>2. CASE ParLoadFirst(u)
  <2> DEFINE n == new_last'[u]
  <2>1. /\ n = Minus(vic_last[u], StealSize(Minus(vic_last[u], first[v])))
        /\ pc' = [pc EXCEPT ![u] = "verify"] /\ UNCHANGED << last, vic_last, victim >>
    BY <1>2 DEF ParLoadFirst
  <2>2. first[v] \in 0 .. IndexMax /\ vic_last[u] \in 0 .. IndexMax
    OBVIOUS
  <2>3. \/ n <= vic_last[u]
        \/ vic_last[u] < first[v] /\ vic_last[u] < n /\ (first[v] = IndexMax => n = IndexMax)
    BY <2>1, <2>2, CutPoint
  <2>4. n \in 0 .. IndexMax
    BY <2>1, <2>2, CutPoint
  <2>5. pc[u] = "remain"
    BY <1>2 DEF ParLoadFirst
  <2>6. pc[v] = "par" => vic_last[u] = first[v]
    BY <2>5
  <2>7. pc[v] \in SeqLabels => last[v] \in Int /\ pc'[v] = pc[v] /\ last'[v] = last[v]
    BY <2>1, <2>5
  <2>8. \/ n <= vic_last[u]
        \/ n = IndexMax
        \/ pc'[v] \in SeqLabels /\ (last'[v] <= n \/ last'[v] # vic_last[u])
    <3> HIDE DEF n
    <3>1. CASE pc[v] = "par"
      BY <2>2, <2>3, <2>6, <3>1
    <3>2. CASE pc[v] \in Hidden
      BY <2>3, <3>2
    <3>3. CASE pc[v] \in SeqLabels
      BY <2>1, <2>3, <2>4, <2>7, <3>3
    <3> QED BY <3>1, <3>2, <3>3
  <2> QED BY <2>1, <2>8
<1>3. CASE ParVerifyLast(u)
  <2>1. CASE last[v] > new_last[u]
    <3>0. pc[u] = "verify"
      BY <1>3 DEF ParVerifyLast
    <3>1. \/ new_last[u] <= vic_last[u]
          \/ pc[v] \in SeqLabels /\ last[v] # vic_last[u]
      <4>1. last[v] \in 0 .. IndexMax /\ new_last[u] \in 0 .. IndexMax
        OBVIOUS
      <4>2. \/ new_last[u] <= vic_last[u]
            \/ new_last[u] = IndexMax
            \/ pc[v] \in SeqLabels /\ (last[v] <= new_last[u] \/ last[v] # vic_last[u])
        BY <3>0
      <4> QED BY <2>1, <4>1, <4>2, IndexAssumption
    <3> QED BY <1>3, <2>1, <3>1 DEF ParVerifyLast
  <2>2. CASE ~ (last[v] > new_last[u])
    BY <1>3, <2>2 DEF ParVerifyLast, Abandon, GiveUp
  <2> QED BY <2>1, <2>2
<1>4. CASE ParVerifyFirst(u)
  BY <1>4 DEF ParVerifyFirst, Abandon, GiveUp
<1>5. CASE ~ (ParLoadLast(u) \/ ParLoadFirst(u) \/ ParVerifyLast(u) \/ ParVerifyFirst(u))
  <2>1. pc'[u] \notin {"remain", "verify", "verify2", "cut"}
    BY <1>5 DEF Step, ExtractSeq, ExtractPar, SeqBound, SeqBoundLast, Bound, SeqPublish, SeqCheck,
      SeqUndo, SeqLock, SeqTake, Body, ParHideFirst, ParHideLast, ParPick, ParReturn, ParRange,
      ParTryLock, ParCut, ParRecheckFirst, ParRecheckLast, ParRollback, ParSetLast, ParSetFirst,
      Abandon, GiveUp
  <2> QED BY <2>1
<1> QED BY <1>1, <1>2, <1>3, <1>4, <1>5

CutsInv == ~outdated => \A t \in Threads : CutInv(t, victim[t])

\* OnceInv is inductive, relative to the types, the locks and the cuts.
LEMMA OnceInductive == Spec => [](TypeOK /\ LockInv /\ OnceInv /\ CutsInv)
<1> DEFINE Inv == TypeOK /\ LockInv /\ OnceInv /\ CutsInv
<1>1. Init => Inv
  <2> SUFFICES ASSUME Init PROVE Inv
    OBVIOUS
  <2>1. TypeOK /\ LockInv /\ OnceInv
    BY InitAny, InitGood DEF OnceInv
  <2>2. CutsInv
    BY DEF Init, CutsInv, CutInv
  <2> QED BY <2>1, <2>2
<1>2. Inv /\ [Next]_vars => Inv'
  <2> SUFFICES ASSUME Inv, [Next]_vars PROVE Inv'
    OBVIOUS
  <2>1. CASE UNCHANGED vars
    <3>1. CutsInv'
      BY <2>1 DEF vars, CutsInv, CutInv
    <3> QED BY <2>1, <3>1, StutterOnce
  <2>2. ASSUME NEW u \in Threads, Step(u)
        PROVE  Inv'
    <3>1. AnyStep(u)
      BY <2>2, StepAny
    <3>2. TypeOK' /\ LockInv'
      BY <3>1, StepType, StepLock
    <3>3. pc[u] = "cut" /\ ~outdated' => new_last[u] <= vic_last[u]
      <4> SUFFICES ASSUME pc[u] = "cut", ~outdated' PROVE new_last[u] <= vic_last[u]
        OBVIOUS
      <4>1. ~outdated /\ CutInv(u, victim[u])
        BY <3>1, StepOutdated DEF CutsInv
      <4>2. AnyCut(u)
        BY <3>1 DEF AnyStep, AnyBound, SeqBoundLast, SeqPublish, SeqCheck, SeqUndo, SeqLock,
          SeqTake, Body, ParHideFirst, ParHideLast, AnyPick, ParReturn, ParRange, ParTryLock,
          ParLoadLast, AnyRemain, ParVerifyLast, ParVerifyFirst, ParRecheckFirst,
          AnyRecheckLast, ParRecheckLast, ParRollback, ParSetLast, ParSetFirst, Goto
      <4>3. last[victim[u]] = vic_last[u]
        BY <4>2 DEF AnyCut
      <4> QED BY <4>1, <4>3 DEF CutInv
    <3>4. OnceInv'
      BY <3>1, <3>3, StepOnce
    <3>5. ASSUME ~outdated', NEW t \in Threads
          PROVE  CutInv(t, victim[t])'
      <4>1. Good /\ CutInv(t, victim[t])
        BY <3>1, <3>5, StepOutdated DEF OnceInv, CutsInv
      <4> QED BY <2>2, <3>1, <4>1, StepCutSelf, StepCutOther
    <3> QED BY <3>2, <3>4, <3>5 DEF CutsInv
  <2> QED BY <2>1, <2>2 DEF Next, Terminated
<1> QED BY <1>1, <1>2, PTL DEF Spec

(***************************************************************************)
(* Until a thief cuts a sub-range it has read too early, extraction, cut,  *)
(* rollback and hand-over neither lose nor duplicate an iteration, in any  *)
(* loop and with any number of threads.                                    *)
(***************************************************************************)
THEOREM NothingLostOrRepeated == Spec => []OnceUnlessOutdated
<1>1. TypeOK /\ OnceInv => OnceUnlessOutdated
  BY AnsweredOnce DEF OnceInv
<1> QED BY <1>1, OnceInductive, PTL

(***************************************************************************)
(* Where SignedFits holds, a signed Index holds the end of every chunk     *)
(* that extract_seq computes: the sum the model takes for exact is.        *)
(***************************************************************************)
THEOREM ChunkEndsFit ==
  Spec => [](Signed /\ ~outdated =>
               \A t \in Threads : pc[t] = "seq" => copy_first[t] + Grain \in 0 .. IndexMax)
<1> DEFINE Fits(t) == pc[t] = "seq" => copy_first[t] + Grain \in 0 .. IndexMax
<1>1. TypeOK /\ LockInv /\ OnceInv => (Signed /\ ~outdated => \A t \in Threads : Fits(t))
  <2> SUFFICES ASSUME TypeOK, LockInv, Good, Signed, NEW t \in Threads, pc[t] = "seq"
               PROVE  copy_first[t] + Grain \in 0 .. IndexMax
    BY DEF OnceInv
  <2>1. 0 <= copy_first[t] /\ copy_first[t] <= EffectiveLast(t) /\ EffectiveLast(t) <= Last
    BY DEF Good, OwnerInv, SeqLabels
  <2>2. EffectiveLast(t) \in Int /\ copy_first[t] \in Int
    BY LastBelow DEF TypeOK
  <2>3. Grain \in Nat /\ Last \in Nat /\ IndexMax \in Nat /\ Last + Grain <= IndexMax
    BY RangeAssumption, GrainAssumption, IndexAssumption, SignedFits
  <2> QED BY <2>1, <2>2, <2>3
<1> QED BY <1>1, OnceInductive, PTL

=============================================================================
