----------------------------- MODULE MutexProofs -----------------------------
(***************************************************************************)
(* Proofs about AtomicMutex, for any number of threads and of tries.       *)
(***************************************************************************)
EXTENDS AtomicMutex, TLAPS

(***************************************************************************)
(* The flag is set while a thread is inside: without it MutualExclusion is *)
(* not inductive.                                                          *)
(***************************************************************************)
FlagInv == \A t \in Threads : Inside(t) => locked

(***************************************************************************)
(* How far the thread inside has got with count++, where the exchange      *)
(* orders the loads after it.                                              *)
(***************************************************************************)
CountInv ==
  ordered =>
    /\ \A t \in Threads :
         /\ ~early[t]
         /\ pc[t] = "load"   => count = entered
         /\ pc[t] = "store"  => count = entered /\ reg[t] = count
         /\ pc[t] = "unlock" => count = entered + 1
    /\ NoLostUpdate

IInv == TypeOK /\ FlagInv /\ MutualExclusion /\ CountInv

LEMMA InitMutex == Init => IInv
  <1>. SUFFICES ASSUME Init PROVE IInv
    OBVIOUS
  <1>1. TypeOK
    <2>1. ordered \in BOOLEAN
      BY MachinesAssumption DEF Init
    <2>2. locked \in BOOLEAN /\ early \in [Threads -> BOOLEAN]
      BY DEF Init
    <2>3. tries \in [Threads -> 0 .. Iters]
      BY ItersAssumption DEF Init
    <2>. QED
      BY <2>1, <2>2, <2>3 DEF Init, TypeOK
  <1>2. FlagInv /\ MutualExclusion /\ CountInv
    BY DEF Init, FlagInv, MutualExclusion, CountInv, NoLostUpdate, Inside
  <1>. QED
    BY <1>1, <1>2 DEF IInv

\* A step of a thread outside that neither enters nor writes what others read.
LEMMA StepOutside ==
  ASSUME IInv, NEW t \in Threads, ~Inside(t), ~Inside(t)',
         \A u \in Threads \ {t} : pc'[u] = pc[u] /\ reg'[u] = reg[u] /\ early'[u] = early[u],
         UNCHANGED << ordered, locked, count, entered >>, ordered => ~early'[t]
  PROVE  (FlagInv /\ MutualExclusion /\ CountInv)'
  BY DEF IInv, FlagInv, MutualExclusion, CountInv, NoLostUpdate, Inside

LEMMA NextMutex == IInv /\ [Next]_vars => IInv'
  <1>. SUFFICES ASSUME IInv, [Next]_vars PROVE IInv'
    OBVIOUS
  <1>1. ASSUME NEW t \in Threads, NEW m \in {"lock", "try_lock"}, Call(t, m) PROVE IInv'
    <2>1. TypeOK'
      BY <1>1, ItersAssumption DEF Call, Goto, IInv, TypeOK
    <2>2. ~Inside(t) /\ ~Inside(t)' /\ (ordered => ~early'[t])
      BY <1>1 DEF Call, Goto, IInv, TypeOK, Inside, CountInv
    <2>. QED
      BY <1>1, <2>1, <2>2, StepOutside DEF Call, Goto, IInv, TypeOK
  <1>2. ASSUME NEW t \in Threads, Exchange(t) PROVE IInv'
    <2>1. \A u \in Threads : ~Inside(u)
      BY <1>2 DEF Exchange, IInv, FlagInv
    <2>2. count = entered \/ ~ordered
      BY <2>1 DEF IInv, CountInv, NoLostUpdate
    <2>. QED
      BY <1>2, <2>1, <2>2
      DEF Exchange, IInv, TypeOK, FlagInv, MutualExclusion, CountInv, NoLostUpdate, Inside
  <1>3. ASSUME NEW t \in Threads, GiveUp(t) PROVE IInv'
    <2>1. TypeOK'
      BY <1>3 DEF GiveUp, Goto, IInv, TypeOK
    <2>2. ~Inside(t) /\ ~Inside(t)' /\ ~early'[t]
      BY <1>3 DEF GiveUp, Goto, IInv, TypeOK, Inside
    <2>. QED
      BY <1>3, <2>1, <2>2, StepOutside DEF GiveUp, Goto, IInv, TypeOK
  <1>4. ASSUME NEW t \in Threads, EarlyLoad(t) PROVE IInv'
    <2>1. TypeOK'
      BY <1>4 DEF EarlyLoad, IInv, TypeOK
    <2>2. ~Inside(t) /\ ~Inside(t)' /\ ~ordered
      BY <1>4 DEF EarlyLoad, IInv, TypeOK, Inside
    <2>. QED
      BY <1>4, <2>1, <2>2, StepOutside DEF EarlyLoad, IInv, TypeOK
  <1>5. ASSUME NEW t \in Threads, Load(t) PROVE IInv'
    <2>1. \A u \in Threads \ {t} : ~Inside(u)
      BY <1>5 DEF Load, Goto, IInv, MutualExclusion, Inside
    <2>. QED
      BY <1>5, <2>1
      DEF Load, Goto, IInv, TypeOK, FlagInv, MutualExclusion, CountInv, NoLostUpdate, Inside
  <1>6. ASSUME NEW t \in Threads, Store(t) PROVE IInv'
    <2>1. \A u \in Threads \ {t} : ~Inside(u)
      BY <1>6 DEF Store, Goto, IInv, MutualExclusion, Inside
    <2>. QED
      BY <1>6, <2>1
      DEF Store, Goto, IInv, TypeOK, FlagInv, MutualExclusion, CountInv, NoLostUpdate, Inside
  <1>7. ASSUME NEW t \in Threads, Unlock(t) PROVE IInv'
    <2>1. \A u \in Threads \ {t} : ~Inside(u)
      BY <1>7 DEF Unlock, Goto, IInv, MutualExclusion, Inside
    <2>2. \A u \in Threads : ~Inside(u)'
      BY <1>7, <2>1 DEF Unlock, Goto, IInv, TypeOK, Inside
    <2>3. ordered => count' = entered'
      BY <1>7 DEF Unlock, Goto, IInv, CountInv
    <2>4. TypeOK'
      <3>1. locked' \in BOOLEAN
        BY <1>7 DEF Unlock
      <3>2. entered' \in Nat /\ pc' \in [Threads -> {"outside", "lock", "try_lock", "load", "store", "unlock"}]
        BY <1>7 DEF Unlock, Goto, IInv, TypeOK
      <3>. QED
        BY <1>7, <3>1, <3>2 DEF Unlock, IInv, TypeOK
    <2>5. CountInv'
      <3>1. ordered' => ordered /\ count' = entered' /\ early' = early
        BY <1>7, <2>3 DEF Unlock
      <3>2. ordered => \A u \in Threads : ~early[u]
        BY DEF IInv, CountInv
      <3>. QED
        BY <2>2, <3>1, <3>2 DEF CountInv, NoLostUpdate, Inside
    <2>. QED
      BY <2>2, <2>4, <2>5 DEF IInv, FlagInv, MutualExclusion
  <1>8. CASE UNCHANGED vars
    BY <1>8 DEF vars, IInv, TypeOK, FlagInv, MutualExclusion, CountInv, NoLostUpdate, Inside
  <1>. QED
    BY <1>1, <1>2, <1>3, <1>4, <1>5, <1>6, <1>7, <1>8 DEF Next, Step

(***************************************************************************)
(* Every variable keeps its type.                                          *)
(***************************************************************************)
THEOREM MutexTypes == Spec => []TypeOK
  BY InitMutex, NextMutex, PTL DEF Spec, IInv

(***************************************************************************)
(* At most one thread is between lock() and unlock(), on any machine: the  *)
(* missing acquire order does not break the exclusion itself.              *)
(***************************************************************************)
THEOREM Exclusion == Spec => []MutualExclusion
  BY InitMutex, NextMutex, PTL DEF Spec, IInv

(***************************************************************************)
(* Where the exchange orders the loads after it, no update made under the  *)
(* lock is lost.                                                           *)
(***************************************************************************)
THEOREM NothingLost == Spec => []NoLostUpdateIfOrdered
  <1>1. IInv => NoLostUpdateIfOrdered
    BY DEF IInv, CountInv, NoLostUpdateIfOrdered
  <1>. QED
    BY InitMutex, NextMutex, <1>1, PTL DEF Spec
=============================================================================
