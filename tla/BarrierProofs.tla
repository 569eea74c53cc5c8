---------------------------- MODULE BarrierProofs ----------------------------
(***************************************************************************)
(* Proofs about AtomicBarrier, for any number of threads and rounds, until *)
(* the end of a round does not fit in size_t.                              *)
(***************************************************************************)
EXTENDS AtomicBarrier, FiniteSetTheorems, TLAPS

(***************************************************************************)
(* Arithmetic of rounds.                                                   *)
(***************************************************************************)
LEMMA ModUnique ==
  ASSUME NEW n \in Nat \ {0}, NEW q \in Nat, NEW m \in Nat, m < n
  PROVE  (q * n + m) % n = m
  OBVIOUS

LEMMA ModRange ==
  ASSUME NEW n \in Nat \ {0}, NEW c \in Nat
  PROVE  c % n \in Nat /\ c % n < n /\ c - (c % n) \in Nat
  OBVIOUS

LEMMA ModSmall ==
  ASSUME NEW n \in Nat \ {0}, NEW c \in Nat, c < n
  PROVE  c % n = c
  OBVIOUS

LEMMA ModNext ==
  ASSUME NEW n \in Nat \ {0}, NEW c \in Nat
  PROVE  (c + 1) % n = IF c % n = n - 1 THEN 0 ELSE (c % n) + 1
  <1>1. PICK q \in Nat, m \in Nat : m < n /\ c = q * n + m /\ c % n = m
    <2>. DEFINE q == c \div n
                m == c % n
    <2>1. q \in Nat /\ m \in Nat /\ m < n /\ c = q * n + m
      OBVIOUS
    <2>. QED
      BY <2>1
  <1>2. CASE m = n - 1
    <2>1. c + 1 = (q + 1) * n + 0
      BY <1>1, <1>2
    <2>2. ((q + 1) * n + 0) % n = 0
      BY ModUnique
    <2>. QED
      BY <1>1, <1>2, <2>1, <2>2
  <1>3. CASE m # n - 1
    <2>1. c + 1 = q * n + (m + 1) /\ m + 1 \in Nat /\ m + 1 < n
      BY <1>1, <1>3
    <2>2. (q * n + (m + 1)) % n = m + 1
      BY <2>1, ModUnique
    <2>. QED
      BY <1>1, <1>3, <2>1, <2>2
  <1>. QED
    BY <1>2, <1>3

LEMMA RoundNext ==
  ASSUME NEW n \in Nat \ {0}, NEW c \in Nat
  PROVE  /\ c % n # n - 1 =>
              (c + 1) % n = (c % n) + 1 /\ (c + 1) - ((c + 1) % n) = c - (c % n)
         /\ c % n = n - 1 =>
              (c + 1) % n = 0 /\ (c + 1) - ((c + 1) % n) = (c - (c % n)) + n
  <1>1. (c + 1) % n = IF c % n = n - 1 THEN 0 ELSE (c % n) + 1
    BY ModNext
  <1>2. c % n \in Nat
    BY ModRange
  <1>. QED
    BY <1>1, <1>2

-----------------------------------------------------------------------------
RoundBase == _counter - (_counter % _participants)
Ahead(B)  == {p \in group : Begun(p) = B + 1}

(***************************************************************************)
(* The inductive invariant.  Before the counter wraps, some threads have   *)
(* begun B waits and the others B + 1; these have arrived in the current   *)
(* round, are as many as its arrivals, and wait for its end, while a       *)
(* thread still spinning in the B-th wait waits for an end already passed. *)
(***************************************************************************)
GroupInv == _participants = Cardinality(group)

InRound(B) ==
  /\ Cardinality(Ahead(B)) = _counter % _participants
  /\ \A p \in group :
       \/ /\ Begun(p) = B + 1
          /\ waiting[p] /\ end[p] = RoundBase + _participants
       \/ /\ Begun(p) = B
          /\ waiting[p] => end[p] <= RoundBase

RoundInv == ~wrapped => \E B \in Nat : InRound(B)

IInv == TypeOK /\ GroupInv /\ RoundInv

\* Every group is finite, and its size is a number of participants.
LEMMA GroupSize ==
  ASSUME NEW g \in (SUBSET Procs) \ {{}}
  PROVE  IsFiniteSet(g) /\ Cardinality(g) \in 1 .. Cardinality(Procs)
  <1>1. IsFiniteSet(g) /\ Cardinality(g) <= Cardinality(Procs)
    BY ProcsAssumption, FS_Subset
  <1>2. Cardinality(g) \in Nat /\ Cardinality(g) # 0
    <2>1. Cardinality(g) \in Nat
      BY <1>1, FS_CardinalityType
    <2>2. Cardinality(g) = 0 <=> g = {}
      BY <1>1, FS_EmptySet
    <2>. QED
      BY <2>1, <2>2
  <1>3. Cardinality(Procs) \in Nat
    BY ProcsAssumption, FS_CardinalityType
  <1>. QED
    BY <1>1, <1>2, <1>3

LEMMA CounterTypes ==
  ASSUME TypeOK
  PROVE  /\ _participants \in Nat \ {0} /\ _counter \in Nat /\ SizeT \in Nat \ {0}
         /\ RoundBase \in Nat /\ RoundBase <= _counter
         /\ _counter < RoundBase + _participants
         /\ _counter % _participants \in Nat /\ _counter % _participants < _participants
         /\ RoundEnd(_counter) = RoundBase + _participants
  <1>1. Cardinality(Procs) \in Nat
    BY ProcsAssumption, FS_CardinalityType
  <1>2. _participants \in Nat \ {0} /\ _counter \in Nat /\ SizeT \in Nat \ {0}
    BY <1>1, SizeAssumption DEF TypeOK
  <1>. QED
    BY <1>2, ModRange DEF RoundBase, RoundEnd

\* No thread has gone ahead exactly when the counter is at the start of a round.
LEMMA NobodyAhead ==
  ASSUME IInv, NEW B \in Nat, InRound(B)
  PROVE  /\ IsFree <=> \A p \in group : Begun(p) = B
         /\ \E p \in group : Begun(p) = B
  <1>1. IsFiniteSet(group) /\ Cardinality(group) = _participants
    BY GroupSize DEF IInv, TypeOK, GroupInv
  <1>2. Ahead(B) \in SUBSET group
    BY DEF Ahead
  <1>3. IsFiniteSet(Ahead(B)) /\ (Cardinality(Ahead(B)) = 0 <=> Ahead(B) = {})
    BY <1>1, <1>2, FS_Subset, FS_EmptySet
  <1>4. Ahead(B) # group
    BY <1>1, CounterTypes DEF InRound, IInv
  <1>5. \A p \in group : p \in Ahead(B) <=> Begun(p) = B + 1
    BY DEF Ahead
  <1>6. \A p \in group : Begun(p) = B + 1 \/ Begun(p) = B
    BY DEF InRound
  <1>7. IsFree <=> Cardinality(Ahead(B)) = 0
    BY DEF InRound, IsFree
  <1>8. Ahead(B) = {} <=> \A p \in group : Begun(p) = B
    BY <1>2, <1>5, <1>6
  <1>9. \E p \in group : p \notin Ahead(B)
    BY <1>2, <1>4
  <1>. QED
    BY <1>3, <1>5, <1>6, <1>7, <1>8, <1>9

-----------------------------------------------------------------------------
LEMMA InitBarrier == Init => IInv
  <1>. SUFFICES ASSUME Init PROVE IInv
    OBVIOUS
  <1>1. group \in (SUBSET Procs) \ {{}} /\ _participants = Cardinality(group)
    BY DEF Init
  <1>2. _participants \in 1 .. Cardinality(Procs)
    BY <1>1, GroupSize
  <1>3. TypeOK
    <2>1. 0 \in 0 .. SizeT - 1
      BY ProcsAssumption, SizeAssumption, FS_CardinalityType
    <2>2. wrapped \in BOOLEAN /\ waiting \in [Procs -> BOOLEAN]
      BY DEF Init
    <2>. QED
      BY <1>1, <1>2, <2>1, <2>2 DEF Init, TypeOK
  <1>4. InRound(0)
    <2>1. Ahead(0) = {} /\ \A p \in group : Begun(p) = 0 /\ ~waiting[p]
      BY <1>1 DEF Init, Ahead, Begun
    <2>2. _counter % _participants = 0
      BY <1>3, CounterTypes, ModSmall DEF Init
    <2>. QED
      BY <2>1, <2>2, FS_EmptySet DEF InRound
  <1>. QED
    BY <1>1, <1>3, <1>4 DEF IInv, GroupInv, RoundInv

LEMMA ArriveTypes ==
  ASSUME TypeOK, NEW p \in group, Arrive(p)
  PROVE  TypeOK'
  <1>1. _counter' \in 0 .. SizeT - 1 /\ RoundEnd(_counter) % SizeT \in 0 .. SizeT - 1
    BY CounterTypes DEF Arrive
  <1>2. wrapped' \in BOOLEAN
    BY DEF Arrive, TypeOK
  <1>. QED
    BY <1>1, <1>2 DEF Arrive, TypeOK

\* The arrival of a thread that is not waiting: it is one more of this round,
\* or the last, and the next begins.
LEMMA ArriveInRound ==
  ASSUME IInv, NEW p \in group, Arrive(p), ~wrapped', NEW B \in Nat, InRound(B)
  PROVE  \/ InRound(B)' /\ RoundBase' = RoundBase
         \/ InRound(B + 1)' /\ RoundBase' = RoundBase + _participants
  <1>. DEFINE n == _participants
              c == _counter
  <1>1. ~wrapped /\ RoundEnd(c) < SizeT
    <2>1. ~(wrapped \/ RoundEnd(c) >= SizeT)
      BY DEF Arrive
    <2>. QED
      BY <2>1, CounterTypes DEF IInv
  <1>2. InRound(B)
    OBVIOUS
  <1>3. c' = c + 1 /\ end'[p] = RoundBase + n /\ waiting'[p] /\ n' = n
    BY <1>1, CounterTypes DEF Arrive, IInv, TypeOK
  <1>4. \A q \in group : q # p => waiting'[q] = waiting[q] /\ end'[q] = end[q] /\ Begun(q)' = Begun(q)
    BY DEF Arrive, IInv, TypeOK, Begun
  <1>5. Begun(p) = B /\ Begun(p)' = B + 1 /\ group' = group
    BY <1>2 DEF Arrive, InRound, Begun, IInv, TypeOK
  <1>6. IsFiniteSet(group) /\ Cardinality(group) = n
    BY GroupSize DEF IInv, TypeOK, GroupInv
  <1>7. Cardinality(Ahead(B)') = (c % n) + 1 /\ IsFiniteSet(Ahead(B)')
    <2>1. IsFiniteSet(Ahead(B)) /\ p \notin Ahead(B)
      BY <1>5, <1>6, FS_Subset DEF Ahead
    <2>2. Ahead(B)' = Ahead(B) \cup {p}
      BY <1>4, <1>5 DEF Ahead
    <2>. QED
      BY <1>2, <2>1, <2>2, FS_AddElement DEF InRound
  <1>8. c \in Nat /\ n \in Nat \ {0} /\ RoundBase = c - (c % n) /\ c % n \in Nat /\ c % n < n
    BY CounterTypes DEF IInv, RoundBase
  <1>9. CASE c % n # n - 1
    <2>1. c' % n' = (c % n) + 1 /\ RoundBase' = RoundBase
      <3>1. (c + 1) % n = (c % n) + 1 /\ (c + 1) - ((c + 1) % n) = RoundBase
        BY <1>8, <1>9, RoundNext
      <3>. QED
        BY <1>3, <3>1 DEF RoundBase
    <2>2. ASSUME NEW q \in group
          PROVE  \/ Begun(q)' = B + 1 /\ waiting'[q] /\ end'[q] = RoundBase' + n'
                 \/ Begun(q)' = B /\ (waiting'[q] => end'[q] <= RoundBase')
      BY <1>2, <1>3, <1>4, <1>5, <2>1 DEF InRound
    <2>3. InRound(B)'
      BY <1>5, <1>7, <2>1, <2>2 DEF InRound
    <2>. QED
      BY <2>1, <2>3
  <1>10. CASE c % n = n - 1
    <2>1. c' % n' = 0 /\ RoundBase' = RoundBase + n
      <3>1. (c + 1) % n = 0 /\ (c + 1) - ((c + 1) % n) = RoundBase + n
        BY <1>8, <1>10, RoundNext
      <3>. QED
        BY <1>3, <3>1 DEF RoundBase
    <2>2. Ahead(B)' = group
      <3>1. Ahead(B)' \in SUBSET group
        BY <1>5 DEF Ahead
      <3>. QED
        BY <1>6, <1>7, <1>8, <1>10, <3>1, FS_Subset
    <2>3. \A q \in group : Begun(q)' = B + 1
      BY <2>2 DEF Ahead
    <2>4. Ahead(B + 1)' = {}
      BY <1>5, <2>3 DEF Ahead
    <2>5. \A q \in group : waiting'[q] => end'[q] <= RoundBase'
      <3>. TAKE q \in group
      <3>1. CASE q = p
        BY <1>3, <1>8, <2>1, <3>1
      <3>2. CASE q # p
        <4>1. Begun(q) = B + 1
          BY <1>4, <2>3, <3>2
        <4>. QED
          BY <1>2, <1>4, <1>8, <2>1, <3>2, <4>1 DEF InRound
      <3>. QED
        BY <3>1, <3>2
    <2>6. InRound(B + 1)'
      BY <1>5, <2>1, <2>3, <2>4, <2>5, FS_EmptySet DEF InRound
    <2>. QED
      BY <2>1, <2>6
  <1>. QED
    BY <1>9, <1>10

LEMMA ArriveRound ==
  ASSUME IInv, NEW p \in group, Arrive(p)
  PROVE  RoundInv'
  <1>. SUFFICES ASSUME ~wrapped' PROVE \E B \in Nat : InRound(B)'
    BY DEF RoundInv
  <1>1. ~wrapped
    BY DEF Arrive
  <1>2. PICK B \in Nat : InRound(B)
    BY <1>1 DEF IInv, RoundInv
  <1>3. InRound(B)' \/ InRound(B + 1)'
    BY <1>2, ArriveInRound
  <1>4. B + 1 \in Nat
    OBVIOUS
  <1>5. CASE InRound(B)'
    BY <1>5
  <1>6. CASE InRound(B + 1)'
    BY <1>4, <1>6
  <1>. QED
    BY <1>3, <1>5, <1>6

\* A thread that leaves is not one of those that have arrived in this round.
LEMMA LeaverIsBehind ==
  ASSUME IInv, NEW p \in group, Leave(p), NEW B \in Nat, InRound(B)
  PROVE  Begun(p) = B
  <1>1. _counter >= end[p] /\ waiting[p]
    BY DEF Leave
  <1>. QED
    BY <1>1, CounterTypes DEF InRound, IInv, TypeOK

LEMMA LeaveInRound ==
  ASSUME IInv, NEW p \in group, Leave(p), NEW B \in Nat, InRound(B)
  PROVE  InRound(B)' /\ RoundBase' = RoundBase
  <1>1. InRound(B)
    OBVIOUS
  <1>2. Begun(p) = B
    BY <1>1, LeaverIsBehind
  <1>3. \A q \in group : Begun(q)' = Begun(q) /\ end'[q] = end[q] /\ (waiting'[q] => waiting[q])
    BY DEF Leave, IInv, TypeOK, Begun
  <1>4. group' = group /\ RoundBase' = RoundBase /\ _participants' = _participants
        /\ (_counter % _participants)' = _counter % _participants
    BY DEF Leave, RoundBase
  <1>5. Ahead(B)' = Ahead(B)
    BY <1>3, <1>4 DEF Ahead
  <1>6. \A q \in group : q # p => waiting'[q] = waiting[q]
    BY DEF Leave, IInv, TypeOK
  <1>7. ASSUME NEW q \in group
        PROVE  \/ Begun(q)' = B + 1 /\ waiting'[q] /\ end'[q] = RoundBase' + _participants'
               \/ Begun(q)' = B /\ (waiting'[q] => end'[q] <= RoundBase')
    BY <1>1, <1>2, <1>3, <1>4, <1>6 DEF InRound
  <1>8. InRound(B)'
    BY <1>1, <1>4, <1>5, <1>7 DEF InRound
  <1>. QED
    BY <1>4, <1>8

LEMMA LeaveRound ==
  ASSUME IInv, NEW p \in group, Leave(p)
  PROVE  RoundInv'
  <1>. SUFFICES ASSUME ~wrapped' PROVE \E B \in Nat : InRound(B)'
    BY DEF RoundInv
  <1>1. PICK B \in Nat : InRound(B)
    BY DEF Leave, IInv, RoundInv
  <1>. QED
    BY <1>1, LeaveInRound

\* A new group begins at the start of its first round.
LEMMA FirstRound ==
  ASSUME Idle, NEW g \in (SUBSET Procs) \ {{}}, SetParticipants(g)
  PROVE  InRound(0)' /\ RoundBase' = 0
  <1>1. _participants' \in 1 .. Cardinality(Procs) /\ group' = g
    BY GroupSize DEF SetParticipants
  <1>2. \A p \in g : Begun(p)' = 0 /\ ~waiting'[p]
    BY DEF SetParticipants, Idle, Begun
  <1>3. Ahead(0)' = {}
    BY <1>1, <1>2 DEF Ahead
  <1>4. _participants' \in Nat \ {0}
    BY <1>1
  <1>5. _counter' % _participants' = 0 /\ _counter' = 0
    BY <1>4, ModSmall DEF SetParticipants
  <1>6. InRound(0)'
    BY <1>1, <1>2, <1>3, <1>5, FS_EmptySet DEF InRound
  <1>. QED
    BY <1>5, <1>6 DEF RoundBase

LEMMA NextBarrier == IInv /\ [Next]_barrier => IInv'
  <1>. SUFFICES ASSUME IInv, [Next]_barrier PROVE IInv'
    OBVIOUS
  <1>1. ASSUME NEW p \in group, Arrive(p) PROVE IInv'
    BY <1>1, ArriveTypes, ArriveRound DEF IInv, GroupInv, Arrive
  <1>2. ASSUME NEW p \in group, Leave(p) PROVE IInv'
    <2>1. TypeOK'
      BY <1>2 DEF Leave, IInv, TypeOK
    <2>. QED
      BY <1>2, <2>1, LeaveRound DEF IInv, GroupInv, Leave
  <1>3. ASSUME Idle, NEW g \in (SUBSET Procs) \ {{}}, SetParticipants(g) PROVE IInv'
    <2>1. _participants' \in 1 .. Cardinality(Procs) /\ group' = g
      BY <1>3, GroupSize DEF SetParticipants
    <2>2. TypeOK'
      BY <1>3, <2>1, SizeAssumption DEF SetParticipants, IInv, TypeOK
    <2>3. InRound(0)'
      BY <1>3, FirstRound
    <2>4. RoundInv' /\ GroupInv'
      BY <1>3, <2>3 DEF RoundInv, GroupInv, SetParticipants
    <2>. QED
      BY <2>2, <2>4 DEF IInv
  <1>4. ASSUME Idle, IsFree, Reset PROVE IInv'
    <2>1. TypeOK'
      BY <1>4, SizeAssumption, CounterTypes DEF Reset, IInv, TypeOK
    <2>2. GroupInv'
      BY <1>4 DEF Reset, IInv, GroupInv
    <2>3. ASSUME ~wrapped' PROVE \E B \in Nat : InRound(B)'
      <3>1. PICK B \in Nat : InRound(B)
        BY <1>4, <2>3 DEF Reset, IInv, RoundInv
      <3>2. \A p \in group : Begun(p) = B
        BY <1>4, <3>1, NobodyAhead
      <3>3. \A p \in group : Begun(p)' = B /\ ~waiting'[p] /\ p \in Procs
        BY <1>4, <3>2 DEF Reset, Idle, Begun, IInv, TypeOK
      <3>4. Ahead(B)' = {}
        BY <1>4, <3>3 DEF Reset, Ahead
      <3>5. _counter' % _participants' = 0
        BY <1>4, CounterTypes, ModSmall DEF Reset, IInv
      <3>6. InRound(B)'
        BY <1>4, <3>3, <3>4, <3>5, FS_EmptySet DEF InRound, Reset
      <3>. QED
        BY <3>6
    <2>. QED
      BY <2>1, <2>2, <2>3 DEF IInv, RoundInv
  <1>5. CASE UNCHANGED barrier
    BY <1>5 DEF barrier, IInv, TypeOK, GroupInv, RoundInv, InRound, Ahead, Begun, RoundBase
  <1>. QED
    BY <1>1, <1>2, <1>3, <1>4, <1>5 DEF Next

\* The invariant puts any two threads of a group within one wait.
LEMMA WithinOneWait == IInv => NobodyLeavesEarly
  <1>. SUFFICES ASSUME IInv, ~wrapped, NEW p \in group, NEW q \in group
                PROVE  waits[p] <= Begun(q)
    BY DEF NobodyLeavesEarly
  <1>1. PICK B \in Nat : InRound(B)
    BY DEF IInv, RoundInv
  <1>2. waits[p] \in Nat /\ waits[p] = Begun(p) - (IF waiting[p] THEN 1 ELSE 0)
    BY DEF Begun, IInv, TypeOK
  <1>3. waits[p] <= B
    BY <1>1, <1>2 DEF InRound
  <1>. QED
    BY <1>1, <1>2, <1>3 DEF InRound

\* In a round some thread has not arrived, so that the round's end lies ahead
\* for those that have, and behind for those still spinning in the last one.
LEMMA RoundOpens ==
  ASSUME IInv, ~wrapped, NEW p \in group, waiting[p]
  PROVE  _counter >= end[p] <=> \A q \in group : Begun(q) >= Begun(p)
  <1>1. PICK B \in Nat : InRound(B)
    BY DEF IInv, RoundInv
  <1>2. /\ RoundBase \in Nat /\ RoundBase <= _counter /\ _counter < RoundBase + _participants
        /\ _counter \in Nat /\ _participants \in Nat
    BY CounterTypes DEF IInv
  <1>3. CASE Begun(p) = B + 1 /\ end[p] = RoundBase + _participants
    <2>1. \E q \in group : Begun(q) = B
      BY <1>1, NobodyAhead
    <2>. QED
      BY <1>2, <1>3, <2>1
  <1>4. CASE Begun(p) = B /\ end[p] <= RoundBase
    <2>1. \A q \in group : Begun(q) >= Begun(p)
      BY <1>1, <1>4 DEF InRound
    <2>2. end[p] \in Int
      BY DEF IInv, TypeOK
    <2>. QED
      BY <1>2, <1>4, <2>1, <2>2
  <1>. QED
    BY <1>1, <1>3, <1>4 DEF InRound

-----------------------------------------------------------------------------
(***************************************************************************)
(* Every variable keeps its type, also when the counter wraps.             *)
(***************************************************************************)
THEOREM BarrierTypes == Spec => []TypeOK
  BY InitBarrier, NextBarrier, PTL DEF Spec, IInv

(***************************************************************************)
(* Until a round's end does not fit in size_t, no thread finishes its k-th *)
(* wait before all have begun theirs, for any number of threads.           *)
(***************************************************************************)
THEOREM WaitsForAll == Spec => []NobodyLeavesEarly
  BY InitBarrier, NextBarrier, WithinOneWait, PTL DEF Spec

(***************************************************************************)
(* Until then a round opens for a thread exactly when all threads of its   *)
(* group have come as far: no thread has to wait for one that waits.       *)
(***************************************************************************)
THEOREM OpensWhenAllArrive == Spec => []OpensForAll
  <1>1. IInv => OpensForAll
    BY RoundOpens DEF OpensForAll
  <1>. QED
    BY InitBarrier, NextBarrier, <1>1, PTL DEF Spec

(***************************************************************************)
(* is_free() is true exactly between rounds, for any number of threads.    *)
(***************************************************************************)
THEOREM TellsRounds == Spec => []FreeBetweenRounds
  <1>1. IInv => FreeBetweenRounds
    <2>. SUFFICES ASSUME IInv, ~wrapped
                  PROVE  IsFree <=> \A p, q \in group : Begun(p) = Begun(q)
      BY DEF FreeBetweenRounds
    <2>1. PICK B \in Nat : InRound(B)
      BY DEF IInv, RoundInv
    <2>. QED
      BY <2>1, NobodyAhead
  <1>. QED
    BY InitBarrier, NextBarrier, <1>1, PTL DEF Spec

-----------------------------------------------------------------------------
LEMMA StepImplements ==
  ASSUME IInv, ~wrapped, [Next]_barrier
  PROVE  [Promise!Next]_<< group, [p \in Procs |-> Begun(p)], waits >>
  <1>. DEFINE begun == [p \in Procs |-> Begun(p)]
  <1>0. group \subseteq Procs
    BY DEF IInv, TypeOK
  <1>1. ASSUME NEW p \in group, Arrive(p) PROVE Promise!Enter(p)
    <2>1. begun[p] = waits[p]
      BY <1>0, <1>1 DEF Arrive, Begun, IInv, TypeOK
    <2>2. begun' = [begun EXCEPT ![p] = @ + 1]
      <3>1. \A q \in Procs : Begun(q)' = IF q = p THEN Begun(q) + 1 ELSE Begun(q)
        BY <1>1, <1>0 DEF Arrive, Begun, IInv, TypeOK
      <3>. QED
        BY <3>1, <1>0
    <2>. QED
      BY <1>1, <2>1, <2>2 DEF Promise!Enter, Arrive
  <1>2. ASSUME NEW p \in group, Leave(p) PROVE Promise!Exit(p)
    <2>1. waits[p] < begun[p]
      BY <1>0, <1>2 DEF Leave, Begun, IInv, TypeOK
    <2>2. \A q \in group : begun[q] >= begun[p]
      <3>1. PICK B \in Nat : InRound(B)
        BY DEF IInv, RoundInv
      <3>2. Begun(p) = B
        BY <1>2, <3>1, LeaverIsBehind
      <3>3. \A q \in group : Begun(q) >= Begun(p)
        BY <3>1, <3>2 DEF InRound
      <3>. QED
        BY <1>0, <3>3
    <2>3. begun' = begun
      <3>1. \A q \in Procs : Begun(q)' = Begun(q)
        BY <1>2, <1>0 DEF Leave, Begun, IInv, TypeOK
      <3>. QED
        BY <3>1
    <2>. QED
      BY <1>2, <2>1, <2>2, <2>3 DEF Promise!Exit, Leave
  <1>3. ASSUME Idle, NEW g \in (SUBSET Procs) \ {{}}, SetParticipants(g) PROVE Promise!Regroup(g)
    <2>1. begun = waits
      BY <1>3 DEF Idle, Begun, IInv, TypeOK
    <2>2. begun' = [p \in Procs |-> 0]
      BY <1>3 DEF SetParticipants, Idle, Begun
    <2>. QED
      BY <1>3, <2>1, <2>2 DEF Promise!Regroup, Promise!Idle, SetParticipants
  <1>4. ASSUME Reset PROVE UNCHANGED << group, begun, waits >>
    BY <1>4 DEF Reset, Begun
  <1>5. CASE UNCHANGED barrier
    BY <1>5 DEF barrier, Begun
  <1>. QED
    BY <1>1, <1>2, <1>3, <1>4, <1>5 DEF Next, Promise!Next

(***************************************************************************)
(* AtomicBarrier implements Barrier, for any number of threads and waits,  *)
(* as long as no round's end wraps.                                        *)
(***************************************************************************)
THEOREM IsABarrier == Spec /\ []~wrapped => ImplementsBarrier
  <1>1. Init => Promise!Init
    BY DEF Init, Promise!Init, Begun
  <1>. QED
    BY InitBarrier, NextBarrier, StepImplements, <1>1, PTL
    DEF Spec, ImplementsBarrier, Promise!Spec
=============================================================================
