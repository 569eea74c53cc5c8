---------------------------- MODULE WorkerVariants ----------------------------
(***************************************************************************)
(* The loop scheduler in the builds that define optional macros.  They     *)
(* change how the range is divided, how large a chunk is and how much a    *)
(* thief takes from whom; the protocol of owner and thief is Worker's, and *)
(* so are the actions that no macro touches.                               *)
(*                                                                         *)
(* seq_chunk, half_range and min_steal are plain variables that owner and  *)
(* thieves read and write without a common lock.  Every such access is an  *)
(* action of its own, in the order of the program; MIN and MAX are macros  *)
(* that evaluate the operand they return twice.                            *)
(*                                                                         *)
(* DISTRIB_BY_ALPHA and STEAL_SMALLER_LITTLE do not compile: they name     *)
(* num_big_cores and alpha, which are not declared.                        *)
(***************************************************************************)
EXTENDS Worker

CONSTANTS
  Builds,     \* the builds considered: sets of macros
  Alpha       \* get_alpha()

Macros ==
  {"DISTRIB_BY_DEMAND", "GRAIN_FRACTION", "GRAIN_LOG", "GRAIN_SMALLER_LITTLE",
   "EXTRACT_THRESHOLD", "STEAL_ONLY_FROM_LITTLE", "STEAL_HALF",
   "STEAL_THRESHOLD_LITTLE", "REDUCE_GRAIN_ON_STEAL",
   "NVIDIA_JETSON_TX2", "ODROID_XU3_LITE"}

ASSUME BuildsAssumption == Builds \subseteq SUBSET Macros
ASSUME AlphaAssumption  == Alpha \in Nat \ {0}
\* The grain is a value of the type Index; another would be truncated.
ASSUME GrainFits == Grain <= IndexMax
\* A chunk is never longer than the grain or the loop.  EXTRACT_THRESHOLD
\* shifts it by two, and a signed Index holds the result.
ASSUME ChunksFit == Signed => 4 * MaxOf(Last, Grain) <= IndexMax

VARIABLES
  build,        \* the macros defined; it does not change
  seq_chunk,    \* Worker::seq_chunk, a plain variable
  half_range,   \* Worker::half_range, a plain variable
  min_steal,    \* Worker::min_steal, a plain variable
  chunk,        \* a register: the size of a chunk, as read or to be stored
  steal_size,   \* extract_par: steal_size
  reg           \* a register: another number of iterations

tuning   == << seq_chunk, half_range, min_steal >>
locals   == << chunk, steal_size, reg >>
allvars  == << vars, build, tuning, locals >>
\* What only the actions of Worker touch, besides pc.
protocol == << shared, own, thief, done, outdated >>

Has(macro) == macro \in build

IsLittle(id) ==
  CASE Has("NVIDIA_JETSON_TX2") -> id = 0 \/ id > 2
    [] ~Has("NVIDIA_JETSON_TX2") /\ Has("ODROID_XU3_LITE") -> id < 4
    [] OTHER -> id < 2

-----------------------------------------------------------------------------
(* recalc_internal *)

\* The integer part of a root or a logarithm: how many positive numbers are
\* not greater.
FloorSqrt(n) == Cardinality({r \in 1 .. n : r * r <= n})
FloorLog2(n) == Cardinality({e \in 1 .. n : 2 ^ e <= n})

\* The logarithm of an empty range is -infinity, and its conversion to Index
\* undefined: 0 or the lowest value of a signed type, which MAX turns into 1,
\* or half the values of an unsigned one.
Logs(size) ==
  IF size > 0 THEN {MaxOf(FloorLog2(size), 1)}
  ELSE {1} \cup (IF Signed THEN {} ELSE {(IndexMax + 1) \div 2})

BaseChunks(size) ==
  CASE Has("GRAIN_FRACTION") -> {MaxOf(size \div Grain, 1)}
    [] ~Has("GRAIN_FRACTION") /\ Has("GRAIN_LOG") -> Logs(size)
    [] OTHER -> {Grain}

\* Of a LITTLE core, and of any in its constructor, where nobody interferes.
Divides(id) == Has("GRAIN_SMALLER_LITTLE") /\ IsLittle(id)
Chunks(id, size) ==
  {IF Divides(id) THEN MaxOf(c \div Alpha, 1) ELSE c : c \in BaseChunks(size)}
HalfRange(size) == size \div 2

\* Nothing is asked of a steal from an empty sub-range.
FaultyMinSteal(size) == FloorSqrt(size)
MinSteal(size)       == MaxOf(FloorSqrt(size), 1)

-----------------------------------------------------------------------------
(* The constructor. *)

DemandFirst(id) == IF id = 0 THEN First ELSE 0
\* Every thread starts with the end of the loop.
FaultyDemandLast(id) == Last
DemandLast(id) == IF id = 0 THEN Last ELSE 0

VariantInit ==
  /\ build \in Builds
  /\ pc    = [t \in Threads |-> "seq"]
  /\ first = [t \in Threads |->
                IF Has("DISTRIB_BY_DEMAND") THEN DemandFirst(t) ELSE InitialFirst(t)]
  /\ last  = [t \in Threads |->
                IF Has("DISTRIB_BY_DEMAND") THEN DemandLast(t) ELSE InitialLast(t)]
  /\ lock  = [t \in Threads |-> Nobody]
  /\ copy_first = first /\ working_first = first /\ working_last = first
  /\ visited  = [t \in Threads |-> {}] /\ victim = [t \in Threads |-> t]
  /\ vic_last = [t \in Threads |-> 0] /\ new_last = [t \in Threads |-> 0]
  /\ seen     = [t \in Threads |-> 0]
  /\ done     = [x \in Iterations |-> 0] /\ outdated = FALSE
  /\ seq_chunk \in {f \in [Threads -> 1 .. IndexMax] :
                     \A t \in Threads : f[t] \in Chunks(t, last[t] - first[t])}
  /\ half_range = [t \in Threads |-> HalfRange(last[t] - first[t])]
  /\ min_steal  = [t \in Threads |-> MinSteal(last[t] - first[t])]
  /\ chunk = [t \in Threads |-> 0] /\ steal_size = [t \in Threads |-> 0]
  /\ reg = [t \in Threads |-> 0]

-----------------------------------------------------------------------------
(* extract_seq *)

\* With EXTRACT_THRESHOLD a short sub-range is taken one iteration at a time:
\* what is left of it is computed ...
LoadLeft(t) ==
  /\ Goto(t, "seq", "left") /\ Has("EXTRACT_THRESHOLD")
  /\ reg' = Set(reg, t, Minus(last[t], working_last[t]))
  /\ UNCHANGED << protocol, build, tuning, chunk, steal_size >>

FourTimes(c) == IF Signed THEN 4 * c ELSE (4 * c) % (IndexMax + 1)

\* ... and compared with four chunks.
TestLeft(t) ==
  /\ pc[t] = "left"
  /\ IF reg[t] > FourTimes(seq_chunk[t])
       THEN pc' = Set(pc, t, "size") /\ UNCHANGED chunk
       ELSE pc' = Set(pc, t, "bound") /\ chunk' = Set(chunk, t, 1)
  /\ UNCHANGED << protocol, build, tuning, steal_size, reg >>

ReadChunk(t) ==
  /\ Goto(t, IF Has("EXTRACT_THRESHOLD") THEN "size" ELSE "seq", "bound")
  /\ chunk' = Set(chunk, t, seq_chunk[t])
  /\ UNCHANGED << protocol, build, tuning, steal_size, reg >>

\* The comparison of MIN; the size EXTRACT_THRESHOLD uses is a local constant.
TestBound(t) ==
  /\ pc[t] = "bound"
  /\ IF Plus(copy_first[t], chunk[t]) < last[t]
       THEN IF Has("EXTRACT_THRESHOLD")
              THEN Bound(t, Plus(copy_first[t], chunk[t]))
              ELSE pc' = Set(pc, t, "again") /\ UNCHANGED working_first
       ELSE pc' = Set(pc, t, "min") /\ UNCHANGED working_first
  /\ UNCHANGED << shared, copy_first, working_last, thief, done, outdated >>
  /\ UNCHANGED << build, tuning, locals >>

\* The result of MIN names seq_chunk again: as it is now or, where the compiler
\* has kept it, as it was read before.
BoundChunk(t) ==
  /\ pc[t] = "again"
  /\ \E c \in {chunk[t], seq_chunk[t]} : Bound(t, Plus(copy_first[t], c))
  /\ UNCHANGED << shared, copy_first, working_last, thief, done, outdated >>
  /\ UNCHANGED << build, tuning, locals >>

-----------------------------------------------------------------------------
(* extract_par *)

\* A victim that is not LITTLE is passed over, but not marked as visited.
FaultyPickVictim(t) ==
  /\ pc[t] = "pick"
  /\ \E v \in Threads \ visited[t] :
       /\ victim' = Set(victim, t, v)
       /\ IF Has("STEAL_ONLY_FROM_LITTLE") /\ ~IsLittle(v)
            THEN UNCHANGED << pc, seen >>
            ELSE pc' = Set(pc, t, "range") /\ seen' = Set(seen, t, last[v])
  /\ UNCHANGED << shared, own, visited, vic_last, new_last, done, outdated >>
  /\ UNCHANGED << build, tuning, locals >>

PickVictim(t) ==
  /\ pc[t] = "pick"
  /\ \E v \in Threads \ visited[t] :
       /\ victim' = Set(victim, t, v)
       /\ IF Has("STEAL_ONLY_FROM_LITTLE") /\ ~IsLittle(v)
            THEN visited' = Set(visited, t, visited[t] \cup {v}) /\ UNCHANGED << pc, seen >>
            ELSE pc' = Set(pc, t, "range") /\ seen' = Set(seen, t, last[v])
                 /\ UNCHANGED visited
  /\ UNCHANGED << shared, own, vic_last, new_last, done, outdated, build, tuning, locals >>

\* The end of the steal is computed from its size.
Aim(t, size) ==
  /\ pc' = Set(pc, t, "verify")
  /\ new_last' = Set(new_last, t, Minus(vic_last[t], size))
  /\ UNCHANGED << lock, visited >>

\* The size of the steal is known, and may have to be compared with min_steal.
Decide(t, size) ==
  IF Has("STEAL_THRESHOLD_LITTLE")
    THEN /\ pc' = Set(pc, t, "threshold") /\ steal_size' = Set(steal_size, t, size)
         /\ UNCHANGED << lock, visited, new_last >>
    ELSE Aim(t, size) /\ UNCHANGED steal_size

HalfRemaining(t) ==
  /\ pc[t] = "remain" /\ ~Has("STEAL_HALF")
  /\ Decide(t, StealSize(Minus(vic_last[t], first[victim[t]])))
  /\ UNCHANGED << first, last, own, victim, vic_last, seen, done, outdated >>
  /\ UNCHANGED << build, tuning, chunk, reg >>

\* STEAL_HALF halves the victim's half_range until the steal fits: it is read,
\* read again and stored.
ReadHalf(t) ==
  /\ Goto(t, "remain", "halving") /\ Has("STEAL_HALF")
  /\ steal_size' = Set(steal_size, t, half_range[victim[t]])
  /\ UNCHANGED << protocol, build, tuning, chunk, reg >>

Halve(t) ==
  /\ Goto(t, "halving", "halving2")
  /\ reg' = Set(reg, t, half_range[victim[t]] \div 2)
  /\ UNCHANGED << protocol, build, tuning, chunk, steal_size >>

StoreHalf(t) ==
  /\ Goto(t, "halving2", "halved")
  /\ half_range' = Set(half_range, victim[t], reg[t])
  /\ UNCHANGED << protocol, build, seq_chunk, min_steal, locals >>

TestHalf(t) ==
  /\ pc[t] = "halved"
  /\ IF first[victim[t]] > Minus(vic_last[t], steal_size[t]) /\ steal_size[t] # 0
       THEN pc' = Set(pc, t, "remain") /\ UNCHANGED << lock, visited, new_last, steal_size >>
       ELSE Decide(t, steal_size[t])
  /\ UNCHANGED << first, last, own, victim, vic_last, seen, done, outdated >>
  /\ UNCHANGED << build, tuning, chunk, reg >>

\* A LITTLE thread abandons a small steal.
TestThreshold(t) ==
  /\ pc[t] = "threshold"
  /\ IF IsLittle(t) /\ steal_size[t] < min_steal[victim[t]]
       THEN Abandon(t) /\ UNCHANGED new_last
       ELSE Aim(t, steal_size[t])
  /\ UNCHANGED << first, last, own, victim, vic_last, seen, done, outdated >>
  /\ UNCHANGED << build, tuning, locals >>

\* A steal of half_range iterations may be longer than what is left, and its
\* unsigned end lies beyond the end read: such a cut counts as outdated too.
Cut(t) ==
  /\ Goto(t, "cut", "recheck")
  /\ last' = Set(last, victim[t], new_last[t])
  /\ outdated' = (outdated \/ last[victim[t]] # vic_last[t] \/ new_last[t] > vic_last[t])
  /\ UNCHANGED << first, lock, own, thief, done >>

\* A steal that stands halves the victim's chunk before it unlocks the victim.
Reduces(t) ==
  Has("REDUCE_GRAIN_ON_STEAL") /\ seen[t] <= last[victim[t]] /\ new_last[t] # vic_last[t]

RecheckLast(t) ==
  /\ IF Reduces(t)
       THEN Goto(t, "recheck2", "reduce") /\ UNCHANGED protocol
       ELSE ParRecheckLast(t)
  /\ UNCHANGED << build, tuning, locals >>

\* The chunk is halved without a lower bound.
FaultyTestReduce(t) ==
  /\ Goto(t, "reduce", "reduce2")
  /\ UNCHANGED << protocol, build, tuning, locals >>

\* MAX compares half of the chunk with 1 ...
TestReduce(t) ==
  /\ pc[t] = "reduce"
  /\ IF seq_chunk[victim[t]] \div 2 > 1
       THEN pc' = Set(pc, t, "reduce2") /\ UNCHANGED chunk
       ELSE pc' = Set(pc, t, "reduced") /\ chunk' = Set(chunk, t, 1)
  /\ UNCHANGED << protocol, build, tuning, steal_size, reg >>

\* ... and halves it again.
ReadReduce(t) ==
  /\ Goto(t, "reduce2", "reduced")
  /\ chunk' = Set(chunk, t, seq_chunk[victim[t]] \div 2)
  /\ UNCHANGED << protocol, build, tuning, steal_size, reg >>

StoreReduced(t) ==
  /\ Goto(t, "reduced", "unlock")
  /\ seq_chunk' = Set(seq_chunk, victim[t], chunk[t])
  /\ UNCHANGED << protocol, build, half_range, min_steal, locals >>

UnlockReduced(t) ==
  /\ Goto(t, "unlock", "won")
  /\ lock' = Set(lock, victim[t], Nobody)
  /\ UNCHANGED << first, last, own, thief, done, outdated, build, tuning, locals >>

\* The store of `first`, from which recalc_internal() restarts the copies.
SetFirst(t) ==
  /\ Goto(t, "setfirst", "recalc")
  /\ first'         = Set(first, t, new_last[t])
  /\ copy_first'    = Set(copy_first, t, new_last[t])
  /\ working_first' = Set(working_first, t, new_last[t])
  /\ working_last'  = Set(working_last, t, new_last[t])
  /\ visited'       = Set(visited, t, {})
  /\ UNCHANGED << last, lock, victim, vic_last, new_last, seen, done, outdated >>
  /\ UNCHANGED << build, tuning, locals >>

\* The rest of recalc_internal(): the sub-range is published already, and may
\* be stolen from while its size is read and the tuning computed from it.
LoadSize(t) ==
  /\ Goto(t, "recalc", "store")
  /\ reg' = Set(reg, t, Minus(last[t], copy_first[t]))
  /\ UNCHANGED << protocol, build, tuning, chunk, steal_size >>

StoreChunk(t) ==
  /\ Goto(t, "store", IF Divides(t) THEN "little" ELSE "half")
  /\ \E c \in BaseChunks(reg[t]) : seq_chunk' = Set(seq_chunk, t, c)
  /\ UNCHANGED << protocol, build, half_range, min_steal, locals >>

TestLittle(t) ==
  /\ pc[t] = "little"
  /\ IF seq_chunk[t] \div Alpha > 1
       THEN pc' = Set(pc, t, "little2") /\ UNCHANGED chunk
       ELSE pc' = Set(pc, t, "little3") /\ chunk' = Set(chunk, t, 1)
  /\ UNCHANGED << protocol, build, tuning, steal_size, reg >>

ReadLittle(t) ==
  /\ Goto(t, "little2", "little3")
  /\ chunk' = Set(chunk, t, seq_chunk[t] \div Alpha)
  /\ UNCHANGED << protocol, build, tuning, steal_size, reg >>

StoreLittle(t) ==
  /\ Goto(t, "little3", "half")
  /\ seq_chunk' = Set(seq_chunk, t, chunk[t])
  /\ UNCHANGED << protocol, build, half_range, min_steal, locals >>

StoreHalfRange(t) ==
  /\ Goto(t, "half", "least")
  /\ half_range' = Set(half_range, t, HalfRange(reg[t]))
  /\ UNCHANGED << protocol, build, seq_chunk, min_steal, locals >>

StoreMinSteal(t) ==
  /\ Goto(t, "least", "seq")
  /\ min_steal' = Set(min_steal, t, MinSteal(reg[t]))
  /\ UNCHANGED << protocol, build, seq_chunk, half_range, locals >>

-----------------------------------------------------------------------------
\* What no macro changes.
Unchanging(t) ==
  /\ \/ SeqBoundLast(t) \/ SeqPublish(t) \/ SeqCheck(t) \/ SeqUndo(t) \/ SeqLock(t)
     \/ SeqTake(t) \/ Body(t)
     \/ ParHideFirst(t) \/ ParHideLast(t) \/ ParReturn(t) \/ ParRange(t) \/ ParTryLock(t)
     \/ ParLoadLast(t) \/ ParVerifyLast(t) \/ ParVerifyFirst(t) \/ Cut(t)
     \/ ParRecheckFirst(t) \/ ParRollback(t) \/ ParSetLast(t)
  /\ UNCHANGED << build, tuning, locals >>

VariantStep(t) ==
  \/ Unchanging(t)
  \/ LoadLeft(t) \/ TestLeft(t) \/ ReadChunk(t) \/ TestBound(t) \/ BoundChunk(t)
  \/ PickVictim(t) \/ HalfRemaining(t) \/ ReadHalf(t) \/ Halve(t) \/ StoreHalf(t)
  \/ TestHalf(t) \/ TestThreshold(t) \/ RecheckLast(t) \/ TestReduce(t) \/ ReadReduce(t)
  \/ StoreReduced(t) \/ UnlockReduced(t) \/ SetFirst(t) \/ LoadSize(t) \/ StoreChunk(t)
  \/ TestLittle(t) \/ ReadLittle(t) \/ StoreLittle(t) \/ StoreHalfRange(t) \/ StoreMinSteal(t)

VariantNext ==
  \/ AllEnded /\ UNCHANGED allvars
  \/ \E t \in Threads : VariantStep(t)

VariantSpec == VariantInit /\ [][VariantNext]_allvars

\* The operating system keeps scheduling every thread.
VariantFairSpec == VariantSpec /\ \A t \in Threads : WF_allvars(VariantStep(t))

-----------------------------------------------------------------------------
(* Properties: those of Worker, and *)

\* A signed size may be negative once a cut was outdated.
VariantTypeOK ==
  /\ build \in Builds
  /\ seq_chunk \in [Threads -> Nat] /\ min_steal \in [Threads -> Nat \ {0}]
  /\ half_range \in [Threads -> Int] /\ reg \in [Threads -> Int]
  /\ chunk \in [Threads -> Nat] /\ steal_size \in [Threads -> Int]

\* The builds in which a thief may find less than it has tested: those in which
\* it halves a chunk that its owner computes anew and may make smaller.
Shrinks ==
  /\ Has("REDUCE_GRAIN_ON_STEAL")
  /\ Has("GRAIN_FRACTION") \/ Has("GRAIN_LOG") \/ Has("GRAIN_SMALLER_LITTLE")

(***************************************************************************)
(* No chunk is ever empty, whatever the grain is divided by and however    *)
(* the thief that halves it in extract_par races with the owner that       *)
(* computes it in recalc_internal(): except in builds where the owner may  *)
(* lower it between the two reads of MAX, which then do store 0.           *)
(***************************************************************************)
NoEmptyChunk == Shrinks \/ \A t \in Threads : seq_chunk[t] > 0

(***************************************************************************)
(* Every thread returns from work() in every build, unless threads steal   *)
(* from each other for ever: neither a chunk that no longer shrinks nor a  *)
(* threshold that no steal reaches keeps a loop from ending.               *)
(***************************************************************************)
VariantsEndUnlessStealsForever ==
  <>AllEnded \/ []<><<\E t \in Threads : SetFirst(t)>>_allvars
=============================================================================
