------------------------- MODULE WorkerLotteryProofs -------------------------
(***************************************************************************)
(* Theorems about WorkerLottery, for every value of its constants.          *)
(***************************************************************************)
EXTENDS WorkerLottery, TLAPS, FiniteSetTheorems

-----------------------------------------------------------------------------
(***************************************************************************)
(* Lemmas about one outcome and one turn of the loop.                       *)
(***************************************************************************)

\* Recording an outcome keeps the type of an entry, and its misses below the
\* threshold (record_outcome).
LEMMA OutcomeType ==
    ASSUME NEW entry \in WorkerEntry, NEW delivered \in BOOLEAN,
           entry.consecutive_misses < MISS_THRESHOLD,
           absolute_deadline \in Int
    PROVE  /\ record_outcome(entry, delivered) \in WorkerEntry
           /\ record_outcome(entry, delivered).consecutive_misses < MISS_THRESHOLD
<1>1. CASE delivered
  BY <1>1, LotteryAssumption DEF record_outcome, TooMany, Until, WorkerEntry
<1>2. CASE ~delivered /\ entry.consecutive_misses + 1 < MISS_THRESHOLD
  BY <1>2, LotteryAssumption DEF record_outcome, TooMany, Until, WorkerEntry
<1>3. CASE ~delivered /\ ~(entry.consecutive_misses + 1 < MISS_THRESHOLD)
  <2>0. TooMany(entry.consecutive_misses + 1)
    BY <1>3, LotteryAssumption DEF TooMany, WorkerEntry
  <2> DEFINE until == absolute_deadline + SUSPENSION_DEADLINES
  <2>1. until \in Int /\ 0 < MISS_THRESHOLD
    BY LotteryAssumption
  <2>2. record_outcome(entry, delivered)
          = [last_assigned_deadline |-> entry.last_assigned_deadline,
             consecutive_misses |-> 0, suspended_until_deadline |-> until]
    BY <1>3, <2>0 DEF record_outcome, Until, WorkerEntry
  <2> HIDE DEF until
  <2> QED
    BY <2>1, <2>2 DEF WorkerEntry
<1> QED
  BY <1>1, <1>2, <1>3

\* An outcome suspends from now on, or leaves the suspension as it was; being
\* marked as chosen does not touch it.
LEMMA OutcomeSuspension ==
    ASSUME NEW entry \in WorkerEntry, NEW delivered \in BOOLEAN
    PROVE  record_outcome(entry, delivered).suspended_until_deadline
             \in {entry.suspended_until_deadline,
                  absolute_deadline + SUSPENSION_DEADLINES}
  BY DEF record_outcome, TooMany, Until, WorkerEntry

\* A worker that is drawn is marked with the deadline, whatever the outcome.
LEMMA OutcomeMark ==
    ASSUME NEW entry \in WorkerEntry, NEW delivered, absolute_deadline \in Int
    PROVE  record_outcome([entry EXCEPT
                             !.last_assigned_deadline = absolute_deadline],
                          delivered).last_assigned_deadline = absolute_deadline
  BY DEF record_outcome, TooMany, Until, WorkerEntry

\* The deadline is an integer, and the loop never goes back (Advance).
LEMMA DeadlinesGoUp ==
    ASSUME TypeOK, NEW gapNow \in BOOLEAN, Advance(gapNow)
    PROVE  /\ absolute_deadline \in Int
           /\ absolute_deadline' \in Int
           /\ absolute_deadline <= absolute_deadline'
<1> DEFINE start == epoch * DEADLINE_STRIDE
<1>1. epoch \in Nat /\ deadlineIdx \in Nat /\ deadlineIdx < DEADLINES_PER_EPOCH
  BY LotteryAssumption DEF TypeOK
<1>2. start \in Nat /\ (epoch + 1) * DEADLINE_STRIDE = start + DEADLINE_STRIDE
  BY <1>1, LotteryAssumption
<1>3. epoch' = epoch \/ (epoch' = epoch + 1 /\ deadlineIdx' = 0)
  BY DEF Advance
<1>4. epoch' = epoch => deadlineIdx' \in {deadlineIdx, deadlineIdx + 1}
  BY <1>1 DEF Advance
<1> HIDE DEF start
<1>5. absolute_deadline = start + deadlineIdx
  BY DEF absolute_deadline, start
<1>6. CASE epoch' = epoch
  <2>1. absolute_deadline' = start + deadlineIdx'
    BY <1>6 DEF absolute_deadline, start
  <2> QED
    BY <2>1, <1>1, <1>2, <1>4, <1>5, <1>6
<1>7. CASE epoch' = epoch + 1 /\ deadlineIdx' = 0
  <2>1. absolute_deadline' = start + DEADLINE_STRIDE
    BY <1>7, <1>2, LotteryAssumption DEF absolute_deadline
  <2> QED
    BY <2>1, <1>1, <1>2, <1>5, LotteryAssumption
<1> QED
  BY <1>3, <1>6, <1>7

\* When a deadline's last shard is served, a higher deadline follows (Advance).
LEMMA DeadlinesMoveOn ==
    ASSUME TypeOK, NEW gapNow \in BOOLEAN, Advance(gapNow)
    PROVE  \/ absolute_deadline' = absolute_deadline /\ shard' = shard + 1
           \/ /\ absolute_deadline' > absolute_deadline
              /\ shard' = 0 /\ shard + 1 = N_SHARDS
<1>1. CASE UNCHANGED <<epoch, deadlineIdx>> /\ shard' = shard + 1
  BY <1>1 DEF absolute_deadline
<1>2. CASE /\ shard' = 0 /\ shard + 1 = N_SHARDS
           /\ deadlineIdx' = deadlineIdx + 1 /\ UNCHANGED epoch
  <2> DEFINE start == epoch * DEADLINE_STRIDE
  <2>1. start \in Nat /\ deadlineIdx \in Nat
    BY LotteryAssumption DEF TypeOK
  <2>2. absolute_deadline = start + deadlineIdx
    BY DEF absolute_deadline
  <2>3. absolute_deadline' = start + deadlineIdx + 1
    BY <1>2, <2>1 DEF absolute_deadline
  <2> HIDE DEF start
  <2> QED
    BY <1>2, <2>1, <2>2, <2>3
<1>3. CASE /\ shard' = 0 /\ shard + 1 = N_SHARDS
           /\ deadlineIdx' = 0 /\ epoch' = epoch + 1
  <2> DEFINE start == epoch * DEADLINE_STRIDE
  <2>1. /\ start \in Nat /\ deadlineIdx \in Nat
        /\ deadlineIdx < DEADLINES_PER_EPOCH
        /\ (epoch + 1) * DEADLINE_STRIDE = start + DEADLINE_STRIDE
    BY LotteryAssumption DEF TypeOK
  <2>2. absolute_deadline = start + deadlineIdx
    BY DEF absolute_deadline
  <2>3. absolute_deadline' = start + DEADLINE_STRIDE
    BY <1>3, <2>1, LotteryAssumption DEF absolute_deadline
  <2> HIDE DEF start
  <2> QED
    BY <1>3, <2>1, <2>2, <2>3, LotteryAssumption
<1> QED
  BY <1>1, <1>2, <1>3 DEF Advance

\* Workers that are drawn are of the pool.
LEMMA DrawsAreOfThePool ==
    ASSUME NEW chosen \in Draws
    PROVE  chosen \subseteq Workers
  BY DEF Draws, kSubset, Eligible, UnderCap, Free, Rested, Live, Alive, OrElse

-----------------------------------------------------------------------------
(***************************************************************************)
(* Type correctness, and that no suspension goes on for ever.               *)
(***************************************************************************)
LotteryInv == TypeOK /\ SuspensionIsFinite

LEMMA InitLottery == Init => LotteryInv
<1> SUFFICES ASSUME Init PROVE LotteryInv
  OBVIOUS
<1>1. TypeOK
  <2>1. NEVER \in Int
    BY SMT DEF NEVER
  <2>2. NewEntry \in WorkerEntry /\ NewEntry.consecutive_misses = 0
    BY <2>1 DEF NewEntry, WorkerEntry
  <2>3. NoDraw.chosen = {}
    BY DEF NoDraw
  <2>4. pool \in [Workers -> WorkerEntry]
    BY <2>2 DEF Init
  <2>5. \A w \in Workers : pool[w].consecutive_misses < MISS_THRESHOLD
    BY <2>2, LotteryAssumption DEF Init
  <2>6. epoch \in 1..(MAX_EPOCH + 1) /\ deadlineIdx \in 0..(DEADLINES_PER_EPOCH - 1)
    BY LotteryAssumption DEF Init
  <2>7. shard \in 0..(N_SHARDS - 1)
    BY LotteryAssumption DEF Init
  <2>8. gap \in BOOLEAN
    BY DEF Init
  <2>9. draw.chosen \in SUBSET Workers
    BY <2>3 DEF Init
  <2>10. assigned \in [Workers -> Nat] /\ called \in [Workers -> Int]
    BY <2>1 DEF Init
  <2> QED
    BY <2>4, <2>5, <2>6, <2>7, <2>8, <2>9, <2>10 DEF TypeOK
<1>2. absolute_deadline \in Nat
  BY LotteryAssumption DEF Init, absolute_deadline
<1>3. SuspensionIsFinite
  BY <1>2, LotteryAssumption DEF Init, SuspensionIsFinite, NewEntry
<1> QED
  BY <1>1, <1>3 DEF LotteryInv

\* One turn of run_deadline's loop.
LEMMA ServeCellKeeps ==
    ASSUME LotteryInv, epoch <= MAX_EPOCH,
           NEW chosen \in Draws, NEW delivering \in SUBSET chosen,
           ServeCell(chosen, delivering)
    PROVE  LotteryInv'
<1> DEFINE gapNow == gap \/ delivering = {}
<1> DEFINE marked(w) == [pool[w] EXCEPT !.last_assigned_deadline = absolute_deadline]
<1>1. gapNow \in BOOLEAN /\ Advance(gapNow)
  BY DEF LotteryInv, TypeOK, ServeCell
<1>2. /\ absolute_deadline \in Int /\ absolute_deadline' \in Int
      /\ absolute_deadline <= absolute_deadline'
  BY <1>1, DeadlinesGoUp DEF LotteryInv
<1>3. chosen \subseteq Workers
  BY DrawsAreOfThePool
<1>4. ASSUME NEW w \in Workers
      PROVE  /\ marked(w) \in WorkerEntry
             /\ marked(w).consecutive_misses = pool[w].consecutive_misses
             /\ marked(w).suspended_until_deadline = pool[w].suspended_until_deadline
  BY <1>2 DEF LotteryInv, TypeOK, WorkerEntry
<1>5. ASSUME NEW w \in Workers
      PROVE  \/ pool'[w] = pool[w]
             \/ \E delivered \in BOOLEAN :
                   pool'[w] = record_outcome(marked(w), delivered)
  <2>1. CASE w \in chosen
    <3> DEFINE delivered == w \in delivering
    <3>1. pool'[w] = record_outcome(marked(w), delivered)
      BY <2>1 DEF ServeCell, AfterCell
    <3>2. delivered \in BOOLEAN
      OBVIOUS
    <3> HIDE DEF delivered, marked
    <3> QED
      BY <3>1, <3>2
  <2>2. CASE w \notin chosen
    BY <2>2 DEF ServeCell, AfterCell
  <2> QED
    BY <2>1, <2>2
<1>6. pool' = [w \in Workers |-> pool'[w]]
  BY DEF ServeCell, AfterCell
<1> HIDE DEF marked, gapNow
<1>7. ASSUME NEW w \in Workers
      PROVE  /\ pool'[w] \in WorkerEntry
             /\ pool'[w].consecutive_misses < MISS_THRESHOLD
             /\ pool'[w].suspended_until_deadline
                  \in {pool[w].suspended_until_deadline,
                       absolute_deadline + SUSPENSION_DEADLINES}
  <2>1. /\ pool[w] \in WorkerEntry
        /\ pool[w].consecutive_misses < MISS_THRESHOLD
    BY DEF LotteryInv, TypeOK
  <2>2. CASE pool'[w] = pool[w]
    BY <2>1, <2>2
  <2>3. CASE \E delivered \in BOOLEAN :
                pool'[w] = record_outcome(marked(w), delivered)
    BY <2>1, <2>3, <1>2, <1>4, OutcomeType, OutcomeSuspension
  <2> QED
    BY <1>5, <2>2, <2>3
<1>8. TypeOK'
  <2>1. pool' \in [Workers -> WorkerEntry]
    BY <1>6, <1>7
  <2>2. epoch' \in 1..(MAX_EPOCH + 1) /\ deadlineIdx' \in 0..(DEADLINES_PER_EPOCH - 1)
    BY <1>1, LotteryAssumption DEF LotteryInv, TypeOK, Advance, EpochEnds
  <2>3. shard' \in 0..(N_SHARDS - 1)
    BY <1>1, LotteryAssumption DEF LotteryInv, TypeOK, Advance
  <2>4. assigned' \in [Workers -> Nat] /\ called' \in [Workers -> Int]
    BY <1>2 DEF LotteryInv, TypeOK, ServeCell
  <2>5. draw'.chosen \in SUBSET Workers
    BY <1>3 DEF ServeCell
  <2>6. gap' \in BOOLEAN
    BY <1>1, Zenon DEF Advance
  <2> QED
    BY <1>7, <2>1, <2>2, <2>3, <2>4, <2>5, <2>6 DEF TypeOK
<1>9. SuspensionIsFinite'
  <2> SUFFICES ASSUME NEW w \in Workers
               PROVE  pool'[w].suspended_until_deadline
                        <= absolute_deadline' + SUSPENSION_DEADLINES
    BY DEF SuspensionIsFinite
  <2>1. /\ pool[w].suspended_until_deadline \in Int
        /\ pool[w].suspended_until_deadline <= absolute_deadline + SUSPENSION_DEADLINES
    BY DEF LotteryInv, TypeOK, WorkerEntry, SuspensionIsFinite
  <2> QED
    BY <1>2, <1>7, <2>1, LotteryAssumption
<1> QED
  BY <1>8, <1>9 DEF LotteryInv

LEMMA LotteryInvariant == Spec => []LotteryInv
<1>1. LotteryInv /\ [Next]_vars => LotteryInv'
  <2> SUFFICES ASSUME LotteryInv, [Next]_vars PROVE LotteryInv'
    OBVIOUS
  <2>1. CASE Next
    BY <2>1, ServeCellKeeps DEF Next
  <2>2. CASE UNCHANGED vars
    BY <2>2 DEF LotteryInv, TypeOK, SuspensionIsFinite, absolute_deadline, vars
  <2> QED
    BY <2>1, <2>2
<1> QED
  BY <1>1, InitLottery, PTL DEF Spec

\* The lottery keeps its types: no worker's misses ever reach the threshold
\* without a suspension (record_outcome).
THEOREM LotteryTypeCorrect == Spec => []TypeOK
  BY LotteryInvariant, PTL DEF LotteryInv

\* However often a worker is called and misses while it is suspended, it is back
\* in the pool SUSPENSION_DEADLINES after its last miss (record_outcome, "must be
\* finite").
THEOREM SuspensionsEnd == Spec => []SuspensionIsFinite
  BY LotteryInvariant, PTL DEF LotteryInv

-----------------------------------------------------------------------------
(***************************************************************************)
(* The rotation.  After the marks of a deadline's shards, at most r workers *)
(* per cell served since deadline a have been drawn since a.  The numbers   *)
(* of deadlines may jump (at the end of an epoch), which only loosens it.   *)
(***************************************************************************)
DrawnSince(a) == {w \in Workers : pool[w].last_assigned_deadline >= a}

RotationInv ==
    /\ \A w \in Workers : pool[w].last_assigned_deadline <= absolute_deadline
    /\ \A a \in Int : NEVER < a /\ a <= absolute_deadline =>
          Cardinality(DrawnSince(a))
            <= WORKER_REDUNDANCY_R * (N_SHARDS * (absolute_deadline - a) + shard)

\* At most r workers are drawn for a cell (worker_lottery).
LEMMA DrawsAtMostR ==
    ASSUME NEW chosen \in Draws
    PROVE  IsFiniteSet(chosen) /\ Cardinality(chosen) <= WORKER_REDUNDANCY_R
<1> DEFINE n == Cardinality(Eligible)
<1>1. chosen \subseteq Workers /\ Eligible \subseteq Workers
  BY DrawsAreOfThePool
     DEF Eligible, UnderCap, Free, Rested, Live, Alive, OrElse
<1>2. IsFiniteSet(chosen) /\ n \in Nat
  BY <1>1, FS_Subset, FS_CardinalityType, LotteryAssumption
<1>3. Cardinality(chosen) = Min({WORKER_REDUNDANCY_R, n})
  BY DEF Draws, kSubset
<1> HIDE DEF n
<1>4. Min({WORKER_REDUNDANCY_R, n}) <= WORKER_REDUNDANCY_R
  <2>1. WORKER_REDUNDANCY_R \in Nat
    BY LotteryAssumption
  <2>2. \E x \in {WORKER_REDUNDANCY_R, n} : \A y \in {WORKER_REDUNDANCY_R, n} : x =< y
    BY <1>2, <2>1
  <2> QED
    BY <2>2 DEF Min
<1> QED
  BY <1>2, <1>3, <1>4

\* A factor on the left of a product keeps its order.
LEMMA TimesKeepsOrder ==
    ASSUME NEW r \in Nat, NEW x \in Nat, NEW y \in Nat, x <= y
    PROVE  r * x \in Nat /\ r * x <= r * y
<1>1. y = x + (y - x) /\ y - x \in Nat
  OBVIOUS
<1>2. r * (x + (y - x)) = r * x + r * (y - x)
  OBVIOUS
<1>3. r * x \in Nat /\ r * (y - x) \in Nat
  BY <1>1
<1> DEFINE p == r * x
           q == r * (y - x)
           t == r * y
<1>4. t = p + q
  BY <1>1, <1>2
<1> HIDE DEF p, q, t
<1> QED
  BY <1>3, <1>4 DEF p, q, t

\* A number of cells from deadline a to shard s of deadline t, n to a deadline.
LEMMA CellsAreCounted ==
    ASSUME NEW n \in Nat, NEW a \in Int, NEW t \in Int, NEW s \in Nat, a <= t
    PROVE  n * (t - a) + s \in Nat
<1>1. t - a \in Nat
  OBVIOUS
<1>2. n * (t - a) \in Nat
  BY <1>1
<1> QED
  BY <1>2

\* The next shard, or the first of a later deadline, is at least a cell further.
LEMMA CellsMoveOn ==
    ASSUME NEW n \in Nat, NEW a \in Int, NEW t \in Int, NEW u \in Int,
           NEW s \in Nat, NEW v, a <= t,
           \/ u = t /\ v = s + 1
           \/ u > t /\ v = 0 /\ s + 1 = n
    PROVE  /\ n * (t - a) + s \in Nat
           /\ n * (u - a) + v \in Nat
           /\ (n * (t - a) + s) + 1 <= n * (u - a) + v
<1>1. n * (t - a) + s \in Nat
  BY CellsAreCounted
<1>2. CASE u = t /\ v = s + 1
  <2> DEFINE x == n * (t - a)
  <2>1. x \in Nat
    BY CellsAreCounted
  <2> HIDE DEF x
  <2>2. x + s \in Nat /\ x + (s + 1) \in Nat /\ (x + s) + 1 <= x + (s + 1)
    BY <2>1
  <2> QED
    BY <1>2, <2>2 DEF x
<1>3. CASE u > t /\ v = 0 /\ s + 1 = n
  <2>1. u - a \in Nat /\ t - a \in Nat /\ t - a + 1 \in Nat /\ t - a + 1 <= u - a
    BY <1>3
  <2>2. n * (t - a + 1) <= n * (u - a)
    BY <2>1, TimesKeepsOrder
  <2>3. n * (t - a + 1) = n * (t - a) + n
    BY <2>1
  <2>4. n * (t - a) \in Nat /\ n * (t - a + 1) \in Nat /\ n * (u - a) \in Nat
    BY <2>1
  <2> DEFINE x == n * (t - a)
             y == n * (t - a + 1)
             z == n * (u - a)
  <2> HIDE DEF x, y, z
  <2>5. x \in Nat /\ z \in Nat /\ x + n <= z
    BY <2>2, <2>3, <2>4 DEF x, y, z
  <2>6. z + v \in Nat /\ (x + s) + 1 <= z + v
    BY <1>3, <2>5
  <2> QED
    BY <1>1, <2>6 DEF x, z
<1> QED
  BY <1>1, <1>2, <1>3

LEMMA InitRotation == Init => RotationInv
<1> SUFFICES ASSUME Init PROVE RotationInv
  OBVIOUS
<1>1. absolute_deadline \in Nat /\ shard = 0
  BY LotteryAssumption DEF Init, absolute_deadline
<1>2. NEVER \in Int /\ NEVER < 0
  BY LotteryAssumption, SMT DEF NEVER
<1>3. \A w \in Workers : pool[w].last_assigned_deadline = NEVER
  BY DEF Init, NewEntry
<1>4. ASSUME NEW a \in Int, NEVER < a, a <= absolute_deadline
      PROVE  Cardinality(DrawnSince(a))
               <= WORKER_REDUNDANCY_R * (N_SHARDS * (absolute_deadline - a) + shard)
  <2>1. DrawnSince(a) = {}
    BY <1>2, <1>3, <1>4 DEF DrawnSince
  <2>2. absolute_deadline - a \in Nat
    BY <1>1, <1>4
  <2>3. N_SHARDS * (absolute_deadline - a) \in Nat
    BY <2>2, LotteryAssumption
  <2>4. WORKER_REDUNDANCY_R * (N_SHARDS * (absolute_deadline - a) + shard) \in Nat
    BY <1>1, <2>3, LotteryAssumption
  <2> QED
    BY <2>1, <2>4, FS_EmptySet
<1> QED
  BY <1>1, <1>2, <1>3, <1>4 DEF RotationInv

\* One turn of the loop adds at most r workers, and a cell.
LEMMA ServeCellKeepsRotation ==
    ASSUME LotteryInv, RotationInv,
           NEW chosen \in Draws, NEW delivering \in SUBSET chosen,
           ServeCell(chosen, delivering)
    PROVE  RotationInv'
<1> DEFINE gapNow == gap \/ delivering = {}
           r == WORKER_REDUNDANCY_R
<1>1. gapNow \in BOOLEAN /\ Advance(gapNow)
  BY DEF LotteryInv, TypeOK, ServeCell
<1>2. absolute_deadline \in Int /\ absolute_deadline' \in Int /\ absolute_deadline <= absolute_deadline'
  BY <1>1, DeadlinesGoUp DEF LotteryInv
<1>3. \/ absolute_deadline' = absolute_deadline /\ shard' = shard + 1
      \/ absolute_deadline' > absolute_deadline /\ shard' = 0 /\ shard + 1 = N_SHARDS
  BY <1>1, DeadlinesMoveOn DEF LotteryInv
<1>4. /\ r \in Nat /\ N_SHARDS \in Nat /\ shard \in Nat
      /\ NEVER \in Int
  <2>1. NEVER \in Int
    BY SMT DEF NEVER
  <2> QED
    BY <2>1, LotteryAssumption DEF LotteryInv, TypeOK
<1>5. ASSUME NEW w \in Workers
      PROVE  /\ pool[w].last_assigned_deadline \in Int
             /\ pool[w].last_assigned_deadline <= absolute_deadline
             /\ pool'[w].last_assigned_deadline
                  = IF w \in chosen THEN absolute_deadline ELSE pool[w].last_assigned_deadline
  <2>1. pool[w] \in WorkerEntry /\ pool[w].last_assigned_deadline \in Int
    BY DEF LotteryInv, TypeOK, WorkerEntry
  <2>2. pool[w].last_assigned_deadline <= absolute_deadline
    BY DEF RotationInv
  <2>3. CASE w \in chosen
    BY <1>2, <2>1, <2>2, <2>3, OutcomeMark DEF ServeCell, AfterCell
  <2>4. CASE w \notin chosen
    BY <2>1, <2>2, <2>4 DEF ServeCell, AfterCell
  <2> QED
    BY <2>1, <2>2, <2>3, <2>4
<1> HIDE DEF gapNow, r
<1>6. \A w \in Workers : pool'[w].last_assigned_deadline <= absolute_deadline'
  BY <1>2, <1>5
<1>7. ASSUME NEW a \in Int, NEVER < a, a <= absolute_deadline'
      PROVE  Cardinality(DrawnSince(a)') <= r * (N_SHARDS * (absolute_deadline' - a) + shard')
  <2>1. /\ IsFiniteSet(DrawnSince(a)) /\ Cardinality(DrawnSince(a)) \in Nat
        /\ IsFiniteSet(chosen) /\ Cardinality(chosen) \in Nat
        /\ Cardinality(chosen) <= r
    <3>1. IsFiniteSet(DrawnSince(a))
      BY FS_Subset, LotteryAssumption DEF DrawnSince
    <3> QED
      BY <3>1, DrawsAtMostR, FS_CardinalityType DEF r
  <2>2. CASE a <= absolute_deadline
    <3> DEFINE cells == N_SHARDS * (absolute_deadline - a) + shard
               cellsThen == N_SHARDS * (absolute_deadline' - a) + shard'
               before == Cardinality(DrawnSince(a))
               after == Cardinality(DrawnSince(a)')
    <3>1. cells \in Nat
      BY <1>2, <1>3, <1>4, <2>2, CellsMoveOn
    <3>2. cellsThen \in Nat /\ cells + 1 <= cellsThen
      BY <1>2, <1>3, <1>4, <2>2, CellsMoveOn
    <3> HIDE DEF cells, cellsThen
    <3>3. before <= r * cells
      BY <2>2, <1>4, <1>7 DEF RotationInv, cells, r
    <3>4. DrawnSince(a)' \subseteq DrawnSince(a) \cup chosen
      BY <1>5 DEF DrawnSince
    <3>5. after <= before + Cardinality(chosen)
      <4>1. /\ IsFiniteSet(DrawnSince(a) \cup chosen)
            /\ Cardinality(DrawnSince(a) \cup chosen) <= before + Cardinality(chosen)
        <5>1. /\ IsFiniteSet(DrawnSince(a) \cup chosen)
              /\ Cardinality(DrawnSince(a) \cup chosen)
                   = before + Cardinality(chosen)
                       - Cardinality(DrawnSince(a) \cap chosen)
          BY <2>1, FS_Union
        <5>2. Cardinality(DrawnSince(a) \cap chosen) \in Nat
          BY <2>1, FS_Intersection, FS_CardinalityType
        <5> QED
          BY <2>1, <5>1, <5>2
      <4>2. /\ after <= Cardinality(DrawnSince(a) \cup chosen)
            /\ after \in Nat /\ Cardinality(DrawnSince(a) \cup chosen) \in Nat
        BY <3>4, <4>1, FS_Subset, FS_CardinalityType
      <4> QED
        BY <2>1, <4>1, <4>2
    <3>6. after \in Nat
      BY <2>1, <3>4, FS_Union, FS_Subset, FS_CardinalityType
    <3>7. r * (cells + 1) <= r * cellsThen /\ r * (cells + 1) = r * cells + r
      <4>1. r * (cells + 1) <= r * cellsThen
        BY <1>4, <3>1, <3>2, TimesKeepsOrder
      <4>2. r * (cells + 1) = r * cells + r
        BY <1>4, <3>1
      <4> QED
        BY <4>1, <4>2
    <3> DEFINE x == r * cells
               y == r * (cells + 1)
               z == r * cellsThen
    <3>8. x \in Nat /\ y \in Nat /\ z \in Nat
      BY <1>4, <3>1, <3>2
    <3> HIDE DEF before, after, x, y, z
    <3>9. before \in Nat
      BY <2>1 DEF before
    <3>10. after <= z
      <4>1. before <= x /\ y <= z /\ y = x + r
        BY <3>3, <3>7 DEF x, y, z
      <4> QED
        BY <2>1, <3>5, <3>6, <3>8, <3>9, <1>4, <4>1
    <3> QED
      BY <3>10 DEF after, z, cellsThen
  <2>3. CASE a > absolute_deadline
    <3>1. DrawnSince(a)' = {}
      BY <1>2, <1>5, <2>3 DEF DrawnSince
    <3>2. shard' \in Nat
      BY <1>3, <1>4
    <3>3. N_SHARDS * (absolute_deadline' - a) + shard' \in Nat
      BY <1>2, <1>4, <1>7, <3>2, CellsAreCounted
    <3>4. r * (N_SHARDS * (absolute_deadline' - a) + shard') \in Nat
      BY <1>4, <3>3, TimesKeepsOrder
    <3> QED
      BY <3>1, <3>4, FS_EmptySet
  <2> QED
    BY <1>2, <2>2, <2>3
<1> QED
  BY <1>6, <1>7 DEF RotationInv, r

LEMMA RotationInvariant == Spec => []RotationInv
<1>1. LotteryInv /\ RotationInv /\ [Next]_vars => RotationInv'
  <2> SUFFICES ASSUME LotteryInv, RotationInv, [Next]_vars PROVE RotationInv'
    OBVIOUS
  <2>1. CASE Next
    BY <2>1, ServeCellKeepsRotation DEF Next
  <2>2. CASE UNCHANGED vars
    BY <2>2 DEF RotationInv, DrawnSince, absolute_deadline, vars
  <2> QED
    BY <2>1, <2>2
<1> QED
  BY <1>1, InitRotation, LotteryInvariant, PTL DEF Spec

\* As long as required_workers workers are live, a draw finds r of them at rest.
LEMMA EnoughAtRest ==
    ASSUME LotteryInv, RotationInv, Cardinality(Alive) >= required_workers
    PROVE  Enough(Rested)
<1> DEFINE r == WORKER_REDUNDANCY_R
           now == absolute_deadline
           busy == DrawnSince(now - COOLDOWN)
<1>1. /\ r \in Nat /\ N_SHARDS \in Nat /\ COOLDOWN \in Nat
      /\ shard \in Nat /\ shard + 1 <= N_SHARDS /\ NEVER \in Int
  <2>1. NEVER \in Int
    BY SMT DEF NEVER
  <2> QED
    BY <2>1, LotteryAssumption DEF LotteryInv, TypeOK
<1>2. now \in Nat
  <2>1. epoch \in Nat /\ deadlineIdx \in Nat /\ DEADLINE_STRIDE \in Nat
    BY LotteryAssumption DEF LotteryInv, TypeOK
  <2>2. epoch * DEADLINE_STRIDE \in Nat
    BY <2>1
  <2> QED
    BY <2>1, <2>2 DEF absolute_deadline
<1>3. /\ IsFiniteSet(Alive) /\ IsFiniteSet(busy)
      /\ Cardinality(Alive) \in Nat /\ Cardinality(busy) \in Nat
  <2>1. IsFiniteSet(Alive) /\ IsFiniteSet(busy)
    BY FS_Subset, LotteryAssumption DEF Alive, DrawnSince
  <2> QED
    BY <2>1, FS_CardinalityType
<1> HIDE DEF now, r
<1>4. Cardinality(busy) <= r * (N_SHARDS * COOLDOWN + shard)
  <2>1. NEVER < now - COOLDOWN /\ now - COOLDOWN \in Int /\ now - COOLDOWN <= now
    BY <1>1, <1>2, LotteryAssumption
  <2>2. Cardinality(busy) <= r * (N_SHARDS * (now - (now - COOLDOWN)) + shard)
    BY <2>1 DEF RotationInv, now, r
  <2>3. now - (now - COOLDOWN) = COOLDOWN
    BY <1>1, <1>2
  <2> QED
    BY <2>2, <2>3
<1>5. r * (N_SHARDS * COOLDOWN + shard) + r <= required_workers
  <2> DEFINE c == N_SHARDS * COOLDOWN
  <2>1. c \in Nat
    BY <1>1
  <2>2. required_workers = r * (c + N_SHARDS)
    BY <1>1 DEF required_workers, r
  <2> HIDE DEF c
  <2>3. r * (c + shard + 1) <= r * (c + N_SHARDS)
    BY <1>1, <2>1, TimesKeepsOrder
  <2>4. r * (c + shard + 1) = r * (c + shard) + r
    BY <1>1, <2>1
  <2> QED
    BY <2>2, <2>3, <2>4 DEF c
<1>6. r <= required_workers /\ required_workers \in Nat
  <2> DEFINE x == N_SHARDS * COOLDOWN
             y == r * (x + shard)
  <2>1. x \in Nat
    BY <1>1
  <2>2. y \in Nat
    <3> HIDE DEF x
    <3> QED
      BY <2>1, <1>1
  <2>3. required_workers \in Nat
    BY <1>1 DEF required_workers, r
  <2> HIDE DEF y
  <2>4. y + r <= required_workers
    BY <1>5 DEF y
  <2> QED
    BY <2>2, <2>3, <2>4, <1>1
<1>7. Alive \ busy \subseteq Rested
  <2>1. Enough(Alive)
    BY <1>3, <1>6, <1>1 DEF Enough, r
  <2>2. Live = Alive
    BY <2>1 DEF Live, OrElse
  <2>3. ASSUME NEW w \in Alive \ busy PROVE is_free(w)
    <3>1. w \in Workers /\ pool[w].last_assigned_deadline \in Int
      BY DEF Alive, LotteryInv, TypeOK, WorkerEntry
    <3>2. ~(pool[w].last_assigned_deadline >= now - COOLDOWN)
      BY <3>1, <2>3 DEF DrawnSince
    <3>3. now >= pool[w].last_assigned_deadline + COOLDOWN + 1
      BY <3>1, <3>2, <1>1, <1>2
    <3> QED
      BY <3>3 DEF is_free, now
  <2> QED
    BY <2>2, <2>3 DEF Rested
<1>8. Cardinality(Alive \ busy) >= r
  <2>1. /\ Cardinality(Alive \ busy)
             = Cardinality(Alive) - Cardinality(Alive \cap busy)
        /\ IsFiniteSet(Alive \ busy)
    BY <1>3, FS_Difference
  <2>2. /\ Cardinality(Alive \cap busy) <= Cardinality(busy)
        /\ Cardinality(Alive \cap busy) \in Nat
    BY <1>3, FS_Intersection, FS_CardinalityType
  <2> DEFINE y == r * (N_SHARDS * COOLDOWN + shard)
  <2>3. y + r <= required_workers /\ Cardinality(busy) <= y /\ y \in Nat
    <3>1. N_SHARDS * COOLDOWN \in Nat
      BY <1>1
    <3>2. y \in Nat
      BY <3>1, <1>1
    <3> QED
      BY <3>2, <1>4, <1>5
  <2> HIDE DEF y, busy
  <2> QED
    BY <2>1, <2>2, <2>3, <1>1, <1>3, <1>6
<1>9. Cardinality(Alive \ busy) <= Cardinality(Rested) /\ Cardinality(Rested) \in Nat
  <2>1. IsFiniteSet(Rested)
    BY FS_Subset, LotteryAssumption DEF Rested, Live, Alive, OrElse
  <2> QED
    BY <2>1, <1>7, FS_Subset, FS_CardinalityType
<1> QED
  <2>1. Cardinality(Alive \ busy) \in Nat
    BY <1>3, FS_Difference, FS_CardinalityType
  <2> HIDE DEF busy
  <2> QED
    BY <1>1, <1>8, <1>9, <2>1 DEF Enough, r

\* required_workers is enough, for any number of shards and any cooldown: while
\* that many workers are live, no draw falls back on workers still proving.
THEOREM RotationHolds == Spec => RotationNeverJams
<1> DEFINE A == Cardinality(Alive) >= required_workers => ~draw'.relaxedCooldown
<1>1. LotteryInv /\ RotationInv /\ Next => A
  <2> SUFFICES ASSUME LotteryInv, RotationInv, Next,
                      Cardinality(Alive) >= required_workers
               PROVE  ~draw'.relaxedCooldown
    OBVIOUS
  <2>1. Enough(Rested)
    BY EnoughAtRest
  <2>2. draw'.relaxedCooldown = ~Enough(Rested)
    BY DEF Next, ServeCell
  <2> QED
    BY <2>1, <2>2
<1>2. LotteryInv /\ RotationInv /\ [Next]_vars => [A]_vars
  BY <1>1
<1> QED
  BY <1>2, LotteryInvariant, RotationInvariant, PTL DEF Spec, RotationNeverJams

\* The pool's marks are the calls that were made (run_deadline).
CallsAreMarked == \A w \in Workers : called[w] = pool[w].last_assigned_deadline

\* Whoever is called is marked with the deadline, whatever comes of the call.
LEMMA CallsInvariant == Spec => []CallsAreMarked
<1>1. Init => CallsAreMarked
  BY DEF Init, CallsAreMarked, NewEntry
<1>2. LotteryInv /\ CallsAreMarked /\ [Next]_vars => CallsAreMarked'
  <2> SUFFICES ASSUME LotteryInv, CallsAreMarked, [Next]_vars, NEW w \in Workers
               PROVE  called'[w] = pool'[w].last_assigned_deadline
    BY DEF CallsAreMarked
  <2>1. ASSUME NEW chosen, NEW delivering, ServeCell(chosen, delivering)
        PROVE  called'[w] = pool'[w].last_assigned_deadline
    <3>1. CASE w \in chosen
      <4> DEFINE marked == [pool[w] EXCEPT !.last_assigned_deadline = absolute_deadline]
      <4>1. pool'[w] = record_outcome(marked, w \in delivering)
        BY <2>1, <3>1 DEF ServeCell, AfterCell
      <4>2. called'[w] = absolute_deadline
        BY <2>1, <3>1 DEF ServeCell
      <4>3. pool[w] \in WorkerEntry /\ absolute_deadline \in Int
        BY LotteryAssumption DEF LotteryInv, TypeOK, absolute_deadline
      <4>4. record_outcome(marked, w \in delivering).last_assigned_deadline
                = absolute_deadline
        BY <4>3, OutcomeMark
      <4> QED  BY <4>1, <4>2, <4>4
    <3>2. CASE w \notin chosen
      BY <2>1, <3>2 DEF ServeCell, AfterCell, CallsAreMarked
    <3> QED  BY <3>1, <3>2
  <2>2. CASE UNCHANGED vars
    BY <2>2 DEF CallsAreMarked, vars
  <2> QED  BY <2>1, <2>2 DEF Next
<1> QED  BY <1>1, <1>2, LotteryInvariant, PTL DEF Spec

\* No worker is called while it still proves, for any pool and any cooldown, unless
\* the pool is too small (worker_lottery, run_deadline).
THEOREM WorkersRest == Spec => BusyWorkersRest
<1> DEFINE A == ~draw'.relaxedCooldown =>
                   \A w \in draw'.chosen : absolute_deadline - called[w] > COOLDOWN
<1>1. LotteryInv /\ CallsAreMarked /\ Next => A
  <2> SUFFICES ASSUME LotteryInv, CallsAreMarked,
                      NEW chosen \in Draws, NEW delivering \in SUBSET chosen,
                      ServeCell(chosen, delivering), ~draw'.relaxedCooldown,
                      NEW w \in draw'.chosen
               PROVE  absolute_deadline - called[w] > COOLDOWN
    BY DEF Next
  <2>1. w \in chosen /\ Enough(Rested)
    BY DEF ServeCell
  <2>2. chosen \subseteq Eligible
    BY DEF Draws, kSubset
  <2>3. Eligible \subseteq Rested
    BY <2>1 DEF Eligible, UnderCap, Free, OrElse
  <2>4. w \in Workers /\ is_free(w)
    BY <2>1, <2>2, <2>3, DrawsAreOfThePool DEF Rested
  <2>5. called[w] = pool[w].last_assigned_deadline /\ called[w] \in Int
        /\ absolute_deadline \in Int /\ COOLDOWN \in Nat
    BY <2>4, LotteryAssumption DEF CallsAreMarked, LotteryInv, TypeOK, absolute_deadline
  <2> QED  BY <2>4, <2>5 DEF is_free
<1>2. LotteryInv /\ CallsAreMarked /\ [Next]_vars => [A]_vars
  BY <1>1
<1> QED
  BY <1>2, LotteryInvariant, CallsInvariant, PTL DEF Spec, BusyWorkersRest
=============================================================================
