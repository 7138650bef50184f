---------------------------- MODULE WorkerLottery ----------------------------
(***************************************************************************)
(* The lottery that gives each cell (deadline, shard) its r workers, the    *)
(* record of who delivered, and the loop over epochs, deadlines and shards  *)
(* that drives both (worker/lottery.py, orchestrator/scenarios.py).         *)
(*                                                                         *)
(* Three filters narrow the pool, each given up when fewer than r workers   *)
(* are left: suspended workers, workers resting after a cell, and workers   *)
(* that already hold their share.  All stakes are positive, and the beacon  *)
(* is a hash, so any r of the eligible workers may be drawn.                *)
(***************************************************************************)
EXTENDS Integers, FiniteSets, FiniteSetsExt

CONSTANTS
    Workers,                      \* the pool
    WORKER_REDUNDANCY_R,          \* workers drawn for each cell
    COOLDOWN,                     \* deadlines a worker rests after a cell
    MISS_THRESHOLD, SUSPENSION_DEADLINES,
    CAP_FLOOR_NUM, CAP_FLOOR_DEN, \* WORKER_SLOT_CAP_RATIO as a fraction
    N_SHARDS, DEADLINES_PER_EPOCH,
    DEADLINE_STRIDE,              \* 1_000_000 in Slot.absolute_deadline
    MAX_EPOCH                     \* bound: epochs that are run

VARIABLES
    pool,       \* worker -> WorkerEntry
    assigned,   \* the assigned_count the loop passes to every draw
    epoch, deadlineIdx, shard,    \* the cell the loop is about to serve
    gap,        \* a cell of this deadline got no ChildProof
    draw,       \* what the last call did (LotteryStats, for this call alone)
    called      \* history: the deadline each worker was last called for

vars == <<pool, assigned, epoch, deadlineIdx, shard, gap, draw, called>>

NEVER == -1000000000

\* A worker never drawn is free from the start.
ASSUME LotteryAssumption ==
    /\ IsFiniteSet(Workers)
    /\ {WORKER_REDUNDANCY_R, MISS_THRESHOLD, CAP_FLOOR_DEN, N_SHARDS,
        DEADLINES_PER_EPOCH} \subseteq Nat \ {0}
    /\ {COOLDOWN, SUSPENSION_DEADLINES, CAP_FLOOR_NUM, MAX_EPOCH} \subseteq Nat
    /\ DEADLINE_STRIDE \in Nat
    /\ DEADLINES_PER_EPOCH <= DEADLINE_STRIDE
    /\ NEVER + COOLDOWN < 0

-----------------------------------------------------------------------------
WorkerEntry == [last_assigned_deadline: Int, consecutive_misses: Nat,
                suspended_until_deadline: Int]

NewEntry == [last_assigned_deadline |-> NEVER, consecutive_misses |-> 0,
             suspended_until_deadline |-> -1]

\* The number blobs and lotteries know a deadline by.
absolute_deadline == epoch * DEADLINE_STRIDE + deadlineIdx

is_live(w) == absolute_deadline >= pool[w].suspended_until_deadline

\* Seeded fault: a worker that is free one deadline late.
is_free_OneLate(w) ==
    absolute_deadline >= pool[w].last_assigned_deadline + COOLDOWN + 2

is_free(w) ==
    absolute_deadline >= pool[w].last_assigned_deadline + COOLDOWN + 1

total_cells == DEADLINES_PER_EPOCH * N_SHARDS

\* max(1, int(total_cells * max(floor_ratio, r / n_workers)))
cap == Max({1, (total_cells * CAP_FLOOR_NUM) \div CAP_FLOOR_DEN,
            (total_cells * WORKER_REDUNDANCY_R) \div Cardinality(Workers)})

required_workers == N_SHARDS * WORKER_REDUNDANCY_R * (COOLDOWN + 1)

-----------------------------------------------------------------------------
(***************************************************************************)
(* The three filters.                                                       *)
(***************************************************************************)
Enough(S) == Cardinality(S) >= WORKER_REDUNDANCY_R
OrElse(S, all) == IF Enough(S) THEN S ELSE all

Alive == {w \in Workers : is_live(w)}
Live == OrElse(Alive, Workers)
Rested == {w \in Live : is_free(w)}
Free == OrElse(Rested, Live)
UnderCap == {w \in Free : assigned[w] < cap}
Eligible == OrElse(UnderCap, Free)

\* The draw without replacement, over the outcomes of the hash.
Draws == kSubset(Min({WORKER_REDUNDANCY_R, Cardinality(Eligible)}), Eligible)

-----------------------------------------------------------------------------
\* Seeded faults: suspended one miss too late; a suspension added to the last.
TooMany_Late(misses) == misses > MISS_THRESHOLD
TooMany(misses) == misses >= MISS_THRESHOLD

Until_Accumulates(entry) ==
    Max({entry.suspended_until_deadline, absolute_deadline}) + SUSPENSION_DEADLINES
Until(entry) == absolute_deadline + SUSPENSION_DEADLINES

record_outcome(entry, delivered) ==
    LET misses == entry.consecutive_misses + 1
    IN  IF delivered THEN [entry EXCEPT !.consecutive_misses = 0]
        ELSE IF TooMany(misses) THEN
                [entry EXCEPT !.suspended_until_deadline = Until(entry),
                              !.consecutive_misses = 0]
        ELSE    [entry EXCEPT !.consecutive_misses = misses]

\* Seeded fault: the chosen are not marked before the next cell is drawn.
AfterCell_Unmarked(chosen, delivering) == [w \in Workers |->
    IF w \in chosen THEN record_outcome(pool[w], w \in delivering) ELSE pool[w]]

\* The chosen workers are marked at once, and each then delivers or does not.
AfterCell(chosen, delivering) == [w \in Workers |->
    IF w \in chosen
    THEN record_outcome([pool[w] EXCEPT
                            !.last_assigned_deadline = absolute_deadline],
                        w \in delivering)
    ELSE pool[w]]

\* A deadline with a cell without ChildProof ends the epoch: fold_deadline
\* raises, run_epoch gives up, and the next epoch begins.
EpochEnds(gapNow) == gapNow \/ deadlineIdx + 1 = DEADLINES_PER_EPOCH

Advance(gapNow) ==
    \/ /\ shard + 1 < N_SHARDS
       /\ shard' = shard + 1
       /\ gap' = gapNow
       /\ UNCHANGED <<epoch, deadlineIdx>>
    \/ /\ shard + 1 = N_SHARDS
       /\ ~EpochEnds(gapNow)
       /\ shard' = 0 /\ gap' = FALSE
       /\ deadlineIdx' = deadlineIdx + 1
       /\ UNCHANGED epoch
    \/ /\ shard + 1 = N_SHARDS
       /\ EpochEnds(gapNow)
       /\ shard' = 0 /\ gap' = FALSE
       /\ deadlineIdx' = 0
       /\ epoch' = epoch + 1

\* One turn of run_deadline's loop: draw the workers of a cell, let them work.
ServeCell(chosen, delivering) ==
    LET gapNow == gap \/ delivering = {}
    IN  /\ pool' = AfterCell(chosen, delivering)
        /\ assigned' = [w \in Workers |->
              IF w \in chosen THEN assigned[w] + 1 ELSE assigned[w]]
        /\ draw' = [chosen |-> chosen,
                    relaxedLive |-> ~Enough(Alive),
                    relaxedCooldown |-> ~Enough(Rested),
                    relaxedCap |-> ~Enough(UnderCap)]
        /\ Advance(gapNow)
        /\ called' = [w \in Workers |->
              IF w \in chosen THEN absolute_deadline ELSE called[w]]

-----------------------------------------------------------------------------
NoDraw == [chosen |-> {}, relaxedLive |-> FALSE, relaxedCooldown |-> FALSE,
           relaxedCap |-> FALSE]

\* Epochs are numbered from 1, as the simulation does.
Init ==
    /\ pool = [w \in Workers |-> NewEntry]
    /\ assigned = [w \in Workers |-> 0]
    /\ epoch = 1 /\ deadlineIdx = 0 /\ shard = 0
    /\ gap = FALSE
    /\ draw = NoDraw
    /\ called = [w \in Workers |-> NEVER]

Next ==
    /\ epoch <= MAX_EPOCH
    /\ \E chosen \in Draws : \E delivering \in SUBSET chosen :
          ServeCell(chosen, delivering)

Spec == Init /\ [][Next]_vars

-----------------------------------------------------------------------------
(***************************************************************************)
(* Properties.                                                              *)
(***************************************************************************)

\* The pool keeps its type; a worker is suspended before its misses pass the
\* threshold.
TypeOK ==
    /\ pool \in [Workers -> WorkerEntry]
    /\ \A w \in Workers : pool[w].consecutive_misses < MISS_THRESHOLD
    /\ assigned \in [Workers -> Nat]
    /\ epoch \in 1..(MAX_EPOCH + 1)
    /\ deadlineIdx \in 0..(DEADLINES_PER_EPOCH - 1)
    /\ shard \in 0..(N_SHARDS - 1)
    /\ gap \in BOOLEAN
    /\ draw.chosen \in SUBSET Workers
    /\ called \in [Workers -> Int]

\* required_workers is enough: as long as that many workers are not suspended,
\* the rotation never has to call back a worker that is still proving.
RotationNeverJams ==
    [][Cardinality(Alive) >= required_workers => ~draw'.relaxedCooldown]_vars

\* A suspension is finite, whatever happens during it (a suspended worker may be
\* called when the pool is short, and miss again): once drawn no more, every
\* worker is back in the pool SUSPENSION_DEADLINES later.
SuspensionIsFinite ==
    \A w \in Workers :
        pool[w].suspended_until_deadline <= absolute_deadline + SUSPENSION_DEADLINES

\* No worker has two proofs to make at once: unless the pool is too small for the
\* rotation, whoever is called was last called more than COOLDOWN deadlines ago,
\* for any shard (cooldown_deadlines; the loop must mark the chosen at once, or
\* the filter silently does nothing).
BusyWorkersRest ==
    [][~draw'.relaxedCooldown =>
          \A w \in draw'.chosen : absolute_deadline - called[w] > COOLDOWN]_vars
=============================================================================
