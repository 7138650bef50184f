------------------------------ MODULE Aggregate ------------------------------
(***************************************************************************)
(* What the aggregator makes of the ChildProofs of an epoch: verdicts are   *)
(* joined by the weight of their evidence, deadlines are folded one by one, *)
(* and the whole is accepted only if every cell answered for its deals      *)
(* (common/verdict.py, aggregator/reconcile.py, aggregator/aggregate.py).   *)
(*                                                                         *)
(* A list of ChildProofs is taken as a set: the join does not depend on     *)
(* order or repetition, and an exception is raised in one order of the list *)
(* exactly when it is raised in every other.                                *)
(***************************************************************************)
EXTENDS Integers, FiniteSets

CONSTANTS N_SHARDS

-----------------------------------------------------------------------------
\* The order of the values is the weight of the evidence.
NONE == 0
ABSENT == 1
FAIL == 2
PASS == 3
Verdict == {NONE, ABSENT, FAIL, PASS}

\* Seeded fault: the weaker evidence stands.
reconcile_WeakerWins(a, b) == IF a <= b THEN a ELSE b

reconcile(a, b) == IF a >= b THEN a ELSE b

\* What joining all verdicts of S in any order yields.
Joined(S) == CHOOSE v \in S : \A u \in S : reconcile(u, v) = v

-----------------------------------------------------------------------------
\* A ShardResult for the cell (deadline, shard): the registry it was built on,
\* how many deals it says the cell has, and a verdict per deal.
Cell(res) == <<res.deadline, res.shard>>
Answered(res) == DOMAIN res.verdicts

covered_cells(results) == {Cell(res) : res \in results}

SameSnapshot(results) ==
    \A a, b \in results : a.snapshot_id = b.snapshot_id

SameCardinality(results) ==
    /\ \A a, b \in results : Cell(a) = Cell(b) => a.expected_count = b.expected_count
    /\ \A a \in results : Cardinality(Answered(a)) = a.expected_count

\* The lists reconcile_shard_results takes without raising.
Reconcilable(results) == SameSnapshot(results) /\ SameCardinality(results)

Keys(results) == UNION {Answered(res) : res \in results}

verdicts(results) == [k \in Keys(results) |->
    Joined({res.verdicts[k] : res \in {r \in results : k \in Answered(r)}})]

\* The sum of cell_expected over the cells, counted as one token per deal.
num_verified(results) == Cardinality(
    UNION {{Cell(res)} \X (1..res.expected_count) : res \in results})

-----------------------------------------------------------------------------
\* fold_deadline: one deadline, one registry, every shard.
CanFold(deadline, snapshot_id, results) ==
    /\ \A res \in results : res.deadline = deadline
    /\ \A res \in results : res.snapshot_id = snapshot_id
    /\ 0..(N_SHARDS - 1) \subseteq {res.shard : res \in results}

Fold(deadline, snapshot_id, results) ==
    [deadline |-> deadline, snapshot_id |-> snapshot_id, shard_results |-> results]

expected_cells(deadlines) == deadlines \X (0..(N_SHARDS - 1))

\* Seeded fault: the last check left out.
CanAggregate_Uncounted(deadlines, snapshot_id, results) ==
    /\ Reconcilable(results)
    /\ covered_cells(results) = expected_cells(deadlines)
    /\ \A res \in results : res.snapshot_id = snapshot_id

\* aggregate_epoch: exactly the cells of the epoch, the registry the contract
\* froze, and as many leaves as the cells declare deals.
CanAggregate(deadlines, snapshot_id, results) ==
    /\ Reconcilable(results)
    /\ covered_cells(results) = expected_cells(deadlines)
    /\ \A res \in results : res.snapshot_id = snapshot_id
    /\ num_verified(results) = Cardinality(Keys(results))

\* aggregate_epoch_incremental: folds of one registry, taken together.
Flat(folds) == UNION {f.shard_results : f \in folds}

CanAggregateFolds(deadlines, folds) ==
    /\ folds # {}
    /\ \A f, g \in folds : f.snapshot_id = g.snapshot_id
    /\ CanAggregate(deadlines, (CHOOSE f \in folds : TRUE).snapshot_id, Flat(folds))
=============================================================================
