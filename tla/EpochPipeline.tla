---------------------------- MODULE EpochPipeline ----------------------------
(***************************************************************************)
(* One epoch from the posting of proofs to its settlement leaves: blobs are *)
(* written, windows close, workers answer for their cells, the aggregator   *)
(* folds deadline by deadline and aggregates (orchestrator/scenarios.py     *)
(* over the functions of ShardVerification and Aggregate).                  *)
(*                                                                         *)
(* Besides honest workers there are faulty ones, whose answers reconcile.py  *)
(* is written for: they miss blobs, answer for other deals than those of the *)
(* cell, miscount them, or use another registry.                            *)
(***************************************************************************)
EXTENDS ShardVerification

CONSTANTS
    EPOCH,                   \* the number of the epoch
    Snapshot, OtherSnapshot, \* the frozen registry's id, and another one
    OtherDeals,              \* deals the frozen registry does not have
    MAX_BLOBS, MAX_FAULTY,   \* bounds: blobs on the chain, faulty answers
    HEADER_DEADLINES         \* bound: deadlines authors write in headers

ASSUME PipelineAssumption ==
    /\ {EPOCH, MAX_BLOBS, MAX_FAULTY} \cup HEADER_DEADLINES \subseteq Nat
    /\ IsFiniteSet(OtherDeals)

VARIABLES
    childproofs,     \* every ChildProof made
    honest,          \* history: those of honest workers
    folds,           \* the deadlines folded so far
    leaves           \* the epoch's verdicts, << >> before it is aggregated

vars == <<daVars, childproofs, honest, folds, leaves>>

Slots == {slot_at(EPOCH, d) : d \in DeadlineIdxs}
Deadlines == {absolute_deadline(slot) : slot \in Slots}
Shards == 0..(N_SHARDS - 1)
LastHeight == slot_at(EPOCH, DEADLINES_PER_EPOCH - 1).window_end

Init ==
    /\ height = slot_at(EPOCH, 0).open_height
    /\ da = << >>
    /\ childproofs = {}
    /\ honest = {}
    /\ folds = {}
    /\ leaves = << >>

-----------------------------------------------------------------------------
Post ==
    /\ Len(da) < MAX_BLOBS
    /\ \E ns, s \in Shards, signer \in Signers, wellFormed \in BOOLEAN,
          deadline \in HEADER_DEADLINES, k \in Deals,
          payload \in Deals \cup {Garbage} :
          Submit([height |-> height, namespace |-> ns, signer |-> signer,
                  wellFormed |-> wellFormed, deadline |-> deadline, shard |-> s,
                  deal |-> k, payload |-> payload])
    /\ UNCHANGED <<childproofs, honest, folds, leaves>>

Mine ==
    /\ height < LastHeight
    /\ NextBlock
    /\ UNCHANGED <<childproofs, honest, folds, leaves>>

\* What a worker reads for a cell: its shard's namespace over the window, whole.
Observed(d, s) == LET slot == slot_at(EPOCH, d)
                  IN  read(s, slot.window_start, slot.window_end)

\* Seeded fault: the worker reads while the window is still open.
WindowOver_Early(d) == height >= slot_at(EPOCH, d).window_start

WindowOver(d) == height >= slot_at(EPOCH, d).window_end

\* An honest worker drawn for the cell answers after the window has closed, at
\* any time: it may be late for the fold, or never answer.
Work(d, s) ==
    /\ WindowOver(d)
    /\ LET res == verify_shard(EPOCH, d, s, Snapshot, expected_for(d, s),
                               Observed(d, s))
       IN  /\ childproofs' = childproofs \cup {res}
           /\ honest' = honest \cup {res}
    /\ UNCHANGED <<daVars, folds, leaves>>

\* A faulty worker misses blobs, answers for any deals, declares one deal too
\* many, or builds on another registry.
WorkFaultily(d, s) ==
    /\ WindowOver(d)
    /\ Cardinality(childproofs \ honest) < MAX_FAULTY
    /\ \E view \in SUBSET Observed(d, s),
          expected \in SUBSET (Deals \cup OtherDeals),
          snapshot \in {Snapshot, OtherSnapshot}, more \in 0..1 :
          /\ snapshot = OtherSnapshot => more = 0
          /\ LET res == verify_shard(EPOCH, d, s, snapshot, expected, view)
             IN  childproofs' = childproofs \cup
                   {[res EXCEPT !.expected_count = @ + more]}
    /\ UNCHANGED <<daVars, honest, folds, leaves>>

\* The aggregator folds the answers it has; when fold_deadline raises, nothing
\* is folded.
FoldDeadline(d) ==
    LET deadline == absolute_deadline(slot_at(EPOCH, d))
        results == {res \in childproofs : res.deadline = deadline}
    IN  /\ \A f \in folds : f.deadline # deadline
        /\ CanFold(deadline, Snapshot, results)
        /\ folds' = folds \cup {Fold(deadline, Snapshot, results)}
        /\ UNCHANGED <<daVars, childproofs, honest, leaves>>

AggregateEpoch ==
    /\ leaves = << >>
    /\ CanAggregateFolds(Deadlines, folds)
    /\ leaves' = verdicts(Flat(folds))
    /\ UNCHANGED <<daVars, childproofs, honest, folds>>

Next ==
    \/ Post
    \/ Mine
    \/ \E d \in DeadlineIdxs, s \in Shards : Work(d, s) \/ WorkFaultily(d, s)
    \/ \E d \in DeadlineIdxs : FoldDeadline(d)
    \/ AggregateEpoch

Spec == Init /\ [][Next]_vars

-----------------------------------------------------------------------------
(***************************************************************************)
(* Properties.                                                              *)
(***************************************************************************)

\* Blobs are ordered by height; every answer and every fold has its type.
TypeOK ==
    /\ da \in Seq(Blob)
    /\ \A i, j \in DOMAIN da : i <= j => da[i].height <= da[j].height
    /\ height \in Nat
    /\ honest \subseteq childproofs
    /\ \A res \in childproofs :
          /\ Cell(res) \in expected_cells(Deadlines)
          /\ res.verdicts \in UNION {[S -> Verdict] : S \in SUBSET (Deals \cup OtherDeals)}
    /\ \A f \in folds :
          f.deadline \in Deadlines /\ f.shard_results \subseteq childproofs

\* The own blobs of deal k: posted by its provider's address in time, in the
\* namespace of its shard, with a header that says so.
OwnBlobs(k) ==
    LET slot == slot_at(EPOCH, deadline_idx[k])
    IN  {i \in DOMAIN da :
            /\ da[i].signer = signer_of[k] /\ da[i].deal = k
            /\ da[i].wellFormed
            /\ da[i].namespace = shard_of[k] /\ da[i].shard = shard_of[k]
            /\ da[i].deadline = absolute_deadline(slot)
            /\ in_submit_window(slot, da[i].height)}

\* What k deserves, were there a single judge who sees everything at the end.
Deserved(k) ==
    CASE OwnBlobs(k) = {} -> ABSENT
      [] OwnBlobs(k) # {} /\ da[Earliest(OwnBlobs(k))].payload = k -> PASS
      [] OTHER -> FAIL

\* Each cell has an honest answer among those that were folded.
HonestEverywhere ==
    \A c \in expected_cells(Deadlines) :
        \E res \in honest \cap Flat(folds) : Cell(res) = c

Aggregated == leaves # << >>

\* An epoch whose every cell has one honest answer settles exactly the deals of
\* the frozen registry, each once: faulty answers can neither add a deal nor, by
\* padding one cell to make up for another, have one left out (reconcile.py, P0.3).
ExactlyTheRegistry ==
    Aggregated /\ HonestEverywhere => DOMAIN leaves = Deals

\* Where all workers are honest every deal gets what it deserves, whatever is
\* posted by whom and however late workers and folds come.
LeavesAreDeserved ==
    Aggregated /\ childproofs = honest => leaves = [k \in Deals |-> Deserved(k)]

\* One honest worker per cell is enough for no deal to get less than it deserves:
\* a worker that missed its proof, or says it is absent, is overruled.
HonestEvidenceStands ==
    Aggregated /\ HonestEverywhere => \A k \in Deals : leaves[k] >= Deserved(k)

\* Whatever strangers post and faulty workers answer, and also in a cell without
\* honest answer, a deal is failed or passed only on a blob its own provider
\* signed for it in a window of this epoch: nobody else can have it slashed.
NobodyIsFramed ==
    Aggregated =>
        \A k \in DOMAIN leaves : leaves[k] \in {FAIL, PASS} =>
            \E i \in DOMAIN da, slot \in Slots :
                /\ da[i].signer = signer_of[k] /\ da[i].deal = k
                /\ da[i].deadline = absolute_deadline(slot)
                /\ in_submit_window(slot, da[i].height)
                /\ (leaves[k] = PASS) = (da[i].payload = k)
=============================================================================
