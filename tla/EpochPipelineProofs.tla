------------------------- MODULE EpochPipelineProofs -------------------------
(***************************************************************************)
(* Theorems about EpochPipeline, for every value of its constants.          *)
(***************************************************************************)
EXTENDS EpochPipeline, FiniteSetTheorems, FunctionTheorems, TLAPS

-----------------------------------------------------------------------------
(***************************************************************************)
(* Lemmas about the operators.                                              *)
(***************************************************************************)

\* F4 keeps one of the blobs that passed the ladder (filter_blobs).
LEMMA EarliestIsOne ==
    ASSUME NEW S \in SUBSET Nat, S # {}
    PROVE  Earliest(S) \in S
<1> DEFINE less == OpToRel(<, Nat)
<1>1. PICK i \in S : \A j \in S : <<j, i>> \notin less
  <2>1. IsWellFoundedOn(less, Nat)
    BY NatLessThanWellFounded
  <2> HIDE DEF less
  <2> QED
    BY <2>1, WFMin
<1>2. ASSUME NEW j \in S PROVE i <= j
  <2>1. i \in Nat /\ j \in Nat /\ <<j, i>> \notin less
    BY <1>1
  <2>2. ~(j < i)
    BY <2>1 DEF OpToRel
  <2> HIDE DEF less
  <2> QED
    BY <2>1, <2>2
<1> QED
  BY <1>1, <1>2 DEF Earliest

\* Joining verdicts yields one of them (reconcile): nothing is averaged.
LEMMA JoinedIsOne ==
    ASSUME NEW S \in SUBSET Verdict, S # {}
    PROVE  Joined(S) \in S
<1>1. \E v \in S : \A u \in S : reconcile(u, v) = v
  <2>1. CASE PASS \in S
    BY <2>1 DEF reconcile, Verdict, NONE, ABSENT, FAIL, PASS
  <2>2. CASE PASS \notin S /\ FAIL \in S
    BY <2>2 DEF reconcile, Verdict, NONE, ABSENT, FAIL, PASS
  <2>3. CASE PASS \notin S /\ FAIL \notin S /\ ABSENT \in S
    BY <2>3 DEF reconcile, Verdict, NONE, ABSENT, FAIL, PASS
  <2>4. CASE S = {NONE}
    BY <2>4 DEF reconcile
  <2> QED
    BY <2>1, <2>2, <2>3, <2>4 DEF Verdict
<1> QED
  BY <1>1 DEF Joined

\* A verdict of an aggregate is the verdict of one of its answers.
LEMMA VerdictsAreAnswers ==
    ASSUME NEW results, NEW k \in Keys(results),
           \A res \in results : \A j \in Answered(res) : res.verdicts[j] \in Verdict
    PROVE  \E res \in results : k \in Answered(res) /\ verdicts(results)[k] = res.verdicts[k]
<1> DEFINE given == {res.verdicts[k] : res \in {r \in results : k \in Answered(r)}}
<1>1. given # {}
  BY DEF Keys
<1>2. given \in SUBSET Verdict
  OBVIOUS
<1>3. verdicts(results)[k] = Joined(given)
  BY DEF verdicts
<1>4. Joined(given) \in given
  <2> HIDE DEF given
  <2> QED
    BY <1>1, <1>2, JoinedIsOne
<1> QED
  BY <1>3, <1>4

-----------------------------------------------------------------------------
(***************************************************************************)
(* The inductive invariant: every answer ever given rests on blobs that are *)
(* still on the chain, because the chain only grows.                        *)
(***************************************************************************)
Witnessed(k, v) ==
    \E i \in DOMAIN da, slot \in Slots :
        /\ da[i].signer = signer_of[k] /\ da[i].deal = k
        /\ da[i].deadline = absolute_deadline(slot)
        /\ in_submit_window(slot, da[i].height)
        /\ (v = PASS) = (da[i].payload = k)

\* The answer res gives each of its deals a verdict, and FAIL or PASS on a blob.
Rests(res) ==
    \A k \in Answered(res) :
        /\ res.verdicts[k] \in Verdict
        /\ res.verdicts[k] \in {FAIL, PASS} => Witnessed(k, res.verdicts[k])

AnswersRest == \A res \in childproofs : Rests(res)
FoldsAreOfAnswers == \A f \in folds : f.shard_results \subseteq childproofs
LeavesRest ==
    \A k \in DOMAIN leaves : leaves[k] \in {FAIL, PASS} => Witnessed(k, leaves[k])

PipelineInv ==
    /\ height \in Nat
    /\ da \in Seq(Blob)
    /\ AnswersRest
    /\ FoldsAreOfAnswers
    /\ LeavesRest

\* What a worker concludes from a part of what it reads rests on that part.
LEMMA VerdictRests ==
    ASSUME PipelineInv, NEW d \in DeadlineIdxs, NEW s,
           NEW view \in SUBSET Observed(d, s), NEW k
    PROVE  LET v == VerdictOn(view, k, absolute_deadline(slot_at(EPOCH, d)), s)
           IN  v \in Verdict /\ (v \in {FAIL, PASS} => Witnessed(k, v))
<1> DEFINE slot == slot_at(EPOCH, d)
           deadline == absolute_deadline(slot)
           kept == KeptFor(view, k, deadline, s)
           v == VerdictOn(view, k, deadline, s)
<1>1. v = IF kept = {} THEN ABSENT
          ELSE IF verify_bundle(Earliest(kept), k) THEN PASS ELSE FAIL
  BY DEF VerdictOn
<1>2. v \in Verdict
  BY <1>1 DEF Verdict
<1>3. ASSUME v \in {FAIL, PASS}
      PROVE  Witnessed(k, v)
  <2> DEFINE i == Earliest(kept)
  <2>1. kept # {}
    BY <1>1, <1>3 DEF ABSENT, FAIL, PASS
  <2>2. kept \subseteq DOMAIN da /\ DOMAIN da \subseteq Nat
    BY DEF KeptFor, Observed, read, PipelineInv
  <2>3. i \in kept
    BY <2>1, <2>2, EarliestIsOne
  <2>4. /\ da[i].deadline = deadline
        /\ da[i].deal = k /\ da[i].signer = signer_of[k]
    BY <2>3 DEF KeptFor
  <2>5. in_submit_window(slot, da[i].height)
    BY <2>3 DEF KeptFor, Observed, read, in_submit_window
  <2>6. slot \in Slots
    BY DEF Slots
  <2>7. (v = PASS) = (da[i].payload = k)
    BY <1>1, <2>1 DEF verify_bundle, FAIL, PASS
  <2> HIDE DEF i, slot, v
  <2> QED
    BY <2>2, <2>3, <2>4, <2>5, <2>6, <2>7 DEF Witnessed
<1> QED
  BY <1>2, <1>3

\* The same of a whole answer (verify_shard).
LEMMA AnswerRests ==
    ASSUME PipelineInv, NEW d \in DeadlineIdxs, NEW s, NEW snapshot, NEW expected,
           NEW view \in SUBSET Observed(d, s), NEW res,
           res.verdicts = verify_shard(EPOCH, d, s, snapshot, expected, view).verdicts
    PROVE  Rests(res)
  BY VerdictRests DEF Rests, Answered, verify_shard

-----------------------------------------------------------------------------
(***************************************************************************)
(* Each action keeps the invariant.                                         *)
(***************************************************************************)

\* A chain that grows takes no witness away.
LEMMA WitnessesStay ==
    ASSUME da \in Seq(Blob), NEW blob, da' = Append(da, blob), NEW k, NEW v,
           Witnessed(k, v)
    PROVE  Witnessed(k, v)'
<1>1. \A i \in DOMAIN da : i \in DOMAIN da' /\ da'[i] = da[i]
  OBVIOUS
<1>2. PICK i \in DOMAIN da, slot \in Slots :
          /\ da[i].signer = signer_of[k] /\ da[i].deal = k
          /\ da[i].deadline = absolute_deadline(slot)
          /\ in_submit_window(slot, da[i].height)
          /\ (v = PASS) = (da[i].payload = k)
  BY DEF Witnessed
<1>3. i \in DOMAIN da' /\ da'[i] = da[i]
  BY <1>1
<1> QED
  BY <1>2, <1>3 DEF Witnessed

LEMMA InitPipeline == Init => PipelineInv
<1> SUFFICES ASSUME Init PROVE PipelineInv
  OBVIOUS
<1>1. height \in Nat
  <2>1. SlotNumber(EPOCH, 0) \in Nat
    <3>1. EPOCH \in Nat /\ DEADLINES_PER_EPOCH \in Nat
      BY ClockAssumption, PipelineAssumption
    <3> QED
      BY <3>1 DEF SlotNumber
  <2>2. OpenHeight(SlotNumber(EPOCH, 0)) \in Nat
    BY <2>1, ClockAssumption DEF OpenHeight
  <2> QED
    BY <2>2 DEF Init, slot_at
<1> QED
  BY <1>1 DEF Init, PipelineInv, AnswersRest, FoldsAreOfAnswers, LeavesRest

LEMMA PostKeeps == PipelineInv /\ Post => PipelineInv'
<1> SUFFICES ASSUME PipelineInv, Post PROVE PipelineInv'
  OBVIOUS
<1>1. PICK blob \in Blob : da' = Append(da, blob)
  <2>1. PICK ns \in Shards, s \in Shards, signer \in Signers,
             wellFormed \in BOOLEAN, deadline \in HEADER_DEADLINES, k \in Deals,
             payload \in Deals \cup {Garbage} :
             Submit([height |-> height, namespace |-> ns, signer |-> signer,
                     wellFormed |-> wellFormed, deadline |-> deadline,
                     shard |-> s, deal |-> k, payload |-> payload])
    BY DEF Post
  <2> DEFINE blob == [height |-> height, namespace |-> ns,
                      signer |-> signer, wellFormed |-> wellFormed,
                      deadline |-> deadline, shard |-> s,
                      deal |-> k, payload |-> payload]
  <2>2. blob \in Blob
    BY PipelineAssumption DEF Blob, Shards, PipelineInv
  <2>3. da' = Append(da, blob)
    BY <2>1 DEF Submit
  <2> QED
    BY <2>2, <2>3
<1>2. UNCHANGED <<height, childproofs, folds, leaves>>
  BY DEF Post, Submit
<1>3. ASSUME NEW k, NEW v, Witnessed(k, v) PROVE Witnessed(k, v)'
  BY <1>1, <1>3, WitnessesStay DEF PipelineInv
<1>4. height' \in Nat /\ da' \in Seq(Blob)
  BY <1>1, <1>2 DEF PipelineInv
<1>5. AnswersRest'
  BY <1>2, <1>3 DEF PipelineInv, AnswersRest, Rests, Answered
<1>6. LeavesRest'
  BY <1>2, <1>3 DEF PipelineInv, LeavesRest
<1> QED
  BY <1>2, <1>4, <1>5, <1>6 DEF PipelineInv, FoldsAreOfAnswers

\* An answer that rests on the chain may be added: Work and WorkFaultily.
LEMMA AnswerKeeps ==
    ASSUME PipelineInv, NEW res, Rests(res),
           childproofs' = childproofs \cup {res},
           UNCHANGED <<daVars, folds, leaves>>
    PROVE  PipelineInv'
<1>1. UNCHANGED <<da, height, folds, leaves>>
  BY DEF daVars
<1>2. ASSUME NEW k, NEW v PROVE Witnessed(k, v)' = Witnessed(k, v)
  BY <1>1 DEF Witnessed
<1>3. ASSUME NEW r \in childproofs' PROVE Rests(r)'
  <2>1. Rests(r)
    BY DEF PipelineInv, AnswersRest
  <2> QED
    BY <2>1, <1>2 DEF Rests
<1>4. LeavesRest'
  BY <1>1, <1>2 DEF PipelineInv, LeavesRest
<1> QED
  BY <1>1, <1>3, <1>4 DEF PipelineInv, AnswersRest, FoldsAreOfAnswers

LEMMA WorkKeeps ==
    ASSUME PipelineInv, NEW d \in DeadlineIdxs, NEW s \in Shards, Work(d, s)
    PROVE  PipelineInv'
<1> DEFINE res == verify_shard(EPOCH, d, s, Snapshot, expected_for(d, s),
                               Observed(d, s))
<1>1. Rests(res)
  BY AnswerRests
<1>2. childproofs' = childproofs \cup {res} /\ UNCHANGED <<daVars, folds, leaves>>
  BY DEF Work
<1> HIDE DEF res
<1> QED
  BY <1>1, <1>2, AnswerKeeps

LEMMA WorkFaultilyKeeps ==
    ASSUME PipelineInv, NEW d \in DeadlineIdxs, NEW s \in Shards,
           WorkFaultily(d, s)
    PROVE  PipelineInv'
<1>1. PICK view \in SUBSET Observed(d, s),
           expected \in SUBSET (Deals \cup OtherDeals),
           snapshot \in {Snapshot, OtherSnapshot}, more \in 0..1 :
           childproofs' = childproofs \cup
             {[verify_shard(EPOCH, d, s, snapshot, expected, view)
                 EXCEPT !.expected_count = @ + more]}
  BY DEF WorkFaultily
<1> DEFINE answer == verify_shard(EPOCH, d, s, snapshot, expected, view)
           res == [answer EXCEPT !.expected_count = @ + more]
<1>2. res.verdicts = answer.verdicts
  BY DEF verify_shard
<1>3. Rests(res)
  <2> HIDE DEF res
  <2> QED
    BY <1>2, AnswerRests
<1>4. UNCHANGED <<daVars, folds, leaves>>
  BY DEF WorkFaultily
<1> HIDE DEF res
<1> QED
  BY <1>1, <1>3, <1>4, AnswerKeeps DEF res

LEMMA FoldDeadlineKeeps ==
    ASSUME PipelineInv, NEW d \in DeadlineIdxs, FoldDeadline(d)
    PROVE  PipelineInv'
<1>1. UNCHANGED <<da, height, childproofs, leaves>>
  BY DEF FoldDeadline, daVars
<1>2. ASSUME NEW k, NEW v PROVE Witnessed(k, v)' = Witnessed(k, v)
  BY <1>1 DEF Witnessed
<1>3. FoldsAreOfAnswers'
  BY <1>1 DEF FoldDeadline, Fold, PipelineInv, FoldsAreOfAnswers
<1>4. AnswersRest' /\ LeavesRest'
  BY <1>1, <1>2 DEF PipelineInv, AnswersRest, Rests, LeavesRest
<1> QED
  BY <1>1, <1>3, <1>4 DEF PipelineInv

\* The leaves are verdicts of answers, and those rest on the chain.
LEMMA AggregateEpochKeeps == PipelineInv /\ AggregateEpoch => PipelineInv'
<1> SUFFICES ASSUME PipelineInv, AggregateEpoch PROVE PipelineInv'
  OBVIOUS
<1>1. UNCHANGED <<da, height, childproofs, folds>>
  BY DEF AggregateEpoch, daVars
<1>2. ASSUME NEW k, NEW v PROVE Witnessed(k, v)' = Witnessed(k, v)
  BY <1>1 DEF Witnessed
<1>3. Flat(folds) \subseteq childproofs
  BY DEF PipelineInv, FoldsAreOfAnswers, Flat
<1>4. \A res \in Flat(folds) : Rests(res)
  BY <1>3 DEF PipelineInv, AnswersRest
<1>5. LeavesRest'
  <2> SUFFICES ASSUME NEW k \in DOMAIN leaves', leaves'[k] \in {FAIL, PASS}
               PROVE  Witnessed(k, leaves'[k])
    BY <1>2 DEF LeavesRest
  <2>1. leaves' = verdicts(Flat(folds)) /\ k \in Keys(Flat(folds))
    BY DEF AggregateEpoch, verdicts
  <2>2. PICK res \in Flat(folds) :
            k \in Answered(res) /\ leaves'[k] = res.verdicts[k]
    BY <1>4, <2>1, VerdictsAreAnswers DEF Rests
  <2> QED
    BY <1>4, <2>2 DEF Rests
<1>6. AnswersRest'
  BY <1>1, <1>2 DEF PipelineInv, AnswersRest, Rests
<1> QED
  BY <1>1, <1>5, <1>6 DEF PipelineInv, FoldsAreOfAnswers

LEMMA PipelineInvariant == Spec => []PipelineInv
<1>1. PipelineInv /\ [Next]_vars => PipelineInv'
  <2> SUFFICES ASSUME PipelineInv, [Next]_vars PROVE PipelineInv'
    OBVIOUS
  <2>1. CASE Post
    BY <2>1, PostKeeps
  <2>2. CASE Mine
    <3>1. UNCHANGED <<da, childproofs, folds, leaves>> /\ height' = height + 1
      BY <2>2 DEF Mine, NextBlock
    <3>2. ASSUME NEW k, NEW v PROVE Witnessed(k, v)' = Witnessed(k, v)
      BY <3>1 DEF Witnessed
    <3> QED
      BY <3>1, <3>2 DEF PipelineInv, AnswersRest, FoldsAreOfAnswers, LeavesRest, Rests
  <2>3. CASE \E d \in DeadlineIdxs, s \in Shards : Work(d, s) \/ WorkFaultily(d, s)
    BY <2>3, WorkKeeps, WorkFaultilyKeeps
  <2>4. CASE \E d \in DeadlineIdxs : FoldDeadline(d)
    BY <2>4, FoldDeadlineKeeps
  <2>5. CASE AggregateEpoch
    BY <2>5, AggregateEpochKeeps
  <2>6. CASE UNCHANGED vars
    <3>1. UNCHANGED <<da, height, childproofs, folds, leaves>>
      BY <2>6 DEF vars, daVars
    <3>2. ASSUME NEW k, NEW v PROVE Witnessed(k, v)' = Witnessed(k, v)
      BY <3>1 DEF Witnessed
    <3> QED
      BY <3>1, <3>2 DEF PipelineInv, AnswersRest, FoldsAreOfAnswers, LeavesRest, Rests
  <2> QED
    BY <2>1, <2>2, <2>3, <2>4, <2>5, <2>6 DEF Next
<1> QED
  BY <1>1, InitPipeline, PTL DEF Spec

\* Whatever is posted and however faulty the workers: a deal is failed or passed
\* only on a blob that its own provider signed for it, for a deadline of this
\* epoch and inside that deadline's window (filter_blobs, verify_shard,
\* reconcile_shard_results).
THEOREM ProvidersAreJudgedByTheirOwnBlobs == Spec => []NobodyIsFramed
<1>1. PipelineInv => NobodyIsFramed
  BY DEF PipelineInv, LeavesRest, Witnessed, NobodyIsFramed, Aggregated
<1> QED
  BY <1>1, PipelineInvariant, PTL

-----------------------------------------------------------------------------
(***************************************************************************)
(* What the answers of honest workers have in common, and what the aggregate *)
(* is made of.                                                              *)
(***************************************************************************)
Due(d) == absolute_deadline(slot_at(EPOCH, d))

\* An answer of an honest worker says of the cell what is still true of it.
HonestAnswer(res, d, s) ==
    /\ WindowOver(d)
    /\ res.deadline = Due(d) /\ res.shard = s
    /\ res.expected_count = Cardinality(expected_for(d, s))
    /\ res.verdicts =
           [k \in expected_for(d, s) |-> VerdictOn(Observed(d, s), k, Due(d), s)]

AnswerType(res) ==
    /\ res.deadline \in Deadlines /\ res.shard \in Shards
    /\ res.verdicts \in UNION {[S -> Verdict] : S \in SUBSET (Deals \cup OtherDeals)}

HonestInv ==
    /\ honest \subseteq childproofs
    /\ \A res \in honest : \E d \in DeadlineIdxs, s \in Shards : HonestAnswer(res, d, s)

AnswersInv == \A res \in childproofs : AnswerType(res)

ChainInv ==
    /\ \A i, j \in DOMAIN da : i <= j => da[i].height <= da[j].height
    /\ \A i \in DOMAIN da : da[i].height <= height

FoldsInv ==
    \A f \in folds :
        /\ f.deadline \in Deadlines
        /\ \A res \in f.shard_results : res.deadline = f.deadline

\* No fold comes after the aggregate, which took one of every deadline.
LeavesInv ==
    Aggregated => leaves = verdicts(Flat(folds)) /\ CanAggregateFolds(Deadlines, folds)

SettleInv == HonestInv /\ AnswersInv /\ ChainInv /\ FoldsInv /\ LeavesInv

LEMMA DueType ==
    ASSUME NEW d \in DeadlineIdxs
    PROVE  /\ Due(d) \in Deadlines /\ slot_at(EPOCH, d) \in Slots
           /\ slot_at(EPOCH, d).window_end \in Nat
           /\ \A e \in DeadlineIdxs : Due(d) = Due(e) => d = e
<1>1. EPOCH \in Nat /\ DEADLINE_STRIDE \in Nat /\ DeadlineIdxs \subseteq Nat
      /\ DEADLINES_PER_EPOCH \in Nat /\ GENESIS_HEIGHT \in Nat
      /\ DEADLINE_LEN_BLOCKS \in Nat /\ BEACON_DELAY_BLOCKS \in Nat
      /\ SUBMIT_WINDOW_BLOCKS \in Nat
  BY ClockAssumption, PipelineAssumption DEF DeadlineIdxs
<1>2. slot_at(EPOCH, d) \in Slots /\ Due(d) \in Deadlines
  BY DEF Slots, Deadlines, Due
<1>3. EPOCH * DEADLINE_STRIDE \in Nat
  BY <1>1
<1>4. \A e \in DeadlineIdxs : Due(e) = EPOCH * DEADLINE_STRIDE + e
  BY DEF Due, absolute_deadline, slot_at
<1>5. \A e \in DeadlineIdxs : Due(d) = Due(e) => d = e
  BY <1>1, <1>3, <1>4
<1>6. SlotNumber(EPOCH, d) \in Nat
  BY <1>1 DEF SlotNumber
<1>7. OpenHeight(SlotNumber(EPOCH, d)) \in Nat
  BY <1>1, <1>6 DEF OpenHeight
<1>8. slot_at(EPOCH, d).window_end
          = (OpenHeight(SlotNumber(EPOCH, d)) + BEACON_DELAY_BLOCKS) + SUBMIT_WINDOW_BLOCKS
  BY DEF slot_at
<1>9. slot_at(EPOCH, d).window_end \in Nat
  BY <1>1, <1>7, <1>8
<1> QED  BY <1>2, <1>5, <1>9

\* What was seen in a window that is over is what will be seen.
LEMMA ObservedStays ==
    ASSUME PipelineInv, NEW blob, blob.height = height, da' = Append(da, blob),
           NEW d \in DeadlineIdxs, NEW s, WindowOver(d)
    PROVE  /\ Observed(d, s)' = Observed(d, s)
           /\ \A k, deadline :
                  VerdictOn(Observed(d, s), k, deadline, s)'
                      = VerdictOn(Observed(d, s), k, deadline, s)
<1>1. Len(da) \in Nat /\ DOMAIN da = 1..Len(da) /\ DOMAIN da' = 1..(Len(da) + 1)
      /\ (\A i \in DOMAIN da : da'[i] = da[i]) /\ da'[Len(da) + 1] = blob
  BY DEF PipelineInv
<1> DEFINE slot == slot_at(EPOCH, d)
           In(b) == /\ b.namespace = s
                    /\ slot.window_start <= b.height /\ b.height < slot.window_end
<1>2. slot.window_end \in Nat /\ height \in Nat /\ slot.window_end <= height
  BY DueType DEF WindowOver, PipelineInv
<1>3. ~(blob.height < slot.window_end)
  BY <1>2
<1>4. Observed(d, s) = {i \in DOMAIN da : In(da[i])}
      /\ Observed(d, s)' = {i \in DOMAIN da' : In(da'[i])}
  BY DEF Observed, read
<1>5. ~In(blob)
  BY <1>3
<1> HIDE DEF In
<1>6. DOMAIN da' = DOMAIN da \cup {Len(da) + 1} /\ Len(da) + 1 \notin DOMAIN da
  BY <1>1
<1>7. Observed(d, s)' = Observed(d, s)
  BY <1>1, <1>4, <1>5, <1>6
<1>8. \A i \in Observed(d, s) : da'[i] = da[i]
  BY <1>1, <1>4
<1> DEFINE view == Observed(d, s)
<1>9. ASSUME NEW k, NEW deadline
      PROVE  VerdictOn(Observed(d, s), k, deadline, s)'
                 = VerdictOn(Observed(d, s), k, deadline, s)
  <2> DEFINE kept == KeptFor(view, k, deadline, s)
             later == KeptFor(Observed(d, s), k, deadline, s)'
  <2>1. later = kept
    BY <1>7, <1>8 DEF KeptFor
  <2>2. VerdictOn(Observed(d, s), k, deadline, s)
            = IF kept = {} THEN ABSENT
              ELSE IF da[Earliest(kept)].payload = k THEN PASS ELSE FAIL
    BY DEF VerdictOn, verify_bundle
  <2>3. VerdictOn(Observed(d, s), k, deadline, s)'
            = IF later = {} THEN ABSENT
              ELSE IF da'[Earliest(later)].payload = k THEN PASS ELSE FAIL
    BY DEF VerdictOn, verify_bundle
  <2>4. kept # {} => da'[Earliest(kept)] = da[Earliest(kept)]
    <3>1. kept \subseteq Observed(d, s) /\ kept \in SUBSET Nat
      BY <1>1, <1>4 DEF KeptFor
    <3> QED  BY <1>8, <3>1, EarliestIsOne
  <2> HIDE DEF kept, later, view
  <2>5. VerdictOn(Observed(d, s), k, deadline, s)'
            = IF kept = {} THEN ABSENT
              ELSE IF da'[Earliest(kept)].payload = k THEN PASS ELSE FAIL
    BY <2>1, <2>3
  <2>6. CASE kept = {}
    BY <2>2, <2>5, <2>6
  <2>7. CASE kept # {}
    BY <2>2, <2>4, <2>5, <2>7
  <2> QED  BY <2>6, <2>7
<1> QED  BY <1>7, <1>9
-----------------------------------------------------------------------------
\* A block or a posting later, an honest answer is still what an honest worker would
\* say: a window that is over gets no more blobs.
LEMMA HonestStays ==
    ASSUME PipelineInv, [Next]_vars, NEW res, NEW d \in DeadlineIdxs, NEW s \in Shards,
           HonestAnswer(res, d, s)
    PROVE  HonestAnswer(res, d, s)'
<1>1. WindowOver(d)
  BY DEF HonestAnswer
<1>2. ASSUME NEW blob, blob.height = height, da' = Append(da, blob), UNCHANGED height
      PROVE  HonestAnswer(res, d, s)'
  <2>1. \A k, deadline : VerdictOn(Observed(d, s), k, deadline, s)'
                             = VerdictOn(Observed(d, s), k, deadline, s)
    BY <1>1, <1>2, ObservedStays
  <2>2. [k \in expected_for(d, s) |-> VerdictOn(Observed(d, s), k, Due(d), s)]'
            = [k \in expected_for(d, s) |-> VerdictOn(Observed(d, s), k, Due(d), s)]
    BY <2>1 DEF expected_for, Due
  <2>3. WindowOver(d)'
    BY <1>1, <1>2 DEF WindowOver
  <2> QED  BY <2>2, <2>3 DEF HonestAnswer
<1>3. ASSUME UNCHANGED da, height' \in {height, height + 1}
      PROVE  HonestAnswer(res, d, s)'
  <2>1. height \in Nat /\ slot_at(EPOCH, d).window_end \in Nat
    BY DueType DEF PipelineInv
  <2>2. height >= slot_at(EPOCH, d).window_end
    BY <1>1 DEF WindowOver
  <2>3. height' >= slot_at(EPOCH, d).window_end
    BY <1>3, <2>1, <2>2
  <2>4. WindowOver(d)'
    BY <2>3 DEF WindowOver
  <2>5. \A k : VerdictOn(Observed(d, s), k, Due(d), s)' = VerdictOn(Observed(d, s), k, Due(d), s)
    BY <1>3 DEF VerdictOn, Observed, KeptFor, read, verify_bundle
  <2> QED  BY <2>4, <2>5 DEF HonestAnswer
<1>4. CASE Post
  <2>1. UNCHANGED height /\ \E blob : blob.height = height /\ da' = Append(da, blob)
    BY <1>4 DEF Post, Submit
  <2> QED  BY <1>2, <2>1
<1>5. CASE Mine
  BY <1>3, <1>5 DEF Mine, NextBlock
<1>6. CASE ~Post /\ ~Mine
  <2>1. UNCHANGED <<da, height>>
    BY <1>6 DEF Next, vars, daVars, Work, WorkFaultily, FoldDeadline, AggregateEpoch
  <2> QED  BY <1>3, <2>1
<1> QED  BY <1>4, <1>5, <1>6

\* An answer is one of a cell of the epoch, with a verdict for each of its deals.
LEMMA AnswerHasType ==
    ASSUME PipelineInv, NEW d \in DeadlineIdxs, NEW s \in Shards, NEW snapshot,
           NEW expected \in SUBSET (Deals \cup OtherDeals),
           NEW view \in SUBSET Observed(d, s), NEW res,
           res.deadline = Due(d), res.shard = s,
           res.verdicts = verify_shard(EPOCH, d, s, snapshot, expected, view).verdicts
    PROVE  AnswerType(res)
<1>1. Due(d) \in Deadlines
  BY DueType
<1>2. res.verdicts = [k \in expected |-> VerdictOn(view, k, Due(d), s)]
  BY DEF verify_shard, Due
<1>3. \A k \in expected : VerdictOn(view, k, Due(d), s) \in Verdict
  BY VerdictRests DEF Due
<1>4. res.verdicts \in [expected -> Verdict]
  BY <1>2, <1>3
<1> QED  BY <1>1, <1>4 DEF AnswerType

LEMMA SettleInit == Init => SettleInv
BY DEF Init, SettleInv, HonestInv, AnswersInv, ChainInv, FoldsInv, LeavesInv, Aggregated

LEMMA NextHonest == PipelineInv /\ HonestInv /\ [Next]_vars => HonestInv'
<1> SUFFICES ASSUME PipelineInv, HonestInv, [Next]_vars PROVE HonestInv'
  OBVIOUS
<1>1. ASSUME NEW d \in DeadlineIdxs, NEW s \in Shards, Work(d, s) PROVE HonestInv'
  <2> DEFINE res == verify_shard(EPOCH, d, s, Snapshot, expected_for(d, s), Observed(d, s))
  <2>1. honest' = honest \cup {res} /\ childproofs' = childproofs \cup {res}
        /\ WindowOver(d) /\ UNCHANGED <<da, height>>
    BY <1>1 DEF Work, daVars
  <2>2. HonestAnswer(res, d, s)
    BY <2>1 DEF HonestAnswer, verify_shard, Due
  <2>3. \A r \in honest \cup {res} :
            \E e \in DeadlineIdxs, t \in Shards : HonestAnswer(r, e, t)
    BY <2>2 DEF HonestInv
  <2> HIDE DEF res
  <2>4. \A r \in honest' : \E e \in DeadlineIdxs, t \in Shards : HonestAnswer(r, e, t)'
    BY <2>1, <2>3, HonestStays
  <2> QED  BY <2>1, <2>4 DEF HonestInv
<1>2. ASSUME UNCHANGED honest, childproofs \subseteq childproofs' PROVE HonestInv'
  <2>1. \A r \in honest' : \E e \in DeadlineIdxs, t \in Shards : HonestAnswer(r, e, t)'
    BY <1>2, HonestStays DEF HonestInv
  <2> QED  BY <1>2, <2>1 DEF HonestInv
<1>3. ASSUME NEW d \in DeadlineIdxs, NEW s \in Shards, WorkFaultily(d, s) PROVE HonestInv'
  BY <1>2, <1>3 DEF WorkFaultily
<1>4. ASSUME Post \/ Mine \/ AggregateEpoch \/ UNCHANGED vars
             \/ \E d \in DeadlineIdxs : FoldDeadline(d)
      PROVE  HonestInv'
  BY <1>2, <1>4 DEF Post, Mine, FoldDeadline, AggregateEpoch, vars
<1> QED  BY <1>1, <1>3, <1>4 DEF Next

LEMMA NextAnswers == PipelineInv /\ AnswersInv /\ [Next]_vars => AnswersInv'
<1> SUFFICES ASSUME PipelineInv, AnswersInv, [Next]_vars PROVE AnswersInv'
  OBVIOUS
<1>1. ASSUME NEW d \in DeadlineIdxs, NEW s \in Shards, Work(d, s) PROVE AnswersInv'
  <2> DEFINE res == verify_shard(EPOCH, d, s, Snapshot, expected_for(d, s), Observed(d, s))
  <2>1. childproofs' = childproofs \cup {res}
    BY <1>1 DEF Work
  <2>2. res.deadline = Due(d) /\ res.shard = s
    BY DEF verify_shard, Due
  <2>3. expected_for(d, s) \in SUBSET (Deals \cup OtherDeals)
    BY DEF expected_for
  <2>4. AnswerType(res)
    BY <2>2, <2>3, AnswerHasType
  <2> HIDE DEF res
  <2> QED  BY <2>1, <2>4 DEF AnswersInv, AnswerType
<1>2. ASSUME NEW d \in DeadlineIdxs, NEW s \in Shards, WorkFaultily(d, s) PROVE AnswersInv'
  <2>1. PICK view \in SUBSET Observed(d, s),
             expected \in SUBSET (Deals \cup OtherDeals),
             snapshot \in {Snapshot, OtherSnapshot}, more \in 0..1 :
             childproofs' = childproofs \cup
               {[verify_shard(EPOCH, d, s, snapshot, expected, view)
                   EXCEPT !.expected_count = @ + more]}
    BY <1>2 DEF WorkFaultily
  <2> DEFINE answer == verify_shard(EPOCH, d, s, snapshot, expected, view)
             res == [answer EXCEPT !.expected_count = @ + more]
  <2>2. res.deadline = Due(d) /\ res.shard = s /\ res.verdicts = answer.verdicts
    BY DEF verify_shard, Due
  <2>3. AnswerType(res)
    <3> HIDE DEF res
    <3> QED  BY <2>2, AnswerHasType
  <2> HIDE DEF res
  <2>4. childproofs' = childproofs \cup {res}
    BY <2>1 DEF res
  <2> QED  BY <2>3, <2>4 DEF AnswersInv, AnswerType
<1>3. ASSUME UNCHANGED childproofs PROVE AnswersInv'
  BY <1>3 DEF AnswersInv, AnswerType
<1> QED  BY <1>1, <1>2, <1>3 DEF Next, Post, Mine, FoldDeadline, AggregateEpoch, vars

LEMMA NextChain == PipelineInv /\ ChainInv /\ [Next]_vars => ChainInv'
<1> SUFFICES ASSUME PipelineInv, ChainInv, [Next]_vars PROVE ChainInv'
  OBVIOUS
<1>1. CASE Post
  <2>1. PICK blob : blob.height = height /\ da' = Append(da, blob) /\ UNCHANGED height
    BY <1>1 DEF Post, Submit
  <2>2. Len(da) \in Nat /\ DOMAIN da = 1..Len(da) /\ DOMAIN da' = 1..(Len(da) + 1)
        /\ (\A i \in DOMAIN da : da'[i] = da[i]) /\ da'[Len(da) + 1] = blob
    BY <2>1 DEF PipelineInv
  <2>3. \A i \in DOMAIN da' : i \in DOMAIN da \/ i = Len(da) + 1
    BY <2>2
  <2>4. height \in Nat /\ \A i \in DOMAIN da : da[i].height <= height
    BY DEF PipelineInv, ChainInv
  <2>5. \A i \in DOMAIN da' : da'[i].height <= height'
    BY <2>1, <2>2, <2>3, <2>4
  <2>6. ASSUME NEW i \in DOMAIN da', NEW j \in DOMAIN da', i <= j
        PROVE  da'[i].height <= da'[j].height
    <3>1. CASE j \in DOMAIN da
      <4>1. i \in DOMAIN da
        BY <2>2, <2>6, <3>1
      <4> QED  BY <2>2, <2>6, <3>1, <4>1 DEF ChainInv
    <3>2. CASE j = Len(da) + 1
      <4>1. da'[j].height = height
        BY <2>1, <2>2, <3>2
      <4>2. da'[i].height <= height
        BY <2>1, <2>5
      <4> QED  BY <4>1, <4>2
    <3> QED  BY <2>3, <3>1, <3>2
  <2> QED  BY <2>5, <2>6 DEF ChainInv
<1>2. CASE Mine
  <2>1. UNCHANGED da /\ height' = height + 1 /\ height \in Nat
    BY <1>2 DEF Mine, NextBlock, PipelineInv
  <2>2. \A i \in DOMAIN da : da[i].height \in Nat
    <3>1. \A i \in DOMAIN da : da[i] \in Blob
      BY DEF PipelineInv
    <3> QED  BY <3>1 DEF Blob
  <2>3. \A i \in DOMAIN da : da[i].height <= height + 1
    BY <2>1, <2>2 DEF ChainInv
  <2> QED  BY <2>1, <2>3 DEF ChainInv
<1>3. CASE ~Post /\ ~Mine
  <2>1. UNCHANGED <<da, height>>
    BY <1>3 DEF Next, vars, daVars, Work, WorkFaultily, FoldDeadline, AggregateEpoch
  <2> QED  BY <2>1 DEF ChainInv
<1> QED  BY <1>1, <1>2, <1>3

LEMMA NextFolds == FoldsInv /\ [Next]_vars => FoldsInv'
<1> SUFFICES ASSUME FoldsInv, [Next]_vars PROVE FoldsInv'
  OBVIOUS
<1>1. ASSUME NEW d \in DeadlineIdxs, FoldDeadline(d) PROVE FoldsInv'
  <2>1. folds' = folds \cup {Fold(Due(d), Snapshot, {res \in childproofs : res.deadline = Due(d)})}
    BY <1>1 DEF FoldDeadline, Due
  <2>2. Due(d) \in Deadlines
    BY DueType
  <2> QED  BY <2>1, <2>2 DEF FoldsInv, Fold
<1>2. ASSUME UNCHANGED folds PROVE FoldsInv'
  BY <1>2 DEF FoldsInv
<1> QED  BY <1>1, <1>2 DEF Next, Post, Mine, Work, WorkFaultily, AggregateEpoch, vars

\* The cells of an aggregate are those of the epoch.
LEMMA AggregateCovers ==
    ASSUME CanAggregateFolds(Deadlines, folds)
    PROVE  /\ covered_cells(Flat(folds)) = Deadlines \X Shards
           /\ Reconcilable(Flat(folds))
           /\ num_verified(Flat(folds)) = Cardinality(Keys(Flat(folds)))
BY DEF CanAggregateFolds, CanAggregate, expected_cells, Shards

\* No deadline is folded twice, and an aggregate has one fold of each.
LEMMA NextLeaves == FoldsInv /\ LeavesInv /\ [Next]_vars => LeavesInv'
<1> SUFFICES ASSUME FoldsInv, LeavesInv, [Next]_vars PROVE LeavesInv'
  OBVIOUS
<1>1. ASSUME NEW d \in DeadlineIdxs, FoldDeadline(d) PROVE LeavesInv'
  <2>1. \A f \in folds : f.deadline # Due(d)
    BY <1>1 DEF FoldDeadline, Due
  <2>2. ~Aggregated
    <3> SUFFICES ASSUME Aggregated PROVE FALSE
      OBVIOUS
    <3>1. covered_cells(Flat(folds)) = Deadlines \X Shards
      BY AggregateCovers DEF LeavesInv
    <3>2. Due(d) \in Deadlines /\ 0 \in Shards
      BY DueType, DealAssumption DEF Shards
    <3>3. PICK res \in Flat(folds) : Cell(res) = <<Due(d), 0>>
      BY <3>1, <3>2 DEF covered_cells
    <3>4. PICK f \in folds : res \in f.shard_results
      BY <3>3 DEF Flat
    <3>5. f.deadline = Due(d)
      BY <3>3, <3>4 DEF FoldsInv, Cell
    <3> QED  BY <2>1, <3>4, <3>5
  <2>3. UNCHANGED leaves
    BY <1>1 DEF FoldDeadline
  <2> QED  BY <2>2, <2>3 DEF LeavesInv, Aggregated
<1>2. CASE AggregateEpoch
  <2>1. leaves' = verdicts(Flat(folds)) /\ CanAggregateFolds(Deadlines, folds)
        /\ folds' = folds
    BY <1>2 DEF AggregateEpoch
  <2> QED  BY <2>1 DEF LeavesInv
<1>3. ASSUME UNCHANGED <<folds, leaves>> PROVE LeavesInv'
  BY <1>3 DEF LeavesInv, Aggregated
<1> QED  BY <1>1, <1>2, <1>3 DEF Next, Post, Mine, Work, WorkFaultily, vars

LEMMA SettleInvariant == Spec => [](PipelineInv /\ SettleInv)
<1>1. PipelineInv /\ PipelineInv' /\ SettleInv /\ [Next]_vars => SettleInv'
  BY NextHonest, NextAnswers, NextChain, NextFolds, NextLeaves DEF SettleInv
<1> QED  BY <1>1, SettleInit, PipelineInvariant, PTL DEF Spec
-----------------------------------------------------------------------------
(***************************************************************************)
(* The leaves of an epoch, from its answers.                                *)
(***************************************************************************)
CellOf(k) == <<Due(deadline_idx[k]), shard_of[k]>>
Expected(c) == {k \in Deals : CellOf(k) = c}

\* The deals of a cell, found by its deadline's number or by its index.
LEMMA ExpectedByCell ==
    ASSUME NEW d \in DeadlineIdxs, NEW s \in Shards
    PROVE  expected_for(d, s) = Expected(<<Due(d), s>>)
<1>1. \A k \in Deals : deadline_idx[k] \in DeadlineIdxs
  BY DealAssumption
<1>2. \A k \in Deals : deadline_idx[k] = d <=> Due(deadline_idx[k]) = Due(d)
  BY <1>1, DueType
<1> QED  BY <1>2 DEF expected_for, Expected, CellOf

\* A token per deal that each cell declares, as num_verified counts them.
Tokens == UNION {{c} \X (1..Cardinality(Expected(c))) : c \in Deadlines \X Shards}

\* There are no more of them than deals: every cell's tokens are numbers of its
\* own deals, and a deal has one cell.
LEMMA TokensAreDeals == IsFiniteSet(Tokens) /\ Cardinality(Tokens) <= Cardinality(Deals)
<1> DEFINE Numbering(c) == CHOOSE f \in Surjection(Expected(c), 1..Cardinality(Expected(c))) :
                               TRUE
           F == [k \in Deals |-> <<CellOf(k), Numbering(CellOf(k))[k]>>]
<1>1. ASSUME NEW c
      PROVE  Numbering(c) \in Surjection(Expected(c), 1..Cardinality(Expected(c)))
  <2>1. IsFiniteSet(Expected(c))
    BY DealAssumption, FS_Subset DEF Expected
  <2>2. ExistsBijection(1..Cardinality(Expected(c)), Expected(c))
    BY <2>1, FS_CardinalityType
  <2>3. ExistsBijection(Expected(c), 1..Cardinality(Expected(c)))
    BY <2>2, Fun_ExistsBijSymmetric
  <2>4. Surjection(Expected(c), 1..Cardinality(Expected(c))) # {}
    BY <2>3 DEF ExistsBijection, Bijection
  <2> QED  BY <2>4
<1> HIDE DEF Numbering, F
<1>2. ASSUME NEW c
      PROVE  /\ Numbering(c) \in [Expected(c) -> 1..Cardinality(Expected(c))]
             /\ \A n \in 1..Cardinality(Expected(c)) :
                    \E k \in Expected(c) : Numbering(c)[k] = n
  BY <1>1 DEF Surjection
<1>3. \A k \in Deals : CellOf(k) \in Deadlines \X Shards /\ k \in Expected(CellOf(k))
  <2>1. \A k \in Deals : deadline_idx[k] \in DeadlineIdxs /\ shard_of[k] \in Shards
    BY DealAssumption DEF Shards
  <2> QED  BY <2>1, DueType DEF CellOf, Expected
<1>4. F \in [Deals -> Tokens]
  <2> USE DEF F
  <2> SUFFICES ASSUME NEW k \in Deals
               PROVE  <<CellOf(k), Numbering(CellOf(k))[k]>> \in Tokens
    OBVIOUS
  <2>1. Numbering(CellOf(k))[k] \in 1..Cardinality(Expected(CellOf(k)))
    BY <1>2, <1>3
  <2> QED  BY <1>3, <2>1 DEF Tokens
<1>5. \A t \in Tokens : \E k \in Deals : F[k] = t
  <2> SUFFICES ASSUME NEW t \in Tokens PROVE \E k \in Deals : F[k] = t
    OBVIOUS
  <2> USE DEF F
  <2>0. PICK c \in Deadlines \X Shards : t \in {c} \X (1..Cardinality(Expected(c)))
    BY DEF Tokens
  <2>1. PICK n \in 1..Cardinality(Expected(c)) : t = <<c, n>>
    BY <2>0
  <2>2. PICK k \in Expected(c) : Numbering(c)[k] = n
    BY <1>2
  <2>3. k \in Deals /\ CellOf(k) = c
    BY DEF Expected
  <2> QED  BY <2>1, <2>2, <2>3
<1>6. F \in Surjection(Deals, Tokens)
  BY <1>4, <1>5 DEF Surjection
<1> QED  BY <1>6, DealAssumption, FS_Surjection

\* What aggregate_epoch has established once there are leaves.
LEMMA AnswersOfFolds ==
    ASSUME PipelineInv, SettleInv, Aggregated
    PROVE  /\ Flat(folds) \subseteq childproofs
           /\ \A res \in Flat(folds) : AnswerType(res) /\ Rests(res)
           /\ Keys(Flat(folds)) \subseteq Deals \cup OtherDeals
           /\ DOMAIN leaves = Keys(Flat(folds))
           /\ leaves = [k \in Keys(Flat(folds)) |-> leaves[k]]
           /\ covered_cells(Flat(folds)) = Deadlines \X Shards
           /\ Reconcilable(Flat(folds))
           /\ num_verified(Flat(folds)) = Cardinality(Keys(Flat(folds)))
<1>1. Flat(folds) \subseteq childproofs
  BY DEF PipelineInv, FoldsAreOfAnswers, Flat
<1>2. \A res \in Flat(folds) : AnswerType(res) /\ Rests(res)
  BY <1>1 DEF SettleInv, AnswersInv, PipelineInv, AnswersRest
<1>3. Keys(Flat(folds)) \subseteq Deals \cup OtherDeals
  BY <1>2 DEF Keys, Answered, AnswerType
<1>4. leaves = verdicts(Flat(folds)) /\ CanAggregateFolds(Deadlines, folds)
  BY DEF SettleInv, LeavesInv
<1>5. DOMAIN leaves = Keys(Flat(folds)) /\ leaves = [k \in Keys(Flat(folds)) |-> leaves[k]]
  BY <1>4 DEF verdicts
<1> QED  BY <1>1, <1>2, <1>3, <1>4, <1>5, AggregateCovers

\* The honest answer of a cell, among the folded ones.
LEMMA HonestOfCell ==
    ASSUME PipelineInv, SettleInv, HonestEverywhere,
           NEW d \in DeadlineIdxs, NEW s \in Shards
    PROVE  \E res \in honest \cap Flat(folds) : HonestAnswer(res, d, s)
<1>1. <<Due(d), s>> \in expected_cells(Deadlines)
  BY DueType DEF expected_cells, Shards
<1>2. PICK res \in honest \cap Flat(folds) : Cell(res) = <<Due(d), s>>
  BY <1>1 DEF HonestEverywhere
<1>3. PICK e \in DeadlineIdxs, t \in Shards : HonestAnswer(res, e, t)
  BY DEF SettleInv, HonestInv
<1>4. Due(e) = Due(d) /\ t = s
  BY <1>2, <1>3 DEF Cell, HonestAnswer
<1>5. e = d
  BY <1>4, DueType
<1> QED  BY <1>3, <1>4, <1>5

\* Each cell counts as many deals as its honest answer; together those are no more
\* than the deals of the registry, all of which have a verdict; and there are no
\* more verdicts than counted.
LEMMA LeavesOfRegistry ==
    ASSUME PipelineInv, SettleInv, Aggregated, HonestEverywhere
    PROVE  DOMAIN leaves = Deals
<1> DEFINE results == Flat(folds)
<1>1. /\ Keys(results) \subseteq Deals \cup OtherDeals /\ DOMAIN leaves = Keys(results)
      /\ covered_cells(results) = Deadlines \X Shards
      /\ SameCardinality(results) /\ num_verified(results) = Cardinality(Keys(results))
  BY AnswersOfFolds DEF Reconcilable
<1>2. ASSUME NEW c \in Deadlines \X Shards
      PROVE  \E res \in results : /\ Cell(res) = c
                                  /\ res.expected_count = Cardinality(Expected(c))
                                  /\ Answered(res) = Expected(c)
  <2>1. PICK d \in DeadlineIdxs, s \in Shards : c = <<Due(d), s>>
    <3>1. \A deadline \in Deadlines : \E d \in DeadlineIdxs : deadline = Due(d)
      BY DEF Deadlines, Slots, Due
    <3> QED  BY <3>1
  <2>2. PICK res \in honest \cap results : HonestAnswer(res, d, s)
    BY HonestOfCell
  <2>3. expected_for(d, s) = Expected(c)
    BY <2>1, ExpectedByCell
  <2> QED  BY <2>1, <2>2, <2>3 DEF HonestAnswer, Cell, Answered
<1>3. \A res \in results : /\ Cell(res) \in Deadlines \X Shards
                           /\ res.expected_count = Cardinality(Expected(Cell(res)))
  <2> TAKE res \in results
  <2>1. Cell(res) \in Deadlines \X Shards
    BY <1>1 DEF covered_cells
  <2>2. PICK r \in results : /\ Cell(r) = Cell(res)
                             /\ r.expected_count = Cardinality(Expected(Cell(res)))
    BY <1>2, <2>1
  <2> QED  BY <1>1, <2>1, <2>2 DEF SameCardinality
<1>4. num_verified(results) = Cardinality(Tokens)
  <2>1. {{Cell(res)} \X (1..res.expected_count) : res \in results}
            = {{c} \X (1..Cardinality(Expected(c))) : c \in Deadlines \X Shards}
    <3>1. ASSUME NEW res \in results
          PROVE  {Cell(res)} \X (1..res.expected_count)
                     \in {{c} \X (1..Cardinality(Expected(c))) : c \in Deadlines \X Shards}
      BY <1>3
    <3>2. ASSUME NEW c \in Deadlines \X Shards
          PROVE  {c} \X (1..Cardinality(Expected(c)))
                     \in {{Cell(res)} \X (1..res.expected_count) : res \in results}
      <4>1. PICK res \in results : Cell(res) = c /\ res.expected_count = Cardinality(Expected(c))
        BY <1>2
      <4> QED  BY <4>1
    <3> QED  BY <3>1, <3>2
  <2> QED  BY <2>1 DEF num_verified, Tokens
<1>5. Deals \subseteq Keys(results)
  <2> SUFFICES ASSUME NEW k \in Deals PROVE k \in Keys(results)
    OBVIOUS
  <2>1. CellOf(k) \in Deadlines \X Shards
    <3>1. deadline_idx[k] \in DeadlineIdxs /\ shard_of[k] \in Shards
      BY DealAssumption DEF Shards
    <3> QED  BY <3>1, DueType DEF CellOf
  <2>2. PICK res \in results : Answered(res) = Expected(CellOf(k))
    BY <1>2, <2>1
  <2> QED  BY <2>2 DEF Keys, Expected
<1>6. IsFiniteSet(Keys(results))
  <2>1. IsFiniteSet(Deals \cup OtherDeals)
    BY DealAssumption, PipelineAssumption, FS_Union
  <2> QED  BY <1>1, <2>1, FS_Subset
<1>7. Cardinality(Deals) <= Cardinality(Keys(results))
      /\ (Cardinality(Keys(results)) = Cardinality(Deals) => Keys(results) = Deals)
  BY <1>5, <1>6, FS_Subset
<1>8. Cardinality(Keys(results)) \in Nat /\ Cardinality(Deals) \in Nat
  BY <1>6, DealAssumption, FS_CardinalityType
<1>9. Cardinality(Keys(results)) <= Cardinality(Deals)
  BY <1>1, <1>4, TokensAreDeals
<1> HIDE DEF results
<1>10. Cardinality(Keys(results)) = Cardinality(Deals)
  BY <1>7, <1>8, <1>9
<1> QED  BY <1>1, <1>7, <1>10

\* Joining can only add weight to the evidence.
LEMMA JoinedIsMost ==
    ASSUME NEW S \in SUBSET Verdict, NEW v \in S
    PROVE  v <= Joined(S)
<1>1. \E w \in S : \A u \in S : reconcile(u, w) = w
  <2>1. CASE PASS \in S
    BY <2>1 DEF reconcile, Verdict, NONE, ABSENT, FAIL, PASS
  <2>2. CASE PASS \notin S /\ FAIL \in S
    BY <2>2 DEF reconcile, Verdict, NONE, ABSENT, FAIL, PASS
  <2>3. CASE PASS \notin S /\ FAIL \notin S /\ ABSENT \in S
    BY <2>3 DEF reconcile, Verdict, NONE, ABSENT, FAIL, PASS
  <2>4. CASE S = {NONE}
    BY <2>4 DEF reconcile
  <2> QED  BY <2>1, <2>2, <2>3, <2>4 DEF Verdict
<1>2. Joined(S) \in S /\ reconcile(v, Joined(S)) = Joined(S)
  BY <1>1 DEF Joined
<1>3. v \in Verdict /\ Joined(S) \in Verdict
  BY <1>2
<1> DEFINE j == Joined(S)
<1>5. j \in Verdict /\ reconcile(v, j) = j
  BY <1>2, <1>3
<1> HIDE DEF j
<1>6. v <= j
  BY <1>3, <1>5 DEF reconcile, Verdict, NONE, ABSENT, FAIL, PASS
<1> QED  BY <1>6 DEF j

\* The single judge sees what an honest worker of the deal's cell sees.
LEMMA DeservedIsHonest ==
    ASSUME NEW k \in Deals
    PROVE  Deserved(k) = VerdictOn(Observed(deadline_idx[k], shard_of[k]), k,
                                   Due(deadline_idx[k]), shard_of[k])
<1> DEFINE slot == slot_at(EPOCH, deadline_idx[k])
           kept == KeptFor(Observed(deadline_idx[k], shard_of[k]), k,
                           Due(deadline_idx[k]), shard_of[k])
<1>1. OwnBlobs(k) = kept
  BY DEF OwnBlobs, KeptFor, Observed, read, in_submit_window, Due
<1>2. VerdictOn(Observed(deadline_idx[k], shard_of[k]), k, Due(deadline_idx[k]), shard_of[k])
          = IF kept = {} THEN ABSENT
            ELSE IF da[Earliest(kept)].payload = k THEN PASS ELSE FAIL
  BY DEF VerdictOn, verify_bundle
<1> HIDE DEF kept
<1>3. CASE kept = {}
  BY <1>1, <1>2, <1>3 DEF Deserved
<1>4. CASE kept # {}
  BY <1>1, <1>2, <1>4 DEF Deserved
<1> QED  BY <1>3, <1>4

\* What an honest answer says of a deal is what the deal deserves.
LEMMA HonestIsDeserved ==
    ASSUME NEW res, NEW d \in DeadlineIdxs, NEW s \in Shards, HonestAnswer(res, d, s),
           NEW k \in Answered(res)
    PROVE  k \in Deals /\ res.verdicts[k] = Deserved(k)
<1>1. res.verdicts = [j \in expected_for(d, s) |-> VerdictOn(Observed(d, s), j, Due(d), s)]
  BY DEF HonestAnswer
<1>2. k \in Deals /\ deadline_idx[k] = d /\ shard_of[k] = s /\ k \in expected_for(d, s)
  BY <1>1 DEF Answered, expected_for
<1> QED  BY <1>1, <1>2, DeservedIsHonest

\* The verdicts that the folded answers give deal k, and what becomes of them.
Given(k) == {res.verdicts[k] : res \in {r \in Flat(folds) : k \in Answered(r)}}

LEMMA LeafIsJoined ==
    ASSUME PipelineInv, SettleInv, Aggregated, NEW k \in DOMAIN leaves
    PROVE  leaves[k] = Joined(Given(k)) /\ Given(k) \in SUBSET Verdict /\ Given(k) # {}
<1>1. leaves = verdicts(Flat(folds)) /\ k \in Keys(Flat(folds))
  BY AnswersOfFolds DEF SettleInv, LeavesInv
<1>2. leaves[k] = Joined(Given(k))
  BY <1>1 DEF verdicts, Given
<1>3. Given(k) \in SUBSET Verdict
  BY AnswersOfFolds DEF Given, Rests
<1>4. Given(k) # {}
  BY <1>1 DEF Given, Keys
<1> QED  BY <1>2, <1>3, <1>4

-----------------------------------------------------------------------------
(***************************************************************************)
(* The theorems.                                                            *)
(***************************************************************************)

\* Type correctness; the chain is in the order of heights.
THEOREM PipelineTypeCorrect == Spec => []TypeOK
<1>1. PipelineInv /\ SettleInv => TypeOK
  <2> SUFFICES ASSUME PipelineInv, SettleInv PROVE TypeOK
    OBVIOUS
  <2>1. \A res \in childproofs :
            /\ Cell(res) \in expected_cells(Deadlines)
            /\ res.verdicts \in UNION {[S -> Verdict] : S \in SUBSET (Deals \cup OtherDeals)}
    BY DEF SettleInv, AnswersInv, AnswerType, Cell, expected_cells, Shards
  <2>2. \A f \in folds : f.deadline \in Deadlines /\ f.shard_results \subseteq childproofs
    BY DEF SettleInv, FoldsInv, PipelineInv, FoldsAreOfAnswers
  <2>3. honest \subseteq childproofs /\ height \in Nat /\ da \in Seq(Blob)
        /\ \A i, j \in DOMAIN da : i <= j => da[i].height <= da[j].height
    BY DEF SettleInv, HonestInv, ChainInv, PipelineInv
  <2> QED  BY <2>1, <2>2, <2>3 DEF TypeOK
<1> QED  BY <1>1, SettleInvariant, PTL

\* With an honest answer in every cell, the count of leaves leaves no room for
\* another set of deals than the registry's (aggregate_epoch).
THEOREM SettlesTheRegistry == Spec => []ExactlyTheRegistry
<1>1. PipelineInv /\ SettleInv => ExactlyTheRegistry
  BY LeavesOfRegistry DEF ExactlyTheRegistry
<1> QED  BY <1>1, SettleInvariant, PTL

\* What an honest worker saw is never outweighed by less (reconcile).
THEOREM EvidenceStands == Spec => []HonestEvidenceStands
<1>1. PipelineInv /\ SettleInv => HonestEvidenceStands
  <2> SUFFICES ASSUME PipelineInv, SettleInv, Aggregated, HonestEverywhere, NEW k \in Deals
               PROVE  leaves[k] >= Deserved(k)
    BY DEF HonestEvidenceStands
  <2>1. k \in DOMAIN leaves
    BY LeavesOfRegistry
  <2>2. deadline_idx[k] \in DeadlineIdxs /\ shard_of[k] \in Shards
    BY DealAssumption DEF Shards
  <2>3. PICK res \in honest \cap Flat(folds) :
            HonestAnswer(res, deadline_idx[k], shard_of[k])
    BY <2>2, HonestOfCell
  <2>4. k \in Answered(res)
    BY <2>3 DEF HonestAnswer, Answered, expected_for
  <2>5. Deserved(k) \in Given(k)
    BY <2>2, <2>3, <2>4, HonestIsDeserved DEF Given
  <2>6. leaves[k] = Joined(Given(k)) /\ Given(k) \in SUBSET Verdict /\ Given(k) # {}
    BY <2>1, LeafIsJoined
  <2>7. Deserved(k) <= Joined(Given(k)) /\ Joined(Given(k)) \in Verdict
    BY <2>5, <2>6, JoinedIsMost, JoinedIsOne
  <2>8. Deserved(k) \in Int /\ Joined(Given(k)) \in Int
    BY <2>5, <2>6, <2>7 DEF Verdict, NONE, ABSENT, FAIL, PASS
  <2> QED  BY <2>6, <2>7, <2>8
<1> QED  BY <1>1, SettleInvariant, PTL

\* Honest workers, in whatever order they answer: every deal of the registry gets
\* the verdict of its own blobs, and nobody else gets one (verify_shard,
\* reconcile_shard_results, aggregate_epoch).
THEOREM VerdictsAreDeserved == Spec => []LeavesAreDeserved
<1>1. PipelineInv /\ SettleInv => LeavesAreDeserved
  <2> SUFFICES ASSUME PipelineInv, SettleInv, Aggregated, childproofs = honest
               PROVE  leaves = [k \in Deals |-> Deserved(k)]
    BY DEF LeavesAreDeserved
  <2>1. Flat(folds) \subseteq honest
    BY AnswersOfFolds
  <2>2. HonestEverywhere
    <3>1. covered_cells(Flat(folds)) = expected_cells(Deadlines)
      BY AnswersOfFolds DEF expected_cells, Shards
    <3> QED  BY <2>1, <3>1 DEF HonestEverywhere, covered_cells
  <2>3. DOMAIN leaves = Deals
    BY <2>2, LeavesOfRegistry
  <2>4. ASSUME NEW k \in Deals PROVE leaves[k] = Deserved(k)
    <3>1. leaves[k] = Joined(Given(k)) /\ Given(k) \in SUBSET Verdict /\ Given(k) # {}
      BY <2>3, LeafIsJoined
    <3>2. \A v \in Given(k) : v = Deserved(k)
      <4> SUFFICES ASSUME NEW res \in Flat(folds), k \in Answered(res)
                   PROVE  res.verdicts[k] = Deserved(k)
        BY DEF Given
      <4>1. \E d \in DeadlineIdxs, s \in Shards : HonestAnswer(res, d, s)
        BY <2>1 DEF SettleInv, HonestInv
      <4> QED  BY <4>1, HonestIsDeserved
    <3> QED  BY <3>1, <3>2, JoinedIsOne
  <2>5. leaves = [k \in DOMAIN leaves |-> leaves[k]]
    BY AnswersOfFolds
  <2> QED  BY <2>3, <2>4, <2>5
<1> QED  BY <1>1, SettleInvariant, PTL
=============================================================================
