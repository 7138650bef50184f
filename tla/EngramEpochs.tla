----------------------------- MODULE EngramEpochs -----------------------------
(***************************************************************************)
(* The handlers of EngramManager about epochs: commit, finalize, void, and  *)
(* the pull settlement of the leaves an epoch's resultsRoot commits to.     *)
(***************************************************************************)
EXTENDS EngramDeals, EngramAggregators

notEpochHandlers == <<providers, deals, activeDealCount, membershipLog>>

-----------------------------------------------------------------------------
(***************************************************************************)
(* The settlement list an accepted proof commits to: one leaf per deal of   *)
(* the frozen registry, with the amounts the aggregator gives a verdict.    *)
(***************************************************************************)
RewardOf(verdict) == IF verdict = "PASS" THEN REWARD_WEI ELSE 0
SlashOf(verdict) == IF verdict = "FAIL" THEN SLASH_WEI ELSE 0

SettlementLists == {v \in [Deals -> VERDICTS \cup {"NoLeaf"}] :
    \A d \in Deals : v[d] = "NoLeaf" <=> d \notin snapshotForCurrentEpoch.active}

numVerified_PassedOnly(list) == Cardinality({d \in Deals : list[d] = "PASS"})

numVerified(list) == Cardinality({d \in Deals : list[d] # "NoLeaf"})

-----------------------------------------------------------------------------
\* No check of commitEpoch rejects this submitter with this settlement list:
\* before the deadline the designated aggregator alone is heard, and the list
\* counts as many deals as the epoch's frozen registry had.
CanCommitEpoch(submitter, list) ==
    /\ lastCommittedEpoch + 1 \in EpochIds
    /\ \/ designatedAggregator = NoAddress
       \/ DeadlinePassed
       \/ submitter = designatedAggregator
    /\ list \in SettlementLists
    /\ numVerified(list) = expectedDealCount

\* A valid aggregator proof for the next epoch, proven for this submitter on
\* the frozen registry.  A Void record under this epoch number is overwritten.
CommitEpoch(submitter, list, saturation) ==
    LET epoch == lastCommittedEpoch + 1
    IN  /\ CanCommitEpoch(submitter, list)
        /\ epochs' = [epochs EXCEPT ![epoch] =
              [state |-> "Committed", verdicts |-> list,
               windowSaturation |-> saturation]]
        /\ lastCommittedEpoch' = epoch
        /\ blocksSinceDeadlineSet' = 0
        /\ aggRotation' = IF aggregatorSet # << >> THEN NextRotation
                                                   ELSE aggRotation
        /\ snapshotForCurrentEpoch' = membershipLog
        /\ expectedDealCount' = activeDealCount
        /\ UNCHANGED <<notEpochHandlers, settlementVars, aggregators,
                       aggregatorSet, aggWallet, balance>>

MayFinalize_Uncommitted(epoch) == epochs[epoch].state \in {"Open", "Committed"}
MayFinalize(epoch) == epochs[epoch].state = "Committed"

MayVoid_AlsoFinal(epoch) == GracePassed
MayVoid(epoch) == GracePassed /\ epochs[epoch].state # "Final"

\* The relay has carried the block that holds the settlement list to Blobstream.
FinalizeEpoch(epoch) ==
    /\ MayFinalize(epoch)
    /\ epochs' = [epochs EXCEPT ![epoch].state = "Final"]
    /\ UNCHANGED <<notEpochHandlers, snapshotForCurrentEpoch, expectedDealCount,
                   lastCommittedEpoch, settlementVars, aggVars,
                   blocksSinceDeadlineSet, balance>>

\* Anyone, for any epoch number that is not Final, once the next commit is late
\* by more than the grace period.
VoidEpoch(epoch) ==
    /\ MayVoid(epoch)
    /\ epochs' = [epochs EXCEPT ![epoch].state = "Void"]
    /\ UNCHANGED <<notEpochHandlers, snapshotForCurrentEpoch, expectedDealCount,
                   lastCommittedEpoch, settlementVars, aggVars,
                   blocksSinceDeadlineSet, balance>>

-----------------------------------------------------------------------------
SlashTaken_Uncapped(p, verdict) == SlashOf(verdict)
HunterBounty_OfDeclared(sender, p, verdict, saturation) ==
    IF sender # p /\ saturation < WINDOW_SATURATION_THRESHOLD
    THEN Bounty(SlashOf(verdict))
    ELSE 0

\* What a FAIL leaf really takes: never more than the provider still has.
SlashTaken(p, verdict) ==
    IF SlashOf(verdict) > providers[p].collateralWei
    THEN providers[p].collateralWei
    ELSE SlashOf(verdict)

\* The hunter's share, unless the provider claims its own leaf or the epoch's
\* windows were congested.
HunterBounty(sender, p, verdict, saturation) ==
    IF sender # p /\ saturation < WINDOW_SATURATION_THRESHOLD
    THEN Bounty(SlashTaken(p, verdict))
    ELSE 0

\* The path from deal d's leaf leads to the resultsRoot of the epoch.
InResults(epoch, d) == epochs[epoch].verdicts[d] # "NoLeaf"

\* A leaf is marked by its digest.  The other fields of a leaf that is in the
\* results follow from the epoch and the deal, which the digest covers too.
Unclaimed_Any(epoch, d) == TRUE
Unclaimed(epoch, d) == <<epoch, d>> \notin settlementClaimed

\* Anyone presents the leaf of deal d in a Final epoch with its Merkle path.
ClaimSettlement(sender, epoch, d) ==
    LET p == deals[d].provider
        verdict == epochs[epoch].verdicts[d]
        reward == RewardOf(verdict)
        collateral == providers[p].collateralWei - SlashTaken(p, verdict)
        bounty == HunterBounty(sender, p, verdict, epochs[epoch].windowSaturation)
        net == IF reward > bounty THEN reward - bounty ELSE 0
    IN  /\ epochs[epoch].state = "Final"
        /\ InResults(epoch, d)
        /\ Unclaimed(epoch, d)
        /\ deals[d].escrowWei >= reward
        /\ net + bounty <= balance
        /\ settlementClaimed' = settlementClaimed \cup {<<epoch, d>>}
        /\ lastClaimedEpoch' = [lastClaimedEpoch EXCEPT
              ![p] = IF epoch > @ THEN epoch ELSE @]
        /\ providers' = [providers EXCEPT
              ![p].collateralWei = collateral,
              ![p].suspended = @ \/ (SlashOf(verdict) > 0
                                     /\ collateral < Locked(providers[p].usedSlots))]
        /\ deals' = [deals EXCEPT ![d].escrowWei = @ - reward]
        /\ balance' = balance - net - bounty
        /\ UNCHANGED <<activeDealCount, membershipVars, epochVars, aggVars,
                       blocksSinceDeadlineSet>>
=============================================================================
