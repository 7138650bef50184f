---------------------------- MODULE EngramManager ----------------------------
(***************************************************************************)
(* The EngramManager contract: all its handlers over one storage, the       *)
(* passing of blocks, and the properties of the whole.                      *)
(***************************************************************************)
EXTENDS EngramEpochs

Init ==
    /\ providers = [p \in Providers |-> NoProviderRecord]
    /\ deals = [d \in Deals |-> NoDealRecord]
    /\ activeDealCount = 0
    /\ membershipLog = EmptyRegistry
    /\ snapshotForCurrentEpoch = EmptyRegistry
    /\ expectedDealCount = 0
    /\ epochs = [e \in EpochIds |-> NoEpochRecord]
    /\ lastCommittedEpoch = 0
    /\ settlementClaimed = {}
    /\ lastClaimedEpoch = [p \in Providers |-> 0]
    /\ aggregators = [a \in AggIds |-> NoAggregatorRecord]
    /\ aggregatorSet = << >>
    /\ aggRotation = 0
    /\ blocksSinceDeadlineSet = 0
    /\ balance = 0
    /\ aggWallet = [a \in AggIds |-> AGG_FUNDS]

-----------------------------------------------------------------------------
(***************************************************************************)
(* What the contract owes: the total of a function's values is counted as   *)
(* the number of its coins, one per wei.                                    *)
(***************************************************************************)
CoinsOf(f, x) == {x} \X (1..f[x])
Total(f) == Cardinality(UNION {CoinsOf(f, x) : x \in DOMAIN f})

\* What deal d still entitles its customer or its provider to.
EscrowOf(deal) == IF deal.state \in {"Pending", "Active"} THEN deal.escrowWei ELSE 0
FeeOf(deal) ==
    IF deal.state = "Pending" /\ ~deal.sealingFeeReleased THEN deal.sealingFeeWei ELSE 0
OwedFor(deal) == EscrowOf(deal) + FeeOf(deal)

Liabilities ==
    Total([p \in Providers |-> providers[p].collateralWei])
      + Total([d \in Deals |-> OwedFor(deals[d])])
      + Total([a \in AggIds |-> aggregators[a].collateralWei])

Surplus == balance - Liabilities

-----------------------------------------------------------------------------
Accounts == AggIds \cup {Outsider}

\* A block is mined.
Tick ==
    /\ blocksSinceDeadlineSet' = IF blocksSinceDeadlineSet < LastBlock
                                 THEN blocksSinceDeadlineSet + 1
                                 ELSE LastBlock
    /\ UNCHANGED <<providerVars, dealVars, membershipVars, epochVars,
                   settlementVars, aggVars, balance>>

\* The payable fallback: ether that belongs to nobody.
Receive(value) ==
    /\ Surplus + value <= MAX_GIFTS
    /\ balance' = balance + value
    /\ UNCHANGED <<providerVars, dealVars, membershipVars, epochVars,
                   settlementVars, aggVars, blocksSinceDeadlineSet>>

ProviderNext == \E p \in Providers :
    \/ \E signer \in Signers, capacity \in CAPACITIES, value \in DEPOSITS :
          RegisterProvider(p, signer, capacity, value)
    \/ \E newAddr \in CHANGES : RequestCelestiaAddressChange(p, newAddr)
    \/ ApplyCelestiaAddressChange(p)
    \/ RequestCollateralWithdraw(p)
    \/ \E amount \in 0..MAX_COLLATERAL : WithdrawCollateral(p, amount)

DealNext == \E d \in Deals :
    \/ \E p \in Providers, price \in PRICES, duration \in DURATIONS, fee \in FEES :
          OpenDeal(d, p, price, duration, fee)
    \/ \E sealed \in BOOLEAN : RegisterSealed(d, sealed)
    \/ Activate(d)
    \/ AbortDeal(d)
    \/ CloseExpiredDeal(d)

AggregatorNext ==
    \/ \E a \in AggIds, value \in DEPOSITS : RegisterAggregator(a, value)
    \/ \E reporter \in Accounts : ReportAggregatorTimeout(reporter)
    \/ \E a \in AggIds : RequestAggregatorWithdraw(a)
    \/ \E a \in AggIds : \E amount \in 0..aggregators[a].collateralWei :
          WithdrawAggregatorCollateral(a, amount)

CommitBy(submitter) == \E list \in SettlementLists, saturation \in SATURATIONS :
    CommitEpoch(submitter, list, saturation)

EpochNext ==
    \/ \E submitter \in Accounts : CommitBy(submitter)
    \/ \E epoch \in EpochIds : FinalizeEpoch(epoch) \/ VoidEpoch(epoch)
    \/ \E sender \in Providers \cup {Outsider}, epoch \in EpochIds, d \in Deals :
          ClaimSettlement(sender, epoch, d)

Next ==
    \/ ProviderNext
    \/ DealNext
    \/ AggregatorNext
    \/ EpochNext
    \/ Tick
    \/ \E value \in DEPOSITS : Receive(value)

Spec == Init /\ [][Next]_vars

\* Blocks keep coming, and one prover outside the aggregator set keeps
\* submitting its proof.  Nothing is asked of aggregators, reporters or relays.
FairSpec == Spec /\ WF_vars(Tick) /\ WF_vars(CommitBy(Outsider))

-----------------------------------------------------------------------------
(***************************************************************************)
(* Invariants.                                                              *)
(***************************************************************************)

\* Every field of the storage keeps its type, and no counter goes below zero.
TypeOK ==
    /\ providers \in [Providers -> StorageProvider]
    /\ deals \in [Deals -> StorageDeal]
    /\ activeDealCount \in Nat
    /\ membershipLog \in MembershipRegistry
    /\ snapshotForCurrentEpoch \in MembershipRegistry
    /\ expectedDealCount \in Nat
    /\ epochs \in [EpochIds -> EpochRecord]
    /\ lastCommittedEpoch \in 0..MAX_EPOCH
    /\ settlementClaimed \subseteq EpochIds \X Deals
    /\ lastClaimedEpoch \in [Providers -> Nat]
    /\ aggregators \in [AggIds -> AggregatorInfo]
    /\ aggregatorSet \in Seq(AggIds)
    /\ aggRotation \in 0..(ROTATION_WRAP - 1)
    /\ blocksSinceDeadlineSet \in 0..LastBlock
    /\ balance \in Nat
    /\ aggWallet \in [AggIds -> Nat]

\* The slots a provider has in use are its Pending and Active deals, whichever
\* of abort and close released the others (openDeal, abortDeal, closeExpiredDeal).
SlotsAccounted ==
    \A p \in Providers : providers[p].usedSlots = Cardinality(LiveDealsOf(p))

\* Replaying the membership log yields what the contract stores: the Active
\* deals, their number, and each provider's signer; and the frozen count is
\* that of the frozen log.  Otherwise no honest proof has numVerified equal to
\* expectedDealCount and commitEpoch is closed for ever.
RegistryMatchesStorage ==
    /\ membershipLog.active = {d \in Deals : deals[d].state = "Active"}
    /\ activeDealCount = Cardinality(membershipLog.active)
    /\ expectedDealCount = Cardinality(snapshotForCurrentEpoch.active)
    /\ \A p \in Providers : membershipLog.signer[p] = providers[p].celestiaAddress

\* Only a deal that was activated is ever proven, so no leaf can touch the
\* escrow of an aborted deal, which abortDeal refunds but leaves in place.
LeavesAreOfActivatedDeals ==
    /\ \A d \in snapshotForCurrentEpoch.active : deals[d].state \in {"Active", "Closed"}
    /\ \A e \in EpochIds, d \in Deals :
          epochs[e].verdicts[d] # "NoLeaf" => deals[d].state \in {"Active", "Closed"}

\* Money is only ever paid out of epochs that are and stay Final, on leaves
\* that are in their settlement list (finalizeEpoch, voidEpoch, claimSettlement).
ClaimsAreOfFinalLeaves ==
    \A e \in EpochIds, d \in Deals : <<e, d>> \in settlementClaimed =>
        epochs[e].state = "Final" /\ epochs[e].verdicts[d] # "NoLeaf"

\* The epochs up to the last committed one have a proof, those after it do not:
\* voidEpoch cannot open a gap in the chain of epochs, nor can a proof skip one.
EpochsAreContiguous ==
    \A e \in EpochIds :
        /\ e <= lastCommittedEpoch => epochs[e].state # "Open"
        /\ e > lastCommittedEpoch => /\ epochs[e].state \in {"Open", "Void"}
                                     /\ \A d \in Deals : epochs[e].verdicts[d] = "NoLeaf"

\* A provider that may take new deals has collateral for every slot in use,
\* after any interleaving of slashes, withdrawals, closes and registrations.
UnsuspendedIsCovered ==
    \A p \in Providers : ~providers[p].suspended =>
        providers[p].collateralWei >= Locked(providers[p].usedSlots)

PassClaims(d) == {e \in EpochIds : <<e, d>> \in settlementClaimed
                                    /\ epochs[e].verdicts[d] = "PASS"}

\* While a deal is Active its escrow is the price of its whole term less one
\* reward per PASS leaf claimed: no reward is paid twice, or from the escrow of
\* another deal (openDeal, claimSettlement).
EscrowMatchesClaims ==
    \A d \in Deals : deals[d].state = "Active" =>
        deals[d].escrowWei + REWARD_WEI * Cardinality(PassClaims(d))
          = deals[d].pricePerEpochWei * (deals[d].endEpoch - deals[d].openedAtEpoch)

\* The contract's balance covers what it owes: all collateral, all aggregator
\* deposits, the escrow of live deals and the sealing fees not yet released.
Solvent == Surplus >= 0

\* A customer whose deal was never activated in time, or whose deal is over,
\* gets the escrow back: no underflow and no missing ether can block the call.
\* (The actions are these guards and assignments, so the guard is ENABLED.)
RefundsNeverBlocked ==
    \A d \in Deals :
        /\ /\ deals[d].state = "Pending"
           /\ lastCommittedEpoch >= deals[d].openedAtEpoch + ABORT_AFTER_EPOCHS
           => CanAbortDeal(d)
        /\ /\ deals[d].state = "Active"
           /\ lastCommittedEpoch >= deals[d].endEpoch
           => CanCloseExpiredDeal(d)

\* As long as epochs remain there is somebody whose proof commitEpoch accepts: in
\* particular also after a deal has expired and been closed, the case that the
\* tests call the most important one (DealLifecycle.t.sol).
ChainIsNeverStuck ==
    lastCommittedEpoch < MAX_EPOCH =>
        \E submitter \in Accounts, list \in SettlementLists :
            CanCommitEpoch(submitter, list)

\* aggregatorSet lists the registered aggregators, each once, so a turn of the
\* rotation is not worth more to one that registers again to top up.
RotationListsEachOnce ==
    /\ \A i, j \in 1..Len(aggregatorSet) : aggregatorSet[i] = aggregatorSet[j] => i = j
    /\ \A a \in AggIds : aggregators[a].registered
                            <=> \E i \in 1..Len(aggregatorSet) : aggregatorSet[i] = a

-----------------------------------------------------------------------------
(***************************************************************************)
(* Action and liveness properties.                                          *)
(***************************************************************************)

\* No handler pays anyone out of the money of others: whatever leaves the
\* balance was owed, or was slashed in the same step.
NobodyPaysForOthers == [][Surplus' >= Surplus]_vars

\* The signer address under which a provider's blobs are read never changes at
\* once, by whichever handler: a provider about to be failed cannot disown the
\* blobs it has posted (registerProvider, applyCelestiaAddressChange).
SignerChangesOnlyWhenDue ==
    [][\A p \in Providers :
          LET old == providers[p] IN
          /\ old.celestiaAddress # NoAddress
          /\ providers'[p].celestiaAddress # old.celestiaAddress
          => /\ providers'[p].celestiaAddress = old.pendingCelestiaAddress
             /\ lastCommittedEpoch >= old.celestiaChangeEffectiveEpoch]_vars

\* The accounts the contract keeps for others, with the fields and counters it
\* keeps them in left out.
Ledger == INSTANCE EscrowLedger WITH
    Epochs <- EpochIds,
    stage <- [d \in Deals |-> deals[d].state],
    owner <- [d \in Deals |-> deals[d].provider],
    escrow <- [d \in Deals |-> EscrowOf(deals[d])],
    fee <- [d \in Deals |-> FeeOf(deals[d])],
    collateral <- [p \in Providers |-> providers[p].collateralWei],
    paid <- settlementClaimed

\* The contract is such a ledger: each of its steps moves the accounts of one deal
\* or one provider as the ledger allows, or moves none.  In particular collateral
\* is tied up by the deals themselves, however the slot counter got to where it
\* is; an activated deal has paid its sealing fee; and a leaf settled late, after
\* its deal was closed, takes nothing from the escrow.
ImplementsLedger == Ledger!Spec

\* A silent or hostile aggregator set cannot stall the chain: every report of a
\* timeout costs the designated aggregator part of its deposit, so in the end
\* the gate of commitEpoch is open to any prover.
EpochsKeepComing ==
    \A e \in 0..(MAX_EPOCH - 1) :
        (lastCommittedEpoch = e) ~> (lastCommittedEpoch > e)

-----------------------------------------------------------------------------
(***************************************************************************)
(* What comments and tests of the repository say, and the code does not do. *)
(***************************************************************************)

Unpaid(d, verdict) ==
    {e \in EpochIds : /\ epochs[e].state \in {"Committed", "Final"}
                      /\ epochs[e].verdicts[d] = verdict
                      /\ <<e, d>> \notin settlementClaimed}

\* "Closing an expired deal harms nobody", "what is left is exactly the unused
\* part" (closeExpiredDeal): what it refunds is not owed to the provider.
CloseRefundsOnlyUnused ==
    [][\A d \in Deals :
          deals[d].state = "Active" /\ deals'[d].state = "Closed"
          => deals[d].escrowWei = 0 \/ Unpaid(d, "PASS") = {}]_vars

\* "Only when nobody could commit ... is it cancelled" (voidEpoch): an epoch
\* that has been committed is not voided.
CommittedIsNotVoided ==
    [][\A e \in EpochIds : epochs[e].state = "Committed"
                            => epochs'[e].state # "Void"]_vars
=============================================================================
