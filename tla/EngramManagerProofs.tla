------------------------- MODULE EngramManagerProofs -------------------------
(***************************************************************************)
(* Theorems about EngramManager, for every value of its constants.          *)
(***************************************************************************)
EXTENDS EngramManager, TLAPS, FiniteSetTheorems, WellFoundedInduction

-----------------------------------------------------------------------------
(***************************************************************************)
(* The inductive invariant behind type correctness.  TypeOK alone is not     *)
(* inductive: claimSettlement reads providers[deal.provider], which is a     *)
(* provider's record only because a leaf is always of an activated deal, and *)
(* that holds because the log lists Active deals only.                       *)
(***************************************************************************)
DealsKnowTheirProvider ==
    \A d \in Deals : deals[d].state # "None" => deals[d].provider \in Providers

LogListsActiveDeals ==
    membershipLog.active = {d \in Deals : deals[d].state = "Active"}

TypeInv ==
    /\ TypeOK
    /\ DealsKnowTheirProvider
    /\ LogListsActiveDeals
    /\ LeavesAreOfActivatedDeals

\* The part of TypeInv that is about deals.
DealInv == DealsKnowTheirProvider /\ LogListsActiveDeals /\ LeavesAreOfActivatedDeals

-----------------------------------------------------------------------------
(***************************************************************************)
(* Lemmas about the helpers.                                                *)
(***************************************************************************)

\* A share in basis points of an amount is between nothing and all of it.
LEMMA ShareIsPart ==
    ASSUME NEW amount \in Nat, NEW bps \in Nat, bps <= BPS_BASE
    PROVE  BpsOf(amount, bps) \in 0..amount
<1>1. amount * bps \in Nat /\ amount * bps <= amount * BPS_BASE
  BY ParamAssumption
<1>2. (amount * bps) \div BPS_BASE \in Nat
  BY <1>1, ParamAssumption
<1>3. (amount * bps) \div BPS_BASE <= amount
  BY <1>1, ParamAssumption
<1> QED BY <1>2, <1>3 DEF BpsOf

\* A non-empty set of natural numbers has a least element, and Min finds it.
LEMMA MinIsMember ==
    ASSUME NEW S \in SUBSET Nat, S # {}
    PROVE  Min(S) \in S
<1>1. PICK least \in S : \A n \in S : <<n, least>> \notin OpToRel(<, Nat)
  BY WFMin, NatLessThanWellFounded, Zenon
<1>2. \A n \in S : ~(n < least)
  BY <1>1, Zenon DEF OpToRel
<1>3. \E x \in S : \A y \in S : x <= y
  BY <1>2
<1> QED BY <1>3 DEF Min

\* The designated aggregator is one that registered.
LEMMA DesignatedIsAggregator ==
    ASSUME TypeOK, designatedAggregator # NoAddress
    PROVE  designatedAggregator \in AggIds
<1> DEFINE funded == {i \in 0..(Len(aggregatorSet) - 1) :
              aggregators[Candidate(i)].collateralWei >= MIN_AGG_COLLATERAL}
<1>1. aggregatorSet \in Seq(AggIds) /\ aggRotation \in Nat
  BY RotationAssumption, InputAssumption DEF TypeOK
<1>2. funded # {} /\ designatedAggregator = Candidate(Min(funded))
  BY DEF designatedAggregator
<1>3. Min(funded) \in 0..(Len(aggregatorSet) - 1)
  <2>1. funded \in SUBSET Nat BY <1>1
  <2> QED BY <1>2, <2>1, MinIsMember
<1>4. Len(aggregatorSet) \in Nat \ {0} BY <1>1, <1>3
<1>5. ((aggRotation + Min(funded)) % Len(aggregatorSet)) + 1 \in 1..Len(aggregatorSet)
  BY <1>1, <1>3, <1>4
<1>6. Candidate(Min(funded)) \in AggIds
  BY <1>1, <1>5 DEF Candidate
<1> QED BY <1>2, <1>6

\* The rotation counter stays below its modulus.
LEMMA NextRotationInRange ==
    ASSUME TypeOK
    PROVE  NextRotation \in 0..(ROTATION_WRAP - 1)
BY InputAssumption DEF TypeOK, NextRotation

-----------------------------------------------------------------------------
(***************************************************************************)
(* What a group of handlers leaves alone.                                   *)
(***************************************************************************)
LEMMA ProviderNextFrame ==
    ASSUME ProviderNext
    PROVE  UNCHANGED <<dealVars, notDealHandlers>>
<1>1. PICK p \in Providers :
        \/ \E signer \in Signers, capacity \in CAPACITIES, value \in DEPOSITS :
              RegisterProvider(p, signer, capacity, value)
        \/ \E newAddr \in CHANGES : RequestCelestiaAddressChange(p, newAddr)
        \/ ApplyCelestiaAddressChange(p)
        \/ RequestCollateralWithdraw(p)
        \/ \E amount \in 0..MAX_COLLATERAL : WithdrawCollateral(p, amount)
  BY Zenon DEF ProviderNext
<1>2. CASE \E signer \in Signers, capacity \in CAPACITIES, value \in DEPOSITS :
              RegisterProvider(p, signer, capacity, value)
  BY <1>2 DEF RegisterProvider
<1>3. CASE \E newAddr \in CHANGES : RequestCelestiaAddressChange(p, newAddr)
  BY <1>3 DEF RequestCelestiaAddressChange
<1>4. CASE ApplyCelestiaAddressChange(p)
  BY <1>4 DEF ApplyCelestiaAddressChange
<1>5. CASE RequestCollateralWithdraw(p)
  BY <1>5 DEF RequestCollateralWithdraw
<1>6. CASE \E amount \in 0..MAX_COLLATERAL : WithdrawCollateral(p, amount)
  BY <1>6 DEF WithdrawCollateral, StaysCovered
<1> QED BY <1>1, <1>2, <1>3, <1>4, <1>5, <1>6

\* The log entry of a provider is about its signer, not about deals.
LEMMA LogProviderKeepsActive ==
    ASSUME membershipLog \in MembershipRegistry, NEW p \in Providers, NEW signer
    PROVE  LogProvider(p, signer).active = membershipLog.active
BY DEF LogProvider, MembershipRegistry

LEMMA ProviderNextLog ==
    ASSUME membershipLog \in MembershipRegistry, ProviderNext
    PROVE  membershipLog'.active = membershipLog.active
<1>1. PICK p \in Providers :
        \/ \E signer \in Signers, capacity \in CAPACITIES, value \in DEPOSITS :
              RegisterProvider(p, signer, capacity, value)
        \/ \E newAddr \in CHANGES : RequestCelestiaAddressChange(p, newAddr)
        \/ ApplyCelestiaAddressChange(p)
        \/ RequestCollateralWithdraw(p)
        \/ \E amount \in 0..MAX_COLLATERAL : WithdrawCollateral(p, amount)
  BY Zenon DEF ProviderNext
<1>2. CASE \E signer \in Signers, capacity \in CAPACITIES, value \in DEPOSITS :
              RegisterProvider(p, signer, capacity, value)
  <2>1. PICK signer \in Signers : membershipLog' = LogProvider(p, signer)
    BY <1>2 DEF RegisterProvider
  <2> QED BY <2>1, LogProviderKeepsActive
<1>3. CASE \E newAddr \in CHANGES : RequestCelestiaAddressChange(p, newAddr)
  BY <1>3 DEF RequestCelestiaAddressChange
<1>4. CASE ApplyCelestiaAddressChange(p)
  <2>1. \E signer : membershipLog' = LogProvider(p, signer)
    BY <1>4 DEF ApplyCelestiaAddressChange
  <2> QED BY <2>1, LogProviderKeepsActive
<1>5. CASE RequestCollateralWithdraw(p)
  BY <1>5 DEF RequestCollateralWithdraw
<1>6. CASE \E amount \in 0..MAX_COLLATERAL : WithdrawCollateral(p, amount)
  BY <1>6 DEF WithdrawCollateral, StaysCovered
<1> QED BY <1>1, <1>2, <1>3, <1>4, <1>5, <1>6

LEMMA DealNextFrame ==
    ASSUME DealNext
    PROVE  UNCHANGED notDealHandlers
<1>1. PICK d \in Deals :
        \/ \E p \in Providers, price \in PRICES, duration \in DURATIONS, fee \in FEES :
              OpenDeal(d, p, price, duration, fee)
        \/ \E sealed \in BOOLEAN : RegisterSealed(d, sealed)
        \/ Activate(d)
        \/ AbortDeal(d)
        \/ CloseExpiredDeal(d)
  BY Zenon DEF DealNext
<1>2. CASE \E p \in Providers, price \in PRICES, duration \in DURATIONS, fee \in FEES :
              OpenDeal(d, p, price, duration, fee)
  BY <1>2 DEF OpenDeal
<1>3. CASE \E sealed \in BOOLEAN : RegisterSealed(d, sealed)
  BY <1>3 DEF RegisterSealed, FeeDue
<1>4. CASE Activate(d)
  BY <1>4 DEF Activate
<1>5. CASE AbortDeal(d)
  BY <1>5 DEF AbortDeal
<1>6. CASE CloseExpiredDeal(d)
  BY <1>6 DEF CloseExpiredDeal
<1> QED BY <1>1, <1>2, <1>3, <1>4, <1>5, <1>6

LEMMA AggregatorNextFrame ==
    ASSUME AggregatorNext
    PROVE  UNCHANGED <<providerVars, dealVars, membershipVars, epochVars, settlementVars>>
<1>1. CASE \E a \in AggIds, value \in DEPOSITS : RegisterAggregator(a, value)
  BY <1>1 DEF RegisterAggregator, Enlisted, notAggHandlers
<1>2. CASE \E reporter \in Accounts : ReportAggregatorTimeout(reporter)
  BY <1>2 DEF ReportAggregatorTimeout, notAggHandlers
<1>3. CASE \E a \in AggIds : RequestAggregatorWithdraw(a)
  BY <1>3 DEF RequestAggregatorWithdraw, notAggHandlers
<1>4. CASE \E a \in AggIds : \E amount \in 0..aggregators[a].collateralWei :
              WithdrawAggregatorCollateral(a, amount)
  BY <1>4 DEF WithdrawAggregatorCollateral, notAggHandlers
<1> QED BY <1>1, <1>2, <1>3, <1>4 DEF AggregatorNext

-----------------------------------------------------------------------------
(***************************************************************************)
(* Every step of the provider and deal handlers preserves TypeOK.           *)
(***************************************************************************)
\* Changing the number of slots in use of one provider keeps the providers' type.
LEMMA SlotsUpdate ==
    ASSUME providers \in [Providers -> StorageProvider], NEW p, NEW n,
           p \in Providers => n \in Nat,
           providers' = [providers EXCEPT ![p].usedSlots = n]
    PROVE  providers' \in [Providers -> StorageProvider]
<1>1. CASE p \notin Providers
  BY <1>1
<1>2. CASE p \in Providers
  <2>1. [providers[p] EXCEPT !.usedSlots = n] \in StorageProvider
    BY <1>2 DEF StorageProvider
  <2> QED BY <1>2, <2>1
<1> QED BY <1>1, <1>2

LEMMA RegisterProviderTypeOK ==
    ASSUME TypeOK, NEW p \in Providers, NEW signer \in Signers,
           NEW capacity \in CAPACITIES, NEW value \in DEPOSITS,
           RegisterProvider(p, signer, capacity, value)
    PROVE  TypeOK'
<1> DEFINE old == providers[p]
           kept == old.suspended /\ old.collateralWei + value < Locked(old.usedSlots)
           new == [old EXCEPT !.celestiaAddress = signer,
                              !.collateralWei = old.collateralWei + value,
                              !.capacitySlots = capacity,
                              !.suspended = kept]
<1>1. /\ capacity \in Nat /\ value \in Nat
      /\ old \in StorageProvider
  BY InputAssumption DEF TypeOK
<1>2. kept \in BOOLEAN
  OBVIOUS
<1>3. old.collateralWei + value \in Nat
  BY <1>1 DEF StorageProvider
<1>4. new \in StorageProvider
  <2> HIDE DEF kept, old
  <2> QED BY <1>1, <1>2, <1>3 DEF StorageProvider
<1>5. providers' = [providers EXCEPT ![p] = new]
  BY DEF RegisterProvider
<1>6. providers' \in [Providers -> StorageProvider]
  <2> HIDE DEF new
  <2> QED BY <1>4, <1>5 DEF TypeOK
<1>7. membershipLog' \in MembershipRegistry
  BY DEF RegisterProvider, LogProvider, MembershipRegistry, TypeOK
<1>8. balance' \in Nat
  BY <1>1 DEF RegisterProvider, TypeOK
<1> QED
  BY <1>6, <1>7, <1>8 DEF RegisterProvider, TypeOK, notDealHandlers, dealVars,
     epochVars, settlementVars, aggVars

LEMMA RequestCelestiaAddressChangeTypeOK ==
    ASSUME TypeOK, NEW p \in Providers, NEW newAddr \in CHANGES,
           RequestCelestiaAddressChange(p, newAddr)
    PROVE  TypeOK'
<1>1. newAddr \in Signers /\ lastCommittedEpoch + 2 \in Nat
  BY InputAssumption DEF TypeOK, Signers
<1>2. providers' \in [Providers -> StorageProvider]
  BY <1>1 DEF RequestCelestiaAddressChange, TypeOK, StorageProvider
<1> QED
  BY <1>2 DEF RequestCelestiaAddressChange, TypeOK, notDealHandlers, dealVars,
     epochVars, settlementVars, aggVars

LEMMA ApplyCelestiaAddressChangeTypeOK ==
    ASSUME TypeOK, NEW p \in Providers, ApplyCelestiaAddressChange(p)
    PROVE  TypeOK'
<1>1. providers' \in [Providers -> StorageProvider]
  BY DEF ApplyCelestiaAddressChange, TypeOK, StorageProvider, Signers
<1>2. membershipLog' \in MembershipRegistry
  BY DEF ApplyCelestiaAddressChange, LogProvider, MembershipRegistry, TypeOK,
     StorageProvider
<1> QED
  BY <1>1, <1>2 DEF ApplyCelestiaAddressChange, TypeOK, notDealHandlers,
     dealVars, epochVars, settlementVars, aggVars

LEMMA RequestCollateralWithdrawTypeOK ==
    ASSUME TypeOK, NEW p \in Providers, RequestCollateralWithdraw(p)
    PROVE  TypeOK'
<1>1. lastCommittedEpoch + 1 \in Nat
  BY InputAssumption DEF TypeOK
<1>2. providers' \in [Providers -> StorageProvider]
  BY <1>1 DEF RequestCollateralWithdraw, TypeOK, StorageProvider
<1> QED
  BY <1>2 DEF RequestCollateralWithdraw, TypeOK, notDealHandlers, dealVars,
     epochVars, settlementVars, aggVars

LEMMA WithdrawCollateralTypeOK ==
    ASSUME TypeOK, NEW p \in Providers, NEW amount \in 0..MAX_COLLATERAL,
           WithdrawCollateral(p, amount)
    PROVE  TypeOK'
<1>1. amount \in Nat /\ providers[p] \in StorageProvider
  BY InputAssumption DEF TypeOK
<1>2. Locked(providers[p].usedSlots) \in Nat
  BY <1>1, ParamAssumption DEF StorageProvider, Locked
<1>3. providers[p].collateralWei - amount \in Nat
  BY <1>1, <1>2 DEF WithdrawCollateral, StaysCovered, StorageProvider
<1>4. providers' \in [Providers -> StorageProvider]
  BY <1>3 DEF WithdrawCollateral, StaysCovered, TypeOK, StorageProvider
<1>5. balance' \in Nat
  BY <1>1 DEF WithdrawCollateral, StaysCovered, TypeOK
<1> QED
  BY <1>4, <1>5 DEF WithdrawCollateral, StaysCovered, TypeOK, notDealHandlers, dealVars,
     epochVars, settlementVars, aggVars

LEMMA OpenDealTypeOK ==
    ASSUME TypeOK, NEW d \in Deals, NEW p \in Providers, NEW price \in PRICES,
           NEW duration \in DURATIONS, NEW fee \in FEES,
           OpenDeal(d, p, price, duration, fee)
    PROVE  TypeOK'
<1>1. /\ price \in Nat /\ duration \in Nat /\ fee \in Nat
      /\ lastCommittedEpoch \in Nat
      /\ providers[p] \in StorageProvider
  BY InputAssumption DEF TypeOK
<1>2. price * duration \in Nat
  BY <1>1
<1> DEFINE escrow == price * duration
           new == [provider |-> p, sealed |-> FALSE,
                   slotIdx |-> providers[p].usedSlots,
                   pricePerEpochWei |-> price, escrowWei |-> escrow,
                   sealingFeeWei |-> fee, sealingFeeReleased |-> FALSE,
                   openedAtEpoch |-> lastCommittedEpoch + 1,
                   endEpoch |-> lastCommittedEpoch + 1 + duration,
                   state |-> "Pending"]
<1>3. new \in StorageDeal
  <2> HIDE DEF escrow
  <2> QED BY <1>1, <1>2 DEF StorageDeal, StorageProvider, DealStates, escrow
<1>4. deals' = [deals EXCEPT ![d] = new]
  BY DEF OpenDeal
<1>5. deals' \in [Deals -> StorageDeal]
  <2> HIDE DEF new
  <2> QED BY <1>3, <1>4 DEF TypeOK
<1>6. providers' \in [Providers -> StorageProvider]
  <2> DEFINE n == providers[p].usedSlots + 1
  <2>1. n \in Nat
    BY <1>1 DEF StorageProvider
  <2>2. providers' = [providers EXCEPT ![p].usedSlots = n]
    BY DEF OpenDeal
  <2> HIDE DEF n
  <2> QED BY <2>1, <2>2, SlotsUpdate DEF TypeOK
<1>7. balance' \in Nat
  <2>1. balance' = balance + escrow + fee /\ escrow \in Nat
    BY <1>2 DEF OpenDeal
  <2> HIDE DEF escrow
  <2> QED BY <1>1, <2>1 DEF TypeOK
<1> QED
  BY <1>5, <1>6, <1>7 DEF OpenDeal, TypeOK, notDealHandlers, epochVars,
     settlementVars, aggVars

\* Sealing changes neither whose a deal is nor its state.
LEMMA SealedKeepsDeals ==
    ASSUME deals \in [Deals -> StorageDeal], NEW d \in Deals, NEW sealed \in BOOLEAN,
           RegisterSealed(d, sealed)
    PROVE  \A c \in Deals : /\ deals'[c].state = deals[c].state
                            /\ deals'[c].provider = deals[c].provider
<1> DEFINE deal == deals[d]
           fee == IF deal.sealingFeeReleased THEN 0 ELSE deal.sealingFeeWei
           released == deal.sealingFeeReleased \/ fee > 0
<1>1. deals' = [deals EXCEPT ![d].sealed = sealed, ![d].sealingFeeReleased = released]
  BY DEF RegisterSealed, FeeDue
<1> HIDE DEF released
<1>2. \A c \in Deals \ {d} : deals'[c] = deals[c]
  BY <1>1
<1>3. deals'[d] = [deals[d] EXCEPT !.sealed = sealed, !.sealingFeeReleased = released]
  BY <1>1
<1>4. deals'[d].state = deals[d].state /\ deals'[d].provider = deals[d].provider
  BY <1>3 DEF StorageDeal
<1> QED BY <1>2, <1>4

LEMMA RegisterSealedTypeOK ==
    ASSUME TypeOK, NEW d \in Deals, NEW sealed \in BOOLEAN,
           RegisterSealed(d, sealed)
    PROVE  TypeOK'
<1> DEFINE deal == deals[d]
           fee == IF deal.sealingFeeReleased THEN 0 ELSE deal.sealingFeeWei
           released == deal.sealingFeeReleased \/ fee > 0
           new == [deal EXCEPT !.sealed = sealed, !.sealingFeeReleased = released]
<1>1. deal \in StorageDeal
  BY DEF TypeOK
<1>2. fee \in Nat
  BY <1>1 DEF StorageDeal
<1>3. released \in BOOLEAN
  OBVIOUS
<1>4. new \in StorageDeal
  <2> HIDE DEF deal, released
  <2> QED BY <1>1, <1>3 DEF StorageDeal
<1>5. deals' = [deals EXCEPT ![d] = new] /\ balance' = balance - fee /\ fee <= balance
  BY DEF RegisterSealed, FeeDue
<1>6. deals' \in [Deals -> StorageDeal]
  <2> HIDE DEF new
  <2> QED BY <1>4, <1>5 DEF TypeOK
<1>7. balance' \in Nat
  <2> HIDE DEF fee
  <2> QED BY <1>2, <1>5 DEF TypeOK
<1> QED
  BY <1>6, <1>7 DEF RegisterSealed, FeeDue, TypeOK, notDealHandlers, providerVars,
     epochVars, settlementVars, aggVars

\* A deal that changes its state, or its state and its escrow, is still a deal.
LEMMA StateUpdate ==
    ASSUME NEW f \in [Deals -> StorageDeal], NEW d \in Deals, NEW s \in DealStates
    PROVE  [f EXCEPT ![d].state = s] \in [Deals -> StorageDeal]
<1>1. [f[d] EXCEPT !.state = s] \in StorageDeal
  BY DEF StorageDeal
<1> QED BY <1>1

LEMMA StateAndEscrowUpdate ==
    ASSUME NEW f \in [Deals -> StorageDeal], NEW d \in Deals,
           NEW s \in DealStates, NEW n \in Nat
    PROVE  [f EXCEPT ![d].state = s, ![d].escrowWei = n] \in [Deals -> StorageDeal]
<1>1. [f[d] EXCEPT !.state = s, !.escrowWei = n] \in StorageDeal
  BY DEF StorageDeal
<1> QED BY <1>1

LEMMA ActivateTypeOK ==
    ASSUME TypeOK, NEW d \in Deals, Activate(d)
    PROVE  TypeOK'
<1>1. deals' \in [Deals -> StorageDeal]
  <2>1. deals' = [deals EXCEPT ![d].state = "Active"] /\ "Active" \in DealStates
    BY DEF Activate, DealStates
  <2> QED BY <2>1, StateUpdate DEF TypeOK
<1>2. membershipLog' \in MembershipRegistry
  BY DEF Activate, LogActive, MembershipRegistry, TypeOK
<1>3. activeDealCount' \in Nat
  BY DEF Activate, TypeOK
<1> QED
  BY <1>1, <1>2, <1>3 DEF Activate, TypeOK, notDealHandlers, providerVars,
     epochVars, settlementVars, aggVars

LEMMA AbortDealTypeOK ==
    ASSUME TypeOK, NEW d \in Deals, AbortDeal(d)
    PROVE  TypeOK'
<1> DEFINE deal == deals[d]
           fee == IF deal.sealingFeeReleased THEN 0 ELSE deal.sealingFeeWei
<1>1. deal.escrowWei \in Nat /\ fee \in Nat
  BY DEF TypeOK, StorageDeal
<1>2. deals' \in [Deals -> StorageDeal]
  <2>1. deals' = [deals EXCEPT ![d].state = "Aborted"] /\ "Aborted" \in DealStates
    BY DEF AbortDeal, DealStates
  <2> QED BY <2>1, StateUpdate DEF TypeOK
<1>3. providers' \in [Providers -> StorageProvider]
  <2> DEFINE p == deal.provider
             n == providers[p].usedSlots - 1
  <2>1. p \in Providers => n \in Nat
    BY DEF AbortDeal, CanAbortDeal, TypeOK, StorageProvider
  <2>2. providers' = [providers EXCEPT ![p].usedSlots = n]
    BY DEF AbortDeal
  <2> HIDE DEF n, p
  <2> QED BY <2>1, <2>2, SlotsUpdate DEF TypeOK
<1>4. membershipLog' \in MembershipRegistry
  BY DEF AbortDeal, LogClosed, MembershipRegistry, TypeOK
<1>5. balance' \in Nat
  <2>1. balance' = balance - (deal.escrowWei + fee) /\ deal.escrowWei + fee <= balance
    BY DEF AbortDeal, CanAbortDeal, Refund, FeeDue
  <2> HIDE DEF fee, deal
  <2> QED BY <1>1, <2>1 DEF TypeOK
<1> QED
  BY <1>2, <1>3, <1>4, <1>5 DEF AbortDeal, TypeOK, notDealHandlers, epochVars,
     settlementVars, aggVars

LEMMA CloseExpiredDealTypeOK ==
    ASSUME TypeOK, NEW d \in Deals, CloseExpiredDeal(d)
    PROVE  TypeOK'
<1>1. deals' \in [Deals -> StorageDeal]
  <2>1. /\ deals' = [deals EXCEPT ![d].state = "Closed", ![d].escrowWei = 0]
        /\ "Closed" \in DealStates
    BY DEF CloseExpiredDeal, DealStates
  <2> QED BY <2>1, StateAndEscrowUpdate DEF TypeOK
<1>2. providers' \in [Providers -> StorageProvider]
  <2> DEFINE p == deals[d].provider
             used == providers[p].usedSlots
             n == IF used > 0 THEN used - 1 ELSE used
  <2>1. p \in Providers => n \in Nat
    BY DEF TypeOK, StorageProvider
  <2>2. providers' = [providers EXCEPT ![p].usedSlots = n]
    BY DEF CloseExpiredDeal
  <2> HIDE DEF n, p
  <2> QED BY <2>1, <2>2, SlotsUpdate DEF TypeOK
<1>3. membershipLog' \in MembershipRegistry
  BY DEF CloseExpiredDeal, LogClosed, MembershipRegistry, TypeOK
<1>4. activeDealCount' \in Nat
  BY DEF CloseExpiredDeal, TypeOK
<1>5. balance' \in Nat
  BY DEF CloseExpiredDeal, CanCloseExpiredDeal, TypeOK, StorageDeal
<1> QED
  BY <1>1, <1>2, <1>3, <1>4, <1>5 DEF CloseExpiredDeal, TypeOK,
     notDealHandlers, epochVars, settlementVars, aggVars

-----------------------------------------------------------------------------
(***************************************************************************)
(* Every step of the aggregator handlers preserves TypeOK.                  *)
(***************************************************************************)
LEMMA RegisterAggregatorTypeOK ==
    ASSUME TypeOK, NEW a \in AggIds, NEW value \in DEPOSITS,
           RegisterAggregator(a, value)
    PROVE  TypeOK'
<1>1. value \in Nat
  BY InputAssumption
<1>2. aggregators' \in [AggIds -> AggregatorInfo]
  <2> DEFINE n == aggregators[a].collateralWei + value
  <2>1. n \in Nat
    BY <1>1 DEF TypeOK, AggregatorInfo
  <2>2. aggregators' = [aggregators EXCEPT ![a].registered = TRUE,
                                           ![a].collateralWei = n]
    BY DEF RegisterAggregator, Enlisted
  <2> HIDE DEF n
  <2> QED BY <2>1, <2>2 DEF TypeOK, AggregatorInfo
<1>3. aggregatorSet' \in Seq(AggIds)
  BY DEF RegisterAggregator, Enlisted, TypeOK
<1>4. aggWallet' \in [AggIds -> Nat] /\ balance' \in Nat
  BY <1>1 DEF RegisterAggregator, Enlisted, TypeOK
<1> QED
  BY <1>2, <1>3, <1>4 DEF RegisterAggregator, Enlisted, TypeOK, notAggHandlers,
     providerVars, dealVars, membershipVars, epochVars, settlementVars

LEMMA ReportAggregatorTimeoutTypeOK ==
    ASSUME TypeOK, NEW reporter \in Accounts, ReportAggregatorTimeout(reporter)
    PROVE  TypeOK'
<1> DEFINE agg == designatedAggregator
           slashed == BpsOf(aggregators[agg].collateralWei, AGG_TIMEOUT_SLASH_BPS)
           bounty == Bounty(slashed)
<1>1. agg \in AggIds
  BY DesignatedIsAggregator DEF ReportAggregatorTimeout
<1>2. aggregators[agg].collateralWei \in Nat
  BY <1>1 DEF TypeOK, AggregatorInfo
<1>3. slashed \in 0..aggregators[agg].collateralWei
  BY <1>2, ShareIsPart, ParamAssumption
<1>4. bounty \in 0..slashed
  BY <1>2, <1>3, ShareIsPart, ParamAssumption DEF Bounty
<1>5. /\ aggregators' = [aggregators EXCEPT ![agg].collateralWei = @ - slashed]
      /\ bounty <= balance /\ balance' = balance - bounty
      /\ aggWallet' = IF reporter \in AggIds
                      THEN [aggWallet EXCEPT ![reporter] = @ + bounty]
                      ELSE aggWallet
      /\ aggRotation' = NextRotation
      /\ blocksSinceDeadlineSet' = 0
  BY DEF ReportAggregatorTimeout
<1>6. aggregators' \in [AggIds -> AggregatorInfo]
  <2> DEFINE n == aggregators[agg].collateralWei - slashed
  <2>1. n \in Nat
    <3> HIDE DEF slashed, agg
    <3> QED BY <1>2, <1>3
  <2>2. aggregators' = [aggregators EXCEPT ![agg].collateralWei = n]
    BY <1>5
  <2> HIDE DEF n, agg
  <2> QED BY <1>1, <2>1, <2>2 DEF TypeOK, AggregatorInfo
<1>7. aggWallet' \in [AggIds -> Nat] /\ balance' \in Nat
  <2>1. bounty \in Nat BY <1>2, <1>3, <1>4
  <2> HIDE DEF bounty
  <2> QED BY <1>5, <2>1 DEF TypeOK
<1>8. blocksSinceDeadlineSet' \in 0..LastBlock
  BY <1>5, ParamAssumption DEF LastBlock
<1> QED
  BY <1>5, <1>6, <1>7, <1>8, NextRotationInRange DEF ReportAggregatorTimeout,
     TypeOK, notAggHandlers, providerVars, dealVars, membershipVars, epochVars,
     settlementVars

LEMMA RequestAggregatorWithdrawTypeOK ==
    ASSUME TypeOK, NEW a \in AggIds, RequestAggregatorWithdraw(a)
    PROVE  TypeOK'
<1>1. lastCommittedEpoch \in Nat
  BY InputAssumption DEF TypeOK
<1>2. aggregators' \in [AggIds -> AggregatorInfo]
  BY <1>1 DEF RequestAggregatorWithdraw, TypeOK, AggregatorInfo
<1> QED
  BY <1>2 DEF RequestAggregatorWithdraw, TypeOK, notAggHandlers, providerVars,
     dealVars, membershipVars, epochVars, settlementVars

LEMMA WithdrawAggregatorCollateralTypeOK ==
    ASSUME TypeOK, NEW a \in AggIds,
           NEW amount \in 0..aggregators[a].collateralWei,
           WithdrawAggregatorCollateral(a, amount)
    PROVE  TypeOK'
<1>1. aggregators[a].collateralWei \in Nat /\ amount \in Nat
  BY DEF TypeOK, AggregatorInfo
<1>2. aggregators[a].collateralWei - amount \in Nat
  BY <1>1
<1>3. aggregators' \in [AggIds -> AggregatorInfo]
  BY <1>2 DEF WithdrawAggregatorCollateral, TypeOK, AggregatorInfo
<1>4. aggWallet' \in [AggIds -> Nat] /\ balance' \in Nat
  BY <1>1 DEF WithdrawAggregatorCollateral, TypeOK
<1> QED
  BY <1>3, <1>4 DEF WithdrawAggregatorCollateral, TypeOK, notAggHandlers,
     providerVars, dealVars, membershipVars, epochVars, settlementVars

-----------------------------------------------------------------------------
(***************************************************************************)
(* Every step of the epoch handlers preserves TypeOK.                       *)
(***************************************************************************)
LEMMA CommitEpochTypeOK ==
    ASSUME TypeOK, NEW submitter, NEW list \in SettlementLists,
           NEW saturation \in SATURATIONS,
           CommitEpoch(submitter, list, saturation)
    PROVE  TypeOK'
<1> DEFINE epoch == lastCommittedEpoch + 1
           new == [state |-> "Committed", verdicts |-> list,
                   windowSaturation |-> saturation]
<1>1. list \in [Deals -> {"PASS", "FAIL", "NONE", "NoLeaf"}] /\ saturation \in Nat
  BY InputAssumption DEF SettlementLists
<1>2. new \in EpochRecord
  BY <1>1 DEF EpochRecord, EpochStates
<1>3. /\ epoch \in EpochIds
      /\ epochs' = [epochs EXCEPT ![epoch] = new]
      /\ lastCommittedEpoch' = epoch
      /\ blocksSinceDeadlineSet' = 0
      /\ aggRotation' = IF aggregatorSet # << >> THEN NextRotation ELSE aggRotation
      /\ snapshotForCurrentEpoch' = membershipLog
      /\ expectedDealCount' = activeDealCount
  BY DEF CommitEpoch, CanCommitEpoch
<1>4. epochs' \in [EpochIds -> EpochRecord]
  <2> HIDE DEF new
  <2> QED BY <1>2, <1>3 DEF TypeOK
<1>5. lastCommittedEpoch' \in 0..MAX_EPOCH
  BY <1>3, InputAssumption DEF EpochIds
<1>6. blocksSinceDeadlineSet' \in 0..LastBlock
  BY <1>3, ParamAssumption DEF LastBlock
<1>7. aggRotation' \in 0..(ROTATION_WRAP - 1)
  BY <1>3, NextRotationInRange DEF TypeOK
<1> QED
  BY <1>3, <1>4, <1>5, <1>6, <1>7 DEF CommitEpoch, TypeOK, notEpochHandlers,
     settlementVars

LEMMA FinalizeEpochTypeOK ==
    ASSUME TypeOK, NEW epoch \in EpochIds, FinalizeEpoch(epoch)
    PROVE  TypeOK'
<1>1. epochs' \in [EpochIds -> EpochRecord]
  BY DEF FinalizeEpoch, MayFinalize, TypeOK, EpochRecord, EpochStates
<1> QED
  BY <1>1 DEF FinalizeEpoch, MayFinalize, TypeOK, notEpochHandlers, settlementVars, aggVars

LEMMA VoidEpochTypeOK ==
    ASSUME TypeOK, NEW epoch \in EpochIds, VoidEpoch(epoch)
    PROVE  TypeOK'
<1>1. epochs' \in [EpochIds -> EpochRecord]
  BY DEF VoidEpoch, MayVoid, TypeOK, EpochRecord, EpochStates
<1> QED
  BY <1>1 DEF VoidEpoch, MayVoid, TypeOK, notEpochHandlers, settlementVars, aggVars

\* The provider of a deal with a leaf has a record, and the amounts of a claim
\* are natural numbers.
LEMMA LeafProvider ==
    ASSUME TypeInv, NEW epoch \in EpochIds, NEW d \in Deals,
           epochs[epoch].verdicts[d] # "NoLeaf"
    PROVE  deals[d].provider \in Providers
BY DEF TypeInv, LeavesAreOfActivatedDeals, DealsKnowTheirProvider

LEMMA ClaimAmounts ==
    ASSUME TypeOK, NEW p \in Providers, NEW sender, NEW verdict, NEW saturation
    PROVE  /\ RewardOf(verdict) \in Nat
           /\ SlashTaken(p, verdict) \in 0..providers[p].collateralWei
           /\ HunterBounty(sender, p, verdict, saturation) \in 0..SlashTaken(p, verdict)
<1>1. providers[p].collateralWei \in Nat
  BY DEF TypeOK, StorageProvider
<1>2. RewardOf(verdict) \in Nat /\ SlashOf(verdict) \in Nat
  BY ParamAssumption DEF RewardOf, SlashOf
<1>3. SlashTaken(p, verdict) \in 0..providers[p].collateralWei
  BY <1>1, <1>2 DEF SlashTaken
<1>4. Bounty(SlashTaken(p, verdict)) \in 0..SlashTaken(p, verdict)
  BY <1>1, <1>3, ShareIsPart, ParamAssumption DEF Bounty
<1> QED BY <1>1, <1>2, <1>3, <1>4 DEF HunterBounty

LEMMA ClaimSettlementTypeOK ==
    ASSUME TypeInv, NEW sender, NEW epoch \in EpochIds, NEW d \in Deals,
           ClaimSettlement(sender, epoch, d)
    PROVE  TypeOK'
<1> DEFINE p == deals[d].provider
           verdict == epochs[epoch].verdicts[d]
           reward == RewardOf(verdict)
           collateral == providers[p].collateralWei - SlashTaken(p, verdict)
           bounty == HunterBounty(sender, p, verdict, epochs[epoch].windowSaturation)
           net == IF reward > bounty THEN reward - bounty ELSE 0
           susp == providers[p].suspended \/ (SlashOf(verdict) > 0
                        /\ collateral < Locked(providers[p].usedSlots))
           escrow == deals[d].escrowWei - reward
<1>1. TypeOK /\ p \in Providers
  BY LeafProvider DEF ClaimSettlement, InResults, TypeInv
<1>2. providers[p].collateralWei \in Nat /\ deals[d].escrowWei \in Nat
  BY <1>1 DEF TypeOK, StorageProvider, StorageDeal
<1>3. reward \in Nat /\ collateral \in Nat /\ bounty \in Nat
  <2> HIDE DEF p, verdict
  <2> QED BY <1>1, <1>2, ClaimAmounts
<1>4. net \in Nat
  <2> HIDE DEF reward, bounty
  <2> QED BY <1>3
<1>5. escrow \in Nat
  <2>1. deals[d].escrowWei >= reward BY DEF ClaimSettlement, InResults
  <2> HIDE DEF reward
  <2> QED BY <1>2, <1>3, <2>1
<1>6. susp \in BOOLEAN
  OBVIOUS
<1>7. /\ settlementClaimed' = settlementClaimed \cup {<<epoch, d>>}
      /\ lastClaimedEpoch' = [lastClaimedEpoch EXCEPT
            ![p] = IF epoch > @ THEN epoch ELSE @]
      /\ providers' = [providers EXCEPT ![p].collateralWei = collateral,
                                        ![p].suspended = susp]
      /\ deals' = [deals EXCEPT ![d].escrowWei = escrow]
      /\ balance' = balance - net - bounty
      /\ net + bounty <= balance
  BY DEF ClaimSettlement, InResults
<1>8. providers' \in [Providers -> StorageProvider]
  <2>1. [providers[p] EXCEPT !.collateralWei = collateral, !.suspended = susp]
          \in StorageProvider
    <3>1. providers[p] \in StorageProvider BY <1>1 DEF TypeOK
    <3> HIDE DEF p, collateral, susp
    <3> QED BY <1>3, <1>6, <3>1 DEF StorageProvider
  <2> HIDE DEF p, collateral, susp
  <2> QED BY <1>1, <1>7, <2>1 DEF TypeOK
<1>9. deals' \in [Deals -> StorageDeal]
  <2>1. [deals[d] EXCEPT !.escrowWei = escrow] \in StorageDeal
    <3> HIDE DEF escrow
    <3> QED BY <1>1, <1>5 DEF TypeOK, StorageDeal
  <2> HIDE DEF escrow
  <2> QED BY <1>1, <1>7, <2>1 DEF TypeOK
<1>10. balance' \in Nat
  <2> HIDE DEF net, bounty
  <2> QED BY <1>1, <1>3, <1>4, <1>7 DEF TypeOK
<1>11. lastClaimedEpoch' \in [Providers -> Nat]
  BY <1>1, <1>7 DEF TypeOK, EpochIds
<1>12. settlementClaimed' \subseteq EpochIds \X Deals
  BY <1>1, <1>7 DEF TypeOK
<1> QED
  BY <1>1, <1>8, <1>9, <1>10, <1>11, <1>12 DEF ClaimSettlement, InResults, TypeOK,
     membershipVars, epochVars, aggVars

LEMMA TickTypeOK ==
    ASSUME TypeOK, Tick
    PROVE  TypeOK'
<1>1. blocksSinceDeadlineSet \in 0..LastBlock /\ LastBlock \in Nat
  BY ParamAssumption DEF TypeOK, LastBlock
<1>2. blocksSinceDeadlineSet' = IF blocksSinceDeadlineSet < LastBlock
                                THEN blocksSinceDeadlineSet + 1 ELSE LastBlock
  BY DEF Tick
<1>3. blocksSinceDeadlineSet' \in 0..LastBlock
  <2>1. CASE blocksSinceDeadlineSet < LastBlock
    BY <1>1, <1>2, <2>1
  <2>2. CASE ~(blocksSinceDeadlineSet < LastBlock)
    BY <1>1, <1>2, <2>2
  <2> QED
    BY <2>1, <2>2
<1> QED
  BY <1>3 DEF Tick, TypeOK, providerVars, dealVars, membershipVars, epochVars,
     settlementVars, aggVars

LEMMA ReceiveTypeOK ==
    ASSUME TypeOK, NEW value \in DEPOSITS, Receive(value)
    PROVE  TypeOK'
<1>1. balance' \in Nat
  BY InputAssumption DEF Receive, TypeOK
<1> QED
  BY <1>1 DEF Receive, TypeOK, providerVars, dealVars, membershipVars, epochVars,
     settlementVars, aggVars

-----------------------------------------------------------------------------
(***************************************************************************)
(* Every step preserves DealInv.                                            *)
(***************************************************************************)

\* Steps that change no deal's state, nor the log, the snapshot or a leaf.
LEMMA DealInvFrame ==
    ASSUME DealInv,
           \A d \in Deals : /\ deals'[d].state = deals[d].state
                            /\ deals'[d].provider = deals[d].provider,
           membershipLog'.active = membershipLog.active,
           snapshotForCurrentEpoch' = snapshotForCurrentEpoch,
           \A e \in EpochIds : epochs'[e].verdicts = epochs[e].verdicts,
           snapshotForCurrentEpoch.active \subseteq Deals
    PROVE  DealInv'
<1>1. DealsKnowTheirProvider'
  BY DEF DealInv, DealsKnowTheirProvider
<1>2. LogListsActiveDeals'
  BY DEF DealInv, LogListsActiveDeals
<1>3. LeavesAreOfActivatedDeals'
  BY DEF DealInv, LeavesAreOfActivatedDeals
<1> QED BY <1>1, <1>2, <1>3 DEF DealInv

LEMMA ProviderNextDealInv ==
    ASSUME TypeOK, DealInv, ProviderNext
    PROVE  DealInv'
<1>1. deals' = deals /\ snapshotForCurrentEpoch' = snapshotForCurrentEpoch /\ epochs' = epochs
  BY ProviderNextFrame DEF dealVars, notDealHandlers, epochVars
<1>2. membershipLog'.active = membershipLog.active
  BY ProviderNextLog DEF TypeOK
<1> QED
  BY <1>1, <1>2, DealInvFrame DEF TypeOK, MembershipRegistry

LEMMA OpenDealDealInv ==
    ASSUME TypeOK, DealInv, NEW d \in Deals, NEW p \in Providers, NEW price \in PRICES,
           NEW duration \in DURATIONS, NEW fee \in FEES,
           OpenDeal(d, p, price, duration, fee)
    PROVE  DealInv'
<1>1. /\ deals[d].state = "None"
      /\ membershipLog' = membershipLog
      /\ snapshotForCurrentEpoch' = snapshotForCurrentEpoch
      /\ epochs' = epochs
  BY DEF OpenDeal, notDealHandlers, epochVars
<1>2. /\ deals'[d].provider = p /\ deals'[d].state = "Pending"
      /\ \A c \in Deals \ {d} : deals'[c] = deals[c]
  BY DEF OpenDeal, TypeOK
<1>3. DealsKnowTheirProvider'
  BY <1>2 DEF DealInv, DealsKnowTheirProvider
<1>4. LogListsActiveDeals'
  BY <1>1, <1>2 DEF DealInv, LogListsActiveDeals
<1>5. LeavesAreOfActivatedDeals'
  BY <1>1, <1>2 DEF DealInv, LeavesAreOfActivatedDeals, TypeOK, MembershipRegistry
<1> QED BY <1>3, <1>4, <1>5 DEF DealInv

LEMMA RegisterSealedDealInv ==
    ASSUME TypeOK, DealInv, NEW d \in Deals, NEW sealed \in BOOLEAN,
           RegisterSealed(d, sealed)
    PROVE  DealInv'
<1>1. /\ membershipLog' = membershipLog
      /\ snapshotForCurrentEpoch' = snapshotForCurrentEpoch
      /\ epochs' = epochs
  BY DEF RegisterSealed, FeeDue, notDealHandlers, epochVars
<1>2. \A c \in Deals : /\ deals'[c].state = deals[c].state
                       /\ deals'[c].provider = deals[c].provider
  BY SealedKeepsDeals DEF TypeOK
<1> QED BY <1>1, <1>2, DealInvFrame DEF TypeOK, MembershipRegistry

LEMMA ActivateDealInv ==
    ASSUME TypeOK, DealInv, NEW d \in Deals, Activate(d)
    PROVE  DealInv'
<1>1. /\ deals[d].state = "Pending"
      /\ membershipLog'.active = membershipLog.active \cup {d}
      /\ snapshotForCurrentEpoch' = snapshotForCurrentEpoch
      /\ epochs' = epochs
  BY DEF Activate, LogActive, TypeOK, MembershipRegistry, notDealHandlers, epochVars
<1>2. /\ deals'[d].provider = deals[d].provider /\ deals'[d].state = "Active"
      /\ \A c \in Deals \ {d} : deals'[c] = deals[c]
  BY DEF Activate, TypeOK, StorageDeal
<1>3. DealsKnowTheirProvider'
  BY <1>1, <1>2 DEF DealInv, DealsKnowTheirProvider
<1>4. LogListsActiveDeals'
  BY <1>1, <1>2 DEF DealInv, LogListsActiveDeals
<1>5. LeavesAreOfActivatedDeals'
  BY <1>1, <1>2 DEF DealInv, LeavesAreOfActivatedDeals, TypeOK, MembershipRegistry
<1> QED BY <1>3, <1>4, <1>5 DEF DealInv

LEMMA AbortDealDealInv ==
    ASSUME TypeOK, DealInv, NEW d \in Deals, AbortDeal(d)
    PROVE  DealInv'
<1>1. /\ deals[d].state = "Pending"
      /\ membershipLog'.active = membershipLog.active \ {d}
      /\ snapshotForCurrentEpoch' = snapshotForCurrentEpoch
      /\ epochs' = epochs
  BY DEF AbortDeal, CanAbortDeal, LogClosed, TypeOK, MembershipRegistry,
     notDealHandlers, epochVars
<1>2. /\ deals'[d].provider = deals[d].provider /\ deals'[d].state = "Aborted"
      /\ \A c \in Deals \ {d} : deals'[c] = deals[c]
  BY DEF AbortDeal, TypeOK, StorageDeal
<1>3. DealsKnowTheirProvider'
  BY <1>1, <1>2 DEF DealInv, DealsKnowTheirProvider
<1>4. LogListsActiveDeals'
  BY <1>1, <1>2 DEF DealInv, LogListsActiveDeals
<1>5. LeavesAreOfActivatedDeals'
  BY <1>1, <1>2 DEF DealInv, LeavesAreOfActivatedDeals, TypeOK, MembershipRegistry
<1> QED BY <1>3, <1>4, <1>5 DEF DealInv

LEMMA CloseExpiredDealDealInv ==
    ASSUME TypeOK, DealInv, NEW d \in Deals, CloseExpiredDeal(d)
    PROVE  DealInv'
<1>1. /\ deals[d].state = "Active"
      /\ membershipLog'.active = membershipLog.active \ {d}
      /\ snapshotForCurrentEpoch' = snapshotForCurrentEpoch
      /\ epochs' = epochs
  BY DEF CloseExpiredDeal, CanCloseExpiredDeal, LogClosed, TypeOK,
     MembershipRegistry, notDealHandlers,
     epochVars
<1>2. /\ deals'[d].provider = deals[d].provider /\ deals'[d].state = "Closed"
      /\ \A c \in Deals \ {d} : deals'[c] = deals[c]
  BY DEF CloseExpiredDeal, TypeOK, StorageDeal
<1>3. DealsKnowTheirProvider'
  BY <1>1, <1>2 DEF DealInv, DealsKnowTheirProvider
<1>4. LogListsActiveDeals'
  BY <1>1, <1>2 DEF DealInv, LogListsActiveDeals
<1>5. LeavesAreOfActivatedDeals'
  BY <1>1, <1>2 DEF DealInv, LeavesAreOfActivatedDeals, TypeOK, MembershipRegistry
<1> QED BY <1>3, <1>4, <1>5 DEF DealInv

LEMMA AggregatorNextDealInv ==
    ASSUME TypeOK, DealInv, AggregatorNext
    PROVE  DealInv'
<1>1. UNCHANGED <<deals, membershipLog, snapshotForCurrentEpoch, epochs>>
  BY DEF AggregatorNext, RegisterAggregator, Enlisted, ReportAggregatorTimeout,
     RequestAggregatorWithdraw, WithdrawAggregatorCollateral, notAggHandlers,
     dealVars, membershipVars, epochVars
<1> QED BY <1>1, DealInvFrame DEF TypeOK, MembershipRegistry

LEMMA CommitEpochDealInv ==
    ASSUME TypeOK, DealInv, NEW submitter, NEW list \in SettlementLists,
           NEW saturation, CommitEpoch(submitter, list, saturation)
    PROVE  DealInv'
<1>1. /\ deals' = deals /\ membershipLog' = membershipLog
      /\ snapshotForCurrentEpoch' = membershipLog
  BY DEF CommitEpoch, notEpochHandlers
<1>2. \A e \in EpochIds : \/ epochs'[e] = epochs[e]
                         \/ epochs'[e].verdicts = list
  BY DEF CommitEpoch, TypeOK
<1>3. \A d \in Deals : list[d] # "NoLeaf" => d \in snapshotForCurrentEpoch.active
  BY DEF SettlementLists
<1>4. LeavesAreOfActivatedDeals'
  BY <1>1, <1>2, <1>3 DEF DealInv, LeavesAreOfActivatedDeals, LogListsActiveDeals
<1> QED BY <1>1, <1>4 DEF DealInv, DealsKnowTheirProvider, LogListsActiveDeals

LEMMA FinalizeOrVoidDealInv ==
    ASSUME TypeOK, DealInv, NEW epoch \in EpochIds,
           FinalizeEpoch(epoch) \/ VoidEpoch(epoch)
    PROVE  DealInv'
<1>1. UNCHANGED <<deals, membershipLog, snapshotForCurrentEpoch>>
  BY DEF FinalizeEpoch, MayFinalize, VoidEpoch, MayVoid, notEpochHandlers
<1>2. \A e \in EpochIds : epochs'[e].verdicts = epochs[e].verdicts
  <2>1. CASE FinalizeEpoch(epoch)
    BY <2>1 DEF FinalizeEpoch, MayFinalize, TypeOK, EpochRecord
  <2>2. CASE VoidEpoch(epoch)
    BY <2>2 DEF VoidEpoch, MayVoid, TypeOK, EpochRecord
  <2> QED BY <2>1, <2>2
<1> QED BY <1>1, <1>2, DealInvFrame DEF TypeOK, MembershipRegistry

LEMMA ClaimSettlementDealInv ==
    ASSUME TypeOK, DealInv, NEW sender, NEW epoch \in EpochIds, NEW d \in Deals,
           ClaimSettlement(sender, epoch, d)
    PROVE  DealInv'
<1>1. UNCHANGED <<membershipLog, snapshotForCurrentEpoch, epochs>>
  BY DEF ClaimSettlement, InResults, membershipVars, epochVars
<1> DEFINE escrow == deals[d].escrowWei - RewardOf(epochs[epoch].verdicts[d])
<1>2. deals' = [deals EXCEPT ![d].escrowWei = escrow]
  BY DEF ClaimSettlement, InResults
<1>3. \A c \in Deals : /\ deals'[c].state = deals[c].state
                       /\ deals'[c].provider = deals[c].provider
  <2> HIDE DEF escrow
  <2> QED BY <1>2 DEF TypeOK, StorageDeal
<1> QED BY <1>1, <1>3, DealInvFrame DEF TypeOK, MembershipRegistry

LEMMA TickOrReceiveDealInv ==
    ASSUME TypeOK, DealInv, Tick \/ \E value \in DEPOSITS : Receive(value)
    PROVE  DealInv'
<1>1. UNCHANGED <<deals, membershipLog, snapshotForCurrentEpoch, epochs>>
  BY DEF Tick, Receive, dealVars, membershipVars, epochVars
<1> QED BY <1>1, DealInvFrame DEF TypeOK, MembershipRegistry

-----------------------------------------------------------------------------
(***************************************************************************)
(* Type correctness.                                                        *)
(***************************************************************************)
LEMMA InitTypeInv == Init => TypeInv
<1> SUFFICES ASSUME Init PROVE TypeInv
  OBVIOUS
<1>1. NoProviderRecord \in StorageProvider
  BY DEF NoProviderRecord, StorageProvider, Signers
<1>2. NoDealRecord \in StorageDeal
  BY DEF NoDealRecord, StorageDeal, DealStates
<1>3. NoEpochRecord \in EpochRecord
  BY DEF NoEpochRecord, EpochRecord, EpochStates
<1>4. NoAggregatorRecord \in AggregatorInfo
  BY DEF NoAggregatorRecord, AggregatorInfo
<1>5. EmptyRegistry \in MembershipRegistry
  BY DEF EmptyRegistry, MembershipRegistry, Signers
<1>6. /\ 0 \in 0..MAX_EPOCH /\ 0 \in 0..(ROTATION_WRAP - 1) /\ 0 \in 0..LastBlock
      /\ AGG_FUNDS \in Nat
  BY ParamAssumption, InputAssumption DEF LastBlock
<1>7. TypeOK
  BY <1>1, <1>2, <1>3, <1>4, <1>5, <1>6 DEF Init, TypeOK
<1>8. DealsKnowTheirProvider
  BY DEF Init, DealsKnowTheirProvider, NoDealRecord
<1>9. LogListsActiveDeals
  BY DEF Init, LogListsActiveDeals, NoDealRecord, EmptyRegistry
<1>10. LeavesAreOfActivatedDeals
  BY DEF Init, LeavesAreOfActivatedDeals, NoEpochRecord, EmptyRegistry
<1> QED BY <1>7, <1>8, <1>9, <1>10 DEF TypeInv

LEMMA NextTypeInv == TypeInv /\ [Next]_vars => TypeInv'
<1> SUFFICES ASSUME TypeInv, [Next]_vars PROVE TypeInv'
  OBVIOUS
<1>0. TypeOK /\ DealInv
  BY DEF TypeInv, DealInv
<1>1. CASE ProviderNext
  <2>1. TypeOK'
    BY <1>0, <1>1, RegisterProviderTypeOK, RequestCelestiaAddressChangeTypeOK,
       ApplyCelestiaAddressChangeTypeOK, RequestCollateralWithdrawTypeOK,
       WithdrawCollateralTypeOK DEF ProviderNext
  <2> QED BY <1>0, <1>1, <2>1, ProviderNextDealInv DEF TypeInv, DealInv
<1>2. CASE DealNext
  <2>1. TypeOK'
    BY <1>0, <1>2, OpenDealTypeOK, RegisterSealedTypeOK, ActivateTypeOK,
       AbortDealTypeOK, CloseExpiredDealTypeOK DEF DealNext
  <2>2. DealInv'
    BY <1>0, <1>2, OpenDealDealInv, RegisterSealedDealInv, ActivateDealInv,
       AbortDealDealInv, CloseExpiredDealDealInv DEF DealNext
  <2> QED BY <2>1, <2>2 DEF TypeInv, DealInv
<1>3. CASE AggregatorNext
  <2>1. TypeOK'
    BY <1>0, <1>3, RegisterAggregatorTypeOK, ReportAggregatorTimeoutTypeOK,
       RequestAggregatorWithdrawTypeOK, WithdrawAggregatorCollateralTypeOK
    DEF AggregatorNext
  <2> QED BY <1>0, <1>3, <2>1, AggregatorNextDealInv DEF TypeInv, DealInv
<1>4. CASE EpochNext
  <2>1. TypeOK'
    BY <1>0, <1>4, CommitEpochTypeOK, FinalizeEpochTypeOK, VoidEpochTypeOK,
       ClaimSettlementTypeOK DEF EpochNext, CommitBy
  <2>2. DealInv'
    BY <1>0, <1>4, CommitEpochDealInv, FinalizeOrVoidDealInv,
       ClaimSettlementDealInv DEF EpochNext, CommitBy
  <2> QED BY <2>1, <2>2 DEF TypeInv, DealInv
<1>5. CASE Tick
  BY <1>0, <1>5, TickTypeOK, TickOrReceiveDealInv DEF TypeInv, DealInv
<1>6. CASE \E value \in DEPOSITS : Receive(value)
  BY <1>0, <1>6, ReceiveTypeOK, TickOrReceiveDealInv DEF TypeInv, DealInv
<1>7. CASE UNCHANGED vars
  BY <1>0, <1>7 DEF TypeInv, TypeOK, DealsKnowTheirProvider, LogListsActiveDeals,
     LeavesAreOfActivatedDeals, vars, providerVars, dealVars, membershipVars,
     epochVars, settlementVars, aggVars
<1> QED BY <1>1, <1>2, <1>3, <1>4, <1>5, <1>6, <1>7 DEF Next

\* In every reachable state of the contract each field of its storage has the
\* type its declaration gives it, whatever the numbers of providers, deals and
\* aggregators: no balance, escrow, deposit or counter underflows.
THEOREM TypeCorrect == Spec => []TypeOK
<1>1. TypeInv => TypeOK
  BY DEF TypeInv
<1> QED BY InitTypeInv, NextTypeInv, <1>1, PTL DEF Spec

\* Only a deal that was activated ever has a settlement leaf, so no claim can
\* touch the escrow of an aborted deal that abortDeal has already paid back.
THEOREM OnlyActivatedDealsHaveLeaves == Spec => []LeavesAreOfActivatedDeals
<1>1. TypeInv => LeavesAreOfActivatedDeals
  BY DEF TypeInv
<1> QED BY InitTypeInv, NextTypeInv, <1>1, PTL DEF Spec
====
