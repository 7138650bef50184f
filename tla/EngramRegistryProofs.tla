-------------------------- MODULE EngramRegistryProofs -------------------------
(***************************************************************************)
(* Theorems about what EngramManager keeps in step: the Active deals with     *)
(* the log they are proven against, the slots in use with the collateral     *)
(* that covers them, and the list of aggregators.                           *)
(***************************************************************************)
EXTENDS EngramManagerProofs

-----------------------------------------------------------------------------
(***************************************************************************)
(* RegistryMatchesStorage, given LogListsActiveDeals from TypeInv: what is   *)
(* left is the two counts and the signers.                                  *)
(***************************************************************************)
CountsMatch ==
    /\ activeDealCount = Cardinality(membershipLog.active)
    /\ expectedDealCount = Cardinality(snapshotForCurrentEpoch.active)

SignersMatch ==
    \A p \in Providers : membershipLog.signer[p] = providers[p].celestiaAddress

\* Steps that touch neither the log, the frozen log nor the two counters.
LEMMA CountsFrame ==
    ASSUME CountsMatch,
           UNCHANGED <<activeDealCount, expectedDealCount, snapshotForCurrentEpoch>>,
           membershipLog'.active = membershipLog.active
    PROVE  CountsMatch'
BY DEF CountsMatch

LEMMA ProviderNextCounts ==
    ASSUME TypeOK, CountsMatch, ProviderNext
    PROVE  CountsMatch'
<1>1. UNCHANGED <<activeDealCount, expectedDealCount, snapshotForCurrentEpoch>>
  BY ProviderNextFrame DEF dealVars, notDealHandlers
<1>2. membershipLog'.active = membershipLog.active
  BY ProviderNextLog DEF TypeOK
<1> QED BY <1>1, <1>2, CountsFrame

LEMMA DealNextCounts ==
    ASSUME TypeInv, CountsMatch, DealNext
    PROVE  CountsMatch'
<1> DEFINE active == membershipLog.active
<1>1. PICK d \in Deals :
        \/ \E p \in Providers, price \in PRICES, duration \in DURATIONS, fee \in FEES :
              OpenDeal(d, p, price, duration, fee)
        \/ \E sealed \in BOOLEAN : RegisterSealed(d, sealed)
        \/ Activate(d)
        \/ AbortDeal(d)
        \/ CloseExpiredDeal(d)
  BY DEF DealNext
<1>2. UNCHANGED <<expectedDealCount, snapshotForCurrentEpoch>>
  BY DealNextFrame DEF notDealHandlers
<1>3. IsFiniteSet(active) /\ active = {c \in Deals : deals[c].state = "Active"}
  <2>1. active \in SUBSET Deals
    BY DEF TypeInv, TypeOK, MembershipRegistry
  <2>2. IsFiniteSet(active)
    BY <2>1, FS_Subset, IdentityAssumption
  <2> QED BY <2>2 DEF TypeInv, LogListsActiveDeals
<1>4. activeDealCount = Cardinality(active) /\ activeDealCount \in Nat
  BY DEF CountsMatch, TypeInv, TypeOK
<1>5. CASE \E p \in Providers, price \in PRICES, duration \in DURATIONS, fee \in FEES :
              OpenDeal(d, p, price, duration, fee)
  BY <1>2, <1>5, CountsFrame DEF OpenDeal
<1>6. CASE \E sealed \in BOOLEAN : RegisterSealed(d, sealed)
  BY <1>2, <1>6, CountsFrame DEF RegisterSealed, FeeDue
<1>7. CASE Activate(d)
  <2>1. /\ d \notin active
        /\ membershipLog'.active = active \cup {d}
        /\ activeDealCount' = activeDealCount + 1
    BY <1>3, <1>7 DEF Activate, LogActive, TypeInv, TypeOK, MembershipRegistry
  <2>2. Cardinality(active \cup {d}) = Cardinality(active) + 1
    BY <1>3, <2>1, FS_AddElement
  <2> QED BY <1>2, <1>4, <2>1, <2>2 DEF CountsMatch
<1>8. CASE AbortDeal(d)
  <2>1. /\ d \notin active
        /\ membershipLog'.active = active \ {d}
        /\ activeDealCount' = activeDealCount
    BY <1>3, <1>8 DEF AbortDeal, CanAbortDeal, LogClosed, TypeInv, TypeOK,
       MembershipRegistry
  <2> QED BY <1>2, <2>1, CountsFrame
<1>9. CASE CloseExpiredDeal(d)
  <2>1. /\ d \in active
        /\ membershipLog'.active = active \ {d}
        /\ activeDealCount' = IF activeDealCount > 0 THEN activeDealCount - 1
                                                     ELSE activeDealCount
    BY <1>3, <1>9 DEF CloseExpiredDeal, CanCloseExpiredDeal, LogClosed, TypeInv,
       TypeOK, MembershipRegistry
  <2>2. Cardinality(active \ {d}) = Cardinality(active) - 1
    BY <1>3, <2>1, FS_RemoveElement
  <2>3. Cardinality(active) # 0
    BY <1>3, <2>1, FS_EmptySet
  <2> QED BY <1>2, <1>4, <2>1, <2>2, <2>3 DEF CountsMatch
<1> QED BY <1>1, <1>5, <1>6, <1>7, <1>8, <1>9

LEMMA EpochNextCounts ==
    ASSUME TypeOK, CountsMatch, EpochNext
    PROVE  CountsMatch'
<1>1. CASE \E submitter \in Accounts, list \in SettlementLists, saturation \in SATURATIONS :
              CommitEpoch(submitter, list, saturation)
  BY <1>1 DEF CommitEpoch, notEpochHandlers, CountsMatch
<1>2. CASE \E epoch \in EpochIds : FinalizeEpoch(epoch) \/ VoidEpoch(epoch)
  <2>1. CASE \E epoch \in EpochIds : FinalizeEpoch(epoch)
    BY <2>1, CountsFrame DEF FinalizeEpoch, MayFinalize, notEpochHandlers
  <2>2. CASE \E epoch \in EpochIds : VoidEpoch(epoch)
    BY <2>2, CountsFrame DEF VoidEpoch, MayVoid, notEpochHandlers
  <2> QED BY <1>2, <2>1, <2>2
<1>3. CASE \E sender \in Providers \cup {Outsider}, epoch \in EpochIds, d \in Deals :
              ClaimSettlement(sender, epoch, d)
  <2>1. UNCHANGED <<activeDealCount, membershipVars>>
    BY <1>3 DEF ClaimSettlement, InResults
  <2> QED BY <2>1, CountsFrame DEF membershipVars
<1> QED BY <1>1, <1>2, <1>3 DEF EpochNext, CommitBy

LEMMA NextCounts ==
    ASSUME TypeInv, CountsMatch, [Next]_vars
    PROVE  CountsMatch'
<1>1. TypeOK
  BY DEF TypeInv
<1>2. CASE AggregatorNext
  BY <1>2, CountsFrame DEF AggregatorNext, RegisterAggregator, Enlisted,
     ReportAggregatorTimeout, RequestAggregatorWithdraw,
     WithdrawAggregatorCollateral, notAggHandlers, dealVars, membershipVars
<1>3. CASE Tick \/ (\E value \in DEPOSITS : Receive(value)) \/ UNCHANGED vars
  BY <1>3, CountsFrame DEF Tick, Receive, vars, dealVars, membershipVars
<1> QED BY <1>1, <1>2, <1>3, ProviderNextCounts, DealNextCounts, EpochNextCounts DEF Next

-----------------------------------------------------------------------------
(***************************************************************************)
(* The signers: the two handlers that set one also log it.                  *)
(***************************************************************************)
LEMMA SignersFrame ==
    ASSUME SignersMatch, membershipLog'.signer = membershipLog.signer,
           \A p \in Providers : providers'[p].celestiaAddress = providers[p].celestiaAddress
    PROVE  SignersMatch'
BY DEF SignersMatch

\* Setting and logging the signer of one provider.
LEMMA SignerSet ==
    ASSUME TypeOK, SignersMatch, NEW p \in Providers, NEW signer,
           membershipLog' = LogProvider(p, signer),
           providers'[p].celestiaAddress = signer,
           \A q \in Providers \ {p} : providers'[q] = providers[q]
    PROVE  SignersMatch'
BY DEF SignersMatch, LogProvider, TypeOK, MembershipRegistry

\* What each kind of step does to the signers in storage.
LEMMA RegisterProviderSigner ==
    ASSUME TypeOK, NEW p \in Providers, NEW signer, NEW capacity, NEW value,
           RegisterProvider(p, signer, capacity, value)
    PROVE  /\ providers[p].celestiaAddress \in {NoAddress, signer}
           /\ providers'[p].celestiaAddress = signer
           /\ \A q \in Providers \ {p} : providers'[q] = providers[q]
           /\ membershipLog' = LogProvider(p, signer)
<1> DEFINE collateral == providers[p].collateralWei + value
           kept == providers[p].suspended
                     /\ collateral < Locked(providers[p].usedSlots)
<1>1. providers' = [providers EXCEPT ![p] =
          [providers[p] EXCEPT !.celestiaAddress = signer,
                               !.collateralWei = collateral,
                               !.capacitySlots = capacity,
                               !.suspended = kept]]
  BY DEF RegisterProvider
<1>2. /\ providers'[p].celestiaAddress = signer
      /\ \A q \in Providers \ {p} : providers'[q] = providers[q]
  <2> HIDE DEF collateral, kept
  <2> QED BY <1>1 DEF TypeOK, StorageProvider
<1> QED BY <1>2 DEF RegisterProvider, KeepsSigner

LEMMA ApplyChangeSigner ==
    ASSUME TypeOK, NEW p \in Providers, ApplyCelestiaAddressChange(p)
    PROVE  /\ providers'[p].celestiaAddress = providers[p].pendingCelestiaAddress
           /\ lastCommittedEpoch >= providers[p].celestiaChangeEffectiveEpoch
           /\ \A q \in Providers \ {p} : providers'[q] = providers[q]
           /\ membershipLog' = LogProvider(p, providers[p].pendingCelestiaAddress)
BY DEF ApplyCelestiaAddressChange, TypeOK, StorageProvider

\* Any step that is neither of these two leaves storage and log alone.
LEMMA OtherStepsKeepSigners ==
    ASSUME TypeInv, [Next]_vars,
           ~ \E p \in Providers :
               \/ \E signer \in Signers, capacity \in CAPACITIES, value \in DEPOSITS :
                     RegisterProvider(p, signer, capacity, value)
               \/ ApplyCelestiaAddressChange(p)
    PROVE  /\ membershipLog'.signer = membershipLog.signer
           /\ \A q \in Providers : providers'[q].celestiaAddress = providers[q].celestiaAddress
<1>1. /\ membershipLog \in MembershipRegistry
      /\ providers \in [Providers -> StorageProvider]
  BY DEF TypeInv, TypeOK
<1>2. CASE ProviderNext
  <2>1. PICK p \in Providers :
           \/ \E newAddr \in CHANGES : RequestCelestiaAddressChange(p, newAddr)
           \/ RequestCollateralWithdraw(p)
           \/ \E amount \in 0..MAX_COLLATERAL : WithdrawCollateral(p, amount)
    BY <1>2 DEF ProviderNext
  <2>2. membershipLog' = membershipLog
    BY <2>1 DEF RequestCelestiaAddressChange, RequestCollateralWithdraw, WithdrawCollateral, StaysCovered
  <2>3. CASE \E newAddr \in CHANGES : RequestCelestiaAddressChange(p, newAddr)
    BY <1>1, <2>2, <2>3 DEF RequestCelestiaAddressChange, StorageProvider
  <2>4. CASE RequestCollateralWithdraw(p)
    BY <1>1, <2>2, <2>4 DEF RequestCollateralWithdraw, StorageProvider
  <2>5. CASE \E amount \in 0..MAX_COLLATERAL : WithdrawCollateral(p, amount)
    BY <1>1, <2>2, <2>5 DEF WithdrawCollateral, StaysCovered, StorageProvider
  <2> QED BY <2>1, <2>3, <2>4, <2>5
<1>3. CASE DealNext
  <2>1. PICK d \in Deals :
          \/ \E p \in Providers, price \in PRICES, duration \in DURATIONS, fee \in FEES :
                OpenDeal(d, p, price, duration, fee)
          \/ \E sealed \in BOOLEAN : RegisterSealed(d, sealed)
          \/ Activate(d)
          \/ AbortDeal(d)
          \/ CloseExpiredDeal(d)
    BY <1>3 DEF DealNext
  <2>2. membershipLog'.signer = membershipLog.signer
    BY <1>1, <2>1 DEF OpenDeal, RegisterSealed, FeeDue, Activate, AbortDeal,
       CloseExpiredDeal, LogActive, LogClosed, MembershipRegistry
  <2>3. \/ providers' = providers
        \/ \E p, n : providers' = [providers EXCEPT ![p].usedSlots = n]
    BY <2>1 DEF OpenDeal, RegisterSealed, FeeDue, Activate, AbortDeal, CloseExpiredDeal,
       providerVars
  <2>4. \A q \in Providers : providers'[q].celestiaAddress = providers[q].celestiaAddress
    BY <1>1, <2>3 DEF StorageProvider
  <2> QED BY <2>2, <2>4
<1>4. CASE AggregatorNext
  BY <1>4 DEF AggregatorNext, RegisterAggregator, Enlisted, ReportAggregatorTimeout,
     RequestAggregatorWithdraw, WithdrawAggregatorCollateral, notAggHandlers,
     providerVars, membershipVars
<1>5. CASE EpochNext
  <2>1. CASE \E submitter \in Accounts, list \in SettlementLists, saturation \in SATURATIONS :
                CommitEpoch(submitter, list, saturation)
    BY <2>1 DEF CommitEpoch, notEpochHandlers
  <2>2. CASE \E epoch \in EpochIds : FinalizeEpoch(epoch) \/ VoidEpoch(epoch)
    BY <2>2 DEF FinalizeEpoch, MayFinalize, VoidEpoch, MayVoid, notEpochHandlers
  <2>3. CASE \E sender \in Providers \cup {Outsider}, epoch \in EpochIds, d \in Deals :
                ClaimSettlement(sender, epoch, d)
    <3>1. PICK sender \in Providers \cup {Outsider}, epoch \in EpochIds, d \in Deals :
             ClaimSettlement(sender, epoch, d)
      BY <2>3
    <3> DEFINE p == deals[d].provider
               verdict == epochs[epoch].verdicts[d]
               n == providers[p].collateralWei - SlashTaken(p, verdict)
               s == providers[p].suspended
                      \/ (SlashOf(verdict) > 0 /\ n < Locked(providers[p].usedSlots))
    <3>2. /\ membershipLog' = membershipLog
          /\ providers' = [providers EXCEPT ![p].collateralWei = n, ![p].suspended = s]
      BY <3>1 DEF ClaimSettlement, InResults, membershipVars
    <3> HIDE DEF p, n, s
    <3> QED BY <1>1, <3>2 DEF StorageProvider
  <2> QED BY <1>5, <2>1, <2>2, <2>3 DEF EpochNext, CommitBy
<1>6. CASE Tick \/ (\E value \in DEPOSITS : Receive(value)) \/ UNCHANGED vars
  BY <1>6 DEF Tick, Receive, vars, providerVars, membershipVars
<1> QED BY <1>2, <1>3, <1>4, <1>5, <1>6 DEF Next

LEMMA NextSigners ==
    ASSUME TypeInv, SignersMatch, [Next]_vars
    PROVE  SignersMatch'
<1>1. TypeOK
  BY DEF TypeInv
<1>2. ASSUME NEW p \in Providers, NEW signer \in Signers, NEW capacity \in CAPACITIES,
             NEW value \in DEPOSITS, RegisterProvider(p, signer, capacity, value)
      PROVE  SignersMatch'
  BY <1>1, <1>2, RegisterProviderSigner, SignerSet
<1>3. ASSUME NEW p \in Providers, ApplyCelestiaAddressChange(p)
      PROVE  SignersMatch'
  BY <1>1, <1>3, ApplyChangeSigner, SignerSet
<1> QED BY <1>2, <1>3, OtherStepsKeepSigners, SignersFrame

-----------------------------------------------------------------------------
LEMMA InitRegistry == Init => CountsMatch /\ SignersMatch
BY FS_EmptySet DEF Init, CountsMatch, SignersMatch, EmptyRegistry, NoProviderRecord

\* The contract's two counters and its frozen log never drift apart from the
\* deals, so an honest proof always verifies as many deals as commitEpoch asks
\* for, however deals are activated, aborted and closed between two epochs.
THEOREM RegistryFollowsStorage == Spec => []RegistryMatchesStorage
<1>1. Init => TypeInv /\ CountsMatch /\ SignersMatch
  BY InitTypeInv, InitRegistry
<1>2. (TypeInv /\ CountsMatch /\ SignersMatch) /\ [Next]_vars
        => (TypeInv /\ CountsMatch /\ SignersMatch)'
  BY NextTypeInv, NextCounts, NextSigners
<1>3. TypeInv /\ CountsMatch /\ SignersMatch => RegistryMatchesStorage
  BY DEF TypeInv, LogListsActiveDeals, CountsMatch, SignersMatch, RegistryMatchesStorage
<1> QED BY <1>1, <1>2, <1>3, PTL DEF Spec

\* A list with some verdict for each deal of the frozen registry, sent by the
\* designated aggregator or, when there is none, by an outsider, is accepted.
LEMMA SomebodyCanCommit ==
    ASSUME TypeOK, CountsMatch, lastCommittedEpoch < MAX_EPOCH
    PROVE  \E submitter \in Accounts, list \in SettlementLists :
              CanCommitEpoch(submitter, list)
<1> DEFINE active == snapshotForCurrentEpoch.active
           submitter == IF designatedAggregator = NoAddress THEN Outsider
                                                            ELSE designatedAggregator
<1>1. PICK verdict \in VERDICTS : verdict # "NoLeaf"
  BY InputAssumption
<1> DEFINE list == [d \in Deals |-> IF d \in active THEN verdict ELSE "NoLeaf"]
<1>2. active \in SUBSET Deals
  BY DEF TypeOK, MembershipRegistry
<1>3. list \in SettlementLists
  BY <1>1 DEF SettlementLists
<1>4. {d \in Deals : list[d] # "NoLeaf"} = active
  BY <1>1, <1>2
<1>5. numVerified(list) = expectedDealCount
  BY <1>4 DEF numVerified, CountsMatch
<1>6. submitter \in Accounts
  BY DesignatedIsAggregator DEF Accounts
<1>7. lastCommittedEpoch + 1 \in EpochIds
  BY InputAssumption DEF TypeOK, EpochIds
<1>8. designatedAggregator = NoAddress \/ submitter = designatedAggregator
  OBVIOUS
<1> HIDE DEF list, submitter
<1> QED BY <1>3, <1>5, <1>6, <1>7, <1>8 DEF CanCommitEpoch

\* Until the last epoch of the model there is an account whose proof of the next
\* epoch commitEpoch accepts, whatever deals were opened, activated, aborted and
\* closed before and whoever is in the aggregator set.
THEOREM ChainGoesOn == Spec => []ChainIsNeverStuck
<1>1. Init => TypeInv /\ CountsMatch
  BY InitTypeInv, InitRegistry
<1>2. (TypeInv /\ CountsMatch) /\ [Next]_vars => (TypeInv /\ CountsMatch)'
  BY NextTypeInv, NextCounts
<1>3. TypeInv /\ CountsMatch => ChainIsNeverStuck
  BY SomebodyCanCommit DEF TypeInv, ChainIsNeverStuck
<1> QED BY <1>1, <1>2, <1>3, PTL DEF Spec

\* No handler changes the signer of a registered provider before the epoch its
\* change was announced for, nor to another address than the announced one.
THEOREM SignerChangesAreAnnounced == Spec => SignerChangesOnlyWhenDue
<1> DEFINE Due == \A p \in Providers :
              LET old == providers[p] IN
              /\ old.celestiaAddress # NoAddress
              /\ providers'[p].celestiaAddress # old.celestiaAddress
              => /\ providers'[p].celestiaAddress = old.pendingCelestiaAddress
                 /\ lastCommittedEpoch >= old.celestiaChangeEffectiveEpoch
<1>1. ASSUME TypeInv, [Next]_vars
      PROVE  [Due]_vars
  <2>1. TypeOK
    BY <1>1 DEF TypeInv
  <2>2. ASSUME NEW p \in Providers, NEW signer \in Signers, NEW capacity \in CAPACITIES,
               NEW value \in DEPOSITS, RegisterProvider(p, signer, capacity, value)
        PROVE  Due
    <3>1. /\ providers[p].celestiaAddress \in {NoAddress, signer}
          /\ providers'[p].celestiaAddress = signer
          /\ \A q \in Providers \ {p} : providers'[q] = providers[q]
      BY <2>1, <2>2, RegisterProviderSigner
    <3> QED BY <3>1
  <2>3. ASSUME NEW p \in Providers, ApplyCelestiaAddressChange(p)
        PROVE  Due
    <3>1. /\ providers'[p].celestiaAddress = providers[p].pendingCelestiaAddress
          /\ lastCommittedEpoch >= providers[p].celestiaChangeEffectiveEpoch
          /\ \A q \in Providers \ {p} : providers'[q] = providers[q]
      BY <2>1, <2>3, ApplyChangeSigner
    <3> QED BY <3>1
  <2>4. CASE ~ \E p \in Providers :
               \/ \E signer \in Signers, capacity \in CAPACITIES, value \in DEPOSITS :
                     RegisterProvider(p, signer, capacity, value)
               \/ ApplyCelestiaAddressChange(p)
    BY <1>1, <2>4, OtherStepsKeepSigners
  <2> QED BY <2>2, <2>3, <2>4
<1>2. TypeInv /\ [Next]_vars => [Due]_vars
  BY <1>1
<1> QED BY <1>2, InitTypeInv, NextTypeInv, PTL DEF Spec, SignerChangesOnlyWhenDue
-----------------------------------------------------------------------------
(***************************************************************************)
(* Slots and the collateral that covers them.                               *)
(***************************************************************************)

\* More slots lock no less collateral.
LEMMA LockedGrows ==
    ASSUME NEW m \in Nat, NEW n \in Nat, m <= n
    PROVE  Locked(m) \in Nat /\ Locked(m) <= Locked(n)
<1> DEFINE slot == MIN_COLLATERAL_PER_SLOT
<1>1. slot \in Nat
  BY ParamAssumption
<1>2. m * slot \in Nat /\ m * slot <= n * slot
  BY <1>1
<1> QED BY <1>2 DEF Locked

LEMMA LiveDealsAreFinite ==
    ASSUME NEW p
    PROVE  IsFiniteSet(LiveDealsOf(p))
<1>1. LiveDealsOf(p) \in SUBSET Deals
  BY DEF LiveDealsOf
<1> QED BY <1>1, FS_Subset, IdentityAssumption

-----------------------------------------------------------------------------
(***************************************************************************)
(* What each kind of step does to a provider's record: its slots in use      *)
(* change only with a deal, and only four handlers change its collateral.   *)
(***************************************************************************)
LEMMA RegisterProviderRecord ==
    ASSUME TypeOK, NEW p \in Providers, NEW signer, NEW capacity,
           NEW value \in DEPOSITS, RegisterProvider(p, signer, capacity, value)
    PROVE  /\ \A q \in Providers \ {p} : providers'[q] = providers[q]
           /\ providers'[p].usedSlots = providers[p].usedSlots
           /\ providers'[p].collateralWei >= providers[p].collateralWei
           /\ ~providers'[p].suspended =>
                 \/ ~providers[p].suspended
                 \/ providers'[p].collateralWei >= Locked(providers[p].usedSlots)
<1> DEFINE old == providers[p]
           collateral == old.collateralWei + value
           kept == old.suspended /\ collateral < Locked(old.usedSlots)
<1>1. providers' = [providers EXCEPT ![p] =
          [old EXCEPT !.celestiaAddress = signer,
                      !.collateralWei = collateral,
                      !.capacitySlots = capacity,
                      !.suspended = kept]]
  BY DEF RegisterProvider
<1>2. old \in StorageProvider /\ old.usedSlots \in Nat /\ value \in Nat
  BY InputAssumption DEF TypeOK, StorageProvider
<1>3. /\ \A q \in Providers \ {p} : providers'[q] = providers[q]
      /\ providers'[p].usedSlots = old.usedSlots
      /\ providers'[p].collateralWei = collateral
      /\ providers'[p].suspended = kept
  <2> HIDE DEF collateral, kept, old
  <2> QED BY <1>1, <1>2 DEF TypeOK, StorageProvider
<1>4. collateral >= old.collateralWei /\ collateral \in Nat
  BY <1>2 DEF StorageProvider
<1>5. Locked(old.usedSlots) \in Nat
  BY <1>2, LockedGrows
<1>6. ~kept => ~old.suspended \/ collateral >= Locked(old.usedSlots)
  <2>1. ~(collateral < Locked(old.usedSlots)) => collateral >= Locked(old.usedSlots)
    <3> HIDE DEF collateral
    <3> QED BY <1>4, <1>5
  <2> QED BY <2>1
<1> QED BY <1>3, <1>4, <1>6

LEMMA WithdrawCollateralRecord ==
    ASSUME TypeOK, NEW p \in Providers, NEW amount \in 0..MAX_COLLATERAL,
           WithdrawCollateral(p, amount)
    PROVE  /\ \A q \in Providers \ {p} : providers'[q] = providers[q]
           /\ providers'[p].usedSlots = providers[p].usedSlots
           /\ providers'[p].collateralWei >= Locked(providers[p].usedSlots)
<1> DEFINE old == providers[p]
           rest == old.collateralWei - amount
<1>1. old \in StorageProvider /\ old.collateralWei \in Nat /\ amount \in Nat
  BY InputAssumption DEF TypeOK, StorageProvider
<1>2. Locked(old.usedSlots) \in Nat
  BY <1>1, LockedGrows DEF StorageProvider
<1>3. rest >= Locked(old.usedSlots)
  BY <1>1, <1>2 DEF WithdrawCollateral, StaysCovered
<1>4. providers' = [providers EXCEPT ![p].collateralWei = rest,
                                     ![p].withdrawRequestedAtEpoch = 0]
  BY DEF WithdrawCollateral, StaysCovered
<1>5. /\ \A q \in Providers \ {p} : providers'[q] = providers[q]
      /\ providers'[p].usedSlots = providers[p].usedSlots
      /\ providers'[p].collateralWei = rest
  <2> HIDE DEF rest
  <2> QED BY <1>4 DEF TypeOK, StorageProvider
<1> QED BY <1>3, <1>5

\* The other provider handlers leave slots, collateral and suspension alone.
LEMMA SignerRequestRecord ==
    ASSUME TypeOK, NEW p \in Providers,
           \/ \E newAddr \in CHANGES : RequestCelestiaAddressChange(p, newAddr)
           \/ ApplyCelestiaAddressChange(p)
           \/ RequestCollateralWithdraw(p)
    PROVE  \A q \in Providers :
              /\ providers'[q].usedSlots = providers[q].usedSlots
              /\ providers'[q].collateralWei = providers[q].collateralWei
              /\ providers'[q].suspended = providers[q].suspended
<1>1. ASSUME NEW newAddr \in CHANGES, RequestCelestiaAddressChange(p, newAddr)
      PROVE  \A q \in Providers :
              /\ providers'[q].usedSlots = providers[q].usedSlots
              /\ providers'[q].collateralWei = providers[q].collateralWei
              /\ providers'[q].suspended = providers[q].suspended
  <2> DEFINE effective == lastCommittedEpoch + 2
  <2>1. providers' = [providers EXCEPT ![p].pendingCelestiaAddress = newAddr,
                                       ![p].celestiaChangeEffectiveEpoch = effective]
    BY <1>1 DEF RequestCelestiaAddressChange
  <2> HIDE DEF effective
  <2> QED BY <2>1 DEF TypeOK, StorageProvider
<1>2. CASE ApplyCelestiaAddressChange(p)
  BY <1>2 DEF ApplyCelestiaAddressChange, TypeOK, StorageProvider
<1>3. CASE RequestCollateralWithdraw(p)
  BY <1>3 DEF RequestCollateralWithdraw, TypeOK, StorageProvider
<1> QED BY <1>1, <1>2, <1>3

\* A claim takes collateral from the deal's provider and suspends it when what
\* is left no longer covers its slots.
LEMMA ClaimRecord ==
    ASSUME TypeInv, NEW sender, NEW epoch \in EpochIds, NEW d \in Deals,
           ClaimSettlement(sender, epoch, d)
    PROVE  LET p == deals[d].provider IN
           /\ p \in Providers
           /\ \A q \in Providers \ {p} : providers'[q] = providers[q]
           /\ providers'[p].usedSlots = providers[p].usedSlots
           /\ ~providers'[p].suspended =>
                 \/ providers'[p].collateralWei >= Locked(providers[p].usedSlots)
                 \/ /\ ~providers[p].suspended
                    /\ providers'[p].collateralWei = providers[p].collateralWei
<1> DEFINE p == deals[d].provider
           verdict == epochs[epoch].verdicts[d]
           taken == SlashTaken(p, verdict)
           rest == providers[p].collateralWei - taken
           suspended == providers[p].suspended
                          \/ (SlashOf(verdict) > 0 /\ rest < Locked(providers[p].usedSlots))
<1>1. p \in Providers
  BY DEF TypeInv, ClaimSettlement, InResults, LeavesAreOfActivatedDeals, DealsKnowTheirProvider
<1>2. providers[p] \in StorageProvider /\ SlashOf(verdict) \in Nat
  BY <1>1, ParamAssumption DEF TypeInv, TypeOK, SlashOf
<1>3. providers' = [providers EXCEPT ![p].collateralWei = rest, ![p].suspended = suspended]
  BY DEF ClaimSettlement, InResults
<1>4. /\ \A q \in Providers \ {p} : providers'[q] = providers[q]
      /\ providers'[p].usedSlots = providers[p].usedSlots
      /\ providers'[p].collateralWei = rest
      /\ providers'[p].suspended = suspended
  <2> HIDE DEF rest, suspended, p
  <2> QED BY <1>1, <1>3 DEF TypeInv, TypeOK, StorageProvider
<1>5. Locked(providers[p].usedSlots) \in Nat
  BY <1>2, LockedGrows DEF StorageProvider
<1>6. rest \in Int /\ (SlashOf(verdict) = 0 => rest = providers[p].collateralWei)
  BY <1>2 DEF SlashTaken, StorageProvider
<1>7. ~suspended => \/ rest >= Locked(providers[p].usedSlots)
                    \/ ~providers[p].suspended /\ rest = providers[p].collateralWei
  <2>1. ~(SlashOf(verdict) > 0) => SlashOf(verdict) = 0
    BY <1>2
  <2>2. ~(rest < Locked(providers[p].usedSlots)) => rest >= Locked(providers[p].usedSlots)
    <3> HIDE DEF rest
    <3> QED BY <1>5, <1>6
  <2> QED BY <1>6, <2>1, <2>2
<1> QED BY <1>1, <1>4, <1>7

\* Opening, aborting or closing a deal changes one provider's slots and nothing
\* else of any provider.
LEMMA SlotsRecord ==
    ASSUME TypeOK, NEW p \in Providers, NEW n,
           providers' = [providers EXCEPT ![p].usedSlots = n]
    PROVE  /\ providers'[p].usedSlots = n
           /\ \A q \in Providers \ {p} : providers'[q] = providers[q]
           /\ \A q \in Providers :
                 /\ providers'[q].collateralWei = providers[q].collateralWei
                 /\ providers'[q].suspended = providers[q].suspended
BY DEF TypeOK, StorageProvider

-----------------------------------------------------------------------------
(***************************************************************************)
(* The inductive invariant.  That suspension is lifted only when collateral  *)
(* covers the slots says nothing unless the slot counter is right, and the   *)
(* counter is right only while abort and close find it above zero.          *)
(***************************************************************************)
SlotInv == SlotsAccounted /\ UnsuspendedIsCovered

\* Steps that keep slots, collateral and suspension of every provider, and for
\* every deal its provider and whether it is live.
LEMMA SlotInvFrame ==
    ASSUME SlotInv,
           \A q \in Providers :
              /\ providers'[q].usedSlots = providers[q].usedSlots
              /\ providers'[q].collateralWei = providers[q].collateralWei
              /\ providers'[q].suspended = providers[q].suspended,
           \A c \in Deals : /\ deals'[c].provider = deals[c].provider
                            /\ deals'[c].state = deals[c].state
    PROVE  SlotInv'
<1>1. \A q \in Providers : LiveDealsOf(q)' = LiveDealsOf(q)
  <2> TAKE q \in Providers
  <2>1. \A c \in Deals : c \in LiveDealsOf(q)' <=> c \in LiveDealsOf(q)
    BY DEF LiveDealsOf, Live
  <2> QED BY <2>1 DEF LiveDealsOf
<1> QED BY <1>1 DEF SlotInv, SlotsAccounted, UnsuspendedIsCovered

LEMMA ProviderNextSlotInv ==
    ASSUME TypeOK, SlotInv, ProviderNext
    PROVE  SlotInv'
<1>1. deals' = deals
  BY DEF ProviderNext, RegisterProvider, RequestCelestiaAddressChange,
     ApplyCelestiaAddressChange, RequestCollateralWithdraw, WithdrawCollateral, dealVars
<1>2. PICK p \in Providers :
        \/ \E signer \in Signers, capacity \in CAPACITIES, value \in DEPOSITS :
              RegisterProvider(p, signer, capacity, value)
        \/ \E newAddr \in CHANGES : RequestCelestiaAddressChange(p, newAddr)
        \/ ApplyCelestiaAddressChange(p)
        \/ RequestCollateralWithdraw(p)
        \/ \E amount \in 0..MAX_COLLATERAL : WithdrawCollateral(p, amount)
  BY DEF ProviderNext
<1>3. \A q \in Providers : LiveDealsOf(q)' = LiveDealsOf(q)
  BY <1>1 DEF LiveDealsOf, Live
<1>4. /\ providers[p].collateralWei \in Nat /\ Locked(providers[p].usedSlots) \in Nat
  <2>1. providers[p].usedSlots \in Nat /\ providers[p].collateralWei \in Nat
    BY DEF TypeOK, StorageProvider
  <2> QED BY <2>1, LockedGrows
<1>5. CASE \E signer \in Signers, capacity \in CAPACITIES, value \in DEPOSITS :
              RegisterProvider(p, signer, capacity, value)
  <2>1. /\ \A q \in Providers \ {p} : providers'[q] = providers[q]
        /\ providers'[p].usedSlots = providers[p].usedSlots
        /\ providers'[p].collateralWei >= providers[p].collateralWei
        /\ ~providers'[p].suspended =>
              \/ ~providers[p].suspended
              \/ providers'[p].collateralWei >= Locked(providers[p].usedSlots)
    BY <1>5, RegisterProviderRecord
  <2>2. providers'[p].collateralWei \in Nat
    BY <1>5, RegisterProviderTypeOK DEF TypeOK, StorageProvider
  <2>3. SlotsAccounted'
    BY <1>3, <2>1 DEF SlotInv, SlotsAccounted
  <2>4. ~providers'[p].suspended =>
           providers'[p].collateralWei >= Locked(providers[p].usedSlots)
    BY <1>4, <2>1, <2>2 DEF SlotInv, UnsuspendedIsCovered
  <2>5. UnsuspendedIsCovered'
    BY <2>1, <2>4 DEF SlotInv, UnsuspendedIsCovered
  <2> QED BY <2>3, <2>5 DEF SlotInv
<1>6. CASE \/ \E newAddr \in CHANGES : RequestCelestiaAddressChange(p, newAddr)
           \/ ApplyCelestiaAddressChange(p)
           \/ RequestCollateralWithdraw(p)
  BY <1>1, <1>6, SignerRequestRecord, SlotInvFrame
<1>7. CASE \E amount \in 0..MAX_COLLATERAL : WithdrawCollateral(p, amount)
  <2>1. /\ \A q \in Providers \ {p} : providers'[q] = providers[q]
        /\ providers'[p].usedSlots = providers[p].usedSlots
        /\ providers'[p].collateralWei >= Locked(providers[p].usedSlots)
    BY <1>7, WithdrawCollateralRecord
  <2> QED BY <1>3, <2>1 DEF SlotInv, SlotsAccounted, UnsuspendedIsCovered
<1> QED BY <1>2, <1>5, <1>6, <1>7

LEMMA OpenDealSlotInv ==
    ASSUME TypeOK, SlotInv, NEW d \in Deals, NEW p \in Providers, NEW price,
           NEW duration, NEW fee, OpenDeal(d, p, price, duration, fee)
    PROVE  SlotInv'
<1> DEFINE n == providers[p].usedSlots + 1
<1>1. /\ deals[d].state = "None"
      /\ deals'[d].provider = p /\ deals'[d].state = "Pending"
      /\ \A c \in Deals \ {d} : deals'[c] = deals[c]
  BY DEF OpenDeal, TypeOK
<1>2. providers' = [providers EXCEPT ![p].usedSlots = n]
  BY DEF OpenDeal
<1>3. /\ providers'[p].usedSlots = n
      /\ \A q \in Providers \ {p} : providers'[q] = providers[q]
      /\ \A q \in Providers :
            /\ providers'[q].collateralWei = providers[q].collateralWei
            /\ providers'[q].suspended = providers[q].suspended
  <2> HIDE DEF n
  <2> QED BY <1>2, SlotsRecord
<1>4. /\ LiveDealsOf(p)' = LiveDealsOf(p) \cup {d}
      /\ \A q \in Providers \ {p} : LiveDealsOf(q)' = LiveDealsOf(q)
      /\ d \notin LiveDealsOf(p)
  BY <1>1 DEF LiveDealsOf, Live
<1>5. Cardinality(LiveDealsOf(p) \cup {d}) = Cardinality(LiveDealsOf(p)) + 1
  BY <1>4, LiveDealsAreFinite, FS_AddElement
<1>6. SlotsAccounted'
  BY <1>3, <1>4, <1>5 DEF SlotInv, SlotsAccounted
<1>7. providers[p].collateralWei >= Locked(n)
  BY DEF OpenDeal
<1>8. UnsuspendedIsCovered'
  BY <1>3, <1>7 DEF SlotInv, UnsuspendedIsCovered
<1> QED BY <1>6, <1>8 DEF SlotInv

\* Aborting and closing release a slot in the same way.
LEMMA ReleaseSlotInv ==
    ASSUME TypeOK, SlotInv, NEW d \in Deals, NEW p \in Providers, NEW n,
           deals[d].provider = p, Live(d),
           deals'[d].state \in {"Closed", "Aborted"},
           \A c \in Deals \ {d} : deals'[c] = deals[c],
           providers' = [providers EXCEPT ![p].usedSlots = n],
           providers[p].usedSlots > 0 => n = providers[p].usedSlots - 1
    PROVE  SlotInv'
<1>1. /\ providers'[p].usedSlots = n
      /\ \A q \in Providers \ {p} : providers'[q] = providers[q]
      /\ \A q \in Providers :
            /\ providers'[q].collateralWei = providers[q].collateralWei
            /\ providers'[q].suspended = providers[q].suspended
  BY SlotsRecord
<1>2. /\ LiveDealsOf(p)' = LiveDealsOf(p) \ {d}
      /\ \A q \in Providers \ {p} : LiveDealsOf(q)' = LiveDealsOf(q)
      /\ d \in LiveDealsOf(p)
  BY DEF LiveDealsOf, Live
<1>3. /\ Cardinality(LiveDealsOf(p) \ {d}) = Cardinality(LiveDealsOf(p)) - 1
      /\ Cardinality(LiveDealsOf(p)) # 0
  BY <1>2, LiveDealsAreFinite, FS_RemoveElement, FS_EmptySet
<1>4. providers[p].usedSlots = Cardinality(LiveDealsOf(p)) /\ providers[p].usedSlots \in Nat
  BY DEF SlotInv, SlotsAccounted, TypeOK, StorageProvider
<1>5. n = providers[p].usedSlots - 1 /\ n \in Nat
  BY <1>3, <1>4
<1>6. SlotsAccounted'
  BY <1>1, <1>2, <1>3, <1>4, <1>5 DEF SlotInv, SlotsAccounted
<1>7. /\ Locked(n) \in Nat /\ Locked(n) <= Locked(providers[p].usedSlots)
      /\ Locked(providers[p].usedSlots) \in Nat
  BY <1>4, <1>5, LockedGrows
<1>8. providers[p].collateralWei \in Nat
  BY DEF TypeOK, StorageProvider
<1>9. ~providers'[p].suspended => providers'[p].collateralWei >= Locked(n)
  BY <1>1, <1>7, <1>8 DEF SlotInv, UnsuspendedIsCovered
<1>10. UnsuspendedIsCovered'
  BY <1>1, <1>9 DEF SlotInv, UnsuspendedIsCovered
<1> QED BY <1>6, <1>10 DEF SlotInv

LEMMA AbortDealSlotInv ==
    ASSUME TypeInv, SlotInv, NEW d \in Deals, AbortDeal(d)
    PROVE  SlotInv'
<1> DEFINE p == deals[d].provider
           n == providers[p].usedSlots - 1
<1>1. p \in Providers /\ Live(d) /\ TypeOK
  BY DEF AbortDeal, CanAbortDeal, TypeInv, DealsKnowTheirProvider, Live
<1>2. /\ deals'[d].state = "Aborted"
      /\ \A c \in Deals \ {d} : deals'[c] = deals[c]
  BY DEF AbortDeal, TypeInv, TypeOK, StorageDeal
<1>3. providers' = [providers EXCEPT ![p].usedSlots = n]
  BY DEF AbortDeal
<1>4. providers[p].usedSlots > 0 => n = providers[p].usedSlots - 1
  OBVIOUS
<1> HIDE DEF p, n
<1> QED BY <1>1, <1>2, <1>3, <1>4, ReleaseSlotInv DEF p

LEMMA CloseExpiredDealSlotInv ==
    ASSUME TypeInv, SlotInv, NEW d \in Deals, CloseExpiredDeal(d)
    PROVE  SlotInv'
<1> DEFINE p == deals[d].provider
           n == IF providers[p].usedSlots > 0 THEN providers[p].usedSlots - 1
                                              ELSE providers[p].usedSlots
<1>1. p \in Providers /\ Live(d) /\ TypeOK
  BY DEF CloseExpiredDeal, CanCloseExpiredDeal, TypeInv, DealsKnowTheirProvider, Live
<1>2. /\ deals'[d].state = "Closed"
      /\ \A c \in Deals \ {d} : deals'[c] = deals[c]
  BY DEF CloseExpiredDeal, TypeInv, TypeOK, StorageDeal
<1>3. providers' = [providers EXCEPT ![p].usedSlots = n]
  BY DEF CloseExpiredDeal
<1>4. providers[p].usedSlots > 0 => n = providers[p].usedSlots - 1
  OBVIOUS
<1> HIDE DEF p, n
<1> QED BY <1>1, <1>2, <1>3, <1>4, ReleaseSlotInv DEF p

LEMMA DealNextSlotInv ==
    ASSUME TypeInv, SlotInv, DealNext
    PROVE  SlotInv'
<1>1. TypeOK
  BY DEF TypeInv
<1>2. ASSUME NEW d \in Deals, NEW sealed \in BOOLEAN, RegisterSealed(d, sealed)
      PROVE  SlotInv'
  <2>1. \A c \in Deals : /\ deals'[c].provider = deals[c].provider
                         /\ deals'[c].state = deals[c].state
    BY <1>1, <1>2, SealedKeepsDeals DEF TypeOK
  <2> QED BY <1>2, <2>1, SlotInvFrame DEF RegisterSealed, FeeDue, providerVars
<1>3. ASSUME NEW d \in Deals, Activate(d)
      PROVE  SlotInv'
  <2>1. /\ providers' = providers
        /\ deals[d].state = "Pending" /\ deals'[d].state = "Active"
        /\ deals'[d].provider = deals[d].provider
        /\ \A c \in Deals \ {d} : deals'[c] = deals[c]
    BY <1>1, <1>3 DEF Activate, TypeOK, StorageDeal, providerVars
  <2>2. \A q \in Providers : LiveDealsOf(q)' = LiveDealsOf(q)
    BY <2>1 DEF LiveDealsOf, Live
  <2> QED BY <2>1, <2>2 DEF SlotInv, SlotsAccounted, UnsuspendedIsCovered
<1> QED BY <1>1, <1>2, <1>3, OpenDealSlotInv, AbortDealSlotInv,
       CloseExpiredDealSlotInv DEF DealNext

LEMMA EpochNextSlotInv ==
    ASSUME TypeInv, SlotInv, EpochNext
    PROVE  SlotInv'
<1>1. CASE \E submitter \in Accounts, list \in SettlementLists, saturation \in SATURATIONS :
              CommitEpoch(submitter, list, saturation)
  BY <1>1, SlotInvFrame DEF CommitEpoch, notEpochHandlers
<1>2. CASE \E epoch \in EpochIds : FinalizeEpoch(epoch) \/ VoidEpoch(epoch)
  BY <1>2, SlotInvFrame DEF FinalizeEpoch, MayFinalize, VoidEpoch, MayVoid, notEpochHandlers
<1>3. ASSUME NEW sender \in Providers \cup {Outsider}, NEW epoch \in EpochIds,
             NEW d \in Deals, ClaimSettlement(sender, epoch, d)
      PROVE  SlotInv'
  <2> DEFINE p == deals[d].provider
             escrow == deals[d].escrowWei - RewardOf(epochs[epoch].verdicts[d])
  <2>1. /\ p \in Providers
        /\ \A q \in Providers \ {p} : providers'[q] = providers[q]
        /\ providers'[p].usedSlots = providers[p].usedSlots
        /\ ~providers'[p].suspended =>
              \/ providers'[p].collateralWei >= Locked(providers[p].usedSlots)
              \/ /\ ~providers[p].suspended
                 /\ providers'[p].collateralWei = providers[p].collateralWei
    BY <1>3, ClaimRecord
  <2>2. deals' = [deals EXCEPT ![d].escrowWei = escrow]
    BY <1>3 DEF ClaimSettlement, InResults
  <2>3. \A c \in Deals : /\ deals'[c].provider = deals[c].provider
                         /\ deals'[c].state = deals[c].state
    <3> HIDE DEF escrow
    <3> QED BY <2>2 DEF TypeInv, TypeOK, StorageDeal
  <2>4. \A q \in Providers : LiveDealsOf(q)' = LiveDealsOf(q)
    <3> TAKE q \in Providers
    <3>1. \A c \in Deals : c \in LiveDealsOf(q)' <=> c \in LiveDealsOf(q)
      BY <2>3 DEF LiveDealsOf, Live
    <3> QED BY <3>1 DEF LiveDealsOf
  <2> HIDE DEF p
  <2>5. SlotsAccounted'
    BY <2>1, <2>4 DEF SlotInv, SlotsAccounted
  <2>6. UnsuspendedIsCovered'
    BY <2>1 DEF SlotInv, UnsuspendedIsCovered
  <2> QED BY <2>5, <2>6 DEF SlotInv
<1> QED BY <1>1, <1>2, <1>3 DEF EpochNext, CommitBy

LEMMA NextSlotInv ==
    ASSUME TypeInv, SlotInv, [Next]_vars
    PROVE  SlotInv'
<1>1. TypeOK
  BY DEF TypeInv
<1>2. CASE AggregatorNext
  BY <1>2, SlotInvFrame DEF AggregatorNext, RegisterAggregator, Enlisted,
     ReportAggregatorTimeout, RequestAggregatorWithdraw,
     WithdrawAggregatorCollateral, notAggHandlers, providerVars, dealVars
<1>3. CASE Tick \/ (\E value \in DEPOSITS : Receive(value)) \/ UNCHANGED vars
  BY <1>3, SlotInvFrame DEF Tick, Receive, vars, providerVars, dealVars
<1> QED BY <1>1, <1>2, <1>3, ProviderNextSlotInv, DealNextSlotInv, EpochNextSlotInv
       DEF Next

LEMMA InitSlotInv == Init => SlotInv
<1> SUFFICES ASSUME Init PROVE SlotInv
  OBVIOUS
<1>1. \A p \in Providers : LiveDealsOf(p) = {}
  BY DEF Init, LiveDealsOf, Live, NoDealRecord
<1>2. \A p \in Providers : /\ providers[p].usedSlots = 0
                           /\ providers[p].collateralWei = 0
  BY DEF Init, NoProviderRecord
<1>3. Locked(0) = 0
  BY ParamAssumption DEF Locked
<1> QED BY <1>1, <1>2, <1>3, FS_EmptySet DEF SlotInv, SlotsAccounted, UnsuspendedIsCovered

\* The counter openDeal compares with the capacity is the number of the
\* provider's live deals, in whatever order deals are opened, aborted and closed.
THEOREM SlotsAreCounted == Spec => []SlotsAccounted
<1>1. Init => TypeInv /\ SlotInv
  BY InitTypeInv, InitSlotInv
<1>2. (TypeInv /\ SlotInv) /\ [Next]_vars => (TypeInv /\ SlotInv)'
  BY NextTypeInv, NextSlotInv
<1>3. TypeInv /\ SlotInv => SlotsAccounted
  BY DEF SlotInv
<1> QED BY <1>1, <1>2, <1>3, PTL DEF Spec

\* No interleaving of slashes, withdrawals, top-ups, new deals and closes leaves
\* a provider that may take deals with less collateral than its slots demand.
THEOREM TakersAreCovered == Spec => []UnsuspendedIsCovered
<1>1. Init => TypeInv /\ SlotInv
  BY InitTypeInv, InitSlotInv
<1>2. (TypeInv /\ SlotInv) /\ [Next]_vars => (TypeInv /\ SlotInv)'
  BY NextTypeInv, NextSlotInv
<1>3. TypeInv /\ SlotInv => UnsuspendedIsCovered
  BY DEF SlotInv
<1> QED BY <1>1, <1>2, <1>3, PTL DEF Spec
-----------------------------------------------------------------------------
(***************************************************************************)
(* The list of aggregators.                                                 *)
(***************************************************************************)
LEMMA RotationFrame ==
    ASSUME RotationListsEachOnce, aggregatorSet' = aggregatorSet,
           \A b \in AggIds : aggregators'[b].registered = aggregators[b].registered
    PROVE  RotationListsEachOnce'
BY DEF RotationListsEachOnce

LEMMA RegisterAggregatorRotation ==
    ASSUME TypeOK, RotationListsEachOnce, NEW a \in AggIds, NEW value,
           RegisterAggregator(a, value)
    PROVE  RotationListsEachOnce'
<1> DEFINE deposit == aggregators[a].collateralWei + value
<1>1. /\ aggregators' = [aggregators EXCEPT ![a].registered = TRUE,
                                            ![a].collateralWei = deposit]
      /\ aggregatorSet' = IF aggregators[a].registered THEN aggregatorSet
                                                       ELSE Append(aggregatorSet, a)
  BY DEF RegisterAggregator, Enlisted
<1>2. /\ aggregators'[a].registered = TRUE
      /\ \A b \in AggIds \ {a} : aggregators'[b] = aggregators[b]
  <2> HIDE DEF deposit
  <2> QED BY <1>1 DEF TypeOK, AggregatorInfo
<1>3. CASE aggregators[a].registered
  BY <1>1, <1>2, <1>3 DEF RotationListsEachOnce
<1>4. CASE ~aggregators[a].registered
  <2> DEFINE n == Len(aggregatorSet)
  <2>1. /\ aggregatorSet \in Seq(AggIds) /\ n \in Nat
        /\ aggregatorSet' = Append(aggregatorSet, a)
    BY <1>1, <1>4 DEF TypeOK
  <2>2. /\ Len(aggregatorSet') = n + 1
        /\ \A i \in 1..n : aggregatorSet'[i] = aggregatorSet[i]
        /\ aggregatorSet'[n + 1] = a
    BY <2>1
  <2>3. \A i \in 1..n : aggregatorSet[i] # a
    BY <1>4 DEF RotationListsEachOnce
  <2>4. \A i \in 1..(n + 1) : i \in 1..n \/ i = n + 1
    BY <2>1
  <2>5. \A i, j \in 1..(n + 1) : aggregatorSet'[i] = aggregatorSet'[j] => i = j
    <3> HIDE DEF n
    <3> QED BY <2>2, <2>3, <2>4 DEF RotationListsEachOnce, n
  <2>6. \A b \in AggIds : aggregators'[b].registered
                            <=> \E i \in 1..(n + 1) : aggregatorSet'[i] = b
    <3> TAKE b \in AggIds
    <3>1. 1..n \subseteq 1..(n + 1) /\ n + 1 \in 1..(n + 1)
      BY <2>1
    <3>2. CASE b = a
      BY <1>2, <2>2, <3>1, <3>2
    <3>3. CASE b # a
      <4>1. aggregators'[b].registered <=> \E i \in 1..n : aggregatorSet[i] = b
        BY <1>2, <3>3 DEF RotationListsEachOnce
      <4>2. (\E i \in 1..n : aggregatorSet[i] = b)
              <=> \E i \in 1..(n + 1) : aggregatorSet'[i] = b
        BY <2>2, <2>4, <3>1, <3>3
      <4> QED BY <4>1, <4>2
    <3> QED BY <3>2, <3>3
  <2> QED BY <2>2, <2>5, <2>6 DEF RotationListsEachOnce
<1> QED BY <1>3, <1>4

LEMMA NextRotationLists ==
    ASSUME TypeInv, RotationListsEachOnce, [Next]_vars
    PROVE  RotationListsEachOnce'
<1>1. TypeOK
  BY DEF TypeInv
<1>2. CASE AggregatorNext
  <2>1. ASSUME NEW reporter, ReportAggregatorTimeout(reporter)
        PROVE  RotationListsEachOnce'
    <3> DEFINE agg == designatedAggregator
               rest == aggregators[agg].collateralWei
                         - BpsOf(aggregators[agg].collateralWei, AGG_TIMEOUT_SLASH_BPS)
    <3>1. /\ aggregators' = [aggregators EXCEPT ![agg].collateralWei = rest]
          /\ aggregatorSet' = aggregatorSet
      BY <2>1 DEF ReportAggregatorTimeout
    <3> HIDE DEF agg, rest
    <3> QED BY <1>1, <3>1, RotationFrame DEF TypeOK, AggregatorInfo
  <2>2. ASSUME NEW a \in AggIds, RequestAggregatorWithdraw(a)
        PROVE  RotationListsEachOnce'
    BY <1>1, <2>2, RotationFrame DEF RequestAggregatorWithdraw, TypeOK, AggregatorInfo
  <2>3. ASSUME NEW a \in AggIds, NEW amount, WithdrawAggregatorCollateral(a, amount)
        PROVE  RotationListsEachOnce'
    <3> DEFINE rest == aggregators[a].collateralWei - amount
    <3>1. /\ aggregators' = [aggregators EXCEPT ![a].collateralWei = rest,
                                                ![a].withdrawRequestedAtEpoch = 0]
          /\ aggregatorSet' = aggregatorSet
      BY <2>3 DEF WithdrawAggregatorCollateral
    <3> HIDE DEF rest
    <3> QED BY <1>1, <3>1, RotationFrame DEF TypeOK, AggregatorInfo
  <2> QED BY <1>1, <1>2, <2>1, <2>2, <2>3, RegisterAggregatorRotation DEF AggregatorNext
<1>3. CASE ProviderNext \/ DealNext
  <2>1. UNCHANGED aggVars
    <3>1. CASE ProviderNext
      BY <3>1, ProviderNextFrame DEF notDealHandlers
    <3>2. CASE DealNext
      <4>1. UNCHANGED notDealHandlers
        BY <3>2, DealNextFrame
      <4> QED BY <4>1 DEF notDealHandlers
    <3> QED BY <1>3, <3>1, <3>2
  <2> QED BY <2>1, RotationFrame DEF aggVars
<1>4. CASE EpochNext
  <2>1. CASE \E submitter \in Accounts, list \in SettlementLists, saturation \in SATURATIONS :
                CommitEpoch(submitter, list, saturation)
    BY <2>1, RotationFrame DEF CommitEpoch
  <2>2. CASE \E epoch \in EpochIds : FinalizeEpoch(epoch) \/ VoidEpoch(epoch)
    <3>1. UNCHANGED aggVars
      <4>1. CASE \E epoch \in EpochIds : FinalizeEpoch(epoch)
        BY <4>1 DEF FinalizeEpoch, MayFinalize
      <4>2. CASE \E epoch \in EpochIds : VoidEpoch(epoch)
        BY <4>2 DEF VoidEpoch, MayVoid
      <4> QED BY <2>2, <4>1, <4>2
    <3> QED BY <3>1, RotationFrame DEF aggVars
  <2>3. CASE \E sender \in Providers \cup {Outsider}, epoch \in EpochIds, d \in Deals :
                ClaimSettlement(sender, epoch, d)
    <3>1. UNCHANGED aggVars
      BY <2>3 DEF ClaimSettlement, InResults
    <3> QED BY <3>1, RotationFrame DEF aggVars
  <2> QED BY <1>4, <2>1, <2>2, <2>3 DEF EpochNext, CommitBy
<1>5. CASE Tick \/ (\E value \in DEPOSITS : Receive(value)) \/ UNCHANGED vars
  BY <1>5, RotationFrame DEF Tick, Receive, vars, aggVars
<1> QED BY <1>2, <1>3, <1>4, <1>5 DEF Next

\* Registering again to top up, withdrawing everything and coming back never
\* give an aggregator a second place in the rotation, nor take its place away.
THEOREM RotationIsFair == Spec => []RotationListsEachOnce
<1>1. Init => TypeInv /\ RotationListsEachOnce
  <2>1. Init => RotationListsEachOnce
    BY DEF Init, RotationListsEachOnce, NoAggregatorRecord
  <2> QED BY <2>1, InitTypeInv
<1>2. (TypeInv /\ RotationListsEachOnce) /\ [Next]_vars
        => (TypeInv /\ RotationListsEachOnce)'
  BY NextTypeInv, NextRotationLists
<1>3. TypeInv /\ RotationListsEachOnce => RotationListsEachOnce
  OBVIOUS
<1> QED BY <1>1, <1>2, <1>3, PTL DEF Spec
=============================================================================
