----------------------------- MODULE EngramDeals -----------------------------
(***************************************************************************)
(* The handlers of EngramManager that providers and customers call: the     *)
(* provider registry and its collateral, the Celestia signer address, and   *)
(* the life of a storage deal from openDeal to its close.                   *)
(***************************************************************************)
EXTENDS EngramState

\* An operator X_Y is a seeded fault for the mutation runs: the operator X of the
\* code, with the change that Y tells.

notDealHandlers == <<epochVars, settlementVars, aggVars, blocksSinceDeadlineSet,
                     snapshotForCurrentEpoch, expectedDealCount>>

-----------------------------------------------------------------------------
(***************************************************************************)
(* Providers.                                                               *)
(***************************************************************************)

\* The signer address is set once; after that a registration repeats it.
KeepsSigner_Replaces(p, signer) == TRUE
KeepsSigner(p, signer) == providers[p].celestiaAddress \in {NoAddress, signer}

\* First registration, top-up, change of capacity.  Only the first sets the
\* signer address, and a sufficient total lifts a suspension.
RegisterProvider(p, signer, capacity, value) ==
    LET old == providers[p]
        collateral == old.collateralWei + value
    IN  /\ collateral <= MAX_COLLATERAL
        /\ collateral >= Locked(capacity)
        /\ capacity >= old.usedSlots
        /\ KeepsSigner(p, signer)
        /\ providers' = [providers EXCEPT ![p] =
              [old EXCEPT !.celestiaAddress = signer,
                          !.collateralWei = collateral,
                          !.capacitySlots = capacity,
                          !.suspended = @ /\ collateral < Locked(old.usedSlots)]]
        /\ membershipLog' = LogProvider(p, signer)
        /\ balance' = balance + value
        /\ UNCHANGED <<dealVars, notDealHandlers>>

RequestCelestiaAddressChange(p, newAddr) ==
    /\ providers[p].capacitySlots # 0
    /\ providers' = [providers EXCEPT
          ![p].pendingCelestiaAddress = newAddr,
          ![p].celestiaChangeEffectiveEpoch = lastCommittedEpoch + 2]
    /\ UNCHANGED <<dealVars, membershipLog, balance, notDealHandlers>>

\* Anyone may apply a change that has reached its effective epoch.
ApplyCelestiaAddressChange(p) ==
    LET newAddr == providers[p].pendingCelestiaAddress
    IN  /\ newAddr # NoAddress
        /\ lastCommittedEpoch >= providers[p].celestiaChangeEffectiveEpoch
        /\ providers' = [providers EXCEPT ![p].celestiaAddress = newAddr,
                                          ![p].pendingCelestiaAddress = NoAddress]
        /\ membershipLog' = LogProvider(p, newAddr)
        /\ UNCHANGED <<dealVars, balance, notDealHandlers>>

RequestCollateralWithdraw(p) ==
    /\ providers[p].capacitySlots # 0
    /\ providers' = [providers EXCEPT
          ![p].withdrawRequestedAtEpoch = lastCommittedEpoch + 1]
    /\ UNCHANGED <<dealVars, membershipLog, balance, notDealHandlers>>

\* What stays covers the slots in use.
StaysCovered_Unlocked(p, amount) == providers[p].collateralWei >= amount
StaysCovered(p, amount) ==
    providers[p].collateralWei >= Locked(providers[p].usedSlots) + amount

\* The lock has run out.
WithdrawCollateral(p, amount) ==
    LET old == providers[p]
    IN  /\ old.capacitySlots # 0
        /\ old.withdrawRequestedAtEpoch # 0
        /\ lastCommittedEpoch + 1
              >= old.withdrawRequestedAtEpoch + COLLATERAL_LOCK_EPOCHS
        /\ StaysCovered(p, amount)
        /\ amount <= balance
        /\ providers' = [providers EXCEPT
              ![p].collateralWei = @ - amount,
              ![p].withdrawRequestedAtEpoch = 0]
        /\ balance' = balance - amount
        /\ UNCHANGED <<dealVars, membershipLog, notDealHandlers>>

-----------------------------------------------------------------------------
(***************************************************************************)
(* Deals.                                                                   *)
(***************************************************************************)

\* The customer pays price * duration into escrow and the sealing fee; the
\* deal takes the provider's next slot index.  The DEAL_OPEN entry names the
\* deal's provider, which never changes, so the replayed registry is the same.
OpenDeal(d, p, price, duration, fee) ==
    LET prov == providers[p]
        escrow == price * duration
    IN  /\ deals[d].state = "None"
        /\ prov.capacitySlots # 0
        /\ ~prov.suspended
        /\ prov.usedSlots < prov.capacitySlots
        /\ prov.collateralWei >= Locked(prov.usedSlots + 1)
        /\ deals' = [deals EXCEPT ![d] =
              [provider |-> p, sealed |-> FALSE, slotIdx |-> prov.usedSlots,
               pricePerEpochWei |-> price, escrowWei |-> escrow,
               sealingFeeWei |-> fee, sealingFeeReleased |-> FALSE,
               openedAtEpoch |-> lastCommittedEpoch + 1,
               endEpoch |-> lastCommittedEpoch + 1 + duration,
               state |-> "Pending"]]
        /\ providers' = [providers EXCEPT ![p].usedSlots = @ + 1]
        /\ balance' = balance + escrow + fee
        /\ UNCHANGED <<activeDealCount, membershipLog, notDealHandlers>>

\* The part of the sealing fee that has not been released.
FeeDue_EachTime(deal) == deal.sealingFeeWei
FeeDue(deal) == IF deal.sealingFeeReleased THEN 0 ELSE deal.sealingFeeWei

\* The provider may call this again while the deal is Pending, also with
\* bytes32(0), but the fee is released once.
RegisterSealed(d, sealed) ==
    LET deal == deals[d]
        fee == FeeDue(deal)
    IN  /\ deal.state = "Pending"
        /\ fee <= balance
        /\ deals' = [deals EXCEPT ![d].sealed = sealed,
                                  ![d].sealingFeeReleased = @ \/ fee > 0]
        /\ balance' = balance - fee
        /\ UNCHANGED <<providerVars, activeDealCount, membershipLog,
                       notDealHandlers>>

\* Anyone who holds a valid activation proof.
Activate(d) ==
    /\ deals[d].state = "Pending"
    /\ deals[d].sealed
    /\ deals' = [deals EXCEPT ![d].state = "Active"]
    /\ activeDealCount' = activeDealCount + 1
    /\ membershipLog' = LogActive(d)
    /\ UNCHANGED <<providerVars, balance, notDealHandlers>>

\* What an abort pays back: the escrow, and a fee not yet released.
Refund(deal) == deal.escrowWei + FeeDue(deal)

CanAbortDeal_AlsoActive(d) ==
    /\ Live(d)
    /\ lastCommittedEpoch >= deals[d].openedAtEpoch + ABORT_AFTER_EPOCHS
    /\ Refund(deals[d]) <= balance

\* No require, checked subtraction or transfer of abortDeal fails.
CanAbortDeal(d) ==
    LET deal == deals[d]
    IN  /\ deal.state = "Pending"
        /\ lastCommittedEpoch >= deal.openedAtEpoch + ABORT_AFTER_EPOCHS
        /\ providers[deal.provider].usedSlots > 0
        /\ Refund(deal) <= balance

\* The customer takes back the escrow and a fee not yet released.  The escrow
\* field keeps its value.
AbortDeal(d) ==
    /\ CanAbortDeal(d)
    /\ deals' = [deals EXCEPT ![d].state = "Aborted"]
    /\ providers' = [providers EXCEPT ![deals[d].provider].usedSlots = @ - 1]
    /\ membershipLog' = LogClosed(d)
    /\ balance' = balance - Refund(deals[d])
    /\ UNCHANGED <<activeDealCount, notDealHandlers>>

CanCloseExpiredDeal_Again(d) ==
    /\ deals[d].state \in {"Active", "Closed"}
    /\ lastCommittedEpoch >= deals[d].endEpoch

\* Neither require nor the transfer of closeExpiredDeal fails.
CanCloseExpiredDeal(d) ==
    LET deal == deals[d]
    IN  /\ deal.state = "Active"
        /\ lastCommittedEpoch >= deal.endEpoch
        /\ deal.escrowWei <= balance

\* Anyone, once the deal's last epoch is committed: what is left of the escrow
\* goes back to the customer.
CloseExpiredDeal(d) ==
    LET deal == deals[d]
    IN  /\ CanCloseExpiredDeal(d)
        /\ deals' = [deals EXCEPT ![d].state = "Closed", ![d].escrowWei = 0]
        /\ activeDealCount' = IF activeDealCount > 0 THEN activeDealCount - 1
                                                     ELSE activeDealCount
        /\ providers' = [providers EXCEPT
              ![deal.provider].usedSlots = IF @ > 0 THEN @ - 1 ELSE @]
        /\ membershipLog' = LogClosed(d)
        /\ balance' = balance - deal.escrowWei
        /\ UNCHANGED notDealHandlers
=============================================================================
