----------------------------- MODULE EngramState -----------------------------
(***************************************************************************)
(* The storage of the EngramManager contract (chain/src/EngramManager.sol): *)
(* its pinned parameters, its mappings and counters, and the helpers that   *)
(* several handlers share.  The handlers themselves are in EngramDeals,     *)
(* EngramAggregators and EngramEpochs; EngramManager puts them together.    *)
(*                                                                         *)
(* A transaction that reverts changes nothing, so a handler is an action    *)
(* whose guard is the conjunction of the conditions under which no require, *)
(* revert, checked subtraction or value transfer of the handler fails.      *)
(* Every handler moves money after its last storage write, so a transaction *)
(* is one atomic step.                                                      *)
(***************************************************************************)
EXTENDS Integers, FiniteSets, Sequences

CONSTANTS
    Providers,       \* addresses that act as storage providers
    Deals,           \* the dealIds openDeal can derive
    AggIds,          \* addresses that may register as aggregators
    Outsider,        \* any other account: a hunter, a prover, a passer-by
    NoAddress,       \* address(0), bytes20(0)
    CelestiaAddrs    \* Celestia signer addresses

\* The contract's constants, by the names they have in the source, and the
\* per-leaf amounts the aggregator writes.
CONSTANTS
    MIN_COLLATERAL_PER_SLOT, BOUNTY_BPS, BPS_BASE,
    WINDOW_SATURATION_THRESHOLD, ABORT_AFTER_EPOCHS, COLLATERAL_LOCK_EPOCHS,
    COMMIT_PERIOD_BLOCKS, VOID_GRACE_BLOCKS,
    AGG_TIMEOUT_SLASH_BPS, MIN_AGG_COLLATERAL,
    REWARD_WEI, SLASH_WEI

\* The arguments callers pass, and the bounds of the model.
CONSTANTS
    DEPOSITS,        \* msg.value of registerProvider and registerAggregator
    CAPACITIES,      \* capacitySlots a provider declares
    PRICES, DURATIONS, FEES,   \* openDeal's economic parameters
    CHANGES,         \* newAddr of requestCelestiaAddressChange
    VERDICTS,        \* verdicts the proving pipeline may reach
    SATURATIONS,     \* windowSaturation values
    MAX_EPOCH,       \* bound: epochs that can be committed
    MAX_COLLATERAL,  \* bound: a provider's collateral
    MAX_GIFTS,       \* bound: ether sent to the contract outside its functions
    AGG_FUNDS,       \* the ether each prospective aggregator owns
    ROTATION_WRAP    \* aggRotation is kept modulo this common multiple

VARIABLES
    providers,                 \* mapping(address => StorageProvider)
    deals,                     \* mapping(bytes32 => StorageDeal)
    activeDealCount,
    membershipLog,             \* what replaying the hash chain yields
    snapshotForCurrentEpoch,
    expectedDealCount,
    epochs,                    \* mapping(uint64 => EpochRecord)
    lastCommittedEpoch,
    settlementClaimed,         \* leaves already claimed, as <<epoch, deal>>
    lastClaimedEpoch,
    aggregators,               \* mapping(address => AggregatorInfo)
    aggregatorSet,             \* address[]
    aggRotation,
    blocksSinceDeadlineSet,    \* block.number since commitDeadlineBlock was set
    balance,                   \* address(this).balance
    aggWallet                  \* ether an aggregator holds outside the contract

providerVars == <<providers>>
dealVars == <<deals, activeDealCount>>
membershipVars == <<membershipLog, snapshotForCurrentEpoch, expectedDealCount>>
epochVars == <<epochs, lastCommittedEpoch>>
settlementVars == <<settlementClaimed, lastClaimedEpoch>>
aggVars == <<aggregators, aggregatorSet, aggRotation, aggWallet>>
vars == <<providerVars, dealVars, membershipVars, epochVars, settlementVars,
          aggVars, blocksSinceDeadlineSet, balance>>

-----------------------------------------------------------------------------
(***************************************************************************)
(* Assumptions on the constants.                                            *)
(***************************************************************************)
\* The amounts are natural numbers and a share in basis points is a fraction.
ASSUME ParamAssumption ==
    /\ {MIN_COLLATERAL_PER_SLOT, BOUNTY_BPS, AGG_TIMEOUT_SLASH_BPS,
        MIN_AGG_COLLATERAL, WINDOW_SATURATION_THRESHOLD, REWARD_WEI, SLASH_WEI,
        ABORT_AFTER_EPOCHS, COLLATERAL_LOCK_EPOCHS, COMMIT_PERIOD_BLOCKS,
        VOID_GRACE_BLOCKS} \subseteq Nat
    /\ BPS_BASE \in Nat \ {0}
    /\ BOUNTY_BPS <= BPS_BASE
    /\ AGG_TIMEOUT_SLASH_BPS <= BPS_BASE

\* What callers pass has the type of the parameter it is passed for, and the
\* pipeline reaches some verdict.
ASSUME InputAssumption ==
    /\ DEPOSITS \cup CAPACITIES \cup PRICES \cup DURATIONS \cup FEES
        \cup SATURATIONS \subseteq Nat
    /\ CHANGES \subseteq CelestiaAddrs \cup {NoAddress}
    /\ VERDICTS \subseteq {"PASS", "FAIL", "NONE"} /\ VERDICTS # {}
    /\ SATURATIONS # {}
    /\ {MAX_EPOCH, MAX_COLLATERAL, MAX_GIFTS, AGG_FUNDS} \subseteq Nat
    /\ ROTATION_WRAP \in Nat \ {0}

\* address(0) and the outsider are none of the participants, of which there are
\* finitely many.
ASSUME IdentityAssumption ==
    /\ IsFiniteSet(Providers) /\ IsFiniteSet(Deals) /\ IsFiniteSet(AggIds)
    /\ NoAddress \notin Providers \cup AggIds \cup CelestiaAddrs \cup {Outsider}
    /\ Outsider \notin Providers \cup AggIds

\* The report of a timeout takes something from an aggregator whose deposit is
\* the minimum (a tenth of it, in the source), and pays the reporter less than that.
ASSUME TimeoutAssumption ==
    /\ MIN_AGG_COLLATERAL * AGG_TIMEOUT_SLASH_BPS >= BPS_BASE
    /\ BOUNTY_BPS < BPS_BASE

\* Reducing aggRotation modulo ROTATION_WRAP loses nothing: the contract reads
\* it modulo the length of aggregatorSet only.
ASSUME RotationAssumption ==
    \A n \in 1..Cardinality(AggIds) : ROTATION_WRAP % n = 0

-----------------------------------------------------------------------------
(***************************************************************************)
(* Types.                                                                   *)
(***************************************************************************)
EpochIds == 1..MAX_EPOCH
DealStates == {"None", "Pending", "Active", "Closed", "Aborted"}
EpochStates == {"Open", "Committed", "Final", "Void"}
Signers == CelestiaAddrs \cup {NoAddress}

StorageProvider ==
    [celestiaAddress: Signers, collateralWei: Nat, capacitySlots: Nat,
     usedSlots: Nat, withdrawRequestedAtEpoch: Nat, suspended: BOOLEAN,
     pendingCelestiaAddress: Signers, celestiaChangeEffectiveEpoch: Nat]

StorageDeal ==
    [provider: Providers \cup {NoAddress}, sealed: BOOLEAN, slotIdx: Nat,
     pricePerEpochWei: Nat, escrowWei: Nat, sealingFeeWei: Nat,
     sealingFeeReleased: BOOLEAN, openedAtEpoch: Nat, endEpoch: Nat,
     state: DealStates]

\* A resultsRoot commits to one settlement leaf per deal of the epoch's
\* snapshot: the verdicts stand for the tree, "NoLeaf" for a deal outside it.
EpochRecord ==
    [state: EpochStates, verdicts: [Deals -> {"PASS", "FAIL", "NONE", "NoLeaf"}],
     windowSaturation: Nat]

AggregatorInfo ==
    [collateralWei: Nat, registered: BOOLEAN, withdrawRequestedAtEpoch: Nat]

\* The hash chain is identified with what its replay tells the guest: the deals
\* to be proven and the signer address each provider's blobs must carry.
MembershipRegistry == [active: SUBSET Deals, signer: [Providers -> Signers]]

NoProviderRecord ==
    [celestiaAddress |-> NoAddress, collateralWei |-> 0, capacitySlots |-> 0,
     usedSlots |-> 0, withdrawRequestedAtEpoch |-> 0, suspended |-> FALSE,
     pendingCelestiaAddress |-> NoAddress, celestiaChangeEffectiveEpoch |-> 0]

NoDealRecord ==
    [provider |-> NoAddress, sealed |-> FALSE, slotIdx |-> 0,
     pricePerEpochWei |-> 0, escrowWei |-> 0, sealingFeeWei |-> 0,
     sealingFeeReleased |-> FALSE, openedAtEpoch |-> 0, endEpoch |-> 0,
     state |-> "None"]

NoEpochRecord ==
    [state |-> "Open", verdicts |-> [d \in Deals |-> "NoLeaf"],
     windowSaturation |-> 0]

NoAggregatorRecord ==
    [collateralWei |-> 0, registered |-> FALSE, withdrawRequestedAtEpoch |-> 0]

EmptyRegistry ==
    [active |-> {}, signer |-> [p \in Providers |-> NoAddress]]

-----------------------------------------------------------------------------
(***************************************************************************)
(* Helpers shared by the handlers.                                          *)
(***************************************************************************)
\* A share of an amount in basis points, rounded down as the EVM does.
BpsOf(amount, bps) == (amount * bps) \div BPS_BASE

Bounty(slashed) == BpsOf(slashed, BOUNTY_BPS)

\* The collateral a provider must keep for the slots it has in use.
Locked(used) == used * MIN_COLLATERAL_PER_SLOT

\* Seeded fault: a handler that forgets its log entry.
LogClosed_Forgotten(d) == membershipLog

LogProvider(p, signer) == [membershipLog EXCEPT !.signer[p] = signer]
LogActive(d) == [membershipLog EXCEPT !.active = @ \cup {d}]
LogClosed(d) == [membershipLog EXCEPT !.active = @ \ {d}]

\* block.number against commitDeadlineBlock; blocks past the end of the grace
\* period are not told apart, as no condition of the contract does.
LastBlock == COMMIT_PERIOD_BLOCKS + VOID_GRACE_BLOCKS + 1
DeadlinePassed == blocksSinceDeadlineSet > COMMIT_PERIOD_BLOCKS
GracePassed == blocksSinceDeadlineSet > COMMIT_PERIOD_BLOCKS + VOID_GRACE_BLOCKS

\* The deals of p that hold one of its slots.
Live(d) == deals[d].state \in {"Pending", "Active"}
LiveDealsOf(p) == {d \in Deals : deals[d].provider = p /\ Live(d)}
=============================================================================
