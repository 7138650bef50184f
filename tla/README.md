# Engram in TLA+

A verification development of this repository: a market for proven storage in
which customers pay providers into escrow, providers post Nova proofs on a data
availability layer (Celestia), workers verify the postings, an aggregator turns
the workers' results into one proof per epoch, and the contract `EngramManager`
pays and slashes from it.

Everything here is translated from the source. `PROJECT.json` names, for every
definition that models code, the file and the lines it stands for.

## 1. The system

| Component | State it keeps | Operations | What it talks to |
|---|---|---|---|
| `EngramManager`: providers (`chain/src/EngramManager.sol`) | `providers`: signer address and a pending one, collateral, capacity, slots in use, withdrawal request, suspension | `registerProvider`, `requestCelestiaAddressChange`, `applyCelestiaAddressChange`, `requestCollateralWithdraw`, `withdrawCollateral` | writes the membership log; read by `openDeal` and `claimSettlement` |
| `EngramManager`: deals | `_deals`, `activeDealCount` | `openDeal`, `registerSealed`, `activate`, `abortDeal`, `closeExpiredDeal` | takes and frees slots, writes the membership log, moves ether |
| `EngramManager`: membership | `membershipLog` (hash chain), `snapshotForCurrentEpoch`, `expectedDealCount` | appended to by the handlers above, frozen by `commitEpoch` | replayed off chain by `membership.py`; compared with the public values of a proof |
| `EngramManager`: aggregators | `aggregators`, `aggregatorSet`, `aggRotation`, `commitDeadlineBlock` | `registerAggregator`, `designatedAggregator`, `reportAggregatorTimeout`, `requestAggregatorWithdraw`, `withdrawAggregatorCollateral` | decides who may commit before the deadline |
| `EngramManager`: epochs and settlement | `epochs`, `lastCommittedEpoch`, `settlementClaimed`, `lastClaimedEpoch` | `commitEpoch`, `finalizeEpoch`, `voidEpoch`, `claimSettlement`, `receive` | SP1 verifier and Blobstream (external), Merkle proofs of leaves |
| Membership registry (`common/.../membership.py`) | entries, deals, hash | `build_registry`, `verify_registry`, `signer_of` | replays the contract's log, gives workers the expected deals |
| Clock (`common/.../clock.py`) | none | `slot_of`, `slot_at`, `in_submit_window`, `absolute_deadline`, beacons, public values | every worker and provider |
| Data availability (`common/.../da.py`, `da_mock`) | a log of blobs by height and index, the head height; in the mock a lock and one thread per request | `submit`, `range`, `read`, `advance`, the clock thread; `CelestiaDA` over a node's blocks | providers write, workers read |
| Worker (`worker/.../verify.py`, `common/.../blob.py`) | none per shard | `filter_blobs`, `expected_from_registry`, `verify_shard` | reads the DA layer and the registry, gives a ChildProof |
| Worker lottery (`worker/.../lottery.py`) | per-worker cooldown, misses, suspension | `worker_lottery`, `record_outcome` | the beacon, the aggregator |
| Aggregator (`aggregator/.../reconcile.py`, `aggregate.py`) | one `DeadlineFold` per deadline | `reconcile_shard_results`, `fold_deadline`, `aggregate_epoch_incremental`, `aggregate_epoch` | ChildProofs in, settlement list and public values out |
| Circuit breaker (`aggregator/.../circuit_breaker.py`) | none | `circuit_breaker` | saturation and participation of the epoch |
| Crypto (`common/.../crypto.py`) | none | Merkle tree, slot tree, spread challenges | everything |
| Provider service (`provider/.../`) | `received` (a list of chunks per deal), `deals` (what is stored), sectors on disk | `quote`, `put_chunks`, `accept`, `status`; `seal`, `lose_fraction` | customers and the DA layer |
| Client (`client/.../prepare.py`) | none | chunk, pad, Merkle root of a file | provider service |
| Orchestrator (`orchestrator/.../`) | one simulated world | runs an epoch over all components | everything, in one process |
| SP1 guest, Nova circuit (`sp1_verify`, `circuit`) | none | proofs | the worker's verdicts, the public values |
| Watchtower, scripts, costs | none | health endpoint, benchmarks, formulas | - |

### How the parts interact

One epoch runs like this. Providers post a bundle per deal into the namespace of
its shard during the deadline's window. Workers drawn by the lottery read every
window, filter the blobs by the signer the membership registry names, and give
one verdict per expected deal. The aggregator reconciles the workers' answers
per cell, folds the deadlines of the epoch, and produces one settlement leaf per
deal. `commitEpoch` accepts the proof if it was made for the frozen membership
log, verified as many deals as the frozen count, and comes from whoever may
commit now; in the same step it freezes the log for the next epoch.
`finalizeEpoch` follows when Blobstream has relayed the settlement list; then
anyone claims leaf by leaf with `claimSettlement`. If nobody commits,
`reportAggregatorTimeout` slashes the designated aggregator and `voidEpoch`
cancels an epoch.

### What is hard in it

- **Order of many callers.** Every handler of the contract may be called by
  anybody at any time; counters (`usedSlots`, `activeDealCount`), the log, and
  the frozen copy an epoch is proven against move at different moments. A single
  missed update blocks `commitEpoch` for ever or lets a provider's slots leak.
- **Time.** An epoch is committed, finalized and claimed long after the deals it
  is about may have been aborted, closed or opened again; locks on collateral
  and delays of signer changes are counted in epochs that keep moving.
- **Timeouts.** Silent aggregators, reports that race with the late commit,
  voids that race with the relay.
- **Partial effects.** A slash larger than the collateral, a reward larger than
  what is left of the escrow, a fee already released.
- **Threads without locks.** The provider's service runs each request in a
  thread of its own over lists no lock guards, while clients retry; the mock DA
  service locks writes but not reads, and a node answers block by block.
- **Off chain**: strangers' blobs and old blobs in the same namespace, workers
  that answer twice, short or from another registry, an epoch folded in pieces.

`PROJECT.json` "hazards" lists each of these at its line, with the properties
that would catch it going wrong.

### What makes each component correct

| Component | Correct when |
|---|---|
| Providers | a provider that may take deals has collateral for all slots in use; signer changes wait for their epoch; withdrawals cannot underrun a slash |
| Deals | slots in use are the live deals; one deal per slot; a refund is always possible; escrow pays each leaf once |
| Membership | replaying the log gives exactly what the contract stores; only the very log of the epoch passes; the cells share out its deals |
| Data availability | to its clients every backend is one ordered log; a window read after it is over is whole and final |
| Provider service | what is sealed is what the client's root stands for, whatever is retried or overlaps |
| Trees, challenges, sealing | a root binds its leaves; a hole long enough is hit; lost data cannot be sealed again |
| Circuit breaker | congestion is seen from seventy percent of full blocks on, exactly |
| Aggregators | the rotation is fair; a deposit is its owner's; silence never stalls the chain |
| Epochs and settlement | no gaps between epochs; money leaves only against Final leaves, once; the contract is solvent |
| Off-chain pipeline | every deal of the frozen registry gets one verdict, the one its own blobs deserve; strangers, late or faulty answers and the order of folds change nothing |
| Lottery | a worker that is still proving is not drawn while others are free; a suspension ends, and not before its time; the cap is a share of one epoch |

## 2. Modules

| Module | Models |
|---|---|
| `EngramState` | the contract's storage, parameters, types and shared helpers |
| `EngramDeals` | the handlers of providers and customers |
| `EngramAggregators` | the handlers of aggregators, the rotation |
| `EngramEpochs` | commit, finalize, void, claim |
| `EngramManager` | all handlers together, `Init`, `Next`, fairness, the properties, the mapping to `EscrowLedger` |
| `EscrowLedger` | what the contract promises those whose money it holds: an account for each deal's escrow and fee, one for each provider's collateral |
| `MCEngramManager` | symmetry sets for TLC |
| `EngramManagerProofs` | type correctness and the invariant the other proofs stand on |
| `EngramRegistryProofs` | counts, log, signers, slots, collateral cover, rotation, that the chain goes on |
| `EngramSettlementProofs` | epochs, claims, escrow, refunds, solvency, the cost of timeouts, the refinement of `EscrowLedger` |
| `Clock` | slots, submit windows, numbers of deadlines |
| `Aggregate` | the join of verdicts, folds, the checks before an epoch is accepted |
| `ShardVerification` | the chain of blobs (submit, advance, read) and one worker's verdicts on a cell; extends `Clock` and `Aggregate` |
| `EpochPipeline` | one epoch: posting, honest and faulty workers, folds, the aggregate; extends `ShardVerification` |
| `EpochPipelineProofs` | that every FAIL and PASS rests on the provider's own blob; what an epoch with honest answers settles |
| `WorkerLottery` | the draw of workers for cells, outcomes, the loop over shards, deadlines and epochs |
| `WorkerLotteryProofs` | its type correctness, that suspensions end, that the rotation holds, that nobody works on two cells |
| `MemoryDA` | what the DA layer promises: one log, atomic `submit` and `read` |
| `DataAvailability` | the backends behind it: the mock service (threads, lock, clock thread) and `CelestiaDA` over an external node; implements `MemoryDA` |
| `DataAvailabilityProofs` | that it does, and what readers may rely on |
| `Merkle` | trees, paths, slot trees |
| `ProviderApi` | `put_chunks` and `accept`, step by step, overlapping; extends `Merkle` |
| `ProviderApiProofs` | what is sealed, for any number of requests |
| `Challenges`, `Sealing`, `Schedule`, `Layouts`, `Congestion`, `Membership` | pure parts as operators: challenged chunks over a prepared piece; sectors and the sealing chains; slots, beacons and the two time inequalities; byte layouts; squares, coverage and the circuit breaker; the hash chain of the registry, its replay, its cells |
| `Formulas` | their promises, one input or a few calls on one value per state; extends the six and, with `Sealing`, `Merkle` |
| `FormulasProofs` | those promises for inputs of every size |
| `MCDataAvailability`, `MCEpochPipeline`, `MCFormulas`, `MCProviderApi`, `MCWorkerLottery` | instances for TLC |

`EngramManager` composes the contract's three modules of handlers;
`EpochPipeline` composes chain, workers and aggregator. What passes between the
two is the settlement list, which the contract takes as any list an accepted
proof can carry and of which `ExactlyTheRegistry` says what it is.

### How state and actions correspond to the code

Variables, record fields and actions have the names of the contract's storage
and functions. An action is a whole call: its guard is the conjunction of the
conditions under which nothing in the call reverts, its primed variables are its
storage writes and the change of the contract's balance.

- **Atomicity.** A call that reverts leaves no trace, so it is no step. Every
  handler writes storage before it sends ether, so a re-entering call finds the
  state after the step; a call is therefore one atomic action. Payouts are
  guarded by the balance, subtractions by what they subtract from, because
  Solidity reverts otherwise.
- **A proof.** The verifier is external: `commitEpoch` is enabled for every
  settlement list an honest run over the *frozen* registry can produce, one leaf
  per deal of the snapshot with any verdict. The amounts in a leaf are those
  `aggregate_epoch` writes (a reward for PASS, a slash for FAIL).
- **A leaf** is the pair of an epoch and a deal; the results root is the function
  from deals to verdicts. A Merkle path either leads to the root or does not
  (`InResults`), and the digest that marks a leaf as claimed covers both its epoch
  and its deal (`Unclaimed`); what trees bind is `MerkleTreesBind`.
- **The membership log** is identified with what replaying it yields: the active
  deals and the signer of each provider. `DEAL_OPEN` names the deal's provider,
  which never changes, and adds nothing to the replay.
- **Blocks.** `block.number` only matters relative to `commitDeadlineBlock`, so
  the state holds the age of the deadline, saturating just past the grace
  period, beyond which no condition tells ages apart.
- **Rotation.** `aggRotation` is kept modulo a common multiple of the possible
  lengths of `aggregatorSet`; the contract reads it modulo that length only.
- **Ether of aggregators** is finite (`aggWallet`): what an aggregator deposits
  it must own, and bounties it earns are its own. That is what makes "every
  report costs a deposit" an argument for progress.
- **Accounts.** Providers, aggregators and one outsider who stands for every
  other account. Customers are not tracked: nothing in the contract depends on
  who the customer is except where a refund goes.
- **The ledger.** `EscrowLedger` knows stages, owners and amounts only. The
  mapping computes its accounts from the storage: a deal's escrow is `escrowWei`
  while it is Pending or Active and nothing after (`abortDeal` leaves the field as
  it was), its fee `sealingFeeWei` until it is released, and the leaves settled
  are `settlementClaimed`. Where the contract looks at `usedSlots`, at `sealed` or
  at a leaf's amounts, the ledger looks at the deals themselves, at the fee account
  and at the escrow. Everything about aggregators, the log and epochs stutters.
- **Faults.** An operator named `X_Y` is the operator `X` with the change `Y`
  tells, for the mutation runs; no specification uses it.
- **Left out**: fields that are written and never read by a condition or a
  payout (timeout counters, registration epochs, provider roots, the deadline,
  shard and beacon of a deal, batch roots, state roots, the DA nonce, the
  submitter of an epoch), events, signature checks of quotes, and the
  constructor's pinned keys.

### The off-chain modules

- **Blobs.** The chain is a sequence of records ordered by (height, index). The
  signer is the only field consensus vouches for; namespace, header and payload
  are any. F1, F2's constants and the payload length are one Boolean; a payload
  is the deal whose sealed root it proves, or garbage.
- **A worker** reads a window of its shard's namespace once it is over and
  answers for all deals the registry expects in the cell. `Work` may happen late
  or never, and several times. `WorkFaultily` is the worker `reconcile.py` is
  written for: it misses blobs, answers for other deals, miscounts or uses
  another registry. It cannot invent a verdict: a ChildProof proves what was
  computed over the blobs it was given.
- **Lists of answers are sets.** The join of verdicts is commutative,
  associative and idempotent, and the exceptions of `reconcile_shard_results`
  do not depend on the order of the list. A call that raises is no step.
- **Answers are joined by deal, whichever cell they are for**, as in the code;
  that an accepted epoch nevertheless has exactly the registry's deals is
  `ExactlyTheRegistry`.
- **The lottery** draws any r of the eligible workers, because the beacon is a
  hash and stakes are positive. `ServeCell` is one turn of `run_deadline`'s loop
  over shards: the draw, the marking of the drawn, and the outcomes. A deadline
  with an unanswered cell ends its epoch, as `run_epoch` does.
- **The DA layer.** A read of the mock walks the list blob by blob while others
  append and the clock moves the head; a read of `CelestiaDA` asks the node for
  one block at a time. Both fill in `answer` when they return. The refinement
  maps an answer to one atomic read of `MemoryDA` at that moment, for a window
  that was over when the read began; a submit takes effect when the blob is
  appended. A node answers "not found" only for blocks that have nothing.
- **Left out**: cycle counts, stakes other than positive.

### The provider's service and the pure parts

- **A request is a thread.** `put_chunks` appends chunk by chunk; `accept`
  computes the root, seals, stores and drops the buffer in steps of their own,
  because Flask serves requests in threads and nothing is locked. `buffers` are
  the list objects by identity, so that a thread goes on with the list it looked
  up when the dictionary has another by now. A chunk that is no hex raises half
  way and leaves what came before. Clients that wait for each answer
  (`inTurn`), and channels that do not change a chunk (`faithful`), are
  constants of a behaviour, and each property says which it needs.
- **What accept seals** is kept as the chunks and the replica it was computed
  from; that different chunks or replicas give different seals is `LossIsSeen`.
- **Hashes are free terms**: a hash is the term it is the hash of, equal exactly
  when what was hashed is. (The code's own stand-ins, sha3 for keccak and blake2b
  for Poseidon, are no more than that either.) A challenge's number is any number.
- **Sealing** keeps limbs as values of a small set with one that is zero, since
  what a lost chunk reads as is zeros.
- **Loops over lists are recursive functions** (`Levels`, `Places`, `Climb`,
  `HashChain`, `Absorb`, `s_chain`): the value after so many turns, from 0 up.
  Loops that stop at a condition (the height of a tree, `bit_length`, a square
  root) are the first turn at which the condition holds.
- **Layouts** are the sequences of fields and widths the host packs, the slices
  the contract decodes, and the table for comparison.

## 3. Runs

| Run | Instance | Shows |
|---|---|---|
| `deals` | 1 provider, 2 deals, 3 epochs, slots for both | the counters, the log, the cover of slots by collateral, refunds never blocked, commit never closed for good |
| `settlement` | 1 provider, 1 deal with a fee of 1, 3 epochs, PASS and FAIL, congested and not | claims only of Final leaves, contiguous epochs, escrow equation, solvency, nobody paid out of another's money, the contract implements `EscrowLedger` |
| `rotation` | 2 aggregators, deposits 2 and 4, 2 epochs, a lock of 1, 2 wei of gifts, fairness | the rotation lists each once, epochs keep coming |
| `signers` | 1 provider, 2 signer addresses, 4 epochs | signer changes only when due |
| `postings` | 2 deals in 2 deadlines, honest workers, any 2 blobs | every deal gets the verdict its blobs deserve |
| `misreports` | 2 deals in 2 shards, 1 blob, 2 faulty answers, 1 deal of another registry | an accepted epoch has one leaf per deal, honest evidence stands, nobody is failed without a blob of its own |
| `lottery` | 4 workers, 1 shard, cooldown 1, 2 epochs of 5 deadlines, suspension after one miss | while `required_workers` are live the rotation finds enough workers at rest, and unless it had to give up the filter nobody called was called within the cooldown, by the history of calls and not by the pool's own marks; a suspension ends however often it is renewed |
| `da` | both backends, a submitter and a reader at a time, a few blobs and heights | positions are ordered, closed windows are whole and final, both backends implement `MemoryDA` |
| `provider` | 1 deal, a piece of 3 chunks, 2 requests at a time, 2 uploads, batches whole, partial, damaged, cut and too long | what is sealed begins with the piece; with clients that wait it is exactly the piece; retries keep the prefix |
| `formulas` | some 12,000 inputs of the pure parts, the timing of `PROFILE_SIM` | the seven promises of `Formulas` |
| `close`, `void` | small | one disagreement each between a comment and the code (section 6) |

### Bounds and why they are enough

For the contract, three epochs are needed for every hazard across epochs: one in which a deal is
activated, one that is proven with it, one that is late, and the two-epoch lock
on collateral fits in (`signers` has four, because a change waits two and may be
asked for again; `rotation` has two epochs and a lock of one). Two deals give
every order of open, seal, activate, abort and
close between two slots of one provider; two providers share nothing but the
balance, which the solvency proof covers for any number. Amounts are scaled
down: a slot locks 2 wei, a FAIL leaf takes 2 (4 in `settlement`, more than there
ever is, so that the cap is what is taken), a PASS leaf pays 1, shares are 1/2.
With these every comparison has both outcomes and every rounding happens:
a slash can exceed the collateral, a bounty can round to zero, an escrow can run
out. `COMMIT_PERIOD_BLOCKS` and `VOID_GRACE_BLOCKS` of 0 or 1 make "before the
deadline", "after it" and "after the grace period" three different states.
`MAX_EPOCH`, `MAX_COLLATERAL`, `MAX_GIFTS` and `AGG_FUNDS` bound the state; each
is a guard of the actions it bounds, named in `EngramState`. Reaching
`MAX_EPOCH` stops commits only, other calls go on, so no run of the
contract disables the check for deadlock.

One epoch of the pipeline is enough because cells of other epochs are refused by
the numbers of deadlines; two deals give deals in one cell and in two, two blobs
an early and a late one, two faulty answers a cell that is padded and one that
is short. `MAX_BLOBS`, `MAX_FAULTY` and `HEADER_DEADLINES` bound it. Two epochs of
the lottery (`MAX_EPOCH`) have one end of an epoch between them; the pool is
exactly what `required_workers` asks for, and once three workers are suspended
the suspended ones are called back. For larger pools there are the proofs of
`RotationNeverJams` and `SuspensionIsFinite`. Pipeline and lottery end when their
epochs are over, which is why their runs set `CHECK_DEADLOCK FALSE`.

One deal is enough for `provider`, since deals share nothing but the dictionaries
(the proofs cover any number); the piece is odd, so that a tree repeats its last
leaf; two buffers are one upload and a new one while the old is being sealed;
`MAX_CHUNKS` leaves room for one chunk too many. `formulas` lists its inputs:
data of 0 to 24 bytes in chunks of 2 with 1 to 4 challenges and every draw; trees
of up to 6 leaves; slot trees of 4 and 8 slots; sectors of up to 7 limbs in chunks of 2, which ends in
full and in padded chunks, with fractions whose inverse is a whole number or not;
every height of three epochs; all
window and proving times up to 6; up to 40 blocks, where a saturation of 179 of
255 and seven tenths can be told apart; two registry
entries, two deals in up to 3 shards.
There is no step to take from an input, so `Next` of `Formulas` only stutters.
`provider` and `da` end when their bounds are reached, and set
`CHECK_DEADLOCK FALSE`.

### Fairness

`FairSpec` assumes that blocks are mined and that one prover outside the
aggregator set keeps trying to commit when it may. Nothing is assumed of
aggregators, reporters, relays or claimants. The code justifies this much and
no more: past the deadline `commitEpoch` accepts anybody's proof, and the proof
of an epoch can be produced by anybody from public data. `EpochsKeepComing` then
says that silence and mutual reports cannot stall the chain: each report takes
a part of the designated deposit, so aggregators run out of what it takes to be
designated, and with nobody designated the gate is open.

## 4. Proofs

TLAPS proves, for every value of the constants that satisfies the modules' named
assumptions:

| Theorem | States |
|---|---|
| `TypeCorrect` | `Spec => []TypeOK` |
| `OnlyActivatedDealsHaveLeaves` | `Spec => []LeavesAreOfActivatedDeals` |
| `RegistryFollowsStorage` | `Spec => []RegistryMatchesStorage` |
| `SignerChangesAreAnnounced` | `Spec => SignerChangesOnlyWhenDue` |
| `SlotsAreCounted`, `TakersAreCovered` | `Spec => []SlotsAccounted`, `Spec => []UnsuspendedIsCovered` |
| `RotationIsFair` | `Spec => []RotationListsEachOnce` |
| `ContiguousEpochs`, `PaidLeavesStayFinal` | `Spec => []EpochsAreContiguous`, `Spec => []ClaimsAreOfFinalLeaves` |
| `EscrowPaysEachLeafOnce` | `Spec => []EscrowMatchesClaims` |
| `ContractIsSolvent`, `NobodyPays` | `Spec => []Solvent`, `Spec => NobodyPaysForOthers` |
| `TimeoutsAreBurned` | `Spec => ReportsCostEther`: aggregators together never gain, and a report burns some of what they own |
| `ContractIsALedger` | `Spec => ImplementsLedger`, that is `EscrowLedger`'s `Spec` under the mapping (section 2) |
| `ProvidersAreJudgedByTheirOwnBlobs` | `Spec => []NobodyIsFramed` (`EpochPipeline`) |
| `PipelineTypeCorrect`, `SettlesTheRegistry` | `Spec => []TypeOK`, `Spec => []ExactlyTheRegistry` (`EpochPipeline`) |
| `EvidenceStands`, `VerdictsAreDeserved` | `Spec => []HonestEvidenceStands`, `Spec => []LeavesAreDeserved` |
| `LotteryTypeCorrect`, `SuspensionsEnd` | `Spec => []TypeOK`, `Spec => []SuspensionIsFinite` (`WorkerLottery`) |
| `RotationHolds`, `WorkersRest` | `Spec => RotationNeverJams`, `Spec => BusyWorkersRest` (`WorkerLottery`) |
| `DATypeCorrect`, `PositionsAreOrdered`, `ReadsOfClosedWindowsAreFinal` | `Spec => []TypeOK`, `Spec => []ChainIsOrdered`, `Spec => []ClosedWindowsAreWhole` (`DataAvailability`) |
| `BackendsImplementMemoryDA` | `Spec => ImplementsMemoryDA`, that is `Memory!Spec` under the refinement mapping |
| `TypeCorrect` (`ProviderApiProofs`) | `Spec => []TypeOK` (`ProviderApi`) |
| `RefundsGoThrough`, `ChainGoesOn` | `Spec => []RefundsNeverBlocked`, `Spec => []ChainIsNeverStuck` |
| `SealsThePiece`, `InTurnSealsExactly`, `RetriesAreSafe` | `Spec => []SealedBeginsWithThePiece`, `Spec => []InTurnIsExact`, `Spec => []RetriesKeepThePrefix` |
| `DeletionsAreCaught`, `TreesBind`, `LossIsNoticed` | `Spec => []BlockDeletionIsCaught`, `Spec => []MerkleTreesBind`, `Spec => []LossIsSeen` (`Formulas`) |
| `ScheduleHolds` | `Spec => []ScheduleIsSound`, that is `OneSlotPerHeight` and `TimesAgree` |
| `LayoutsMatch` | `Spec => []LayoutsAgree` |
| `RegistriesBind` | `Spec => []RegistryBindsTheEpoch` |
| `CongestionIsSeventyPercent` | `Spec => []SeventyPercent` |

The assumptions of the contract's modules: the amounts are natural numbers and shares are at most the
base; callers pass values of the parameter's type; address zero and the outsider
are no participant; providers, deals and aggregators are finite sets; a timeout
takes at least one wei of the minimum deposit, and the bounty is not all of it (a
tenth of one ether and a twentieth of that, in the source); the rotation modulus is a common multiple of the possible list lengths. That of
`EpochPipeline`: the deals a faulty worker can invent are finitely many. Those of
the pure parts: the submit window fits into its deadline and the numbers of an
epoch's deadlines into the stride (`ClockAssumption`); a beacon mixes no more blocks than a
deadline has (`BeaconAssumption`); the thresholds of congestion are the code's
1024 and 179 (`CongestionAssumption`); a chunk holds something, and a fraction is
between nothing and all (`FormulasAssumption`). `ProfileAssumption` has TLC look
the first two up in both profiles of the code.

The arguments, from the bottom:

1. `TypeInv`. `TypeOK` is not inductive: `claimSettlement` reads
   `providers[deal.provider]`, a provider's record only because a leaf is always
   of an activated deal (`LeavesAreOfActivatedDeals`), which holds because the
   log lists Active deals only (`LogListsActiveDeals`) and a deal that was
   opened names a provider (`DealsKnowTheirProvider`). The four together are.
2. `EpochInv`. `commitEpoch` writes over whatever is under the next epoch number;
   that this is never a Final record somebody was paid from is
   `EpochsAreContiguous`.
3. `EscrowInv` extends the escrow equation to Pending deals, which have no
   claims because claims are of leaves (2) and leaves of activated deals (1).
4. `CountsMatch`, `SignersMatch`, `SlotInv`: cardinalities change with the
   element added or removed; abort removes from the log a deal that is not in it.
5. `SolvencyInv` adds `ClosedIsEmpty`: a closed deal's escrow is zero, so a leaf
   of a closed deal can carry no reward. A total is defined as a number of coins,
   one per wei, so that `TotalUpdate` (changing one value of a function changes
   its total by the difference) follows from facts about finite sets, without an
   induction over the domain.
6. `PipelineInv`: every answer ever given, honest or not, rests on blobs still on
   the chain (`Witnessed`), because the chain only grows; the join of verdicts
   is one of them, and the earliest of the blobs kept is one of the blobs kept.
7. `LotteryInv`: a suspension is set from the current deadline, and numbers of
   deadlines go up also over the end of an epoch, which is where
   `DEADLINES_PER_EPOCH <= DEADLINE_STRIDE` is needed.
8. `RotationInv`: of the workers drawn since any deadline `a` there are at most r
   for each cell from `a` to now (`DrawnSince`). Each turn of the loop adds at
   most r workers and at least one cell (`CellsMoveOn`). With `a` the first
   deadline of the cooldown, fewer than `required_workers` - r are busy, so r of
   that many live workers are free (`EnoughAtRest`). `NEVER + COOLDOWN < 0` says
   that a worker never drawn is free from the start.

9. `DAInv`: whoever submits holds the lock, so the position it computed is still
   the next one when it appends (`LockInv`), and nothing is ahead of that
   position (`OrderInv`). A read has collected exactly what is in its window in
   the part of the list, or of the heights, it has passed (`SoFar`); appends
   and new blocks come behind that part, or after a window that was over. Hence
   an append is a submit of `MemoryDA`, a return is a read, all else stutters.
10. `ProviderInv`. `SealInv`: a buffer only grows, so chunks that had the root at
   the check are still its beginning when it is sealed. `OwnBuffer`: with clients
   that wait, a deal has one request at a time and its buffer is that of no other
   deal or request, so that nothing changes between check and seal (`Exact`),
   and what is left of a batch goes on where the buffer ends (`Continues`).
   Nothing is used of the tree but that it is a function of its leaves.
11. `SettleInv`, beside `PipelineInv`. An honest answer is given when its window
   is over, and such a window gets no more blobs: what the worker said stays what
   a judge would say at the end (`HonestStays`). After the aggregate nothing is
   folded, since it has a fold of every deadline and none is folded twice
   (`LeavesInv`). The declared sizes of the cells are those of the honest answers
   (`SameCardinality`), and numbering each cell's own deals maps the deals of the
   registry onto all that is counted (`TokensAreDeals`). So there are no more
   verdicts than deals, while each deal has one from its cell's honest answer:
   a finite set with a subset as large as itself is that subset.
12. `CallsAreMarked`: the pool's marks are the calls made, since every turn of
   the loop marks whom it calls at once and no outcome takes a mark away. Then the
   filter of resting workers speaks of the calls, for all shards of a deadline.

13. `RefundsNeverBlocked` and `ChainIsNeverStuck` are stated with the conditions
    under which the calls do not revert (`CanAbortDeal`, `CanCloseExpiredDeal`,
    `CanCommitEpoch`), which are the guards of the actions; the rest of each action
    assigns every variable, so the guard is all that `ENABLED` could ask. A refund
    is covered by the balance because the contract is solvent (5), and its
    decrements by the counts (4). For the chain: past its deadline an epoch can be
    committed by anybody, before it by whoever is designated.
14. `Formulas`. Inputs never change, so a promise is a lemma about one input
    (`InputsOnly`). The sizes in it are any: the bounds of the run are constants.
    - Recursive functions. That one exists is proved by extending an approximation
      by one place (`LevelsExist`, `PlacesExist`, `NodesExist`, `StatesExist`,
      `SealsExist`, `WideExist`, `LogsExist`); from then on it is known by its
      steps. Inductions over numbers go through `NumberInduction`, over the set
      of the numbers for which the claim holds.
    - `MerkleTreesBind`. A level is as long as the place of the last leaf, halved
      as often, plus one (`LevelLengths`), so the height depends on the number of leaves only
      (`HeightIs`). The path of a leaf climbs to the root (`PathsClimb`); going down
      again, equal nodes come of equal nodes (`ClimbBinds`, `RootBinds`).
    - `LossIsSeen`. Folding binds the chunk and the state it met (`AbsorbBinds`), so
      two chains that take up different things part there and, each link holding
      the one before, never meet again (`ChainsPart`), with fan-in too. The root
      binds the leaves, these the chunks and the replica (`SealBinds`). Reads are
      those of the places in the file (`LossIsLocal`, `CutIsLocal`), and the
      multiples of the rounded step are enough (`EnoughAreLost`).
    - `OneSlotPerHeight`. A slot is known by its number since genesis
      (`SlotNumberIsUnique`), and slots are a deadline's length apart
      (`SlotsApart`); a window and the blocks of a beacon fit into that length.
    - `BlockDeletionIsCaught`. Challenge k lies in bucket k - 1; a hole with none
      of them is shorter than two buckets, or reaches into the remainder.
    - `RegistryBindsTheEpoch`. Chains over lists of any length that end alike have
      the same last entry and the same rest, down to genesis (`LogBindsEntries`).
      A deal's cell is the pair of its deadline and its shard, so it has one (`CellsOfDeals`).
    - `SeventyPercent`. Sorting by rank undoes any order of reading; rounding to
      255ths reaches 179 just above seven tenths, since 178.5 is rounded to even.
    - `LayoutsAgree`. The places a packing begins its fields at exist and are the
      sums of the widths before them (`PackingsExist`, `OffsetsArePacked`), and
      the lengths of the fixed layouts follow one field at a time.
15. `LedgerInv`, under which every step of the contract is a step of
    `EscrowLedger` or none. `SlotInv` is needed because the ledger counts the
    deals where the contract reads `usedSlots`; `SealedIsPaid` because a deal may
    be confirmed once its fee is paid, and `activate` asks for a sealed root
    instead, which is only written by the call that pays the fee;
    `ClosedIsEmpty` because a leaf may be claimed after its deal is closed, and
    must then find nothing in the escrow; `TypeInv` because the provider a leaf
    slashes is a provider. There is one lemma for each handler, and three that say
    how the accounts move when one deal, one provider or nothing changes
    (`DealAccounts` and those after it), so that a step is compared account by
    account.

16. `ReportsCostEther`. The designated aggregator has the minimum at least
    (`DesignatedIsFunded`), of which the slash is a share above zero
    (`ShareOfMinimum`), and the reporter's bounty is less than the slash
    (`BountyIsLess`), so even aggregators that report one another lose together;
    deposits and withdrawals move an aggregator's own ether (`OwnMoves`). The
    measure is a natural number, so reports are finitely many. It counts what
    aggregators own at the start and win as reporters; bounties for claims are the
    outsider's in the model.

Of the properties the runs check only `EpochsKeepComing` has no proof: liveness
under fairness is outside the prover. Its safety half is proved, by 16 (only so
many reports set the deadline again) and `ChainGoesOn` (somebody may always
commit, past the deadline anybody); that fair provers then do is TLC's. `close` and `void` are runs with
a counterexample.

## 5. What is not modelled

- The Nova circuit, Poseidon2 and the SP1 proof system: field arithmetic and
  proof generation are out of TLC's reach; the model takes an accepted proof to be
  sound. The Rust guest repeats the Python worker; its namespace proofs are
  library code.
- Encodings, ports and files: JSON-RPC, the data roots of squares, the watchtower's health
  endpoint, scripts, benchmarks, cost formulas, cycle counts.
- Of the provider's service: `quote`, which changes no state and reserves
  nothing, `status`, a read, and the external proving binaries. Of the client:
  reading files. Of the harness: the reports of the scenarios.
- The contract's batch and state roots, which no condition reads, and the
  constructor.

What could be added: the pipeline's settlement list as the contract's input, in
one specification, which `ExactlyTheRegistry` and `commitEpoch`'s guards now join
only in words. `EscrowLedger` does not promise that what was escrowed is earned
or given back: the disagreements `close` and `void` make that false.

## 6. Where comments and code disagree

Two are runs with a counterexample of a few steps; `PROJECT.json` "findings"
quotes the lines.

| Run | The text says | The code does |
|---|---|---|
| `close` | closing an expired deal harms nobody and refunds the unused part | it refunds rewards the provider has earned and not yet claimed |
| `void` | an epoch is voided only when nobody could commit it | a committed epoch waiting for its relay is voided when the *next* commit is late |

The others were met while modelling and have no run of their own. In the
contract:

- `openDeal` (`EngramManager.sol:666`) takes the number of slots in use as the
  index of the new slot. `crypto.py:146` has one deal per slot; after a slot is freed the
  next deal gets the index of one still live.
- `reportAggregatorTimeout` (`EngramManager.sol:936`) advances the rotation by one, while
  `designatedAggregator` (line 915) skips underfunded aggregators: with one of those
  between, the same aggregator is designated, and slashed, again
  (`AggregatorLiveness.t.sol:27` has the turn pass on).
- `withdrawCollateral` (`EngramManager.sol:863`): the lock is there so that
  collateral cannot leave before a slash reaches the chain (lines 842-844), but a
  request made ahead of the fault, and slots freed by a close, let it.
- `requestAggregatorWithdraw` (`EngramManager.sol:952`): a request before the first
  epoch is stored as 0, which means "not asked" (line 273).

In the workers' and the harness's code:

- `is_free` (`lottery.py:83`, `clock.py:54`) compares numbers of the form
  `epoch * 1_000_000 + index` with a cooldown in deadlines (`lottery.py:112`), so every worker is
  free again when an epoch ends; a suspension (`lottery.py:314`, line 52) ends with
  the epoch for the same reason.
- `run_deadline` (`scenarios.py:50`): the cap is on the cells of this epoch
  (`lottery.py:13`), the count it looks at is never reset.
- `verify_registry` (`membership.py:141`) binds the entries to the contract's hash;
  the separate list of deals `verify.py:132-136` reads is bound by nothing.
- `verify_shard` calls `prove_coverage` without `square_roots`, so the reported
  saturation is always 0, and nothing on the main path calls the circuit breaker or
  `seal_seqwide`.
- The harness reads `da.height`, which `CelestiaDA` does not have.

In the provider's and the common code:

- `accept`'s docstring (`api.py:97-99`) says that after a wrong root only the wrong
  chunks are sent again, but `put_chunks` only appends: a buffer that holds a
  wrong chunk cannot be repaired.
- `accept` seals a list that may have grown since its root was checked, and a
  second upload and accept of a deal replaces what was sealed.
- A tree repeats an odd last leaf, so a piece and the piece with its last chunk twice can have one
  root; the contract's count of deals is what tells settlement lists apart.
- `spread_challenge`'s docstring says that no contiguous block escapes; the last
  `n mod C` chunks are in no bucket (`BlockDeletionIsCaught` states what holds).
- `prepare` accepts data larger than a sector; `status` reads `lost_indices`, which
  `DealStorage` does not have.
- The layout's comments say 296 bytes of public values, `PV_OFFSETS` leaves
  `window_saturation` out, and the guest packs 288 (`sp1_verify/shared/src/lib.rs:48`);
  host and contract agree on 297 (`LayoutsAgree`).
