------------------------------- MODULE Formulas -------------------------------
(***************************************************************************)
(* What the pure parts of the system promise, as properties of one input     *)
(* each: a state is one call, or a few calls on one value.                   *)
(***************************************************************************)
EXTENDS Challenges, Sealing, Schedule, Layouts, Congestion, Membership

CONSTANTS
    MAX_BYTES, MAX_CHALLENGES,   \* bounds: data of a client, challenges
    LeafValues, MAX_LEAVES,      \* bounds: contents and size of trees
    CAPACITY_SLOTS,              \* bound: capacities of slot trees, powers of two
    Limbs, MAX_LIMBS,            \* bounds: contents and size of sectors
    FRACTIONS,                   \* bound: the fractions p / q that are lost
    MAX_EPOCH,                   \* bound: heights up to the end of this epoch
    MAX_SECONDS,                 \* bound: window and proving times
    MAX_BLOCKS,                  \* bound: blocks in a window
    Kinds, Words, MAX_ENTRIES,   \* bounds: entries of the registry
    MAX_DEALS, MAX_HASH          \* bounds: deals of a network, the two hashes of their ids

\* The bounds are natural numbers, a chunk holds something, and a fraction is one.
ASSUME FormulasAssumption ==
    /\ {MAX_BYTES, MAX_CHALLENGES, MAX_LEAVES, MAX_LIMBS, MAX_EPOCH, MAX_SECONDS,
        MAX_BLOCKS, MAX_ENTRIES, MAX_DEALS, MAX_HASH} \subseteq Nat
    /\ CHUNK_SIZE \in Nat \ {0} /\ CAPACITY_SLOTS \subseteq Nat \ {0}
    /\ \A f \in FRACTIONS : f \in Nat \X (Nat \ {0}) /\ f[1] <= f[2]

VARIABLE input

BoundedLists(S, n) == UNION {[1..k -> S] : k \in 0..n}

\* The chunks a client's data of so many bytes has, before padding.
RealChunks(n_bytes) ==
    prepare(n_bytes, CHUNK_SIZE, MAX_BYTES \div CHUNK_SIZE).n_chunks_real

ChallengesOf(n) ==
    UNION {[kind: {"challenge"}, n: {n}, offset: {0, 5}, draw: [1..C -> 0..Bucket(n, C)]] :
               C \in 1..MAX_CHALLENGES}

ChallengeInputs == UNION {ChallengesOf(RealChunks(n_bytes)) : n_bytes \in 0..MAX_BYTES}

TreeInputs == [kind: {"tree"}, leaves: BoundedLists(LeafValues, MAX_LEAVES) \ {<< >>}]

SectorInputs ==
    [kind: {"sector"}, limbs: BoundedLists(Limbs, MAX_LIMBS), lose: FRACTIONS]

HeightInputs ==
    [kind: {"height"}, hash: 0..DEADLINES_PER_EPOCH,
     height: GENESIS_HEIGHT..OpenHeight(SlotNumber(MAX_EPOCH + 1, 0)) - 1]

WindowInputs ==
    [kind: {"window"}, w: 0..MAX_SECONDS, t_prove: 0..MAX_SECONDS, t_regen: 0..MAX_SECONDS]

LayoutInputs == [kind: {"layout"}, field: DOMAIN PublicValues]

BlocksInputs ==
    UNION {[kind: {"blocks"}, n: {n}, full: 0..n, covered: {0, 1, 2}, n_workers: {0, 100}] :
               n \in 1..MAX_BLOCKS}

RegistryInputs ==
    [kind: {"registry"}, entries: BoundedLists([kind: Kinds, a: Words, b: Words], MAX_ENTRIES)]

NetworkInputs ==
    UNION {[kind: {"network"}, n_shards: 1..3,
            hashes: [1..n -> (0..MAX_HASH) \X (0..MAX_HASH)]] : n \in 1..MAX_DEALS}

Inputs ==
    ChallengeInputs \cup TreeInputs \cup SectorInputs \cup HeightInputs \cup WindowInputs
        \cup LayoutInputs \cup BlocksInputs \cup RegistryInputs \cup NetworkInputs

Init == input \in Inputs
Next == UNCHANGED input
Spec == Init /\ [][Next]_input

-----------------------------------------------------------------------------
\* Challenges fall on chunks the client has, never on padding, and never twice
\* on one while there are enough; and a hole longer than two buckets, or than a
\* bucket and the remainder at the end, is always hit.  (A shorter one at the end
\* may be missed for ever: the last n mod C chunks are in no bucket.)
BlockDeletionIsCaught ==
    input.kind = "challenge" =>
        LET C == Len(input.draw)
            bucket == Bucket(input.n, C)
            tail == IF input.n < C THEN 0 ELSE input.n % C
            hits == spread_challenge(input.draw, C, input.offset, input.n)
            chunks == input.offset..input.offset + input.n - 1
            longest == Max({2 * bucket - 2, bucket - 1 + tail})
        IN  /\ ToSet(hits) \subseteq chunks
            /\ input.n >= C => Cardinality(ToSet(hits)) = C
            /\ \A a \in chunks : a + longest \in chunks =>
                   (a..a + longest) \cap ToSet(hits) # {}

\* A leaf is proven by its path and by no other leaf at its place, every path
\* has the height the prover is told, and two lists of one length have one root
\* only if they are the same: what the contract's count of deals has to make up for
\* is the repeated last leaf and nothing else.  In a slot tree, clearing a slot
\* leaves every other slot provable.
MerkleTreesBind ==
    input.kind = "tree" =>
        LET n == Len(input.leaves)
            leaves == [i \in 1..n |-> Leaf(input.leaves[i])]
            root == merkle_root(leaves)
        IN  /\ \A i \in 0..n - 1 :
                 LET path == merkle_proof(leaves, i)
                 IN  /\ n > 1 => Len(path) = tree_height(n)
                     /\ \A x \in LeafValues :
                            merkle_verify(Leaf(x), path, i, root) <=> x = input.leaves[i + 1]
            /\ \A t \in [1..n -> LeafValues] :
                   merkle_root([i \in 1..n |-> Leaf(t[i])]) = root => t = input.leaves
            /\ \A capacity \in CAPACITY_SLOTS, idx \in 0..n - 1 : n <= capacity =>
                   LET slots == [i \in 1..capacity |-> IF i <= n THEN leaves[i]
                                                      ELSE SlotTree(capacity)[i]]
                       cleared == SlotClear(slots, idx)
                       provider_root == merkle_root(cleared)
                   IN  \A i \in (0..capacity - 1) \ {idx} :
                           merkle_verify(slots[i + 1], merkle_proof(cleared, i), i,
                                         provider_root)

\* A provider that lost data cannot seal its way back: if any chunk on its disk
\* reads otherwise than when it was sealed, the root and everything the chain
\* holds from there on are others, with and without fan-in; what it can still
\* read is what was sealed; and it lost at least the fraction asked for.  (A chunk
\* of zeros that is lost is not missed: what is on the disk is the same.)
LossIsSeen ==
    input.kind = "sector" =>
        LET sector == from_bytes(input.limbs)
            chunks == iter_chunks(sector)
            replica == derive_replica_id("p", "d", "root", "beacon")
            committed == sealed_root(chunks, replica)
            chain(s) == s_chain(iter_chunks(s), replica)
            wide(s) == s_chain_wide(iter_chunks(s), replica, <<7, 5, 0>>)
            lost == lose_fraction(sector, input.lose[1], input.lose[2])
            cut == Truncate(sector, CHUNK_SIZE)
            Changed(s) == {k \in DOMAIN chunks : iter_chunks(s)[k] # chunks[k]}
        IN  /\ \A s \in {lost, cut, lose_fraction(cut, 1, 2)} :
                 /\ SeenAsLost(s, replica, committed) <=> Changed(s) # {}
                 /\ \A j \in DOMAIN chunks : Changed(s) \cap 1..j # {} =>
                        chain(s)[j] # chain(sector)[j] /\ wide(s)[j] # wide(sector)[j]
            /\ \A k \in DOMAIN chunks :
                 /\ CanRead(sector, k - 1) /\ ~CanRead(delete(sector), k - 1)
                 /\ CanRead(cut, k - 1) => Read(cut, k - 1) = chunks[k]
                 /\ k - 1 \notin LostIndices(sector.n_chunks, input.lose[1], input.lose[2])
                        => Read(lost, k - 1) = chunks[k]
            /\ Cardinality(LostIndices(sector.n_chunks, input.lose[1], input.lose[2]))
                   * input.lose[2] >= sector.n_chunks * input.lose[1]
            /\ chunks # << >> =>
                   sealed_root(chunks, derive_replica_id("p", "e", "root", "beacon"))
                       # committed

\* Every height is in one slot, and in no submission window but that slot's; the
\* beacon is made of blocks before the window opens, none of which any other
\* slot's is made of; the windows of an epoch, that of every deal's own deadline
\* among them, lie within its bounds, which those of the next do not reach into.
OneSlotPerHeight ==
    input.kind = "height" =>
        LET slot == slot_of(input.height)
            epoch == slot.epoch
            mine == slot_at(epoch, derive_deadline(input.hash))
        IN  /\ slot.open_height <= input.height
            /\ input.height < slot.open_height + DEADLINE_LEN_BLOCKS
            /\ \A e \in 0..MAX_EPOCH, d \in DeadlineIdxs :
                   in_submit_window(slot_at(e, d), input.height) => slot_at(e, d) = slot
            /\ \A h \in ToSet(beacon_heights(slot)) : h < slot.window_start
            /\ \A e \in 0..MAX_EPOCH, d \in DeadlineIdxs : slot_at(e, d) # slot =>
                   /\ beacon(slot_at(e, d)) # beacon(slot)
                   /\ ToSet(beacon_heights(slot_at(e, d))) \cap ToSet(beacon_heights(slot)) = {}
            /\ \A s \in {slot, mine} :
                   /\ epoch_bounds(epoch)[1] <= s.open_height
                   /\ s.window_end <= epoch_bounds(epoch)[2]
            /\ epoch_bounds(epoch)[2] <= epoch_bounds(epoch + 1)[1]

\* The report says of both sides of the inequality what the inequality says, and
\* the proving time it asks for is the one from which the right side holds; a
\* worker's rest is as long as its work, to the deadline.
TimesAgree ==
    input.kind = "window" =>
        LET report == window_safety_report(input.w, input.t_prove, input.t_regen)
            spans == cooldown_deadlines(input.t_prove, input.w) + 1
        IN  /\ window_safety_ok(input.w, input.t_prove, input.t_regen)
                   <=> report.left_ok /\ report.right_ok
            /\ input.w >= input.t_regen =>
                   (report.right_ok <=> input.t_prove > report.t_prove_min_required)
            /\ input.w > 0 =>
                   /\ spans * input.w >= input.t_prove
                   /\ spans > 1 => (spans - 1) * input.w < input.t_prove

\* The schedule is sound: heights and slots fit together, and the times a window
\* has to keep say so of the window that is meant.
ScheduleIsSound == OneSlotPerHeight /\ TimesAgree

\* Every field the host packs is where the contract reads it and where the table
\* for comparison has it; a header is packed and unpacked in the order of its
\* struct; the header's and the namespace's sizes are the fixed ones.
LayoutsAgree ==
    input.kind = "layout" =>
        LET name == PublicValues[input.field][1]
            from == Offset(PublicValues, input.field)
            width == PublicValues[input.field][2]
        IN  /\ decodePublicValues[name] = <<from, from + width>>
            /\ name \in DOMAIN PV_OFFSETS => PV_OFFSETS[name] = <<from, width>>
            /\ Size(PublicValues) = PUBLIC_VALUES_BYTES
            /\ pack = [k \in DOMAIN HEADER_STRUCT |-> HEADER_STRUCT[k][1]] /\ unpack = pack
            /\ Size(HEADER_STRUCT) = HEADER_SIZE /\ Size(build_namespace) = NAMESPACE_SIZE

\* A window counts as congested from just above seven tenths of full blocks on,
\* exactly; then the breaker trips however many cells are covered, and otherwise
\* a network that is too small cannot be voided by silencing it.  The coverage
\* proof does not depend on the order in which blobs were read.
SeventyPercent ==
    input.kind = "blocks" =>
        LET roots == [i \in 1..input.n |-> square_roots(IF i <= input.full THEN 65536 ELSE 3)]
            blobs == [i \in 1..3 |-> [height |-> i \div 2, index |-> i % 2]]
            coverage == prove_coverage(blobs, 0, input.n, roots)
            result == evaluate(input.covered, 2, input.n_workers, 2, 1,
                               coverage.window_saturation)
        IN  /\ result.da_congested <=> 10 * input.full > 7 * input.n
            /\ result.da_congested => result.tripped
            /\ ~result.da_congested /\ input.n_workers < 2 * WORKER_REDUNDANCY_R * 2
                   => ~result.tripped
            /\ prove_coverage(Reverse(blobs), 0, input.n, roots) = coverage

\* A registry passes only with the very entries the contract logged, in their
\* order, and only for its epoch.
OnlyTheLogPasses ==
    input.kind = "registry" =>
        \A entries \in BoundedLists([kind: Kinds, a: Words, b: Words], MAX_ENTRIES),
           epoch \in {1, 2} :
            verify_registry([epoch |-> epoch, entries |-> entries],
                            membershipLog(input.entries), 1)
                <=> epoch = 1 /\ entries = input.entries

\* The cells of an epoch share out the deals of the harness's registry, each deal
\* to one cell, so that the counts of the cells add up to the count the contract
\* compares them with; a registry of another epoch gives no cell any deal.
CellsShareOutTheDeals ==
    input.kind = "network" =>
        LET deals == [i \in DOMAIN input.hashes |->
                         [deal_id |-> i, deadline_idx |-> derive_deadline(input.hashes[i][1]),
                          shard |-> derive_shard(input.hashes[i][2], input.n_shards)]]
            registry == SimRegistry(1, deals)
            Expected(c, epoch) ==
                expected_from_registry(registry, membershipLog(registry.entries), epoch,
                                       c[1], c[2])
            cells == DeadlineIdxs \X (0..input.n_shards - 1)
        IN  /\ UNION {Expected(c, 1) : c \in cells} = ToSet(deals)
            /\ \A c, other \in cells : c # other => Expected(c, 1) \cap Expected(other, 1) = {}
            /\ Cardinality(ToSet(deals)) = Len(deals)
            /\ \A c \in cells : Expected(c, 2) = {}

\* The registry of an epoch binds its workers: a registry passes only with the very
\* entries the contract logged, and its cells share out its deals.
RegistryBindsTheEpoch == OnlyTheLogPasses /\ CellsShareOutTheDeals
=============================================================================
