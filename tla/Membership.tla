------------------------------ MODULE Membership ------------------------------
(***************************************************************************)
(* The full text of the registry, checked against the hash chain the         *)
(* contract keeps (common/membership.py, _logMembership).                    *)
(***************************************************************************)
EXTENDS Merkle, FiniteSetsExt

Genesis == <<"genesis">>

\* keccak of the log so far, the kind padded to 32 bytes, and two words.
LogMembership(log, kind, a, b) == <<log, kind, a, b>>

\* membershipLog of the contract once it has logged the entries in their order.
membershipLog(entries) ==
    LET log[i \in 0..Len(entries)] ==
            IF i = 0 THEN Genesis
            ELSE LogMembership(log[i - 1], entries[i].kind, entries[i].a, entries[i].b)
    IN  log[Len(entries)]

\* Seeded fault: the kind is not hashed.
ReplayEntry_Kindless(log, e) == <<log, "", e.a, e.b>>

ReplayEntry(log, e) == LogMembership(log, e.kind, e.a, e.b)

\* The log after each entry, from genesis on.
HashChain(entries) ==
    LET log[i \in 0..Len(entries)] ==
            IF i = 0 THEN Genesis ELSE ReplayEntry(log[i - 1], entries[i])
    IN  log

replay(entries) == HashChain(entries)[Len(entries)]

\* The registry is let in; anything else raises SnapshotMismatch.
verify_registry(registry, onchain_snapshot_id, epoch) ==
    registry.epoch = epoch /\ replay(registry.entries) = onchain_snapshot_id

-----------------------------------------------------------------------------
\* The shard of a deal, for life; hash is that of its id.
derive_shard(hash, n_shards) == hash % Max({1, n_shards})

\* The registry the harness writes: one activation per deal.  The records of the
\* deals stand beside the entries and are not hashed.
SimRegistry(epoch, deals) ==
    [epoch |-> epoch,
     entries |-> [i \in DOMAIN deals |-> [kind |-> "DEAL_ACTIVE", a |-> deals[i].deal_id,
                                           b |-> "zero"]],
     deals |-> ToSet(deals)]

\* The cell's deals, or nothing where verify_registry raises; the order of keys is
\* left out.
expected_from_registry(registry, onchain_snapshot_id, epoch, deadline_idx, shard) ==
    IF verify_registry(registry, onchain_snapshot_id, epoch)
    THEN {deal \in registry.deals : /\ deal.deadline_idx = deadline_idx
                                     /\ deal.shard = shard}
    ELSE {}
=============================================================================
