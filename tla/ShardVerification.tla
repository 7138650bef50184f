-------------------------- MODULE ShardVerification --------------------------
(***************************************************************************)
(* The data availability layer, an open log of signed blobs, and what one   *)
(* worker concludes from it about one cell: the ladder of filters and the   *)
(* merge-join on the deals the registry expects (orchestrator/harness.py,   *)
(* common/blob.py, worker/verify.py).                                       *)
(***************************************************************************)
EXTENDS Clock, Aggregate, Sequences

CONSTANTS
    Deals,           \* keys (provider_id, deal_id) of the frozen registry
    Signers,         \* Celestia addresses, of providers and of strangers
    signer_of,       \* deal -> the address its provider registered
    deadline_idx, shard_of,   \* deal -> its deadline and its shard
    Garbage          \* a payload that is no proof of any deal

VARIABLES
    height,          \* of the chain
    da               \* its blobs, in the order of (height, index)

daVars == <<height, da>>

ASSUME DealAssumption ==
    /\ IsFiniteSet(Deals)
    /\ N_SHARDS \in Nat \ {0}
    /\ signer_of \in [Deals -> Signers]
    /\ deadline_idx \in [Deals -> DeadlineIdxs]
    /\ shard_of \in [Deals -> 0..(N_SHARDS - 1)]

\* A blob in the namespace of a shard.  Its signer is the one field consensus
\* vouches for; the header is whatever its author wrote.  wellFormed stands for
\* the length of the payload and the constant fields of the header, and the
\* payload for the deal whose sealed root it proves.
Blob == [height: Nat, namespace: 0..(N_SHARDS - 1), signer: Signers,
         wellFormed: BOOLEAN, deadline: Nat, shard: 0..(N_SHARDS - 1),
         deal: Deals, payload: Deals \cup {Garbage}]

-----------------------------------------------------------------------------
\* Anyone may write anything under any namespace.
Submit(blob) ==
    /\ blob.height = height
    /\ da' = Append(da, blob)
    /\ UNCHANGED height

\* Seeded fault: a chain that may go back.
NextBlock_Reorg ==
    /\ height' \in {height + 1, height - 1} \cap Nat
    /\ UNCHANGED da

NextBlock ==
    /\ height' = height + 1
    /\ UNCHANGED da

\* Positions of the blobs of a namespace in a range of heights.
read(namespace, from, to) ==
    {i \in DOMAIN da : /\ da[i].namespace = namespace
                       /\ from <= da[i].height /\ da[i].height < to}

-----------------------------------------------------------------------------
\* The deals of the registry in a cell.
expected_for(d, s) == {k \in Deals : deadline_idx[k] = d /\ shard_of[k] = s}

\* Seeded fault: the ladder without the signer.
KeptFor_AnySigner(view, k, deadline, s) ==
    {i \in view : /\ da[i].wellFormed
                  /\ da[i].deadline = deadline /\ da[i].shard = s
                  /\ da[i].deal = k}

\* F1-F3b: well formed, for this deadline and shard and deal, and signed with
\* the address the deal's provider registered.
KeptFor(view, k, deadline, s) ==
    {i \in view : /\ da[i].wellFormed
                  /\ da[i].deadline = deadline /\ da[i].shard = s
                  /\ da[i].deal = k
                  /\ da[i].signer = signer_of[k]}

\* F4: the earliest of them.
Earliest(S) == CHOOSE i \in S : \A j \in S : i <= j

verify_bundle(i, k) == da[i].payload = k

VerdictOn(view, k, deadline, s) ==
    LET kept == KeptFor(view, k, deadline, s)
    IN  IF kept = {} THEN ABSENT
        ELSE IF verify_bundle(Earliest(kept), k) THEN PASS ELSE FAIL

\* The merge-join runs over the expected deals, never over the blobs.
verify_shard(epoch, d, s, snapshot_id, expected, view) ==
    LET deadline == absolute_deadline(slot_at(epoch, d))
    IN  [deadline |-> deadline, shard |-> s, snapshot_id |-> snapshot_id,
         expected_count |-> Cardinality(expected),
         verdicts |-> [k \in expected |-> VerdictOn(view, k, deadline, s)]]
=============================================================================
