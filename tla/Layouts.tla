------------------------------- MODULE Layouts -------------------------------
(***************************************************************************)
(* The byte layouts that two programs have to agree on.  A layout is a       *)
(* sequence of <<field, width>>; nothing is padded.                          *)
(***************************************************************************)
EXTENDS Integers, Sequences

\* Where each field of a packed layout begins, and where the last one ends.
Offsets(layout) ==
    LET from[k \in 1..Len(layout) + 1] ==
            IF k = 1 THEN 0 ELSE from[k - 1] + layout[k - 1][2]
    IN  from
Offset(layout, k) == Offsets(layout)[k]
Size(layout) == Offset(layout, Len(layout) + 1)

\* Seeded fault: the state roots change places.
PublicValues_Swapped ==
    <<<<"epoch", 8>>, <<"batch_root", 32>>, <<"da_commitment", 32>>, <<"da_nonce", 8>>,
      <<"results_root", 32>>, <<"results_data_root", 32>>, <<"storage_vk_digest", 32>>,
      <<"snapshot_id", 32>>, <<"prev_state_root", 32>>, <<"new_state_root", 32>>,
      <<"submitter", 20>>, <<"num_verified", 4>>, <<"window_saturation", 1>>>>

\* PublicValues.pack (clock.py).
PublicValues ==
    <<<<"epoch", 8>>, <<"batch_root", 32>>, <<"da_commitment", 32>>, <<"da_nonce", 8>>,
      <<"results_root", 32>>, <<"results_data_root", 32>>, <<"storage_vk_digest", 32>>,
      <<"snapshot_id", 32>>, <<"submitter", 20>>, <<"prev_state_root", 32>>,
      <<"new_state_root", 32>>, <<"num_verified", 4>>, <<"window_saturation", 1>>>>

PUBLIC_VALUES_BYTES == 297

\* PV_OFFSETS, the table for comparison; it leaves the last field out.
PV_OFFSETS ==
    [epoch |-> <<0, 8>>, batch_root |-> <<8, 32>>, da_commitment |-> <<40, 32>>,
     da_nonce |-> <<72, 8>>, results_root |-> <<80, 32>>, results_data_root |-> <<112, 32>>,
     storage_vk_digest |-> <<144, 32>>, snapshot_id |-> <<176, 32>>, submitter |-> <<208, 20>>,
     prev_state_root |-> <<228, 32>>, new_state_root |-> <<260, 32>>,
     num_verified |-> <<292, 4>>]

\* The slices _decodePublicValues of the contract takes: from, to.
decodePublicValues ==
    [epoch |-> <<0, 8>>, batch_root |-> <<8, 40>>, da_commitment |-> <<40, 72>>,
     da_nonce |-> <<72, 80>>, results_root |-> <<80, 112>>, results_data_root |-> <<112, 144>>,
     storage_vk_digest |-> <<144, 176>>, snapshot_id |-> <<176, 208>>, submitter |-> <<208, 228>>,
     prev_state_root |-> <<228, 260>>, new_state_root |-> <<260, 292>>,
     num_verified |-> <<292, 296>>, window_saturation |-> <<296, 297>>]

\* HEADER_STRUCT (blob.py), what BlobHeader.pack puts into it and what unpack takes
\* out of it, in order; constants under the names of their places.
HEADER_STRUCT ==
    <<<<"magic", 4>>, <<"version", 1>>, <<"kind", 1>>, <<"deadline", 8>>, <<"shard", 4>>,
      <<"provider_id", 20>>, <<"deal_id", 32>>, <<"payload_len", 4>>>>
pack == <<"magic", "version", "kind", "deadline", "shard", "provider_id", "deal_id",
          "payload_len">>
unpack == <<"magic", "version", "kind", "deadline", "shard", "provider_id", "deal_id",
            "payload_len">>
HEADER_SIZE == 74

\* The 29 bytes of a namespace: version and zeros, then the ten free ones.
build_namespace ==
    <<<<"namespace_version", 1>>, <<"leading_zeros", 18>>, <<"PROTOCOL_VERSION", 1>>,
      <<"kind", 1>>, <<"chain_id", 4>>, <<"shard", 4>>>>
NAMESPACE_SIZE == 29
=============================================================================
