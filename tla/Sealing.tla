------------------------------- MODULE Sealing -------------------------------
(***************************************************************************)
(* A sector of raw data on the provider's disk (provider/sector.py,          *)
(* storage.py) and the sealing of its chunks (provider/sealing.py).  A chunk *)
(* is a sequence of limbs; hashes are terms, as in Merkle.                   *)
(***************************************************************************)
EXTENDS Merkle

CONSTANTS
    CHUNK_SIZE,          \* limbs in a chunk
    ZeroLimb             \* what lost and padded data reads as

-----------------------------------------------------------------------------
(***************************************************************************)
(* The sector: n_chunks is fixed when it is made, the file may change.       *)
(***************************************************************************)
Gone == [deleted |-> TRUE]
File(limbs) == [deleted |-> FALSE, limbs |-> limbs]

\* Limb i of a list, counted from 1, and zeros after its end.
LimbAt(limbs, i) == IF i <= Len(limbs) THEN limbs[i] ELSE ZeroLimb

from_bytes(limbs) ==
    LET n == (Len(limbs) + CHUNK_SIZE - 1) \div CHUNK_SIZE
    IN  [n_chunks |-> n, file |-> File([i \in 1..n * CHUNK_SIZE |-> LimbAt(limbs, i)])]

\* What a read of chunk index finds; a truncated file reads short.
Read(sector, index) ==
    LET limbs == sector.file.limbs
        from == index * CHUNK_SIZE
        width == Max({0, Min({CHUNK_SIZE, Len(limbs) - from})})
    IN  [i \in 1..width |-> limbs[from + i]]

\* chunk: an index out of range and missing data raise.
CanRead(sector, index) ==
    /\ index \in 0..sector.n_chunks - 1
    /\ ~sector.file.deleted
    /\ Len(Read(sector, index)) = CHUNK_SIZE

\* iter_chunks: a short read is padded instead.
iter_chunks(sector) ==
    [k \in 1..sector.n_chunks |-> [i \in 1..CHUNK_SIZE |-> LimbAt(Read(sector, k - 1), i)]]

Truncate(sector, n) ==
    LET limbs == sector.file.limbs
    IN  [sector EXCEPT !.file = File([i \in 1..Min({n, Len(limbs)}) |-> limbs[i]])]

\* lose_chunks writes zeros, also past the end of a truncated file.
lose_chunks(sector, indices) ==
    LET limbs == sector.file.limbs
        Hit(i) == (i - 1) \div CHUNK_SIZE \in indices
        end == Max({Len(limbs)} \cup {(j + 1) * CHUNK_SIZE : j \in indices})
    IN  [sector EXCEPT !.file =
            File([i \in 1..end |-> IF Hit(i) THEN ZeroLimb ELSE LimbAt(limbs, i)])]

\* max(1, int(1 / max(1e-9, fraction))) of the fraction p / q.
LossStep(p, q) == IF p = 0 THEN 10^9 ELSE Max({1, q \div p})

LostIndices(n_chunks, p, q) == {i \in 0..n_chunks - 1 : i % LossStep(p, q) = 0}

lose_fraction(sector, p, q) ==
    lose_chunks(sector, LostIndices(sector.n_chunks, p, q))

delete(sector) == [sector EXCEPT !.file = Gone]

-----------------------------------------------------------------------------
(***************************************************************************)
(* Sealing, algorithm 1c: the S chain runs through all the chunks.           *)
(***************************************************************************)
H2(a, b) == <<"H2", a, b>>
H4(a, b, c, d) == H2(H2(a, b), H2(c, d))
Number(i) == <<"number", i, "", "">>

derive_replica_id(provider_id, deal_id, piece_root, activation_beacon) ==
    <<provider_id, deal_id, piece_root, activation_beacon, "replica">>

\* What a state becomes that takes up a chunk limb by limb.
Absorb(start, chunk) ==
    LET state[i \in 0..Len(chunk)] == IF i = 0 THEN start ELSE H2(state[i - 1], chunk[i])
    IN  state[Len(chunk)]

fold_limbs(chunk) == Absorb(Number(CHUNK_SIZE), chunk)

\* Seeded fault: the chain does not take up what the chunk left.
Chained_Not(s_prev, r) == s_prev

Chained(s_prev, r) == H2(s_prev, r)

\* The R of chunk i, counted from 0.
r_value(chunk, i, s_prev, replica_id) ==
    H4(fold_limbs(chunk), s_prev, Number(i), replica_id)

\* The S of every chunk, and before the first of them the replica's name.
s_chain(chunks, replica_id) ==
    LET s[i \in 0..Len(chunks)] ==
            IF i = 0 THEN replica_id
            ELSE Chained(s[i - 1], r_value(chunks[i], i - 1, s[i - 1], replica_id))
    IN  s

sealed_root(chunks, replica_id) ==
    LET s == s_chain(chunks, replica_id)
    IN  merkle_root([i \in DOMAIN chunks |->
                        H2(r_value(chunks[i], i - 1, s[i - 1], replica_id), s[i])])

\* The positions before i that chunk i depends on; draws stands for the hashes.
fanin_positions(i, draws) ==
    IF i = 0 THEN << >> ELSE [t \in DOMAIN draws |-> draws[t] % i]

\* Algorithm 1d: the chunk is folded into a state seeded with S, there and at the
\* fan-in positions.  Nothing calls it.
s_chain_wide(chunks, replica_id, draws) ==
    LET s[i \in 0..Len(chunks)] ==
            IF i = 0 THEN replica_id
            ELSE LET s_prev == s[i - 1]
                     fanin == fanin_positions(i - 1, draws)
                     seed == <<s_prev, [t \in DOMAIN fanin |-> s[fanin[t] + 1]],
                               Number(i - 1), replica_id>>
                 IN  Chained(s_prev, Absorb(seed, chunks[i]))
    IN  s

\* lose_data of the harness: the deal counts as lost when sealing what is on
\* the disk now gives another root than the one on the chain.
SeenAsLost(sector, replica_id, committed) ==
    sealed_root(iter_chunks(sector), replica_id) # committed
=============================================================================
