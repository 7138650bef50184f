------------------------------ MODULE Challenges ------------------------------
(***************************************************************************)
(* Which chunks of a deal are challenged (spread_challenge of                *)
(* common/crypto.py), over a piece as the client prepares it                 *)
(* (client/prepare.py).  draw[i] is the number hashed from beacon, deal, i.  *)
(***************************************************************************)
EXTENDS Integers, Sequences, FiniteSetsExt

\* What prepare cuts data of so many bytes into, padded to the whole sector.
prepare(n_bytes, chunk_size, sector_chunks) ==
    [n_chunks_real |-> Max({1, (n_bytes + chunk_size - 1) \div chunk_size}),
     n_chunks_padded |-> sector_chunks]

\* Seeded fault: rounded up, so that the buckets reach over the end.
Bucket_Up(n, count_challenges) == (n + count_challenges - 1) \div count_challenges

Bucket(n, count_challenges) == Max({1, n \div count_challenges})

spread_challenge(draw, count_challenges, offset, n) ==
    IF count_challenges <= 0 \/ n <= 0 THEN << >>
    ELSE [k \in 1..count_challenges |->
             Min({offset + (k - 1) * Bucket(n, count_challenges)
                         + (draw[k] % Bucket(n, count_challenges)),
                  offset + n - 1})]
=============================================================================
