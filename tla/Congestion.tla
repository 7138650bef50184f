------------------------------ MODULE Congestion ------------------------------
(***************************************************************************)
(* How a full DA window is told from absent providers: the size of a block's *)
(* square (common/da.py), the saturation the worker's coverage proof reports *)
(* (worker/coverage.py) and the circuit breaker (aggregator/circuit_breaker.py). *)
(***************************************************************************)
EXTENDS Merkle, FiniteSetsExt

CONSTANTS
    SQUARE_SATURATED_MIN_ROOTS, WINDOW_SATURATION_THRESHOLD,
    COVERAGE_SHA256_PER_WINDOW, DATA_SQUARE_ROOTS_MAX,
    WORKER_REDUNDANCY_R,
    THETA_NUM, THETA_DEN         \* the threshold theta as a fraction

\* The thresholds of constants.py.
ASSUME CongestionAssumption ==
    /\ SQUARE_SATURATED_MIN_ROOTS = 1024 /\ WINDOW_SATURATION_THRESHOLD = 179
    /\ WORKER_REDUNDANCY_R \in Nat

\* Sides of a square: powers of two, up to CELESTIA_MAX_SQUARE.
SIDES == {1, 2, 4, 8, 16, 32, 64, 128, 256, 512}

\* MemoryDA.square_roots: the smallest square that holds the shares, doubled in
\* both directions.
square_roots(shares) ==
    4 * Min({side \in SIDES : side * side >= Max({1, shares})})

\* Seeded fault: halves are rounded up.
Round_HalfUp(a, b) == (2 * a + b) \div (2 * b)

\* Python's round of a / b: halves go to the even neighbour.
Round(a, b) ==
    LET q == a \div b
    IN  IF 2 * (a % b) > b \/ (2 * (a % b) = b /\ q % 2 = 1) THEN q + 1 ELSE q

\* roots is empty where the caller leaves it out.
window_saturation(roots, n_blocks) ==
    LET full == {k \in DOMAIN roots : roots[k] >= SQUARE_SATURATED_MIN_ROOTS}
    IN  IF roots # << >> /\ n_blocks > 0
        THEN Min({255, Round(255 * Cardinality(full), n_blocks)})
        ELSE 0

\* By height, then index.
Precedes(b1, b2) ==
    b1.height < b2.height \/ (b1.height = b2.height /\ b1.index < b2.index)

\* Python's sorted by position: each blob stands behind those before it, and
\* behind those at its own position that were read earlier.
sorted(blobs) ==
    LET Behind(j, k) == \/ Precedes(blobs[j], blobs[k])
                        \/ j < k /\ ~Precedes(blobs[k], blobs[j])
        rank(k) == Cardinality({j \in DOMAIN blobs : Behind(j, k)})
    IN  [i \in DOMAIN blobs |-> blobs[CHOOSE k \in DOMAIN blobs : rank(k) = i - 1]]

prove_coverage(blobs, start, end, roots) ==
    LET ordered == sorted(blobs)
        n_blocks == Max({0, end - start})
    IN  [n_blobs_seen |-> Len(ordered),
         commitment |-> merkle_root([i \in DOMAIN ordered |-> Leaf(ordered[i])]),
         sha256_ops |-> Min({COVERAGE_SHA256_PER_WINDOW,
                             n_blocks * (DATA_SQUARE_ROOTS_MAX - 1 + 9)})
                        + (IF blobs = << >> THEN 0 ELSE 2 * Len(blobs) - 1),
         window_saturation |-> window_saturation(roots, n_blocks)]

\* BreakerResult of evaluate, without the wording.
evaluate(covered, expected, n_workers, n_shards, cooldown, saturation) ==
    LET threshold_met == n_workers >= n_shards * WORKER_REDUNDANCY_R * (cooldown + 1)
        congested == saturation >= WINDOW_SATURATION_THRESHOLD
        low == covered * THETA_DEN < THETA_NUM * Max({1, expected})
    IN  [tripped |-> congested \/ (low /\ threshold_met),
         threshold_met |-> threshold_met, da_congested |-> congested]
=============================================================================
