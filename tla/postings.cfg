\* Two deadlines, honest workers, any two blobs.
SPECIFICATION Spec
CONSTANTS
    d1 = d1
    d2 = d2
    s1 = s1
    s2 = s2
    Deals = {d1, d2}
    OtherDeals = {}
    Signers = {s1, s2}
    signer_of <- MCSignerOf
    deadline_idx <- Apart
    shard_of <- Together
    Garbage = Garbage
    N_SHARDS = 1
    GENESIS_HEIGHT = 0
    DEADLINE_LEN_BLOCKS = 2
    DEADLINES_PER_EPOCH = 2
    BEACON_DELAY_BLOCKS = 1
    SUBMIT_WINDOW_BLOCKS = 1
    DEADLINE_STRIDE = 1000000
    EPOCH = 1
    Snapshot = Snapshot
    OtherSnapshot = OtherSnapshot
    MAX_BLOBS = 2
    MAX_FAULTY = 0
    HEADER_DEADLINES <- BothDeadlines
CHECK_DEADLOCK FALSE
INVARIANTS TypeOK LeavesAreDeserved
