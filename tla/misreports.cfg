\* Two shards of one deadline, two faulty answers, one deal of another registry.
SPECIFICATION Spec
CONSTANTS
    d1 = d1
    d2 = d2
    s1 = s1
    s2 = s2
    Deals = {d1, d2}
    OtherDeals = {other}
    Signers = {s1, s2}
    signer_of <- MCSignerOf
    deadline_idx <- Together
    shard_of <- Apart
    Garbage = Garbage
    N_SHARDS = 2
    GENESIS_HEIGHT = 0
    DEADLINE_LEN_BLOCKS = 2
    DEADLINES_PER_EPOCH = 1
    BEACON_DELAY_BLOCKS = 1
    SUBMIT_WINDOW_BLOCKS = 1
    DEADLINE_STRIDE = 1000000
    EPOCH = 1
    Snapshot = Snapshot
    OtherSnapshot = OtherSnapshot
    MAX_BLOBS = 1
    MAX_FAULTY = 2
    HEADER_DEADLINES <- FirstDeadline
CHECK_DEADLOCK FALSE
INVARIANTS ExactlyTheRegistry HonestEvidenceStands NobodyIsFramed
