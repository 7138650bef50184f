\* Four workers, one shard, two epochs of five deadlines, suspended after a miss.
SPECIFICATION Spec
CONSTANTS
    w1 = w1
    w2 = w2
    w3 = w3
    w4 = w4
    w5 = w5
    Workers = {w1, w2, w3, w4}
    WORKER_REDUNDANCY_R = 2
    COOLDOWN = 1
    MISS_THRESHOLD = 1
    SUSPENSION_DEADLINES = 5
    CAP_FLOOR_NUM = 1
    CAP_FLOOR_DEN = 20
    N_SHARDS = 1
    DEADLINES_PER_EPOCH = 5
    DEADLINE_STRIDE = 1000000
    MAX_EPOCH = 2
SYMMETRY WorkerSymmetry
CHECK_DEADLOCK FALSE
INVARIANTS TypeOK SuspensionIsFinite
PROPERTIES RotationNeverJams 
