\* The timing of PROFILE_SIM, the thresholds of constants.py, small data.
SPECIFICATION Spec
CONSTANTS
    GENESIS_HEIGHT = 1000
    DEADLINE_LEN_BLOCKS = 10
    DEADLINES_PER_EPOCH = 4
    BEACON_DELAY_BLOCKS = 2
    SUBMIT_WINDOW_BLOCKS = 6
    BEACON_MIX_BLOCKS = 4
    DEADLINE_STRIDE = 1000000
    SQUARE_SATURATED_MIN_ROOTS = 1024
    WINDOW_SATURATION_THRESHOLD = 179
    COVERAGE_SHA256_PER_WINDOW = 411200
    DATA_SQUARE_ROOTS_MAX = 2048
    WORKER_REDUNDANCY_R = 2
    THETA_NUM = 1
    THETA_DEN = 2
    CHUNK_SIZE = 2
    ZeroLimb = "z"
    MAX_BYTES = 24
    MAX_CHALLENGES = 4
    LeafValues = {"x", "y"}
    MAX_LEAVES = 6
    CAPACITY_SLOTS = {4, 8}
    Limbs = {"a", "z"}
    MAX_LIMBS = 7
    FRACTIONS <- MCFractions
    MAX_EPOCH = 2
    MAX_SECONDS = 6
    MAX_BLOCKS = 40
    Kinds = {"DEAL_ACTIVE", "DEAL_CLOSED"}
    Words = {"d1", "d2"}
    MAX_ENTRIES = 2
    MAX_DEALS = 2
    MAX_HASH = 4
INVARIANTS BlockDeletionIsCaught MerkleTreesBind LossIsSeen ScheduleIsSound LayoutsAgree SeventyPercent 
