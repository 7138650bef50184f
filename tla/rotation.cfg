\* Two aggregators and a prover outside the set, no deals; blocks and that prover are fair.
SPECIFICATION FairSpec
CONSTANTS
    Providers = {}
    Deals = {}
    AggIds = {a1, a2}
    Outsider = Outsider
    NoAddress = NoAddress
    CelestiaAddrs = {c1}
    MIN_COLLATERAL_PER_SLOT = 2
    BOUNTY_BPS = 1
    BPS_BASE = 2
    WINDOW_SATURATION_THRESHOLD = 179
    ABORT_AFTER_EPOCHS = 1
    COLLATERAL_LOCK_EPOCHS = 1
    COMMIT_PERIOD_BLOCKS = 1
    VOID_GRACE_BLOCKS = 1
    AGG_TIMEOUT_SLASH_BPS = 1
    MIN_AGG_COLLATERAL = 2
    REWARD_WEI = 1
    SLASH_WEI = 2
    DEPOSITS = {2, 4}
    CAPACITIES = {1}
    PRICES = {1}
    DURATIONS = {1, 2}
    FEES = {0}
    CHANGES = {}
    VERDICTS = {"PASS", "FAIL"}
    SATURATIONS = {0}
    MAX_EPOCH = 2
    MAX_COLLATERAL = 2
    MAX_GIFTS = 2
    AGG_FUNDS = 4
    ROTATION_WRAP = 2
INVARIANTS RotationListsEachOnce
PROPERTIES EpochsKeepComing
