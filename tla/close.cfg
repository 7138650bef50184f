\* Closing an expired deal while a committed reward waits for the relay.
SPECIFICATION Spec
CONSTANTS
    Providers = {p1}
    Deals = {d1}
    AggIds = {}
    Outsider = Outsider
    NoAddress = NoAddress
    CelestiaAddrs = {c1}
    MIN_COLLATERAL_PER_SLOT = 2
    BOUNTY_BPS = 1
    BPS_BASE = 2
    WINDOW_SATURATION_THRESHOLD = 179
    ABORT_AFTER_EPOCHS = 1
    COLLATERAL_LOCK_EPOCHS = 2
    COMMIT_PERIOD_BLOCKS = 0
    VOID_GRACE_BLOCKS = 0
    AGG_TIMEOUT_SLASH_BPS = 1
    MIN_AGG_COLLATERAL = 2
    REWARD_WEI = 1
    SLASH_WEI = 2
    DEPOSITS = {2}
    CAPACITIES = {1}
    PRICES = {1}
    DURATIONS = {1, 2}
    FEES = {0}
    CHANGES = {}
    VERDICTS = {"PASS", "FAIL"}
    SATURATIONS = {0, 179}
    MAX_EPOCH = 3
    MAX_COLLATERAL = 2
    MAX_GIFTS = 0
    AGG_FUNDS = 0
    ROTATION_WRAP = 1
PROPERTIES CloseRefundsOnlyUnused
