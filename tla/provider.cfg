\* One deal (deals share nothing), two requests at a time, two uploads.
SPECIFICATION Spec
CONSTANTS
    Deals = {d1}
    Threads = {r1, r2}
    Chunks = {"a", "b", "c", "x"}
    NotHex = "NotHex"
    Piece <- MCPiece
    BATCHES <- MCBatches
    BEACONS = {"beacon"}
    MAX_BUFFERS = 2
    MAX_CHUNKS = 4
CHECK_DEADLOCK FALSE
INVARIANTS TypeOK SealedBeginsWithThePiece InTurnIsExact RetriesKeepThePrefix
