\* Two clients and a namespace both use, two blobs, three blocks, both backends and every environment.
SPECIFICATION Spec
CONSTANTS
    c1 = c1
    c2 = c2
    s1 = s1
    s2 = s2
    Clients = {c1, c2}
    Namespaces = {n1}
    Signers = {s1, s2}
    WINDOWS <- MCWindows
    GENESIS_HEIGHT = 1
    NoAnswer = NoAnswer
    NodeAddress <- MCNodeAddress
    NETWORKS = {"mainnet", "mocha", ""}
    MAINNETS = {"celestia", "mainnet"}
    TESTNETS = {"mocha", "mocha-4", "arabica", "arabica-11"}
    Nobody = Nobody
    MAX_BLOBS = 2
    MAX_HEIGHT = 4
CHECK_DEADLOCK FALSE
INVARIANTS TypeOK ChainIsOrdered ClosedWindowsAreWhole
PROPERTIES ImplementsMemoryDA
