\* Two networks, two overlapping fetches of two pages, one event.
CONSTANTS
    testnet = testnet  mainnet = mainnet  f1 = f1  f2 = f2
    Networks = {testnet, mainnet}
    Fetches = {f1, f2}
    None = None
    MemTTL = 1
    DiskTTL = 1
    Window = 1
    MaxPages = 2
    MaxEvents = 1
    MaxClock = 2
SPECIFICATION Spec
INVARIANTS TypeOK BleedNeedsOverlap StalenessBounded
SYMMETRY Symmetry
