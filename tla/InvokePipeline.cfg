\* Two calls over two RPC servers; a transaction lives for one tick of two.
CONSTANTS
    a1 = a1  a2 = a2
    Attempts = {a1, a2}
    Methods = {"create_vault", "withdraw"}
    N = 2
    PollAttempts = 2
    Lifetime = 0
    MaxClock = 1
SPECIFICATION FairSpec
INVARIANTS TypeOK RefusedHadNoEffect LandedIsReported ReceiptsTellTruth
PROPERTIES PendingSettles
