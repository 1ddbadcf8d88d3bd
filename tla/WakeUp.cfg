\* Two calls at a time for one vault, two polls, two re-simulations.
SPECIFICATION FairSpec
CONSTANTS
    Calls = {c1, c2}
    PollAttempts = 2
    ReSimAttempts = 2
INVARIANTS TypeOK WokenUp HalfDoneIsAnError EveryTxHasReceipt
PROPERTY WakeUpEnds
