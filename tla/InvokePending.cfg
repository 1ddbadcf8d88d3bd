\* Is what a pending receipt names always a submitted transaction?
CONSTANTS
    a1 = a1  a2 = a2
    Attempts = {a1, a2}
    Methods = {"create_vault", "withdraw"}
    N = 2
    PollAttempts = 2
    Lifetime = 0
    MaxClock = 1
SPECIFICATION Spec
INVARIANT PendingWasSubmitted
