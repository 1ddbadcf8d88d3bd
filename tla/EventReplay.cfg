\* Two owners, two vaults, days of two seconds; time 1 is before the year 2020 and
\* time 4 past what a Date can show; five events at most, of which a fetch returns
\* four (two pages reach MaxEvents).  The system stops when time and events run out.
CONSTANTS
    alice = alice  bob = bob  vault = vault  xlm = xlm
    Owners = {alice, bob}
    Contract = vault
    Tokens = {xlm}
    NoToken = NoToken
    InitFunds <- UnevenFunds
    AmountArgs = {1}
    MaxAmount = 2
    MaxTs = 4
    MaxId = 2
    Page = 2
    MaxEvents = 3
    MaxPages = 3
    DaySeconds = 2
    KnownDates = {2, 3}
    MaxDate = 3
    MaxLog = 5
SPECIFICATION ReplaySpec
INVARIANTS ReplayTypeOK ReplayMatchesChain ReplayKeepsUnlockDay
CHECK_DEADLOCK FALSE
