\* Two owners with a unit of xlm each and a second token for init to be given; two
\* vaults (a third create_vault overflows the id counter), two seconds of ledger
\* time (extend_lock overflows it), every call with every argument; fairness.
CONSTANTS
    alice = alice  bob = bob  vault = vault  xlm = xlm  usd = usd
    Owners = {alice, bob}
    Contract = vault
    Tokens = {xlm, usd}
    NoToken = NoToken
    InitFunds <- OneTokenFunds
    AmountArgs <- SignedUnits
    MaxAmount = 2
    MaxTs = 2
    MaxId = 2
SPECIFICATION FairSpec
INVARIANTS TypeOK Backed EmptyIffWithdrawn IndexMatchesVaults WithdrawNeverTraps
PROPERTIES PaysOnlyUnlockedOwner LockOnlyForward ImplementsTimeLock EventuallyPaidOut
