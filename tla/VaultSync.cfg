\* One vault and one list at a time, which anything may overtake; balances 1 and 2;
\* two snapshots on their way at once, in any order, and one once the user switched
\* the network, which happens twice: away and back.
CONSTANTS
    v0 = v0  v1 = v1  l1 = l1  l2 = l2
    Vaults = {v0}
    Lists = {l1}
    None = None
    Foreign = Foreign
    MaxBalance = 2
    MaxSent = 2
    MaxSentAfter = 1
    MaxSwitches = 2
SPECIFICATION Spec
INVARIANTS TypeOK NothingInvented NothingDropsOff ContractWins
