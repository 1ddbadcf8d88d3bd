\* Is a row healed only when its entry is gone from the chain?
CONSTANTS
    v0 = v0  v1 = v1  l1 = l1  l2 = l2
    Vaults = {v0, v1}
    Lists = {l1, l2}
    None = None
    Foreign = Foreign
    MaxBalance = 2
    MaxSent = 2
    MaxSentAfter = 2
    MaxSwitches = 0
SPECIFICATION Spec
INVARIANT HealedOnlyWhenGone
