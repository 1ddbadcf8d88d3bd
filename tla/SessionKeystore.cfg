SPECIFICATION Spec
CONSTANTS
    None = None
    Wallets = {w1, w2}
    Tasks = {t1, t2}
    Idle = 2
SYMMETRY Alike
INVARIANT TypeOK
INVARIANT FlagMeansBound
INVARIANT CachedIsStored
PROPERTY LocksWhileAway
