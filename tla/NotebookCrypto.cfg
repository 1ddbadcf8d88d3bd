\* Two wallets, two calls at a time, two device keys, one record at a time.
SPECIFICATION Spec
CONSTANTS
    Wallets = {w1, w2}
    Tasks = {t1, t2}
    DeviceKeys = {k1, k2}
    NoWallet = NoWallet
    NoKey = NoKey
    FixedKey = FixedKey
    Zeroed = Zeroed
    MaxRecords = 1
SYMMETRY Interchangeable
INVARIANTS TypeOK KdfTakesOver WalletRecordsOpen DeviceRecordsOpen
