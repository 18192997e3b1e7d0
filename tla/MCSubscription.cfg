SPECIFICATION SubscriptionSpec

CONSTANTS
    Wallets = {w1, w2}
    Hooks = {h1, h2}
    Syncs = {s1, s2}
    NoHook = NoHook
    SyncAlone = FALSE
    MaxSyncs = 3

SYMMETRY MCSymmetry

INVARIANT NothingUnwatched

CHECK_DEADLOCK FALSE
