SPECIFICATION MCSpec

CONSTANTS
    Kols = {m1, m2, m3}
    Cabals = {c1, c2}
    Tags = {t1, t2}
    Sessions = {s1, s2}
    NoOne = NoOne
    NoCabal = NoCabal
    NoTag = NoTag
    MaxProofs = 3
    Handles = {h1}
    Addresses = {m1, m2, m3}
    Nonces = {c1, c2}
    Requests = {t1, t2}
    Nobody = Nobody
    MaxAtOnce = 2
    MaxWallets = 2
    MaxStarts = 3
    Wallets = {m1, m2, m3}
    Hooks = {c1, c2}
    Syncs = {t1, t2}
    NoHook = NoHook
    SyncAlone = TRUE
    MaxSyncs = 3
    Writers = {t1, t2}
    MaxRows = 4
    MaxTime = 2
    Callers = {c1, c2}
    Instances = {t1, t2}
    Window = 2
    Limit = 1
    MemoMax = 1
    Retention = 2
    Drift = 1
    MaxClock = 3
    MaxHits = 2
    Mints = {m1, m2, m3}
    RawPairs <- MCRawPairs
    RunLimit = 2
    BatchSize = 1

SYMMETRY MCSymmetry

INVARIANTS
    TypesOK
    SeatsAreSound
    OneDecides
    StandsOnASignature
    DecidedOnce
    WalletsAreBounded
    NothingUnwatched
    VerdictIsRight
    WithinLimit
    ReachedInTurn

PROPERTIES
    DissolvedIsFinal
    LeaderIsHandedOn
    NobodyIsEnrolled

CHECK_DEADLOCK FALSE
