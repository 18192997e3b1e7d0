SPECIFICATION StoresSpec

CONSTANTS
    Trades <- MCTrades
    Positions <- MCPositions
    PositionOf <- MCPositionOf
    Sells <- MCSells
    Writers = {w1, w2}
    Replayers = {r1, r2}
    NoOne = NoOne
    Limit = 2
    Poison = {}
    LockCanDrop = FALSE
    MaxFaults = 1
    Txs <- MCTxs
    Wallets <- MCWallets
    LegOf <- MCLegOf
    Unreadable = {}
    Roster = {"a", "b"}
    Workers = {r1, r2}
    NoParser = NoParser
    NoError = NoError
    PendingLimit = 1
    UntrackedLimit = 1
    ParseLockCanDrop = TRUE
    MaxParseFaults = 1

SYMMETRY Symmetry

INVARIANTS
    StoresTypesOK
    CleanIsCurrent
    DailyIsSum
    NoLegDropped
    NothingIsHidden
    ParsedIsFinished

PROPERTIES
    ImplementsView
