SPECIFICATION ProgressSpec

CONSTANTS
    Trades <- PoisonedTrades
    Positions <- MCPositions
    PositionOf <- PoisonedPositionOf
    Sells = {"sell"}
    Writers = {w1}
    Replayers = {r1, r2}
    NoOne = NoOne
    Limit = 2
    Poison = {1}
    LockCanDrop = TRUE
    MaxFaults = 1
    Txs <- MCTxs
    Wallets <- MCWallets
    LegOf <- MCLegsBehind
    Unreadable = {1}
    Roster = {"a"}
    Workers = {k1}
    NoParser = NoParser
    NoError = NoError
    PendingLimit = 1
    UntrackedLimit = 1
    ParseLockCanDrop = TRUE
    MaxParseFaults = 1

INVARIANTS
    RequeuedIsAttributed

PROPERTIES
    EventuallyRecorded
    EventuallyReplayed
