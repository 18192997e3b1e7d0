SPECIFICATION OperatorSpec

CONSTANTS
    Txs <- MCTxs
    Wallets <- MCWallets
    LegOf <- MCLegsOfNobody
    Unreadable = {}
    Roster = {"a"}
    Workers = {k1}
    NoParser = NoParser
    NoError = NoError
    PendingLimit = 2
    UntrackedLimit = 1
    ParseLockCanDrop = FALSE
    MaxParseFaults = 0

PROPERTY
    MovesTheRest


