SPECIFICATION Spec

CONSTANTS
    Trades <- MCTrades
    Positions <- MCPositions
    PositionOf <- MCPositionOf
    Sells <- MCSells
    Writers = {w1}
    Replayers = {r1, r2}
    NoOne = NoOne
    Limit = 2
    Poison = {}
    LockCanDrop = TRUE
    MaxFaults = 1

INVARIANTS
    DailyIsSum
