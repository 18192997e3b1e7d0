SPECIFICATION ChainSpec

CONSTANTS
    TradeInputs <- MCUnpricedInputs
    Days <- MCDays
    ThNum = 2
    ThDen = 3
    MaxTrades = 3
    NoUsd = NoUsd

INVARIANTS
    UnpricedIsSaid

\* The log ends after MaxTrades rows.
CHECK_DEADLOCK FALSE
