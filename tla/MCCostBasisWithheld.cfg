SPECIFICATION Spec

CONSTANTS
    TradeInputs <- MCTradeInputs
    Days <- MCDays
    ThNum = 2
    ThDen = 3
    MaxTrades = 5

INVARIANTS
    BothWithholdTheSameRows

\* The log ends after MaxTrades rows.
CHECK_DEADLOCK FALSE
