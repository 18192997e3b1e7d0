SPECIFICATION MCReadsSpec

CONSTANTS
    Roster = {1, 2}
    Guilds = {1}
    NoGuild = 0
    Trades <- MCTrades
    Held <- MCHeld
    Sealed <- MCSealed
    Spans = {2}
    MonthDays = 3
    RowLimit = 3
    StaleAfter = 2
    WarnAfter = 0
    LastDate = 4
    MaxWrites = 1

INVARIANT CellIsTheDay

CHECK_DEADLOCK FALSE
