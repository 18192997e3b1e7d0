SPECIFICATION MCSpec

CONSTANTS
    TradeInputs <- MCTradeInputs
    Days <- MCDays
    ThNum = 2
    ThDen = 3
    MaxTrades = 5

    LastMinute = 2
    PageSize = 2
    MaxRequests = 1
    Fillers = {f1}
    Priced = {t1}

    Places = {1, 2, 3}
    Owners = {k1, k2}
    FeedPage = 1
    MaxPages = 2

    Payloads <- MCPayloads
    Us = "us"
    Others = {"ata", "ata2", "pool"}
    Coins = {"A", "B"}
    SolUsd = {0, 2}
    Unread = Unread
    AtaRent = 2
    DustDen = 10
    LamportDecimals = 1
    MaxHidden = 2

    Roster = {1, 2}
    Guilds = {1}
    NoGuild = 0
    Trades <- MCTrades
    Held <- MCHeld
    Sealed <- MCSealed
    Spans = {2}
    MonthDays = 3
    RowLimit = 3
    StaleAfter = 2
    WarnAfter = 0
    LastDate = 4
    MaxWrites = 1

    Slugs = {k1, k2}
    NoSlug = NoSlug
    Periods = {p1, p2}
    PagePeriod = p1
    MonthsAway = 1
    NoMonth = NoMonth
    MaxAttempts = 1

    Extensions = {w1, w2}
    NoExtension = NoExtension
    SignedActions <- MCSignedActions
    ReadActions <- MCReadActions

    Applicants = {k1}
    OrphanCabals = {c1}
    NoForm = NoForm

    Brands <- MCBrands
    Handshakes <- MCHandshakes
    Supports <- MCSupports
    FixedRows = {"Phantom", "MetaMask"}
    AddressOf <- MCAddressOf
    ActiveChains <- MCActiveChains
    MaxProven = 2
    MaxChecks = 2

    OwnWallets = {w1}
    LoadIds = {1, 2}
    ChangeIds = {1, 2}

    ImageFresh = 2
    ImageStale = 2
    LetterFresh = 1
    LetterStale = 1
    MaxAge = 5

    Suites = {1, 2}
    NoHolder = NoHolder
    Cap = 1
    Lag = 1
    LastMoment = 2
    Drains = {d1, d2}
    RowsABatch = 1
    NoDepth = NoDepth
    Idling = Idling
    StatementsOverlap = FALSE
    MaxDepth = 2
    MaxArrivals = 3
    Runs = {r1, r2}
    Checkouts <- MCCheckouts
    MaxMigrations = 3
    Callers = {q1, q2}

INVARIANTS
    FiguresTypesOK
    Conservation
    KnownBasisIsCovered
    ExitRealizesCashFlow
    ClosedMeansSold
    OneVerdictPerEpisode
    KnownDaysAreTheSells
    RatesAreOfTheirBook
    TradesFollowTheTable
    FillIsWhole
    NothingSkipped
    UnreadIsRefused
    PagesHoldTogether
    ScreensShowWhatIsAsked
    OperationsAreSound

PROPERTIES
    VerdictIsOfTheEpisode

\* Logs, months, minutes and writes end; so do the people who press.
CHECK_DEADLOCK FALSE
