------------------------------- MODULE Reads -------------------------------
(***************************************************************************)
(* The public reads: the ranking (lib/leaderboard.ts), one KOL's period    *)
(* (lib/kol.ts) and the board of cabals (lib/cabals.ts).  A page is put    *)
(* together from several statements, each of which sees the database as it *)
(* is when it runs, and writers run between them: the replay posts what    *)
(* the sells of a position realized, wallets are published and withdrawn,  *)
(* KOLs are suspended and change cabal, the peso's rate is stored anew.    *)
(*                                                                         *)
(* Time is counted in UTC days, and a month is MonthDays of them.  KOLs    *)
(* are numbered in the order of their slugs, cabals of their tags.         *)
(***************************************************************************)
EXTENDS Integers, SequencesExt

CONSTANTS
    Roster, Guilds,        \* KOLs and cabals, as numbers
    NoGuild,
    Trades,                \* rows of trade that may be recorded
    Held,                  \* rows of kol_wallet
    Sealed,                \* those whose ciphertext does not open
    Spans,                 \* the length of each window, in days
    MonthDays,
    RowLimit,              \* the ranking's LIMIT
    StaleAfter, WarnAfter, \* how old a peso rate may be
    LastDate, MaxWrites    \* bounds

ChainOrder == <<"ethereum", "robinhood", "bnb", "solana">>
NoRate == [asOf |-> -1, stale |-> FALSE]

ASSUME ReadsAssumption ==
    /\ IsFiniteSet(Roster) /\ Roster \subseteq Nat
    /\ IsFiniteSet(Guilds) /\ Guilds \subseteq Nat /\ NoGuild \notin Guilds
    /\ IsFiniteSet(Trades)
    /\ Trades \subseteq [kol : Roster, chain : Range(ChainOrder), mint : Nat, side : {"buy", "sell"},
                         at : Nat, volume : Nat, sol : Int, usd : Int, id : Nat]
    /\ IsFiniteSet(Held) /\ Held \subseteq [kol : Roster, chain : Range(ChainOrder), id : Nat]
    /\ Sealed \subseteq Held
    /\ Spans \subseteq Nat \ {0} /\ MonthDays \in Nat \ {0}
    /\ RowLimit \in Nat /\ WarnAfter <= StaleAfter /\ LastDate \in Nat /\ MaxWrites \in Nat

VARIABLES
    date,                  \* now
    recorded, replayed,    \* rows of trade, and those whose realized figures stand
    posted,                \* those of them that pnl_daily adds up
    approved, guild,       \* kol.status and kol.cabal_id
    shows,                 \* of a wallet: "private", "public" or "withdrawn"
    quote,                 \* when the stored peso rate was quoted, -1 for none
    ranking, detail, board,  \* the pages that are being put together
    writes                 \* how often the database was written, to date its states

database == <<recorded, replayed, posted, approved, guild, shows, quote>>
readsVars == <<date, database, ranking, detail, board, writes>>

-----------------------------------------------------------------------------
(* Windows and what is summed in them.                                     *)

\* ORDER BY: the row that i - 1 others come before is the i-th.  (Not SetToSortSeq: what
\* SortSeq of TLC returns is not defined for the provers.)
InOrder(rows, Before(_, _)) ==
    [i \in 1 .. Cardinality(rows) |->
        CHOOSE r \in rows : Cardinality({q \in rows : Before(q, r)}) = i - 1]

\* A window ends now and begins span days earlier; the end is not in it.
WindowBounds(span, now) == [from |-> now - span, to |-> now]

\* The month a day falls in, and its first day and the next month's.
MonthRange(day) ==
    LET start == (day \div MonthDays) * MonthDays
    IN [from |-> start, to |-> start + MonthDays]

Within(rows, b) == {t \in rows : t.at >= b.from /\ t.at < b.to}

\* The sells that count: realized_sol is not NULL.
Contributing(k, b) == {t \in Within(replayed, b) : t.kol = k}

TotalSol(rows) == MapThenSumSet(LAMBDA t : t.sol, rows)
TotalUsd(rows) == MapThenSumSet(LAMBDA t : t.usd, rows)

\* PUBLIC_WALLETS: a scalar subquery, so that it multiplies nothing.
PublicWallets(k) == {w \in Held : w.kol = k /\ shows[w] = "public"}
PrivateWallets(k) == {w \in Held : w.kol = k /\ shows[w] = "private"}

\* Mutant: a join to kol_wallet, which repeats a sell once per wallet.
FannedOutRow(k, b) ==
    [kol |-> k, guild |-> guild[k], publicWallets |-> Cardinality(PublicWallets(k)),
     sol |-> TotalSol(Contributing(k, b)) * Cardinality(PublicWallets(k)),
     usd |-> TotalUsd(Contributing(k, b)) * Cardinality(PublicWallets(k)),
     closed |-> Cardinality(Contributing(k, b))]

\* One row of ROLLING_SELECT: a LEFT JOIN, so that a KOL who sold nothing is in it.
RankingRow(k, b) ==
    [kol |-> k, guild |-> guild[k], publicWallets |-> Cardinality(PublicWallets(k)),
     sol |-> TotalSol(Contributing(k, b)), usd |-> TotalUsd(Contributing(k, b)),
     closed |-> Cardinality(Contributing(k, b))]

\* ORDER BY what was realized in dollars, then the slug.
RanksBefore(r, s) == r.usd > s.usd \/ (r.usd = s.usd /\ r.kol < s.kol)

\* ROLLING_SELECT, cut after the order.
RollingSelect(b) ==
    LET rows == InOrder({RankingRow(k, b) : k \in approved}, RanksBefore)
    IN SubSeq(rows, 1, IF Len(rows) < RowLimit THEN Len(rows) ELSE RowLimit)

\* serializeLeaderboardEntry: the rank is the place in the order.
Entry(row, rank) ==
    [rank |-> rank, kol |-> row.kol, guild |-> row.guild,
     hideWallets |-> row.publicWallets = 0, sol |-> row.sol, usd |-> row.usd]

\* One chain's part.  (Its dollars would be withheld for a sell without any, but no replay
\* leaves one: UnpricedChain.)
ChainEntry(chain, rows) == [chain |-> chain, sol |-> TotalSol(rows), usd |-> TotalUsd(rows)]

\* A chain on which nothing was sold is not in it.
ChainPnl(k, b) ==
    LET on(chain) == {t \in Contributing(k, b) : t.chain = chain}
    IN {ChainEntry(chain, on(chain)) : chain \in {c \in Range(ChainOrder) : on(c) # {}}}

OrderChains(entries) ==
    LET position(e) == CHOOSE i \in DOMAIN ChainOrder : ChainOrder[i] = e.chain
    IN InOrder(entries, LAMBDA d, e : position(d) < position(e))

\* The unit a chain is counted in, and a card's amounts, one per unit (app/chain-amounts.tsx).
UnitOf(chain) == CASE chain = "bnb" -> "BNB" [] chain = "solana" -> "SOL" [] OTHER -> "ETH"

ByUnit(entries) ==
    LET of(unit) == {i \in DOMAIN entries : UnitOf(entries[i].chain) = unit}
    IN {[unit |-> unit, sol |-> MapThenSumSet(LAMBDA i : entries[i].sol, of(unit))] :
           unit \in {UnitOf(entries[i].chain) : i \in DOMAIN entries}}

ReadChainPnl(kols, b) == [k \in kols |-> ChainPnl(k, b)]

\* An address that does not open is skipped.
ReadPublicWallets(kols) == [k \in kols |-> PublicWallets(k) \ Sealed]

-----------------------------------------------------------------------------
(* The calendar of a month (lib/calendar.ts), from what pnl_daily holds.   *)

\* refreshDaily keeps a row of pnl_daily for each chain of a day, from what was posted.
DailyRows(k, month) ==
    LET rows == {t \in Within(posted, month) : t.kol = k}
        on(t) == {q \in rows : q.at = t.at /\ q.chain = t.chain}
    IN {[day |-> t.at, chain |-> t.chain, sol |-> TotalSol(on(t))] : t \in rows}

\* SERIES_SQL: in the order of the days; the rows of one day come as they like.
Series(k, month) ==
    {s \in SetToSeqs(DailyRows(k, month)) : \A i, j \in DOMAIN s : i < j => s[i].day <= s[j].day}

\* The running total that goes with each day.
Accumulate(series) ==
    [i \in DOMAIN series |->
        FoldLeft(LAMBDA sum, point : sum + point.sol, 0, SubSeq(series, 1, i))]

Magnitude(x) == IF x < 0 THEN -x ELSE x

\* Thirds of the best day, cross-multiplied.
LevelOf(value, peak) ==
    IF value = 0 \/ peak = 0 THEN 0
    ELSE IF value * 3 <= peak THEN 1
    ELSE IF value * 3 <= peak * 2 THEN 2 ELSE 3

\* new Map(...): of the rows of one day the last.
ByDay(series) ==
    LET of(d) == {i \in DOMAIN series : series[i].day = d}
    IN [d \in {series[i].day : i \in DOMAIN series} |-> series[Max(of(d))].sol]

\* A cell for every day of the month; one without a figure is blank.
MonthGrid(month, series) ==
    LET peak == Max({0} \cup {Magnitude(series[i].sol) : i \in DOMAIN series})
        byDay == ByDay(series)
    IN [d \in month.from .. month.to - 1 |->
          IF d \notin DOMAIN byDay THEN [level |-> 0, direction |-> ""]
          ELSE [level |-> LevelOf(Magnitude(byDay[d]), peak),
                direction |-> IF byDay[d] = 0 THEN "" ELSE IF byDay[d] < 0 THEN "loss" ELSE "gain"]]

\* The days that closed up.
UpDays(series) == {d \in DOMAIN ByDay(series) : ByDay(series)[d] > 0}

\* The longest run of such days in a row, in one pass over the month.
Streak(month, series) ==
    LET step(acc, d) ==
            LET run == IF d \in UpDays(series) THEN acc.run + 1 ELSE 0
            IN [run |-> run, best |-> IF run > acc.best THEN run ELSE acc.best]
    IN FoldLeft(step, [run |-> 0, best |-> 0],
                [i \in 1 .. MonthDays |-> month.from + i - 1]).best

MonthSummary(month, series) ==
    LET byDay == ByDay(series)
    IN [gainDays |-> Cardinality(UpDays(series)),
        lossDays |-> Cardinality({d \in DOMAIN byDay : byDay[d] < 0}),
        best |-> {byDay[d] : d \in {e \in DOMAIN byDay : \A l \in DOMAIN byDay : byDay[l] <= byDay[e]}},
        streak |-> Streak(month, series)]

-----------------------------------------------------------------------------
(* What a reader asks for.                                                 *)

\* selectArsRate: withheld when it is too old, marked before that.
ArsRate ==
    IF quote = -1 \/ date - quote > StaleAfter THEN NoRate
    ELSE [asOf |-> quote, stale |-> date - quote > WarnAfter]

\* readArsRate: a row that cannot be read costs the peso column, not the page.
RatesToShow == {NoRate, ArsRate}

\* parseArsRates: the day the configured casa was quoted, or nothing to go by.
Quotes == {-1} \cup 0 .. LastDate

Closed == [stage |-> "closed"]

\* The key of position: a replay is of one.
PositionOf(t) == [kol |-> t.kol, chain |-> t.chain, mint |-> t.mint]
Positions == {PositionOf(t) : t \in Trades}

ReadsInit ==
    /\ date \in MonthDays .. LastDate
    /\ recorded = {t \in Trades : t.at < MonthDays} /\ replayed \in SUBSET {t \in recorded : t.side = "sell"}
    /\ \E withheld \in SUBSET Positions : posted = {t \in replayed : PositionOf(t) \notin withheld}
    /\ approved = Roster /\ guild \in [Roster -> Guilds \cup {NoGuild}]
    /\ shows \in [Held -> {"private", "public"}]
    /\ quote \in {-1, date}
    /\ ranking = Closed /\ detail = Closed /\ board = Closed
    /\ writes = 0

(* The ranking: one statement, then two that wait for nobody.              *)
OpenRanking(span) ==
    /\ ranking = Closed
    /\ LET b == WindowBounds(span, date) IN
       \E r \in RatesToShow :
          ranking' = [stage |-> "ranked", began |-> writes, ended |-> writes, asked |-> span,
                      bounds |-> b, at |-> date,
                      rows |-> RollingSelect(b), chains |-> {}, wallets |-> {}, rate |-> r]
    /\ UNCHANGED <<date, database, detail, board, writes>>

RankedKols == {ranking.rows[i].kol : i \in DOMAIN ranking.rows}

\* The statements of Promise.all, in either order; the second completes the page.
RankingChains ==
    /\ ranking.stage \in {"ranked", "wallets"}
    /\ ranking' = [ranking EXCEPT
          !.stage = IF @ = "ranked" THEN "chains" ELSE "shown", !.ended = writes,
          !.chains = ReadChainPnl(RankedKols, ranking.bounds)]
    /\ UNCHANGED <<date, database, detail, board, writes>>

RankingWallets ==
    /\ ranking.stage \in {"ranked", "chains"}
    /\ ranking' = [ranking EXCEPT
          !.stage = IF @ = "ranked" THEN "wallets" ELSE "shown", !.ended = writes,
          !.wallets = ReadPublicWallets(RankedKols)]
    /\ UNCHANGED <<date, database, detail, board, writes>>

\* Each entry with its chains and its wallets, by the row it comes from.
Entries(page) ==
    [i \in DOMAIN page.rows |->
        [entry |-> Entry(page.rows[i], i),
         chains |-> OrderChains(page.chains[page.rows[i].kol]),
         list |-> page.wallets[page.rows[i].kol]]]

AnythingClosed(page) == \E i \in DOMAIN page.rows : page.rows[i].closed > 0

(* One KOL's period: who, then three statements, then the chains.          *)
OpenDetail(k, span, day) ==
    /\ detail = Closed
    /\ k \in approved
    /\ LET b == WindowBounds(span, date) IN
       detail' = [stage |-> "identified", began |-> writes, ended |-> writes, kol |-> k, bounds |-> b,
                  month |-> MonthRange(day),
                  row |-> RankingRow(k, b), private |-> Cardinality(PrivateWallets(k)),
                  activity |-> {}, series |-> <<>>, sells |-> {}, chains |-> {},
                  toRead |-> {"activity", "series", "sells"}]
    /\ UNCHANGED <<date, database, ranking, board, writes>>

DetailActivity ==
    /\ detail.stage = "identified" /\ "activity" \in detail.toRead
    /\ LET rows == {t \in Within(recorded, detail.bounds) : t.kol = detail.kol} IN
       detail' = [detail EXCEPT !.toRead = @ \ {"activity"},
                     !.activity = [trades |-> Cardinality(rows),
                                   volume |-> MapThenSumSet(LAMBDA t : t.volume, rows)]]
    /\ UNCHANGED <<date, database, ranking, board, writes>>

DetailSeries ==
    /\ detail.stage = "identified" /\ "series" \in detail.toRead
    /\ \E s \in Series(detail.kol, detail.month) :
          detail' = [detail EXCEPT !.toRead = @ \ {"series"}, !.series = s]
    /\ UNCHANGED <<date, database, ranking, board, writes>>

DetailSells ==
    /\ detail.stage = "identified" /\ "sells" \in detail.toRead
    /\ detail' = [detail EXCEPT !.toRead = @ \ {"sells"},
                     !.sells = Cardinality({t \in Within(recorded, detail.month) :
                                              t.kol = detail.kol /\ t.side = "sell"})]
    /\ UNCHANGED <<date, database, ranking, board, writes>>

DetailChains ==
    /\ detail.stage = "identified" /\ detail.toRead = {}
    /\ detail' = [detail EXCEPT !.stage = "shown", !.ended = writes,
                     !.chains = OrderChains(ChainPnl(detail.kol, detail.bounds))]
    /\ UNCHANGED <<date, database, ranking, board, writes>>

(* The board of cabals: one statement; a cabal without approved members is *)
(* not in it, and it is ordered by what was realized in SOL.               *)
MembersOf(g) == {k \in approved : guild[k] = g}

BoardRow(g, b) ==
    LET rows == UNION {Contributing(k, b) : k \in MembersOf(g)}
    IN [guild |-> g, members |-> Cardinality(MembersOf(g)), sol |-> TotalSol(rows),
        usd |-> TotalUsd(rows), closed |-> Cardinality(rows)]

OpenBoard(span) ==
    /\ board = Closed
    /\ LET b == WindowBounds(span, date) IN
       board' = [stage |-> "shown", began |-> writes, ended |-> writes, bounds |-> b,
                 rows |-> InOrder({BoardRow(g, b) : g \in {h \in Guilds : MembersOf(h) # {}}},
                             LAMBDA r, s : r.sol > s.sol \/ (r.sol = s.sol /\ r.guild < s.guild))]
    /\ UNCHANGED <<date, database, ranking, detail, writes>>

(* The writers.                                                            *)
Written == writes < MaxWrites /\ writes' = writes + 1

Record(t) ==
    /\ Written /\ t \notin recorded /\ t.at <= date
    /\ recorded' = recorded \cup {t}
    /\ UNCHANGED <<date, replayed, posted, approved, guild, shows, quote, ranking, detail, board>>

\* The replay of a position stores what its sells realized and, unless their basis is
\* unknown, posts it in pnl_daily, in one transaction.
ReplayPosition(p, known) ==
    LET rows == {t \in recorded : PositionOf(t) = p}
        sells == {t \in rows : t.side = "sell"}
    IN /\ Written /\ rows # {}
       /\ replayed' = replayed \cup sells
       /\ posted' = (posted \ rows) \cup (IF known THEN sells ELSE {})
       /\ UNCHANGED <<date, recorded, approved, guild, shows, quote, ranking, detail, board>>

Suspend(k) ==
    /\ Written /\ k \in approved
    /\ approved' = approved \ {k}
    /\ UNCHANGED <<date, recorded, replayed, posted, guild, shows, quote, ranking, detail, board>>

Move(k, g) ==
    /\ Written /\ guild[k] # g
    /\ guild' = [guild EXCEPT ![k] = g]
    /\ UNCHANGED <<date, recorded, replayed, posted, approved, shows, quote, ranking, detail, board>>

\* setWalletVisibility: of an active wallet only.
SetVisibility(w, to) ==
    /\ Written /\ shows[w] # "withdrawn"
    /\ shows' = [shows EXCEPT ![w] = to]
    /\ UNCHANGED <<date, recorded, replayed, posted, approved, guild, quote, ranking, detail, board>>

\* fetchFx: what the source published replaces the row as a whole.
FetchFx(asOf) ==
    /\ Written /\ asOf <= date
    /\ quote' = asOf
    /\ UNCHANGED <<date, recorded, replayed, posted, approved, guild, shows, ranking, detail, board>>

NewDay ==
    /\ date < LastDate
    /\ date' = date + 1
    /\ UNCHANGED <<database, ranking, detail, board, writes>>

ReadsNext ==
    \/ \E span \in Spans : OpenRanking(span) \/ OpenBoard(span)
    \/ RankingChains \/ RankingWallets
    \/ \E k \in Roster, span \in Spans, day \in 0 .. LastDate : OpenDetail(k, span, day)
    \/ DetailActivity \/ DetailSeries \/ DetailSells \/ DetailChains
    \/ \E t \in Trades : Record(t)
    \/ \E p \in Positions, known \in BOOLEAN : ReplayPosition(p, known)
    \/ \E k \in Roster : Suspend(k) \/ \E g \in Guilds \cup {NoGuild} : Move(k, g)
    \/ \E w \in Held, to \in {"private", "public", "withdrawn"} : SetVisibility(w, to)
    \/ \E asOf \in Quotes : FetchFx(asOf)
    \/ NewDay

ReadsSpec == ReadsInit /\ [][ReadsNext]_readsVars

-----------------------------------------------------------------------------
(* Properties.                                                             *)

\* Every variable has its type.
ReadsTypeOK ==
    /\ date \in 0 .. LastDate /\ recorded \subseteq Trades /\ replayed \subseteq recorded
    /\ posted \subseteq replayed /\ approved \subseteq Roster /\ guild \in [Roster -> Guilds \cup {NoGuild}]
    /\ shows \in [Held -> {"private", "public", "withdrawn"}]
    /\ quote \in -1 .. LastDate /\ writes \in 0 .. MaxWrites
    /\ ranking.stage \in {"closed", "ranked", "chains", "wallets", "shown"}
    /\ detail.stage \in {"closed", "identified", "shown"}
    /\ board.stage \in {"closed", "shown"}

\* Nothing was written between the first and the last statement of a page.
OfOneState(page) == page.stage = "shown" /\ page.began = page.ended

SumOfChains(chains) == FoldLeft(LAMBDA sum, e : sum + e.sol, 0, chains)

\* A card: its amounts add up to its figure and say a unit once, the label that hides the wallets is
\* on the cards without one, and the empty state is shown when no card has a chain.
CardsAddUp ==
    OfOneState(ranking) =>
        LET cards == Entries(ranking) IN
        /\ \A i \in DOMAIN cards :
              /\ LET lines == ByUnit(cards[i].chains) IN
                    /\ TotalSol(lines) = cards[i].entry.sol
                    /\ Cardinality(lines) = Cardinality({l.unit : l \in lines})
                    /\ MapThenSumSet(LAMBDA e : e.usd, Range(cards[i].chains)) = cards[i].entry.usd
              /\ cards[i].entry.hideWallets => cards[i].list = {}
              /\ cards[i].list = {} =>
                    \/ cards[i].entry.hideWallets
                    \/ \A w \in Held : w.kol = cards[i].entry.kol /\ shows[w] = "public" => w \in Sealed
                    \/ writes # ranking.ended
        /\ AnythingClosed(ranking) <=> \E i \in DOMAIN cards : cards[i].chains # <<>>

\* The three pages say the same of a KOL over the same interval: the modal what
\* the card says, and a cabal's total what its members' cards add up to.
PagesAgree ==
    /\ OfOneState(detail) =>
          /\ SumOfChains(detail.chains) = detail.row.sol
          /\ detail.row.closed <= detail.activity.trades
    /\ OfOneState(ranking) /\ OfOneState(detail)
       /\ ranking.bounds = detail.bounds /\ ranking.began = detail.began =>
          \A i \in DOMAIN ranking.rows :
             ranking.rows[i].kol = detail.kol => ranking.rows[i] = detail.row
    /\ OfOneState(ranking) /\ OfOneState(board)
       /\ ranking.bounds = board.bounds /\ ranking.began = board.began
       /\ Len(ranking.rows) < RowLimit =>
          \A i \in DOMAIN board.rows :
             board.rows[i].sol =
                MapThenSumSet(LAMBDA j : ranking.rows[j].sol,
                   {j \in DOMAIN ranking.rows : ranking.rows[j].guild = board.rows[i].guild})

\* The calendar: the last running total is what pnl_daily holds of the month, on every
\* chain; the streak is the longest interval of days that are all painted as gains; and
\* no more rows than sells.
CalendarIsOfTheMonth ==
    OfOneState(detail) =>
        LET s == detail.series
            up == {d \in DOMAIN MonthGrid(detail.month, s) :
                      MonthGrid(detail.month, s)[d].direction = "gain"}
            days == detail.month.from .. detail.month.to
            runs == {i \in days \X days : i[1] <= i[2] /\ i[1] .. i[2] - 1 \subseteq up}
        IN /\ s # <<>> /\ detail.ended = writes =>
                 Accumulate(s)[Len(s)] = TotalSol({t \in Within(posted, detail.month) : t.kol = detail.kol})
           /\ MonthSummary(detail.month, s).streak = Max({i[2] - i[1] : i \in runs})
           /\ Len(s) <= detail.sells

\* Whatever is written between the statements: a figure that comes from sells is never
\* shown without the chains they were on, nor beside fewer trades, and the addresses on a
\* card are its own KOL's.
NothingIsHalfShown ==
    /\ ranking.stage = "shown" =>
          \A i \in DOMAIN ranking.rows :
             LET card == Entries(ranking)[i] IN
             /\ ranking.rows[i].closed > 0 => card.chains # <<>>
             /\ \A w \in card.list : w.kol = card.entry.kol
    /\ detail.stage = "shown" =>
          /\ detail.row.closed <= detail.activity.trades
          /\ detail.row.closed > 0 => detail.chains # <<>>

\* Pages that are put together from several statements hold together: when no
\* write fell between the statements, every figure of a page is of one state of
\* the database, and pages over the same interval agree; when one did, no figure
\* is without what it is made of (readLeaderboard, readKolDetail, readCabals,
\* attached by row and by KOL).
PagesHoldTogether == CardsAddUp /\ PagesAgree /\ CalendarIsOfTheMonth /\ NothingIsHalfShown

\* What kol.ts says of the calendar's series, "one row per day that closed something":
\* a day is painted with what pnl_daily holds of it.
CellIsTheDay ==
    OfOneState(detail) /\ detail.ended = writes =>
        \A d \in DOMAIN ByDay(detail.series) :
           ByDay(detail.series)[d] = TotalSol({t \in posted : t.kol = detail.kol /\ t.at = d})

=============================================================================
