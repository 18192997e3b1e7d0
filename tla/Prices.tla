------------------------------- MODULE Prices -------------------------------
(***************************************************************************)
(* The series of SOL prices, sol_price: one rate a minute, the first       *)
(* observation of which stands.  Two writers fill it, the pages of candles *)
(* of fillSolPriceMinutes and the spot rate of refreshSolPrice, and trades *)
(* take their rate from it, by the minute or by the last one before.       *)
(*                                                                         *)
(* A rate is where it came from: "usdc" and "usdt" are the closes of the   *)
(* two books, "open" one of a minute that has not closed.  A candle of a   *)
(* closed minute is good, bad (a close that is no positive decimal) or     *)
(* none.  One spot rate is fetched at a time (backfill-prices takes a      *)
(* lock); fills overlap.                                                   *)
(***************************************************************************)
EXTENDS Integers, FiniteSetsExt

CONSTANTS
    LastMinute,    \* bound: the clock stops there
    PageSize,      \* BINANCE_KLINE_PAGE_SIZE
    MaxRequests,   \* DEFAULT_KLINE_REQUEST_CAP, or --max-requests
    Fillers,       \* runs of backfill-sol-price
    Priced         \* trades

ASSUME PriceAssumption ==
    /\ LastMinute \in Nat \ {0} /\ PageSize \in Nat \ {0} /\ MaxRequests \in Nat \ {0}

VARIABLES
    clock,         \* the minute in progress
    candle,        \* what each book has for the minutes that closed
    rate,          \* sol_price
    fill,          \* the runs of fillSolPriceMinutes; one that is done keeps its report
    spot,          \* the minute a spot rate is being fetched for, or Never
    valued         \* the trades and their rates

priceVars == <<clock, candle, rate, fill, spot, valued>>

Minutes == 0 .. LastMinute
Never == -1
Rates == {"none", "spot", "usdc", "usdt", "open"}

NoFill == [step |-> "idle", from |-> 0, to |-> 0, cursor |-> 0, end |-> 0, requests |-> 0,
           got |-> [m \in Minutes |-> "none"], cut |-> FALSE]
NoTrade == [minute |-> Never, basis |-> "none", usd |-> "none", usdOf |-> Never]

PricesTypeOK ==
    /\ clock \in Minutes
    /\ candle \in [{"usdc", "usdt"} -> [Minutes -> {"none", "good", "bad"}]]
    /\ rate \in [Minutes -> Rates]
    /\ fill \in [Fillers -> [step : {"idle", "usdc", "usdt", "write", "done"}, from : Minutes, to : Minutes,
                             cursor : 0 .. LastMinute + 1, end : Minutes, requests : 0 .. MaxRequests,
                             got : [Minutes -> {"none", "bad", "usdc", "usdt", "open"}], cut : BOOLEAN]]
    /\ spot \in Minutes \cup {Never}
    /\ valued \in [Priced -> [minute : Minutes \cup {Never}, basis : Rates, usd : Rates,
                              usdOf : Minutes \cup {Never}]]

-----------------------------------------------------------------------------
(* fillSolPriceMinutes.                                                    *)

\* A minute closes, and the books keep its candle.
Tick ==
    /\ clock < LastMinute
    /\ clock' = clock + 1
    /\ \E a, b \in {"none", "good", "bad"} :
          candle' = [candle EXCEPT !["usdc"][clock] = a, !["usdt"][clock] = b]
    /\ UNCHANGED <<rate, fill, spot, valued>>

\* What a book answers for a minute: a close, or the price so far.
Answer(book, m) ==
    CASE m > clock -> "none"
      [] m = clock -> "open"
      [] candle[book][m] = "good" -> book
      [] OTHER -> candle[book][m]

\* Mutant: the window may reach the minute in progress.
OpenEnd(to) == IF to > clock THEN clock ELSE to

\* resolveWindow: the end is clamped to the last closed minute.
ClosedEnd(to) == IF to >= clock THEN clock - 1 ELSE to

StartFill(f) ==
    /\ fill[f].step \in {"idle", "done"}
    /\ \E from, to \in Minutes :
          /\ from <= ClosedEnd(to)
          /\ fill' = [fill EXCEPT ![f] = [NoFill EXCEPT !.step = "usdc", !.from = from, !.cursor = from,
                                                        !.to = ClosedEnd(to), !.end = ClosedEnd(to)]]
    /\ UNCHANGED <<clock, candle, rate, spot, valued>>

Gaps(r) == {m \in r.from .. r.to : r.got[m] = "none"}

\* Mutant: the other book is asked whatever happened to the first.
AsksAnyway(r) == r.step = "usdc" /\ r.requests < MaxRequests /\ Gaps(r) # {}

\* The other book is asked for the gaps of a book that was read to its end.
AsksFallback(r) == r.step = "usdc" /\ ~r.cut /\ r.requests < MaxRequests /\ Gaps(r) # {}

\* A book is done with: the fallback between its first gap and its last, or the write.
\* Only the first book's cut is kept.
Leave(r) ==
    IF AsksFallback(r)
    THEN [r EXCEPT !.step = "usdt", !.cursor = Min(Gaps(r)), !.end = Max(Gaps(r))]
    ELSE [r EXCEPT !.step = "write"]

Cut(r) == Leave([r EXCEPT !.cut = @ \/ r.step = "usdc"])

Wanted1(r) == IF r.end - r.cursor + 1 < PageSize THEN r.end - r.cursor + 1 ELSE PageSize
Candles(r) == {m \in r.cursor .. r.end : Answer(r.step, m) # "none"}
Paging(f) == fill[f].step \in {"usdc", "usdt"}
InRange(r) == r.cursor <= r.end

\* The loop ends: past the range, at the cap, or at a page without a candle.
EndBook(f) ==
    LET r == fill[f]
    IN  /\ Paging(f)
        /\ \/ ~InRange(r) /\ fill' = [fill EXCEPT ![f] = Leave(r)]
           \/ /\ InRange(r) /\ r.requests >= MaxRequests
              /\ fill' = [fill EXCEPT ![f] = Cut(r)]
           \/ /\ InRange(r) /\ r.requests < MaxRequests /\ Candles(r) = {}
              /\ fill' = [fill EXCEPT ![f] = Leave([r EXCEPT !.requests = @ + 1])]
        /\ UNCHANGED <<clock, candle, rate, spot, valued>>

\* No answer, not a 200, or no array: counted, and the book is cut off.
RefusePage(f) ==
    LET r == fill[f]
    IN  /\ Paging(f) /\ InRange(r) /\ r.requests < MaxRequests
        /\ fill' = [fill EXCEPT ![f] = Cut([r EXCEPT !.requests = @ + 1])]
        /\ UNCHANGED <<clock, candle, rate, spot, valued>>

\* Mutant: a page moves the cursor by the width that was asked for.
PastWidth(r, newest) == r.cursor + Wanted1(r)

\* The cursor moves past the newest candle that came.
PastNewest(r, newest) == newest + 1

\* The oldest candles of what is left, fewer than were asked for perhaps.  The
\* fallback's are kept where the first book had none.
TakePage(f) ==
    LET r == fill[f]
    IN  /\ Paging(f) /\ InRange(r) /\ r.requests < MaxRequests
        /\ \E newest \in Candles(r) :
              LET page == {m \in Candles(r) : m <= newest}
              IN  /\ Cardinality(page) <= Wanted1(r)
                  /\ fill' = [fill EXCEPT ![f] =
                        [r EXCEPT !.requests = @ + 1, !.cursor = PastNewest(r, newest),
                                  !.got = [m \in Minutes |->
                                             IF m \in page /\ (r.step = "usdc" \/ r.got[m] = "none")
                                             THEN Answer(r.step, m) ELSE r.got[m]]]]
        /\ UNCHANGED <<clock, candle, rate, spot, valued>>

\* Mutant: ON CONFLICT DO UPDATE.
Replace(old, new) == IF new = "none" THEN old ELSE new

\* ON CONFLICT (minute) DO NOTHING.
KeepFirst(old, new) == IF old = "none" THEN new ELSE old

\* One statement for the range, without the closes that are no rate.
Readable(c) == IF c = "bad" THEN "none" ELSE c

WriteFill(f) ==
    LET r == fill[f]
    IN  /\ r.step = "write"
        /\ rate' = [m \in Minutes |-> KeepFirst(rate[m], Readable(r.got[m]))]
        /\ fill' = [fill EXCEPT ![f].step = "done"]
        /\ UNCHANGED <<clock, candle, spot, valued>>

\* The process dies or the statement fails, or it ends after its report.
DropFill(f) ==
    /\ fill[f].step # "idle"
    /\ fill' = [fill EXCEPT ![f] = NoFill]
    /\ UNCHANGED <<clock, candle, rate, spot, valued>>

-----------------------------------------------------------------------------
(* refreshSolPrice: the minute is that of the call.                        *)

AskSpot ==
    /\ spot = Never
    /\ spot' = clock
    /\ UNCHANGED <<clock, candle, rate, fill, valued>>

\* fetchSolUsdcPair and its price: an answer that is no rate writes nothing.
StoreSpot ==
    /\ spot # Never
    /\ rate' \in {rate, [rate EXCEPT ![spot] = KeepFirst(@, "spot")]}
    /\ spot' = Never
    /\ UNCHANGED <<clock, candle, fill, valued>>

-----------------------------------------------------------------------------
(* The rates of trades.                                                    *)

\* solUsdAt: the last minute at or before one that has a rate.
LastRated(m) == LET known == {n \in 0 .. m : rate[n] # "none"}
                IN  IF known = {} THEN Never ELSE Max(known)

RateOf(m) == IF m = Never THEN "none" ELSE rate[m]

\* insertTrade of a swap quoted in SOL.
InsertInSol(t) ==
    /\ valued[t] = NoTrade
    /\ \E m \in 0 .. clock :
          valued' = [valued EXCEPT ![t] = [NoTrade EXCEPT !.minute = m, !.usdOf = LastRated(m),
                                                          !.usd = RateOf(LastRated(m))]]
    /\ UNCHANGED <<clock, candle, rate, fill, spot>>

\* One quoted in a stablecoin needs the rate of its own minute (solUsdForMinute),
\* which becomes its cost; without it nothing is inserted.
InsertInStable(t) ==
    /\ valued[t] = NoTrade
    /\ \E m \in 0 .. clock :
          /\ rate[m] # "none"
          /\ valued' = [valued EXCEPT ![t] = [minute |-> m, basis |-> rate[m],
                                              usd |-> RateOf(LastRated(m)), usdOf |-> LastRated(m)]]
    /\ UNCHANGED <<clock, candle, rate, fill, spot>>

\* backfillPrices: a trade without a rate is given the last one, if there is one.
\* The lookup and the update are two statements; a rate once stored stays.
PriceLater(t) ==
    LET m == LastRated(valued[t].minute)
    IN  /\ valued[t].minute # Never /\ valued[t].usd = "none" /\ m # Never
        /\ valued' = [valued EXCEPT ![t].usdOf = m, ![t].usd = rate[m]]
        /\ UNCHANGED <<clock, candle, rate, fill, spot>>

PricesInit ==
    /\ clock = 0
    /\ candle = [b \in {"usdc", "usdt"} |-> [m \in Minutes |-> "none"]]
    /\ rate = [m \in Minutes |-> "none"]
    /\ fill = [f \in Fillers |-> NoFill]
    /\ spot = Never
    /\ valued = [t \in Priced |-> NoTrade]

PricesNext ==
    \/ Tick \/ AskSpot \/ StoreSpot
    \/ \E f \in Fillers :
          StartFill(f) \/ EndBook(f) \/ RefusePage(f) \/ TakePage(f) \/ WriteFill(f) \/ DropFill(f)
    \/ \E t \in Priced : InsertInSol(t) \/ InsertInStable(t) \/ PriceLater(t)

PricesSpec == PricesInit /\ [][PricesNext]_priceVars

-----------------------------------------------------------------------------
(* Properties.                                                             *)

\* The denomination of the column is USDC: a minute has a USDT close only where
\* the USDC book has no candle, and no minute the price of one that was still
\* going on when it was asked for (fillSolPriceMinutes, resolveWindow).
RatesAreOfTheirBook ==
    \A m \in Minutes :
        /\ rate[m] = "usdt" => candle["usdc"][m] = "none" /\ candle["usdt"][m] = "good"
        /\ rate[m] = "usdc" => candle["usdc"][m] = "good"
        /\ rate[m] # "open"

\* "Overwriting it would leave a trade row whose sol_amount no longer follows
\* from the rate the table claims for its block": the rate a trade was given, for
\* its cost or for its dollars, stays the one of the table for that minute.
TradesFollowTheTable ==
    \A t \in Priced : LET v == valued[t] IN
        /\ v.basis # "none" => v.basis = rate[v.minute] /\ v.usdOf = v.minute
        /\ v.usd # "none" => v.usdOf <= v.minute /\ v.usd = rate[v.usdOf]

\* SolPriceFill, of a run that is done: cut is what it calls truncated.
Reported(f) == fill[f].step = "done"
Missing(r) == {m \in r.from .. r.to : Readable(r.got[m]) = "none"}

\* A fill that does not say it was truncated skipped nothing: every minute of its
\* range whose USDC candle is a rate has a rate (fetchKlineCloses).
FillIsWhole ==
    \A f \in Fillers : Reported(f) /\ ~fill[f].cut =>
        \A m \in fill[f].from .. fill[f].to : candle["usdc"][m] = "good" => rate[m] # "none"

\* SolPriceFill: missing counts "minutes no candle covered at all, from either
\* book", and truncated says whether the run stopped early.
MissingHasNoCandle ==
    \A f \in Fillers : Reported(f) /\ ~fill[f].cut =>
        \A m \in Missing(fill[f]) : candle["usdc"][m] # "good" /\ candle["usdt"][m] # "good"
=============================================================================
