------------------------------ MODULE CostBasis ------------------------------
(***************************************************************************)
(* The replay arithmetic of src/lib/pnl.ts: one position (a KOL and a      *)
(* mint) is recomputed from its trade log, trade by trade, in chain order. *)
(* The state of the replay is the code's ReplayState; Apply is applyTrade. *)
(*                                                                         *)
(* Amounts are integers on the code's fixed-point grid.  A trade's rate is *)
(* its sol_usd in whole units, so that mulDiv(x, rate, ONE) is x * rate;   *)
(* "priced" is FALSE when usd_amount and sol_usd are both NULL.            *)
(***************************************************************************)
EXTENDS Integers, Sequences, FiniteSetsExt

CONSTANTS
    TradeInputs,   \* the rows a replay may read
    Days,          \* UTC days, numbered in order
    ThNum, ThDen,  \* CLOSED_POSITION_THRESHOLD = ThNum / ThDen
    MaxTrades      \* bound on the length of the log

TradeRow == [side : {"buy", "sell"}, qty : Int, sol : Int, fee : Int,
             priced : BOOLEAN, rate : Nat, known : BOOLEAN, day : Days]

ASSUME ThresholdAssumption ==
    /\ ThNum \in Nat /\ ThDen \in Nat
    /\ 0 < ThNum /\ ThNum <= ThDen

ASSUME InputAssumption ==
    /\ TradeInputs \subseteq TradeRow
    /\ \A t \in TradeInputs : t.qty # 0 \/ t.side = "sell"   \* the dust floor
    /\ Days \subseteq Nat /\ IsFiniteSet(Days)
    /\ MaxTrades \in Nat

VARIABLES
    qty, costSol, costUsd,        \* what is held, and what it cost
    realizedSol, realizedUsd,     \* realized over the position's life
    boughtQty, soldQty,           \* cumulative, for the closure test
    closed, episodeStartSol,      \* the current round trip
    unknownBasis,
    perSell,                      \* what each sell realized, in order
    daily,                        \* DayTotals per UTC day
    \* History of the run, not of the code:
    applied, lastDay,             \* rows applied, and the day of the last one
    paid, received,               \* net outlay of the buys and proceeds of the sells
    paidUsd, receivedUsd,
    episodePnl, reopened          \* realized since the last reopening; how many there were

position == <<qty, costSol, costUsd, realizedSol, realizedUsd, boughtQty,
              soldQty, closed, episodeStartSol, unknownBasis, perSell, daily>>

history == <<applied, lastDay, paid, received, paidUsd, receivedUsd,
             episodePnl, reopened>>

vars == <<position, history>>

-----------------------------------------------------------------------------
NoTotals == [sol |-> 0, usd |-> 0, wins |-> 0, losses |-> 0]

\* Mutant: negative amounts are let through.
NoClamp(x) == x

Clamp(x) == IF x < 0 THEN 0 ELSE x

\* A row whose basis is unknown, or that carries a negative amount.
Untrusted(t) == ~t.known \/ t.qty < 0 \/ t.sol < 0 \/ t.fee < 0

Usd(t, amount) == IF t.priced THEN amount * t.rate ELSE 0

\* The fee is charged on both sides: a buy costs it, a sell nets it.
NetSol(t) == IF t.side = "buy" THEN Clamp(t.sol) + Clamp(t.fee)
                               ELSE Clamp(t.sol) - Clamp(t.fee)

NetUsd(t) == Usd(t, NetSol(t))

\* hasClosed: sold >= threshold * bought, cross-multiplied.
HasClosed(sold, bought) == bought > 0 /\ sold * ThDen >= ThNum * bought

\* Mutant: two divisions, by way of the average cost, and no full exit.
RemovedAtAverage(cost, q) == IF qty = 0 THEN 0 ELSE (cost \div qty) * q

\* The cost a sell takes out: all of it on a full exit, else one mulDiv.
Removed(cost, q) ==
    IF q = 0 THEN 0 ELSE IF q >= qty THEN cost ELSE (cost * q) \div qty

\* Mutant: the gain is worked out from the average, not from what is removed.
GainAtAverage(net, cost, q) == net - RemovedAtAverage(cost, q)

Gain(net, cost, q) == net - Removed(cost, q)

\* Mutant: an oversell is not recognised.
UncoveredIfEmpty(t) == Clamp(t.qty) = 0 /\ (NetSol(t) > 0 \/ NetUsd(t) > 0)

\* A sell whose proceeds the position has no basis for.
Uncovered(t) ==
    LET q == Clamp(t.qty)
    IN IF q = 0 THEN NetSol(t) > 0 \/ NetUsd(t) > 0 ELSE q > qty

\* Mutant: closing is final.
NeverReopens(bought) == FALSE

\* Buying back into a closed position reopens it.
Reopens(bought) == closed /\ ~HasClosed(soldQty, bought)

\* Mutant: every sell past the threshold counts.
CrossesAgain(q) == HasClosed(soldQty + q, boughtQty)

\* The verdict is counted once, on the sell that crosses the threshold.
Crosses(q) == ~closed /\ HasClosed(soldQty + q, boughtQty)

\* Mutant: judged on the running total.
LifetimeSol(gain) == realizedSol + gain

\* What this round trip has realized, the sell that ends it included.
EpisodeSol(gain) == realizedSol + gain - episodeStartSol

\* Mutant: the proceeds are stored, not what they realized.
ProceedsRow(t, gainSol, gainUsd) ==
    [day |-> t.day, sol |-> NetSol(t), usd |-> NetUsd(t)]

SellRow(t, gainSol, gainUsd) == [day |-> t.day, sol |-> gainSol, usd |-> gainUsd]

-----------------------------------------------------------------------------
Init ==
    /\ qty = 0 /\ costSol = 0 /\ costUsd = 0
    /\ realizedSol = 0 /\ realizedUsd = 0
    /\ boughtQty = 0 /\ soldQty = 0
    /\ closed = FALSE /\ episodeStartSol = 0
    /\ unknownBasis = FALSE
    /\ perSell = <<>>
    /\ daily = [d \in Days |-> NoTotals]
    /\ applied = 0 /\ lastDay = 0
    /\ paid = 0 /\ received = 0 /\ paidUsd = 0 /\ receivedUsd = 0
    /\ episodePnl = 0 /\ reopened = 0

\* TRADES_SQL orders by block time, so the day never goes back.
NextRow(t) ==
    /\ applied < MaxTrades
    /\ t.day >= lastDay
    /\ applied' = applied + 1
    /\ lastDay' = t.day

\* A new episode starts from the realized figure as it stands.
ApplyBuy(t) ==
    LET q == Clamp(t.qty)
        reopens == Reopens(boughtQty + q)
    IN /\ t.side = "buy"
       /\ NextRow(t)
       /\ unknownBasis' = (unknownBasis \/ Untrusted(t))
       /\ qty' = qty + q
       /\ costSol' = costSol + NetSol(t)
       /\ costUsd' = costUsd + NetUsd(t)
       /\ boughtQty' = boughtQty + q
       /\ closed' = (closed /\ ~reopens)
       /\ episodeStartSol' = IF reopens THEN realizedSol ELSE episodeStartSol
       /\ paid' = paid + NetSol(t)
       /\ paidUsd' = paidUsd + NetUsd(t)
       /\ episodePnl' = IF reopens THEN 0 ELSE episodePnl
       /\ reopened' = IF reopens THEN reopened + 1 ELSE reopened
       /\ UNCHANGED <<realizedSol, realizedUsd, soldQty, perSell, daily,
                      received, receivedUsd>>

ApplySell(t) ==
    LET q == Clamp(t.qty)
        gainSol == Gain(NetSol(t), costSol, q)
        gainUsd == Gain(NetUsd(t), costUsd, q)
        won == EpisodeSol(gainSol) > 0
    IN /\ t.side = "sell"
       /\ NextRow(t)
       /\ unknownBasis' = (unknownBasis \/ Untrusted(t) \/ Uncovered(t))
       /\ qty' = IF q > qty THEN 0 ELSE qty - q
       /\ costSol' = costSol - Removed(costSol, q)
       /\ costUsd' = costUsd - Removed(costUsd, q)
       /\ realizedSol' = realizedSol + gainSol
       /\ realizedUsd' = realizedUsd + gainUsd
       /\ soldQty' = soldQty + q
       /\ closed' = (closed \/ Crosses(q))
       /\ perSell' = Append(perSell, SellRow(t, gainSol, gainUsd))
       /\ daily' = [daily EXCEPT ![t.day] =
             [sol    |-> @.sol + gainSol,
              usd    |-> @.usd + gainUsd,
              wins   |-> @.wins + (IF Crosses(q) /\ won THEN 1 ELSE 0),
              losses |-> @.losses + (IF Crosses(q) /\ ~won THEN 1 ELSE 0)]]
       /\ received' = received + NetSol(t)
       /\ receivedUsd' = receivedUsd + NetUsd(t)
       /\ episodePnl' = episodePnl + gainSol
       /\ UNCHANGED <<boughtQty, episodeStartSol, paid, paidUsd, reopened>>

Next == \E t \in TradeInputs : ApplyBuy(t) \/ ApplySell(t)

Spec == Init /\ [][Next]_vars

-----------------------------------------------------------------------------
\* What the replay writes out.

\* writePositionDays: the contribution to pnl_daily is withheld, not filtered
\* downstream, when the basis is unknown.
Contribution(d) == IF unknownBasis THEN NoTotals ELSE daily[d]

\* trade.realized_sol summed over a UTC day, as a rolling window reads it.
RollingSol(d) ==
    MapThenSumSet(LAMBDA i : perSell[i].sol,
                  {i \in DOMAIN perSell : perSell[i].day = d})

RollingUsd(d) ==
    MapThenSumSet(LAMBDA i : perSell[i].usd,
                  {i \in DOMAIN perSell : perSell[i].day = d})

Wins == MapThenSumSet(LAMBDA d : daily[d].wins, Days)
Losses == MapThenSumSet(LAMBDA d : daily[d].losses, Days)

-----------------------------------------------------------------------------
Sell == [day : Days, sol : Int, usd : Int]
DayTotals == [sol : Int, usd : Int, wins : Nat, losses : Nat]

\* Every field of the replay state keeps its type; no amount that the code
\* clamps or takes out by mulDiv (holdings and what they cost) goes negative.
TypeOK ==
    /\ qty \in Nat /\ costSol \in Nat /\ costUsd \in Nat
    /\ realizedSol \in Int /\ realizedUsd \in Int
    /\ boughtQty \in Nat /\ soldQty \in Nat
    /\ closed \in BOOLEAN /\ episodeStartSol \in Int
    /\ unknownBasis \in BOOLEAN
    /\ perSell \in Seq(Sell)
    /\ daily \in [Days -> DayTotals]
    /\ applied \in Nat /\ lastDay \in Nat
    /\ paid \in Nat /\ received \in Int
    /\ paidUsd \in Nat /\ receivedUsd \in Int
    /\ episodePnl \in Int /\ reopened \in Nat

\* No SOL and no dollar is made or lost by the rounding: what was realized is
\* what came in, less what went out, except for what is still held at cost
\* (pnl.ts applyTrade; decimal.ts mulDiv).
Conservation ==
    /\ realizedSol = received - paid + costSol
    /\ realizedUsd = receivedUsd - paidUsd + costUsd

\* A position published as having a known basis never sold a token it had not
\* bought: the proceeds of every sell were set against tokens with a cost
\* (pnl.ts applyTrade, the oversell and zero-quantity cases).
KnownBasisIsCovered ==
    ~unknownBasis => qty = boughtQty - soldQty

\* After a full exit of a known-basis position, what it realized is exactly
\* its net cash flow, with no residue left behind by partial sells.
ExitRealizesCashFlow ==
    ~unknownBasis /\ qty = 0 => realizedSol = received - paid

\* The closed flag is not a latch: a position that is closed passes the closure
\* test on its cumulative quantities after every trade, buys that reopen it
\* included, and with a known basis one that passes the test is closed.  (With
\* an unknown basis it need not be: tokens sold before the first buy.)
ClosedMeansSold ==
    /\ closed => HasClosed(soldQty, boughtQty)
    /\ ~unknownBasis /\ HasClosed(soldQty, boughtQty) => closed

\* Every round trip is counted once: one verdict per reopening, and one for
\* the episode under way if it has closed.
OneVerdictPerEpisode ==
    Wins + Losses = reopened + (IF closed THEN 1 ELSE 0)

\* A round trip that is counted as a win realized more than it cost, whatever
\* the position realized in earlier ones, and one that is counted as a loss
\* did not.
VerdictIsOfTheEpisode ==
    [][ /\ Wins' > Wins => episodePnl' > 0
        /\ Losses' > Losses => episodePnl' <= 0 ]_vars

\* The two ways of storing what was realized, by day and by sell, agree for a
\* position with a known basis: sum(pnl_daily) = sum(trade.realized).
KnownDaysAreTheSells ==
    ~unknownBasis =>
        \A d \in Days : /\ Contribution(d).sol = RollingSol(d)
                        /\ Contribution(d).usd = RollingUsd(d)

\* The comment at pnl.ts:321-325: a sell withheld from pnl_daily is equally
\* absent from the per-sell figures, so the two sums agree for every position.
BothWithholdTheSameRows ==
    \A d \in Days : Contribution(d).sol = RollingSol(d)
=============================================================================
