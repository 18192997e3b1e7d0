---------------------------- MODULE UnpricedChain ----------------------------
(***************************************************************************)
(* What readChainPnl says in dollars of a chain on which a KOL has one     *)
(* position: the replay of CostBasis writes trade.realized_usd of every    *)
(* sell, and lib/chain-pnl.ts sums what it wrote.                          *)
(***************************************************************************)
EXTENDS MCCostBasis
LOCAL INSTANCE FiniteSetsExt

CONSTANT NoUsd       \* NULL: "sin precio"

VARIABLE unpriced    \* the sells that have no rate, by their place in perSell

chainVars == <<vars, unpriced>>

MCUnpricedInputs == MCTradeInputs \cup {[SellOf(1, 4, 0) EXCEPT !.priced = FALSE]}

ChainInit == Init /\ unpriced = {}

ChainNext == \E t \in TradeInputs :
    \/ ApplyBuy(t) /\ UNCHANGED unpriced
    \/ /\ ApplySell(t)
       /\ unpriced' = IF t.priced THEN unpriced ELSE unpriced \cup {Len(perSell')}

ChainSpec == ChainInit /\ [][ChainNext]_chainVars

\* realized_usd of a sell: formatDecimal of what the replay has, and the state
\* carries a number for every sell.
StoredUsd(i) == perSell[i].usd

ChainUsd ==
    IF \E i \in DOMAIN perSell : StoredUsd(i) = NoUsd
    THEN NoUsd
    ELSE MapThenSumSet(StoredUsd, DOMAIN perSell)

\* "A chain's USD figure is null when any sell in the group has no USD value"
\* (chain-pnl.ts:35): never a total over a sell that could not be priced.
UnpricedIsSaid == unpriced # {} => ChainUsd = NoUsd
=============================================================================
