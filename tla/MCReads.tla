------------------------------- MODULE MCReads -------------------------------
(***************************************************************************)
(* Two KOLs, one on two chains: a gain on one of them, a loss on another   *)
(* on the same day, a buy, and a trade that leaves the rolling window      *)
(* before it leaves the month.                                             *)
(***************************************************************************)
EXTENDS Reads

TradeOf(k, c, m, side, at, n, id) ==
    [kol |-> k, chain |-> c, mint |-> m, side |-> side, at |-> at, volume |-> 1,
     sol |-> n, usd |-> n * 2, id |-> id]

MCTrades == {TradeOf(1, "solana", 1, "sell", 0, 2, 1), TradeOf(1, "bnb", 2, "sell", 2, 1, 2),
             TradeOf(2, "solana", 1, "sell", 2, 4, 3), TradeOf(2, "solana", 1, "buy", 3, 0, 4),
             TradeOf(1, "solana", 3, "sell", 2, -5, 5)}
MCHeld == {[kol |-> 1, chain |-> "solana", id |-> 1], [kol |-> 1, chain |-> "bnb", id |-> 2],
           [kol |-> 2, chain |-> "solana", id |-> 3]}
MCSealed == {[kol |-> 1, chain |-> "bnb", id |-> 2]}

\* One sell of each KOL is replayed, the wallets of the first one are public, and no rate
\* of the peso is stored yet.
MCReadsInit ==
    /\ date = 3 /\ quote = -1
    /\ replayed = {t \in Trades : t.id \in {2, 3}} /\ posted = replayed
    /\ guild = [k \in Roster |-> 1]
    /\ shows = [w \in Held |-> IF w.kol = 1 THEN "public" ELSE "private"]
    /\ ReadsInit

MCReadsSpec == MCReadsInit /\ [][ReadsNext]_readsVars
=============================================================================
