--------------------------- MODULE FiguresProofs ----------------------------
(***************************************************************************)
(* Proofs about the figures and the feed that is read of them: the ledger  *)
(* of a position (CostBasis), the prices of SOL (Prices) and the reader of *)
(* the feed (Feed), for every value of their constants.  Each component    *)
(* has an inductive invariant of its own (CostOK and BooksOK, PricesOK,    *)
(* FeedOK), and one lemma for each of its actions.  The sums of CostBasis  *)
(* are folds over sets: what they need of induction (SubsetInduction) is   *)
(* stated with a set in place of a predicate and rests on the              *)
(* well-foundedness of inclusion.                                          *)
(***************************************************************************)
EXTENDS CostBasis, Feed, Prices, FiniteSetTheorems, WellFoundedInduction, TLAPS

-----------------------------------------------------------------------------
(* CostBasis: every log of trades, closure threshold and amount.           *)

\* One mulDiv never takes out more than there is: decimal.ts mulDiv, for a
\* sell of q out of n.
LEMMA ShareBound ==
    ASSUME NEW c \in Nat, NEW n \in Nat, NEW q \in Nat, q < n
    PROVE  (c * q) \div n \in 0 .. c
<1> DEFINE d == (c * q) \div n
           r == (c * q) % n
<1>1. c * q \in Nat /\ n > 0 /\ n * c \in Nat
  OBVIOUS
<1>2. d \in Int /\ r \in 0 .. n - 1 /\ c * q = n * d + r
  BY <1>1
<1> HIDE DEF d, r
<1>3. d >= 0
  <2>1. SUFFICES ASSUME d <= -1 PROVE FALSE
    BY <1>2
  <2>2. n * d <= n * (-1)
    BY <1>1, <1>2, <2>1
  <2> QED
    BY <1>1, <1>2, <2>2
<1>4. d <= c
  <2>1. SUFFICES ASSUME d >= c + 1 PROVE FALSE
    BY <1>2
  <2>2. n * d >= n * (c + 1)
    BY <1>1, <1>2, <2>1
  <2>3. c * q <= n * c
    BY <1>1
  <2> QED
    BY <1>1, <1>2, <2>2, <2>3
<1> QED
  BY <1>2, <1>3, <1>4 DEF d

\* What a sell takes out of the cost lies between nothing and all of it.
LEMMA RemovedType ==
    ASSUME NEW cost \in Nat, NEW q \in Nat, qty \in Nat
    PROVE  Removed(cost, q) \in 0 .. cost
<1>1. CASE q = 0
  BY <1>1 DEF Removed
<1>2. CASE q # 0 /\ q >= qty
  BY <1>2 DEF Removed
<1>3. CASE q # 0 /\ q < qty
  <2>1. Removed(cost, q) = (cost * q) \div qty
    BY <1>3 DEF Removed
  <2> QED
    BY <1>3, <2>1, ShareBound
<1> QED
  BY <1>1, <1>2, <1>3

\* The fields a replay reads off a row, once clamped and netted of the fee.
LEMMA RowType ==
    ASSUME NEW t \in TradeInputs
    PROVE  /\ Clamp(t.qty) \in Nat
           /\ t.day \in Days /\ t.day \in Nat
           /\ NetSol(t) \in Int /\ NetUsd(t) \in Int
           /\ t.side = "buy" => NetSol(t) \in Nat /\ NetUsd(t) \in Nat
<1>1. t \in TradeRow /\ t.day \in Nat
  BY InputAssumption DEF TradeRow
<1>2. /\ Clamp(t.qty) \in Nat /\ Clamp(t.sol) \in Nat /\ Clamp(t.fee) \in Nat
  BY <1>1 DEF Clamp, TradeRow
<1>3. NetSol(t) \in Int /\ (t.side = "buy" => NetSol(t) \in Nat)
  BY <1>1, <1>2 DEF NetSol, TradeRow
<1>4. \A a \in Int, b \in Nat : a * b \in Int /\ (a \in Nat => a * b \in Nat)
  OBVIOUS
<1>5. t.rate \in Nat
  BY <1>1 DEF TradeRow
<1>6. NetUsd(t) \in Int /\ (t.side = "buy" => NetUsd(t) \in Nat)
  BY <1>3, <1>4, <1>5 DEF NetUsd, Usd
<1> QED
  BY <1>1, <1>2, <1>3, <1>6 DEF TradeRow

\* A position with a known basis that holds nothing has no cost left.
NothingHeldCostsNothing == ~unknownBasis /\ qty = 0 => costSol = 0

\* What every step preserves together.  ExitRealizesCashFlow is not inductive:
\* it needs the cost of what is held, and that needs to know that a sell of
\* everything took all of it.
CostOK ==
    /\ TypeOK
    /\ Conservation
    /\ KnownBasisIsCovered
    /\ NothingHeldCostsNothing
    /\ ClosedMeansSold

\* The amounts alone: what the arithmetic of a step needs of TypeOK.
AmountsOK ==
    /\ qty \in Nat /\ costSol \in Nat /\ costUsd \in Nat
    /\ realizedSol \in Int /\ realizedUsd \in Int
    /\ boughtQty \in Nat /\ soldQty \in Nat /\ episodeStartSol \in Int
    /\ paid \in Nat /\ received \in Int
    /\ paidUsd \in Nat /\ receivedUsd \in Int
    /\ episodePnl \in Int /\ reopened \in Nat

\* The arithmetic of a buy, apart from the flags.
BuyEffect(t) ==
    /\ qty' = qty + Clamp(t.qty)
    /\ boughtQty' = boughtQty + Clamp(t.qty)
    /\ costSol' = costSol + NetSol(t) /\ costUsd' = costUsd + NetUsd(t)
    /\ paid' = paid + NetSol(t) /\ paidUsd' = paidUsd + NetUsd(t)
    /\ UNCHANGED <<realizedSol, realizedUsd, soldQty, received, receivedUsd>>

\* The arithmetic of a sell, apart from the flags.
SellEffect(t, q) ==
    /\ qty' = IF q > qty THEN 0 ELSE qty - q
    /\ soldQty' = soldQty + q
    /\ costSol' = costSol - Removed(costSol, q)
    /\ costUsd' = costUsd - Removed(costUsd, q)
    /\ realizedSol' = realizedSol + Gain(NetSol(t), costSol, q)
    /\ realizedUsd' = realizedUsd + Gain(NetUsd(t), costUsd, q)
    /\ received' = received + NetSol(t)
    /\ receivedUsd' = receivedUsd + NetUsd(t)
    /\ episodePnl' = episodePnl + Gain(NetSol(t), costSol, q)
    /\ UNCHANGED <<boughtQty, episodeStartSol, paid, paidUsd, reopened>>

-----------------------------------------------------------------------------
\* Every state of the replay is well typed, for every log: in particular the
\* holdings and their cost, which the code never clamps, do not go negative
\* (pnl.ts applyTrade).
THEOREM TypeCorrect == Spec => []TypeOK
<1>1. Init => TypeOK
  <2> SUFFICES ASSUME Init PROVE TypeOK
    OBVIOUS
  <2>1. /\ qty \in Nat /\ costSol \in Nat /\ costUsd \in Nat
        /\ realizedSol \in Int /\ realizedUsd \in Int
        /\ boughtQty \in Nat /\ soldQty \in Nat /\ episodeStartSol \in Int
        /\ applied \in Nat /\ lastDay \in Nat
        /\ paid \in Nat /\ received \in Int
        /\ paidUsd \in Nat /\ receivedUsd \in Int
        /\ episodePnl \in Int /\ reopened \in Nat
    BY DEF Init
  <2>2. closed \in BOOLEAN /\ unknownBasis \in BOOLEAN
    BY DEF Init
  <2>3. perSell \in Seq(Sell)
    BY DEF Init
  <2>4. daily \in [Days -> DayTotals]
    BY DEF Init, DayTotals, NoTotals
  <2> QED
    BY <2>1, <2>2, <2>3, <2>4 DEF TypeOK
<1>2. TypeOK /\ [Next]_vars => TypeOK'
  <2> SUFFICES ASSUME TypeOK, [Next]_vars PROVE TypeOK'
    OBVIOUS
  <2>0. AmountsOK
    BY DEF TypeOK, AmountsOK
  <2>1. ASSUME NEW t \in TradeInputs, ApplyBuy(t) PROVE TypeOK'
    <3>1. /\ Clamp(t.qty) \in Nat /\ NetSol(t) \in Nat /\ NetUsd(t) \in Nat
          /\ t.day \in Nat
      BY <2>1, RowType DEF ApplyBuy
    <3>a. BuyEffect(t)
      BY <2>1 DEF ApplyBuy, BuyEffect
    <3>2. /\ qty' \in Nat /\ costSol' \in Nat /\ costUsd' \in Nat
          /\ boughtQty' \in Nat /\ paid' \in Nat /\ paidUsd' \in Nat
          /\ realizedSol' \in Int /\ realizedUsd' \in Int
          /\ soldQty' \in Nat /\ received' \in Int /\ receivedUsd' \in Int
      BY <2>0, <3>1, <3>a DEF BuyEffect, AmountsOK
    <3>3. applied' \in Nat /\ lastDay' \in Nat
      BY <2>1, <3>1 DEF TypeOK, ApplyBuy, NextRow
    <3>4. closed' \in BOOLEAN /\ unknownBasis' \in BOOLEAN
      BY <2>1 DEF TypeOK, ApplyBuy
    <3>5. episodeStartSol' \in Int /\ episodePnl' \in Int /\ reopened' \in Nat
      BY <2>1 DEF TypeOK, ApplyBuy
    <3>6. perSell' \in Seq(Sell) /\ daily' \in [Days -> DayTotals]
      BY <2>1 DEF TypeOK, ApplyBuy
    <3> QED
      BY <3>2, <3>3, <3>4, <3>5, <3>6 DEF TypeOK
  <2>2. ASSUME NEW t \in TradeInputs, ApplySell(t) PROVE TypeOK'
    <3> DEFINE q == Clamp(t.qty)
               gainSol == Gain(NetSol(t), costSol, q)
               gainUsd == Gain(NetUsd(t), costUsd, q)
    <3>1. /\ q \in Nat /\ NetSol(t) \in Int /\ NetUsd(t) \in Int
          /\ t.day \in Nat /\ t.day \in Days
      BY RowType
    <3>2. Removed(costSol, q) \in 0 .. costSol /\ Removed(costUsd, q) \in 0 .. costUsd
      BY <3>1, RemovedType DEF TypeOK
    <3>3. gainSol \in Int /\ gainUsd \in Int
      BY <3>1, <3>2 DEF Gain, TypeOK
    <3>4. perSell' \in Seq(Sell)
      <4>1. SellRow(t, gainSol, gainUsd) \in Sell
        BY <3>1, <3>3 DEF SellRow, Sell
      <4>2. perSell' = Append(perSell, SellRow(t, gainSol, gainUsd))
        BY <2>2 DEF ApplySell
      <4> QED
        BY <4>1, <4>2 DEF TypeOK
    <3>5. daily' \in [Days -> DayTotals]
      <4>1. daily \in [Days -> DayTotals]
        BY DEF TypeOK
      <4>2. PICK won \in BOOLEAN :
              daily' = [daily EXCEPT ![t.day] =
                [sol    |-> @.sol + gainSol,
                 usd    |-> @.usd + gainUsd,
                 wins   |-> @.wins + (IF Crosses(q) /\ won THEN 1 ELSE 0),
                 losses |-> @.losses + (IF Crosses(q) /\ ~won THEN 1 ELSE 0)]]
        BY <2>2 DEF ApplySell
      <4> QED
        BY <3>1, <3>3, <4>1, <4>2 DEF DayTotals
    <3>b. SellEffect(t, q)
      BY <2>2 DEF ApplySell, SellEffect
    <3>6. /\ qty' \in Nat /\ soldQty' \in Nat /\ boughtQty' \in Nat
          /\ costSol' \in Nat /\ costUsd' \in Nat
      BY <2>0, <3>1, <3>2, <3>b DEF SellEffect, AmountsOK
    <3>7. /\ realizedSol' \in Int /\ realizedUsd' \in Int /\ episodeStartSol' \in Int
          /\ received' \in Int /\ receivedUsd' \in Int /\ episodePnl' \in Int
          /\ paid' \in Nat /\ paidUsd' \in Nat /\ reopened' \in Nat
      BY <2>0, <3>1, <3>3, <3>b DEF SellEffect, AmountsOK
    <3>8. applied' \in Nat /\ lastDay' \in Nat
      BY <2>2, <3>1 DEF TypeOK, ApplySell, NextRow
    <3>9. closed' \in BOOLEAN /\ unknownBasis' \in BOOLEAN
      BY <2>2 DEF ApplySell
    <3> QED
      BY <3>4, <3>5, <3>6, <3>7, <3>8, <3>9 DEF TypeOK
  <2>3. CASE UNCHANGED vars
    BY <2>3 DEF TypeOK, vars, position, history
  <2> QED
    BY <2>1, <2>2, <2>3 DEF Next
<1> QED
  BY <1>1, <1>2, PTL DEF Spec

-----------------------------------------------------------------------------
\* Selling more never takes a position back below the threshold.
LEMMA SoldMore ==
    ASSUME NEW s \in Nat, NEW b \in Nat, NEW q \in Nat, HasClosed(s, b)
    PROVE  HasClosed(s + q, b)
<1>1. ThDen \in Nat /\ ThNum \in Nat
  BY ThresholdAssumption
<1>2. b > 0 /\ s * ThDen >= ThNum * b
  BY DEF HasClosed
<1>3. (s + q) * ThDen >= s * ThDen
  BY <1>1
<1>4. (s + q) * ThDen \in Int /\ s * ThDen \in Int /\ ThNum * b \in Int
  BY <1>1
<1>5. (s + q) * ThDen >= ThNum * b
  BY <1>2, <1>3, <1>4
<1> QED
  BY <1>2, <1>5 DEF HasClosed

\* Buying more never takes one over the threshold that had bought something.
LEMMA BoughtMore ==
    ASSUME NEW s \in Nat, NEW b \in Nat, NEW q \in Nat, b > 0,
           HasClosed(s, b + q)
    PROVE  HasClosed(s, b)
<1>1. ThDen \in Nat /\ ThNum \in Nat
  BY ThresholdAssumption
<1>2. s * ThDen >= ThNum * (b + q)
  BY DEF HasClosed
<1>3. ThNum * (b + q) >= ThNum * b
  BY <1>1
<1>4. s * ThDen \in Int /\ ThNum * (b + q) \in Int /\ ThNum * b \in Int
  BY <1>1
<1>5. s * ThDen >= ThNum * b
  BY <1>2, <1>3, <1>4
<1> QED
  BY <1>5 DEF HasClosed

\* Having sold nothing is not having closed.
LEMMA UnsoldIsOpen ==
    ASSUME NEW b \in Nat PROVE ~HasClosed(0, b)
<1>1. b > 0 => ThNum * b > 0
  BY ThresholdAssumption
<1>2. ThNum * b \in Int /\ 0 * ThDen = 0
  BY ThresholdAssumption
<1> QED
  BY <1>1, <1>2 DEF HasClosed

-----------------------------------------------------------------------------
\* A buy adds quantity and cost together, and reopens a position it takes below
\* the threshold (pnl.ts applyTrade, the buy branch).
LEMMA BuyKeepsInvariant ==
    ASSUME CostOK, TypeOK', NEW t \in TradeInputs, ApplyBuy(t)
    PROVE  CostOK'
<1> DEFINE q == Clamp(t.qty)
<1>1. AmountsOK /\ AmountsOK'
  BY DEF CostOK, TypeOK, AmountsOK
<1>2. q \in Nat /\ NetSol(t) \in Nat /\ NetUsd(t) \in Nat
  BY RowType DEF ApplyBuy
<1>3. BuyEffect(t)
  BY DEF ApplyBuy, BuyEffect
<1>4. ~unknownBasis' => ~unknownBasis /\ ~Untrusted(t)
  BY DEF ApplyBuy
<1>5. closed' = (closed /\ ~Reopens(boughtQty + q))
  BY DEF ApplyBuy
<1>6. Conservation'
  <2>1. Conservation
    BY DEF CostOK
  <2> QED
    BY <1>1, <1>2, <1>3, <2>1 DEF Conservation, AmountsOK, BuyEffect
<1>7. KnownBasisIsCovered'
  <2>1. SUFFICES ASSUME ~unknownBasis' PROVE qty' = boughtQty' - soldQty'
    BY DEF KnownBasisIsCovered
  <2>2. qty = boughtQty - soldQty
    BY <1>4, <2>1 DEF CostOK, KnownBasisIsCovered
  <2> QED
    BY <1>1, <1>2, <1>3, <2>2 DEF AmountsOK, BuyEffect
<1>8. NothingHeldCostsNothing'
  <2>1. SUFFICES ASSUME ~unknownBasis' PROVE qty' # 0
    BY DEF NothingHeldCostsNothing
  <2>2. t \in TradeRow /\ t.qty # 0
    BY InputAssumption DEF ApplyBuy
  <2>3. q > 0
    BY <1>4, <2>1, <2>2 DEF Untrusted, Clamp, TradeRow
  <2> QED
    BY <1>1, <1>2, <1>3, <2>3 DEF AmountsOK, BuyEffect
<1>9. ClosedMeansSold'
  <2>1. boughtQty' = boughtQty + q /\ soldQty' = soldQty
    BY <1>3 DEF BuyEffect
  <2>2. closed' => HasClosed(soldQty', boughtQty')
    BY <1>5, <2>1 DEF Reopens
  <2>3. ASSUME ~unknownBasis', HasClosed(soldQty', boughtQty') PROVE closed'
    <3>1. HasClosed(soldQty, boughtQty + q)
      BY <2>1, <2>3
    <3>2. qty = boughtQty - soldQty
      BY <1>4, <2>3 DEF CostOK, KnownBasisIsCovered
    <3>3. boughtQty > 0
      <4>1. SUFFICES ASSUME boughtQty = 0 PROVE FALSE
        BY <1>1 DEF AmountsOK
      <4>2. soldQty = 0
        BY <1>1, <3>2, <4>1 DEF AmountsOK
      <4> QED
        BY <1>2, <3>1, <4>1, <4>2, UnsoldIsOpen
    <3>4. HasClosed(soldQty, boughtQty)
      BY <1>1, <1>2, <3>1, <3>3, BoughtMore DEF AmountsOK
    <3>5. closed
      BY <1>4, <2>3, <3>4 DEF CostOK, ClosedMeansSold
    <3> QED
      BY <1>5, <3>1, <3>5 DEF Reopens
  <2> QED
    BY <2>2, <2>3 DEF ClosedMeansSold
<1> QED
  BY <1>6, <1>7, <1>8, <1>9 DEF CostOK

\* A sell of what is held takes its share of the cost out with it, all of it on a
\* full exit (pnl.ts applyTrade, the sell branch).
LEMMA SellKeepsInvariant ==
    ASSUME CostOK, TypeOK', NEW t \in TradeInputs, ApplySell(t)
    PROVE  CostOK'
<1> DEFINE q == Clamp(t.qty)
<1>1. AmountsOK
  BY DEF CostOK, TypeOK, AmountsOK
<1>2. q \in Nat /\ NetSol(t) \in Int /\ NetUsd(t) \in Int
  BY RowType
<1>3. SellEffect(t, q)
  BY DEF ApplySell, SellEffect
<1>4. ~unknownBasis' => ~unknownBasis /\ ~Uncovered(t)
  BY DEF ApplySell
<1>5. closed' = (closed \/ Crosses(q))
  BY DEF ApplySell
<1>6. Removed(costSol, q) \in 0 .. costSol /\ Removed(costUsd, q) \in 0 .. costUsd
  BY <1>1, <1>2, RemovedType DEF AmountsOK
<1>7. Conservation'
  <2>1. Conservation
    BY DEF CostOK
  <2>2. Removed(costSol, q) \in Int /\ Removed(costUsd, q) \in Int
    BY <1>1, <1>6 DEF AmountsOK
  <2>3. realizedSol' = received' - paid' + costSol'
    BY <1>1, <1>2, <1>3, <2>1, <2>2 DEF Conservation, AmountsOK, SellEffect, Gain
  <2>4. realizedUsd' = receivedUsd' - paidUsd' + costUsd'
    BY <1>1, <1>2, <1>3, <2>1, <2>2 DEF Conservation, AmountsOK, SellEffect, Gain
  <2> QED
    BY <2>3, <2>4 DEF Conservation
<1>8. ~unknownBasis' => q <= qty
  BY <1>1, <1>2, <1>4 DEF Uncovered, AmountsOK
<1>9. KnownBasisIsCovered'
  <2>1. SUFFICES ASSUME ~unknownBasis' PROVE qty' = boughtQty' - soldQty'
    BY DEF KnownBasisIsCovered
  <2>2. qty = boughtQty - soldQty
    BY <1>4, <2>1 DEF CostOK, KnownBasisIsCovered
  <2> QED
    BY <1>1, <1>2, <1>3, <1>8, <2>1, <2>2 DEF AmountsOK, SellEffect
<1>10. NothingHeldCostsNothing'
  <2>1. SUFFICES ASSUME ~unknownBasis', qty' = 0 PROVE costSol' = 0
    BY DEF NothingHeldCostsNothing
  <2>2. q = qty
    <3>1. q \in Nat /\ qty \in Nat /\ q <= qty
      BY <1>1, <1>2, <1>8, <2>1 DEF AmountsOK
    <3>2. qty' = qty - q
      BY <1>3, <3>1 DEF SellEffect
    <3> QED
      BY <2>1, <3>1, <3>2
  <2>3. CASE q = 0
    <3>1. costSol = 0
      BY <1>4, <2>1, <2>2, <2>3 DEF CostOK, NothingHeldCostsNothing
    <3> QED
      BY <1>3, <1>6, <3>1 DEF SellEffect
  <2>4. CASE q # 0
    <3>1. Removed(costSol, q) = costSol
      BY <1>1, <2>2, <2>4 DEF Removed, AmountsOK
    <3> QED
      BY <1>1, <1>3, <3>1 DEF SellEffect, AmountsOK
  <2> QED
    BY <2>3, <2>4
<1>11. ClosedMeansSold'
  <2>1. boughtQty' = boughtQty /\ soldQty' = soldQty + q
    BY <1>3 DEF SellEffect
  <2>2. closed => HasClosed(soldQty + q, boughtQty)
    BY <1>1, <1>2, SoldMore DEF CostOK, ClosedMeansSold, AmountsOK
  <2>3. closed' <=> HasClosed(soldQty + q, boughtQty)
    BY <1>5, <2>2 DEF Crosses
  <2> QED
    BY <2>1, <2>3 DEF ClosedMeansSold
<1> QED
  BY <1>7, <1>9, <1>10, <1>11 DEF CostOK

\* The strengthening is inductive.
LEMMA CostStaysOK == Spec => []CostOK
<1>1. Init => Conservation /\ NothingHeldCostsNothing /\ KnownBasisIsCovered
  BY DEF Init, Conservation, NothingHeldCostsNothing, KnownBasisIsCovered
<1>2. Init => ClosedMeansSold
  BY DEF Init, ClosedMeansSold, HasClosed
<1>3. ASSUME CostOK, TypeOK', [Next]_vars PROVE CostOK'
  <2>1. ASSUME NEW t \in TradeInputs, ApplyBuy(t) PROVE CostOK'
    BY <1>3, <2>1, BuyKeepsInvariant
  <2>2. ASSUME NEW t \in TradeInputs, ApplySell(t) PROVE CostOK'
    BY <1>3, <2>2, SellKeepsInvariant
  <2>3. CASE UNCHANGED vars
    <3>1. UNCHANGED <<qty, costSol, costUsd, realizedSol, realizedUsd, boughtQty,
                      soldQty, closed, unknownBasis, paid, received, paidUsd,
                      receivedUsd>>
      BY <2>3 DEF vars, position, history
    <3>2. Conservation'
      BY <1>3, <3>1 DEF CostOK, Conservation
    <3>3. KnownBasisIsCovered' /\ NothingHeldCostsNothing'
      BY <1>3, <3>1 DEF CostOK, KnownBasisIsCovered, NothingHeldCostsNothing
    <3>4. ClosedMeansSold'
      BY <1>3, <3>1 DEF CostOK, ClosedMeansSold, HasClosed
    <3> QED
      BY <1>3, <3>2, <3>3, <3>4 DEF CostOK
  <2> QED
    BY <1>3, <2>1, <2>2, <2>3 DEF Next
<1>4. TypeOK /\ Init => CostOK
  BY <1>1, <1>2 DEF CostOK
<1> QED
  BY <1>3, <1>4, TypeCorrect, PTL DEF Spec

-----------------------------------------------------------------------------
\* Rounding neither makes nor loses money, whatever the log: what a position
\* realized is its net cash flow plus what is still held at cost (pnl.ts
\* applyTrade, decimal.ts mulDiv).
THEOREM MoneyIsConserved == Spec => []Conservation
<1>1. CostOK => Conservation
  BY DEF CostOK
<1> QED
  BY <1>1, CostStaysOK, PTL

\* A position that is published as having a known basis never sold what it had
\* not bought.
THEOREM KnownBasisHolds == Spec => []KnownBasisIsCovered
<1>1. CostOK => KnownBasisIsCovered
  BY DEF CostOK
<1> QED
  BY <1>1, CostStaysOK, PTL

\* A full exit of a known-basis position realizes exactly its net cash flow.
THEOREM ExitIsCashFlow == Spec => []ExitRealizesCashFlow
<1>1. CostOK => ExitRealizesCashFlow
  <2> SUFFICES ASSUME CostOK, ~unknownBasis, qty = 0
               PROVE  realizedSol = received - paid
    BY DEF ExitRealizesCashFlow
  <2>1. costSol = 0 /\ realizedSol = received - paid + costSol
    BY DEF CostOK, NothingHeldCostsNothing, Conservation
  <2>2. received \in Int /\ paid \in Int
    BY DEF CostOK, TypeOK
  <2> QED
    BY <2>1, <2>2
<1> QED
  BY <1>1, CostStaysOK, PTL

\* The closed flag is the closure test, for every threshold in (0, 1].
THEOREM ClosedIsSold == Spec => []ClosedMeansSold
<1>1. CostOK => ClosedMeansSold
  BY DEF CostOK
<1> QED
  BY <1>1, CostStaysOK, PTL

-----------------------------------------------------------------------------
(* Sums over finite sets.                                                 *)

\* Induction over the subsets of a finite set, with a set in place of a predicate.
LEMMA SubsetInduction ==
    ASSUME NEW S, IsFiniteSet(S), NEW Good \in SUBSET (SUBSET S),
           \A s \in SUBSET S : (\A t \in SUBSET S : t \subseteq s /\ t # s => t \in Good) => s \in Good
    PROVE  \A s \in SUBSET S : s \in Good
<1> DEFINE Bad == (SUBSET S) \ Good
<1>1. IsWellFoundedOn(StrictSubsetOrdering(S), SUBSET S)
  BY FS_StrictSubsetOrderingWellFounded, FS_FiniteSubsetsOfFinite
<1>2. SUFFICES ASSUME Bad # {} PROVE FALSE
  OBVIOUS
<1>3. Bad \subseteq SUBSET S
  OBVIOUS
<1>4. PICK s \in Bad : \A t \in Bad : <<t, s>> \notin StrictSubsetOrdering(S)
  <2> HIDE DEF Bad
  <2> QED
    BY <1>1, <1>2, <1>3, WFMin
<1>5. \A t \in SUBSET S : t \subseteq s /\ t # s => t \in Good
  BY <1>4 DEF StrictSubsetOrdering
<1> QED
  BY <1>4, <1>5

\* The member that the fold takes out of s next.
TakenOut(s) == CHOOSE x \in s : TRUE

\* f adds up g over every subset of s, the way the fold does.
Adds(f, g, s) ==
    \A t \in SUBSET s : f[t] = IF t = {} THEN 0 ELSE g[TakenOut(t)] + f[t \ {TakenOut(t)}]

Sums(f, g, s) == f \in [SUBSET s -> Int] /\ Adds(f, g, s)

LEMMA NextIs == ASSUME NEW s, s # {} PROVE TakenOut(s) \in s
  BY DEF TakenOut

\* Equal terms have equal sums, over whatever sets the two are defined.
LEMMA SumsAgree ==
    ASSUME NEW S, IsFiniteSet(S), NEW f, NEW g, NEW h, NEW k, NEW s \in SUBSET S, NEW t \in SUBSET S,
           Adds(f, g, s), Adds(k, h, t),
           \A x \in s \cap t : g[x] = h[x]
    PROVE  \A u \in SUBSET (s \cap t) : f[u] = k[u]
<1> DEFINE Good == {u \in SUBSET S : u \subseteq s \cap t => f[u] = k[u]}
<1>1. ASSUME NEW u \in SUBSET S, \A v \in SUBSET S : v \subseteq u /\ v # u => v \in Good
      PROVE  u \in Good
  <2> SUFFICES ASSUME u \subseteq s \cap t PROVE f[u] = k[u]
    OBVIOUS
  <2>1. u \in SUBSET s /\ u \in SUBSET t
    OBVIOUS
  <2>2. CASE u = {}
    BY <2>1, <2>2 DEF Sums, Adds
  <2>3. CASE u # {}
    <3> DEFINE c == TakenOut(u)
    <3>1. c \in u
      BY <2>3, NextIs
    <3> HIDE DEF c
    <3>2. u \ {c} \in Good
      BY <1>1, <3>1
    <3>3. f[u \ {c}] = k[u \ {c}]
      BY <3>2
    <3>4. g[c] = h[c]
      BY <3>1
    <3>5. f[u] = g[c] + f[u \ {c}] /\ k[u] = h[c] + k[u \ {c}]
      BY <2>1, <2>3 DEF Sums, Adds, c
    <3> QED
      BY <3>3, <3>4, <3>5
  <2> QED
    BY <2>2, <2>3
<1>2. Good \in SUBSET (SUBSET S)
  OBVIOUS
<1>3. \A u \in SUBSET S : u \in Good
  <2> HIDE DEF Good
  <2> QED
    BY <1>1, <1>2, SubsetInduction
<1> QED
  BY <1>3

\* Whatever member is taken out first.
LEMMA AnyOrder ==
    ASSUME NEW S, IsFiniteSet(S), NEW g \in [S -> Int], NEW f, Sums(f, g, S)
    PROVE  \A s \in SUBSET S : \A x \in s : f[s] = g[x] + f[s \ {x}]
<1> DEFINE Good == {s \in SUBSET S : \A x \in s : f[s] = g[x] + f[s \ {x}]}
<1>1. ASSUME NEW s \in SUBSET S, \A t \in SUBSET S : t \subseteq s /\ t # s => t \in Good
      PROVE  s \in Good
  <2> SUFFICES ASSUME NEW x \in s PROVE f[s] = g[x] + f[s \ {x}]
    OBVIOUS
  <2> DEFINE c == TakenOut(s)
  <2>1. c \in s
    BY NextIs
  <2>2. f[s] = g[c] + f[s \ {c}]
    BY DEF Sums, Adds, c
  <2> HIDE DEF c
  <2>3. CASE c = x
    BY <2>2, <2>3
  <2>4. CASE c # x
    <3>1. s \ {c} \in Good /\ s \ {x} \in Good
      BY <1>1, <2>1
    <3>2. f[s \ {c}] = g[x] + f[(s \ {c}) \ {x}]
      BY <3>1, <2>4
    <3>3. f[s \ {x}] = g[c] + f[(s \ {x}) \ {c}]
      BY <3>1, <2>4, <2>1
    <3>4. (s \ {c}) \ {x} = (s \ {x}) \ {c}
      OBVIOUS
    <3>5. f[(s \ {x}) \ {c}] \in Int /\ g[x] \in Int /\ g[c] \in Int
      BY <2>1 DEF Sums, Adds
    <3>6. f[s] = g[c] + (g[x] + f[(s \ {x}) \ {c}])
      BY <2>2, <3>2, <3>4
    <3> DEFINE r == f[(s \ {x}) \ {c}]
    <3>7. g[c] + (g[x] + r) = g[x] + (g[c] + r)
      <4> HIDE DEF r
      <4> SUFFICES ASSUME r \in Int PROVE g[c] + (g[x] + r) = g[x] + (g[c] + r)
        BY <3>5 DEF r
      <4> QED
        BY <3>5
    <3> QED
      BY <3>3, <3>6, <3>7
  <2> QED
    BY <2>3, <2>4
<1>2. Good \in SUBSET (SUBSET S)
  OBVIOUS
<1>3. \A s \in SUBSET S : s \in Good
  <2> HIDE DEF Good
  <2> QED
    BY <1>1, <1>2, SubsetInduction
<1> QED
  BY <1>3

\* There is one.
LEMMA SumsExist ==
    ASSUME NEW S, IsFiniteSet(S), NEW g \in [S -> Int]
    PROVE  \E f : Sums(f, g, S)
<1> DEFINE Good == {s \in SUBSET S : \E f : Sums(f, g, s)}
<1>1. ASSUME NEW s \in SUBSET S, \A t \in SUBSET S : t \subseteq s /\ t # s => t \in Good
      PROVE  s \in Good
  <2> DEFINE F(t) == CHOOSE f : Sums(f, g, t)
             c == TakenOut(s)
             last == IF s = {} THEN 0 ELSE g[c] + F(s \ {c})[s \ {c}]
             k == [t \in SUBSET s |-> IF t = s THEN last ELSE F(t)[t]]
  <2>1. ASSUME NEW t \in SUBSET s, t # s PROVE Sums(F(t), g, t)
    BY <1>1, <2>1
  <2>2. ASSUME NEW t \in SUBSET s, t # s, NEW u \in SUBSET t PROVE F(t)[u] = F(u)[u] /\ F(t)[u] \in Int
    <3>1. Sums(F(t), g, t) /\ Sums(F(u), g, u)
      BY <2>1, <2>2
    <3> HIDE DEF F
    <3>2. \A v \in SUBSET (t \cap u) : F(t)[v] = F(u)[v]
      BY <3>1, SumsAgree DEF Sums
    <3>3. F(t)[u] \in Int
      BY <3>1 DEF Sums, Adds
    <3> QED
      BY <3>2, <3>3
  <2> HIDE DEF F
  <2>3. s # {} => c \in s
    BY NextIs
  <2>4. last \in Int
    <3>1. CASE s = {}
      BY <3>1
    <3>2. CASE s # {}
      <4>1. g[c] \in Int /\ s \ {c} \in SUBSET s /\ s \ {c} # s
        BY <2>3, <3>2
      <4> HIDE DEF c
      <4>2. F(s \ {c})[s \ {c}] \in Int
        BY <2>2, <4>1
      <4> QED
        BY <3>2, <4>1, <4>2
    <3> QED
      BY <3>1, <3>2
  <2>5. k \in [SUBSET s -> Int]
    <3> HIDE DEF last
    <3>1. \A t \in SUBSET s : t # s => F(t)[t] \in Int
      BY <2>2
    <3> QED
      BY <3>1, <2>4
  <2>6. ASSUME NEW t \in SUBSET s
        PROVE  k[t] = IF t = {} THEN 0 ELSE g[TakenOut(t)] + k[t \ {TakenOut(t)}]
    <3>1. CASE t = {}
      <4>1. CASE s = {}
        BY <3>1, <4>1
      <4>2. CASE s # {}
        <5>1. k[t] = F(t)[t]
          BY <3>1, <4>2
        <5>2. Sums(F(t), g, t)
          BY <2>1, <3>1, <4>2
        <5>3. F(t)[t] = 0
          BY <5>2, <3>1 DEF Sums, Adds
        <5> QED
          BY <5>1, <5>3, <3>1
      <4> QED
        BY <4>1, <4>2
    <3>2. CASE t # {}
      <4> DEFINE d == TakenOut(t)
      <4>1. d \in t
        BY <3>2, NextIs
      <4>2. t \ {d} \in SUBSET s /\ t \ {d} # s /\ t \ {d} \in SUBSET t
        BY <4>1
      <4>3. k[t \ {d}] = F(t \ {d})[t \ {d}]
        <5> HIDE DEF d, last
        <5> QED
          BY <4>2
      <4>4. CASE t = s
        <5>1. k[t] = last
          BY <4>4
        <5>2. last = g[d] + F(t \ {d})[t \ {d}]
          BY <3>2, <4>4
        <5> QED
          BY <3>2, <4>3, <5>1, <5>2
      <4>5. CASE t # s
        <5>1. k[t] = F(t)[t]
          BY <4>5
        <5>2. Sums(F(t), g, t)
          BY <2>1, <4>5
        <5>3. F(t)[t] = g[d] + F(t)[t \ {d}]
          BY <5>2, <3>2 DEF Sums, Adds
        <5>4. F(t)[t \ {d}] = F(t \ {d})[t \ {d}]
          <6> HIDE DEF d
          <6> QED
            BY <2>2, <4>2, <4>5
        <5> QED
          BY <3>2, <4>3, <5>1, <5>3, <5>4
      <4> QED
        BY <4>4, <4>5
    <3> QED
      BY <3>1, <3>2
  <2>7. Sums(k, g, s)
    <3> HIDE DEF k
    <3> QED
      BY <2>5, <2>6 DEF Sums, Adds
  <2> QED
    BY <2>7
<1>2. Good \in SUBSET (SUBSET S)
  OBVIOUS
<1>3. \A s \in SUBSET S : s \in Good
  <2> HIDE DEF Good
  <2> QED
    BY <1>1, <1>2, SubsetInduction
<1> QED
  BY <1>3

\* One term changes.
LEMMA OneTerm ==
    ASSUME NEW S, IsFiniteSet(S), NEW g \in [S -> Int], NEW h \in [S -> Int], NEW x \in S,
           \A y \in S : y # x => g[y] = h[y],
           NEW f, NEW k, Sums(f, g, S), Sums(k, h, S)
    PROVE  f[S] \in Int /\ k[S] = f[S] + (h[x] - g[x])
<1>1. f[S] = g[x] + f[S \ {x}] /\ k[S] = h[x] + k[S \ {x}]
  BY AnyOrder
<1>2. \A u \in SUBSET ((S \ {x}) \cap (S \ {x})) : f[u] = k[u]
  <2>1. Adds(f, g, S \ {x}) /\ Adds(k, h, S \ {x})
    BY DEF Sums, Adds
  <2> QED
    BY <2>1, SumsAgree
<1>3. f[S \ {x}] = k[S \ {x}]
  BY <1>2
<1>4. f[S \ {x}] \in Int /\ g[x] \in Int /\ h[x] \in Int
  BY DEF Sums
<1> QED
  BY <1>1, <1>3, <1>4

\* One term more.
LEMMA OneMore ==
    ASSUME NEW S, IsFiniteSet(S), NEW T, NEW x, x \notin S, T = S \cup {x},
           NEW g \in [S -> Int], NEW h \in [T -> Int], \A y \in S : g[y] = h[y],
           NEW f, NEW k, Sums(f, g, S), Sums(k, h, T)
    PROVE  f[S] \in Int /\ k[T] = f[S] + h[x]
<1>1. IsFiniteSet(T) /\ T \ {x} = S /\ x \in T /\ S \in SUBSET T
  BY FS_AddElement
<1>2. k[T] = h[x] + k[T \ {x}]
  BY <1>1, AnyOrder
<1>3. \A u \in SUBSET (S \cap S) : f[u] = k[u]
  <2>1. Adds(f, g, S) /\ Adds(k, h, S)
    BY <1>1 DEF Sums, Adds
  <2> QED
    BY <2>1, SumsAgree
<1>4. f[S] = k[S]
  BY <1>3
<1>5. f[S] \in Int /\ h[x] \in Int
  BY <1>1 DEF Sums
<1>6. k[T] = h[x] + k[S]
  BY <1>1, <1>2
<1> QED
  BY <1>4, <1>5, <1>6

-----------------------------------------------------------------------------
(* Sums over days and over sells.                                           *)

WinsOf(D) == MapThenSumSet(LAMBDA d : D[d].wins, Days)
LossesOf(D) == MapThenSumSet(LAMBDA d : D[d].losses, Days)
SellsOf(P, d) == {i \in DOMAIN P : P[i].day = d}
SolOf(P, d) == MapThenSumSet(LAMBDA i : P[i].sol, SellsOf(P, d))
UsdOf(P, d) == MapThenSumSet(LAMBDA i : P[i].usd, SellsOf(P, d))

LEMMA SumsAre ==
    /\ Wins = WinsOf(daily) /\ Losses = LossesOf(daily)
    /\ \A d \in Days : RollingSol(d) = SolOf(perSell, d) /\ RollingUsd(d) = UsdOf(perSell, d)
  BY DEF Wins, WinsOf, Losses, LossesOf, RollingSol, SolOf, RollingUsd, UsdOf, SellsOf

LEMMA SumsAreNext ==
    /\ Wins' = WinsOf(daily') /\ Losses' = LossesOf(daily')
    /\ \A d \in Days : (RollingSol(d))' = SolOf(perSell', d) /\ (RollingUsd(d))' = UsdOf(perSell', d)
  BY DEF Wins, WinsOf, Losses, LossesOf, RollingSol, SolOf, RollingUsd, UsdOf, SellsOf,
         MapThenSumSet, MapThenFoldSet

LEMMA SellsAreFinite ==
    ASSUME NEW P \in Seq(Sell), NEW d
    PROVE  IsFiniteSet(SellsOf(P, d))
<1>1. DOMAIN P = 1 .. Len(P) /\ Len(P) \in Nat
  OBVIOUS
<1>2. IsFiniteSet(DOMAIN P)
  BY <1>1, FS_Interval
<1> QED
  BY <1>2, FS_Subset DEF SellsOf

\* Each of them is such a sum.
LEMMA WinsAre ==
    ASSUME NEW D \in [Days -> DayTotals], NEW f, Sums(f, [d \in Days |-> D[d].wins], Days)
    PROVE  WinsOf(D) = f[Days]
<1> DEFINE Fold(h) == h = [s \in SUBSET Days |->
                           IF s = {} THEN 0 ELSE D[CHOOSE x \in s : TRUE].wins + h[s \ {CHOOSE x \in s : TRUE}]]
           g == [d \in Days |-> D[d].wins]
           h0 == CHOOSE h : Fold(h)
<1>1. ASSUME NEW s \in SUBSET Days, s # {}
      PROVE  g[CHOOSE x \in s : TRUE] = D[CHOOSE x \in s : TRUE].wins
  BY <1>1
<1>2. Fold(f)
  <2> HIDE DEF g
  <2> QED
    BY <1>1 DEF Sums, Adds, TakenOut
<1>3. Fold(h0)
  <2> HIDE DEF Fold
  <2> QED
    BY <1>2
<1>4. WinsOf(D) = h0[Days]
  BY DEF WinsOf, MapThenSumSet, MapThenFoldSet
<1>5. Adds(h0, g, Days)
  <2> HIDE DEF h0, g
  <2> QED
    BY <1>1, <1>3 DEF Adds, TakenOut
<1> HIDE DEF h0, g
<1>6. IsFiniteSet(Days)
  BY InputAssumption
<1>7. Adds(f, g, Days)
  BY DEF Sums, g
<1>8. \A u \in SUBSET (Days \cap Days) : h0[u] = f[u]
  BY <1>5, <1>6, <1>7, SumsAgree
<1> QED
  BY <1>4, <1>8

LEMMA LossesAre ==
    ASSUME NEW D \in [Days -> DayTotals], NEW f, Sums(f, [d \in Days |-> D[d].losses], Days)
    PROVE  LossesOf(D) = f[Days]
<1> DEFINE Fold(h) == h = [s \in SUBSET Days |->
                           IF s = {} THEN 0 ELSE D[CHOOSE x \in s : TRUE].losses + h[s \ {CHOOSE x \in s : TRUE}]]
           g == [d \in Days |-> D[d].losses]
           h0 == CHOOSE h : Fold(h)
<1>1. ASSUME NEW s \in SUBSET Days, s # {}
      PROVE  g[CHOOSE x \in s : TRUE] = D[CHOOSE x \in s : TRUE].losses
  BY <1>1
<1>2. Fold(f)
  <2> HIDE DEF g
  <2> QED
    BY <1>1 DEF Sums, Adds, TakenOut
<1>3. Fold(h0)
  <2> HIDE DEF Fold
  <2> QED
    BY <1>2
<1>4. LossesOf(D) = h0[Days]
  BY DEF LossesOf, MapThenSumSet, MapThenFoldSet
<1>5. Adds(h0, g, Days)
  <2> HIDE DEF h0, g
  <2> QED
    BY <1>1, <1>3 DEF Adds, TakenOut
<1> HIDE DEF h0, g
<1>6. IsFiniteSet(Days)
  BY InputAssumption
<1>7. Adds(f, g, Days)
  BY DEF Sums, g
<1>8. \A u \in SUBSET (Days \cap Days) : h0[u] = f[u]
  BY <1>5, <1>6, <1>7, SumsAgree
<1> QED
  BY <1>4, <1>8

LEMMA SolIs ==
    ASSUME NEW P \in Seq(Sell), NEW d, NEW f, Sums(f, [i \in SellsOf(P, d) |-> P[i].sol], SellsOf(P, d))
    PROVE  SolOf(P, d) = f[SellsOf(P, d)]
<1> DEFINE Fold(h) == h = [s \in SUBSET SellsOf(P, d) |->
                           IF s = {} THEN 0 ELSE P[CHOOSE x \in s : TRUE].sol + h[s \ {CHOOSE x \in s : TRUE}]]
           g == [i \in SellsOf(P, d) |-> P[i].sol]
           h0 == CHOOSE h : Fold(h)
<1>1. ASSUME NEW s \in SUBSET SellsOf(P, d), s # {}
      PROVE  g[CHOOSE x \in s : TRUE] = P[CHOOSE x \in s : TRUE].sol
  BY <1>1
<1>2. Fold(f)
  <2> HIDE DEF g
  <2> QED
    BY <1>1 DEF Sums, Adds, TakenOut
<1>3. Fold(h0)
  <2> HIDE DEF Fold
  <2> QED
    BY <1>2
<1>4. SolOf(P, d) = h0[SellsOf(P, d)]
  BY DEF SolOf, MapThenSumSet, MapThenFoldSet
<1>5. Adds(h0, g, SellsOf(P, d))
  <2> HIDE DEF h0, g
  <2> QED
    BY <1>1, <1>3 DEF Adds, TakenOut
<1> HIDE DEF h0, g
<1>6. IsFiniteSet(SellsOf(P, d))
  BY SellsAreFinite
<1>7. Adds(f, g, SellsOf(P, d))
  BY DEF Sums, g
<1>8. \A u \in SUBSET (SellsOf(P, d) \cap SellsOf(P, d)) : h0[u] = f[u]
  BY <1>5, <1>6, <1>7, SumsAgree
<1> QED
  BY <1>4, <1>8

LEMMA UsdIs ==
    ASSUME NEW P \in Seq(Sell), NEW d, NEW f, Sums(f, [i \in SellsOf(P, d) |-> P[i].usd], SellsOf(P, d))
    PROVE  UsdOf(P, d) = f[SellsOf(P, d)]
<1> DEFINE Fold(h) == h = [s \in SUBSET SellsOf(P, d) |->
                           IF s = {} THEN 0 ELSE P[CHOOSE x \in s : TRUE].usd + h[s \ {CHOOSE x \in s : TRUE}]]
           g == [i \in SellsOf(P, d) |-> P[i].usd]
           h0 == CHOOSE h : Fold(h)
<1>1. ASSUME NEW s \in SUBSET SellsOf(P, d), s # {}
      PROVE  g[CHOOSE x \in s : TRUE] = P[CHOOSE x \in s : TRUE].usd
  BY <1>1
<1>2. Fold(f)
  <2> HIDE DEF g
  <2> QED
    BY <1>1 DEF Sums, Adds, TakenOut
<1>3. Fold(h0)
  <2> HIDE DEF Fold
  <2> QED
    BY <1>2
<1>4. UsdOf(P, d) = h0[SellsOf(P, d)]
  BY DEF UsdOf, MapThenSumSet, MapThenFoldSet
<1>5. Adds(h0, g, SellsOf(P, d))
  <2> HIDE DEF h0, g
  <2> QED
    BY <1>1, <1>3 DEF Adds, TakenOut
<1> HIDE DEF h0, g
<1>6. IsFiniteSet(SellsOf(P, d))
  BY SellsAreFinite
<1>7. Adds(f, g, SellsOf(P, d))
  BY DEF Sums, g
<1>8. \A u \in SUBSET (SellsOf(P, d) \cap SellsOf(P, d)) : h0[u] = f[u]
  BY <1>5, <1>6, <1>7, SumsAgree
<1> QED
  BY <1>4, <1>8

\* A day that changes changes them by as much.
LEMMA WinsMove ==
    ASSUME NEW D \in [Days -> DayTotals], NEW E \in [Days -> DayTotals], NEW x \in Days,
           \A y \in Days : y # x => E[y].wins = D[y].wins
    PROVE  WinsOf(D) \in Int /\ WinsOf(E) = WinsOf(D) + (E[x].wins - D[x].wins)
<1> DEFINE g == [d \in Days |-> D[d].wins]
           h == [d \in Days |-> E[d].wins]
<1>1. g \in [Days -> Int] /\ h \in [Days -> Int] /\ IsFiniteSet(Days)
  BY InputAssumption DEF DayTotals
<1>2. g[x] = D[x].wins /\ h[x] = E[x].wins /\ \A y \in Days : y # x => g[y] = h[y]
  OBVIOUS
<1>3. PICK f : Sums(f, g, Days)
  <2> HIDE DEF g
  <2> QED
    BY <1>1, SumsExist
<1>4. PICK k : Sums(k, h, Days)
  <2> HIDE DEF h
  <2> QED
    BY <1>1, SumsExist
<1>5. WinsOf(D) = f[Days] /\ WinsOf(E) = k[Days]
  BY <1>3, <1>4, WinsAre
<1> HIDE DEF g, h
<1>6. f[Days] \in Int /\ k[Days] = f[Days] + (h[x] - g[x])
  BY <1>1, <1>2, <1>3, <1>4, OneTerm
<1> QED
  BY <1>2, <1>5, <1>6

LEMMA LossesMove ==
    ASSUME NEW D \in [Days -> DayTotals], NEW E \in [Days -> DayTotals], NEW x \in Days,
           \A y \in Days : y # x => E[y].losses = D[y].losses
    PROVE  LossesOf(D) \in Int /\ LossesOf(E) = LossesOf(D) + (E[x].losses - D[x].losses)
<1> DEFINE g == [d \in Days |-> D[d].losses]
           h == [d \in Days |-> E[d].losses]
<1>1. g \in [Days -> Int] /\ h \in [Days -> Int] /\ IsFiniteSet(Days)
  BY InputAssumption DEF DayTotals
<1>2. g[x] = D[x].losses /\ h[x] = E[x].losses /\ \A y \in Days : y # x => g[y] = h[y]
  OBVIOUS
<1>3. PICK f : Sums(f, g, Days)
  <2> HIDE DEF g
  <2> QED
    BY <1>1, SumsExist
<1>4. PICK k : Sums(k, h, Days)
  <2> HIDE DEF h
  <2> QED
    BY <1>1, SumsExist
<1>5. LossesOf(D) = f[Days] /\ LossesOf(E) = k[Days]
  BY <1>3, <1>4, LossesAre
<1> HIDE DEF g, h
<1>6. f[Days] \in Int /\ k[Days] = f[Days] + (h[x] - g[x])
  BY <1>1, <1>2, <1>3, <1>4, OneTerm
<1> QED
  BY <1>2, <1>5, <1>6

\* A sell more counts for its own day.
LEMMA SolGrows ==
    ASSUME NEW P \in Seq(Sell), NEW r \in Sell, NEW d
    PROVE  /\ SolOf(P, d) \in Int
           /\ SolOf(Append(P, r), d) = SolOf(P, d) + (IF r.day = d THEN r.sol ELSE 0)
<1> DEFINE S == SellsOf(P, d)
           n == Len(P) + 1
           g == [i \in S |-> P[i].sol]
<1>0. Append(P, r) \in Seq(Sell)
  OBVIOUS
<1>1. PICK Q : Q = Append(P, r) /\ Q \in Seq(Sell)
  BY <1>0
<1>2. /\ DOMAIN Q = 1 .. n /\ n \notin DOMAIN P /\ Q[n] = r
      /\ \A i \in DOMAIN P : i \in DOMAIN Q /\ Q[i] = P[i]
      /\ DOMAIN Q = DOMAIN P \cup {n}
  BY <1>1
<1> DEFINE T == SellsOf(Q, d)
           h == [i \in T |-> Q[i].sol]
<1>3. S \subseteq DOMAIN P /\ T = IF r.day = d THEN S \cup {n} ELSE S
  BY <1>2 DEF SellsOf
<1>4. g \in [S -> Int] /\ h \in [T -> Int] /\ IsFiniteSet(S) /\ IsFiniteSet(T)
  <2>1. \A R \in Seq(Sell) : \A i \in DOMAIN R : R[i] \in Sell
    OBVIOUS
  <2>2. \A R \in Seq(Sell) : \A i \in SellsOf(R, d) : R[i].sol \in Int
    BY <2>1 DEF SellsOf, Sell
  <2>3. IsFiniteSet(S) /\ IsFiniteSet(T)
    BY <1>1, SellsAreFinite
  <2> QED
    BY <1>1, <2>2, <2>3
<1>5. \A i \in S : i \in T /\ g[i] = h[i]
  <2>1. \A i \in S : i \in T
    BY <1>3
  <2>2. \A i \in S : P[i] = Q[i]
    BY <1>2, <1>3
  <2> QED
    BY <2>1, <2>2
<1>6. PICK f : Sums(f, g, S)
  <2> HIDE DEF g, S
  <2> QED
    BY <1>4, SumsExist
<1>7. PICK k : Sums(k, h, T)
  <2> HIDE DEF h, T
  <2> QED
    BY <1>4, SumsExist
<1>8. SolOf(P, d) = f[S] /\ SolOf(Q, d) = k[T]
  BY <1>1, <1>6, <1>7, SolIs
<1>9. r.day = d => h[n] = r.sol
  BY <1>2, <1>3
<1>10. f[S] \in Int
  BY <1>6 DEF Sums
<1>11. n \notin S
  BY <1>2, <1>3
<1> HIDE DEF g, h, S, T, n
<1>12. CASE r.day = d
  <2>1. T = S \cup {n}
    BY <1>3, <1>12
  <2>2. g \in [S -> Int] /\ h \in [T -> Int] /\ IsFiniteSet(S) /\ \A y \in S : g[y] = h[y]
    BY <1>4, <1>5
  <2>4. k[T] = f[S] + h[n]
    BY <2>1, <2>2, <1>6, <1>7, <1>11, OneMore
  <2> QED
    BY <1>1, <1>8, <1>9, <1>10, <1>12, <2>4
<1>13. CASE r.day # d
  <2>1. T = S
    BY <1>3, <1>13
  <2>2. \A u \in SUBSET (S \cap S) : f[u] = k[u]
    BY <1>4, <1>5, <1>6, <1>7, <2>1, SumsAgree DEF Sums
  <2>3. k[T] = f[S]
    BY <2>1, <2>2
  <2> QED
    BY <1>1, <1>8, <1>10, <1>13, <2>3
<1> QED
  BY <1>12, <1>13

LEMMA UsdGrows ==
    ASSUME NEW P \in Seq(Sell), NEW r \in Sell, NEW d
    PROVE  /\ UsdOf(P, d) \in Int
           /\ UsdOf(Append(P, r), d) = UsdOf(P, d) + (IF r.day = d THEN r.usd ELSE 0)
<1> DEFINE S == SellsOf(P, d)
           n == Len(P) + 1
           g == [i \in S |-> P[i].usd]
<1>0. Append(P, r) \in Seq(Sell)
  OBVIOUS
<1>1. PICK Q : Q = Append(P, r) /\ Q \in Seq(Sell)
  BY <1>0
<1>2. /\ DOMAIN Q = 1 .. n /\ n \notin DOMAIN P /\ Q[n] = r
      /\ \A i \in DOMAIN P : i \in DOMAIN Q /\ Q[i] = P[i]
      /\ DOMAIN Q = DOMAIN P \cup {n}
  BY <1>1
<1> DEFINE T == SellsOf(Q, d)
           h == [i \in T |-> Q[i].usd]
<1>3. S \subseteq DOMAIN P /\ T = IF r.day = d THEN S \cup {n} ELSE S
  BY <1>2 DEF SellsOf
<1>4. g \in [S -> Int] /\ h \in [T -> Int] /\ IsFiniteSet(S) /\ IsFiniteSet(T)
  <2>1. \A R \in Seq(Sell) : \A i \in DOMAIN R : R[i] \in Sell
    OBVIOUS
  <2>2. \A R \in Seq(Sell) : \A i \in SellsOf(R, d) : R[i].usd \in Int
    BY <2>1 DEF SellsOf, Sell
  <2>3. IsFiniteSet(S) /\ IsFiniteSet(T)
    BY <1>1, SellsAreFinite
  <2> QED
    BY <1>1, <2>2, <2>3
<1>5. \A i \in S : i \in T /\ g[i] = h[i]
  <2>1. \A i \in S : i \in T
    BY <1>3
  <2>2. \A i \in S : P[i] = Q[i]
    BY <1>2, <1>3
  <2> QED
    BY <2>1, <2>2
<1>6. PICK f : Sums(f, g, S)
  <2> HIDE DEF g, S
  <2> QED
    BY <1>4, SumsExist
<1>7. PICK k : Sums(k, h, T)
  <2> HIDE DEF h, T
  <2> QED
    BY <1>4, SumsExist
<1>8. UsdOf(P, d) = f[S] /\ UsdOf(Q, d) = k[T]
  BY <1>1, <1>6, <1>7, UsdIs
<1>9. r.day = d => h[n] = r.usd
  BY <1>2, <1>3
<1>10. f[S] \in Int
  BY <1>6 DEF Sums
<1>11. n \notin S
  BY <1>2, <1>3
<1> HIDE DEF g, h, S, T, n
<1>12. CASE r.day = d
  <2>1. T = S \cup {n}
    BY <1>3, <1>12
  <2>2. g \in [S -> Int] /\ h \in [T -> Int] /\ IsFiniteSet(S) /\ \A y \in S : g[y] = h[y]
    BY <1>4, <1>5
  <2>4. k[T] = f[S] + h[n]
    BY <2>1, <2>2, <1>6, <1>7, <1>11, OneMore
  <2> QED
    BY <1>1, <1>8, <1>9, <1>10, <1>12, <2>4
<1>13. CASE r.day # d
  <2>1. T = S
    BY <1>3, <1>13
  <2>2. \A u \in SUBSET (S \cap S) : f[u] = k[u]
    BY <1>4, <1>5, <1>6, <1>7, <2>1, SumsAgree DEF Sums
  <2>3. k[T] = f[S]
    BY <2>1, <2>2
  <2> QED
    BY <1>1, <1>8, <1>10, <1>13, <2>3
<1> QED
  BY <1>12, <1>13

\* Nothing adds up to nothing.
LEMMA ZeroSums ==
    ASSUME NEW S, NEW g, \A x \in S : g[x] = 0
    PROVE  \E f : Sums(f, g, S) /\ f[S] = 0
<1> DEFINE f == [t \in SUBSET S |-> 0]
<1>1. ASSUME NEW t \in SUBSET S, t # {} PROVE g[TakenOut(t)] = 0 /\ f[t \ {TakenOut(t)}] = 0
  BY <1>1, NextIs
<1>2. ASSUME NEW t \in SUBSET S
      PROVE  f[t] = IF t = {} THEN 0 ELSE g[TakenOut(t)] + f[t \ {TakenOut(t)}]
  <2>1. f[t] = 0
    OBVIOUS
  <2> HIDE DEF f
  <2> QED
    BY <1>1, <2>1
<1>3. f \in [SUBSET S -> Int] /\ f[S] = 0
  OBVIOUS
<1>4. Adds(f, g, S)
  <2> HIDE DEF f
  <2> QED
    BY <1>2 DEF Adds
<1> HIDE DEF f
<1> QED
  BY <1>3, <1>4 DEF Sums

LEMMA SumsBegin ==
    /\ WinsOf([d \in Days |-> NoTotals]) = 0 /\ LossesOf([d \in Days |-> NoTotals]) = 0
    /\ \A d \in Days : SolOf(<<>>, d) = 0 /\ UsdOf(<<>>, d) = 0
<1> DEFINE D == [d \in Days |-> NoTotals]
<1>1. D \in [Days -> DayTotals] /\ \A d \in Days : D[d].wins = 0 /\ D[d].losses = 0
  BY DEF DayTotals, NoTotals
<1>2. WinsOf(D) = 0
  <2>1. PICK f : Sums(f, [d \in Days |-> D[d].wins], Days) /\ f[Days] = 0
    <3> DEFINE g == [d \in Days |-> D[d].wins]
    <3>1. \A x \in Days : g[x] = 0
      BY <1>1
    <3> HIDE DEF g
    <3>2. \E f : Sums(f, g, Days) /\ f[Days] = 0
      BY <3>1, ZeroSums
    <3> QED
      BY <3>2 DEF g
  <2> HIDE DEF D
  <2> QED
    BY <1>1, <2>1, WinsAre
<1>3. LossesOf(D) = 0
  <2>1. PICK f : Sums(f, [d \in Days |-> D[d].losses], Days) /\ f[Days] = 0
    <3> DEFINE g == [d \in Days |-> D[d].losses]
    <3>1. \A x \in Days : g[x] = 0
      BY <1>1
    <3> HIDE DEF g
    <3>2. \E f : Sums(f, g, Days) /\ f[Days] = 0
      BY <3>1, ZeroSums
    <3> QED
      BY <3>2 DEF g
  <2> HIDE DEF D
  <2> QED
    BY <1>1, <2>1, LossesAre
<1>4. ASSUME NEW d \in Days PROVE SolOf(<<>>, d) = 0 /\ UsdOf(<<>>, d) = 0
  <2> DEFINE none == SellsOf(<<>>, d)
  <2>1. none = {} /\ <<>> \in Seq(Sell)
    BY DEF SellsOf
  <2>2. \A g : \E f : Sums(f, g, none) /\ f[none] = 0
    <3> HIDE DEF none
    <3> QED
      BY <2>1, ZeroSums
  <2>3. PICK f : Sums(f, [i \in none |-> <<>>[i].sol], none) /\ f[none] = 0
    BY <2>2
  <2>4. PICK k : Sums(k, [i \in none |-> <<>>[i].usd], none) /\ k[none] = 0
    BY <2>2
  <2> QED
    BY <2>1, <2>3, <2>4, SolIs, UsdIs
<1> QED
  BY <1>2, <1>3, <1>4

-----------------------------------------------------------------------------
(* Verdicts and days.                                                      *)

\* What has been realized since the position reopened is what the verdict goes by.
EpisodeIsOpen == episodePnl = realizedSol - episodeStartSol

\* What a day has realized is what its sells have, whether or not it is withheld.
DaysAreSums == \A d \in Days : daily[d].sol = SolOf(perSell, d) /\ daily[d].usd = UsdOf(perSell, d)

BooksOK == TypeOK /\ OneVerdictPerEpisode /\ EpisodeIsOpen /\ DaysAreSums

LEMMA BooksBegin == TypeOK /\ Init => BooksOK
<1> SUFFICES ASSUME TypeOK, Init PROVE BooksOK
  OBVIOUS
<1>1. daily = [d \in Days |-> NoTotals] /\ perSell = <<>>
  BY DEF Init
<1>2. Wins = 0 /\ Losses = 0
  BY <1>1, SumsAre, SumsBegin
<1>3. OneVerdictPerEpisode
  BY <1>2 DEF Init, OneVerdictPerEpisode
<1>4. DaysAreSums
  BY <1>1, SumsBegin DEF DaysAreSums, NoTotals
<1>5. EpisodeIsOpen
  BY DEF Init, EpisodeIsOpen
<1> QED
  BY <1>3, <1>4, <1>5 DEF BooksOK

\* A buy gives no verdict and realizes nothing; it may take the last one back.
LEMMA BuyKeepsBooks ==
    ASSUME BooksOK, TypeOK', NEW t \in TradeInputs, ApplyBuy(t)
    PROVE  BooksOK' /\ Wins' = Wins /\ Losses' = Losses
<1> DEFINE back == Reopens(boughtQty + Clamp(t.qty))
<1>1. /\ daily' = daily /\ perSell' = perSell /\ realizedSol' = realizedSol
      /\ closed' = (closed /\ ~back)
      /\ episodeStartSol' = IF back THEN realizedSol ELSE episodeStartSol
      /\ episodePnl' = IF back THEN 0 ELSE episodePnl
      /\ reopened' = IF back THEN reopened + 1 ELSE reopened
  BY DEF ApplyBuy
<1>2. back => closed
  BY DEF Reopens
<1> HIDE DEF back
<1>3. Wins' = Wins /\ Losses' = Losses
  BY <1>1, SumsAre, SumsAreNext
<1>4. realizedSol \in Int /\ reopened \in Nat /\ closed \in BOOLEAN
  BY DEF BooksOK, TypeOK
<1>5. OneVerdictPerEpisode'
  <2>1. Wins + Losses = reopened + (IF closed THEN 1 ELSE 0)
    BY DEF BooksOK, OneVerdictPerEpisode
  <2>2. CASE back
    <3>1. closed /\ ~closed' /\ reopened' = reopened + 1
      BY <1>1, <1>2, <2>2
    <3> QED
      BY <1>3, <1>4, <2>1, <3>1 DEF OneVerdictPerEpisode
  <2>3. CASE ~back
    <3>1. closed' = closed /\ reopened' = reopened
      BY <1>1, <1>4, <2>3, Zenon
    <3> QED
      BY <1>3, <2>1, <3>1 DEF OneVerdictPerEpisode
  <2> QED
    BY <2>2, <2>3
<1>6. EpisodeIsOpen'
  BY <1>1, <1>4 DEF BooksOK, EpisodeIsOpen
<1>7. DaysAreSums'
  BY <1>1 DEF BooksOK, DaysAreSums
<1> QED
  BY <1>3, <1>5, <1>6, <1>7 DEF BooksOK

\* A sell counts for its day, and gives a verdict when it closes the position.
LEMMA SellKeepsBooks ==
    ASSUME BooksOK, TypeOK', NEW t \in TradeInputs, ApplySell(t)
    PROVE  /\ BooksOK'
           /\ Wins' > Wins => episodePnl' > 0
           /\ Losses' > Losses => episodePnl' <= 0
<1> DEFINE q == Clamp(t.qty)
           gainSol == Gain(NetSol(t), costSol, q)
           gainUsd == Gain(NetUsd(t), costUsd, q)
           won == EpisodeSol(gainSol) > 0
           ends == Crosses(q)
           row == SellRow(t, gainSol, gainUsd)
<1>1. /\ realizedSol' = realizedSol + gainSol /\ episodePnl' = episodePnl + gainSol
      /\ closed' = (closed \/ ends) /\ perSell' = Append(perSell, row)
      /\ UNCHANGED <<episodeStartSol, reopened>>
  BY DEF ApplySell
<1>2. daily' = [daily EXCEPT ![t.day] =
             [sol    |-> @.sol + gainSol,
              usd    |-> @.usd + gainUsd,
              wins   |-> @.wins + (IF ends /\ won THEN 1 ELSE 0),
              losses |-> @.losses + (IF ends /\ ~won THEN 1 ELSE 0)]]
  BY DEF ApplySell
<1>3. t.day \in Days /\ q \in Nat /\ NetSol(t) \in Int /\ NetUsd(t) \in Int
  BY RowType
<1>4. gainSol \in Int /\ gainUsd \in Int
  <2>1. qty \in Nat /\ costSol \in Nat /\ costUsd \in Nat
    BY DEF BooksOK, TypeOK
  <2>2. Removed(costSol, q) \in Int /\ Removed(costUsd, q) \in Int
    BY <1>3, <2>1, RemovedType
  <2> QED
    BY <1>3, <2>2 DEF Gain
<1>5. won <=> realizedSol + gainSol - episodeStartSol > 0
  BY DEF EpisodeSol
<1>6. row = [day |-> t.day, sol |-> gainSol, usd |-> gainUsd]
  BY DEF SellRow
<1>7. ends => ~closed
  BY DEF Crosses
<1>8. /\ realizedSol \in Int /\ episodeStartSol \in Int /\ episodePnl \in Int /\ reopened \in Nat
      /\ closed \in BOOLEAN /\ daily \in [Days -> DayTotals] /\ perSell \in Seq(Sell)
      /\ daily' \in [Days -> DayTotals]
  BY DEF BooksOK, TypeOK
<1> HIDE DEF q, gainSol, gainUsd, won, ends, row
<1>9. row \in Sell
  BY <1>3, <1>4, <1>6 DEF Sell
<1>10. /\ daily'[t.day].sol = daily[t.day].sol + gainSol
       /\ daily'[t.day].usd = daily[t.day].usd + gainUsd
       /\ daily'[t.day].wins = daily[t.day].wins + (IF ends /\ won THEN 1 ELSE 0)
       /\ daily'[t.day].losses = daily[t.day].losses + (IF ends /\ ~won THEN 1 ELSE 0)
       /\ \A d \in Days : d # t.day => daily'[d] = daily[d]
  BY <1>2, <1>3, <1>8
<1>11. Wins \in Int /\ Wins' = Wins + (IF ends /\ won THEN 1 ELSE 0)
  <2>1. daily[t.day].wins \in Int
    BY <1>3, <1>8 DEF DayTotals
  <2>2. WinsOf(daily) \in Int /\ WinsOf(daily') = WinsOf(daily) + (daily'[t.day].wins - daily[t.day].wins)
    BY <1>3, <1>8, <1>10, WinsMove
  <2> QED
    BY <1>10, <2>1, <2>2, SumsAre, SumsAreNext
<1>12. Losses \in Int /\ Losses' = Losses + (IF ends /\ ~won THEN 1 ELSE 0)
  <2>1. daily[t.day].losses \in Int
    BY <1>3, <1>8 DEF DayTotals
  <2>2. LossesOf(daily) \in Int
        /\ LossesOf(daily') = LossesOf(daily) + (daily'[t.day].losses - daily[t.day].losses)
    BY <1>3, <1>8, <1>10, LossesMove
  <2> QED
    BY <1>10, <2>1, <2>2, SumsAre, SumsAreNext
<1>13. EpisodeIsOpen'
  <2>1. episodePnl = realizedSol - episodeStartSol
    BY DEF BooksOK, EpisodeIsOpen
  <2> QED
    BY <1>1, <1>4, <1>8, <2>1 DEF EpisodeIsOpen
<1>14. won <=> episodePnl' > 0
  <2>1. episodePnl' = realizedSol' - episodeStartSol'
    BY <1>13 DEF EpisodeIsOpen
  <2>2. realizedSol' = realizedSol + gainSol /\ episodeStartSol' = episodeStartSol
    BY <1>1
  <2>3. episodePnl' = realizedSol + gainSol - episodeStartSol
    BY <1>4, <1>8, <2>1, <2>2
  <2> QED
    BY <1>5, <2>3, Zenon
<1>15. episodePnl' \in Int
  BY DEF TypeOK
<1>16. OneVerdictPerEpisode'
  <2>1. Wins + Losses = reopened + (IF closed THEN 1 ELSE 0)
    BY DEF BooksOK, OneVerdictPerEpisode
  <2>2. CASE ends
    <3>1. ~closed /\ closed' /\ reopened' = reopened
      BY <1>1, <1>7, <2>2
    <3>2. Wins' + Losses' = Wins + Losses + 1
      BY <1>11, <1>12, <2>2
    <3> QED
      BY <1>8, <2>1, <3>1, <3>2 DEF OneVerdictPerEpisode
  <2>3. CASE ~ends
    <3>1. closed' = closed /\ reopened' = reopened
      BY <1>1, <1>8, <2>3, Zenon
    <3>2. Wins' + Losses' = Wins + Losses
      BY <1>11, <1>12, <2>3
    <3> QED
      BY <2>1, <3>1, <3>2 DEF OneVerdictPerEpisode
  <2> QED
    BY <2>2, <2>3
<1>17. DaysAreSums'
  <2> SUFFICES ASSUME NEW d \in Days
               PROVE  daily'[d].sol = SolOf(perSell', d) /\ daily'[d].usd = UsdOf(perSell', d)
    BY DEF DaysAreSums
  <2>1. daily[d].sol = SolOf(perSell, d) /\ daily[d].usd = UsdOf(perSell, d)
    BY DEF BooksOK, DaysAreSums
  <2>2. /\ SolOf(perSell, d) \in Int /\ UsdOf(perSell, d) \in Int
        /\ SolOf(perSell', d) = SolOf(perSell, d) + (IF row.day = d THEN row.sol ELSE 0)
        /\ UsdOf(perSell', d) = UsdOf(perSell, d) + (IF row.day = d THEN row.usd ELSE 0)
    BY <1>1, <1>8, <1>9, SolGrows, UsdGrows
  <2>3. row.day = t.day /\ row.sol = gainSol /\ row.usd = gainUsd
    BY <1>6
  <2>4. CASE d = t.day
    BY <1>10, <2>1, <2>2, <2>3, <2>4
  <2>5. CASE d # t.day
    BY <1>10, <2>1, <2>2, <2>3, <2>5
  <2> QED
    BY <2>4, <2>5
<1>18. BooksOK'
  BY <1>13, <1>16, <1>17 DEF BooksOK
<1> QED
  BY <1>11, <1>12, <1>14, <1>15, <1>18

LEMMA BooksStay == Spec => [](BooksOK /\ TypeOK)
<1>1. ASSUME BooksOK, TypeOK', [Next]_vars PROVE BooksOK'
  <2>1. ASSUME NEW t \in TradeInputs, ApplyBuy(t) PROVE BooksOK'
    BY <1>1, <2>1, BuyKeepsBooks
  <2>2. ASSUME NEW t \in TradeInputs, ApplySell(t) PROVE BooksOK'
    BY <1>1, <2>2, SellKeepsBooks
  <2>3. CASE UNCHANGED vars
    <3>1. UNCHANGED <<daily, perSell, realizedSol, episodeStartSol, episodePnl, reopened, closed>>
      BY <2>3 DEF vars, position, history
    <3>2. Wins' = Wins /\ Losses' = Losses
      BY <3>1, SumsAre, SumsAreNext
    <3>3. OneVerdictPerEpisode' /\ EpisodeIsOpen' /\ DaysAreSums'
      BY <1>1, <3>1, <3>2 DEF BooksOK, OneVerdictPerEpisode, EpisodeIsOpen, DaysAreSums
    <3> QED
      BY <1>1, <3>3 DEF BooksOK
  <2> QED
    BY <1>1, <2>1, <2>2, <2>3 DEF Next
<1> QED
  BY <1>1, BooksBegin, TypeCorrect, PTL DEF Spec

\* Every round trip is counted once, for any log: one verdict per reopening, and one for the
\* episode under way if it has closed (pnl.ts applyTrade).
THEOREM RoundTripsAreCounted == Spec => []OneVerdictPerEpisode
<1>1. BooksOK => OneVerdictPerEpisode
  BY DEF BooksOK
<1> QED
  BY <1>1, BooksStay, PTL

\* What is stored by day and by sell agrees for a position with a known basis, for any log
\* (pnl.ts writePositionDays, writeTradeRealized).
THEOREM DaysAndSellsAgree == Spec => []KnownDaysAreTheSells
<1>1. BooksOK => KnownDaysAreTheSells
  BY SumsAre DEF BooksOK, DaysAreSums, KnownDaysAreTheSells, Contribution
<1> QED
  BY <1>1, BooksStay, PTL

\* A win realized more than it cost in its own round trip, and a loss did not, whatever the
\* position realized in earlier ones (pnl.ts applyTrade).
THEOREM VerdictsAreTheirOwn == Spec => VerdictIsOfTheEpisode
<1> DEFINE Fair == /\ Wins' > Wins => episodePnl' > 0
                   /\ Losses' > Losses => episodePnl' <= 0
<1>1. ASSUME BooksOK, TypeOK', [Next]_vars PROVE [Fair]_vars
  <2>1. ASSUME NEW t \in TradeInputs, ApplyBuy(t) PROVE Fair
    <3>1. Wins' = Wins /\ Losses' = Losses
      BY <1>1, <2>1, BuyKeepsBooks
    <3>2. ~(Wins' > Wins) /\ ~(Losses' > Losses)
      <4>1. daily \in [Days -> DayTotals]
        BY <1>1 DEF BooksOK, TypeOK
      <4>2. t.day \in Days
        BY RowType
      <4>3. WinsOf(daily) \in Int /\ LossesOf(daily) \in Int
        BY <4>1, <4>2, WinsMove, LossesMove
      <4> QED
        BY <3>1, <4>3, SumsAre
    <3> QED
      BY <3>2
  <2>2. ASSUME NEW t \in TradeInputs, ApplySell(t) PROVE Fair
    BY <1>1, <2>2, SellKeepsBooks
  <2> HIDE DEF Fair
  <2> QED
    BY <1>1, <2>1, <2>2 DEF Next
<1> QED
  BY <1>1, BooksStay, PTL DEF Spec, VerdictIsOfTheEpisode

-----------------------------------------------------------------------------
(* Prices: any minutes, page sizes, request caps, fills at once, trades.   *)

(* The invariant.                                                          *)

FillType ==
    [step : {"idle", "usdc", "usdt", "write", "done"}, from : Minutes, to : Minutes,
     cursor : 0 .. LastMinute + 1, end : Minutes, requests : 0 .. MaxRequests,
     got : [Minutes -> {"none", "bad", "usdc", "usdt", "open"}], cut : BOOLEAN]

\* What the USDC book has for a minute that closed, as a page brings it.
OfUsdc(m) == IF candle["usdc"][m] = "good" THEN "usdc" ELSE candle["usdc"][m]

\* What a fill has got is of the book it is called after, of minutes that closed,
\* and all that the USDC book has as far as it was read.
Honest(r) ==
    /\ r.from <= r.to /\ r.to < clock /\ r.end <= r.to /\ r.from <= r.cursor
    /\ \A m \in Minutes :
          /\ r.got[m] # "open"
          /\ r.got[m] = "usdc" => m < clock /\ candle["usdc"][m] = "good"
          /\ r.got[m] = "usdt" => m < clock /\ candle["usdc"][m] = "none" /\ candle["usdt"][m] = "good"
    /\ r.step = "usdc" => ~r.cut /\ r.end = r.to
    /\ r.step = "usdt" => ~r.cut
    /\ ~r.cut => \A m \in r.from .. r.to :
                    (r.step = "usdc" => m < r.cursor) /\ candle["usdc"][m] # "none"
                    => r.got[m] = OfUsdc(m)

\* What a fill reports is in the table.
Stored(r) == r.step = "done" => \A m \in r.from .. r.to : r.got[m] = "usdc" => rate[m] # "none"

FillsOK == \A f \in Fillers : fill[f].step # "idle" => Honest(fill[f]) /\ Stored(fill[f])

RatesOK ==
    \A m \in Minutes :
        /\ rate[m] \in {"usdc", "usdt"} => m < clock
        /\ rate[m] = "usdt" => candle["usdc"][m] = "none" /\ candle["usdt"][m] = "good"
        /\ rate[m] = "usdc" => candle["usdc"][m] = "good"
        /\ rate[m] # "open"

\* A trade that has a cost has a value as well, of the same minute.
ValuedOK ==
    \A t \in Priced : LET v == valued[t] IN
        /\ v.basis # "none" => /\ v.minute \in Minutes /\ v.basis = rate[v.minute]
                               /\ v.usdOf = v.minute /\ v.usd # "none"
        /\ v.usd # "none" => v.usdOf \in Minutes /\ v.usdOf <= v.minute /\ v.usd = rate[v.usdOf]

PricesOK == PricesTypeOK /\ FillsOK /\ RatesOK /\ ValuedOK

-----------------------------------------------------------------------------
(* Sets of minutes.                                                        *)

LEMMA Greatest ==
    ASSUME NEW S, IsFiniteSet(S), S \subseteq Int, S # {}
    PROVE  \E x \in S : \A y \in S : y <= x
<1> DEFINE Above(x) == {y \in S : y > x}
           T == {Above(x) : x \in S}
<1>1. IsWellFoundedOn(StrictSubsetOrdering(S), SUBSET S)
  BY FS_StrictSubsetOrderingWellFounded, FS_FiniteSubsetsOfFinite
<1>2. T \subseteq SUBSET S /\ T # {}
  OBVIOUS
<1>3. \A x \in S : Above(x) \in T /\ Above(x) \in SUBSET S
  OBVIOUS
<1>4. \A V \in T : \E x \in S : V = Above(x)
  OBVIOUS
<1>5. \E U \in T : \A V \in T : <<V, U>> \notin StrictSubsetOrdering(S)
  <2> HIDE DEF T
  <2> QED
    BY <1>1, <1>2, WFMin
<1>6. PICK x \in S : \A V \in T : <<V, Above(x)>> \notin StrictSubsetOrdering(S)
  <2> HIDE DEF T, Above
  <2> QED
    BY <1>4, <1>5
<1>7. ASSUME NEW y \in S, ~(y <= x) PROVE FALSE
  <2>1. Above(y) \subseteq Above(x) /\ Above(y) # Above(x)
    <3>1. x \in Int /\ y \in Int /\ y > x
      BY <1>7
    <3>2. y \in Above(x) /\ y \notin Above(y)
      BY <3>1
    <3>3. \A z \in S : z > y => z > x
      BY <3>1
    <3>4. Above(y) \subseteq Above(x)
      BY <3>3
    <3> QED
      BY <3>2, <3>4
  <2> HIDE DEF T, Above
  <2>2. <<Above(y), Above(x)>> \in StrictSubsetOrdering(S)
    BY <1>3, <2>1 DEF StrictSubsetOrdering
  <2> QED
    BY <1>3, <1>6, <2>2
<1> QED
  BY <1>7

LEMMA Least ==
    ASSUME NEW S, IsFiniteSet(S), S \subseteq Int, S # {}
    PROVE  \E x \in S : \A y \in S : x <= y
<1> DEFINE Below(x) == {y \in S : y < x}
           T == {Below(x) : x \in S}
<1>1. IsWellFoundedOn(StrictSubsetOrdering(S), SUBSET S)
  BY FS_StrictSubsetOrderingWellFounded, FS_FiniteSubsetsOfFinite
<1>2. T \subseteq SUBSET S /\ T # {}
  OBVIOUS
<1>3. \A x \in S : Below(x) \in T /\ Below(x) \in SUBSET S
  OBVIOUS
<1>4. \A V \in T : \E x \in S : V = Below(x)
  OBVIOUS
<1>5. \E U \in T : \A V \in T : <<V, U>> \notin StrictSubsetOrdering(S)
  <2> HIDE DEF T
  <2> QED
    BY <1>1, <1>2, WFMin
<1>6. PICK x \in S : \A V \in T : <<V, Below(x)>> \notin StrictSubsetOrdering(S)
  <2> HIDE DEF T, Below
  <2> QED
    BY <1>4, <1>5
<1>7. ASSUME NEW y \in S, ~(x <= y) PROVE FALSE
  <2>1. Below(y) \subseteq Below(x) /\ Below(y) # Below(x)
    <3>1. x \in Int /\ y \in Int /\ y < x
      BY <1>7
    <3>2. y \in Below(x) /\ y \notin Below(y)
      BY <3>1
    <3>3. \A z \in S : z < y => z < x
      BY <3>1
    <3>4. Below(y) \subseteq Below(x)
      BY <3>3
    <3> QED
      BY <3>2, <3>4
  <2> HIDE DEF T, Below
  <2>2. <<Below(y), Below(x)>> \in StrictSubsetOrdering(S)
    BY <1>3, <2>1 DEF StrictSubsetOrdering
  <2> QED
    BY <1>3, <1>6, <2>2
<1> QED
  BY <1>7

\* Max and Min of some minutes are of them.
LEMMA MaxMin ==
    ASSUME NEW S, S \subseteq Minutes, S # {}
    PROVE  /\ Max(S) \in S /\ \A y \in S : y <= Max(S)
           /\ Min(S) \in S /\ \A y \in S : Min(S) <= y
<1>1. IsFiniteSet(S) /\ S \subseteq Int
  <2>1. 0 \in Int /\ LastMinute \in Int
    BY PriceAssumption
  <2>2. IsFiniteSet(Minutes)
    BY <2>1, FS_Interval DEF Minutes
  <2>3. IsFiniteSet(S)
    BY <2>2, FS_Subset
  <2> QED
    BY <2>3 DEF Minutes
<1>2. \E x \in S : \A y \in S : x >= y
  BY <1>1, Greatest
<1>3. \E x \in S : \A y \in S : x =< y
  BY <1>1, Least
<1>4. Max(S) \in S /\ \A y \in S : Max(S) >= y
  BY <1>2 DEF Max
<1>5. Min(S) \in S /\ \A y \in S : Min(S) =< y
  BY <1>3 DEF Min
<1> QED
  BY <1>1, <1>4, <1>5

\* The last rate at or before a minute is one, and it is the minute's own if there is one.
LEMMA LastRatedIs ==
    ASSUME NEW m \in Minutes
    PROVE  /\ LastRated(m) = Never \/ (LastRated(m) \in 0 .. m /\ rate[LastRated(m)] # "none")
           /\ rate[m] # "none" => LastRated(m) = m
<1> DEFINE known == {n \in 0 .. m : rate[n] # "none"}
<1>1. known \subseteq Minutes /\ m \in Int
  BY PriceAssumption DEF Minutes
<1>2. CASE known = {}
  BY <1>1, <1>2, PriceAssumption DEF LastRated, Minutes
<1>3. CASE known # {}
  <2>1. LastRated(m) = Max(known)
    BY <1>3 DEF LastRated
  <2>2. Max(known) \in known /\ \A y \in known : y <= Max(known)
    <3> HIDE DEF known
    <3> QED
      BY <1>1, <1>3, MaxMin
  <2>3. rate[m] # "none" => m \in known
    BY PriceAssumption DEF Minutes
  <2>4. rate[m] # "none" => m <= Max(known)
    BY <2>2, <2>3
  <2> QED
    BY <1>1, <2>1, <2>2, <2>4
<1> QED
  BY <1>2, <1>3

-----------------------------------------------------------------------------
(* One fill.                                                               *)

LEMMA NoFillType == NoFill \in FillType /\ NoFill.step = "idle"
<1>1. 0 \in Minutes /\ 0 \in 0 .. LastMinute + 1 /\ 0 \in 0 .. MaxRequests
  BY PriceAssumption DEF Minutes
<1>2. [m \in Minutes |-> "none"] \in [Minutes -> {"none", "bad", "usdc", "usdt", "open"}]
  OBVIOUS
<1> QED
  BY <1>1, <1>2 DEF NoFill, FillType

\* The type invariant, in terms of FillType.
LEMMA Types ==
    PricesTypeOK <=>
    /\ clock \in Minutes
    /\ candle \in [{"usdc", "usdt"} -> [Minutes -> {"none", "good", "bad"}]]
    /\ rate \in [Minutes -> Rates]
    /\ fill \in [Fillers -> FillType]
    /\ spot \in Minutes \cup {Never}
    /\ valued \in [Priced -> [minute : Minutes \cup {Never}, basis : Rates, usd : Rates,
                              usdOf : Minutes \cup {Never}]]
  BY DEF PricesTypeOK, FillType

LEMMA TypesPrimed ==
    PricesTypeOK' <=>
    /\ clock' \in Minutes
    /\ candle' \in [{"usdc", "usdt"} -> [Minutes -> {"none", "good", "bad"}]]
    /\ rate' \in [Minutes -> Rates]
    /\ fill' \in [Fillers -> FillType]
    /\ spot' \in Minutes \cup {Never}
    /\ valued' \in [Priced -> [minute : Minutes \cup {Never}, basis : Rates, usd : Rates,
                              usdOf : Minutes \cup {Never}]]
  BY DEF PricesTypeOK, FillType

\* A step of one fill that leaves its record true keeps the invariant.
LEMMA OneFill ==
    ASSUME PricesOK, NEW f \in Fillers, NEW q \in FillType,
           fill' = [fill EXCEPT ![f] = q], UNCHANGED <<clock, candle, rate, spot, valued>>,
           q.step # "idle" => Honest(q) /\ Stored(q)
    PROVE  PricesOK'
<1>1. PricesTypeOK'
  BY Types, TypesPrimed DEF PricesOK
<1>2. fill \in [Fillers -> FillType]
  BY Types DEF PricesOK
<1>3. ASSUME NEW g \in Fillers, fill'[g].step # "idle"
      PROVE  Honest(fill'[g]) /\ Stored(fill'[g])
  <2>1. CASE g = f
    BY <1>2, <1>3, <2>1
  <2>2. CASE g # f
    BY <1>2, <1>3, <2>2 DEF PricesOK, FillsOK
  <2> QED
    BY <2>1, <2>2
<1>4. FillsOK'
  BY <1>3 DEF FillsOK, Honest, Stored, OfUsdc
<1>5. RatesOK' /\ ValuedOK'
  BY DEF PricesOK, RatesOK, ValuedOK
<1> QED
  BY <1>1, <1>4, <1>5 DEF PricesOK

\* Leaving a book changes where the fill reads and nothing of what it has.
LEMMA LeaveKeeps ==
    ASSUME NEW r \in FillType, r.step \in {"usdc", "usdt"}, r.from <= r.to
    PROVE  LET q == Leave(r) IN
           /\ q \in FillType
           /\ q.from = r.from /\ q.to = r.to /\ q.got = r.got /\ q.cut = r.cut
           /\ q.step \in {"usdt", "write"}
           /\ q.step = "usdt" => ~r.cut /\ q.end <= r.to /\ r.from <= q.cursor
           /\ q.step = "write" => q.end = r.end /\ q.cursor = r.cursor
<1>1. /\ r.from \in Minutes /\ r.to \in Minutes /\ r.end \in Minutes
      /\ r.got \in [Minutes -> {"none", "bad", "usdc", "usdt", "open"}] /\ r.cut \in BOOLEAN
      /\ r.cursor \in 0 .. LastMinute + 1 /\ r.requests \in 0 .. MaxRequests
  BY DEF FillType
<1>2. CASE AsksFallback(r)
  <2>1. Gaps(r) # {} /\ ~r.cut
    BY <1>2 DEF AsksFallback
  <2>2. \A m \in Gaps(r) : m \in Minutes /\ r.from <= m /\ m <= r.to
    BY <1>1, PriceAssumption DEF Gaps, Minutes
  <2>3. /\ Min(Gaps(r)) \in Minutes /\ r.from <= Min(Gaps(r))
        /\ Max(Gaps(r)) \in Minutes /\ Max(Gaps(r)) <= r.to
    <3>1. Gaps(r) \subseteq Minutes
      BY <2>2
    <3> QED
      BY <2>1, <2>2, <3>1, MaxMin
  <2>4. Leave(r) = [r EXCEPT !.step = "usdt", !.cursor = Min(Gaps(r)), !.end = Max(Gaps(r))]
    BY <1>2 DEF Leave
  <2>5. Min(Gaps(r)) \in 0 .. LastMinute + 1
    BY <2>3, PriceAssumption DEF Minutes
  <2> QED
    BY <1>1, <2>1, <2>3, <2>4, <2>5 DEF FillType
<1>3. CASE ~AsksFallback(r)
  <2>1. Leave(r) = [r EXCEPT !.step = "write"]
    BY <1>3 DEF Leave
  <2> QED
    BY <1>1, <2>1 DEF FillType
<1> QED
  BY <1>2, <1>3

\* What a session of paging holds of one fill.
LEMMA PagingOf ==
    ASSUME PricesOK, NEW f \in Fillers, Paging(f)
    PROVE  /\ fill[f] \in FillType /\ fill[f].step \in {"usdc", "usdt"} /\ Honest(fill[f])
           /\ clock \in Minutes
           /\ candle \in [{"usdc", "usdt"} -> [Minutes -> {"none", "good", "bad"}]]
  BY Types DEF PricesOK, FillsOK, Paging

LEMMA StartFillOK == ASSUME PricesOK, NEW f \in Fillers, StartFill(f) PROVE PricesOK'
<1>1. PICK from \in Minutes, to \in Minutes :
         /\ from <= ClosedEnd(to)
         /\ fill' = [fill EXCEPT ![f] = [NoFill EXCEPT !.step = "usdc", !.from = from, !.cursor = from,
                                                       !.to = ClosedEnd(to), !.end = ClosedEnd(to)]]
  BY DEF StartFill
<1>2. PICK q : q = [NoFill EXCEPT !.step = "usdc", !.from = from, !.cursor = from,
                                  !.to = ClosedEnd(to), !.end = ClosedEnd(to)]
  OBVIOUS
<1>3. /\ clock \in 0 .. LastMinute /\ from \in 0 .. LastMinute /\ to \in 0 .. LastMinute
      /\ LastMinute \in Nat /\ LastMinute # 0
  BY PriceAssumption, Types DEF PricesOK, Minutes
<1>4. ClosedEnd(to) \in 0 .. LastMinute /\ ClosedEnd(to) < clock
  BY <1>1, <1>3 DEF ClosedEnd
<1>5. /\ q.step = "usdc" /\ q.from = from /\ q.cursor = from /\ q.to = ClosedEnd(to)
      /\ q.end = ClosedEnd(to) /\ q.requests = 0 /\ q.cut = FALSE /\ q.got = [m \in Minutes |-> "none"]
      /\ q = [step |-> "usdc", from |-> from, to |-> ClosedEnd(to), cursor |-> from,
              end |-> ClosedEnd(to), requests |-> 0, got |-> [m \in Minutes |-> "none"], cut |-> FALSE]
  BY <1>2 DEF NoFill
<1>6. q \in FillType
  <2>1. from \in 0 .. LastMinute + 1 /\ 0 \in 0 .. MaxRequests
    BY <1>3, PriceAssumption
  <2>2. q.got \in [Minutes -> {"none", "bad", "usdc", "usdt", "open"}]
    BY <1>5
  <2> QED
    BY <1>3, <1>4, <1>5, <2>1, <2>2 DEF FillType, Minutes
<1>7. Honest(q) /\ Stored(q)
  BY <1>1, <1>3, <1>4, <1>5 DEF Honest, Stored
<1>8. UNCHANGED <<clock, candle, rate, spot, valued>>
  BY DEF StartFill
<1> QED
  BY <1>1, <1>2, <1>6, <1>7, <1>8, OneFill

\* A book that is left was read as far as it went, or the fill says it was cut off.
LEMMA LeaveOK ==
    ASSUME PricesOK, NEW f \in Fillers, NEW r \in FillType, Honest(r), r.step \in {"usdc", "usdt"},
           r.step = "usdc" =>
              \A m \in r.from .. r.to : m < r.cursor \/ candle["usdc"][m] = "none",
           fill' = [fill EXCEPT ![f] = Leave(r)], UNCHANGED <<clock, candle, rate, spot, valued>>
    PROVE  PricesOK'
<1>1. PICK q : q = Leave(r)
  OBVIOUS
<1>2. r.from <= r.to
  BY DEF Honest
<1>3. /\ q \in FillType
      /\ q.from = r.from /\ q.to = r.to /\ q.got = r.got /\ q.cut = r.cut
      /\ q.step \in {"usdt", "write"}
      /\ q.step = "usdt" => ~r.cut /\ q.end <= r.to /\ r.from <= q.cursor
      /\ q.step = "write" => q.end = r.end /\ q.cursor = r.cursor
  BY <1>1, <1>2, LeaveKeeps
<1>4. Honest(q) /\ Stored(q)
  <2>1. /\ q.from <= q.to /\ q.to < clock /\ q.end <= q.to /\ q.from <= q.cursor
        /\ q.step # "usdc" /\ (q.step = "usdt" => ~q.cut)
    BY <1>3 DEF Honest
  <2>2. \A m \in Minutes :
          /\ q.got[m] # "open"
          /\ q.got[m] = "usdc" => m < clock /\ candle["usdc"][m] = "good"
          /\ q.got[m] = "usdt" => m < clock /\ candle["usdc"][m] = "none" /\ candle["usdt"][m] = "good"
    BY <1>3 DEF Honest
  <2>3. ASSUME ~q.cut, NEW m \in q.from .. q.to, candle["usdc"][m] # "none"
        PROVE  q.got[m] = OfUsdc(m)
    BY <1>3, <2>3 DEF Honest
  <2> QED
    BY <1>3, <2>1, <2>2, <2>3 DEF Honest, Stored
<1> QED
  BY <1>1, <1>3, <1>4, OneFill

\* A book that is cut off says so, unless it was the other one.
LEMMA CutOK ==
    ASSUME PricesOK, NEW f \in Fillers, NEW r \in FillType, Honest(r), r.step \in {"usdc", "usdt"},
           fill' = [fill EXCEPT ![f] = Cut(r)], UNCHANGED <<clock, candle, rate, spot, valued>>
    PROVE  PricesOK'
<1>1. PICK p : p = [r EXCEPT !.cut = @ \/ r.step = "usdc"]
  OBVIOUS
<1>2. /\ p \in FillType /\ p.step = r.step /\ p.from = r.from /\ p.to = r.to /\ p.end = r.end
      /\ p.cursor = r.cursor /\ p.got = r.got /\ p.cut = (r.cut \/ r.step = "usdc")
  BY <1>1 DEF FillType
<1>3. fill' = [fill EXCEPT ![f] = Leave(p)]
  BY <1>1 DEF Cut
<1>4. PICK q : q = Leave(p)
  OBVIOUS
<1>5. p.from <= p.to
  BY <1>2 DEF Honest
<1>6. /\ q \in FillType
      /\ q.from = r.from /\ q.to = r.to /\ q.got = r.got /\ q.cut = (r.cut \/ r.step = "usdc")
      /\ q.step \in {"usdt", "write"}
      /\ q.step = "usdt" => ~q.cut /\ q.end <= r.to /\ r.from <= q.cursor
      /\ q.step = "write" => q.end = r.end /\ q.cursor = r.cursor
  BY <1>2, <1>4, <1>5, LeaveKeeps
<1>7. Honest(q) /\ Stored(q)
  <2>1. \A m \in Minutes :
          /\ q.got[m] # "open"
          /\ q.got[m] = "usdc" => m < clock /\ candle["usdc"][m] = "good"
          /\ q.got[m] = "usdt" => m < clock /\ candle["usdc"][m] = "none" /\ candle["usdt"][m] = "good"
    BY <1>6 DEF Honest
  <2>2. ASSUME ~q.cut, NEW m \in q.from .. q.to, candle["usdc"][m] # "none"
        PROVE  q.got[m] = OfUsdc(m)
    BY <1>6, <2>2 DEF Honest
  <2>3. /\ q.from <= q.to /\ q.to < clock /\ q.end <= q.to /\ q.from <= q.cursor
        /\ q.step # "usdc" /\ (q.step = "usdt" => ~q.cut)
    BY <1>6 DEF Honest
  <2> QED
    BY <1>6, <2>1, <2>2, <2>3 DEF Honest, Stored
<1> QED
  BY <1>3, <1>4, <1>6, <1>7, OneFill

\* One more request changes nothing of what a fill has.
LEMMA Counted ==
    ASSUME NEW r \in FillType, r.requests < MaxRequests, Honest(r), r.step \in {"usdc", "usdt"}
    PROVE  LET q == [r EXCEPT !.requests = @ + 1] IN
           /\ q \in FillType /\ q.step = r.step /\ q.from = r.from /\ q.to = r.to /\ q.cursor = r.cursor
           /\ Honest(q)
<1>1. PICK q : q = [r EXCEPT !.requests = @ + 1]
  OBVIOUS
<1>2. /\ q \in FillType /\ q.step = r.step /\ q.from = r.from /\ q.to = r.to /\ q.end = r.end
      /\ q.cursor = r.cursor /\ q.got = r.got /\ q.cut = r.cut
  BY <1>1, PriceAssumption DEF FillType
<1>3. Honest(q)
  BY <1>2 DEF Honest
<1> QED
  BY <1>1, <1>2, <1>3

LEMMA EndBookOK == ASSUME PricesOK, NEW f \in Fillers, EndBook(f) PROVE PricesOK'
<1> DEFINE r == fill[f]
<1>1. /\ r \in FillType /\ r.step \in {"usdc", "usdt"} /\ Honest(r)
      /\ clock \in Minutes
      /\ candle \in [{"usdc", "usdt"} -> [Minutes -> {"none", "good", "bad"}]]
  BY PagingOf DEF EndBook
<1>2. UNCHANGED <<clock, candle, rate, spot, valued>>
  BY DEF EndBook
<1>3. r.end \in Int /\ r.cursor \in Int /\ r.to \in Int /\ r.from \in Int /\ r.to \in Minutes /\ r.from \in Minutes
  BY <1>1, PriceAssumption DEF FillType, Minutes
<1>4. CASE ~InRange(r) /\ fill' = [fill EXCEPT ![f] = Leave(r)]
  <2>1. r.step = "usdc" => \A m \in r.from .. r.to : m < r.cursor \/ candle["usdc"][m] = "none"
    BY <1>1, <1>3, <1>4 DEF Honest, InRange
  <2> HIDE DEF r
  <2> QED
    BY <1>1, <1>2, <1>4, <2>1, LeaveOK
<1>5. CASE fill' = [fill EXCEPT ![f] = Cut(r)]
  <2> HIDE DEF r
  <2> QED
    BY <1>1, <1>2, <1>5, CutOK
<1>6. CASE /\ r.requests < MaxRequests /\ Candles(r) = {}
           /\ fill' = [fill EXCEPT ![f] = Leave([r EXCEPT !.requests = @ + 1])]
  <2>1. PICK q : q = [r EXCEPT !.requests = @ + 1]
    OBVIOUS
  <2>2. /\ q \in FillType /\ q.step = r.step /\ q.from = r.from /\ q.to = r.to /\ q.cursor = r.cursor
        /\ Honest(q)
    BY <1>1, <1>6, <2>1, Counted
  <2>3. ASSUME q.step = "usdc", NEW m \in q.from .. q.to, ~(m < q.cursor)
        PROVE  candle["usdc"][m] = "none"
    <3>1. r.step = "usdc" /\ m \in r.cursor .. r.end /\ m < clock /\ clock \in Int /\ m \in Minutes
      BY <1>1, <1>3, <2>2, <2>3, PriceAssumption DEF Honest, Minutes
    <3>2. Answer("usdc", m) = "none"
      BY <1>6, <3>1 DEF Candles
    <3> QED
      BY <1>1, <3>1, <3>2 DEF Answer
  <2> HIDE DEF r
  <2> QED
    BY <1>1, <1>2, <1>6, <2>1, <2>2, <2>3, LeaveOK
<1> QED
  BY <1>4, <1>5, <1>6 DEF EndBook

LEMMA RefusePageOK == ASSUME PricesOK, NEW f \in Fillers, RefusePage(f) PROVE PricesOK'
<1>1. /\ fill[f] \in FillType /\ fill[f].step \in {"usdc", "usdt"} /\ Honest(fill[f])
      /\ fill[f].requests < MaxRequests
  BY PagingOf DEF RefusePage
<1>2. PICK q : q = [fill[f] EXCEPT !.requests = @ + 1]
  OBVIOUS
<1>3. q \in FillType /\ q.step \in {"usdc", "usdt"} /\ Honest(q)
  BY <1>1, <1>2, Counted
<1>4. fill' = [fill EXCEPT ![f] = Cut(q)] /\ UNCHANGED <<clock, candle, rate, spot, valued>>
  BY <1>2 DEF RefusePage
<1> QED
  BY <1>3, <1>4, CutOK

LEMMA TakePageOK == ASSUME PricesOK, NEW f \in Fillers, TakePage(f) PROVE PricesOK'
<1> DEFINE r == fill[f]
<1>1. /\ r \in FillType /\ r.step \in {"usdc", "usdt"} /\ Honest(r)
      /\ clock \in Minutes
      /\ candle \in [{"usdc", "usdt"} -> [Minutes -> {"none", "good", "bad"}]]
  BY PagingOf DEF TakePage
<1>2. /\ r.requests < MaxRequests /\ UNCHANGED <<clock, candle, rate, spot, valued>>
  BY DEF TakePage
<1>3. PICK newest \in Candles(r) :
         fill' = [fill EXCEPT ![f] =
                    [r EXCEPT !.requests = @ + 1, !.cursor = PastNewest(r, newest),
                              !.got = [m \in Minutes |->
                                         IF /\ m \in {n \in Candles(r) : n <= newest}
                                            /\ r.step = "usdc" \/ r.got[m] = "none"
                                         THEN Answer(r.step, m) ELSE r.got[m]]]]
  BY DEF TakePage
<1> DEFINE page == {n \in Candles(r) : n <= newest}
           kept == [m \in Minutes |-> IF m \in page /\ (r.step = "usdc" \/ r.got[m] = "none")
                                      THEN Answer(r.step, m) ELSE r.got[m]]
<1>4. PICK q : q = [r EXCEPT !.requests = @ + 1, !.cursor = PastNewest(r, newest), !.got = kept]
  OBVIOUS
<1>5. fill' = [fill EXCEPT ![f] = q]
  BY <1>3, <1>4
<1>6. /\ r.end \in 0 .. LastMinute /\ r.cursor \in 0 .. LastMinute + 1 /\ r.from \in 0 .. LastMinute
      /\ r.to \in 0 .. LastMinute /\ LastMinute \in Nat /\ clock \in 0 .. LastMinute
      /\ r.requests \in Nat /\ MaxRequests \in Nat
      /\ r.got \in [Minutes -> {"none", "bad", "usdc", "usdt", "open"}]
  BY <1>1, PriceAssumption DEF FillType, Minutes
<1>7. newest \in r.cursor .. r.end /\ r.end <= r.to /\ r.to < clock /\ r.from <= r.cursor
  BY <1>1, <1>3 DEF Candles, Honest
<1>8. \A m \in page : /\ m \in Minutes /\ m \in r.cursor .. r.end /\ m < clock /\ m <= newest
                      /\ Answer(r.step, m) # "none"
  BY <1>6, <1>7 DEF Candles, Minutes
<1>9. \A m \in page : /\ Answer(r.step, m) \in {"usdc", "usdt", "bad"}
                      /\ r.step = "usdc" => Answer(r.step, m) = OfUsdc(m)
                      /\ Answer(r.step, m) = "usdc" => r.step = "usdc" /\ candle["usdc"][m] = "good"
                      /\ Answer(r.step, m) = "usdt" => r.step = "usdt" /\ candle["usdt"][m] = "good"
  <2> SUFFICES ASSUME NEW m \in page
               PROVE  /\ Answer(r.step, m) \in {"usdc", "usdt", "bad"}
                      /\ r.step = "usdc" => Answer(r.step, m) = OfUsdc(m)
                      /\ Answer(r.step, m) = "usdc" => r.step = "usdc" /\ candle["usdc"][m] = "good"
                      /\ Answer(r.step, m) = "usdt" => r.step = "usdt" /\ candle["usdt"][m] = "good"
    OBVIOUS
  <2>1. m \in Minutes /\ m < clock /\ Answer(r.step, m) # "none" /\ m \in Int /\ clock \in Int
    BY <1>6, <1>8 DEF Minutes
  <2>2. Answer(r.step, m) = IF candle[r.step][m] = "good" THEN r.step ELSE candle[r.step][m]
    BY <2>1 DEF Answer
  <2>3. candle[r.step][m] \in {"none", "good", "bad"}
    BY <1>1, <2>1
  <2> QED
    BY <1>1, <2>1, <2>2, <2>3 DEF OfUsdc
<1> HIDE DEF page
<1>10. kept \in [Minutes -> {"none", "bad", "usdc", "usdt", "open"}]
  BY <1>6, <1>9
<1>11. \A m \in Minutes : kept[m] = IF m \in page /\ (r.step = "usdc" \/ r.got[m] = "none")
                                    THEN Answer(r.step, m) ELSE r.got[m]
  OBVIOUS
<1> HIDE DEF kept
<1>12. /\ q.step = r.step /\ q.from = r.from /\ q.to = r.to /\ q.end = r.end /\ q.cut = r.cut
       /\ q.got = kept /\ q.cursor = newest + 1 /\ q.requests = r.requests + 1
  BY <1>1, <1>4 DEF FillType, PastNewest
<1>13. q \in FillType
  <2>1. newest + 1 \in 0 .. LastMinute + 1 /\ r.requests + 1 \in 0 .. MaxRequests
    BY <1>2, <1>6, <1>7
  <2> QED
    BY <1>1, <1>4, <1>10, <2>1 DEF FillType, PastNewest
<1>14. \A m \in Minutes :
          /\ kept[m] # "open"
          /\ kept[m] = "usdc" => m < clock /\ candle["usdc"][m] = "good"
          /\ kept[m] = "usdt" => m < clock /\ candle["usdc"][m] = "none" /\ candle["usdt"][m] = "good"
  <2> SUFFICES ASSUME NEW m \in Minutes
               PROVE  /\ kept[m] # "open"
                      /\ kept[m] = "usdc" => m < clock /\ candle["usdc"][m] = "good"
                      /\ kept[m] = "usdt" => /\ m < clock /\ candle["usdc"][m] = "none"
                                             /\ candle["usdt"][m] = "good"
    OBVIOUS
  <2>1. CASE m \in page /\ (r.step = "usdc" \/ r.got[m] = "none")
    <3>1. kept[m] = Answer(r.step, m) /\ m < clock /\ m \in r.from .. r.to
      BY <1>6, <1>7, <1>8, <1>11, <2>1
    <3>2. r.step = "usdt" => ~r.cut /\ r.got[m] = "none"
      BY <1>1, <2>1 DEF Honest
    <3>3. r.step = "usdt" /\ candle["usdc"][m] # "none" => r.got[m] = OfUsdc(m)
      BY <1>1, <3>1, <3>2 DEF Honest
    <3>4. candle["usdc"][m] # "none" => OfUsdc(m) # "none"
      BY DEF OfUsdc
    <3>5. r.step = "usdt" => candle["usdc"][m] = "none"
      BY <3>2, <3>3, <3>4
    <3> QED
      BY <1>9, <2>1, <3>1, <3>5
  <2>2. CASE ~(m \in page /\ (r.step = "usdc" \/ r.got[m] = "none"))
    BY <1>1, <1>11, <2>2 DEF Honest
  <2> QED
    BY <2>1, <2>2
<1>15. ASSUME ~q.cut, NEW m \in q.from .. q.to, q.step = "usdc" => m < q.cursor,
              candle["usdc"][m] # "none"
       PROVE  q.got[m] = OfUsdc(m)
  <2>1. m \in Minutes /\ m \in r.from .. r.to /\ ~r.cut /\ m < clock /\ m \in Int
    BY <1>6, <1>7, <1>12, <1>15 DEF Minutes
  <2>2. CASE r.step = "usdc" /\ m \in page
    BY <1>9, <1>11, <1>12, <2>1, <2>2
  <2>3. CASE r.step = "usdc" /\ m \notin page
    <3>1. Answer("usdc", m) # "none" /\ m <= newest
      BY <1>6, <1>7, <1>12, <1>15, <2>1, <2>3 DEF Answer
    <3>2. m \notin r.cursor .. r.end
      BY <2>3, <3>1 DEF page, Candles
    <3>3. m < r.cursor
      BY <1>6, <1>7, <2>1, <3>1, <3>2
    <3> QED
      BY <1>1, <1>11, <1>12, <1>15, <2>1, <2>3, <3>3 DEF Honest
  <2>4. CASE r.step = "usdt"
    <3>1. r.got[m] = OfUsdc(m) /\ OfUsdc(m) # "none"
      BY <1>1, <1>15, <2>1, <2>4 DEF Honest, OfUsdc
    <3> QED
      BY <1>11, <1>12, <2>1, <2>4, <3>1
  <2> QED
    BY <1>1, <2>2, <2>3, <2>4
<1>16. Honest(q) /\ Stored(q)
  <2>1. /\ q.from <= q.to /\ q.to < clock /\ q.end <= q.to /\ q.from <= q.cursor
        /\ q.step = "usdc" => ~q.cut /\ q.end = q.to
        /\ q.step = "usdt" => ~q.cut
        /\ q.step # "done"
    BY <1>1, <1>6, <1>7, <1>12 DEF Honest
  <2> QED
    BY <1>12, <1>14, <1>15, <2>1 DEF Honest, Stored
<1> QED
  BY <1>2, <1>5, <1>13, <1>16, OneFill

LEMMA DropFillOK == ASSUME PricesOK, NEW f \in Fillers, DropFill(f) PROVE PricesOK'
  BY NoFillType, OneFill DEF DropFill

-----------------------------------------------------------------------------
(* The clock, the table and the trades.                                    *)

\* A candle that is kept changes nothing of the minutes before it.
LEMMA TickOK == ASSUME PricesOK, Tick PROVE PricesOK'
<1>1. PICK a \in {"none", "good", "bad"}, b \in {"none", "good", "bad"} :
         candle' = [candle EXCEPT !["usdc"][clock] = a, !["usdt"][clock] = b]
  BY DEF Tick
<1>2. /\ clock < LastMinute /\ clock' = clock + 1 /\ UNCHANGED <<rate, fill, spot, valued>>
      /\ clock \in 0 .. LastMinute /\ LastMinute \in Nat
      /\ candle \in [{"usdc", "usdt"} -> [Minutes -> {"none", "good", "bad"}]]
  BY PriceAssumption, Types DEF PricesOK, Tick, Minutes
<1>3. clock' \in Minutes
  BY <1>2 DEF Minutes
<1>4. candle' \in [{"usdc", "usdt"} -> [Minutes -> {"none", "good", "bad"}]]
  BY <1>1, <1>2
<1>5. \A m \in Minutes : m < clock => candle'["usdc"][m] = candle["usdc"][m]
                                      /\ candle'["usdt"][m] = candle["usdt"][m]
  <2> SUFFICES ASSUME NEW m \in Minutes, m < clock
               PROVE  candle'["usdc"][m] = candle["usdc"][m] /\ candle'["usdt"][m] = candle["usdt"][m]
    OBVIOUS
  <2>1. m # clock
    BY <1>2 DEF Minutes
  <2> QED
    BY <1>1, <1>2, <2>1
<1>6. PricesTypeOK'
  BY <1>2, <1>3, <1>4, Types, TypesPrimed DEF PricesOK
<1>7. RatesOK'
  BY <1>2, <1>5 DEF PricesOK, RatesOK, Minutes
<1>8. ValuedOK'
  BY <1>2 DEF PricesOK, ValuedOK
<1>9. FillsOK'
  <2> SUFFICES ASSUME NEW f \in Fillers, fill[f].step # "idle"
               PROVE  Honest(fill[f])' /\ Stored(fill[f])'
    BY <1>2 DEF FillsOK
  <2> DEFINE r == fill[f]
  <2>1. Honest(r) /\ Stored(r)
    BY DEF PricesOK, FillsOK
  <2>2. r \in FillType
    BY Types DEF PricesOK
  <2>3. r.from \in 0 .. LastMinute /\ r.to \in 0 .. LastMinute /\ r.to < clock
    BY <2>1, <2>2 DEF FillType, Honest, Minutes
  <2>4. r' = r
    BY <1>2
  <2>5. ASSUME NEW m \in Minutes
        PROVE  /\ r.got[m] # "open"
               /\ r.got[m] = "usdc" => m < clock' /\ candle'["usdc"][m] = "good"
               /\ r.got[m] = "usdt" => m < clock' /\ candle'["usdc"][m] = "none"
                                       /\ candle'["usdt"][m] = "good"
    BY <1>2, <1>5, <2>1, <2>5 DEF Honest, Minutes
  <2>6. ASSUME ~r.cut, NEW m \in r.from .. r.to, r.step = "usdc" => m < r.cursor,
               candle'["usdc"][m] # "none"
        PROVE  r.got[m] = OfUsdc(m)'
    <3>1. m \in Minutes /\ m < clock
      BY <1>2, <2>3, <2>6 DEF Minutes
    <3>2. candle'["usdc"][m] = candle["usdc"][m]
      BY <1>5, <3>1
    <3>3. r.got[m] = OfUsdc(m)
      BY <2>1, <2>6, <3>2 DEF Honest
    <3> QED
      BY <3>2, <3>3 DEF OfUsdc
  <2>7. /\ r.from <= r.to /\ r.to < clock' /\ r.end <= r.to /\ r.from <= r.cursor
        /\ r.step = "usdc" => ~r.cut /\ r.end = r.to
        /\ r.step = "usdt" => ~r.cut
    BY <1>2, <2>1, <2>3 DEF Honest
  <2>8. Stored(r)'
    BY <1>2, <2>1, <2>4 DEF Stored
  <2> HIDE DEF r
  <2>9. Honest(r)'
    BY <2>4, <2>5, <2>6, <2>7 DEF Honest
  <2> QED
    BY <2>8, <2>9 DEF r
<1> QED
  BY <1>6, <1>7, <1>8, <1>9 DEF PricesOK

\* A table whose rates stand leaves what is true of trades and of fills.
LEMMA RatesStand ==
    ASSUME PricesOK, rate' \in [Minutes -> Rates], UNCHANGED <<clock, candle, valued>>,
           \A m \in Minutes : rate[m] # "none" => rate'[m] = rate[m]
    PROVE  /\ ValuedOK'
           /\ \A f \in Fillers : fill[f].step # "idle" =>
                 /\ Honest(fill[f])
                 /\ fill[f].step = "done" =>
                      \A m \in fill[f].from .. fill[f].to : fill[f].got[m] = "usdc" => rate'[m] # "none"
<1>1. ValuedOK'
  <2> SUFFICES ASSUME NEW t \in Priced
               PROVE  LET v == valued[t] IN
                      /\ v.basis # "none" => /\ v.minute \in Minutes /\ v.basis = rate'[v.minute]
                                             /\ v.usdOf = v.minute /\ v.usd # "none"
                      /\ v.usd # "none" => /\ v.usdOf \in Minutes /\ v.usdOf <= v.minute
                                           /\ v.usd = rate'[v.usdOf]
    BY DEF ValuedOK
  <2> QED
    BY DEF PricesOK, ValuedOK
<1>2. ASSUME NEW f \in Fillers, fill[f].step # "idle"
      PROVE  /\ Honest(fill[f])
             /\ fill[f].step = "done" =>
                  \A m \in fill[f].from .. fill[f].to : fill[f].got[m] = "usdc" => rate'[m] # "none"
  <2>1. Honest(fill[f]) /\ Stored(fill[f])
    BY <1>2 DEF PricesOK, FillsOK
  <2>2. fill[f].from \in Minutes /\ fill[f].to \in Minutes
    BY Types DEF PricesOK, FillType
  <2>3. \A m \in fill[f].from .. fill[f].to : m \in Minutes
    BY <2>2, PriceAssumption DEF Minutes
  <2> QED
    BY <2>1, <2>3 DEF Stored
<1> QED
  BY <1>1, <1>2

LEMMA WriteFillOK == ASSUME PricesOK, NEW f \in Fillers, WriteFill(f) PROVE PricesOK'
<1>1. /\ fill[f].step = "write"
      /\ rate' = [m \in Minutes |-> KeepFirst(rate[m], Readable(fill[f].got[m]))]
      /\ fill' = [fill EXCEPT ![f].step = "done"]
      /\ UNCHANGED <<clock, candle, spot, valued>>
  BY DEF WriteFill
<1>2. /\ fill \in [Fillers -> FillType] /\ fill[f] \in FillType /\ rate \in [Minutes -> Rates]
  BY Types DEF PricesOK
<1>3. Honest(fill[f]) /\ fill[f].got \in [Minutes -> {"none", "bad", "usdc", "usdt", "open"}]
  BY <1>1, <1>2 DEF PricesOK, FillsOK, FillType
<1>4. \A m \in Minutes :
         rate'[m] = IF rate[m] # "none" THEN rate[m]
                    ELSE IF fill[f].got[m] = "bad" THEN "none" ELSE fill[f].got[m]
  BY <1>1 DEF KeepFirst, Readable
<1>5. rate' \in [Minutes -> Rates]
  BY <1>1, <1>2, <1>3 DEF KeepFirst, Readable, Rates
<1>6. PICK q : q = [fill[f] EXCEPT !.step = "done"]
  OBVIOUS
<1>7. /\ q \in FillType /\ q.step = "done" /\ q.from = fill[f].from /\ q.to = fill[f].to
      /\ q.end = fill[f].end /\ q.cursor = fill[f].cursor /\ q.got = fill[f].got /\ q.cut = fill[f].cut
      /\ fill' = [fill EXCEPT ![f] = q]
  BY <1>1, <1>2, <1>6 DEF FillType
<1>8. PricesTypeOK'
  <2>1. fill' \in [Fillers -> FillType]
    BY <1>2, <1>7
  <2> QED
    BY <1>1, <1>5, <2>1, Types, TypesPrimed DEF PricesOK
<1>9. RatesOK'
  <2> SUFFICES ASSUME NEW m \in Minutes
               PROVE  /\ rate'[m] \in {"usdc", "usdt"} => m < clock
                      /\ rate'[m] = "usdt" => candle["usdc"][m] = "none" /\ candle["usdt"][m] = "good"
                      /\ rate'[m] = "usdc" => candle["usdc"][m] = "good"
                      /\ rate'[m] # "open"
    BY <1>1 DEF RatesOK
  <2>1. CASE rate[m] # "none"
    BY <1>4, <2>1 DEF PricesOK, RatesOK
  <2>2. CASE rate[m] = "none"
    BY <1>3, <1>4, <2>2 DEF Honest
  <2> QED
    BY <2>1, <2>2
<1>10. /\ ValuedOK'
       /\ \A g \in Fillers : fill[g].step # "idle" =>
             /\ Honest(fill[g])
             /\ fill[g].step = "done" =>
                  \A m \in fill[g].from .. fill[g].to : fill[g].got[m] = "usdc" => rate'[m] # "none"
  BY <1>1, <1>4, <1>5, RatesStand
<1>11. ASSUME NEW g \in Fillers, fill'[g].step # "idle"
       PROVE  /\ Honest(fill'[g])
              /\ fill'[g].step = "done" =>
                   \A m \in fill'[g].from .. fill'[g].to : fill'[g].got[m] = "usdc" => rate'[m] # "none"
  <2>1. CASE g = f
    <3>1. fill'[g] = q
      BY <1>2, <1>7, <2>1
    <3>2. Honest(q)
      BY <1>3, <1>7, <1>1 DEF Honest
    <3>3. \A m \in q.from .. q.to : m \in Minutes
      BY <1>7, PriceAssumption DEF FillType, Minutes
    <3>4. \A m \in q.from .. q.to : q.got[m] = "usdc" => rate'[m] # "none"
      BY <1>4, <1>7, <3>3
    <3> QED
      BY <3>1, <3>2, <3>4
  <2>2. CASE g # f
    <3>1. fill'[g] = fill[g]
      BY <1>2, <1>7, <2>2
    <3> QED
      BY <1>10, <1>11, <3>1
  <2> QED
    BY <2>1, <2>2
<1>12. FillsOK'
  BY <1>1, <1>11 DEF FillsOK, Honest, Stored, OfUsdc
<1> QED
  BY <1>8, <1>9, <1>10, <1>12 DEF PricesOK

LEMMA AskSpotOK == ASSUME PricesOK, AskSpot PROVE PricesOK'
<1>1. spot' = clock /\ UNCHANGED <<clock, candle, rate, fill, valued>>
  BY DEF AskSpot
<1>2. PricesTypeOK'
  BY <1>1, Types, TypesPrimed DEF PricesOK
<1>3. FillsOK'
  BY <1>1 DEF PricesOK, FillsOK, Honest, Stored, OfUsdc
<1>4. RatesOK' /\ ValuedOK'
  BY <1>1 DEF PricesOK, RatesOK, ValuedOK
<1> QED
  BY <1>2, <1>3, <1>4 DEF PricesOK

LEMMA StoreSpotOK == ASSUME PricesOK, StoreSpot PROVE PricesOK'
<1>1. /\ spot # Never /\ rate' \in {rate, [rate EXCEPT ![spot] = KeepFirst(@, "spot")]}
      /\ spot' = Never /\ UNCHANGED <<clock, candle, fill, valued>>
  BY DEF StoreSpot
<1>2. spot \in Minutes /\ rate \in [Minutes -> Rates]
  BY <1>1, Types DEF PricesOK
<1>3. \A m \in Minutes : rate'[m] = rate[m] \/ (rate[m] = "none" /\ rate'[m] = "spot")
  BY <1>1, <1>2 DEF KeepFirst
<1>4. rate' \in [Minutes -> Rates]
  BY <1>1, <1>2 DEF KeepFirst, Rates
<1>5. PricesTypeOK'
  BY <1>1, <1>4, Types, TypesPrimed DEF PricesOK
<1>6. RatesOK'
  BY <1>1, <1>3 DEF PricesOK, RatesOK
<1>7. /\ ValuedOK'
      /\ \A g \in Fillers : fill[g].step # "idle" =>
            /\ Honest(fill[g])
            /\ fill[g].step = "done" =>
                 \A m \in fill[g].from .. fill[g].to : fill[g].got[m] = "usdc" => rate'[m] # "none"
  BY <1>1, <1>3, <1>4, RatesStand
<1>8. FillsOK'
  BY <1>1, <1>7 DEF FillsOK, Honest, Stored, OfUsdc
<1> QED
  BY <1>5, <1>6, <1>7, <1>8 DEF PricesOK

\* One trade's valuation changes, to one that is of the table.
LEMMA OneTrade ==
    ASSUME PricesOK, NEW t \in Priced, UNCHANGED <<clock, candle, rate, fill, spot>>,
           NEW v \in [minute : Minutes \cup {Never}, basis : Rates, usd : Rates,
                      usdOf : Minutes \cup {Never}],
           valued' = [valued EXCEPT ![t] = v],
           v.basis # "none" => /\ v.minute \in Minutes /\ v.basis = rate[v.minute]
                               /\ v.usdOf = v.minute /\ v.usd # "none",
           v.usd # "none" => v.usdOf \in Minutes /\ v.usdOf <= v.minute /\ v.usd = rate[v.usdOf]
    PROVE  PricesOK'
<1>1. PricesTypeOK'
  <2>1. valued \in [Priced -> [minute : Minutes \cup {Never}, basis : Rates, usd : Rates,
                               usdOf : Minutes \cup {Never}]]
    BY Types DEF PricesOK
  <2>2. valued' \in [Priced -> [minute : Minutes \cup {Never}, basis : Rates, usd : Rates,
                                usdOf : Minutes \cup {Never}]]
    BY <2>1
  <2> QED
    BY <2>2, Types, TypesPrimed DEF PricesOK
<1>2. FillsOK'
  BY DEF PricesOK, FillsOK, Honest, Stored, OfUsdc
<1>3. RatesOK'
  BY DEF PricesOK, RatesOK
<1>4. ValuedOK'
  <2>1. \A s \in Priced : valued'[s] = IF s = t THEN v ELSE valued[s]
    BY Types DEF PricesOK
  <2> QED
    BY <2>1 DEF PricesOK, ValuedOK
<1> QED
  BY <1>1, <1>2, <1>3, <1>4 DEF PricesOK

LEMMA InsertInSolOK == ASSUME PricesOK, NEW t \in Priced, InsertInSol(t) PROVE PricesOK'
<1>1. PICK m \in 0 .. clock :
         valued' = [valued EXCEPT ![t] = [NoTrade EXCEPT !.minute = m, !.usdOf = LastRated(m),
                                                         !.usd = RateOf(LastRated(m))]]
  BY DEF InsertInSol
<1>2. UNCHANGED <<clock, candle, rate, fill, spot>>
  BY DEF InsertInSol
<1>3. m \in Minutes /\ rate \in [Minutes -> Rates] /\ m \in Int
  BY <1>1, PriceAssumption, Types DEF PricesOK, Minutes
<1>4. LastRated(m) = Never \/ (LastRated(m) \in 0 .. m /\ rate[LastRated(m)] # "none")
  BY <1>3, LastRatedIs
<1>5. LastRated(m) \in Minutes \cup {Never} /\ (LastRated(m) # Never => LastRated(m) <= m)
  BY <1>3, <1>4, PriceAssumption DEF Minutes
<1>6. PICK last : last = LastRated(m)
  OBVIOUS
<1>7. PICK v : v = [NoTrade EXCEPT !.minute = m, !.usdOf = last, !.usd = RateOf(last)]
  OBVIOUS
<1>8. v.minute = m /\ v.basis = "none" /\ v.usd = RateOf(last) /\ v.usdOf = last
      /\ v = [minute |-> m, basis |-> "none", usd |-> RateOf(last), usdOf |-> last]
  BY <1>7 DEF NoTrade
<1>9. RateOf(last) \in Rates /\ (RateOf(last) # "none" => last \in Minutes /\ RateOf(last) = rate[last] /\ last <= m)
  BY <1>3, <1>5, <1>6 DEF RateOf, Rates
<1>10. v \in [minute : Minutes \cup {Never}, basis : Rates, usd : Rates, usdOf : Minutes \cup {Never}]
  BY <1>3, <1>5, <1>6, <1>8, <1>9 DEF Rates
<1>11. valued' = [valued EXCEPT ![t] = v]
  BY <1>1, <1>6, <1>7
<1> QED
  BY <1>2, <1>8, <1>9, <1>10, <1>11, OneTrade

LEMMA InsertInStableOK == ASSUME PricesOK, NEW t \in Priced, InsertInStable(t) PROVE PricesOK'
<1>1. PICK m \in 0 .. clock :
         /\ rate[m] # "none"
         /\ valued' = [valued EXCEPT ![t] = [minute |-> m, basis |-> rate[m],
                                             usd |-> RateOf(LastRated(m)), usdOf |-> LastRated(m)]]
  BY DEF InsertInStable
<1>2. UNCHANGED <<clock, candle, rate, fill, spot>>
  BY DEF InsertInStable
<1>3. m \in Minutes /\ rate \in [Minutes -> Rates] /\ m \in Int /\ m # Never /\ m <= m
  BY <1>1, PriceAssumption, Types DEF PricesOK, Minutes, Never
<1>4. LastRated(m) = m /\ RateOf(LastRated(m)) = rate[m]
  BY <1>1, <1>3, LastRatedIs DEF RateOf
<1>5. PICK v : v = [minute |-> m, basis |-> rate[m], usd |-> rate[m], usdOf |-> m]
  OBVIOUS
<1>6. /\ v \in [minute : Minutes \cup {Never}, basis : Rates, usd : Rates, usdOf : Minutes \cup {Never}]
      /\ v.minute = m /\ v.basis = rate[m] /\ v.usd = rate[m] /\ v.usdOf = m
  BY <1>3, <1>5
<1>7. valued' = [valued EXCEPT ![t] = v]
  BY <1>1, <1>4, <1>5
<1> QED
  BY <1>1, <1>2, <1>3, <1>6, <1>7, OneTrade

LEMMA PriceLaterOK == ASSUME PricesOK, NEW t \in Priced, PriceLater(t) PROVE PricesOK'
<1>1. PICK m : m = LastRated(valued[t].minute)
  OBVIOUS
<1>2. /\ valued[t].minute # Never /\ valued[t].usd = "none" /\ m # Never
      /\ valued' = [valued EXCEPT ![t].usdOf = m, ![t].usd = rate[m]]
      /\ UNCHANGED <<clock, candle, rate, fill, spot>>
  BY <1>1 DEF PriceLater
<1>3. /\ valued \in [Priced -> [minute : Minutes \cup {Never}, basis : Rates, usd : Rates,
                                usdOf : Minutes \cup {Never}]]
      /\ rate \in [Minutes -> Rates]
  BY Types DEF PricesOK
<1>4. valued[t].minute \in Minutes /\ valued[t].basis \in Rates
  BY <1>2, <1>3
<1>5. m \in 0 .. valued[t].minute
  BY <1>1, <1>2, <1>4, LastRatedIs
<1>6. m \in Minutes /\ m <= valued[t].minute
  BY <1>4, <1>5, PriceAssumption DEF Minutes
<1>7. valued[t].basis = "none"
  BY <1>2 DEF PricesOK, ValuedOK
<1>8. PICK v : v = [valued[t] EXCEPT !.usdOf = m, !.usd = rate[m]]
  OBVIOUS
<1>9. /\ v \in [minute : Minutes \cup {Never}, basis : Rates, usd : Rates, usdOf : Minutes \cup {Never}]
      /\ v.minute = valued[t].minute /\ v.basis = valued[t].basis /\ v.usd = rate[m] /\ v.usdOf = m
  BY <1>3, <1>6, <1>8
<1>10. valued' = [valued EXCEPT ![t] = v]
  BY <1>2, <1>3, <1>8
<1>11. v.basis = "none" /\ v.usdOf \in Minutes /\ v.usdOf <= v.minute /\ v.usd = rate[v.usdOf]
  BY <1>6, <1>7, <1>9
<1>12. UNCHANGED <<clock, candle, rate, fill, spot>>
  BY <1>2
<1> QED
  BY <1>9, <1>10, <1>11, <1>12, OneTrade

-----------------------------------------------------------------------------
(* The theorems.                                                           *)

LEMMA PricesBeginOK == PricesInit => PricesOK
<1> SUFFICES ASSUME PricesInit PROVE PricesOK
  OBVIOUS
<1>1. fill \in [Fillers -> FillType] /\ \A f \in Fillers : fill[f].step = "idle"
  BY NoFillType DEF PricesInit
<1>2. 0 \in Minutes /\ "none" \in Rates
  BY PriceAssumption DEF Minutes, Rates
<1>3. PricesTypeOK
  <2>1. candle \in [{"usdc", "usdt"} -> [Minutes -> {"none", "good", "bad"}]]
    BY DEF PricesInit
  <2>2. rate \in [Minutes -> Rates]
    BY <1>2 DEF PricesInit
  <2>3. valued \in [Priced -> [minute : Minutes \cup {Never}, basis : Rates, usd : Rates,
                               usdOf : Minutes \cup {Never}]]
    BY <1>2 DEF PricesInit, NoTrade
  <2>4. clock \in Minutes /\ spot \in Minutes \cup {Never}
    BY <1>2 DEF PricesInit
  <2> QED
    BY <1>1, <2>1, <2>2, <2>3, <2>4, Types
<1>4. FillsOK
  BY <1>1 DEF FillsOK
<1>5. RatesOK
  BY DEF RatesOK, PricesInit
<1>6. ValuedOK
  BY DEF ValuedOK, PricesInit, NoTrade
<1> QED
  BY <1>3, <1>4, <1>5, <1>6 DEF PricesOK

LEMMA PricesStepOK == PricesOK /\ [PricesNext]_priceVars => PricesOK'
<1> SUFFICES ASSUME PricesOK, [PricesNext]_priceVars PROVE PricesOK'
  OBVIOUS
<1>1. CASE UNCHANGED priceVars
  <2>1. UNCHANGED <<clock, candle, rate, fill, spot, valued>>
    BY <1>1 DEF priceVars
  <2>2. PricesTypeOK'
    BY <2>1, Types, TypesPrimed DEF PricesOK
  <2>3. FillsOK'
    BY <2>1 DEF PricesOK, FillsOK, Honest, Stored, OfUsdc
  <2>4. RatesOK' /\ ValuedOK'
    BY <2>1 DEF PricesOK, RatesOK, ValuedOK
  <2> QED
    BY <2>2, <2>3, <2>4 DEF PricesOK
<1>2. CASE Tick
  BY <1>2, TickOK
<1>3. CASE AskSpot
  BY <1>3, AskSpotOK
<1>4. CASE StoreSpot
  BY <1>4, StoreSpotOK
<1>5. ASSUME NEW f \in Fillers,
             StartFill(f) \/ EndBook(f) \/ RefusePage(f) \/ TakePage(f) \/ WriteFill(f) \/ DropFill(f)
      PROVE  PricesOK'
  BY <1>5, StartFillOK, EndBookOK, RefusePageOK, TakePageOK, WriteFillOK, DropFillOK
<1>6. ASSUME NEW t \in Priced, InsertInSol(t) \/ InsertInStable(t) \/ PriceLater(t)
      PROVE  PricesOK'
  BY <1>6, InsertInSolOK, InsertInStableOK, PriceLaterOK
<1> QED
  BY <1>1, <1>2, <1>3, <1>4, <1>5, <1>6 DEF PricesNext

LEMMA PricesStayOK == PricesSpec => []PricesOK
<1>1. PricesInit => PricesOK
  BY PricesBeginOK
<1>2. PricesOK /\ [PricesNext]_priceVars => PricesOK'
  BY PricesStepOK
<1> QED
  BY <1>1, <1>2, PTL DEF PricesSpec

\* Every reachable state of the series has its type (sol_price, trade, fillSolPriceMinutes).
THEOREM PricesTypeCorrect == PricesSpec => []PricesTypeOK
<1>1. PricesOK => PricesTypeOK
  BY DEF PricesOK
<1> QED
  BY <1>1, PricesStayOK, PTL

\* A minute has a USDT close only where the USDC book has no candle, and never the price
\* of a minute in progress (fillSolPriceMinutes), however fills and spot rates overlap.
THEOREM RatesOfTheirBook == PricesSpec => []RatesAreOfTheirBook
<1>1. PricesOK => RatesAreOfTheirBook
  BY DEF PricesOK, RatesOK, RatesAreOfTheirBook
<1> QED
  BY <1>1, PricesStayOK, PTL

\* The rate a trade was given stays the one of the table (insertTrade, backfillPrices).
THEOREM FollowTheTable == PricesSpec => []TradesFollowTheTable
<1>1. PricesOK => TradesFollowTheTable
  BY DEF PricesOK, ValuedOK, TradesFollowTheTable
<1> QED
  BY <1>1, PricesStayOK, PTL

\* A fill that does not say it was cut off leaves no minute with a USDC candle without
\* a rate (fetchKlineCloses, fillSolPriceMinutes), for any page size and request cap.
THEOREM WholeFill == PricesSpec => []FillIsWhole
<1>1. PricesOK => FillIsWhole
  <2> SUFFICES ASSUME PricesOK, NEW f \in Fillers, Reported(f), ~fill[f].cut,
                      NEW m \in fill[f].from .. fill[f].to, candle["usdc"][m] = "good"
               PROVE  rate[m] # "none"
    BY DEF FillIsWhole
  <2>1. fill[f].step = "done" /\ Honest(fill[f]) /\ Stored(fill[f])
    BY DEF PricesOK, FillsOK, Reported
  <2>2. fill[f].got[m] = "usdc"
    BY <2>1 DEF Honest, OfUsdc
  <2> QED
    BY <2>1, <2>2 DEF Stored
<1> QED
  BY <1>1, PricesStayOK, PTL

-----------------------------------------------------------------------------
(* Feed: any places, owners and pages, whatever is hidden or late.         *)

ReaderType == [newest : Places \cup {Start0}, tag : Tags0, shows : SUBSET Places,
               step : {"waiting", "asked", "probed"}, pages : 0 .. MaxPages, hidden : BOOLEAN]
AnswerType == [kind : {"none", "304", "200"}, page : SUBSET Places, more : BOOLEAN, tag : Tags0]

\* The answer has all that follows the cursor up to its last row, but for what came late,
\* and its rows have been read.
PageOK ==
    answer.page # {} =>
        /\ Max(answer.page) <= reach
        /\ \A p \in Listed : reader.newest < p /\ p <= Max(answer.page) /\ p \notin late => p \in answer.page

FeedOK ==
    /\ FeedTypeOK
    /\ NothingSkipped
    /\ reader.newest <= reach
    /\ PageOK

\* The type invariant, by its parts.
LEMMA FeedTypes ==
    FeedTypeOK <=>
        /\ inTable \subseteq Places /\ ownedBy \in [Places -> Owners] /\ public \subseteq Owners
        /\ reader \in ReaderType /\ answer \in AnswerType
        /\ handed \subseteq Places /\ late \subseteq Places /\ reach \in Places \cup {Start0}
  BY DEF FeedTypeOK, ReaderType, AnswerType

-----------------------------------------------------------------------------
(* Pages.                                                                  *)

LEMMA PlacesAre == Places \subseteq Nat /\ 0 \notin Places /\ IsFiniteSet(Places) /\ Places \subseteq Int
  BY FeedAssumption

\* Max and Min of some places, which may have no cursor among them.
LEMMA PlacesMaxMin ==
    ASSUME NEW S, S \subseteq Places \cup {Start0}, S # {}
    PROVE  /\ Max(S) \in S /\ Max(S) \in Nat /\ \A y \in S : y <= Max(S)
           /\ Min(S) \in S
<1>1. IsFiniteSet(S) /\ S \subseteq Int /\ S \subseteq Nat
  <2>1. IsFiniteSet(Places \cup {Start0})
    BY PlacesAre, FS_AddElement
  <2>2. IsFiniteSet(S)
    BY <2>1, FS_Subset
  <2> QED
    BY <2>2, PlacesAre DEF Start0
<1>2. \E x \in S : \A y \in S : x >= y
  BY <1>1, Greatest
<1>3. \E x \in S : \A y \in S : x =< y
  BY <1>1, Least
<1>4. Max(S) \in S /\ \A y \in S : Max(S) >= y
  BY <1>2 DEF Max
<1>5. Min(S) \in S
  BY <1>3 DEF Min
<1> QED
  BY <1>1, <1>4, <1>5

\* Whatever is before one of the first is one of the first.
LEMMA FirstIsDownward ==
    ASSUME NEW S, S \subseteq Places, NEW n \in Nat, NEW m \in First(S, n), NEW p \in S, p <= m
    PROVE  p \in First(S, n)
<1> DEFINE upTo(x) == {q \in S : q <= x}
<1>1. m \in S /\ Cardinality(upTo(m)) <= n
  BY DEF First
<1>2. p \in Nat /\ m \in Nat /\ S \subseteq Nat /\ IsFiniteSet(S)
  <2>1. IsFiniteSet(S)
    BY PlacesAre, FS_Subset
  <2> QED
    BY <1>1, <2>1, PlacesAre
<1>3. upTo(p) \subseteq upTo(m)
  <2>1. \A q \in S : q <= p => q <= m
    BY <1>2
  <2> QED
    BY <2>1
<1>4. IsFiniteSet(upTo(m))
  BY <1>2, FS_Subset
<1> HIDE DEF upTo
<1>5. Cardinality(upTo(p)) <= Cardinality(upTo(m)) /\ Cardinality(upTo(p)) \in Nat /\ Cardinality(upTo(m)) \in Nat
  <2>1. IsFiniteSet(upTo(p)) /\ Cardinality(upTo(p)) <= Cardinality(upTo(m))
    BY <1>3, <1>4, FS_Subset
  <2> QED
    BY <1>4, <2>1, FS_CardinalityType
<1>6. Cardinality(upTo(p)) <= n
  BY <1>1, <1>5
<1> QED
  BY <1>6 DEF First, upTo

LEMMA ListedIs == FeedTypeOK => Listed \subseteq inTable /\ Listed \subseteq Places
  BY DEF Listed, FeedTypeOK

LEMMA PageIs ==
    ASSUME FeedTypeOK, NEW since \in Places \cup {Start0}
    PROVE  /\ Page(since) \subseteq Places
           /\ since # Start0 => \A p \in Listed : since < p => \A m \in Page(since) : p <= m => p \in Page(since)
<1>1. Listed \subseteq Places /\ After(since) \subseteq Places /\ FeedPage \in Nat
  BY ListedIs, FeedAssumption DEF After
<1>2. Page(since) \subseteq Places
  BY <1>1 DEF Page, Newest, First
<1>3. ASSUME since # Start0, NEW p \in Listed, since < p, NEW m \in Page(since), p <= m
      PROVE  p \in Page(since)
  <2>1. p \in After(since)
    <3>1. since \in Nat /\ p \in Nat
      BY <1>1, PlacesAre DEF Start0
    <3> QED
      BY <1>3, <3>1 DEF After
  <2>2. Page(since) = First(After(since), FeedPage)
    BY <1>3 DEF Page
  <2> QED
    BY <1>1, <1>3, <2>1, <2>2, FirstIsDownward
<1> QED
  BY <1>2, <1>3

LEMMA TagIs ==
    ASSUME NEW since, NEW S, S \subseteq Places
    PROVE  TagOf(since, S) \in Tags0
<1>1. S # {} => Max(S) \in S /\ Min(S) \in S
  BY PlacesMaxMin
<1> QED
  BY <1>1 DEF TagOf, Tags0

LEMMA NoAnswerIs == NoAnswer \in AnswerType /\ NoAnswer.page = {}
  BY DEF NoAnswer, AnswerType, Tags0

-----------------------------------------------------------------------------
(* The steps.                                                              *)

LEMMA ReaderIs ==
    ASSUME FeedOK
    PROVE  /\ reader \in ReaderType /\ answer \in AnswerType /\ reader.tag \in Tags0 /\ answer.tag \in Tags0
           /\ reader.newest \in Places \cup {Start0} /\ reader.newest \in Nat
           /\ reach \in Places \cup {Start0} /\ reach \in Nat /\ reader.newest <= reach
           /\ reader.pages \in 0 .. MaxPages
<1>1. FeedTypeOK /\ reader.newest <= reach
  BY DEF FeedOK
<1>2. reader \in ReaderType /\ answer \in AnswerType /\ reach \in Places \cup {Start0}
  BY <1>1, FeedTypes
<1>3. reader.tag \in Tags0 /\ answer.tag \in Tags0 /\ reader.newest \in Places \cup {Start0} /\ reader.pages \in 0 .. MaxPages
  BY <1>2 DEF ReaderType, AnswerType
<1>4. \A x \in Places \cup {Start0} : x \in Nat
  BY PlacesAre DEF Start0
<1> QED
  BY <1>1, <1>2, <1>3, <1>4

LEMMA PagesAre == MaxPages \in Nat /\ 0 \in 0 .. MaxPages /\ 1 \in 0 .. MaxPages
  BY FeedAssumption

\* What is listed that was not before is late, if it is behind what was read.
LEMMA ListingGrows ==
    ASSUME FeedOK, UNCHANGED <<reader, answer, handed, reach>>, FeedTypeOK', late \subseteq late',
           \A p \in Listed' : p \in Listed \/ p \in late' \/ ~(p <= reach)
    PROVE  FeedOK'
<1> PICK M : M = Max(answer.page)
  OBVIOUS
<1> PICK K, l : K = Listed' /\ l = late'
  OBVIOUS
<1>1. K \subseteq Places /\ l \subseteq Places /\ late \subseteq l
  BY DEF Listed, FeedTypeOK
<1>2. \A p \in K : p \in Nat
  BY <1>1, PlacesAre
<1>3. reader.newest \in Nat /\ reach \in Nat /\ reader.newest <= reach
  BY ReaderIs
<1>4. \A p \in K : p <= reader.newest /\ p \notin l => p \in handed
  BY <1>1, <1>2, <1>3 DEF FeedOK, NothingSkipped
<1>5. answer.page # {} => /\ M <= reach /\ M \in Nat
                          /\ \A p \in Listed : reader.newest < p /\ p <= M /\ p \notin late => p \in answer.page
  <2>1. answer.page \subseteq Places \cup {Start0}
    BY FeedTypes DEF FeedOK, AnswerType
  <2> QED
    BY <2>1, PlacesMaxMin DEF FeedOK, PageOK
<1>6. answer.page # {} => \A p \in K : reader.newest < p /\ p <= M /\ p \notin l => p \in answer.page
  BY <1>1, <1>2, <1>3, <1>5
<1>7. NothingSkipped'
  BY <1>4 DEF NothingSkipped
<1>8. PageOK'
  BY <1>5, <1>6 DEF PageOK
<1> QED
  BY <1>3, <1>7, <1>8 DEF FeedOK

\* The reader and its answer change, and the cursor stays.
LEMMA CursorStays ==
    ASSUME FeedOK, NEW r \in ReaderType, r.newest = reader.newest, reader' = r,
           NEW a \in AnswerType, a.page = {} \/ a = answer, answer' = a,
           UNCHANGED <<inTable, ownedBy, public, handed, reach, late>>
    PROVE  FeedOK'
<1>1. FeedTypeOK'
  BY FeedTypes DEF FeedOK, FeedTypeOK, ReaderType, AnswerType
<1>2. Listed' = Listed
  BY DEF Listed
<1>3. NothingSkipped'
  BY <1>2 DEF FeedOK, NothingSkipped
<1>4. PageOK'
  BY <1>2 DEF FeedOK, PageOK
<1> QED
  BY <1>1, <1>3, <1>4 DEF FeedOK

LEMMA StoreOK == ASSUME FeedOK, NEW p \in Places, StoreTrade(p) PROVE FeedOK'
<1>1. FeedTypeOK'
  BY DEF FeedOK, FeedTypeOK, StoreTrade
<1>2. late \subseteq late'
  BY DEF StoreTrade
<1>3. ASSUME NEW q \in Listed' PROVE q \in Listed \/ q \in late' \/ ~(q <= reach)
  BY <1>3 DEF StoreTrade, Listed
<1> QED
  BY <1>1, <1>2, <1>3, ListingGrows DEF StoreTrade

LEMMA SuspendOK == ASSUME FeedOK, NEW k \in Owners, SuspendOwner(k) PROVE FeedOK'
<1>1. FeedTypeOK'
  BY DEF FeedOK, FeedTypeOK, SuspendOwner
<1>2. \A q \in Listed' : q \in Listed
  BY DEF SuspendOwner, Listed
<1> QED
  BY <1>1, <1>2, ListingGrows DEF SuspendOwner

LEMMA ReinstateOK == ASSUME FeedOK, NEW k \in Owners, Reinstate(k) PROVE FeedOK'
<1>1. FeedTypeOK'
  BY DEF FeedOK, FeedTypeOK, Reinstate
<1>2. late \subseteq late'
  BY DEF Reinstate
<1>3. ASSUME NEW q \in Listed' PROVE q \in Listed \/ q \in late' \/ ~(q <= reach)
  BY <1>3 DEF Reinstate, Listed
<1> QED
  BY <1>1, <1>2, <1>3, ListingGrows DEF Reinstate

LEMMA ProbeOK == ASSUME FeedOK, Probe PROVE FeedOK'
<1>1. CASE answer' = [NoAnswer EXCEPT !.kind = "304", !.tag = reader.tag] /\ UNCHANGED reader
  <2>1. PICK a : a = [NoAnswer EXCEPT !.kind = "304", !.tag = reader.tag]
    OBVIOUS
  <2>2. a \in AnswerType /\ a.page = {}
    BY <2>1, NoAnswerIs, ReaderIs DEF AnswerType
  <2> QED
    BY <1>1, <2>1, <2>2, ReaderIs, CursorStays DEF Probe
<1>2. CASE reader' = [reader EXCEPT !.step = "probed"] /\ UNCHANGED answer
  <2>1. PICK r : r = [reader EXCEPT !.step = "probed"]
    OBVIOUS
  <2>2. r \in ReaderType /\ r.newest = reader.newest
    BY <2>1, ReaderIs DEF ReaderType
  <2> QED
    BY <1>2, <2>1, <2>2, ReaderIs, CursorStays DEF Probe
<1> QED
  BY <1>1, <1>2 DEF Probe

LEMMA HideOK == ASSUME FeedOK, Hide PROVE FeedOK'
<1>1. PICK r : r = [reader EXCEPT !.hidden = ~reader.hidden]
  OBVIOUS
<1>2. r \in ReaderType /\ r.newest = reader.newest
  BY <1>1, ReaderIs DEF ReaderType
<1>3. reader' = r
  BY <1>1 DEF Hide
<1> QED
  BY <1>2, <1>3, ReaderIs, CursorStays DEF Hide

LEMMA PollOK == ASSUME FeedOK, Poll PROVE FeedOK'
<1>1. PICK r : r = [reader EXCEPT !.step = "asked", !.pages = 1]
  OBVIOUS
<1>2. r \in ReaderType /\ r.newest = reader.newest
  BY <1>1, ReaderIs, PagesAre DEF ReaderType
<1>3. reader' = r
  BY <1>1 DEF Poll
<1> QED
  BY <1>2, <1>3, ReaderIs, CursorStays DEF Poll

LEMMA LoseOK == ASSUME FeedOK, LoseAnswer PROVE FeedOK'
<1>1. PICK tag \in {reader.tag, answer.tag} :
         reader' = [reader EXCEPT !.step = "waiting", !.tag = tag, !.pages = 0]
  BY DEF LoseAnswer
<1>2. PICK r : r = [reader EXCEPT !.step = "waiting", !.tag = tag, !.pages = 0]
  OBVIOUS
<1>3. tag \in Tags0
  BY ReaderIs
<1>4. r \in ReaderType /\ r.newest = reader.newest
  BY <1>2, <1>3, ReaderIs, PagesAre DEF ReaderType
<1> QED
  BY <1>1, <1>2, <1>4, NoAnswerIs, CursorStays DEF LoseAnswer

\* A page has all that follows the cursor up to its last row; the opening one need not, and
\* what it leaves out is late.
LEMMA ReadOK == ASSUME FeedOK, ReadPage PROVE FeedOK'
<1>1. PICK page : page = Page(reader.newest)
  OBVIOUS
<1>2. PICK since : since = reader.newest
  OBVIOUS
<1>3. /\ page \subseteq Places /\ since \in Places \cup {Start0} /\ since \in Nat
      /\ since # Start0 => \A p \in Listed : since < p => \A m \in page : p <= m => p \in page
  BY <1>1, <1>2, ReaderIs, PageIs DEF FeedOK
<1>4. PICK more \in BOOLEAN : more = HasMore(since)
  BY DEF HasMore
<1>5. PICK a : a = [kind |-> "200", page |-> page, more |-> more, tag |-> TagOf(since, page)]
  OBVIOUS
<1>6. a \in AnswerType /\ a.page = page
  BY <1>3, <1>5, TagIs DEF AnswerType
<1>7. PICK r : r = [reader EXCEPT !.step = "asked"]
  OBVIOUS
<1>8. r \in ReaderType /\ r.newest = since
  BY <1>2, <1>7, ReaderIs DEF ReaderType
<1>9. /\ answer' = a /\ reader' = r /\ UNCHANGED <<inTable, ownedBy, public, handed>>
      /\ reach' = IF page = {} THEN reach ELSE Max(page \cup {reach})
      /\ late' = IF since = Start0 /\ page # {} THEN late \cup {p \in inTable \ page : p < Max(page)} ELSE late
  BY <1>1, <1>2, <1>4, <1>5, <1>7 DEF ReadPage
<1>10. page # {} => /\ Max(page) \in page /\ Max(page) \in Nat /\ \A y \in page : y <= Max(page)
  BY <1>3, PlacesMaxMin
<1>11. page # {} => /\ Max(page \cup {reach}) \in Places \cup {Start0}
                    /\ Max(page) <= Max(page \cup {reach}) /\ reach <= Max(page \cup {reach})
                    /\ Max(page \cup {reach}) \in Nat
  <2>1. page \cup {reach} \subseteq Places \cup {Start0} /\ page \cup {reach} # {}
    BY <1>3, ReaderIs
  <2>2. /\ Max(page \cup {reach}) \in page \cup {reach} /\ Max(page \cup {reach}) \in Nat
        /\ \A y \in page \cup {reach} : y <= Max(page \cup {reach})
    BY <2>1, PlacesMaxMin
  <2> QED
    BY <1>10, <2>1, <2>2
<1>12. late \subseteq late' /\ late' \subseteq Places
  BY <1>9 DEF FeedOK, FeedTypeOK
<1>13. reach <= reach' /\ reach' \in Places \cup {Start0} /\ reach' \in Nat /\ (page # {} => Max(page) <= reach')
  BY <1>9, <1>11, ReaderIs
<1>14. FeedTypeOK'
  BY <1>6, <1>8, <1>9, <1>12, <1>13 DEF FeedOK, FeedTypeOK, ReaderType, AnswerType
<1>15. Listed' = Listed /\ Listed \subseteq inTable /\ \A p \in Listed : p \in Nat
  BY <1>9, ListedIs, PlacesAre DEF Listed, FeedOK
<1>16. NothingSkipped'
  BY <1>2, <1>8, <1>9, <1>12, <1>15 DEF FeedOK, NothingSkipped
<1>17. ASSUME page # {}, NEW p \in Listed, since < p, p <= Max(page), p \notin late' PROVE p \in page
  <2>1. CASE since = Start0
    <3>1. p = Max(page) \/ p < Max(page)
      BY <1>10, <1>15, <1>17
    <3> QED
      BY <1>9, <1>10, <1>15, <1>17, <2>1, <3>1
  <2>2. CASE since # Start0
    BY <1>3, <1>10, <1>17, <2>2
  <2> QED
    BY <2>1, <2>2
<1>18. PageOK'
  BY <1>6, <1>8, <1>9, <1>13, <1>15, <1>17 DEF PageOK
<1>19. since <= reach'
  BY <1>2, <1>3, <1>13, ReaderIs DEF FeedOK
<1> QED
  BY <1>8, <1>9, <1>14, <1>16, <1>18, <1>19 DEF FeedOK

LEMMA ReceiveOK == ASSUME FeedOK, Receive PROVE FeedOK'
<1>1. PICK page : page = answer.page
  OBVIOUS
<1>2. page \subseteq Places
  BY <1>1, ReaderIs DEF AnswerType
<1>3. CASE page = {}
  <2>1. PICK r : r = [reader EXCEPT !.step = "waiting", !.tag = answer.tag, !.pages = 0]
    OBVIOUS
  <2>2. r \in ReaderType /\ r.newest = reader.newest
    BY <2>1, ReaderIs, PagesAre DEF ReaderType
  <2>3. reader' = r /\ UNCHANGED handed
    BY <1>1, <1>3, <2>1 DEF Receive
  <2> QED
    BY <2>2, <2>3, NoAnswerIs, CursorStays DEF Receive
<1>4. CASE page # {}
  <2>1. PICK top : top = Max(page)
    OBVIOUS
  <2>2. top \in Places /\ top \in Nat /\ top <= reach
    BY <1>1, <1>2, <1>4, <2>1, PlacesMaxMin DEF FeedOK, PageOK
  <2>3. PICK again \in BOOLEAN : again = (answer.more /\ reader.pages < MaxPages)
    OBVIOUS
  <2>4. PICK shows : shows = Newest(page \cup reader.shows, FeedPage)
    OBVIOUS
  <2>5. shows \subseteq Places
    BY <1>2, <2>4, ReaderIs DEF Newest, ReaderType
  <2>6. PICK n : n = IF again THEN reader.pages + 1 ELSE 0
    OBVIOUS
  <2>7. n \in 0 .. MaxPages
    <3>1. reader.pages \in 0 .. MaxPages /\ MaxPages \in Nat /\ 0 \in 0 .. MaxPages
      BY ReaderIs, PagesAre
    <3>2. again => reader.pages < MaxPages
      BY <2>3
    <3> QED
      BY <2>6, <3>1, <3>2
  <2>8. PICK step : step = IF again THEN "asked" ELSE "waiting"
    OBVIOUS
  <2>9. PICK r : r = [reader EXCEPT !.newest = top, !.tag = answer.tag, !.shows = shows,
                                    !.step = step, !.pages = n]
    OBVIOUS
  <2>10. r \in ReaderType /\ r.newest = top
    BY <2>2, <2>5, <2>7, <2>8, <2>9, ReaderIs DEF ReaderType
  <2>11. reader' = r
    BY <1>1, <1>4, <2>1, <2>3, <2>4, <2>6, <2>8, <2>9 DEF Receive, Advance
  <2>12. handed' = handed \cup page /\ answer' = NoAnswer /\ UNCHANGED <<inTable, ownedBy, public, reach, late>>
    BY <1>1 DEF Receive
  <2>13. FeedTypeOK'
    BY <1>2, <2>10, <2>11, <2>12, NoAnswerIs DEF FeedOK, FeedTypeOK, ReaderType, AnswerType
  <2>14. Listed' = Listed /\ \A p \in Listed : p \in Nat
    BY <2>12, ListedIs, PlacesAre DEF Listed, FeedOK
  <2>15. ASSUME NEW p \in Listed, p <= top, p \notin late PROVE p \in handed \cup page
    <3>1. CASE p <= reader.newest
      BY <2>15, <3>1 DEF FeedOK, NothingSkipped
    <3>2. CASE ~(p <= reader.newest)
      <4>1. reader.newest < p
        BY <2>14, <3>2, ReaderIs
      <4> QED
        BY <1>1, <1>4, <2>1, <2>15, <4>1 DEF FeedOK, PageOK
    <3> QED
      BY <3>1, <3>2
  <2>16. NothingSkipped'
    BY <2>10, <2>11, <2>12, <2>14, <2>15 DEF NothingSkipped
  <2>17. PageOK'
    BY <2>12, NoAnswerIs DEF PageOK
  <2> QED
    BY <2>2, <2>10, <2>11, <2>12, <2>13, <2>16, <2>17 DEF FeedOK
<1> QED
  BY <1>3, <1>4

LEMMA FeedStepOK == ASSUME FeedOK, FeedNext PROVE FeedOK'
  BY StoreOK, SuspendOK, ReinstateOK, ProbeOK, ReadOK, HideOK, PollOK, ReceiveOK, LoseOK DEF FeedNext

\* The first page is read by the server.
LEMMA FeedBeginsOK == ASSUME FeedInit PROVE FeedOK
<1>1. PICK page : page = Newest(inTable, FeedPage)
  OBVIOUS
<1>2. PICK top : top = IF page = {} THEN Start0 ELSE Max(page)
  OBVIOUS
<1>3. /\ reader = [newest |-> top, tag |-> NoTag1, shows |-> page, step |-> "waiting", pages |-> 0, hidden |-> FALSE]
      /\ handed = page /\ reach = top /\ late = inTable \ page
      /\ inTable \subseteq Places /\ ownedBy \in [Places -> Owners] /\ public = Owners /\ answer = NoAnswer
  BY <1>1, <1>2 DEF FeedInit
<1>4. page \subseteq inTable
  BY <1>1 DEF Newest
<1>5. top \in Places \cup {Start0} /\ top \in Nat
  BY <1>2, <1>3, <1>4, PlacesMaxMin, PlacesAre DEF Start0
<1>6. reader \in ReaderType /\ reader.newest = top
  BY <1>3, <1>4, <1>5, PagesAre DEF ReaderType, Tags0
<1>7. FeedTypeOK
  BY <1>3, <1>4, <1>5, <1>6, NoAnswerIs DEF FeedTypeOK, ReaderType, AnswerType
<1>8. NothingSkipped
  BY <1>3, <1>4 DEF NothingSkipped, Listed
<1>9. PageOK
  BY <1>3, NoAnswerIs DEF PageOK
<1> QED
  BY <1>3, <1>5, <1>6, <1>7, <1>8, <1>9 DEF FeedOK

\* Whatever is stored, suspended, published again, lost or asked at once, the cursor of a
\* reader passes no listed trade that it was not handed, but for those that came late.
THEOREM FeedSafe == FeedSpec => [](FeedTypeOK /\ NothingSkipped)
<1>1. FeedOK /\ UNCHANGED feedVars => FeedOK'
  BY DEF feedVars, FeedOK, FeedTypeOK, NothingSkipped, PageOK, Listed
<1>2. FeedOK => FeedTypeOK /\ NothingSkipped
  BY DEF FeedOK
<1> QED
  BY <1>1, <1>2, FeedBeginsOK, FeedStepOK, PTL DEF FeedSpec
=============================================================================
