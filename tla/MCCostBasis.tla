---------------------------- MODULE MCCostBasis ----------------------------
(***************************************************************************)
(* CostBasis on a handful of rows chosen to meet every case of the replay: *)
(* a partial sell whose cost does not divide, a full exit, an oversell, a  *)
(* sell that a fee turns into a loss, a sell of nothing for something, an  *)
(* unpriced row, a row of unknown basis and a negative amount.             *)
(***************************************************************************)
EXTENDS CostBasis

Buy(q, s, f) == [side |-> "buy", qty |-> q, sol |-> s, fee |-> f,
                 priced |-> TRUE, rate |-> 2, known |-> TRUE, day |-> 0]

SellOf(q, s, f) == [Buy(q, s, f) EXCEPT !.side = "sell"]

Rows == { Buy(3, 5, 0),
          Buy(1, 1, 1),
          [Buy(2, 3, 1) EXCEPT !.priced = FALSE],
          SellOf(1, 4, 0),
          SellOf(2, 1, 2),
          SellOf(3, 4, 0),
          SellOf(0, 1, 0),
          [SellOf(1, 2, 0) EXCEPT !.known = FALSE],
          Buy(1, -1, 0) }

MCDays == {0, 1}

MCTradeInputs == {[t EXCEPT !.day = d] : t \in Rows, d \in MCDays}
=============================================================================
