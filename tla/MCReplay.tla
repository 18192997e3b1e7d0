------------------------------ MODULE MCReplay ------------------------------
(***************************************************************************)
(* Replay with two mints of one KOL, both with a sell on the same day.     *)
(***************************************************************************)
EXTENDS Replay, TLC

MCPositions == 1 .. 2
MCTrades == {"buy1", "sell1", "sell2"}
MCPositionOf == ("buy1" :> 1) @@ ("sell1" :> 1) @@ ("sell2" :> 2)
MCSells == {"sell1", "sell2"}

Symmetry == Permutations(Writers) \cup Permutations(Replayers)
=============================================================================
