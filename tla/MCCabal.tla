------------------------------ MODULE MCCabal ------------------------------
(***************************************************************************)
(* Cabal with two tags, two rows and two requests at a time.               *)
(***************************************************************************)
EXTENDS Cabal, TLC

MCSymmetry == Permutations(Kols) \cup Permutations(Cabals) \cup Permutations(Tags)
              \cup Permutations(Sessions)
=============================================================================
