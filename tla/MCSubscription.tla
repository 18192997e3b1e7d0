--------------------------- MODULE MCSubscription ---------------------------
(***************************************************************************)
(* Subscription with two wallets and two reconciliations at a time.        *)
(***************************************************************************)
EXTENDS Subscription, TLC

MCSymmetry == Permutations(Wallets) \cup Permutations(Syncs)
=============================================================================
