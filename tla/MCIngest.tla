------------------------------- MODULE MCIngest -------------------------------
(***************************************************************************)
(* Ingest on two transactions and two wallets.                             *)
(***************************************************************************)
EXTENDS Ingest

MCTxs == 1 .. 2
MCWallets == {"a", "b"}

\* Both wallets are in the first transaction and fail in two ways, and the second
\* has a leg that cannot be read.
MCLegOf ==
    << [a |-> "stable", b |-> "refused"],
       [a |-> "garbled", b |-> "tiny"] >>

\* The first is for a run that makes it a payload nobody can decrypt.
MCLegsBehind ==
    << [a |-> "sol", b |-> "sol"],
       [a |-> "stable", b |-> "sol"] >>

\* The newest is nobody's.
MCLegsOfNobody ==
    << [a |-> "none", b |-> "sol"],
       [a |-> "none", b |-> "none"] >>
=============================================================================
