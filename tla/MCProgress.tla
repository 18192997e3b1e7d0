----------------------------- MODULE MCProgress -----------------------------
(***************************************************************************)
(* What must happen in the end, to a delivered transaction and to a        *)
(* position that is marked dirty.  Ingest and Replay are side by side:     *)
(* they share no variable, and a behaviour is of one of them, with the     *)
(* fairness of that one.  A payload nobody can decrypt comes before one    *)
(* that waits for its rate, and of two positions the first in the list     *)
(* cannot be replayed.                                                     *)
(***************************************************************************)
EXTENDS MCReplay, MCIngest

PoisonedTrades == {"poison", "sell"}
PoisonedPositionOf == ("poison" :> 1) @@ ("sell" :> 2)

VARIABLE part      \* the component that runs

ProgressInit ==
    /\ part \in {"ingest", "replay"}
    /\ IngestInit /\ Init

ProgressNext ==
    \/ part = "ingest" /\ IngestNext /\ UNCHANGED <<part, vars>>
    \/ part = "replay" /\ Next /\ UNCHANGED <<part, ingestVars>>

\* The component that runs is treated fairly, and the operator does not requeue for ever.
ProgressFairness ==
    \/ part = "ingest" /\ IngestFairness /\ <>[][~RequeueUntracked]_ingestVars
    \/ part = "replay" /\ Fairness

ProgressSpec ==
    ProgressInit /\ [][ProgressNext]_<<part, ingestVars, vars>> /\ ProgressFairness
=============================================================================
