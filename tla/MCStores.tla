------------------------------ MODULE MCStores ------------------------------
(***************************************************************************)
(* The two stores that several processes write at once: raw_tx, kept by    *)
(* Ingest, and the tables derived from the trades, kept by Replay.  They   *)
(* are side by side: they share no variable, and a behaviour is of one of  *)
(* them.  The processes are the same two, the cron and the tail of a       *)
(* webhook delivery, which parse and then replay.                          *)
(***************************************************************************)
EXTENDS MCReplay, MCIngest

VARIABLE part      \* the component that runs

StoresInit ==
    /\ part \in {"ingest", "replay"}
    /\ IngestInit /\ Init

StoresNext ==
    \/ part = "ingest" /\ IngestNext /\ UNCHANGED <<part, vars>>
    \/ part = "replay" /\ Next /\ UNCHANGED <<part, ingestVars>>

StoresSpec == StoresInit /\ [][StoresNext]_<<part, ingestVars, vars>>

-----------------------------------------------------------------------------
\* Both stores and the processes at work on them keep their types.
StoresTypesOK == TypeOK /\ IngestTypeOK
=============================================================================
