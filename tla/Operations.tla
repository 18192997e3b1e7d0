----------------------------- MODULE Operations -----------------------------
(***************************************************************************)
(* The scripts around the site and the pool of connections they all use,   *)
(* side by side: each is a component of its own and they share no          *)
(* variable, so that a step of one leaves the others where they are.       *)
(***************************************************************************)
EXTENDS Connections, SuiteLock, QueueGuard, Migrate

operationVars == <<suiteVars, guardVars, migrateVars, connectionVars>>

OperationsSpec ==
    /\ SuiteSpec
    /\ GuardSpec
    /\ MigrateSpec
    /\ ConnectionsSpec

-----------------------------------------------------------------------------

\* What the operator's scripts say and keep is so, whatever else runs at once and wherever
\* it dies: suites take the machine in the order of their tickets, a queue that grew makes a
\* run red, the tables have the migrations that schema_migrations lists, and no call is
\* lent a connection with another's transaction on it.
OperationsAreSound ==
    /\ TurnsAreKept
    /\ GrowthIsTold
    /\ MigrationsAreApplied
    /\ ConnectionsAreClean
=============================================================================
