------------------------------ MODULE Migrate ------------------------------
(***************************************************************************)
(* scripts/migrate.mts: the files of migrations/ that a checkout has,      *)
(* those that schema_migrations does not know run in the order of their    *)
(* names, each in a transaction with the row that says so.  Nothing keeps  *)
(* two runs from being at it at once, of different checkouts, and what     *)
(* --test and --preview name may be production by mistake.                 *)
(***************************************************************************)
EXTENDS Integers, FiniteSets

CONSTANTS
    Runs,          \* runs of the script
    Checkouts,     \* the sets of versions a checkout may have
    MaxMigrations  \* bound: runs that start

ASSUME CheckoutsAssumption == Checkouts \subseteq SUBSET Nat /\ MaxMigrations \in Nat

VARIABLES
    named,         \* the database each variable of the environment names
    listedVersions,       \* schema_migrations, by database
    effects,       \* how often a file was run and committed, by database and version
    marked,        \* databases with a test_database_marker
    migration,     \* the runs
    emptied,       \* databases that a suite has emptied
    began

migrateVars == <<named, listedVersions, effects, marked, migration, emptied, began>>

Databases == {"production", "other"}
Flags == {"prod", "test", "preview"}
Versions == UNION Checkouts
NoMigration == [step |-> "off", flag |-> "prod", files |-> {}, left |-> {}, sure |-> FALSE]

MigrateTypeOK ==
    /\ named \in [Flags -> Databases] /\ named["prod"] = "production"
    /\ listedVersions \in [Databases -> SUBSET Versions]
    /\ effects \in [Databases \X Versions -> Nat]
    /\ marked \subseteq Databases
    /\ migration \in [Runs -> [step : {"off", "read", "next", "sql", "row", "commit"}, flag : Flags,
                               files : Checkouts \cup {{}}, left : SUBSET Versions, sure : BOOLEAN]]
    /\ emptied \subseteq Databases /\ began \in 0 .. MaxMigrations

Db(r) == named[migration[r].flag]
Lowest(S) == CHOOSE v \in S : \A u \in S : v <= u
Step(r, step) == migration' = [migration EXCEPT ![r].step = step]

\* assertDistinctFromProduction.
IsProduction(flag) == named[flag] = named["prod"]

-----------------------------------------------------------------------------

\* Exactly one flag; --preview is refused where it names production.
StartMigration(r, flag, files) ==
    /\ migration[r].step = "off" /\ began < MaxMigrations
    /\ flag = "preview" => ~IsProduction(flag)
    /\ migration' = [migration EXCEPT ![r] = [NoMigration EXCEPT !.step = "read", !.flag = flag, !.files = files]]
    /\ began' = began + 1
    /\ UNCHANGED <<named, listedVersions, effects, marked, emptied>>

\* SELECT version FROM schema_migrations, once.
ReadApplied(r) ==
    /\ migration[r].step = "read"
    /\ migration' = [migration EXCEPT ![r].step = "next", ![r].left = migration[r].files \ listedVersions[Db(r)]]
    /\ UNCHANGED <<named, listedVersions, effects, marked, emptied, began>>

\* BEGIN, and the statements of the file: they are seen by nobody yet.
RunFile(r) ==
    /\ migration[r].step = "next" /\ migration[r].left # {}
    /\ Step(r, "sql")
    /\ UNCHANGED <<named, listedVersions, effects, marked, emptied, began>>

\* The transaction is rolled back and the script ends: a statement that failed, a version
\* that is there by now, or a process that died.
Abort(r) ==
    /\ migration[r].step # "off"
    /\ migration' = [migration EXCEPT ![r] = NoMigration]
    /\ UNCHANGED <<named, listedVersions, effects, marked, emptied, began>>

\* INSERT INTO schema_migrations: the primary key makes it wait for another that has the
\* version in hand, and refuses it where the version is there; that run aborts.
InsertVersion(r) ==
    LET v == Lowest(migration[r].left)
    IN  /\ migration[r].step = "sql"
        /\ v \notin listedVersions[Db(r)]
        /\ \A q \in Runs : migration[q].step = "commit" /\ Db(q) = Db(r) => Lowest(migration[q].left) # v
        /\ Step(r, "commit")
        /\ UNCHANGED <<named, listedVersions, effects, marked, emptied, began>>

\* Mutant: the file is committed, and its row is written afterwards.
CommitThenRecord(r) ==
    LET v == Lowest(migration[r].left)
    IN  \/ /\ migration[r].step = "commit"
           /\ effects' = [effects EXCEPT ![<<Db(r), v>>] = @ + 1]
           /\ Step(r, "row")
           /\ UNCHANGED <<named, listedVersions, marked, emptied, began>>
        \/ /\ migration[r].step = "row"
           /\ listedVersions' = [listedVersions EXCEPT ![Db(r)] = @ \cup {v}]
           /\ migration' = [migration EXCEPT ![r].step = "next", ![r].left = @ \ {v}]
           /\ UNCHANGED <<named, effects, marked, emptied, began>>

CommitFile(r) ==
    LET v == Lowest(migration[r].left)
    IN  /\ migration[r].step = "commit"
        /\ listedVersions' = [listedVersions EXCEPT ![Db(r)] = @ \cup {v}]
        /\ effects' = [effects EXCEPT ![<<Db(r), v>>] = @ + 1]
        /\ migration' = [migration EXCEPT ![r].step = "next", ![r].left = @ \ {v}]
        /\ UNCHANGED <<named, marked, emptied, began>>

\* The end: --test leaves its marker, never where it names production.
EndMigration(r) ==
    /\ migration[r].step = "next" /\ migration[r].left = {}
    /\ marked' = IF migration[r].flag = "test" /\ ~IsProduction("test") THEN marked \cup {Db(r)} ELSE marked
    /\ migration' = [migration EXCEPT ![r] = NoMigration]
    /\ UNCHANGED <<named, listedVersions, effects, emptied, began>>

\* resolveConnectionString, in a test: TEST_DATABASE_URL, unless it names production.
ResolvesForTests == ~IsProduction("test")

\* assertTestDatabaseMarker: only what a --test run has stamped.
HasMarker == named["test"] \in marked

\* A suite begins, and its tests empty the tables they use.
EmptyTables ==
    /\ ResolvesForTests /\ HasMarker
    /\ emptied' = emptied \cup {named["test"]}
    /\ UNCHANGED <<named, listedVersions, effects, marked, migration, began>>

MigrateInit ==
    /\ named \in [Flags -> Databases] /\ named["prod"] = "production"
    /\ listedVersions = [d \in Databases |-> {}]
    /\ effects = [e \in Databases \X Versions |-> 0]
    /\ marked = {} /\ emptied = {}
    /\ migration = [r \in Runs |-> NoMigration]
    /\ began = 0

MigrateNext ==
    \/ EmptyTables
    \/ \E r \in Runs :
          \/ \E flag \in Flags, files \in Checkouts : StartMigration(r, flag, files)
          \/ ReadApplied(r) \/ RunFile(r) \/ InsertVersion(r) \/ CommitFile(r) \/ EndMigration(r) \/ Abort(r)

MigrateSpec == MigrateInit /\ [][MigrateNext]_migrateVars

-----------------------------------------------------------------------------

\* Whatever runs at once, of whichever checkout, and wherever it stops: a file has run once
\* where schema_migrations says it has and not at all elsewhere; a file that runs comes after
\* all of its own checkout that are named before it; and production is neither marked as a
\* database that tests may empty nor emptied.
MigrationsAreApplied ==
    /\ \A d \in Databases, v \in Versions : effects[<<d, v>>] = IF v \in listedVersions[d] THEN 1 ELSE 0
    /\ \A r \in Runs : migration[r].step \in {"sql", "commit"} =>
          \A v \in migration[r].files : v < Lowest(migration[r].left) => v \in listedVersions[Db(r)]
    /\ "production" \notin marked \cup emptied
=============================================================================
