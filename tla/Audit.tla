------------------------------- MODULE Audit -------------------------------
(***************************************************************************)
(* The hash chain of audit_log: appendAudit and verifyAuditChain of        *)
(* lib/audit.ts, and the signature that goes with an entry.  A writer is a *)
(* transaction on some instance: it waits for the advisory lock, reads the *)
(* tip, stamps its entry with the clock of its instance, and commits or    *)
(* rolls back, which is what lets the lock go.  The clocks of instances    *)
(* differ, so that a stamp may be of any time.                             *)
(*                                                                         *)
(* The hash of a row stands for its content, its stamp and the hash it     *)
(* links to: it is the number of the row, and an altered row keeps the     *)
(* hash of what it was.                                                    *)
(***************************************************************************)
EXTENDS Integers, FiniteSets

CONSTANTS
    Writers,
    MaxRows,       \* bound: rows ever written
    MaxTime        \* bound: the latest clock

ASSUME AuditAssumption == MaxRows \in Nat /\ MaxTime \in Nat

Genesis == 0

VARIABLES
    log,           \* committed rows
    writer,        \* the open transactions
    written,       \* rows written so far, their numbers are hashes
    touched        \* the row altered or deleted behind the application, and
                   \* whether one linked to it that was not the first to be read

auditVars == <<log, writer, written, touched>>

Row == [hash : 1 .. MaxRows, prev : 0 .. MaxRows, at : 0 .. MaxTime, id : 1 .. MaxRows, altered : BOOLEAN]

Outside == [step |-> "outside", prev |-> Genesis]

AuditTypeOK ==
    /\ log \subseteq Row
    /\ writer \in [Writers -> [step : {"outside", "locked", "read"}, prev : 0 .. MaxRows]]
    /\ written \in 0 .. MaxRows
    /\ touched \subseteq [hash : 1 .. MaxRows, altered : BOOLEAN, linked : BOOLEAN]

\* ORDER BY at, id: the order of the clock, then of random identifiers.
Before(r, q) == r.at < q.at \/ (r.at = q.at /\ r.id < q.id)
Latest(rows) == {r \in rows : \A q \in rows \ {r} : Before(q, r)}

\* The hash of the last of them.
Tip(rows) == IF rows = {} THEN Genesis ELSE (CHOOSE r \in Latest(rows) : TRUE).hash

-----------------------------------------------------------------------------
(* appendAudit.                                                            *)

\* Mutant: the lock is not taken.
TakeNoLock(w) ==
    /\ writer[w].step = "outside"
    /\ written < MaxRows
    /\ writer' = [writer EXCEPT ![w].step = "locked"]
    /\ UNCHANGED <<log, written, touched>>

\* pg_advisory_xact_lock.
TakeLock(w) ==
    /\ writer[w].step = "outside"
    /\ \A v \in Writers : writer[v].step = "outside"
    /\ written < MaxRows
    /\ writer' = [writer EXCEPT ![w].step = "locked"]
    /\ UNCHANGED <<log, written, touched>>

ReadTip(w) ==
    /\ writer[w].step = "locked"
    /\ writer' = [writer EXCEPT ![w] = [step |-> "read", prev |-> Tip(log)]]
    /\ UNCHANGED <<log, written, touched>>

\* The INSERT and the COMMIT of the transaction it belongs to.
CommitEntry(w) ==
    /\ writer[w].step = "read"
    /\ written < MaxRows
    /\ written' = written + 1
    /\ \E t \in 0 .. MaxTime, i \in 1 .. MaxRows :
          /\ \A r \in log : r.id # i
          /\ log' = log \cup {[hash |-> written', prev |-> writer[w].prev, at |-> t, id |-> i, altered |-> FALSE]}
    /\ writer' = [writer EXCEPT ![w] = Outside]
    /\ UNCHANGED touched

RollBack(w) ==
    /\ writer[w].step # "outside"
    /\ writer' = [writer EXCEPT ![w] = Outside]
    /\ UNCHANGED <<log, written, touched>>

-----------------------------------------------------------------------------
(* "A console edit, a migration that fixes a row": with the triggers of    *)
(* migrations/018 dropped, a row is altered or deleted.                    *)

Touch(r, altered) ==
    /\ touched = {}
    /\ touched' = {[hash |-> r.hash, altered |-> altered,
                    linked |-> \E q, s \in log \ {r} : s.prev = r.hash /\ Before(q, s)]}
    /\ UNCHANGED <<writer, written>>

Alter(r) == Touch(r, TRUE) /\ log' = (log \ {r}) \cup {[r EXCEPT !.altered = TRUE]}

Delete(r) == Touch(r, FALSE) /\ log' = log \ {r}

AuditInit ==
    /\ log = {}
    /\ writer = [w \in Writers |-> Outside]
    /\ written = 0
    /\ touched = {}

AuditNext ==
    \/ \E w \in Writers : TakeLock(w) \/ ReadTip(w) \/ CommitEntry(w) \/ RollBack(w)
    \/ \E r \in log : Alter(r) \/ Delete(r)

AuditSpec == AuditInit /\ [][AuditNext]_auditVars

-----------------------------------------------------------------------------
(* verifyAuditChain: the hash a row should link to is that of the row      *)
(* before it in the order of the read, and nothing is expected of a first. *)

\* Mutant: the walk goes by what a row says itself.
ExpectedOwn(r) == r.prev

Expected(r) == Tip({q \in log : Before(q, r)})

ContentBreaks == {r \in log : r.altered}
LinkBreaks == {r \in log : ~r.altered /\ Expected(r) # Genesis /\ r.prev # Expected(r)}
Breaks == ContentBreaks \cup LinkBreaks

\* However the appends interleave and roll back: what is reported when nothing was
\* tampered with is a row that is not read in the order in which it was appended, the
\* clocks having put another on its wrong side; and what is altered, or is deleted while
\* a row that is not the first links to it, shows, even when more has been appended since
\* ("so tampering stops being invisible", migrations/018).
VerdictIsRight ==
    /\ touched = {} =>
          \A r \in Breaks : \E q \in log : q # r /\ ~(q.hash < r.hash <=> Before(q, r))
    /\ \A t \in touched : t.altered \/ t.linked => Breaks # {}

\* What audit.ts says of the lock, "a chain that cannot fork": verification reports nothing
\* when nothing was tampered with.
NeverForks == touched = {} => Breaks = {}
=============================================================================
