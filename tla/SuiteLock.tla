----------------------------- MODULE SuiteLock -----------------------------
(***************************************************************************)
(* The machine-wide lock of the test suites: takeSuiteLock of              *)
(* suite-lock.ts on Darwin, where open takes an exclusive lock that the    *)
(* kernel lets go with its holder.  A ticket is a file named for the       *)
(* moment of asking and the process; writing it is a creation and a write, *)
(* reading the queue a listing and what is done about it, and other        *)
(* processes come between.                                                 *)
(***************************************************************************)
EXTENDS Integers, FiniteSets

CONSTANTS
    Suites,        \* process ids
    NoHolder,      \* the lock, when nobody holds it
    Cap,           \* WAIT_CAP_MS
    Lag,           \* how late a process that sleeps between polls may wake
    LastMoment     \* bound: the last moment

ASSUME SuitesAssumption == Suites \subseteq Nat /\ NoHolder \notin Suites
ASSUME CapAssumption == Cap \in Nat /\ LastMoment \in Nat /\ Lag \in 0 .. Cap

VARIABLES
    moment,        \* Date.now(), of one machine
    suite,         \* the processes
    queue,         \* the files of SUITE_QUEUE_DIR
    lockHolder,    \* who has the lock's file open
    seenHalf       \* history: the tickets of which some look saw only half

suiteVars == <<moment, suite, queue, lockHolder, seenHalf>>

Ticket == [at : 0 .. LastMoment, id : Suites, whole : BOOLEAN]
Steps == {"away", "named", "writing", "waiting", "looking", "turn", "opened", "holding", "dead"}

SuiteTypeOK ==
    /\ moment \in 0 .. LastMoment
    /\ suite \in [Suites -> [step : Steps, at : 0 .. LastMoment, line : SUBSET Ticket, reused : BOOLEAN]]
    /\ queue \subseteq Ticket
    /\ lockHolder \in Suites \cup {NoHolder}
    /\ seenHalf \subseteq [at : 0 .. LastMoment, id : Suites]

Away == [step |-> "away", at |-> 0, line |-> {}, reused |-> FALSE]
NameOf(p) == [at |-> suite[p].at, id |-> p]
FileOf(p) == {t \in queue : t.at = suite[p].at /\ t.id = p}

\* tearUp: rmSync, whether it is there or not.
TearUp(p) == queue' = queue \ FileOf(p)
Walk(p, step) == suite' = [suite EXCEPT ![p].step = step]

\* Sorted by arrival, a tie by the process.
Ahead(t, u) == t.at < u.at \/ (t.at = u.at /\ t.id < u.id)

-----------------------------------------------------------------------------
(* A place in line, before the first attempt.                              *)

Ask(p) ==
    /\ suite[p].step = "away"
    /\ suite' = [suite EXCEPT ![p] = [Away EXCEPT !.step = "named", !.at = moment]]
    /\ UNCHANGED <<moment, queue, lockHolder, seenHalf>>

CreateTicket(p) ==
    /\ suite[p].step = "named"
    /\ queue' = (queue \ FileOf(p)) \cup {[at |-> suite[p].at, id |-> p, whole |-> FALSE]}
    /\ Walk(p, "writing")
    /\ UNCHANGED <<moment, lockHolder, seenHalf>>

\* What is written to a file that was removed is in no directory.
FillTicket(p) ==
    /\ suite[p].step = "writing"
    /\ queue' = (queue \ FileOf(p)) \cup {[t EXCEPT !.whole = TRUE] : t \in FileOf(p)}
    /\ Walk(p, "waiting")
    /\ UNCHANGED <<moment, lockHolder, seenHalf>>

-----------------------------------------------------------------------------
(* readQueue.                                                              *)

\* process.kill(pid, 0): a process id that is in use again looks alive.
Alive(p) == suite[p].step # "dead" \/ suite[p].reused

\* Mutant: what is older than the cap is rubbish.
RubbishAtCap(t) == ~t.whole \/ ~Alive(t.id) \/ moment - t.at > Cap

\* Not readable, or of the dead, or older than twice the cap.
Rubbish(t) == ~t.whole \/ ~Alive(t.id) \/ moment - t.at > 2 * Cap

Look(p) ==
    /\ suite[p].step = "waiting"
    /\ suite' = [suite EXCEPT ![p].step = "looking", ![p].line = queue]
    /\ seenHalf' = seenHalf \cup {[at |-> t.at, id |-> t.id] : t \in {u \in queue : ~u.whole}}
    /\ UNCHANGED <<moment, queue, lockHolder>>

\* What is rubbish is removed, by its name, and the first of the rest is whose turn
\* it is: ours, or nobody's, is a try; somebody else's is a wait, up to the cap.
TakeTurn(p) ==
    LET rubbish == {t \in suite[p].line : Rubbish(t)}
        places == suite[p].line \ rubbish
        swept == {t \in queue : \E u \in rubbish : u.at = t.at /\ u.id = t.id}
        ours == \A t \in places : t.id # p => \E u \in places : u.id = p /\ Ahead(u, t)
        late == moment - suite[p].at >= Cap
    IN  /\ suite[p].step = "looking"
        /\ \/ ours /\ Walk(p, "turn") /\ queue' = queue \ swept
           \/ ~ours /\ late /\ suite' = [suite EXCEPT ![p] = Away] /\ queue' = queue \ (swept \cup FileOf(p))
           \/ ~ours /\ ~late /\ suite' = [suite EXCEPT ![p].step = "waiting", ![p].line = {}]
              /\ queue' = queue \ swept
        /\ UNCHANGED <<moment, lockHolder, seenHalf>>

-----------------------------------------------------------------------------
(* The lock.                                                               *)

Open(p) ==
    /\ suite[p].step = "turn" /\ lockHolder = NoHolder
    /\ lockHolder' = p
    /\ Walk(p, "opened")
    /\ UNCHANGED <<moment, queue, seenHalf>>

\* EAGAIN: wait for another look, or give up.
Busy(p) ==
    /\ suite[p].step = "turn" /\ lockHolder # NoHolder
    /\ IF moment - suite[p].at >= Cap
       THEN suite' = [suite EXCEPT ![p] = Away] /\ TearUp(p)
       ELSE suite' = [suite EXCEPT ![p].step = "waiting", ![p].line = {}] /\ UNCHANGED queue
    /\ UNCHANGED <<moment, lockHolder, seenHalf>>

\* Any other error ends the run, with its ticket.
OpenFails(p) ==
    /\ suite[p].step = "turn"
    /\ suite' = [suite EXCEPT ![p] = Away] /\ TearUp(p)
    /\ UNCHANGED <<moment, lockHolder, seenHalf>>

\* The holder's name is written, and the ticket torn up.
LeaveLine(p) ==
    /\ suite[p].step = "opened"
    /\ TearUp(p)
    /\ suite' = [suite EXCEPT ![p].step = "holding", ![p].line = {}]
    /\ UNCHANGED <<moment, lockHolder, seenHalf>>

LetGo(p) == lockHolder' = IF lockHolder = p THEN NoHolder ELSE lockHolder

ReleaseSuite(p) ==
    /\ suite[p].step = "holding"
    /\ suite' = [suite EXCEPT ![p] = Away]
    /\ LetGo(p)
    /\ UNCHANGED <<moment, queue, seenHalf>>

\* A run that is killed: its ticket stays, and its id may be given to another process.
Killed(p) ==
    /\ suite[p].step \notin {"away", "dead"}
    /\ \E again \in BOOLEAN :
          suite' = [suite EXCEPT ![p] = [Away EXCEPT !.step = "dead", !.reused = again]]
    /\ LetGo(p)
    /\ UNCHANGED <<moment, queue, seenHalf>>

\* Whoever waits is awake at the cap, or late by no more than Lag.
InLine == {"named", "writing", "waiting", "looking", "turn"}
Pass ==
    /\ moment < LastMoment
    /\ \A p \in Suites : suite[p].step \in InLine => moment + 1 - suite[p].at <= Cap + Lag
    /\ moment' = moment + 1
    /\ UNCHANGED <<suite, queue, lockHolder, seenHalf>>

SuiteInit ==
    /\ moment = 0
    /\ suite = [p \in Suites |-> Away]
    /\ queue = {} /\ lockHolder = NoHolder /\ seenHalf = {}

SuiteNext ==
    \/ Pass
    \/ \E p \in Suites :
          \/ Ask(p) \/ CreateTicket(p) \/ FillTicket(p) \/ Look(p) \/ TakeTurn(p)
          \/ Open(p) \/ Busy(p) \/ OpenFails(p) \/ LeaveLine(p) \/ ReleaseSuite(p) \/ Killed(p)

SuiteSpec == SuiteInit /\ [][SuiteNext]_suiteVars

-----------------------------------------------------------------------------
(* Properties.                                                             *)

Standing(p) == suite[p].step \in {"waiting", "looking", "turn"}

\* "It goes to the back without any rule about who used to hold it": nobody goes to the
\* lock past a run that waits, whose ticket stood there whole when he looked and was
\* older than his; and a run that waits is in line, unless somebody read its ticket
\* before it was all written.
TurnsAreKept ==
    /\ \A p, q \in Suites :
          /\ suite[p].step \in {"turn", "opened"} /\ Standing(q)
          /\ \E t \in suite[p].line : t.whole /\ t.at = suite[q].at /\ t.id = q
          => ~Ahead(NameOf(q), NameOf(p))
    /\ \A q \in Suites : Standing(q) /\ FileOf(q) = {} => NameOf(q) \in seenHalf
=============================================================================
