----------------------------- MODULE QueueGuard -----------------------------
(***************************************************************************)
(* scripts/parse-pending.ts around parsePending: batches under the lock,   *)
(* until the queue is drained, the budget is spent or another run has the  *)
(* lock, and then the guard, which counts what is pending, compares it     *)
(* with the count it finds in the table setting and leaves its own there.  *)
(* The cron and somebody's drain by hand may run at once; the tail of a    *)
(* delivery takes the lock for one batch and no guard.  What happens to    *)
(* the rows of a batch is in Ingest; here they are a number.               *)
(***************************************************************************)
EXTENDS Integers, FiniteSets

CONSTANTS
    Drains,        \* runs of the script at once
    RowsABatch,    \* PARSE_BATCH_SIZE
    NoDepth,       \* no row of setting, or one that cannot be used
    Idling,        \* nobody has the lock
    StatementsOverlap, \* whether two runs may be inside the guard's statement at once
    MaxDepth,      \* bound: rows pending at once
    MaxArrivals    \* bound: deliveries

ASSUME DrainsAssumption == Idling \notin Drains \cup {"delivery"} /\ NoDepth \notin Int
ASSUME OverlapAssumption == StatementsOverlap \in BOOLEAN
ASSUME DepthAssumption == RowsABatch \in Nat \ {0} /\ MaxDepth \in Nat /\ MaxArrivals \in Nat

VARIABLES
    depth,         \* rows of raw_tx that are pending
    lastDepth,     \* setting.parse_pending_queue_depth
    drain,         \* the runs
    parseLock,     \* the advisory lock "parse-pending"
    arrivals,
    low            \* history: the least depth stored since a run was red, or compared with nothing

guardVars == <<depth, lastDepth, drain, parseLock, arrivals, low>>

Depths == 0 .. MaxDepth
NoDrain == [step |-> "off", some |-> FALSE, count |-> 0, before |-> NoDepth]

GuardTypeOK ==
    /\ depth \in Depths /\ lastDepth \in Depths \cup {NoDepth} /\ low \in Depths \cup {NoDepth}
    /\ drain \in [Drains -> [step : {"off", "loop", "parse", "count", "record", "write"}, some : BOOLEAN,
                             count : Depths, before : Depths \cup {NoDepth}]]
    /\ parseLock \in Drains \cup {"delivery", Idling}
    /\ arrivals \in 0 .. MaxArrivals

Enter(d, step) == drain' = [drain EXCEPT ![d].step = step]
Off(d) == drain' = [drain EXCEPT ![d] = NoDrain]
LeastOf(m, n) == IF m <= n THEN m ELSE n

-----------------------------------------------------------------------------

RowArrives ==
    /\ depth < MaxDepth /\ arrivals < MaxArrivals
    /\ depth' = depth + 1 /\ arrivals' = arrivals + 1
    /\ UNCHANGED <<lastDepth, drain, parseLock, low>>

\* The tail of a delivery: one batch, if the lock is free.
DeliveryDrains ==
    \/ /\ parseLock = Idling /\ depth > 0
       /\ parseLock' = "delivery"
       /\ UNCHANGED <<depth, lastDepth, drain, arrivals, low>>
    \/ /\ parseLock = "delivery"
       /\ parseLock' = Idling
       /\ \E left \in Depths : left <= depth /\ depth' = left
       /\ UNCHANGED <<lastDepth, drain, arrivals, low>>

StartDrain(d) ==
    /\ drain[d].step = "off"
    /\ Enter(d, "loop")
    /\ UNCHANGED <<depth, lastDepth, parseLock, arrivals, low>>

\* The condition of the loop: as many batches as were allowed, or all the time.
BudgetIsSpent(d) ==
    /\ drain[d].step = "loop"
    /\ Enter(d, "count")
    /\ UNCHANGED <<depth, lastDepth, parseLock, arrivals, low>>

\* withLock: whoever does not get it did nothing, or stops where it is.
TakeBatch(d) ==
    /\ drain[d].step = "loop"
    /\ \/ parseLock = Idling /\ parseLock' = d /\ Enter(d, "parse")
       \/ /\ parseLock # Idling /\ UNCHANGED parseLock
          /\ IF drain[d].some THEN Enter(d, "count") ELSE Off(d)
    /\ UNCHANGED <<depth, lastDepth, arrivals, low>>

\* parsePending settles every row it examines; a batch of none is the last.
EndBatch(d) ==
    LET examined == LeastOf(RowsABatch, depth)
    IN  /\ drain[d].step = "parse"
        /\ depth' = depth - examined
        /\ parseLock' = Idling
        /\ drain' = [drain EXCEPT ![d].step = IF examined = 0 THEN "count" ELSE "loop", ![d].some = TRUE]
        /\ UNCHANGED <<lastDepth, arrivals, low>>

\* A statement that fails, or a killed run: the batches before it are kept.
DrainFails(d) ==
    /\ drain[d].step # "off"
    /\ Off(d)
    /\ parseLock' = IF parseLock = d THEN Idling ELSE parseLock
    /\ UNCHANGED <<depth, lastDepth, arrivals, low>>

-----------------------------------------------------------------------------
(* checkQueueDepth.                                                        *)

CountPending(d) ==
    /\ drain[d].step = "count"
    /\ drain' = [drain EXCEPT ![d].step = "record", ![d].count = depth]
    /\ UNCHANGED <<depth, lastDepth, parseLock, arrivals, low>>

\* What the run says of what it found, and what that means for the history.
Judge(before, count) ==
    low' = IF before = NoDepth \/ low = NoDepth THEN count
           ELSE IF count > before THEN count ELSE LeastOf(low, count)

\* The statement takes its snapshot, the previous depth in it.  Where two of them may
\* overlap, one may write over a depth that is newer than the one it read: ON CONFLICT
\* updates the row as it is by then.
ReadPrevious(d) ==
    /\ drain[d].step = "record"
    /\ StatementsOverlap \/ \A e \in Drains : drain[e].step # "write"
    /\ drain' = [drain EXCEPT ![d].step = "write", ![d].before = lastDepth]
    /\ UNCHANGED <<depth, lastDepth, parseLock, arrivals, low>>

\* Mutant: only a depth that has grown is stored.
RecordGrowth(d) ==
    /\ drain[d].step = "write"
    /\ lastDepth' = IF drain[d].before = NoDepth \/ drain[d].count > drain[d].before
                 THEN drain[d].count ELSE lastDepth
    /\ Judge(drain[d].before, drain[d].count)
    /\ Off(d)
    /\ UNCHANGED <<depth, parseLock, arrivals>>

\* One's own depth takes its place: red if it grew.
RecordDepth(d) ==
    /\ drain[d].step = "write"
    /\ lastDepth' = drain[d].count
    /\ Judge(drain[d].before, drain[d].count)
    /\ Off(d)
    /\ UNCHANGED <<depth, parseLock, arrivals>>

\* A row that somebody edited is as good as none.
Unusable ==
    /\ lastDepth # NoDepth
    /\ lastDepth' = NoDepth /\ low' = NoDepth
    /\ UNCHANGED <<depth, drain, parseLock, arrivals>>

GuardInit ==
    /\ depth = 0 /\ lastDepth = NoDepth /\ low = NoDepth
    /\ drain = [d \in Drains |-> NoDrain]
    /\ parseLock = Idling /\ arrivals = 0

GuardNext ==
    \/ RowArrives \/ DeliveryDrains \/ Unusable
    \/ \E d \in Drains :
          \/ StartDrain(d) \/ BudgetIsSpent(d) \/ TakeBatch(d) \/ EndBatch(d) \/ DrainFails(d)
          \/ CountPending(d) \/ ReadPrevious(d) \/ RecordDepth(d)

GuardSpec == GuardInit /\ [][GuardNext]_guardVars

-----------------------------------------------------------------------------

\* "Growth is the signal": of the depths that are stored, whichever runs store them and
\* however late they do, none is above an earlier one unless a run was red in between, as
\* long as two runs are not inside the statement at once.
GrowthIsTold == ~StatementsOverlap /\ lastDepth # NoDepth => low # NoDepth /\ lastDepth <= low
=============================================================================
