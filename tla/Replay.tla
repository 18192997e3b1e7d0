------------------------------- MODULE Replay -------------------------------
(***************************************************************************)
(* How position and pnl_daily are kept up with the trades of one KOL on    *)
(* one chain: transactions on PostgreSQL at READ COMMITTED, one SQL        *)
(* statement a step, with the row locks the statements take.               *)
(*                                                                         *)
(* Writers run insertTrade (parse-swap.ts) and the transaction of          *)
(* backfillPrices (scripts/backfill-prices.ts).  Replayers run             *)
(* recomputeDirty (pnl.ts) under withLock("recompute-dirty"): the cron and *)
(* the tail of a webhook delivery.  A statement that waits for a lock is   *)
(* one whose guard is false.                                               *)
(*                                                                         *)
(* view[p] stands for all that the replay of position p writes under its   *)
(* row lock: the position row, its pnl_position_daily rows and the         *)
(* realized figures on its sells, each a function of the trades it read.   *)
(* daily stands for a row of pnl_daily, a sum: it is the function from     *)
(* positions to the contributions that were added up.  All sells are of    *)
(* one UTC day.                                                            *)
(***************************************************************************)
EXTENDS Integers, FiniteSets

CONSTANTS
    Trades, Positions, PositionOf,
    Sells,        \* the trades whose rows a replay writes its figures on
    Writers, Replayers,
    NoOne,        \* the holder of a free lock
    Limit,        \* positions per recomputeDirty
    Poison,       \* positions whose replay always throws
    LockCanDrop,  \* whether the connection of withLock can drop while it idles
    MaxFaults     \* bound on crashes, lost connections and failed statements

ASSUME StoreAssumption ==
    /\ Trades # {}
    /\ Positions \subseteq Nat
    /\ PositionOf \in [Trades -> Positions]
    /\ Sells \subseteq Trades
    /\ Poison \subseteq Positions

ASSUME SessionAssumption ==
    /\ Writers \cap Replayers = {}
    /\ NoOne \notin Writers \cup Replayers
    /\ LockCanDrop \in BOOLEAN
    /\ MaxFaults \in Nat

ASSUME LimitAssumption ==
    Limit \in Nat /\ Cardinality(Poison) < Limit

VARIABLES
    log, dirty, view, daily,               \* the tables, as committed
    tradeLock, positionLock, dayLock,      \* row locks
    advisory,                              \* the lock "recompute-dirty"
    wAt, wTrade, wState,                   \* a writer's transaction
    rAt, todo, current, snapshot, sum,     \* a replayer's run
    faults

tables == <<log, dirty, view, daily>>
locks == <<tradeLock, positionLock, dayLock>>
writers == <<wAt, wTrade, wState>>
replayers == <<rAt, todo, current, snapshot, sum>>
vars == <<tables, locks, advisory, writers, replayers, faults>>

-----------------------------------------------------------------------------
TradeState == {"absent", "unpriced", "priced"}

TradesOf(p) == {t \in Trades : PositionOf[t] = p}

LogOf(p) == [t \in TradesOf(p) |-> log[t]]

Sessions == Writers \cup Replayers

\* What the variables of a session hold between transactions.
AnyTrade == CHOOSE t \in Trades : TRUE
AnyPosition == CHOOSE p \in Positions : TRUE
Nothing == [t \in {} |-> "absent"]

\* A position contributes to the days of its sells, and what it contributes
\* depends on all of its trades.
Sold(v) == \E t \in DOMAIN v \cap Sells : v[t] # "absent"

Contribution(v) == [t \in DOMAIN v |-> IF Sold(v) THEN v[t] ELSE "absent"]

Contributions(views) == [p \in Positions |-> Contribution(views[p])]

\* Mutant: a row lock keeps nobody out.
NeverHeld(holder) == TRUE

Free(holder) == holder = NoOne

\* COMMIT and ROLLBACK release every row lock of the session.
Release(s) ==
    /\ tradeLock' = [t \in Trades |-> IF tradeLock[t] = s THEN NoOne ELSE tradeLock[t]]
    /\ positionLock' = [p \in Positions |->
                          IF positionLock[p] = s THEN NoOne ELSE positionLock[p]]
    /\ dayLock' = IF dayLock = s THEN NoOne ELSE dayLock

Init ==
    /\ log = [t \in Trades |-> "absent"]
    /\ dirty = [p \in Positions |-> FALSE]
    /\ view = [p \in Positions |-> LogOf(p)]
    /\ daily = Contributions(view)
    /\ tradeLock = [t \in Trades |-> NoOne]
    /\ positionLock = [p \in Positions |-> NoOne]
    /\ dayLock = NoOne
    /\ advisory = NoOne
    /\ wAt = [w \in Writers |-> "idle"]
    /\ wTrade = [w \in Writers |-> AnyTrade]
    /\ wState = [w \in Writers |-> "absent"]
    /\ rAt = [r \in Replayers |-> "idle"]
    /\ todo = [r \in Replayers |-> {}]
    /\ current = [r \in Replayers |-> AnyPosition]
    /\ snapshot = [r \in Replayers |-> Nothing]
    /\ sum = [r \in Replayers |-> Nothing]
    /\ faults = 0

-----------------------------------------------------------------------------
\* The writers.

\* The first statement of a transaction, on the row of trade t.
Begin(w, t, state) ==
    /\ wAt[w] = "idle"
    /\ Free(tradeLock[t])
    /\ wAt' = [wAt EXCEPT ![w] = "changed"]
    /\ wTrade' = [wTrade EXCEPT ![w] = t]
    /\ wState' = [wState EXCEPT ![w] = state]
    /\ UNCHANGED <<tables, positionLock, dayLock, advisory, replayers, faults>>

\* insertTrade: with a rate at or before the minute of the block, or without.
InsertTrade(w, t, state) ==
    /\ log[t] = "absent" /\ state # "absent"
    /\ Begin(w, t, state)
    /\ tradeLock' = [tradeLock EXCEPT ![t] = w]

\* ON CONFLICT DO NOTHING: the row is there; the position is still marked.
InsertAgain(w, t) ==
    /\ log[t] # "absent"
    /\ Begin(w, t, log[t])
    /\ UNCHANGED tradeLock

\* backfillPrices: UPDATE trade ... WHERE usd_amount IS NULL.  The candidates
\* are read earlier, but it is the row under its lock that decides; on a row
\* that has its price by then the transaction ends with nothing done.
PriceTrade(w, t) ==
    /\ log[t] = "unpriced"
    /\ Begin(w, t, "priced")
    /\ tradeLock' = [tradeLock EXCEPT ![t] = w]

MarkDirty(w) ==
    LET p == PositionOf[wTrade[w]]
    IN /\ wAt[w] = "changed"
       /\ Free(positionLock[p])
       /\ positionLock' = [positionLock EXCEPT ![p] = w]
       /\ wAt' = [wAt EXCEPT ![w] = "marked"]
       /\ UNCHANGED <<tables, tradeLock, dayLock, advisory, wTrade, wState,
                      replayers, faults>>

\* Mutant: a price that arrives late does not concern the replay.
MarksNewTrades(w) == wState[w] # "priced"

\* Both writes or neither, whatever the trade was changed to.
Marks(w) == TRUE

EndWrite(w) ==
    /\ Release(w)
    /\ wAt' = [wAt EXCEPT ![w] = "idle"]
    /\ wTrade' = [wTrade EXCEPT ![w] = AnyTrade]
    /\ wState' = [wState EXCEPT ![w] = "absent"]

CommitWrite(w) ==
    LET t == wTrade[w]
    IN /\ wAt[w] = "marked"
       /\ log' = IF tradeLock[t] = w THEN [log EXCEPT ![t] = wState[w]] ELSE log
       /\ dirty' = [dirty EXCEPT ![PositionOf[t]] = @ \/ Marks(w)]
       /\ EndWrite(w)
       /\ UNCHANGED <<view, daily, advisory, replayers, faults>>

RollbackWrite(w) ==
    /\ wAt[w] # "idle"
    /\ EndWrite(w)
    /\ UNCHANGED <<tables, advisory, replayers>>

\* A crash of the process, a lost connection, a failed statement.
AbortWrite(w) ==
    /\ faults < MaxFaults
    /\ faults' = faults + 1
    /\ RollbackWrite(w)

-----------------------------------------------------------------------------
\* The replayers.

\* SELECT ... FROM position WHERE dirty ORDER BY kol_id, chain, mint LIMIT.
DirtyList ==
    {p \in Positions : dirty[p] /\ Cardinality({q \in Positions : dirty[q] /\ q < p}) < Limit}

\* Whoever does not get the lock does nothing.
StartRun(r) ==
    /\ rAt[r] = "idle"
    /\ advisory = NoOne
    /\ advisory' = r
    /\ rAt' = [rAt EXCEPT ![r] = "next"]
    /\ todo' = [todo EXCEPT ![r] = DirtyList]
    /\ UNCHANGED <<tables, locks, writers, current, snapshot, sum, faults>>

Step(r, from, to) ==
    /\ rAt[r] = from
    /\ rAt' = [rAt EXCEPT ![r] = to]
    /\ UNCHANGED <<tables, advisory, writers, faults>>

\* The upsert that leaves dirty as it is: it takes the row lock.
LockPosition(r) ==
    \E p \in todo[r] :
       /\ \A q \in todo[r] : p <= q
       /\ Step(r, "next", "locked")
       /\ Free(positionLock[p])
       /\ positionLock' = [positionLock EXCEPT ![p] = r]
       /\ todo' = [todo EXCEPT ![r] = @ \ {p}]
       /\ current' = [current EXCEPT ![r] = p]
       /\ UNCHANGED <<tradeLock, dayLock, snapshot, sum>>

\* Mutant: the trades of the KOL in every mint.
TradesOfKol(p) == log

\* TRADES_SQL, what is committed when the statement starts.
TradesSql(p) == LogOf(p)

ReadTrades(r) ==
    /\ Step(r, "locked", "read")
    /\ snapshot' = [snapshot EXCEPT ![r] = TradesSql(current[r])]
    /\ UNCHANGED <<locks, todo, current, sum>>

\* The sells whose rows the replay writes.
RealizedRows(r) ==
    {t \in Sells \cap TradesOf(current[r]) : snapshot[r][t] # "absent"}

WriteRealized(r) ==
    /\ current[r] \notin Poison
    /\ Step(r, "read", "written")
    /\ \A t \in RealizedRows(r) : Free(tradeLock[t])
    /\ tradeLock' = [t \in Trades |-> IF t \in RealizedRows(r) THEN r ELSE tradeLock[t]]
    /\ UNCHANGED <<positionLock, dayLock, todo, current, snapshot, sum>>

\* Mutant: the days are added up before the contribution is replaced.
SumBefore(r) == Contributions(view)

\* refreshDaily's SELECT: what is committed, and the transaction's own rows.
SumAfter(r) == Contributions([view EXCEPT ![current[r]] = snapshot[r]])

\* The days this replay adds to or takes from: none without a sell.
TouchesDays(r) == Sold(view[current[r]]) \/ Sold(snapshot[r])

SkipDays(r) ==
    /\ ~TouchesDays(r)
    /\ Step(r, "written", "counted")
    /\ UNCHANGED <<locks, todo, current, snapshot, sum>>

SumDays(r) ==
    /\ TouchesDays(r)
    /\ Step(r, "written", "summed")
    /\ sum' = [sum EXCEPT ![r] = SumAfter(r)]
    /\ UNCHANGED <<locks, todo, current, snapshot>>

\* ... ON CONFLICT DO UPDATE SET ... = EXCLUDED: the row is locked after the
\* sum was read, and what is written is the sum that was read.
LockDay(r) ==
    /\ Step(r, "summed", "counted")
    /\ Free(dayLock)
    /\ dayLock' = r
    /\ UNCHANGED <<tradeLock, positionLock, todo, current, snapshot, sum>>

EndReplay(r) ==
    /\ Release(r)
    /\ current' = [current EXCEPT ![r] = AnyPosition]
    /\ snapshot' = [snapshot EXCEPT ![r] = Nothing]
    /\ sum' = [sum EXCEPT ![r] = Nothing]

CommitReplay(r) ==
    LET p == current[r]
    IN /\ rAt[r] = "counted"
       /\ rAt' = [rAt EXCEPT ![r] = "next"]
       /\ view' = [view EXCEPT ![p] = snapshot[r]]
       /\ dirty' = [dirty EXCEPT ![p] = FALSE]
       /\ daily' = IF dayLock = r THEN sum[r] ELSE daily
       /\ EndReplay(r)
       /\ UNCHANGED <<log, advisory, writers, todo, faults>>

InReplay(r) == rAt[r] \in {"locked", "read", "written", "summed", "counted"}

\* Mutant: the first failure ends the run.
StopsRun(r) == rAt' = [rAt EXCEPT ![r] = "idle"] /\ advisory' = NoOne

\* One position that cannot be replayed must not stop the others.
GoesOn(r) == rAt' = [rAt EXCEPT ![r] = "next"] /\ UNCHANGED advisory

RollbackReplay(r) ==
    /\ InReplay(r)
    /\ GoesOn(r)
    /\ EndReplay(r)
    /\ UNCHANGED <<tables, writers, todo>>

FailReplay(r) ==
    /\ faults < MaxFaults
    /\ faults' = faults + 1
    /\ RollbackReplay(r)

FailPoison(r) ==
    /\ rAt[r] = "read"
    /\ current[r] \in Poison
    /\ RollbackReplay(r)
    /\ UNCHANGED faults

EndRun(r) ==
    /\ todo[r] = {}
    /\ rAt[r] = "next"
    /\ rAt' = [rAt EXCEPT ![r] = "idle"]
    /\ advisory' = IF advisory = r THEN NoOne ELSE advisory
    /\ UNCHANGED <<tables, locks, writers, todo, current, snapshot, sum, faults>>

\* The process dies: PostgreSQL ends both of its sessions.
Crash(r) ==
    /\ faults < MaxFaults
    /\ faults' = faults + 1
    /\ rAt[r] # "idle"
    /\ EndReplay(r)
    /\ rAt' = [rAt EXCEPT ![r] = "idle"]
    /\ todo' = [todo EXCEPT ![r] = {}]
    /\ advisory' = IF advisory = r THEN NoOne ELSE advisory
    /\ UNCHANGED <<tables, writers>>

\* The idle connection of withLock drops; its error handler says nothing, and
\* the function it was guarding goes on.
DropLock(r) ==
    /\ LockCanDrop
    /\ faults < MaxFaults
    /\ faults' = faults + 1
    /\ advisory = r
    /\ advisory' = NoOne
    /\ UNCHANGED <<tables, locks, writers, replayers>>

-----------------------------------------------------------------------------
\* backfillPrices holds the row of a sell and waits for its position, the
\* replay holds the position and waits for the row of the sell.
Deadlocked(w, r) ==
    /\ wAt[w] = "changed"
    /\ tradeLock[wTrade[w]] = w
    /\ positionLock[PositionOf[wTrade[w]]] = r
    /\ rAt[r] = "read"
    /\ wTrade[w] \in RealizedRows(r)

\* PostgreSQL's deadlock detector ends one of the two transactions.
Detect(w, r) ==
    /\ Deadlocked(w, r)
    /\ RollbackWrite(w) \/ RollbackReplay(r)
    /\ UNCHANGED faults

Write(w) ==
    \/ \E t \in Trades :
          \/ \E state \in TradeState : InsertTrade(w, t, state)
          \/ InsertAgain(w, t)
          \/ PriceTrade(w, t)
    \/ MarkDirty(w)
    \/ CommitWrite(w)
    \/ AbortWrite(w)

Recompute(r) ==
    \/ StartRun(r) \/ LockPosition(r) \/ ReadTrades(r) \/ WriteRealized(r)
    \/ SkipDays(r) \/ SumDays(r) \/ LockDay(r) \/ CommitReplay(r)
    \/ FailPoison(r) \/ FailReplay(r) \/ EndRun(r) \/ Crash(r) \/ DropLock(r)

Next ==
    \/ \E w \in Writers : Write(w)
    \/ \E r \in Replayers : Recompute(r)
    \/ \E w \in Writers, r \in Replayers : Detect(w, r)

Spec == Init /\ [][Next]_vars

\* What a replayer does without waiting for anyone.
Proceed(r) ==
    \/ ReadTrades(r) \/ SkipDays(r) \/ SumDays(r) \/ CommitReplay(r)
    \/ FailPoison(r) \/ EndRun(r)

\* Every statement that is sent is executed; a row lock is granted in the order
\* in which it was asked for, so no session waits for ever for one that others
\* keep releasing; the cron starts a run again and again; the detector looks
\* at every wait.  Nothing is assumed of new trades, or of faults.
Fairness ==
    /\ WF_vars(\E r \in Replayers : StartRun(r))
    /\ \A r \in Replayers :
          /\ WF_vars(Proceed(r))
          /\ SF_vars(LockPosition(r)) /\ SF_vars(WriteRealized(r)) /\ SF_vars(LockDay(r))
    /\ \A w \in Writers : WF_vars(CommitWrite(w)) /\ SF_vars(MarkDirty(w))
    /\ WF_vars(\E w \in Writers, r \in Replayers : Detect(w, r))

-----------------------------------------------------------------------------
\* The tables, the locks and the sessions keep their types.
TypeOK ==
    /\ log \in [Trades -> TradeState]
    /\ dirty \in [Positions -> BOOLEAN]
    /\ view = [p \in Positions |-> view[p]]
    /\ \A p \in Positions : view[p] \in [TradesOf(p) -> TradeState]
    /\ daily = [p \in Positions |-> daily[p]]
    /\ \A p \in Positions : daily[p] \in [TradesOf(p) -> TradeState]
    /\ tradeLock \in [Trades -> Sessions \cup {NoOne}]
    /\ positionLock \in [Positions -> Sessions \cup {NoOne}]
    /\ dayLock \in Replayers \cup {NoOne}
    /\ advisory \in Replayers \cup {NoOne}
    /\ wAt \in [Writers -> {"idle", "changed", "marked"}]
    /\ wTrade \in [Writers -> Trades] /\ wState \in [Writers -> TradeState]
    /\ rAt \in [Replayers -> {"idle", "next", "locked", "read", "written",
                              "summed", "counted"}]
    /\ todo \in [Replayers -> SUBSET Positions]
    /\ current \in [Replayers -> Positions]
    /\ DOMAIN snapshot = Replayers /\ DOMAIN sum = Replayers
    /\ faults \in 0 .. MaxFaults

\* A position whose derived rows are not those of its trades is marked dirty:
\* no interleaving of a replay with writers, and no crash, clears a mark with
\* a trade unread behind it (pnl.ts:371-377).
CleanIsCurrent == \A p \in Positions : dirty[p] \/ view[p] = LogOf(p)

\* pnl_daily is the sum of every position's contribution (pnl.ts:535-541).
DailyIsSum == daily = Contributions(view)

\* The statements of the replay implement one atomic refresh: uncommitted work,
\* locks and sessions are what the mapping forgets.
View == INSTANCE DerivedView WITH log <- log, dirty <- dirty, view <- view
ImplementsView == View!Spec

\* A position that can be replayed does not stay dirty, as long as those that
\* cannot do not fill a whole run.
EventuallyReplayed ==
    \A p \in Positions \ Poison : dirty[p] ~> ~dirty[p]
=============================================================================
