---------------------------- MODULE ReplayProofs ----------------------------
(***************************************************************************)
(* What Replay promises for any number of trades, positions, writers and   *)
(* replayers: no mark is lost, one replay is one refresh, and as long as   *)
(* withLock does exclude a second run, pnl_daily is the sum it should be.  *)
(***************************************************************************)
EXTENDS Replay, TLAPS

\* A value pnl_daily may hold.
IsDaily(d) ==
    /\ d = [p \in Positions |-> d[p]]
    /\ \A p \in Positions : d[p] \in [TradesOf(p) -> TradeState]

\* A transaction that has marked its position has it locked, and the row it has
\* locked is still as it found it.
WritersOK ==
    \A w \in Writers :
       /\ wAt[w] = "marked" => positionLock[PositionOf[wTrade[w]]] = w
       /\ wAt[w] # "idle" /\ tradeLock[wTrade[w]] = w =>
             \/ log[wTrade[w]] = "absent" /\ wState[w] # "absent"
             \/ log[wTrade[w]] = "unpriced" /\ wState[w] = "priced"

HasRead(r) == rAt[r] \in {"read", "written", "summed", "counted"}

\* A replay has its position locked from the first statement on, so what it has
\* read of the position's trades is what is there.
ReplayersOK ==
    \A r \in Replayers :
       /\ InReplay(r) => positionLock[current[r]] = r
       /\ HasRead(r) => snapshot[r] = LogOf(current[r])
       /\ dayLock = r => rAt[r] = "counted"
       /\ rAt[r] = "summed" \/ dayLock = r => IsDaily(sum[r])

IInv == TypeOK /\ WritersOK /\ ReplayersOK /\ CleanIsCurrent

-----------------------------------------------------------------------------
\* What a session holds between transactions is of the right type.
LEMMA AnyType == AnyTrade \in Trades /\ AnyPosition \in Positions
  BY StoreAssumption DEF AnyTrade, AnyPosition

\* The trades of one position are rows of the log.
LEMMA LogOfType ==
    ASSUME NEW p \in Positions, log \in [Trades -> TradeState]
    PROVE  LogOf(p) \in [TradesOf(p) -> TradeState]
  BY DEF LogOf, TradesOf

\* A contribution is a function like the view it comes from.
LEMMA ContributionType ==
    ASSUME NEW S, NEW v \in [S -> TradeState]
    PROVE  Contribution(v) \in [S -> TradeState]
  BY DEF Contribution, TradeState

\* Releasing its locks leaves those of every other session as they are.
LEMMA ReleaseType ==
    ASSUME TypeOK, NEW s \in Sessions, Release(s)
    PROVE  /\ tradeLock' \in [Trades -> Sessions \cup {NoOne}]
           /\ positionLock' \in [Positions -> Sessions \cup {NoOne}]
           /\ dayLock' \in Replayers \cup {NoOne}
  BY DEF TypeOK, Release

\* A transaction of a writer that ends leaves everything well typed.
LEMMA EndWriteType ==
    ASSUME TypeOK, NEW w \in Writers, EndWrite(w)
    PROVE  /\ tradeLock' \in [Trades -> Sessions \cup {NoOne}]
           /\ positionLock' \in [Positions -> Sessions \cup {NoOne}]
           /\ dayLock' \in Replayers \cup {NoOne}
           /\ wAt' \in [Writers -> {"idle", "changed", "marked"}]
           /\ wTrade' \in [Writers -> Trades]
           /\ wState' \in [Writers -> TradeState]
<1>1. w \in Sessions
  BY DEF Sessions
<1>2. /\ tradeLock' \in [Trades -> Sessions \cup {NoOne}]
      /\ positionLock' \in [Positions -> Sessions \cup {NoOne}]
      /\ dayLock' \in Replayers \cup {NoOne}
  BY <1>1, ReleaseType DEF EndWrite
<1> QED
  BY <1>2, AnyType DEF TypeOK, EndWrite, TradeState

\* A transaction of a replayer that ends leaves everything well typed.
LEMMA EndReplayType ==
    ASSUME TypeOK, NEW r \in Replayers, EndReplay(r)
    PROVE  /\ tradeLock' \in [Trades -> Sessions \cup {NoOne}]
           /\ positionLock' \in [Positions -> Sessions \cup {NoOne}]
           /\ dayLock' \in Replayers \cup {NoOne}
           /\ current' \in [Replayers -> Positions]
           /\ DOMAIN snapshot' = Replayers /\ DOMAIN sum' = Replayers
<1>1. r \in Sessions
  BY DEF Sessions
<1>2. /\ tradeLock' \in [Trades -> Sessions \cup {NoOne}]
      /\ positionLock' \in [Positions -> Sessions \cup {NoOne}]
      /\ dayLock' \in Replayers \cup {NoOne}
  BY <1>1, ReleaseType DEF EndReplay
<1> QED
  BY <1>2, AnyType DEF TypeOK, EndReplay

-----------------------------------------------------------------------------
\* Empty tables satisfy the invariant: every view is that of no trades.
LEMMA InitOK == Init => IInv
<1> SUFFICES ASSUME Init PROVE IInv
  OBVIOUS
<1>1. \A p \in Positions : view[p] = LogOf(p) /\ LogOf(p) \in [TradesOf(p) -> TradeState]
  BY LogOfType DEF Init, TradeState
<1>2. \A p \in Positions : /\ daily[p] = Contribution(view[p])
                           /\ daily[p] \in [TradesOf(p) -> TradeState]
  BY <1>1, ContributionType DEF Init, Contributions
<1>3. TypeOK
  <2>1. /\ log \in [Trades -> TradeState] /\ dirty \in [Positions -> BOOLEAN]
        /\ tradeLock \in [Trades -> Sessions \cup {NoOne}]
        /\ positionLock \in [Positions -> Sessions \cup {NoOne}]
        /\ dayLock \in Replayers \cup {NoOne} /\ advisory \in Replayers \cup {NoOne}
    BY DEF Init, TradeState
  <2>2. view = [p \in Positions |-> view[p]] /\ daily = [p \in Positions |-> daily[p]]
    BY DEF Init, Contributions
  <2>3. /\ wAt \in [Writers -> {"idle", "changed", "marked"}]
        /\ wTrade \in [Writers -> Trades] /\ wState \in [Writers -> TradeState]
    BY AnyType DEF Init, TradeState
  <2>4. /\ rAt \in [Replayers -> {"idle", "next", "locked", "read", "written",
                                  "summed", "counted"}]
        /\ todo \in [Replayers -> SUBSET Positions]
        /\ current \in [Replayers -> Positions]
        /\ DOMAIN snapshot = Replayers /\ DOMAIN sum = Replayers
        /\ faults \in 0 .. MaxFaults
    BY AnyType, SessionAssumption DEF Init
  <2> QED
    BY <1>1, <1>2, <2>1, <2>2, <2>3, <2>4 DEF TypeOK
<1>4. WritersOK /\ ReplayersOK
  BY SessionAssumption DEF Init, WritersOK, ReplayersOK, InReplay, HasRead
<1> QED
  BY <1>1, <1>3, <1>4 DEF IInv, CleanIsCurrent

\* The first statement of a writer locks one free row and changes no table.
LEMMA BeginOK ==
    ASSUME IInv, NEW w \in Writers, NEW t \in Trades, NEW state \in TradeState,
           Begin(w, t, state),
           \/ /\ tradeLock' = [tradeLock EXCEPT ![t] = w]
              /\ \/ log[t] = "absent" /\ state # "absent"
                 \/ log[t] = "unpriced" /\ state = "priced"
           \/ UNCHANGED tradeLock
    PROVE  IInv'
<1> USE SessionAssumption DEF IInv
<1>1. TypeOK'
  BY DEF TypeOK, Begin, tables, replayers, Sessions
<1>2. WritersOK'
  BY DEF TypeOK, WritersOK, Begin, tables, replayers, Free, Sessions
<1>3. ReplayersOK'
  BY DEF ReplayersOK, Begin, tables, replayers, InReplay, HasRead, LogOf, IsDaily
<1>4. CleanIsCurrent'
  BY DEF CleanIsCurrent, Begin, tables, LogOf
<1> QED
  BY <1>1, <1>2, <1>3, <1>4

\* Marking a position takes its row lock.
LEMMA MarkDirtyOK ==
    ASSUME IInv, NEW w \in Writers, MarkDirty(w)
    PROVE  IInv'
<1> USE SessionAssumption, StoreAssumption DEF IInv
<1>1. TypeOK'
  BY DEF TypeOK, MarkDirty, tables, replayers, Sessions
<1>2. WritersOK'
  BY DEF TypeOK, WritersOK, MarkDirty, tables, replayers, Free, Sessions
<1>3. ReplayersOK'
  <2>1. UNCHANGED <<log, dayLock, rAt, current, snapshot, sum>>
    BY DEF MarkDirty, tables, replayers
  <2>2. ASSUME NEW r \in Replayers, InReplay(r) PROVE positionLock'[current[r]] = r
    BY <2>2 DEF TypeOK, ReplayersOK, MarkDirty, Free
  <2> QED
    BY <2>1, <2>2 DEF ReplayersOK, InReplay, HasRead, LogOf, IsDaily
<1>4. CleanIsCurrent'
  BY DEF CleanIsCurrent, MarkDirty, tables, LogOf
<1> QED
  BY <1>1, <1>2, <1>3, <1>4

\* Ending a transaction of a writer takes nothing from anyone else.
LEMMA OthersKeepLocks ==
    ASSUME TypeOK, NEW s \in Sessions, Release(s)
    PROVE  /\ \A p \in Positions, x \in Sessions :
                 x # s /\ positionLock[p] = x => positionLock'[p] = x
           /\ \A t \in Trades, x \in Sessions :
                 x # s => (tradeLock'[t] = x <=> tradeLock[t] = x)
           /\ \A x \in Replayers : x # s => (dayLock' = x <=> dayLock = x)
           /\ dayLock' # s
           /\ \A p \in Positions : positionLock'[p] # s
           /\ \A t \in Trades : tradeLock'[t] # s
  BY SessionAssumption DEF TypeOK, Release, Sessions

\* The end of a writer's transaction takes nothing from a replay in progress.
LEMMA WriterEndKeepsReplayers ==
    ASSUME IInv, NEW w \in Writers, EndWrite(w),
           UNCHANGED <<rAt, current, snapshot, sum>>,
           \A p \in Positions : positionLock[p] # w => LogOf(p)' = LogOf(p)
    PROVE  ReplayersOK'
<1> USE SessionAssumption DEF IInv
<1>1. w \in Sessions /\ \A r \in Replayers : r \in Sessions /\ r # w
  BY DEF Sessions
<1>2. ASSUME NEW r \in Replayers, InReplay(r)
      PROVE  positionLock'[current[r]] = r /\ LogOf(current[r])' = LogOf(current[r])
  <2>1. current[r] \in Positions /\ positionLock[current[r]] = r
    BY <1>2 DEF TypeOK, ReplayersOK
  <2> QED
    BY <1>1, <2>1, OthersKeepLocks DEF EndWrite
<1>3. \A r \in Replayers : dayLock' = r <=> dayLock = r
  BY <1>1, OthersKeepLocks DEF EndWrite
<1> QED
  BY <1>2, <1>3 DEF ReplayersOK, InReplay, HasRead, IsDaily

\* A transaction that is rolled back leaves the tables as they were.
LEMMA RollbackWriteOK ==
    ASSUME IInv, NEW w \in Writers, RollbackWrite(w), faults' \in 0 .. MaxFaults
    PROVE  IInv'
<1> USE SessionAssumption DEF IInv
<1>1. w \in Sessions /\ EndWrite(w) /\ UNCHANGED <<log, dirty, view, daily>>
  BY DEF Sessions, RollbackWrite, tables
<1>2. TypeOK'
  BY <1>1, EndWriteType DEF TypeOK, RollbackWrite, tables, replayers
<1>3. WritersOK'
  <2>1. \A x \in Writers : x \in Sessions
    BY DEF Sessions
  <2>2. ASSUME NEW x \in Writers, x # w
        PROVE  wAt'[x] = wAt[x] /\ wTrade'[x] = wTrade[x] /\ wState'[x] = wState[x]
    BY <1>1, <2>2 DEF TypeOK, EndWrite
  <2>3. wAt'[w] = "idle"
    BY <1>1 DEF TypeOK, EndWrite
  <2> QED
    BY <1>1, <2>1, <2>2, <2>3, OthersKeepLocks, StoreAssumption
       DEF TypeOK, WritersOK, EndWrite
<1>4. ReplayersOK'
  BY <1>1, WriterEndKeepsReplayers DEF RollbackWrite, replayers, LogOf
<1>5. CleanIsCurrent'
  BY <1>1 DEF CleanIsCurrent, LogOf
<1> QED
  BY <1>2, <1>3, <1>4, <1>5

\* A commit changes one position's trades, marks it, and had it locked.
LEMMA CommitWriteOK ==
    ASSUME IInv, NEW w \in Writers, CommitWrite(w)
    PROVE  IInv'
<1> USE SessionAssumption DEF IInv
<1> DEFINE t == wTrade[w]
<1>1. /\ w \in Sessions /\ EndWrite(w) /\ UNCHANGED <<view, daily, advisory, faults>>
      /\ UNCHANGED <<rAt, todo, current, snapshot, sum>>
  BY DEF Sessions, CommitWrite, replayers
<1>2. t \in Trades /\ PositionOf[t] \in Positions /\ positionLock[PositionOf[t]] = w
  BY StoreAssumption DEF TypeOK, WritersOK, CommitWrite
<1>3. /\ log' \in [Trades -> TradeState]
      /\ dirty' = [dirty EXCEPT ![PositionOf[t]] = TRUE]
      /\ \A u \in Trades : u # t => log'[u] = log[u]
      /\ tradeLock[t] # w => log' = log
  BY <1>2 DEF TypeOK, CommitWrite, Marks
<1>4. TypeOK'
  BY <1>1, <1>2, <1>3, EndWriteType DEF TypeOK
<1>5. \A p \in Positions : p # PositionOf[t] => LogOf(p)' = LogOf(p)
  BY <1>3 DEF LogOf, TradesOf
<1>6. WritersOK'
  <2> SUFFICES ASSUME NEW x \in Writers, x # w
               PROVE  /\ wAt'[x] = "marked" => positionLock'[PositionOf[wTrade'[x]]] = x
                      /\ wAt'[x] # "idle" /\ tradeLock'[wTrade'[x]] = x =>
                           \/ log'[wTrade'[x]] = "absent" /\ wState'[x] # "absent"
                           \/ log'[wTrade'[x]] = "unpriced" /\ wState'[x] = "priced"
    <3>1. wAt'[w] = "idle"
      BY <1>1 DEF TypeOK, EndWrite
    <3> QED
      BY <3>1 DEF WritersOK
  <2>1. wAt'[x] = wAt[x] /\ wTrade'[x] = wTrade[x] /\ wState'[x] = wState[x]
    BY <1>1 DEF TypeOK, EndWrite
  <2>2. x \in Sessions /\ wTrade[x] \in Trades /\ PositionOf[wTrade[x]] \in Positions
    BY StoreAssumption DEF TypeOK, Sessions
  <2>3. wAt[x] = "marked" => positionLock'[PositionOf[wTrade[x]]] = x
    BY <1>1, <2>2, OthersKeepLocks DEF WritersOK, EndWrite
  <2>4. tradeLock'[wTrade[x]] = x <=> tradeLock[wTrade[x]] = x
    BY <1>1, <2>2, OthersKeepLocks DEF EndWrite
  <2>5. tradeLock[wTrade[x]] = x => log'[wTrade[x]] = log[wTrade[x]]
    BY <1>3, <2>2
  <2> QED
    BY <2>1, <2>3, <2>4, <2>5 DEF WritersOK
<1>7. ReplayersOK'
  BY <1>1, <1>2, <1>5, WriterEndKeepsReplayers
<1>8. CleanIsCurrent'
  BY <1>1, <1>2, <1>3, <1>5 DEF TypeOK, CleanIsCurrent
<1> QED
  BY <1>4, <1>6, <1>7, <1>8

-----------------------------------------------------------------------------
\* A replayer that takes no lock from a writer, and no table, leaves the
\* writers' part of the invariant alone.
LEMMA WritersKept ==
    ASSUME IInv, UNCHANGED <<log, wAt, wTrade, wState>>,
           \A w \in Writers, p \in Positions : positionLock[p] = w => positionLock'[p] = w,
           \A w \in Writers, t \in Trades : tradeLock'[t] = w => tradeLock[t] = w
    PROVE  WritersOK'
<1>1. \A w \in Writers : wTrade[w] \in Trades /\ PositionOf[wTrade[w]] \in Positions
  BY StoreAssumption DEF IInv, TypeOK
<1> QED
  BY <1>1 DEF IInv, WritersOK

\* ... and what is left of the replayers' part is what it says of itself.
LEMMA OthersKept ==
    ASSUME IInv, NEW r \in Replayers, UNCHANGED log,
           \A s \in Replayers \ {r} :
              /\ rAt'[s] = rAt[s] /\ current'[s] = current[s]
              /\ snapshot'[s] = snapshot[s] /\ sum'[s] = sum[s]
              /\ positionLock[current[s]] = s => positionLock'[current[s]] = s
              /\ dayLock' = s => dayLock = s,
           InReplay(r)' => positionLock'[current'[r]] = r,
           HasRead(r)' => snapshot'[r] = LogOf(current'[r]),
           dayLock' = r => rAt'[r] = "counted",
           rAt'[r] = "summed" \/ dayLock' = r => IsDaily(sum'[r])
    PROVE  ReplayersOK'
<1>1. LogOf(current[r])' = LogOf(current'[r])
  BY DEF LogOf
<1>2. ASSUME NEW s \in Replayers, s # r
      PROVE  /\ InReplay(s)' => positionLock'[current'[s]] = s
             /\ HasRead(s)' => snapshot'[s] = LogOf(current[s])'
             /\ dayLock' = s => rAt'[s] = "counted"
             /\ rAt'[s] = "summed" \/ dayLock' = s => IsDaily(sum'[s])
  BY <1>2 DEF IInv, ReplayersOK, InReplay, HasRead, LogOf
<1> QED
  BY <1>1, <1>2 DEF ReplayersOK, IsDaily

\* Starting a run takes only the advisory lock.
LEMMA StartRunOK ==
    ASSUME IInv, NEW r \in Replayers, StartRun(r)
    PROVE  IInv'
<1>1. /\ UNCHANGED <<log, dirty, view, daily, tradeLock, positionLock, dayLock>>
      /\ UNCHANGED <<wAt, wTrade, wState, current, snapshot, sum, faults>>
      /\ rAt' = [rAt EXCEPT ![r] = "next"] /\ advisory' = r
      /\ todo' = [todo EXCEPT ![r] = DirtyList]
      /\ rAt[r] = "idle"
  BY DEF StartRun, tables, locks, writers
<1>2. TypeOK'
  BY <1>1 DEF IInv, TypeOK, DirtyList
<1>3. WritersOK'
  BY <1>1, WritersKept
<1>4. ReplayersOK'
  BY <1>1 DEF IInv, TypeOK, ReplayersOK, InReplay, HasRead, LogOf, IsDaily
<1>5. CleanIsCurrent'
  BY <1>1 DEF IInv, CleanIsCurrent, LogOf
<1> QED
  BY <1>2, <1>3, <1>4, <1>5 DEF IInv

\* The replay of a position begins: it takes a row lock nobody had.
LEMMA LockPositionOK ==
    ASSUME IInv, NEW r \in Replayers, LockPosition(r)
    PROVE  IInv'
<1>1. PICK p \in todo[r] :
         /\ Step(r, "next", "locked") /\ Free(positionLock[p])
         /\ positionLock' = [positionLock EXCEPT ![p] = r]
         /\ todo' = [todo EXCEPT ![r] = @ \ {p}]
         /\ current' = [current EXCEPT ![r] = p]
         /\ UNCHANGED <<tradeLock, dayLock, snapshot, sum>>
  BY DEF LockPosition
<1>2. p \in Positions /\ positionLock[p] = NoOne
  BY <1>1 DEF IInv, TypeOK, Free
<1>3. /\ UNCHANGED <<log, dirty, view, daily, advisory, wAt, wTrade, wState, faults>>
      /\ rAt' = [rAt EXCEPT ![r] = "locked"] /\ rAt[r] = "next"
  BY <1>1 DEF Step, tables, writers
<1>4. TypeOK'
  BY <1>1, <1>2, <1>3 DEF IInv, TypeOK, Sessions
<1>5. WritersOK'
  <2>1. \A w \in Writers, q \in Positions : positionLock[q] = w => positionLock'[q] = w
    BY <1>1, <1>2, SessionAssumption DEF IInv, TypeOK
  <2> QED
    BY <1>1, <1>3, <2>1, WritersKept
<1>6. ReplayersOK'
  <2>1. \A s \in Replayers \ {r} :
           positionLock[current[s]] = s => positionLock'[current[s]] = s
    BY <1>1, <1>2, SessionAssumption DEF IInv, TypeOK
  <2>2. positionLock'[current'[r]] = r
    BY <1>1, <1>2 DEF IInv, TypeOK
  <2>3. dayLock # r /\ rAt'[r] = "locked"
    BY <1>3 DEF IInv, TypeOK, ReplayersOK
  <2> QED
    BY <1>1, <1>3, <2>1, <2>2, <2>3, OthersKept DEF IInv, TypeOK, HasRead
<1>7. CleanIsCurrent'
  BY <1>3 DEF IInv, CleanIsCurrent, LogOf
<1> QED
  BY <1>4, <1>5, <1>6, <1>7 DEF IInv

\* A step of a replay in which only the replay's own variables change.
LEMMA OwnStepOK ==
    ASSUME IInv, NEW r \in Replayers, NEW from, NEW to, Step(r, from, to),
           from \in {"locked", "read", "written", "summed", "counted"},
           to \in {"read", "written", "summed", "counted"},
           UNCHANGED <<positionLock, todo, current>>,
           tradeLock' \in [Trades -> Sessions \cup {NoOne}],
           \A w \in Writers, t \in Trades : tradeLock'[t] = w => tradeLock[t] = w,
           DOMAIN snapshot' = Replayers, DOMAIN sum' = Replayers,
           \A s \in Replayers \ {r} : snapshot'[s] = snapshot[s] /\ sum'[s] = sum[s],
           snapshot'[r] = LogOf(current[r]),
           to = "summed" => IsDaily(sum'[r]),
           \/ dayLock' = dayLock /\ from # "counted"
           \/ dayLock' = r /\ to = "counted" /\ IsDaily(sum'[r])
    PROVE  IInv'
<1>1. /\ UNCHANGED <<log, dirty, view, daily, advisory, wAt, wTrade, wState, faults>>
      /\ rAt' = [rAt EXCEPT ![r] = to] /\ rAt[r] = from
  BY DEF Step, tables, writers
<1>2. TypeOK'
  <2>1. rAt' \in [Replayers -> {"idle", "next", "locked", "read", "written",
                                "summed", "counted"}]
    BY <1>1 DEF IInv, TypeOK
  <2>2. dayLock' \in Replayers \cup {NoOne}
    BY DEF IInv, TypeOK
  <2> QED
    BY <1>1, <2>1, <2>2 DEF IInv, TypeOK
<1>3. WritersOK'
  BY <1>1, WritersKept
<1>4. ReplayersOK'
  <2>1. \A s \in Replayers \ {r} : rAt'[s] = rAt[s] /\ (dayLock' = s => dayLock = s)
    BY <1>1 DEF IInv, TypeOK
  <2>2. positionLock'[current'[r]] = r
    BY <1>1 DEF IInv, ReplayersOK, InReplay
  <2>3. rAt'[r] = to
    BY <1>1 DEF IInv, TypeOK
  <2>4. /\ dayLock' = r => rAt'[r] = "counted"
        /\ rAt'[r] = "summed" \/ dayLock' = r => IsDaily(sum'[r])
    BY <1>1, <2>3 DEF IInv, ReplayersOK
  <2> QED
    BY <1>1, <2>1, <2>2, <2>4, OthersKept DEF LogOf
<1>5. CleanIsCurrent'
  BY <1>1 DEF IInv, CleanIsCurrent, LogOf
<1> QED
  BY <1>2, <1>3, <1>4, <1>5 DEF IInv

\* The statements of a replay before its commit.
LEMMA ReadTradesOK ==
    ASSUME IInv, NEW r \in Replayers, ReadTrades(r)
    PROVE  IInv'
<1>1. /\ Step(r, "locked", "read") /\ UNCHANGED <<tradeLock, positionLock, dayLock, todo, current, sum>>
      /\ snapshot' = [snapshot EXCEPT ![r] = LogOf(current[r])]
  BY DEF ReadTrades, TradesSql, locks
<1>2. DOMAIN snapshot = Replayers /\ DOMAIN sum = Replayers
      /\ tradeLock \in [Trades -> Sessions \cup {NoOne}]
  BY DEF IInv, TypeOK
<1> QED
  BY <1>1, <1>2, OwnStepOK

\* The figures on the sells: the replay takes the locks of their rows.
LEMMA WriteRealizedOK ==
    ASSUME IInv, NEW r \in Replayers, WriteRealized(r)
    PROVE  IInv'
<1>1. /\ Step(r, "read", "written")
      /\ tradeLock' = [t \in Trades |-> IF t \in RealizedRows(r) THEN r ELSE tradeLock[t]]
      /\ UNCHANGED <<positionLock, dayLock, todo, current, snapshot, sum>>
  BY DEF WriteRealized
<1>2. /\ DOMAIN snapshot = Replayers /\ DOMAIN sum = Replayers
      /\ tradeLock \in [Trades -> Sessions \cup {NoOne}]
  BY DEF IInv, TypeOK
<1>3. snapshot[r] = LogOf(current[r])
  BY <1>1 DEF IInv, ReplayersOK, HasRead, Step
<1>4. /\ tradeLock' \in [Trades -> Sessions \cup {NoOne}]
      /\ \A w \in Writers, t \in Trades : tradeLock'[t] = w => tradeLock[t] = w
  BY <1>1, <1>2, SessionAssumption DEF Sessions
<1> QED
  BY <1>1, <1>2, <1>3, <1>4, OwnStepOK

\* A replay without sells goes on to its commit.
LEMMA SkipDaysOK ==
    ASSUME IInv, NEW r \in Replayers, SkipDays(r)
    PROVE  IInv'
<1>1. /\ Step(r, "written", "counted")
      /\ UNCHANGED <<tradeLock, positionLock, dayLock, todo, current, snapshot, sum>>
  BY DEF SkipDays, locks
<1>2. /\ DOMAIN snapshot = Replayers /\ DOMAIN sum = Replayers
      /\ tradeLock \in [Trades -> Sessions \cup {NoOne}]
  BY DEF IInv, TypeOK
<1>3. snapshot[r] = LogOf(current[r])
  BY <1>1 DEF IInv, ReplayersOK, HasRead, Step
<1> QED
  BY <1>1, <1>2, <1>3, OwnStepOK

\* What a replay that has read would leave in pnl_daily.
LEMMA SumAfterType ==
    ASSUME IInv, NEW r \in Replayers, HasRead(r)
    PROVE  IsDaily(SumAfter(r))
<1> DEFINE after == [view EXCEPT ![current[r]] = snapshot[r]]
<1>1. current[r] \in Positions /\ snapshot[r] \in [TradesOf(current[r]) -> TradeState]
  BY LogOfType DEF IInv, TypeOK, ReplayersOK
<1>2. \A p \in Positions : after[p] \in [TradesOf(p) -> TradeState]
  BY <1>1 DEF IInv, TypeOK
<1>3. \A p \in Positions : Contribution(after[p]) \in [TradesOf(p) -> TradeState]
  BY <1>2, ContributionType
<1>4. SumAfter(r) = [p \in Positions |-> Contribution(after[p])]
  BY DEF SumAfter, Contributions
<1> HIDE DEF after
<1> QED
  BY <1>3, <1>4 DEF IsDaily

\* Reading the sum of a day changes only what the run remembers.
LEMMA SumDaysOK ==
    ASSUME IInv, NEW r \in Replayers, SumDays(r)
    PROVE  IInv'
<1>1. /\ Step(r, "written", "summed")
      /\ UNCHANGED <<tradeLock, positionLock, dayLock, todo, current, snapshot>>
      /\ sum' = [sum EXCEPT ![r] = SumAfter(r)]
  BY DEF SumDays, locks
<1>2. /\ DOMAIN snapshot = Replayers /\ DOMAIN sum = Replayers
      /\ tradeLock \in [Trades -> Sessions \cup {NoOne}]
  BY DEF IInv, TypeOK
<1>3. HasRead(r) /\ snapshot[r] = LogOf(current[r])
  BY <1>1 DEF IInv, ReplayersOK, HasRead, Step
<1>4. sum'[r] = SumAfter(r) /\ IsDaily(SumAfter(r))
  BY <1>1, <1>2, <1>3, SumAfterType
<1>5. IsDaily(sum'[r]) /\ DOMAIN sum' = Replayers
      /\ \A s \in Replayers \ {r} : sum'[s] = sum[s]
  BY <1>1, <1>2, <1>4
<1> QED
  BY <1>1, <1>2, <1>3, <1>5, OwnStepOK

\* The lock of the day goes to a replay that has its sum.
LEMMA LockDayOK ==
    ASSUME IInv, NEW r \in Replayers, LockDay(r)
    PROVE  IInv'
<1>1. /\ Step(r, "summed", "counted") /\ dayLock' = r
      /\ UNCHANGED <<tradeLock, positionLock, todo, current, snapshot, sum>>
  BY DEF LockDay
<1>2. /\ DOMAIN snapshot = Replayers /\ DOMAIN sum = Replayers
      /\ tradeLock \in [Trades -> Sessions \cup {NoOne}]
  BY DEF IInv, TypeOK
<1>3. snapshot[r] = LogOf(current[r]) /\ IsDaily(sum[r])
  BY <1>1 DEF IInv, ReplayersOK, HasRead, Step
<1> QED
  BY <1>1, <1>2, <1>3, OwnStepOK

\* The end of a replay, however it ends: its locks are free, and what the other
\* replayers and the writers hold they keep.
LEMMA EndReplayOK ==
    ASSUME IInv, NEW r \in Replayers, EndReplay(r),
           UNCHANGED <<log, wAt, wTrade, wState>>,
           rAt' = [rAt EXCEPT ![r] = "next"] \/ rAt' = [rAt EXCEPT ![r] = "idle"]
    PROVE  WritersOK' /\ ReplayersOK'
<1>1. r \in Sessions /\ Release(r)
  BY DEF Sessions, EndReplay
<1>2. \A s \in Replayers \ {r} :
         /\ rAt'[s] = rAt[s] /\ current'[s] = current[s]
         /\ snapshot'[s] = snapshot[s] /\ sum'[s] = sum[s]
  BY DEF IInv, TypeOK, EndReplay
<1>3. \A s \in Replayers \ {r} :
         /\ positionLock[current[s]] = s => positionLock'[current[s]] = s
         /\ dayLock' = s => dayLock = s
  BY <1>1, OthersKeepLocks DEF IInv, TypeOK, Sessions
<1>4. rAt'[r] \in {"next", "idle"} /\ dayLock' # r
  BY <1>1, OthersKeepLocks DEF IInv, TypeOK
<1>5. ReplayersOK'
  BY <1>2, <1>3, <1>4, OthersKept DEF InReplay, HasRead
<1>6. \A w \in Writers : w \in Sessions /\ w # r
  BY SessionAssumption DEF Sessions
<1>7. WritersOK'
  <2>1. \A w \in Writers, p \in Positions : positionLock[p] = w => positionLock'[p] = w
    BY <1>1, <1>6, OthersKeepLocks DEF IInv
  <2>2. \A w \in Writers, t \in Trades : tradeLock'[t] = w => tradeLock[t] = w
    BY <1>1, <1>6, OthersKeepLocks DEF IInv
  <2> QED
    BY <2>1, <2>2, WritersKept
<1> QED
  BY <1>5, <1>7

\* The mark is cleared with the trades it stood for in the view: the position
\* was locked from before they were read, and a writer needs that lock.
LEMMA CommitReplayOK ==
    ASSUME IInv, NEW r \in Replayers, CommitReplay(r)
    PROVE  IInv'
<1> DEFINE p == current[r]
<1>1. /\ rAt[r] = "counted" /\ rAt' = [rAt EXCEPT ![r] = "next"]
      /\ view' = [view EXCEPT ![p] = snapshot[r]]
      /\ dirty' = [dirty EXCEPT ![p] = FALSE]
      /\ daily' = IF dayLock = r THEN sum[r] ELSE daily
      /\ EndReplay(r)
      /\ UNCHANGED <<log, advisory, wAt, wTrade, wState, todo, faults>>
  BY DEF CommitReplay, writers
<1>2. p \in Positions /\ snapshot[r] = LogOf(p) /\ (dayLock = r => IsDaily(sum[r]))
  BY <1>1 DEF IInv, TypeOK, ReplayersOK, HasRead
<1>3. WritersOK' /\ ReplayersOK'
  BY <1>1, EndReplayOK
<1>4. /\ view' = [q \in Positions |-> view'[q]]
      /\ view'[p] = LogOf(p)
      /\ \A q \in Positions : q # p => view'[q] = view[q]
  BY <1>1, <1>2 DEF IInv, TypeOK
<1>5. \A q \in Positions : view'[q] \in [TradesOf(q) -> TradeState]
  BY <1>2, <1>4, LogOfType DEF IInv, TypeOK
<1>6. IsDaily(daily')
  BY <1>1, <1>2 DEF IInv, TypeOK, IsDaily
<1>7. /\ rAt' \in [Replayers -> {"idle", "next", "locked", "read", "written",
                                 "summed", "counted"}]
      /\ dirty' \in [Positions -> BOOLEAN]
  BY <1>1, <1>2 DEF IInv, TypeOK
<1> HIDE DEF p
<1>8. TypeOK'
  <2>1. /\ tradeLock' \in [Trades -> Sessions \cup {NoOne}]
        /\ positionLock' \in [Positions -> Sessions \cup {NoOne}]
        /\ dayLock' \in Replayers \cup {NoOne}
        /\ current' \in [Replayers -> Positions]
        /\ DOMAIN snapshot' = Replayers /\ DOMAIN sum' = Replayers
    BY <1>1, EndReplayType DEF IInv
  <2>2. /\ daily' = [q \in Positions |-> daily'[q]]
        /\ \A q \in Positions : daily'[q] \in [TradesOf(q) -> TradeState]
    BY <1>6 DEF IsDaily
  <2>3. /\ log' \in [Trades -> TradeState] /\ advisory' \in Replayers \cup {NoOne}
        /\ wAt' \in [Writers -> {"idle", "changed", "marked"}]
        /\ wTrade' \in [Writers -> Trades] /\ wState' \in [Writers -> TradeState]
        /\ todo' \in [Replayers -> SUBSET Positions] /\ faults' \in 0 .. MaxFaults
    BY <1>1 DEF IInv, TypeOK
  <2> QED
    BY <1>4, <1>5, <1>7, <2>1, <2>2, <2>3 DEF TypeOK
<1>9. CleanIsCurrent'
  <2>1. \A q \in Positions : LogOf(q)' = LogOf(q)
    BY <1>1 DEF LogOf
  <2>2. \A q \in Positions : q # p => dirty'[q] = dirty[q]
    BY <1>1 DEF IInv, TypeOK, p
  <2> QED
    BY <1>4, <2>1, <2>2 DEF IInv, CleanIsCurrent
<1> QED
  BY <1>3, <1>8, <1>9 DEF IInv

\* A replay that ends in any other way leaves the tables as they were.
LEMMA LostReplayOK ==
    ASSUME IInv, NEW r \in Replayers, EndReplay(r),
           UNCHANGED <<log, dirty, view, daily, wAt, wTrade, wState>>,
           rAt' = [rAt EXCEPT ![r] = "next"] \/ rAt' = [rAt EXCEPT ![r] = "idle"],
           todo' \in [Replayers -> SUBSET Positions],
           advisory' \in Replayers \cup {NoOne}, faults' \in 0 .. MaxFaults
    PROVE  IInv'
<1>1. WritersOK' /\ ReplayersOK'
  BY EndReplayOK
<1>2. rAt' \in [Replayers -> {"idle", "next", "locked", "read", "written",
                               "summed", "counted"}]
  BY DEF IInv, TypeOK
<1>3. TypeOK'
  <2>1. /\ tradeLock' \in [Trades -> Sessions \cup {NoOne}]
        /\ positionLock' \in [Positions -> Sessions \cup {NoOne}]
        /\ dayLock' \in Replayers \cup {NoOne}
        /\ current' \in [Replayers -> Positions]
        /\ DOMAIN snapshot' = Replayers /\ DOMAIN sum' = Replayers
    BY EndReplayType DEF IInv
  <2> QED
    BY <1>2, <2>1 DEF IInv, TypeOK
<1>4. CleanIsCurrent'
  BY DEF IInv, CleanIsCurrent, LogOf
<1> QED
  BY <1>1, <1>3, <1>4 DEF IInv

\* A replay that fails is rolled back and the run goes on.
LEMMA RollbackReplayOK ==
    ASSUME IInv, NEW r \in Replayers, RollbackReplay(r), faults' \in 0 .. MaxFaults
    PROVE  IInv'
<1>1. /\ EndReplay(r) /\ rAt' = [rAt EXCEPT ![r] = "next"]
      /\ UNCHANGED <<log, dirty, view, daily, wAt, wTrade, wState, todo, advisory>>
  BY DEF RollbackReplay, GoesOn, tables, writers
<1>2. todo' \in [Replayers -> SUBSET Positions] /\ advisory' \in Replayers \cup {NoOne}
  BY <1>1 DEF IInv, TypeOK
<1> QED
  BY <1>1, <1>2, LostReplayOK

\* A run that dies is rolled back, whatever it was doing.
LEMMA CrashOK ==
    ASSUME IInv, NEW r \in Replayers, Crash(r), faults' \in 0 .. MaxFaults
    PROVE  IInv'
<1>1. /\ EndReplay(r) /\ rAt' = [rAt EXCEPT ![r] = "idle"]
      /\ UNCHANGED <<log, dirty, view, daily, wAt, wTrade, wState>>
      /\ todo' = [todo EXCEPT ![r] = {}]
      /\ advisory' = IF advisory = r THEN NoOne ELSE advisory
  BY DEF Crash, tables, writers
<1>2. todo' \in [Replayers -> SUBSET Positions] /\ advisory' \in Replayers \cup {NoOne}
  BY <1>1 DEF IInv, TypeOK
<1> QED
  BY <1>1, <1>2, LostReplayOK

\* Steps on the advisory lock alone, and the end of a run.
LEMMA AdvisoryOK ==
    ASSUME IInv, NEW r \in Replayers, EndRun(r) \/ DropLock(r),
           faults' \in 0 .. MaxFaults
    PROVE  IInv'
<1>1. /\ UNCHANGED <<log, dirty, view, daily, tradeLock, positionLock, dayLock>>
      /\ UNCHANGED <<wAt, wTrade, wState, todo, current, snapshot, sum>>
      /\ advisory' \in Replayers \cup {NoOne}
      /\ rAt' = rAt \/ (rAt[r] = "next" /\ rAt' = [rAt EXCEPT ![r] = "idle"])
  BY DEF IInv, TypeOK, EndRun, DropLock, tables, locks, writers, replayers
<1>2. TypeOK'
  BY <1>1 DEF IInv, TypeOK
<1>3. WritersOK'
  BY <1>1, WritersKept
<1>4. ReplayersOK'
  BY <1>1 DEF IInv, TypeOK, ReplayersOK, InReplay, HasRead, LogOf, IsDaily
<1>5. CleanIsCurrent'
  BY <1>1 DEF IInv, CleanIsCurrent, LogOf
<1> QED
  BY <1>2, <1>3, <1>4, <1>5 DEF IInv

\* A fault more is within the bound; PostgreSQL's own choice is none.
LEMMA FaultsOK ==
    ASSUME IInv
    PROVE  /\ faults' = faults => faults' \in 0 .. MaxFaults
           /\ faults < MaxFaults /\ faults' = faults + 1 => faults' \in 0 .. MaxFaults
<1>1. faults \in 0 .. MaxFaults /\ MaxFaults \in Nat
  BY SessionAssumption DEF IInv, TypeOK
<1> QED
  BY <1>1

\* Every step of a writer preserves the invariant.
LEMMA WriteOK ==
    ASSUME IInv, NEW w \in Writers, Write(w)
    PROVE  IInv'
<1>1. ASSUME NEW t \in Trades, NEW state \in TradeState, InsertTrade(w, t, state)
      PROVE  IInv'
  BY <1>1, BeginOK DEF InsertTrade
<1>2. ASSUME NEW t \in Trades, InsertAgain(w, t) PROVE IInv'
  <2>1. log[t] \in TradeState
    BY DEF IInv, TypeOK
  <2> QED
    BY <1>2, <2>1, BeginOK DEF InsertAgain
<1>3. ASSUME NEW t \in Trades, PriceTrade(w, t) PROVE IInv'
  <2>1. "priced" \in TradeState
    BY DEF TradeState
  <2> QED
    BY <1>3, <2>1, BeginOK DEF PriceTrade
<1>4. CASE MarkDirty(w)
  BY <1>4, MarkDirtyOK
<1>5. CASE CommitWrite(w)
  BY <1>5, CommitWriteOK
<1>6. CASE AbortWrite(w)
  BY <1>6, FaultsOK, RollbackWriteOK DEF AbortWrite
<1> QED
  BY <1>1, <1>2, <1>3, <1>4, <1>5, <1>6 DEF Write

\* Every step of a replayer preserves the invariant.
LEMMA RecomputeOK ==
    ASSUME IInv, NEW r \in Replayers, Recompute(r)
    PROVE  IInv'
<1>1. CASE StartRun(r)
  BY <1>1, StartRunOK
<1>2. CASE LockPosition(r)
  BY <1>2, LockPositionOK
<1>3. CASE ReadTrades(r)
  BY <1>3, ReadTradesOK
<1>4. CASE WriteRealized(r)
  BY <1>4, WriteRealizedOK
<1>5. CASE SkipDays(r)
  BY <1>5, SkipDaysOK
<1>6. CASE SumDays(r)
  BY <1>6, SumDaysOK
<1>7. CASE LockDay(r)
  BY <1>7, LockDayOK
<1>8. CASE CommitReplay(r)
  BY <1>8, CommitReplayOK
<1>9. CASE FailPoison(r)
  BY <1>9, FaultsOK, RollbackReplayOK DEF FailPoison
<1>10. CASE FailReplay(r)
  BY <1>10, FaultsOK, RollbackReplayOK DEF FailReplay
<1>11. CASE EndRun(r)
  BY <1>11, FaultsOK, AdvisoryOK DEF EndRun
<1>12. CASE Crash(r)
  BY <1>12, FaultsOK, CrashOK DEF Crash
<1>13. CASE DropLock(r)
  BY <1>13, FaultsOK, AdvisoryOK DEF DropLock
<1> QED
  BY <1>1, <1>2, <1>3, <1>4, <1>5, <1>6, <1>7, <1>8, <1>9, <1>10, <1>11, <1>12, <1>13
     DEF Recompute

\* Every step preserves the invariant.
LEMMA StepOK == IInv /\ [Next]_vars => IInv'
<1> SUFFICES ASSUME IInv, [Next]_vars PROVE IInv'
  OBVIOUS
<1>1. ASSUME NEW w \in Writers, Write(w) PROVE IInv'
  BY <1>1, WriteOK
<1>2. ASSUME NEW r \in Replayers, Recompute(r) PROVE IInv'
  BY <1>2, RecomputeOK
<1>3. ASSUME NEW w \in Writers, NEW r \in Replayers, Detect(w, r) PROVE IInv'
  BY <1>3, FaultsOK, RollbackWriteOK, RollbackReplayOK DEF Detect
<1>4. CASE UNCHANGED vars
  <2>1. /\ UNCHANGED <<log, dirty, view, daily, tradeLock, positionLock, dayLock, advisory>>
        /\ UNCHANGED <<wAt, wTrade, wState, rAt, todo, current, snapshot, sum, faults>>
    BY <1>4 DEF vars, tables, locks, writers, replayers
  <2>2. TypeOK'
    BY <2>1 DEF IInv, TypeOK
  <2>3. WritersOK'
    BY <2>1, WritersKept
  <2>4. ReplayersOK'
    BY <2>1 DEF IInv, ReplayersOK, InReplay, HasRead, LogOf, IsDaily
  <2>5. CleanIsCurrent'
    BY <2>1 DEF IInv, CleanIsCurrent, LogOf
  <2> QED
    BY <2>2, <2>3, <2>4, <2>5 DEF IInv
<1> QED
  BY <1>1, <1>2, <1>3, <1>4 DEF Next

\* The strengthening is an invariant.
LEMMA Inductive == Spec => []IInv
  BY InitOK, StepOK, PTL DEF Spec

\* The tables, the locks and the sessions keep their types.
THEOREM TypeCorrect == Spec => []TypeOK
<1>1. IInv => TypeOK
  BY DEF IInv
<1> QED
  BY <1>1, Inductive, PTL

\* No mark is lost: whatever the interleaving of writers and replays, and
\* whether or not withLock excludes a second run, a position that is not marked
\* dirty has the derived rows of its trades (pnl.ts:371-377).
THEOREM NoMarkIsLost == Spec => []CleanIsCurrent
<1>1. IInv => CleanIsCurrent
  BY DEF IInv
<1> QED
  BY <1>1, Inductive, PTL

-----------------------------------------------------------------------------
(***************************************************************************)
(* pnl_daily, when no connection drops: refreshDaily reads its sum before  *)
(* it locks the day, so the sum is good only as long as no other run       *)
(* commits in between, and that is what the advisory lock is for.          *)
(***************************************************************************)
RunsAlone == \A r \in Replayers : rAt[r] # "idle" => advisory = r

\* The sum a run has read is the one it should write; a replay that has counted
\* without a sum has nothing to add to a day.
SumOK(r) ==
    /\ rAt[r] = "summed" \/ dayLock = r => sum[r] = SumAfter(r)
    /\ rAt[r] = "counted" /\ dayLock # r => ~TouchesDays(r)

DInv == RunsAlone /\ DailyIsSum /\ \A r \in Replayers : SumOK(r)

\* No trades add up to nothing.
LEMMA DailyInit == Init => DInv
  BY SessionAssumption DEF Init, DInv, RunsAlone, DailyIsSum, SumOK

\* While one replayer runs, the others are idle and have no day locked.
LEMMA OthersIdle ==
    ASSUME IInv, DInv, NEW r \in Replayers, rAt[r] # "idle"
    PROVE  \A s \in Replayers \ {r} : rAt[s] = "idle" /\ dayLock # s
  BY DEF IInv, ReplayersOK, DInv, RunsAlone

\* What is left to show of the one replayer that runs.
LEMMA AloneOK ==
    ASSUME NEW r \in Replayers,
           \A s \in Replayers \ {r} : rAt'[s] = "idle" /\ dayLock' # s,
           rAt'[r] # "idle" => advisory' = r,
           SumOK(r)', DailyIsSum'
    PROVE  DInv'
<1>1. \A s \in Replayers \ {r} : SumOK(s)'
  BY DEF SumOK
<1> QED
  BY <1>1 DEF DInv, RunsAlone

\* A step in which no replayer takes part.
LEMMA WriterKeepsDaily ==
    ASSUME IInv, DInv, UNCHANGED <<view, daily, advisory, rAt, current, snapshot, sum>>,
           \A r \in Replayers : dayLock' = r <=> dayLock = r
    PROVE  DInv'
<1>1. ASSUME NEW r \in Replayers PROVE SumOK(r)'
  BY DEF DInv, SumOK, SumAfter, TouchesDays
<1>2. RunsAlone' /\ DailyIsSum'
  BY DEF DInv, RunsAlone, DailyIsSum
<1> QED
  BY <1>1, <1>2 DEF DInv

\* Writers of trades and prices do not touch the day totals.
LEMMA WriteKeepsDaily ==
    ASSUME IInv, DInv, NEW w \in Writers, Write(w) \/ RollbackWrite(w)
    PROVE  DInv'
<1>1. w \in Sessions /\ \A r \in Replayers : r # w
  BY SessionAssumption DEF Sessions
<1>2. ASSUME EndWrite(w) PROVE \A r \in Replayers : dayLock' = r <=> dayLock = r
  BY <1>1, <1>2, OthersKeepLocks DEF IInv, EndWrite
<1>3. CASE \E t \in Trades : \/ \E state \in TradeState : InsertTrade(w, t, state)
                             \/ InsertAgain(w, t) \/ PriceTrade(w, t)
  BY <1>3, WriterKeepsDaily DEF InsertTrade, InsertAgain, PriceTrade, Begin, tables, replayers
<1>4. CASE MarkDirty(w)
  BY <1>4, WriterKeepsDaily DEF MarkDirty, tables, replayers
<1>5. CASE CommitWrite(w)
  BY <1>2, <1>5, WriterKeepsDaily DEF CommitWrite, replayers
<1>6. CASE RollbackWrite(w)
  BY <1>2, <1>6, WriterKeepsDaily DEF RollbackWrite, tables, replayers
<1> QED
  BY <1>3, <1>4, <1>5, <1>6 DEF Write, AbortWrite

\* A replay that ends without a commit.
LEMMA LostReplayKeepsDaily ==
    ASSUME IInv, DInv, NEW r \in Replayers, rAt[r] # "idle", EndReplay(r),
           UNCHANGED <<view, daily>>,
           \/ rAt' = [rAt EXCEPT ![r] = "next"] /\ UNCHANGED advisory
           \/ rAt' = [rAt EXCEPT ![r] = "idle"]
    PROVE  DInv'
<1>1. r \in Sessions /\ Release(r) /\ (advisory = r)
  BY DEF Sessions, EndReplay, DInv, RunsAlone
<1>2. \A s \in Replayers \ {r} : rAt'[s] = "idle" /\ dayLock' # s
  BY <1>1, OthersIdle, OthersKeepLocks DEF IInv, TypeOK
<1>3. rAt'[r] \in {"next", "idle"} /\ dayLock' # r
  BY <1>1, OthersKeepLocks DEF IInv, TypeOK
<1>4. DailyIsSum'
  BY DEF DInv, DailyIsSum
<1>5. rAt'[r] # "idle" => advisory' = r
  BY <1>1 DEF IInv, TypeOK
<1> QED
  BY <1>2, <1>3, <1>4, <1>5, AloneOK DEF SumOK

\* Contributions without a sell are the same, whatever the trades.
LEMMA NothingToAdd ==
    ASSUME NEW S, NEW u \in [S -> TradeState], NEW v \in [S -> TradeState],
           ~Sold(u), ~Sold(v)
    PROVE  Contribution(u) = Contribution(v)
  BY DEF Contribution

\* The commit writes the sum of what it leaves behind.
LEMMA CommitKeepsDaily ==
    ASSUME IInv, DInv, NEW r \in Replayers, CommitReplay(r)
    PROVE  DInv'
<1> DEFINE p == current[r]
<1> DEFINE after == [view EXCEPT ![p] = snapshot[r]]
<1>1. /\ rAt[r] = "counted" /\ rAt' = [rAt EXCEPT ![r] = "next"]
      /\ view' = after
      /\ daily' = IF dayLock = r THEN sum[r] ELSE daily
      /\ EndReplay(r) /\ UNCHANGED advisory
  BY DEF CommitReplay
<1>2. r \in Sessions /\ Release(r) /\ advisory = r
  BY <1>1 DEF Sessions, EndReplay, DInv, RunsAlone
<1>3. \A s \in Replayers \ {r} : rAt'[s] = "idle" /\ dayLock' # s
  BY <1>1, <1>2, OthersIdle, OthersKeepLocks DEF IInv, TypeOK
<1>4. rAt'[r] = "next" /\ dayLock' # r
  BY <1>1, <1>2, OthersKeepLocks DEF IInv, TypeOK
<1>5. p \in Positions /\ snapshot[r] = LogOf(p)
  BY <1>1 DEF IInv, TypeOK, ReplayersOK, HasRead
<1>6. DailyIsSum'
  <2>1. CASE dayLock = r
    BY <1>1, <2>1 DEF DInv, SumOK, SumAfter, DailyIsSum
  <2>2. CASE dayLock # r
    <3>1. ~Sold(view[p]) /\ ~Sold(snapshot[r])
      BY <1>1, <2>2 DEF DInv, SumOK, TouchesDays
    <3>2. /\ view[p] \in [TradesOf(p) -> TradeState]
          /\ snapshot[r] \in [TradesOf(p) -> TradeState]
      BY <1>5, LogOfType DEF IInv, TypeOK
    <3>3. Contribution(view[p]) = Contribution(snapshot[r])
      BY <3>1, <3>2, NothingToAdd
    <3>4. \A q \in Positions : Contribution(after[q]) = Contribution(view[q])
      <4>1. after[p] = snapshot[r] /\ \A q \in Positions : q # p => after[q] = view[q]
        BY <1>5 DEF IInv, TypeOK
      <4> QED
        BY <3>3, <4>1
    <3>5. Contributions(after) = Contributions(view)
      BY <3>4 DEF Contributions
    <3> QED
      BY <1>1, <2>2, <3>5 DEF DInv, DailyIsSum
  <2> QED
    BY <2>1, <2>2
<1> QED
  BY <1>1, <1>2, <1>3, <1>4, <1>6, AloneOK DEF SumOK

\* A run that nobody overtakes keeps the day totals, provided that the lock
\* is not lost.
LEMMA RecomputeKeepsDaily ==
    ASSUME IInv, DInv, NEW r \in Replayers, Recompute(r), ~LockCanDrop
    PROVE  DInv'
<1> USE DEF IInv, TypeOK
<1>1. CASE StartRun(r)
  <2>1. \A s \in Replayers : rAt[s] = "idle" /\ dayLock # s
    BY <1>1, SessionAssumption DEF StartRun, DInv, RunsAlone, ReplayersOK
  <2>2. \A s \in Replayers \ {r} : rAt'[s] = "idle" /\ dayLock' # s
    BY <1>1, <2>1 DEF StartRun, locks
  <2>3. rAt'[r] = "next" /\ dayLock' # r /\ advisory' = r
    BY <1>1, <2>1 DEF StartRun, locks
  <2>4. DailyIsSum'
    BY <1>1 DEF StartRun, tables, DInv, DailyIsSum
  <2> QED
    BY <2>2, <2>3, <2>4, AloneOK DEF SumOK
<1>2. ASSUME NEW from, NEW to, Step(r, from, to), from # "idle", SumOK(r)',
             \A s \in Replayers \ {r} : dayLock' = s => dayLock = s
      PROVE  DInv'
  <2>1. /\ rAt[r] = from /\ rAt' = [rAt EXCEPT ![r] = to]
        /\ UNCHANGED <<view, daily, advisory>>
    BY <1>2 DEF Step, tables
  <2>2. \A s \in Replayers \ {r} : rAt'[s] = "idle" /\ dayLock' # s
    BY <1>2, <2>1, OthersIdle
  <2>3. advisory' = r /\ DailyIsSum'
    BY <1>2, <2>1 DEF DInv, RunsAlone, DailyIsSum
  <2> QED
    BY <1>2, <2>2, <2>3, AloneOK
<1>3. CASE LockPosition(r)
  <2>1. Step(r, "next", "locked") /\ UNCHANGED dayLock
    BY <1>3 DEF LockPosition
  <2>2. rAt'[r] = "locked" /\ dayLock # r
    BY <2>1 DEF Step, ReplayersOK
  <2> QED
    BY <1>2, <2>1, <2>2 DEF SumOK
<1>4. CASE ReadTrades(r)
  <2>1. Step(r, "locked", "read") /\ UNCHANGED dayLock
    BY <1>4 DEF ReadTrades, locks
  <2>2. rAt'[r] = "read" /\ dayLock # r
    BY <2>1 DEF Step, ReplayersOK
  <2> QED
    BY <1>2, <2>1, <2>2 DEF SumOK
<1>5. CASE WriteRealized(r)
  <2>1. Step(r, "read", "written") /\ UNCHANGED dayLock
    BY <1>5 DEF WriteRealized
  <2>2. rAt'[r] = "written" /\ dayLock # r
    BY <2>1 DEF Step, ReplayersOK
  <2> QED
    BY <1>2, <2>1, <2>2 DEF SumOK
<1>6. CASE SkipDays(r)
  <2>1. Step(r, "written", "counted") /\ UNCHANGED <<dayLock, current, snapshot>>
    BY <1>6 DEF SkipDays, locks
  <2>2. rAt'[r] = "counted" /\ dayLock # r /\ ~TouchesDays(r) /\ UNCHANGED view
    BY <1>6, <2>1 DEF SkipDays, Step, tables, ReplayersOK
  <2> QED
    BY <1>2, <2>1, <2>2 DEF SumOK, TouchesDays
<1>7. CASE SumDays(r)
  <2>1. /\ Step(r, "written", "summed") /\ UNCHANGED <<dayLock, current, snapshot>>
        /\ sum' = [sum EXCEPT ![r] = SumAfter(r)]
    BY <1>7 DEF SumDays, locks
  <2>2. rAt'[r] = "summed" /\ dayLock # r /\ UNCHANGED view
    BY <2>1 DEF Step, tables, ReplayersOK
  <2>3. sum'[r] = SumAfter(r)'
    BY <2>1, <2>2 DEF SumAfter
  <2> QED
    BY <1>2, <2>1, <2>2, <2>3 DEF SumOK
<1>8. CASE LockDay(r)
  <2>1. /\ Step(r, "summed", "counted") /\ dayLock' = r
        /\ UNCHANGED <<current, snapshot, sum>>
    BY <1>8 DEF LockDay
  <2>2. UNCHANGED view /\ rAt[r] = "summed"
    BY <2>1 DEF Step, tables
  <2>3. sum[r] = SumAfter(r)
    BY <2>2 DEF DInv, SumOK
  <2> QED
    BY <1>2, <2>1, <2>2, <2>3 DEF SumOK, SumAfter
<1>9. CASE CommitReplay(r)
  BY <1>9, CommitKeepsDaily
<1>10. CASE FailPoison(r) \/ FailReplay(r)
  <2>1. RollbackReplay(r)
    BY <1>10 DEF FailPoison, FailReplay
  <2> QED
    BY <2>1, LostReplayKeepsDaily DEF RollbackReplay, InReplay, GoesOn, tables
<1>11. CASE EndRun(r)
  <2>1. /\ rAt[r] = "next" /\ rAt' = [rAt EXCEPT ![r] = "idle"]
        /\ UNCHANGED <<view, daily, dayLock>>
    BY <1>11 DEF EndRun, tables, locks
  <2>2. \A s \in Replayers : rAt'[s] = "idle" /\ dayLock' # s
    BY <2>1, OthersIdle DEF ReplayersOK
  <2>3. DailyIsSum'
    BY <2>1 DEF DInv, DailyIsSum
  <2> QED
    BY <2>2, <2>3, AloneOK DEF SumOK
<1>12. CASE Crash(r)
  BY <1>12, LostReplayKeepsDaily DEF Crash, tables
<1>13. CASE DropLock(r)
  BY <1>13 DEF DropLock
<1> QED
  BY <1>1, <1>3, <1>4, <1>5, <1>6, <1>7, <1>8, <1>9, <1>10, <1>11, <1>12, <1>13
     DEF Recompute

\* As long as withLock does exclude a second run, pnl_daily is the sum of every
\* position's contribution (pnl.ts:535-541), with writers of trades and prices,
\* failed replays and crashes at any point.
THEOREM DailyIsTheSum == ASSUME ~LockCanDrop PROVE Spec => []DailyIsSum
<1>1. IInv /\ DInv /\ [Next]_vars => DInv'
  <2> SUFFICES ASSUME IInv, DInv, [Next]_vars PROVE DInv'
    OBVIOUS
  <2>1. ASSUME NEW w \in Writers, Write(w) PROVE DInv'
    BY <2>1, WriteKeepsDaily
  <2>2. ASSUME NEW r \in Replayers, Recompute(r) PROVE DInv'
    BY <2>2, RecomputeKeepsDaily
  <2>3. ASSUME NEW w \in Writers, NEW r \in Replayers, Detect(w, r) PROVE DInv'
    <3>1. CASE RollbackWrite(w)
      BY <3>1, WriteKeepsDaily
    <3>2. CASE RollbackReplay(r)
      BY <3>2, LostReplayKeepsDaily DEF RollbackReplay, InReplay, GoesOn, tables
    <3> QED
      BY <2>3, <3>1, <3>2 DEF Detect
  <2>4. CASE UNCHANGED vars
    BY <2>4, WriterKeepsDaily DEF vars, tables, locks, replayers
  <2> QED
    BY <2>1, <2>2, <2>3, <2>4 DEF Next
<1>2. DInv => DailyIsSum
  BY DEF DInv
<1> QED
  BY <1>1, <1>2, DailyInit, Inductive, PTL DEF Spec

-----------------------------------------------------------------------------
(***************************************************************************)
(* Only two steps of the detailed model are steps of the abstract one: the *)
(* commits.  A writer's commit is a change or a mark; a replay's commit is *)
(* a refresh with all the trades there are at that moment, or, for a       *)
(* position somebody else has replayed since it was listed, nothing.       *)
(***************************************************************************)
LEMMA CommitWriteChanges ==
    ASSUME IInv, NEW w \in Writers, CommitWrite(w)
    PROVE  View!Next
<1> DEFINE t == wTrade[w]
<1>1. t \in Trades /\ PositionOf[t] \in Positions /\ wState[w] \in TradeState
  BY StoreAssumption DEF IInv, TypeOK
<1>2. /\ wAt[w] = "marked" /\ UNCHANGED view
      /\ log' = IF tradeLock[t] = w THEN [log EXCEPT ![t] = wState[w]] ELSE log
      /\ dirty' = [dirty EXCEPT ![PositionOf[t]] = TRUE]
  BY <1>1 DEF CommitWrite, Marks, IInv, TypeOK
<1>3. CASE tradeLock[t] = w
  <2>1. \/ log[t] = "absent" /\ wState[w] # "absent"
        \/ log[t] = "unpriced" /\ wState[w] = "priced"
    BY <1>2, <1>3 DEF IInv, WritersOK
  <2>2. View!Change(t, wState[w])
    BY <1>2, <1>3, <2>1 DEF View!Change
  <2> QED
    BY <1>1, <2>2 DEF View!Next, View!TradeState, TradeState
<1>4. CASE tradeLock[t] # w
  <2>1. View!Mark(PositionOf[t])
    BY <1>2, <1>4 DEF View!Mark
  <2> QED
    BY <1>1, <2>1 DEF View!Next
<1> QED
  BY <1>3, <1>4

\* The commit of a replay is one refresh, or nothing at all.
LEMMA CommitReplayRefreshes ==
    ASSUME IInv, NEW r \in Replayers, CommitReplay(r)
    PROVE  View!Next \/ UNCHANGED <<log, dirty, view>>
<1> DEFINE p == current[r]
<1>1. /\ rAt[r] = "counted" /\ UNCHANGED log
      /\ view' = [view EXCEPT ![p] = snapshot[r]]
      /\ dirty' = [dirty EXCEPT ![p] = FALSE]
  BY DEF CommitReplay
<1>2. p \in Positions /\ snapshot[r] = LogOf(p)
  BY <1>1 DEF IInv, TypeOK, ReplayersOK, HasRead
<1>3. CASE dirty[p]
  <2>1. View!LogOf(p) = LogOf(p)
    BY DEF View!LogOf, LogOf, View!TradesOf, TradesOf
  <2>2. View!Refresh(p)
    BY <1>1, <1>2, <1>3, <2>1 DEF View!Refresh
  <2> QED
    BY <1>2, <2>2 DEF View!Next
<1>4. CASE ~dirty[p]
  <2>1. view[p] = snapshot[r] /\ dirty[p] = FALSE
    BY <1>2, <1>4 DEF IInv, TypeOK, CleanIsCurrent
  <2>2. view' = view
    BY <1>1, <2>1 DEF IInv, TypeOK
  <2>3. dirty' = dirty
    BY <1>1, <2>1 DEF IInv, TypeOK
  <2> QED
    BY <1>1, <2>2, <2>3
<1> QED
  BY <1>3, <1>4

\* The statements of replayPosition, in transactions that interleave with each
\* other and with the writers' and may fail anywhere, implement one refresh
\* (DerivedView): nobody ever sees a position that is clean and behind.
THEOREM ReplayImplementsView == Spec => ImplementsView
<1>1. Init => View!Init
  BY DEF Init, View!Init, View!LogOf, LogOf, View!TradesOf, TradesOf
<1>2. IInv /\ [Next]_vars => [View!Next]_(View!vars)
  <2> SUFFICES ASSUME IInv, [Next]_vars
               PROVE  View!Next \/ UNCHANGED <<log, dirty, view>>
    BY DEF View!vars
  <2>1. ASSUME NEW w \in Writers, Write(w)
        PROVE  View!Next \/ UNCHANGED <<log, dirty, view>>
    <3>1. CASE CommitWrite(w)
      BY <3>1, CommitWriteChanges
    <3>2. CASE ~CommitWrite(w)
      BY <2>1, <3>2 DEF Write, InsertTrade, InsertAgain, PriceTrade, Begin, MarkDirty,
                        AbortWrite, RollbackWrite, tables
    <3> QED
      BY <3>1, <3>2
  <2>2. ASSUME NEW r \in Replayers, Recompute(r)
        PROVE  View!Next \/ UNCHANGED <<log, dirty, view>>
    <3>1. CASE CommitReplay(r)
      BY <3>1, CommitReplayRefreshes
    <3>2. CASE ~CommitReplay(r)
      BY <2>2, <3>2 DEF Recompute, StartRun, LockPosition, ReadTrades, WriteRealized,
                        SkipDays, SumDays, LockDay, FailPoison, FailReplay, RollbackReplay,
                        EndRun, Crash, DropLock, Step, tables
    <3> QED
      BY <3>1, <3>2
  <2>3. ASSUME NEW w \in Writers, NEW r \in Replayers, Detect(w, r)
        PROVE  UNCHANGED <<log, dirty, view>>
    BY <2>3 DEF Detect, RollbackWrite, RollbackReplay, tables
  <2>4. CASE UNCHANGED vars
    BY <2>4 DEF vars, tables
  <2> QED
    BY <2>1, <2>2, <2>3, <2>4 DEF Next
<1> QED
  BY <1>1, <1>2, Inductive, PTL DEF Spec, ImplementsView, View!Spec
=============================================================================
