------------------------------- MODULE Ingest -------------------------------
(***************************************************************************)
(* From a delivered transaction to the trades of the wallets in it: the    *)
(* queue raw_tx, parsePending (parse-swap.ts) under withLock, and what     *)
(* puts a row back in the queue.  One SQL statement is one step.           *)
(*                                                                         *)
(* A transaction is a number, in the order of block_time.  What            *)
(* evaluateSwap makes of it for one wallet is given by LegOf:              *)
(*   "none"     not of this wallet, or nothing bought or sold              *)
(*   "sol"      a swap against SOL                                         *)
(*   "stable"   a swap against a stablecoin, valued at the minute's rate   *)
(*   "tiny"     one that is refused once there is a rate                   *)
(*   "refused"  one of the five errors no later data changes               *)
(*   "garbled"  a field the leg needs cannot be read                       *)
(* rated holds the transactions whose minute has a positive rate in        *)
(* sol_price.  received is received_at as a rank, 0 for a row that is not  *)
(* there.                                                                  *)
(***************************************************************************)
EXTENDS Integers, FiniteSets

CONSTANTS
    Txs, Wallets, LegOf,
    Unreadable,      \* payloads that cannot be decrypted or walked at all
    Roster,          \* the wallets that are there from the start
    Workers,         \* the cron and the tails of webhook deliveries
    NoParser, NoError,
    PendingLimit,    \* rows per parsePending and per requeueNoRate
    UntrackedLimit,  \* rows per requeueUntracked
    ParseLockCanDrop, \* whether the connection of withLock can drop while it idles
    MaxParseFaults   \* bound on crashes, failed statements and lost connections

LegKind == {"none", "sol", "stable", "tiny", "refused", "garbled"}

ASSUME TxAssumption ==
    /\ Txs \subseteq Nat \ {0}
    /\ Txs # {}
    /\ IsFiniteSet(Txs)
    /\ LegOf \in [Txs -> [Wallets -> LegKind]]
    /\ Unreadable \subseteq Txs
    /\ Roster \subseteq Wallets
    /\ Wallets # {}

ASSUME WorkerAssumption ==
    /\ NoParser \notin Workers
    /\ NoError \notin {"malformed", "no_rate", "refused"}
    /\ PendingLimit \in Nat \ {0}
    /\ UntrackedLimit \in Nat \ {0}
    /\ ParseLockCanDrop \in BOOLEAN
    /\ MaxParseFaults \in Nat

VARIABLES
    received, parsed, rowErrorOf,          \* raw_tx: received_at, parsed_at, parse_error
    trades,                                \* trade, as pairs of a transaction and a wallet
    status,                                \* kol_wallet.status
    rated,                                 \* sol_price
    asked,                                 \* history: see RequeueUntracked
    parseLock,                             \* the lock "parse-pending"
    lost,                                  \* history: the runs that go on without it
    late,                                  \* history: the rows such a run has written
    at, toParse, row, legs, leg, rowError, \* a worker inside parsePending
    parseFaults

rawTx == <<received, parsed, rowErrorOf, late>>
lock == <<parseLock, lost>>
run == <<at, toParse, row, legs, leg, rowError>>
world == <<status, rated, asked>>
ingestVars == <<rawTx, trades, world, lock, run, parseFaults>>

-----------------------------------------------------------------------------
RowError == {NoError, "malformed", "no_rate", "refused"}

\* The errors that leave parsed_at NULL.
Requeueable == {"malformed", "no_rate"}

\* Mutant: the reasons nobody can do anything about come first.
SettledFirst(e) ==
    CASE e = "refused" -> 7 [] e = "malformed" -> 6 [] e = "no_rate" -> 5 [] OTHER -> 0

\* ERROR_PRIORITY, with the five settled errors as one.
Priority(e) ==
    CASE e = "malformed" -> 7 [] e = "no_rate" -> 6 [] e = "refused" -> 5 [] OTHER -> 0

\* higherPriorityError.
Worse(e, f) == IF e # NoError /\ Priority(e) >= Priority(f) THEN e ELSE f

\* Mutant: an error that was recorded is no reason to leave a row alone.
UnparsedRow(t) == received[t] > 0 /\ ~parsed[t]

Pending(t) == received[t] > 0 /\ ~parsed[t] /\ rowErrorOf[t] = NoError

\* ORDER BY ... LIMIT n: rows of equal rank come in any order.
OldestFirst(S, n) ==
    {F \in SUBSET S :
        /\ \A t \in F, u \in S \ F : received[t] <= received[u]
        /\ IF Cardinality(S) <= n THEN F = S ELSE Cardinality(F) = n}

NewestFirst(S, n) ==
    {F \in SUBSET S :
        /\ \A t \in F, u \in S \ F : t > u
        /\ IF Cardinality(S) <= n THEN F = S ELSE Cardinality(F) = n}

AnyTx == CHOOSE t \in Txs : TRUE
AnyWallet == CHOOSE w \in Wallets : TRUE

IngestInit ==
    /\ received = [t \in Txs |-> 0]
    /\ parsed = [t \in Txs |-> FALSE]
    /\ rowErrorOf = [t \in Txs |-> NoError]
    /\ trades = {}
    /\ status = [w \in Wallets |-> IF w \in Roster THEN "active" ELSE "absent"]
    /\ rated = {}
    /\ asked = {}
    /\ parseLock = NoParser /\ lost = {} /\ late = {}
    /\ at = [k \in Workers |-> "idle"]
    /\ toParse = [k \in Workers |-> {}]
    /\ row = [k \in Workers |-> AnyTx]
    /\ legs = [k \in Workers |-> {}]
    /\ leg = [k \in Workers |-> AnyWallet]
    /\ rowError = [k \in Workers |-> NoError]
    /\ parseFaults = 0

-----------------------------------------------------------------------------
\* What happens outside of parsePending.

\* A webhook delivery, or a redelivery: one INSERT for the events of the batch,
\* ON CONFLICT DO NOTHING.  Events that cannot be stored are skipped, so what
\* is left of a batch is any set of transactions.
Deliver(batch) ==
    /\ \E t \in batch : received[t] = 0
    /\ received' = [t \in Txs |->
                      IF t \in batch /\ received[t] = 0
                      THEN 1 + Cardinality({u \in Txs : received[u] > 0})
                      ELSE received[t]]
    /\ UNCHANGED <<parsed, rowErrorOf, late, trades, world, lock, run, parseFaults>>

\* A rate for the minute is stored: the fill of the klines, or an import.
RateArrives(t) ==
    /\ t \notin rated
    /\ rated' = rated \cup {t}
    /\ UNCHANGED <<rawTx, trades, status, asked, lock, run, parseFaults>>

AddWallet(w) ==
    /\ status[w] = "absent"
    /\ status' = [status EXCEPT ![w] = "active"]
    /\ UNCHANGED <<rawTx, trades, rated, asked, lock, run, parseFaults>>

WithdrawWallet(w) ==
    /\ status[w] = "active"
    /\ status' = [status EXCEPT ![w] = "withdrawn"]
    /\ UNCHANGED <<rawTx, trades, rated, asked, lock, run, parseFaults>>

\* requeueNoRate: one statement, under a lock of its own, so at any time.
RequeueNoRate ==
    \E F \in OldestFirst({t \in Txs : /\ rowErrorOf[t] = "no_rate" /\ ~parsed[t]
                                      /\ t \in rated}, PendingLimit) :
       /\ F # {}
       /\ rowErrorOf' = [t \in Txs |-> IF t \in F THEN NoError ELSE rowErrorOf[t]]
       /\ UNCHANGED <<received, parsed, late, trades, world, lock, run, parseFaults>>

\* The rows that were parsed, without an error, into nothing.
Untracked == {t \in Txs : /\ parsed[t] /\ rowErrorOf[t] = NoError
                          /\ \A w \in Wallets : <<t, w>> \notin trades}

\* Mutant: the requeue does not wait for the parse.
WithoutLock == TRUE

\* The requeue takes the lock of the parse.
ParseLockIsFree == parseLock = NoParser

\* The operator runs requeueUntracked, under the lock of the parse.  asked
\* remembers the wallets that were there when a run reported that no row was
\* left to move.
RequeueUntracked ==
    /\ ParseLockIsFree
    /\ \E F \in NewestFirst(Untracked, UntrackedLimit) :
          /\ parsed' = [t \in Txs |-> parsed[t] /\ t \notin F]
          /\ asked' = IF F = Untracked
                      THEN asked \cup {w \in Wallets : status[w] = "active"}
                      ELSE asked
    /\ UNCHANGED <<received, rowErrorOf, late, trades, status, rated, lock, run, parseFaults>>

-----------------------------------------------------------------------------
\* parsePending.

\* Whoever does not get the lock does nothing.
StartParse(k) ==
    /\ at[k] = "idle"
    /\ parseLock = NoParser
    /\ \E F \in OldestFirst({t \in Txs : Pending(t)}, PendingLimit) :
          /\ F # {}
          /\ toParse' = [toParse EXCEPT ![k] = F]
    /\ parseLock' = k
    /\ at' = [at EXCEPT ![k] = "next"]
    /\ UNCHANGED <<rawTx, trades, world, lost, row, legs, leg, rowError, parseFaults>>

\* The next row: decrypted, and the addresses in it collected.
ReadRow(k) ==
    \E t \in toParse[k] :
       /\ at[k] = "next"
       /\ \A u \in toParse[k] : received[t] <= received[u]
       /\ toParse' = [toParse EXCEPT ![k] = @ \ {t}]
       /\ at' = [at EXCEPT ![k] = "row"]
       /\ row' = [row EXCEPT ![k] = t]
       /\ legs' = [legs EXCEPT ![k] =
                     IF t \in Unreadable THEN {}
                     ELSE {w \in Wallets : LegOf[t][w] # "none"}]
       /\ rowError' = [rowError EXCEPT ![k] =
                         IF t \in Unreadable THEN "malformed" ELSE NoError]
       /\ UNCHANGED <<rawTx, trades, world, lock, leg, parseFaults>>

\* What the first evaluation, which is given no rate, says of a wallet's leg.
ErrorOf(kind) ==
    CASE kind = "refused" -> "refused" [] kind = "garbled" -> "malformed" [] OTHER -> NoError

\* findWalletByAddress, and evaluateSwap without a rate.
EvaluateLeg(k) ==
    \E w \in legs[k] :
       LET kind == LegOf[row[k]][w]
       IN /\ at[k] = "row"
          /\ legs' = [legs EXCEPT ![k] = @ \ {w}]
          /\ \/ /\ status[w] # "active"
                /\ UNCHANGED <<at, leg, rowError>>
             \/ /\ status[w] = "active"
                /\ kind \in {"refused", "garbled"}
                /\ rowError' = [rowError EXCEPT ![k] = Worse(@, ErrorOf(kind))]
                /\ UNCHANGED <<at, leg>>
             \/ /\ status[w] = "active"
                /\ kind \in {"sol", "stable", "tiny"}
                /\ at' = [at EXCEPT ![k] = IF kind = "sol" THEN "trade" ELSE "rate"]
                /\ leg' = [leg EXCEPT ![k] = w]
                /\ UNCHANGED rowError
          /\ UNCHANGED <<rawTx, trades, world, lock, toParse, row, parseFaults>>

\* solUsdForMinute, and the second evaluation if there is a rate.
ReadRate(k) ==
    /\ at[k] = "rate"
    /\ \/ /\ row[k] \in rated /\ LegOf[row[k]][leg[k]] = "stable"
          /\ at' = [at EXCEPT ![k] = "trade"]
          /\ UNCHANGED rowError
       \/ /\ row[k] \in rated /\ LegOf[row[k]][leg[k]] = "tiny"
          /\ at' = [at EXCEPT ![k] = "row"]
          /\ rowError' = [rowError EXCEPT ![k] = Worse(@, "refused")]
       \/ /\ row[k] \notin rated
          /\ at' = [at EXCEPT ![k] = "row"]
          /\ rowError' = [rowError EXCEPT ![k] = Worse(@, "no_rate")]
    /\ UNCHANGED <<rawTx, trades, world, lock, toParse, row, legs, leg, parseFaults>>

\* Mutant: a trade that was written makes the row a good one.
InsertAndForgive(k) ==
    /\ at[k] = "trade"
    /\ trades' = trades \cup {<<row[k], leg[k]>>}
    /\ at' = [at EXCEPT ![k] = "row"]
    /\ rowError' = [rowError EXCEPT ![k] = NoError]
    /\ UNCHANGED <<rawTx, world, lock, toParse, row, legs, leg, parseFaults>>

\* insertTrade, ON CONFLICT DO NOTHING; its transaction is a writer of Replay.
InsertLeg(k) ==
    /\ at[k] = "trade"
    /\ trades' = trades \cup {<<row[k], leg[k]>>}
    /\ at' = [at EXCEPT ![k] = "row"]
    /\ UNCHANGED <<rawTx, world, lock, toParse, row, legs, leg, rowError, parseFaults>>

\* Mutant: whatever happened, the parser has been there.
AlwaysSettled(e) == TRUE

\* parsed_at is set unless something may still arrive for the row.
Settled(e) == e \notin Requeueable

\* The UPDATE at the end of the row: it names the row, not the state it expects.
WriteRow(k) ==
    /\ at[k] = "row" /\ legs[k] = {}
    /\ parsed' = [parsed EXCEPT ![row[k]] = @ \/ Settled(rowError[k])]
    /\ rowErrorOf' = [rowErrorOf EXCEPT ![row[k]] = rowError[k]]
    /\ late' = IF k \in lost THEN late \cup {row[k]} ELSE late
    /\ at' = [at EXCEPT ![k] = "next"]
    /\ UNCHANGED <<received, trades, world, lock, toParse, row, legs, leg, rowError, parseFaults>>

Unlock(k) ==
    /\ parseLock' = IF parseLock = k THEN NoParser ELSE parseLock
    /\ lost' = lost \ {k}

EndParse(k) ==
    /\ at[k] = "next" /\ toParse[k] = {}
    /\ at' = [at EXCEPT ![k] = "idle"]
    /\ Unlock(k)
    /\ UNCHANGED <<rawTx, trades, world, toParse, row, legs, leg, rowError, parseFaults>>

\* The process dies, or a statement fails and the run is given up: the row in
\* hand is still pending.
Fail(k) ==
    /\ parseFaults < MaxParseFaults
    /\ parseFaults' = parseFaults + 1
    /\ at[k] # "idle"
    /\ at' = [at EXCEPT ![k] = "idle"]
    /\ toParse' = [toParse EXCEPT ![k] = {}]
    /\ legs' = [legs EXCEPT ![k] = {}]
    /\ Unlock(k)
    /\ UNCHANGED <<rawTx, trades, world, row, leg, rowError>>

\* The connection that holds the lock drops while it idles, and the run goes on.
DropParseLock(k) ==
    /\ ParseLockCanDrop
    /\ parseFaults < MaxParseFaults
    /\ parseFaults' = parseFaults + 1
    /\ parseLock = k
    /\ parseLock' = NoParser
    /\ lost' = lost \cup {k}
    /\ UNCHANGED <<rawTx, trades, world, run>>

-----------------------------------------------------------------------------
Parse(k) ==
    \/ ReadRow(k) \/ EvaluateLeg(k) \/ ReadRate(k) \/ InsertLeg(k)
    \/ WriteRow(k) \/ EndParse(k)

IngestNext ==
    \/ \E batch \in SUBSET Txs : Deliver(batch)
    \/ \E t \in Txs : RateArrives(t)
    \/ \E w \in Wallets : AddWallet(w) \/ WithdrawWallet(w)
    \/ RequeueNoRate
    \/ RequeueUntracked
    \/ \E k \in Workers : StartParse(k) \/ Parse(k) \/ Fail(k) \/ DropParseLock(k)

IngestSpec == IngestInit /\ [][IngestNext]_ingestVars

\* The crons of parse-pending.yml run again and again, and a run goes on until
\* it ends or fails.  Deliveries, rates and the roster are nobody's duty.
IngestFairness ==
    /\ WF_ingestVars(\E k \in Workers : StartParse(k))
    /\ \A k \in Workers : WF_ingestVars(Parse(k))
    /\ WF_ingestVars(RequeueNoRate)

\* The operator does as the script says: runs it again after the queue drains
\* (scripts/requeue-untracked.ts).
Drained == \A t \in Txs : ~Pending(t)

OperatorSpec ==
    /\ IngestInit /\ [][IngestNext /\ (RequeueUntracked => Drained)]_ingestVars
    /\ IngestFairness
    /\ SF_ingestVars(RequeueUntracked /\ Drained)

-----------------------------------------------------------------------------
\* The tables and the workers keep their types.
IngestTypeOK ==
    /\ received \in [Txs -> Nat] /\ parsed \in [Txs -> BOOLEAN]
    /\ rowErrorOf \in [Txs -> RowError]
    /\ trades \subseteq Txs \X Wallets
    /\ status \in [Wallets -> {"absent", "active", "withdrawn"}]
    /\ rated \subseteq Txs /\ asked \subseteq Wallets
    /\ parseLock \in Workers \cup {NoParser}
    /\ lost \subseteq Workers /\ late \subseteq Txs
    /\ at \in [Workers -> {"idle", "next", "row", "rate", "trade"}]
    /\ toParse \in [Workers -> SUBSET Txs] /\ row \in [Workers -> Txs]
    /\ legs \in [Workers -> SUBSET Wallets] /\ leg \in [Workers -> Wallets]
    /\ rowError \in [Workers -> RowError]
    /\ parseFaults \in 0 .. MaxParseFaults

Tradeable(t, w) == t \notin Unreadable /\ LegOf[t][w] \in {"sol", "stable"}

\* The wallets that were tracked all along.
Steady == {w \in Roster : status[w] = "active"}

\* A row the parser is finished with has the trade of every tracked wallet in
\* it: a leg that waits for a rate is not dropped because another leg of the
\* transaction was refused (parse-swap.ts:1722-1727).
NoLegDropped ==
    \A t \in Txs, w \in Steady : parsed[t] /\ Tradeable(t, w) => <<t, w>> \in trades

\* The trade of one wallet does not hide that the swap of another was refused
\* (parse-swap.ts:1815-1819).
NothingIsHidden ==
    \A t \in Txs, w \in Steady :
       parsed[t] /\ t \notin Unreadable /\ LegOf[t][w] \in {"refused", "tiny"}
          => rowErrorOf[t] # NoError

\* A row marked parsed is not one that waits for something
\* (parse-swap.ts:1747-1752), whatever runs were at it at the same time.  The
\* UPDATE at the end of a row names no state it expects, so a run that lost its
\* lock may put a requeueable error on a row that another one has finished, or
\* finish a row before another one does: the rows such a run has written are the
\* only ones that can be left so.
ParsedIsFinished ==
    \A t \in Txs : parsed[t] /\ rowErrorOf[t] \in Requeueable => t \in late

\* Once requeueUntracked has nothing left to move, no row that was parsed into
\* nothing has a trade of a wallet that was on the roster by then: the lock keeps
\* a parse that had looked the wallet up before from settling its row after
\* (scripts/requeue-untracked.ts:10-13).  Only a run that lost it can still do so.
RequeuedIsAttributed ==
    \A t \in Untracked \ late, w \in asked : status[w] = "active" => ~Tradeable(t, w)

\* A tracked wallet's trade is recorded, as soon as there is a rate for it if it
\* needs one, unless the wallet is withdrawn: no row, however it fails, keeps the
\* ones behind it from being parsed.  (A row with a leg that cannot be read waits
\* for a new parser, and a leg without its rate waits with it.)
Recordable(t, w) ==
    /\ received[t] > 0 /\ Tradeable(t, w)
    /\ LegOf[t][w] = "stable" =>
          t \in rated /\ \A v \in Wallets : LegOf[t][v] # "garbled"

EventuallyRecorded ==
    \A t \in Txs, w \in Roster :
       Recordable(t, w) ~> <<t, w>> \in trades \/ status[w] # "active"

\* "Run again after the queue drains to move the rest"
\* (scripts/requeue-untracked.ts:55): a row that has a trade of a wallet which
\* is on the roster by now is moved sooner or later.
MovesTheRest ==
    \A t \in Txs, w \in Wallets :
       t \in Untracked /\ Tradeable(t, w) /\ status[w] = "active"
          ~> t \notin Untracked \/ status[w] # "active"
=============================================================================
