# Formal models of kolscanhispano.fun

kolscanhispano.fun publishes a leaderboard of what well-known traders (KOLs) make
on Solana and a few EVM chains. Providers deliver transactions by webhook; the
program stores them, parses them into trades of the wallets it tracks, replays each
KOL's trades of a token into a position with realized profit and loss, and adds the
positions up by day. Around that core are a registration with proofs of wallet
ownership, groups of KOLs (*cabals*), an audit log, rate limits, the public pages
and the operator's scripts. All state is in one PostgreSQL database; every process (a
serverless function, a cron script, an operator's shell, a browser through them)
talks to it concurrently. Paths below are relative to `src/src/` unless they begin
with `scripts/` or `migrations/` (under `src/`).

The models are about what those processes do to each other and about the
arithmetic the published figures rest on: what a unit test, which runs one call
at a time, hardly reaches.

## The system and its parts

| Part | State | Operations | What makes it hard | What makes it correct | Module |
|---|---|---|---|---|---|
| Transaction queue and parsing (`lib/raw-tx.ts`, `lib/parse-swap.ts`, `app/api/webhooks/helius/route.ts`, `scripts/parse-pending.ts`, `lib/requeue-untracked.ts`, `scripts/requeue-*.ts`) | `raw_tx`, `trade`, the depth left in `setting` | `storeRawTxBatch`, `parsePending`, `requeueNoRate`, `requeueUntracked`, the cron's drain and guard | redelivery; several wallets in one transaction failing differently; a crash between trade and mark; a rate that arrives late; two parsers after a lost lock; rows that fail for ever; two guards comparing one depth | no tracked wallet's trade is dropped, no refusal is hidden, no row is held up by another, a growing queue makes a run red | Ingest, QueueGuard |
| Swap classifier (`lib/parse-swap.ts` `evaluateSwap`, `lib/mints.ts`) | none | a decision over a payload | any part of the payload unreadable; dust, fees, rent, wrapped SOL, two legs | what cannot be read is refused, never guessed | Classifier |
| Position replay (`lib/pnl.ts` `applyTrade`, `lib/decimal.ts`) | the replay's running state | a buy, a sell | truncating division, oversells, unknown basis, closing and reopening | no money made or lost; known basis means known; one verdict per round trip | CostBasis |
| Replay transactions (`lib/pnl.ts` `recomputeDirty`, `replayPosition`, `refreshDaily`; `scripts/backfill-prices.ts`) | `position`, `pnl_position_daily`, `pnl_daily`, `trade.realized_*`, row locks | `insertTrade`, `backfillPrices`, `recomputeDirty` | READ COMMITTED interleavings, row locks, deadlock, a sum read before its lock | a clean position is current; a day is the sum of its positions; a dirty position is replayed | Replay, DerivedView |
| Advisory lock (`lib/lock.ts`) | one holder per key, on an idle connection | `withLock` | the connection drops while the guarded function goes on | at most one run at a time, as long as it holds | in Replay and Ingest |
| SOL prices (`lib/prices.ts`, `scripts/backfill-sol-price.ts`) | `sol_price` | fill by pages, second book, spot, lookup at or before a minute | gaps, caps on requests, minutes not closed yet, overlapping fills | a minute's rate never changes once trades have used it; a fill that says it is whole is | Prices |
| Token metadata (`lib/prices.ts`, `scripts/refresh-token-metadata.ts`) | `token` | refresh in batches, two providers | a queue without a cursor, mints that fail for ever | every mint is reached in turn | Tokens |
| Leaderboard, windows, public reads (`lib/leaderboard.ts`, `lib/kol.ts`, `lib/cabals.ts`, `lib/chain-pnl.ts`, `lib/calendar.ts`, `lib/fiat-total.ts`, `lib/fx.ts`) | none (reads) | rank, one KOL's period and month, the board of cabals | pages of several statements with writers between them; two stores of one figure | figures of a page are of one state, pages agree, no figure without what it is made of | Reads, UnpricedChain |
| Feed (`lib/feed.ts`, `app/api/feed/route.ts`, `app/feed-live.tsx`) | a cursor and a validator in the browser | poll, page, resume | trades stored out of order, hidden tabs, lost answers | nothing is skipped | Feed |
| Registration, proofs, sessions, wallets (`app/api/registro/*`, `app/api/perfil/*`, `app/api/admin/kol`, `lib/roster.ts`, `lib/wallet-proof-store.ts`, `lib/wallets.ts`, `lib/session.ts`) | `kol`, `kol_wallet`, `wallet_proof_nonce`, sessions | issue, burn and prune a nonce; apply, verify, approve; add, paste, verify, withdraw | separate statements with deaths between; limits counted before they are used | what the tables claim, somebody signed; a decision is recorded once | Accounts |
| Cabals (`lib/cabal-actions.ts`, `lib/nominate-cabal.ts`, `lib/orphan-cabals.ts`, `lib/release-cabal-tags.ts`) | `cabal`, `kol.cabal_id`, requests, deputies, nominations | create, join, accept, reject, expel, transfer, appoint, revoke, dissolve, nominate, claim, release | statements that wait for a row lock and go on with their old snapshot; membership read without a lock | seats stay sound, what has ended stays ended, nobody is led or enrolled but by those who may | Cabal |
| Audit log (`lib/audit.ts`) | `audit_log`, a hash chain | append, verify | the tip is found by the clocks of instances | an altered chain does not verify, an untouched one does but for what the clocks put out of order | Audit |
| Rate limiter (`lib/rate-limit.ts`) | counters, a memo per instance | hit, refuse, prune | two clocks; a stale memo | no more than the limit in a window; nobody refused who may pass | RateLimit |
| Webhook subscriptions (`lib/helius-webhook.ts`, `lib/alchemy-webhook.ts`) | the provider's address list, the hash in `setting` | reconcile after a change of the roster | several calls that can fail; two reconciliations at once | what is called unchanged is watched | Subscription |
| Screens (`app/kol-modal-host.tsx`, `app/mi-cabal/cabal-panel.tsx`, `app/admin/admin-screen.tsx`, `app/registro/*`, `app/wallet-step.tsx`, `app/profile-*.tsx`, `lib/avatar.ts`) | component state, answers on their way, an edge cache | press, answer, close | answers out of order, over a selection that has changed | a screen shows what was asked of it | KolModal, CabalPanel, AdminScreen, Registro, ProfilePage, Avatar |
| Database pool (`lib/db.ts`) | one lent connection | `query`, `withTransaction` | a caller freed while its statement goes on; a ROLLBACK that fails | nobody is lent another's transaction | Connections |
| Scripts and suites (`scripts/migrate.mts`, `suite-lock.ts`) | `schema_migrations`, tickets in a directory | run migrations, wait for the machine | two runs of different checkouts; half-written tickets | what is listed has run, once; suites go in turn | Migrate, SuiteLock |

How they interact: the webhook route stores a batch and, after its response, drains
the queue under two advisory locks (`parse-pending`, then `recompute-dirty`); the
crons do the same on their own clock; parsing inserts a trade and marks its
position dirty in one transaction; the replay reads trades and writes positions,
days and the sells' own figures; price backfills write trades and mark positions;
the roster decides which legs of a transaction become trades, and a requeue asks
again when the roster has grown; public pages read `pnl_daily` for calendar periods
and `trade.realized_*` for rolling ones; a registration or an admin's decision
changes the roster, which the webhook is then reconciled with; the screens call
the routes, and what a screen knows is what the last answer said.

## Modules of the figures

**CostBasis** is `applyTrade` over `ReplayState`: one action for a buy, one for a
sell, each with clamping of negative amounts (`toQty`), the fee on both sides, the
proportional cost a sell takes out (`mulDiv`, one truncating division, all of it on
a full exit), the oversell and zero-quantity cases that make a basis unknown, the
closure test cross-multiplied, reopening by a buy, the verdict of an episode, and
the figures by sell and by day. Decimal text is abstracted to integers on the code's
fixed-point grid. History variables (`paid`, `received`, `episodePnl`, ...) record
the cash flow that properties compare with; the code does not keep them.
`UnpricedChain` adds `readChainPnl` over the sells that a replay has written.

**Replay** interleaves, one SQL statement a step, the writers of trades
(`insertTrade`, `backfillPrices`) and the replayers (`recomputeDirty` under
`withLock`). Committed tables are `log`, `dirty`, `view` and `daily`; a session's
uncommitted work is in its own variables; row locks are taken by the statements that
take them in PostgreSQL and released by COMMIT and ROLLBACK, and a statement that
waits is one whose guard is false. What a replay computes is abstracted to *which
trades it had read*: a figure is right if and only if it was computed from the
right rows. Faults: a crash of either kind of process, a failed statement, a lost
connection, the silent loss of the lock's connection, positions that always fail
(`Poison`), and the deadlock between `backfillPrices` and the replay, ended on either
side. **DerivedView** is the abstract specification: trades change and their position
is marked, and one atomic refresh makes it current again. `ImplementsView` is the
refinement.

**Ingest** has the queue, the trades, the roster, the rates and workers inside
`parsePending`: pick the oldest pending rows, then for each row and each wallet in it
look the wallet up, evaluate the leg without a rate, read the rate, evaluate again,
insert, and at the end of the row record the worst error and whether the row is
finished. What `evaluateSwap` decides of a payload for a wallet is the constant
`LegOf`. Deliveries and redeliveries, rates, additions and withdrawals of wallets and
both requeues come at any moment their own locks allow. The lock's connection may drop
under a run, which goes on; two history variables say which runs those are (`lost`) and
which rows they have written since (`late`), because the UPDATE at the end of a row
(`lib/parse-swap.ts:1967`) asks for no state of it. **QueueGuard** is what the
cron does around it: batches under the lock until the queue is empty, the budget is
spent or another run has the lock, and the comparison of the queue's depth with the
one that the last run left.

**Classifier** is `evaluateSwap`. A behaviour takes one true payload and loses parts
of it, any of them, one after the other; `Classify` is evaluated on what is left, and
properties compare it with what the whole payload would have given. Amounts are scaled
with `PowerOfTen`, a recursive function, and every loop that adds is `SumOver`, a fold
over a set.

**Prices** has the two writers of `sol_price` and the trades that take a rate from
it: a fill reads pages of USDC candles, then looks in the USDT book for what is
missing, and writes with ON CONFLICT DO NOTHING; the spot rate is one minute; the
clock goes on meanwhile. **Tokens** is a run of `refreshTokenMetadata` over a queue
ordered by `updated_at`.

**Reads** puts each page together statement by statement, with writers in between:
the ranking, the modal's period and month, the board of cabals. A replay is of one
position: it stores what each of its sells realized (`replayed`), which is what cards,
modal and board add up, and it posts them in `pnl_daily` (`posted`), which is what the
calendar shows, unless their basis is unknown (`lib/pnl.ts:509`). The two stores are
therefore apart in the model as they are in the program, nothing is claimed of the one
from the other, and the calendar has one row for each chain of a day. Most properties
speak of pages between whose statements no write fell (`OfOneState`) and of pairs of
pages over the same interval; `NothingIsHalfShown` is what holds through any write
between the statements. **Feed** is the paging statement, the route's validator and
the client's cursor.

## Modules of the accounts

**Cabal** cuts a signed action where the code does: authorised (outside of the
transaction), then the statement that finds the cabal's row and waits for its lock,
then the reads that decide, then the writes. A statement that has waited looks again
at the new version of the row it waited for and at nothing else, as READ COMMITTED
does; so what a session has `seen` is its snapshot. **Accounts** has one action per
statement of each handler, any of which may be the last of its process. A nonce
stands for the message that carries it. **Audit** has writers under `appendAudit`'s
advisory lock, an alteration behind the trigger's back, and `verifyAuditChain` as an
operator. An entry is stamped by the clock of whichever instance writes it and ties go
by a random id, so that a stamp may be any and an id any that is free: the order in
which rows are read need not be that in which they were linked. **RateLimit** has one window
table, instances with their memos and the drift of their clocks. **Subscription** has
`syncHeliusWebhook` call by call: a refusal, a lost answer, a webhook that is gone.

## Modules of the screens and scripts

**KolModal, CabalPanel, AdminScreen, Registro, ProfilePage** each have the component's
state, the set of calls on their way and one action for everything that can be pressed
and every answer, delivered in any order the code's awaits and aborts leave possible. In
ProfilePage the answer of a change may be lost, which gives the buttons back, while the
server carries the change out at that moment, later (`LandsLate`, after any other change
of the same modal) or never. **Avatar** is the route and `readAvatar` behind the edge
cache that its `Cache-Control` speaks to. **Connections** is `lib/db.ts` over
node-postgres' pool (external). **SuiteLock** is the queue of tickets, **Migrate** the
runner of migrations with the guards on what it is pointed at. **Screens** and
**Operations** put the components of each kind side by side, with one property over all
of them.

Modules whose names begin with MC give constants their values. `MCFigures`,
`MCAccounts`, `MCStores` and `MCProgress` run several components side by side in one
state space: a variable `part` says which of them a behaviour is of, they share no
variable, and the others stay in their initial state. One run then checks the invariants
of all of them, and the number of states is a sum and not a product. `MCStores` and
`MCProgress` have Ingest and Replay; in the second only the one that runs is treated
fairly (`ProgressFairness`), since the other takes no step.

## What each run shows

| Run | Instance | What it shows |
|---|---|---|
| `figures` | `MCFigures`, fifteen parts | below |
| `withheld_rows` (violation) | `MCCostBasis` | finding 1 |
| `two_chains_a_day` (violation) | `MCReads`, two KOLs, one of whom sells on two chains | finding 7 |
| `stores` | `MCStores`. Replay: two writers, two replayers, two mints with a sell each on one day, one fault | no interleaving and no crash clears a mark with a trade unread behind it (`CleanIsCurrent`), a day is the sum of its positions (`DailyIsSum`), and the statements implement an atomic refresh (`ImplementsView`) |
| | Ingest: two transactions with two wallets that fail in different ways, two parsers, the second let in by a lost lock | no tracked wallet's trade is dropped (`NoLegDropped`), no refusal is hidden (`NothingIsHidden`), and only a parser that lost its lock leaves on a parsed row an error that waits (`ParsedIsFinished`) |
| `progress` | `MCProgress`. Ingest: one parser that may lose its lock, a payload in front that cannot be read | a requeue that left nothing to move has attributed every row (`RequeuedIsAttributed`), and a swap is recorded once its rate is there (`EventuallyRecorded`) |
| | Replay: two replayers, the position that always fails first in the list | a dirty position is replayed in the end (`EventuallyReplayed`) |
| `replay_lock_drops` (violation) | the same two replayers, a lock that can be lost | finding 2 |
| `ingest_rest` (violation) | the operator who follows the script's advice | finding 3 |
| `accounts` | `MCAccounts`, six parts | below |
| `audit_fork` (violation) | `Audit`, two writers | finding 8 |
| `cabal_moved` (violation) | `MCCabal` | finding 4 |
| `hash_race` (violation) | `MCSubscription`, two reconciliations at once | finding 5 |
| `unpriced_chain` (violation) | `UnpricedChain` | finding 6 |

The parts of `figures`:

| Part | Properties | What they say |
|---|---|---|
| CostBasis | `Conservation`, `KnownBasisIsCovered`, `ExitRealizesCashFlow`, `ClosedMeansSold`, `OneVerdictPerEpisode`, `KnownDaysAreTheSells`, `VerdictIsOfTheEpisode` | money is conserved under rounding, a full exit realizes exactly the cash flow, the closed flag is the closure test, every round trip has one verdict, judged on its own result, and for a known basis the figures by day and by sell agree |
| Prices | `RatesAreOfTheirBook`, `TradesFollowTheTable`, `FillIsWhole` | a USDT close stands only where the USDC book has no candle and no minute has a price of before its close; a trade's rate stays the table's; a fill that was not cut off skipped nothing |
| Classifier | `UnreadIsRefused` | what cannot be read never becomes another trade; a trade is passed over in silence only when nothing that is left says that the wallet took part; losing one part of a trade that moved lamports is refused as malformed |
| Feed | `NothingSkipped` | between the trades a client holds none is missing, but for those stored behind it |
| Reads | `PagesHoldTogether` | cards add up, the modal says what the card says, a cabal what its members add up to, the calendar what `pnl_daily` holds of the month; and through any write between two statements, no figure stands without its chains or beside fewer trades, no address on another's card |
| KolModal, CabalPanel, AdminScreen, Registro, ProfilePage, Avatar (Screens) | `ScreensShowWhatIsAsked` | one conjunct for each: the selection on the screen, one verdict, one's own approvals, distinct wallets with the signatures asked for, nothing published unasked however late a change lands, no letter or picture beyond its lifetime |
| SuiteLock, QueueGuard, Migrate, Connections (Operations) | `OperationsAreSound` | one conjunct for each: turns in the order of tickets, growth is told, files run once and in order and production is never emptied, no connection with another's transaction |

The parts of `accounts`:

| Part | Properties | What they say |
|---|---|---|
| Cabal | `SeatsAreSound`, `OneDecides`, `DissolvedIsFinal`, `LeaderIsHandedOn`, `NobodyIsEnrolled` | two deputies at most, none the leader, none of two cabals; one request decides about a cabal at a time; a dissolved cabal gets nothing any more; a leader hands on or an offer is claimed; nobody is enrolled who did not ask |
| Accounts | `StandsOnASignature`, `DecidedOnce`, `WalletsAreBounded` | a session, a proved wallet and a withdrawal each have a signature behind them; an approval is recorded once; the limit on wallets is passed by concurrent requests only, by one each |
| Subscription | `NothingUnwatched` | with one reconciliation at a time (`SyncAlone`), what is called unchanged is watched |
| Audit | `VerdictIsRight` | whatever the clocks say, with nothing touched only a row that they put on the wrong side of another is reported, and an alteration, or a deletion in the middle, always is |
| RateLimit | `WithinLimit` | the limit holds over instances, and a memo refuses only whom the table would |
| Tokens | `ReachedInTurn` | no mint is passed over for more runs than N / limit |

Every property has a mutant, a change of one mapped definition such as a
plausible bug would make, under which its run fails. The mutants are operators of
their module, marked `Mutant:`.

## Bounds

| Bound | Value | Why it is enough |
|---|---|---|
| `MaxTrades` (CostBasis) | 5 rows of 18 (3 in `unpriced_chain`) | closing, reopening and closing again takes four; the fifth disturbs it anywhere |
| `Writers`, `Replayers`, positions (Replay) | 2 each | every lock conflict is between two sessions; the second position is what a lost sum loses; the proofs lift it |
| `Limit` (Replay) | 2 | more than the positions that always fail (`LimitAssumption`) |
| `Txs`, `Wallets` (Ingest) | 2 | two legs that fail differently; a row behind another |
| `PendingLimit`, `UntrackedLimit` | 1 (2 in `ingest_rest`) | a run that does not take everything |
| `MaxFaults`, `MaxParseFaults` | 1 (0 in `ingest_rest`); a lost lock is one fault | each property is about what one fault at the worst moment leaves behind |
| `LastMinute`, `PageSize`, `MaxRequests` (Prices) | 3 minutes, pages of 2, 1 request | a fill that is cut off with minutes left, a minute in the middle of a page, a lookup before a minute |
| `Places`, `MaxPages`, `FeedPage` (Feed) | 3, 2, 1 | one trade before, one between and one behind a page |
| `Payloads`, `MaxHidden` (Classifier) | 244 payloads, 2 parts lost | every branch of `evaluateSwap` is taken, with own lamports that moved and that did not; the second loss is what can hide the first |
| `Trades`, `MaxWrites`, `LastDate` (Reads) | 5 trades of two KOLs: on one day a gain on one chain and a loss on another, a sell that leaves the window before the month, a buy; 1 write | one write between any two statements is what makes a page of two states |
| screens | two of each thing that can be chosen, one attempt or change more than needed | an answer to an earlier question needs two questions |
| `Suites`, `Cap`, `LastMoment` (SuiteLock) | 2, 1, 2 | one waits for the other, a ticket is given up after the cap |
| `Runs`, `MaxMigrations` (Migrate) | 2 runs of two checkouts, 3 files | a file that one checkout lacks between two that it has |
| `Kols`, `Cabals`, `Sessions`, `MaxProofs` (Cabal) | 3, 2, 2, 3 requests | a leader, a deputy and an applicant of two cabals; two requests at once and one after |
| `Requests`, `Nonces`, `Addresses`, `MaxStarts` (Accounts) | 2, 2, 3, 3 | two requests at once and one after; two limits of wallets |
| `Hooks`, `MaxSyncs` (Subscription) | 2, 3 | a webhook that is lost and replaced; a sync before, during and after |
| `MaxRows`, `MaxTime` (Audit) | 4, stamps 0 to 2 (3 and 1 in `audit_fork`) | a row before, the altered one, one after, one appended later; stamps that go back, and that are equal |
| `LoadIds`, `ChangeIds` (ProfilePage) | 2 each | a change that is lost beside one that follows it; two loads in either order |
| `MaxHits`, `MaxClock`, `Drift` (RateLimit) | 2 in flight, 4 ticks, 1 | two windows and a clock behind by one |

`MCAccounts` shares its sets among its parts, so that one symmetry (permutations of
people, cabals, tags and sessions) serves all of them; no action of any part chooses
by identity. Runs with temporal properties use no symmetry. `CHECK_DEADLOCK FALSE`
stands where the inputs are bounded and the system has nothing more to do; the
runs of Ingest and Replay (`stores`, `progress`, `ingest_rest`, `replay_lock_drops`)
check deadlock, since there waiting is what the locks make of it.

## Fairness

Nothing is assumed of deliveries, new trades, rates, the roster, people or faults.
`Fairness` (Replay) and `IngestFairness`: a statement that was sent is executed;
the workflow `parse-pending.yml` starts the crons again and again (every five
minutes), hence weak fairness of starting *some* run and not of each worker; a
waiting row lock is granted in the order it was asked for, hence strong fairness of
the three statements that wait; the deadlock detector looks at every wait. Only
`progress` and `ingest_rest` use it. `progress` assumes that the
operator requeues finitely often; `ingest_rest` that they requeue whenever the queue
has drained, as the script tells them to. `ReachedInTurn` is a liveness promise of
the code with its bound ("within ceil(N / limit) runs") and is stated as an
invariant over counted runs.

## What is proved

`tlapm` checks, for every value of the constants that satisfies the named
assumptions, the theorems below. All of them are about the specifications that the
runs check, and each rests on an inductive invariant with one lemma for every action.
The modules of proofs are eight:

| Module | About | Assumptions | Inductive invariants |
|---|---|---|---|
| FiguresProofs | CostBasis, Prices, Feed | `ThresholdAssumption`, `InputAssumption`; `PriceAssumption`; `FeedAssumption` | `CostOK`, `BooksOK`, `PricesOK`, `FeedOK` |
| ClassifierProofs | Classifier | `ClassifierAssumption`, `UnreadAssumption` | `PayloadOK` |
| ReadsProofs | Reads | `ReadsAssumption` | `PagesOK`, `WholeOK` |
| ReplayProofs | Replay, DerivedView | `StoreAssumption`, `SessionAssumption` | `IInv`, `DInv` |
| IngestProofs | Ingest | `TxAssumption`, `WorkerAssumption` | `IInv`, `LInv` |
| AccountsProofs | Cabal, Accounts | `KolAssumption`, `BoundAssumption`; `NobodyAssumption`, `AccountsBounds` | `SeatsInductive`, `AInv` |
| ServicesProofs | RateLimit, Subscription, Audit, Tokens | those of the four modules | `LimitOK`, `SubscriptionOK`, `AuditOK`, `TokensOK` |
| ScreensProofs | KolModal, CabalPanel, AdminScreen, Registro, ProfilePage, Avatar; SuiteLock, QueueGuard, Migrate, Connections | those of the ten modules | `KolOK`, `PanelOK`, `AdminOK`, `RegistroOK`, `ProfileOK`, `AvatarOK`; `SuiteOK`, `GuardOK`, `MigratedOK`, `PoolIsOK` |

**CostBasis**: `TypeOK`, `Conservation`, `KnownBasisIsCovered`, `ExitRealizesCashFlow`,
`ClosedMeansSold`, `OneVerdictPerEpisode`, `KnownDaysAreTheSells` and the action
property `VerdictIsOfTheEpisode`, for any rows, amounts, finite set of days, log length
and closure threshold in (0, 1]. `ExitRealizesCashFlow` is not inductive: that nothing
held costs nothing has to be carried along (`NothingHeldCostsNothing`), which needs
that a sell of everything takes all of the cost and that a known basis never sells more
than it holds. The lemma on `mulDiv` (`ShareBound`) is that a share never exceeds the
whole. The verdicts and the figures by day are sums over the days, that is folds over
a set. What they need of induction over finite sets is `SubsetInduction`, stated with a
set in place of a predicate and proved from the well-foundedness of inclusion; from it
come that a sum exists, that it is the fold in whatever order (`AnyOrder`,
`SumsExist`), and what one more term or one changed term makes of it (`OneMore`,
`OneTerm`). With that each day is the sum of the sells that fell on it (`DaysAreSums`),
and the number of verdicts is that of the episodes that were closed.

**Prices**: the type, `RatesAreOfTheirBook`, `TradesFollowTheTable` and `FillIsWhole`,
for any minutes, page size, cap on requests, fills at once and trades. The invariant is
about one fill (`Honest`): its window has closed, what it has got is of the book it is
called after, and it has everything the USDC book holds as far as the cursor has come,
or says that it was cut off. Closed minutes do not change (`TickOK`) and rates stand
once written (`RatesStand`), which is what trades lean on.

**Feed**: `NothingSkipped`, for any places, owners and page sizes. The invariant says of
the reader's cursor and of every answer on its way what has been handed over behind it
but for the trades stored or published there too late.

**Classifier**: `UnreadIsRefused`, for any transactions, coins, rates, rent and dust
limits, and any number of parts lost. The invariant only says how what the parser sees
relates to the transaction: parts are missing and nothing in it has changed (`Lost`), and
after one loss one part is missing (`OneLost`). The theorem is then about two evaluations
of the same function. Where the parser gets as far as the legs, a change of ours that is
missing had no owner that can be read and a known amount of zero (`OwnKept`). So every
sum over what is left is the sum over the whole, but perhaps at a coarser scale, because
a lost zero may have had the most decimals: the whole's amount is the other's times a
power of ten (`LegKept`), which changes neither sign nor dust nor a truncated quotient
(`Cancel`, `TruncatedScaled`), and `SameTrade` compares amounts at their scales. The SOL
side is the same number (`SolKept`), so the same branch is taken (`EvaluateFollows`,
`ClassifyFollows`). The rent that entries state is the one number that may differ, in
both directions: it stands between a trade and `sol_leg_is_residue` and the property
says so. With one part lost, and one mint in each token account, it can only fall
(`RentNoMore`). Where the parser does not get that far it throws, or nothing of ours is
left (`NotRead`); with one part lost, what moved the wallet's own lamports is still there
then, and the row is malformed (`StillInvolved`). The lemmas on powers of ten (the library
has no theorem on recursive functions over the numbers that could be used here) start
from `NumberInduction`, an induction with a set in place of a predicate.

**Reads**: the types and `PagesHoldTogether`, for any finite roster, cabals, trades and
wallets, any windows and any limit. The invariant dates every page by the count of writes:
as long as nothing was written since its first statement, what it has is what that
statement would give now (`RankingOK`, `DetailOK`, `BoardOK`); after a write it claims
nothing. So every property of a page of one state becomes one of the tables: what the
cards of a cabal's members add up to is the sum over the cabal's trades, and the last
running total of a month is the sum over what `pnl_daily` adds up, both by sums over groups
(`ByGroups`, `RunningIsTotal`); the streak that the modal counts in one pass over the
days is the longest interval of days that closed up (`OnePass`, `StreakIsLongest`).
A ranking lists at each place the row that as many others come before (`InOrder`); that
this lists every row once is the lemma `RankedLists`, for the orders of the code, which
all end in a key that is unique. For `NothingIsHalfShown` a second invariant (`WholeOK`) has
what no write takes back: recorded trades stay, and a sell that has a figure keeps one.

**Replay**: `TypeOK`, `CleanIsCurrent` and `ImplementsView` for any number of trades,
positions, writers and replayers, whether or not the lock is lost; `DailyIsSum` as long
as it is not (`~LockCanDrop`, which the run `replay_lock_drops` shows to be necessary).
The invariant: a writer that has marked its position, and a replayer from its first
statement on, hold the position's row lock, and therefore what a replay has read is
still what is there when it commits. For the day: at most one replayer is not idle, so
the sum it has read is still the one to write.

**Ingest**: `IngestTypeOK`, `NoLegDropped` and `NothingIsHidden` for any transactions,
wallets, workers and limits, and so are `ParsedIsFinished` and `RequeuedIsAttributed`,
whether or not the lock is lost: both except the rows in `late`, which a run wrote after it
had lost its lock. The invariant is about one worker and one wallet at a time (`LegOK`): of
a leg the worker has been through, either the trade is there or the row's error says why
not. For the last two: of the workers that have not lost the lock one runs at a time, the
rows in its hands are marked by nobody but those that have (and are then in `late`), and
no requeue comes in between.

**Cabal**: `SeatsAreSound`, `OneDecides`, `DissolvedIsFinal`, `LeaderIsHandedOn` and
`NobodyIsEnrolled` for any KOLs, cabals, tags and number of requests at once. The
invariant says of a session that has decided what it decided on and that this is still
so (`DecidedOK`): the cabal is live, the request pending, the seat free and not the
leader's, the offer in the claimant's name. It stands because whoever writes in a
cabal's rows either holds its lock or found it free (`OwnRowsOnly`, `FreeRowsOnly`), so
that the decisions of others are about other cabals (`Kept`). That a deputy's snapshot
may be stale does not matter: only the three actions of `AsLeader` touch what needs the
leader, and their snapshot has no deputies. Soundness of the seats needs in addition
that rows not created yet are empty.

**Accounts**: the type, `StandsOnASignature`, `DecidedOnce` and `WalletsAreBounded`, for
any handles, addresses, nonces and requests. The invariant says what each handler relies
on when its next statement runs (`RequestOK`): the nonce it checked is spent or is still
its own to spend, and what it took for proven was signed. What it relies on is never
taken back (`Grows`: spent nonces, owners of addresses, registrations), which is what
makes separate statements with deaths in between harmless here. An approval is in the
log, or exactly one request is about to write it or died before it could (`DecisionOK`).
For the limit, the wallets a KOL has and those that requests which have counted them
are about to insert are bounded together: each step of a paste moves one from the
second number to the first.

**RateLimit**: the type and `WithinLimit`, for any clients, instances, limit and window.
What has to be carried along is that a memo of an instance was written by an answer of
the table, so that it refuses no more than the table would.

**Subscription**: `NothingUnwatched`, as long as reconciliations go one at a time
(`SyncAlone`, which the run `hash_race` shows to be necessary), for any wallets,
webhooks, failed calls, lost answers and lost webhooks. An address is new, then wanted,
then gone; therefore a set that was the roster's covers an earlier one but for the
wallets gone since (`Covers`), and what is replaced on a webhook after the hash was
stored loses no wallet the hash stands for.

**Audit**: the type and `VerdictIsRight`, for any writers, any number of rows and
whatever the clocks of the instances say. Nothing is assumed of stamps; the fork that
they can make is part of the theorem: with nothing touched, a row that is reported has
another on a different side of it in the order of the read than in the order of the
appends (`OnlyDisorderBreaks`). As long as nobody has touched the table every row links
to what was the tip of the rows before it (`ChainOK`); afterwards an altered row breaks
its own hash, and a deleted one to which a row that is not the first links leaves an
orphan, which no later row can put right (`OrphanBreaks`).

**Tokens**: the type and `ReachedInTurn`, for any finite set of mints, any limit of a
run, size of a batch and pairs that DexScreener may list. The measure is `Past(m)`, the
mints that have a row and are out of the queue or behind m in it. While m waits it only
grows, by one with every row that is written, and m is not in it; a run that could have
taken m and did not has taken as many as its limit, none of them in `Past(m)`. So each
such run adds its limit to a number that stays below that of the mints (`PassedOK`,
`InTurnOK`).

**Screens**: `ScreensShowWhatIsAsked`, for any KOLs, wallets, chains, actions and
answers: the theorem of the composition follows from one for each screen. The
invariants tie what is on its way to what is on the screen: every fetch of the modal
that has not been aborted is for the KOL, period and month that are open (`ModalOK`);
the panel has one call under way at most, by the wallet it shows, and nothing is said
before it ends (`PanelOK`); a change of a wallet's visibility under way, its answer lost
or not, publishes what its owner wants to be shown or a modal that is gone had asked to be
(`ChangesOK`). For Avatar the lifetimes
of a monogram must not exceed those of a picture (`LifetimesAssumption`;
`app/api/avatar/[kolId]/route.ts:75-76`).

**Operations**: `OperationsAreSound`, in the same way. SuiteLock: of every ticket in the
line that a suite read before its turn it knows that it is younger, that its run is dead
or that it is too old to count (`PlaceOK`), clocks included. QueueGuard: of the depths
stored, none is above an earlier one without a red run between, if no two statements
overlap (`GrowthIsTold` says so itself). Migrate: no lock keeps two runs apart, and it
is the primary key of `schema_migrations` that makes a run wait for the one that has the
file in hand and then abort, so a file runs once, in order. Connections: one call at a
time has the client, a transaction is open on it only while that call lasts, and a
client whose transaction may not have ended is given back as broken (`PoolOK`).

`Screens` and `Operations` are conjunctions of the specifications of their components,
which share no variable. The runs `figures` and `accounts` check the components one at a
time and not the product, which for invariants of one component each is the same.

Out of the provers' reach, and therefore model-checked only:

- Liveness: `EventuallyReplayed`, `EventuallyRecorded`, `MovesTheRest`, and with them
  enabledness and deadlock.
- `FiguresTypesOK`, `TypesOK` and `StoresTypesOK`, which only say for the modules
  MCFigures, MCAccounts and MCStores which component's type invariant applies. Those of
  the components are proved where an invariant needs them (that of Reads is,
  `ReadsTypes`); what Classifier sees is described by `PayloadOK` instead of a type.
- The properties of the runs that TLC must find violated.

## Findings

Each is a run that TLC must find violated, and quotes the text it disagrees with in
`PROJECT.json`.

1. `withheld_rows`: per-sell figures of a position with unknown basis are kept
   and counted by the rolling windows, while the daily ones are withheld
   (`lib/pnl.ts:321-326`, `509`).
2. `replay_lock_drops`: `refreshDaily` (`lib/pnl.ts:555`) writes a sum it read before
   it had the day's row; only the advisory lock keeps a second run away, and that
   lock can be lost silently (`lib/lock.ts:78`).
3. `ingest_rest`: requeueing newest first (`lib/requeue-untracked.ts:73`) never
   reaches older rows behind ones that match nobody.
4. `cabal_moved`: an applicant whom two cabals accept at once, or who creates a cabal
   meanwhile, is silently moved (`lib/cabal-actions.ts:254-265`).
5. `hash_race`: two reconciliations at once leave a wallet unwatched that every later
   call reports as watched (`lib/helius-webhook.ts:245`).
6. `unpriced_chain`: an unpriced sell is stored as one for zero dollars, so that the
   null that `lib/chain-pnl.ts:35` promises is never seen (`lib/pnl.ts:217`).
7. `two_chains_a_day`: since `pnl_daily` has a row for each chain of a day, the calendar's
   series is no longer "one row per day" (`lib/kol.ts:145`), and the calendar keeps one
   of the rows (`lib/calendar.ts:101`, `246`).
8. `audit_fork`: the lock orders the appends, but an append links to the row with the latest
   clock (`lib/audit.ts:136-142`), so that two entries in one millisecond, or clocks that
   differ, make the fork that `lib/audit.ts:32-38` says there cannot be.

Met on the way, and not worth a run of their own:

- Defined in the modules and not listed as properties, because the code's own text
  promises a little more than it does: `ClaimedWithoutDeputies` (a deputy can be
  appointed between the snapshot of a claim and its lock, and the claim goes through
  and removes no more than the claimant's own seat), `MissingHasNoCandle` (a minute
  that an overlapping fill closed is counted as missing), `UnstatedRentIsNoTrade`
  (rent that the payload no longer states can turn residue into a trade),
  `StatementsAreLimited` (a connection that `withTransaction` opens is never told its
  `statement_timeout`), `QuietIsUpToDate` (the client stores the validator before it
  has read the body), `BnbIsReplaced` ("replaces the watched set", but only adds).
- Adding a wallet in the profile and withdrawing one are followed by no
  reconciliation of the webhook; `lib/helius-webhook.ts:343-345` says they all end in
  one. Subscription lets the roster change at any moment for that reason.
- A trade in which the wallet's own lamports come to zero, and whose one token change
  cannot be attributed, is passed over in silence: `parse-swap.ts:1435-1473` takes a
  wallet for uninvolved when no lamports of its own are known to have moved. That is
  what `Uninvolved` says in `UnreadIsRefused`, and why the part of the property about
  one loss asks for `Native(truth) # 0`. It also asks for token accounts as the chain
  has them, of one mint each and apart from the wallet (`OneMintEach`): of an entry with
  two mints, the loss of the wrapped SOL would state rent that was not stated before.
- In the profile a change whose answer was lost can be carried out after a later
  "Ocultar todas" (`app/profile-modal.tsx:65-83` gives the buttons back when the fetch is
  rejected), so that a wallet its owner has hidden becomes public. `PublicIsWanted`
  counts such a showing as asked for, and says so.
- A parser that lost its lock writes the error of a row that another has finished
  (`lib/parse-swap.ts:1967` asks for no state): the row says it waits for a rate and is
  parsed. `ParsedIsFinished` bounds that to the rows such a parser wrote; their trades stand.
- `GET /api/feed` answers only to the admins' bearer token
  (`app/api/feed/route.ts:72`), and `app/feed-live.tsx:52`, which polls it, sends no
  Authorization header. Feed has the refusal of any poll beside its answer.
- Inside `parse-pending`'s guard, two statements at once may each miss that the queue
  grew (`StatementsOverlap = TRUE`).
- A paste cut off between its two statements leaves the pasted wallet called verified;
  a validation that fails after its nonce was burnt cannot be tried again with it.
- A detail that fails to load in the modal is not fetched again by pressing the
  segment that is selected; an answer of the old action may appear under a newly
  chosen one in the cabal panel.

## Not modelled, and why

- `lib/crypto.ts`, `lib/wallet-proof.ts`' signature checks and the tweet's text: a
  signature is good or not, a tweet matches or does not.
- The browser's own cache in front of the edge's in Avatar.
- Rendering, wording, formatting and validation of the lengths of texts; pages that
  only show what they are given; `lib/profile.ts` beyond what `ProfilePage` shows.
- Chains in Cabal and Accounts: a KOL has one wallet in the first, and an address is
  unique in the second. Visibility is in ProfilePage and Reads only.
- Seeds (`scripts/seed-preview.ts`, `scripts/sombra-*.ts`), the network guard, schema
  parity and source hygiene: fixtures and one-shot checks without state that
  interleaves.
- Bind-parameter and statement-size limits (`lib/pnl.ts:416`), which no bound small
  enough to check would reach. As many positions that always fail as the limit of a
  run are excluded by `LimitAssumption`; the code's comment says what they would do.
- One composition from delivery to published total: Ingest ends where a trade is
  recorded and its position marked in one transaction, Replay begins there, and
  `DerivedView` is their interface.
