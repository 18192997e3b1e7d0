---------------------------- MODULE IngestProofs ----------------------------
(***************************************************************************)
(* What Ingest promises for any transactions, wallets, workers and limits. *)
(* With or without the lock, no leg of a wallet that was tracked all along *)
(* is dropped and no refusal hidden.  A row marked parsed waits for        *)
(* nothing, and a requeue that left no row to move has attributed every    *)
(* row to the wallets there were, except for the rows that a run has       *)
(* written after it lost the lock.                                         *)
(***************************************************************************)
EXTENDS Ingest, TLAPS, FiniteSetTheorems

InRow(k) == at[k] \in {"row", "rate", "trade"}

\* The legs of the row in hand of which nothing is known yet.
Undecided(k, w) == w \in legs[k] \/ (at[k] \in {"rate", "trade"} /\ leg[k] = w)

Refused(t, w) == t \notin Unreadable /\ LegOf[t][w] \in {"refused", "tiny"}

\* What a worker knows of a leg it has been through, if the wallet is tracked:
\* either the trade is there, or the row's error says why not.
LegOK(k, w) ==
    InRow(k) /\ ~Undecided(k, w) =>
        /\ Tradeable(row[k], w) => <<row[k], w>> \in trades \/ rowError[k] \in Requeueable
        /\ Refused(row[k], w) => rowError[k] # NoError

\* A leg that waits for its rate is one that needs it, and one that is about to be
\* written is a good one.
CurrentOK(k) ==
    /\ at[k] = "rate" => LegOf[row[k]][leg[k]] \in {"stable", "tiny"}
    /\ at[k] = "trade" => LegOf[row[k]][leg[k]] \in {"sol", "stable"}

\* A wallet of the roster is never unknown again, so nobody joins the steady ones.
RosterOK == \A w \in Roster : status[w] # "absent"

IInv ==
    /\ IngestTypeOK
    /\ RosterOK
    /\ \A k \in Workers : CurrentOK(k) /\ \A w \in Steady : LegOK(k, w)
    /\ NoLegDropped
    /\ NothingIsHidden

-----------------------------------------------------------------------------
\* Types.

\* What a worker holds between runs is of the right type.
LEMMA AnyType == AnyTx \in Txs /\ AnyWallet \in Wallets
  BY TxAssumption DEF AnyTx, AnyWallet

\* A row that was delivered has a rank.
LEMMA DeliverType ==
    ASSUME IngestTypeOK, NEW batch \in SUBSET Txs, Deliver(batch)
    PROVE  received' \in [Txs -> Nat]
<1>1. IsFiniteSet({u \in Txs : received[u] > 0})
  BY TxAssumption, FS_Subset
<1>2. Cardinality({u \in Txs : received[u] > 0}) \in Nat
  BY <1>1, FS_CardinalityType
<1> HIDE DEF IngestTypeOK
<1>3. received \in [Txs -> Nat]
  BY DEF IngestTypeOK
<1> QED
  BY <1>2, <1>3 DEF Deliver

\* The worst of two errors is one of them.
LEMMA WorseType ==
    ASSUME NEW e \in RowError, NEW f \in RowError
    PROVE  Worse(e, f) \in RowError
  BY DEF Worse

\* Every step of a worker leaves the tables and the workers well typed.
LEMMA WorkerType ==
    ASSUME IngestTypeOK, NEW k \in Workers, StartParse(k) \/ Parse(k) \/ Fail(k) \/ DropParseLock(k)
    PROVE  IngestTypeOK'
<1> USE DEF IngestTypeOK
<1>1. CASE StartParse(k)
  <2>1. PICK F \in SUBSET Txs : toParse' = [toParse EXCEPT ![k] = F]
    BY <1>1 DEF StartParse, OldestFirst
  <2> QED
    BY <1>1, <2>1 DEF StartParse, rawTx, world
<1>2. CASE ReadRow(k)
  <2>1. PICK t \in Txs : /\ toParse' = [toParse EXCEPT ![k] = @ \ {t}]
                         /\ row' = [row EXCEPT ![k] = t]
    BY <1>2 DEF ReadRow
  <2>2. legs' \in [Workers -> SUBSET Wallets] /\ rowError' \in [Workers -> RowError]
    BY <1>2 DEF ReadRow, RowError
  <2> QED
    BY <1>2, <2>1, <2>2 DEF ReadRow, rawTx, world, lock
<1>3. CASE EvaluateLeg(k)
  <2>1. PICK w \in Wallets :
          LET kind == LegOf[row[k]][w]
          IN /\ legs' = [legs EXCEPT ![k] = @ \ {w}]
             /\ \/ UNCHANGED <<at, leg, rowError>>
                \/ /\ kind \in {"refused", "garbled"}
                   /\ rowError' = [rowError EXCEPT ![k] = Worse(@, ErrorOf(kind))]
                   /\ UNCHANGED <<at, leg>>
                \/ /\ at' = [at EXCEPT ![k] = IF kind = "sol" THEN "trade" ELSE "rate"]
                   /\ leg' = [leg EXCEPT ![k] = w]
                   /\ UNCHANGED rowError
    BY <1>3 DEF EvaluateLeg
  <2>2. UNCHANGED <<rawTx, trades, world, lock, toParse, row, parseFaults>>
    BY <1>3 DEF EvaluateLeg
  <2>3. \A kind \in {"refused", "garbled"} : Worse(rowError[k], ErrorOf(kind)) \in RowError
    BY WorseType DEF ErrorOf, RowError
  <2> QED
    BY <2>1, <2>2, <2>3 DEF rawTx, world, lock
<1>4. CASE ReadRate(k)
  <2>1. \A e \in {"refused", "no_rate"} : Worse(rowError[k], e) \in RowError
    BY WorseType DEF RowError
  <2> QED
    BY <1>4, <2>1 DEF ReadRate, rawTx, world, lock
<1>5. CASE InsertLeg(k)
  BY <1>5 DEF InsertLeg, rawTx, world, lock
<1>6. CASE WriteRow(k)
  <2>1. parsed[row[k]] \/ Settled(rowError[k]) \in BOOLEAN
    BY DEF Settled
  <2> QED
    BY <1>6, <2>1 DEF WriteRow, world, lock
<1>7. CASE EndParse(k)
  BY <1>7 DEF EndParse, Unlock, rawTx, world
<1>8. CASE Fail(k)
  BY <1>8, WorkerAssumption DEF Fail, Unlock, rawTx, world
<1>9. CASE DropParseLock(k)
  BY <1>9, WorkerAssumption DEF DropParseLock, rawTx, world, lock, run
<1> QED
  BY <1>1, <1>2, <1>3, <1>4, <1>5, <1>6, <1>7, <1>8, <1>9 DEF Parse

\* Every other step does, too.
LEMMA WorldType ==
    ASSUME IngestTypeOK,
           \/ \E batch \in SUBSET Txs : Deliver(batch)
           \/ \E t \in Txs : RateArrives(t)
           \/ \E w \in Wallets : AddWallet(w) \/ WithdrawWallet(w)
           \/ RequeueNoRate
           \/ RequeueUntracked
    PROVE  IngestTypeOK'
<1>1. ASSUME NEW batch \in SUBSET Txs, Deliver(batch) PROVE IngestTypeOK'
  <2>1. received' \in [Txs -> Nat]
    BY <1>1, DeliverType
  <2> QED
    BY <1>1, <2>1 DEF IngestTypeOK, Deliver, world, lock, run
<1>2. ASSUME NEW t \in Txs, RateArrives(t) PROVE IngestTypeOK'
  BY <1>2 DEF IngestTypeOK, RateArrives, rawTx, lock, run
<1>3. ASSUME NEW w \in Wallets, AddWallet(w) \/ WithdrawWallet(w) PROVE IngestTypeOK'
  BY <1>3 DEF IngestTypeOK, AddWallet, WithdrawWallet, rawTx, lock, run
<1>4. CASE RequeueNoRate
  BY <1>4 DEF IngestTypeOK, RequeueNoRate, RowError, world, lock, run
<1>5. CASE RequeueUntracked
  BY <1>5 DEF IngestTypeOK, RequeueUntracked, lock, run
<1> QED
  BY <1>1, <1>2, <1>3, <1>4, <1>5

\* The tables and the workers keep their types.
THEOREM TypeCorrect == IngestSpec => []IngestTypeOK
<1>1. IngestInit => IngestTypeOK
  BY AnyType, TxAssumption, WorkerAssumption DEF IngestInit, IngestTypeOK, RowError
<1>2. IngestTypeOK /\ [IngestNext]_ingestVars => IngestTypeOK'
  <2>1. CASE UNCHANGED ingestVars
    BY <2>1 DEF IngestTypeOK, ingestVars, rawTx, world, lock, run
  <2> QED
    BY <2>1, WorkerType, WorldType DEF IngestNext
<1> QED
  BY <1>1, <1>2, PTL DEF IngestSpec

-----------------------------------------------------------------------------
\* The worst of two errors.

\* ERROR_PRIORITY as numbers.
LEMMA Priorities ==
    /\ Priority("malformed") = 7 /\ Priority("no_rate") = 6 /\ Priority("refused") = 5
    /\ Priority(NoError) = 0
<1>1. Priority("malformed") = 7 /\ Priority("no_rate") = 6 /\ Priority("refused") = 5
  BY DEF Priority
<1>2. NoError # "malformed" /\ NoError # "no_rate" /\ NoError # "refused"
  BY WorkerAssumption
<1> QED
  BY <1>1, <1>2 DEF Priority

\* A settled error never takes the place of one that leaves the row waiting, and
\* no error is forgotten.
LEMMA WorseKeeps ==
    ASSUME NEW e \in RowError, NEW f \in RowError
    PROVE  /\ e \in Requeueable \/ f \in Requeueable => Worse(e, f) \in Requeueable
           /\ e # NoError \/ f # NoError => Worse(e, f) # NoError
<1>1. NoError \notin {"malformed", "no_rate", "refused"}
  BY WorkerAssumption
<1> QED
  BY <1>1, Priorities DEF Worse, RowError, Requeueable

\* The first evaluation's errors: settled for a refusal, waiting for what cannot
\* be read.
LEMMA ErrorOfKind ==
    ErrorOf("refused") = "refused" /\ ErrorOf("garbled") = "malformed"
  BY DEF ErrorOf

-----------------------------------------------------------------------------
\* One worker and one wallet.

\* What a worker knows of a wallet's leg concerns only its own run.
LEMMA LegKept ==
    ASSUME NEW k \in Workers, NEW w \in Wallets, LegOK(k, w),
           UNCHANGED <<at[k], row[k], legs[k], leg[k], rowError[k]>>,
           trades \subseteq trades'
    PROVE  LegOK(k, w)'
  BY DEF LegOK, InRow, Undecided

\* A step of the parser keeps what it knows of a wallet that is tracked before the
\* step, and finds out what it did not know.
LEMMA ParseKeepsLeg ==
    ASSUME IngestTypeOK, NEW k \in Workers, CurrentOK(k), Parse(k),
           NEW w \in Wallets, status[w] = "active", LegOK(k, w)
    PROVE  LegOK(k, w)'
<1> USE DEF IngestTypeOK
<1>0. /\ NoError \in RowError /\ "malformed" \in RowError
      /\ "no_rate" \in RowError /\ "refused" \in RowError
      /\ NoError \notin {"malformed", "no_rate", "refused"}
  BY WorkerAssumption DEF RowError
<1>1. CASE ReadRow(k)
  <2>1. PICK t \in toParse[k] :
          /\ at' = [at EXCEPT ![k] = "row"] /\ row' = [row EXCEPT ![k] = t]
          /\ legs' = [legs EXCEPT ![k] =
                        IF t \in Unreadable THEN {}
                        ELSE {v \in Wallets : LegOf[t][v] # "none"}]
    BY <1>1 DEF ReadRow
  <2>2. at'[k] = "row" /\ row'[k] = t
    BY <2>1
  <2>3. t \notin Unreadable /\ LegOf[t][w] # "none" => w \in legs'[k]
    BY <2>1
  <2> QED
    BY <2>2, <2>3 DEF LegOK, InRow, Undecided, Tradeable, Refused
<1>2. CASE EvaluateLeg(k)
  <2>1. PICK v \in legs[k] :
          /\ at[k] = "row"
          /\ legs' = [legs EXCEPT ![k] = @ \ {v}]
          /\ \/ /\ status[v] # "active"
                /\ UNCHANGED <<at, leg, rowError>>
             \/ /\ LegOf[row[k]][v] \in {"refused", "garbled"}
                /\ rowError' = [rowError EXCEPT ![k] = Worse(@, ErrorOf(LegOf[row[k]][v]))]
                /\ UNCHANGED <<at, leg>>
             \/ /\ at' = [at EXCEPT ![k] = IF LegOf[row[k]][v] = "sol" THEN "trade" ELSE "rate"]
                /\ leg' = [leg EXCEPT ![k] = v]
                /\ UNCHANGED rowError
          /\ UNCHANGED <<trades, row>>
    BY <1>2 DEF EvaluateLeg
  <2>2. /\ at[k] = "row" /\ UNCHANGED <<trades, row>>
        /\ legs'[k] = legs[k] \ {v} /\ v \in Wallets
    BY <2>1
  <2>3. ASSUME status[v] # "active", UNCHANGED <<at, leg, rowError>>
        PROVE  LegOK(k, w)'
    BY <2>2, <2>3 DEF LegOK, InRow, Undecided
  <2>4. ASSUME LegOf[row[k]][v] \in {"refused", "garbled"}, UNCHANGED <<at, leg>>,
               rowError' = [rowError EXCEPT ![k] = Worse(@, ErrorOf(LegOf[row[k]][v]))]
        PROVE  LegOK(k, w)'
    <3> DEFINE e == ErrorOf(LegOf[row[k]][v])
    <3>1. e \in RowError /\ e # NoError
      BY <1>0, <2>4, ErrorOfKind
    <3>2. rowError'[k] = Worse(rowError[k], e) /\ rowError[k] \in RowError
      BY <2>4
    <3>3. /\ rowError'[k] # NoError
          /\ rowError[k] \in Requeueable => rowError'[k] \in Requeueable
      BY <3>1, <3>2, WorseKeeps
    <3>4. w = v => ~Tradeable(row[k], w)
      BY <2>4 DEF Tradeable
    <3> QED
      BY <2>2, <2>4, <3>3, <3>4 DEF LegOK, InRow, Undecided
  <2>5. ASSUME at' = [at EXCEPT ![k] = IF LegOf[row[k]][v] = "sol" THEN "trade" ELSE "rate"],
               leg' = [leg EXCEPT ![k] = v], UNCHANGED rowError
        PROVE  LegOK(k, w)'
    <3>1. at'[k] \in {"rate", "trade"} /\ leg'[k] = v
      BY <2>5
    <3> QED
      BY <2>2, <2>5, <3>1 DEF LegOK, InRow, Undecided
  <2> QED
    BY <2>1, <2>3, <2>4, <2>5
<1>3. CASE ReadRate(k)
  <2>1. at[k] = "rate" /\ UNCHANGED <<trades, row, legs, leg>>
    BY <1>3 DEF ReadRate
  <2>2. CASE /\ LegOf[row[k]][leg[k]] = "stable"
             /\ at' = [at EXCEPT ![k] = "trade"] /\ UNCHANGED rowError
    BY <2>1, <2>2 DEF LegOK, InRow, Undecided
  <2>3. ASSUME NEW e \in {"refused", "no_rate"}, at' = [at EXCEPT ![k] = "row"],
               rowError' = [rowError EXCEPT ![k] = Worse(@, e)],
               e = "refused" => LegOf[row[k]][leg[k]] = "tiny"
        PROVE  LegOK(k, w)'
    <3>1. /\ rowError'[k] # NoError
          /\ rowError[k] \in Requeueable \/ e \in Requeueable => rowError'[k] \in Requeueable
      BY <1>0, <2>3, WorseKeeps
    <3>2. leg[k] = w /\ e = "refused" => ~Tradeable(row[k], w)
      BY <2>3 DEF Tradeable
    <3>3. e = "no_rate" => e \in Requeueable
      BY DEF Requeueable
    <3> QED
      BY <2>1, <2>3, <3>1, <3>2, <3>3 DEF LegOK, InRow, Undecided
  <2> QED
    BY <1>3, <2>2, <2>3 DEF ReadRate
<1>4. CASE InsertLeg(k)
  <2>1. /\ at[k] = "trade" /\ at' = [at EXCEPT ![k] = "row"]
        /\ trades' = trades \cup {<<row[k], leg[k]>>}
        /\ UNCHANGED <<row, legs, leg, rowError>>
    BY <1>4 DEF InsertLeg
  <2>2. leg[k] = w => ~Refused(row[k], w)
    BY <2>1 DEF CurrentOK, Refused
  <2> QED
    BY <2>1, <2>2 DEF LegOK, InRow, Undecided
<1>5. CASE WriteRow(k) \/ EndParse(k)
  BY <1>5 DEF WriteRow, EndParse, LegOK, InRow
<1> QED
  BY <1>1, <1>2, <1>3, <1>4, <1>5 DEF Parse

\* A leg reaches the rate or the insert only if it is of a kind that may.
LEMMA ParseKeepsCurrent ==
    ASSUME IngestTypeOK, NEW k \in Workers, CurrentOK(k), Parse(k)
    PROVE  CurrentOK(k)'
<1> USE DEF IngestTypeOK
<1>1. CASE ReadRow(k) \/ InsertLeg(k) \/ WriteRow(k) \/ EndParse(k)
  BY <1>1 DEF ReadRow, InsertLeg, WriteRow, EndParse, CurrentOK
<1>2. CASE EvaluateLeg(k)
  <2>1. PICK v \in Wallets :
          LET kind == LegOf[row[k]][v]
          IN \/ at[k] = "row" /\ UNCHANGED at
             \/ /\ kind \in {"sol", "stable", "tiny"}
                /\ at' = [at EXCEPT ![k] = IF kind = "sol" THEN "trade" ELSE "rate"]
                /\ leg' = [leg EXCEPT ![k] = v]
    BY <1>2 DEF EvaluateLeg
  <2>2. UNCHANGED row
    BY <1>2 DEF EvaluateLeg
  <2> QED
    BY <2>1, <2>2 DEF CurrentOK
<1>3. CASE ReadRate(k)
  BY <1>3 DEF ReadRate, CurrentOK
<1> QED
  BY <1>1, <1>2, <1>3 DEF Parse

-----------------------------------------------------------------------------
\* All workers and the wallets that were tracked all along.

\* Nobody joins the wallets that were tracked all along.
LEMMA SteadyShrinks ==
    ASSUME IngestTypeOK, RosterOK, [IngestNext]_ingestVars
    PROVE  RosterOK' /\ Steady' \subseteq Steady
<1> USE DEF IngestTypeOK, RosterOK, Steady
<1>0. Roster \subseteq Wallets
  BY TxAssumption
<1>1. CASE UNCHANGED status
  BY <1>1
<1>2. ASSUME NEW w \in Wallets, AddWallet(w) \/ WithdrawWallet(w)
      PROVE  RosterOK' /\ Steady' \subseteq Steady
  BY <1>0, <1>2 DEF AddWallet, WithdrawWallet
<1>3. \/ UNCHANGED status
      \/ \E w \in Wallets : AddWallet(w) \/ WithdrawWallet(w)
  BY DEF IngestNext, ingestVars, world, Deliver, RateArrives, RequeueNoRate, RequeueUntracked, StartParse,
         Parse, ReadRow, EvaluateLeg, ReadRate, InsertLeg, WriteRow, EndParse, Fail, DropParseLock
<1> QED
  BY <1>1, <1>2, <1>3

\* The tables keep their promises when no row is marked, no error of a marked
\* row changes and no trade goes away.
LEMMA TablesKept ==
    ASSUME IInv, Steady' \subseteq Steady, trades \subseteq trades',
           \A t \in Txs : parsed'[t] => parsed[t] /\ rowErrorOf'[t] = rowErrorOf[t]
    PROVE  NoLegDropped' /\ NothingIsHidden'
  BY DEF IInv, NoLegDropped, NothingIsHidden

\* The UPDATE at the end of a row marks it only if every leg was settled.
LEMMA WriteRowKeepsTables ==
    ASSUME IInv, Steady' \subseteq Steady, NEW k \in Workers, WriteRow(k)
    PROVE  NoLegDropped' /\ NothingIsHidden'
<1> DEFINE r == row[k]
<1>1. /\ at[k] = "row" /\ legs[k] = {} /\ UNCHANGED trades
      /\ r \in Txs
      /\ parsed'[r] = (parsed[r] \/ Settled(rowError[k])) /\ rowErrorOf'[r] = rowError[k]
      /\ \A t \in Txs : t # r => parsed'[t] = parsed[t] /\ rowErrorOf'[t] = rowErrorOf[t]
  BY DEF WriteRow, IInv, IngestTypeOK
<1>2. \A w \in Steady :
         /\ Tradeable(r, w) => <<r, w>> \in trades \/ rowError[k] \in Requeueable
         /\ Refused(r, w) => rowError[k] # NoError
  BY <1>1 DEF IInv, LegOK, InRow, Undecided
<1>3. NoLegDropped'
  BY <1>1, <1>2 DEF IInv, NoLegDropped, Settled
<1>4. NothingIsHidden'
  BY <1>1, <1>2 DEF IInv, NothingIsHidden, Refused
<1> QED
  BY <1>3, <1>4

\* A step that leaves every worker where it is, and no trade goes away.
LEMMA WorkersKept ==
    ASSUME UNCHANGED run, trades \subseteq trades', NEW k \in Workers
    PROVE  /\ CurrentOK(k) => CurrentOK(k)'
           /\ \A w \in Wallets : LegOK(k, w) => LegOK(k, w)'
  BY LegKept DEF run, CurrentOK

\* A step of one worker is none of the others'.
LEMMA OthersKept ==
    ASSUME IngestTypeOK, NEW k \in Workers, StartParse(k) \/ Parse(k) \/ Fail(k) \/ DropParseLock(k),
           NEW j \in Workers \ {k}
    PROVE  /\ UNCHANGED <<at[j], toParse[j], row[j], legs[j], leg[j], rowError[j]>>
           /\ trades \subseteq trades'
           /\ CurrentOK(j) => CurrentOK(j)'
           /\ \A w \in Wallets : LegOK(j, w) => LegOK(j, w)'
<1>1. UNCHANGED <<at[j], toParse[j], row[j], legs[j], leg[j], rowError[j]>>
  BY DEF IngestTypeOK, Parse, StartParse, ReadRow, EvaluateLeg, ReadRate, InsertLeg, WriteRow,
         EndParse, Fail, DropParseLock, run
<1>2. trades \subseteq trades'
  BY DEF Parse, StartParse, ReadRow, EvaluateLeg, ReadRate, InsertLeg, WriteRow,
         EndParse, Fail, DropParseLock
<1> QED
  BY <1>1, <1>2, LegKept DEF CurrentOK

\* What a worker knows of a wallet that is tracked survives every step of it.
LEMMA WorkerKeepsLeg ==
    ASSUME IngestTypeOK, NEW k \in Workers, StartParse(k) \/ Parse(k) \/ Fail(k) \/ DropParseLock(k),
           CurrentOK(k)
    PROVE  /\ CurrentOK(k)'
           /\ \A w \in Wallets : status[w] = "active" /\ LegOK(k, w) => LegOK(k, w)'
<1>1. CASE StartParse(k)
  BY <1>1 DEF IngestTypeOK, StartParse, CurrentOK, LegOK, InRow
<1>2. CASE Parse(k)
  BY <1>2, ParseKeepsLeg, ParseKeepsCurrent
<1>3. CASE Fail(k)
  BY <1>3 DEF IngestTypeOK, Fail, CurrentOK, LegOK, InRow
<1>4. CASE DropParseLock(k)
  BY <1>4, WorkersKept DEF DropParseLock
<1> QED
  BY <1>1, <1>2, <1>3, <1>4

\* The deliveries, the rates, the roster and the requeues leave the workers alone,
\* mark no row and change no error of a marked one.
LEMMA WorldKeeps ==
    ASSUME \/ \E batch \in SUBSET Txs : Deliver(batch)
           \/ \E t \in Txs : RateArrives(t)
           \/ \E w \in Wallets : AddWallet(w) \/ WithdrawWallet(w)
           \/ RequeueNoRate
           \/ RequeueUntracked
           \/ UNCHANGED ingestVars
    PROVE  /\ UNCHANGED <<run, trades, lock, late>>
           /\ \A t \in Txs : parsed'[t] => parsed[t] /\ rowErrorOf'[t] = rowErrorOf[t]
<1>1. UNCHANGED <<run, trades, lock, late>>
  <2>1. CASE RequeueNoRate
    BY <2>1 DEF RequeueNoRate
  <2>2. CASE RequeueUntracked
    BY <2>2 DEF RequeueUntracked
  <2> QED
    BY <2>1, <2>2 DEF Deliver, RateArrives, AddWallet, WithdrawWallet, ingestVars, rawTx
<1>2. CASE UNCHANGED <<parsed, rowErrorOf>>
  BY <1>1, <1>2
<1>3. CASE RequeueNoRate
  <2>1. PICK F \in SUBSET {t \in Txs : rowErrorOf[t] = "no_rate" /\ ~parsed[t] /\ t \in rated} :
          /\ rowErrorOf' = [t \in Txs |-> IF t \in F THEN NoError ELSE rowErrorOf[t]]
          /\ UNCHANGED parsed
    BY <1>3 DEF RequeueNoRate, OldestFirst
  <2> QED
    BY <1>1, <2>1
<1>4. CASE RequeueUntracked
  <2>1. PICK F : parsed' = [t \in Txs |-> parsed[t] /\ t \notin F] /\ UNCHANGED rowErrorOf
    BY <1>4 DEF RequeueUntracked
  <2> QED
    BY <1>1, <2>1
<1>5. \/ UNCHANGED <<parsed, rowErrorOf>> \/ RequeueNoRate \/ RequeueUntracked
  BY DEF Deliver, RateArrives, AddWallet, WithdrawWallet, ingestVars, rawTx
<1> QED
  BY <1>1, <1>2, <1>3, <1>4, <1>5

\* Every step preserves the invariant.
LEMMA StepOK == IInv /\ [IngestNext]_ingestVars => IInv'
<1> SUFFICES ASSUME IInv, [IngestNext]_ingestVars PROVE IInv'
  OBVIOUS
<1>1. IngestTypeOK /\ RosterOK
  BY DEF IInv
<1>2. IngestTypeOK'
  <2>1. CASE UNCHANGED ingestVars
    BY <1>1, <2>1 DEF IngestTypeOK, ingestVars, rawTx, world, lock, run
  <2> QED
    BY <1>1, <2>1, WorkerType, WorldType DEF IngestNext
<1>3. RosterOK' /\ Steady' \subseteq Steady /\ Steady \subseteq Wallets
  BY <1>1, SteadyShrinks, TxAssumption DEF Steady
<1>4. \A w \in Steady : status[w] = "active"
  BY DEF Steady
<1>5. ASSUME NEW k \in Workers, StartParse(k) \/ Parse(k) \/ Fail(k) \/ DropParseLock(k)
      PROVE  IInv'
  <2>1. ASSUME NEW j \in Workers PROVE CurrentOK(j)' /\ \A w \in Steady' : LegOK(j, w)'
    <3>1. CurrentOK(j) /\ \A w \in Steady : LegOK(j, w)
      BY DEF IInv
    <3>2. CASE j = k
      BY <1>1, <1>3, <1>4, <1>5, <3>1, <3>2, WorkerKeepsLeg
    <3>3. CASE j # k
      BY <1>1, <1>3, <1>5, <3>1, <3>3, OthersKept
    <3> QED
      BY <3>2, <3>3
  <2>2. NoLegDropped' /\ NothingIsHidden'
    <3>1. CASE WriteRow(k)
      BY <1>3, <3>1, WriteRowKeepsTables
    <3>2. CASE ~WriteRow(k)
      <4>1. trades \subseteq trades' /\ UNCHANGED rawTx
        BY <1>5, <3>2 DEF Parse, StartParse, ReadRow, EvaluateLeg, ReadRate, InsertLeg,
                          EndParse, Fail, DropParseLock
      <4> QED
        BY <1>3, <4>1, TablesKept DEF rawTx
    <3> QED
      BY <3>1, <3>2
  <2> QED
    BY <1>2, <1>3, <2>1, <2>2 DEF IInv
<1>6. ASSUME ~(\E k \in Workers : StartParse(k) \/ Parse(k) \/ Fail(k) \/ DropParseLock(k))
      PROVE  IInv'
  <2>1. /\ UNCHANGED <<run, trades, lock, late>>
        /\ \A t \in Txs : parsed'[t] => parsed[t] /\ rowErrorOf'[t] = rowErrorOf[t]
    BY <1>6, WorldKeeps DEF IngestNext
  <2>2. ASSUME NEW j \in Workers PROVE CurrentOK(j)' /\ \A w \in Steady' : LegOK(j, w)'
    BY <1>3, <2>1, WorkersKept DEF IInv
  <2>3. NoLegDropped' /\ NothingIsHidden'
    BY <1>3, <2>1, TablesKept
  <2> QED
    BY <1>2, <1>3, <2>2, <2>3 DEF IInv
<1> QED
  BY <1>5, <1>6

\* The strengthening is an invariant.
LEMMA Inductive == IngestSpec => []IInv
<1>1. IngestInit => IngestTypeOK
  BY AnyType, TxAssumption, WorkerAssumption DEF IngestInit, IngestTypeOK, RowError
<1>2. IngestInit => RosterOK /\ NoLegDropped /\ NothingIsHidden
  BY TxAssumption DEF IngestInit, RosterOK, NoLegDropped, NothingIsHidden
<1>3. IngestInit => \A k \in Workers : CurrentOK(k) /\ \A w \in Steady : LegOK(k, w)
  BY DEF IngestInit, CurrentOK, LegOK, InRow
<1>4. IngestInit => IInv
  BY <1>1, <1>2, <1>3 DEF IInv
<1> QED
  BY <1>4, StepOK, PTL DEF IngestSpec

\* A row the parser is finished with has the trade of every wallet in it that was
\* tracked all along, whatever its other legs failed of, and even with several
\* parsers at work (parse-swap.ts:1722-1727).
THEOREM NoLegIsDropped == IngestSpec => []NoLegDropped
<1>1. IInv => NoLegDropped
  BY DEF IInv
<1> QED
  BY <1>1, Inductive, PTL

\* A refused swap of a wallet that was tracked all along leaves its error on the
\* row, whatever trades the row has (parse-swap.ts:1815-1819).
THEOREM RefusalsAreKept == IngestSpec => []NothingIsHidden
<1>1. IInv => NothingIsHidden
  BY DEF IInv
<1> QED
  BY <1>1, Inductive, PTL

-----------------------------------------------------------------------------
(***************************************************************************)
(* Of the runs that have not lost the lock there is one at a time, the     *)
(* rows it has in hand are marked only by runs that have lost it, and no   *)
(* requeue comes in between.                                               *)
(***************************************************************************)
Alone(k) == at[k] # "idle" /\ k \notin lost => parseLock = k

\* The rows a worker has in hand or will take are unmarked, unless a run without
\* the lock has written them, and it takes each once.
HandOK(k) ==
    /\ at[k] = "idle" => toParse[k] = {}
    /\ InRow(k) => row[k] \notin toParse[k]
    /\ k \notin lost =>
          /\ \A t \in toParse[k] : parsed[t] => t \in late
          /\ InRow(k) /\ parsed[row[k]] => row[k] \in late

AskedOK == \A w \in asked : status[w] # "absent"

\* What a worker knows of the wallets there were at the last requeue that left
\* nothing to move.
AskedLegsOK(k) == k \notin lost => \A w \in asked : status[w] = "active" => LegOK(k, w)

LInv ==
    /\ AskedOK
    /\ \A k \in Workers : Alone(k) /\ HandOK(k) /\ AskedLegsOK(k)
    /\ ParsedIsFinished
    /\ RequeuedIsAttributed

\* While the lock is free, nobody runs but those who lost it.
LEMMA FreeMeansIdle ==
    ASSUME LInv, parseLock = NoParser
    PROVE  \A k \in Workers \ lost : at[k] = "idle" /\ toParse[k] = {} /\ ~InRow(k)
  BY WorkerAssumption DEF LInv, Alone, HandOK, InRow

\* An asked wallet that is tracked after a step was asked and tracked before it,
\* unless the step is a requeue.
LEMMA AskedKept ==
    ASSUME IngestTypeOK, AskedOK, [IngestNext]_ingestVars, ~RequeueUntracked
    PROVE  /\ AskedOK' /\ UNCHANGED asked
           /\ \A w \in asked : status'[w] = "active" => status[w] = "active"
<1>1. CASE UNCHANGED <<status, asked>>
  BY <1>1 DEF AskedOK
<1>2. ASSUME NEW w \in Wallets, AddWallet(w) \/ WithdrawWallet(w)
      PROVE  /\ AskedOK' /\ UNCHANGED asked
             /\ \A v \in asked : status'[v] = "active" => status[v] = "active"
  BY <1>2 DEF AddWallet, WithdrawWallet, IngestTypeOK, AskedOK
<1>3. \/ UNCHANGED <<status, asked>>
      \/ \E w \in Wallets : AddWallet(w) \/ WithdrawWallet(w)
  BY DEF IngestNext, ingestVars, world, Deliver, RateArrives, RequeueNoRate, StartParse,
         Parse, ReadRow, EvaluateLeg, ReadRate, InsertLeg, WriteRow, EndParse, Fail, DropParseLock
<1> QED
  BY <1>1, <1>2, <1>3

\* No row joins the untracked ones when no row is marked, no error of a marked row
\* changes and no trade goes away.
LEMMA AttributedKept ==
    ASSUME LInv, UNCHANGED <<asked, late>>, trades \subseteq trades',
           \A w \in asked : status'[w] = "active" => status[w] = "active",
           \A t \in Txs : parsed'[t] => parsed[t] /\ rowErrorOf'[t] = rowErrorOf[t]
    PROVE  RequeuedIsAttributed' /\ ParsedIsFinished'
<1>1. Untracked' \subseteq Untracked
  BY DEF Untracked
<1>2. RequeuedIsAttributed'
  BY <1>1 DEF LInv, RequeuedIsAttributed
<1>3. ParsedIsFinished'
  BY DEF LInv, ParsedIsFinished
<1> QED
  BY <1>2, <1>3

\* A run that starts takes rows nobody has marked.
LEMMA StartKeepsHand ==
    ASSUME IngestTypeOK, LInv, NEW k \in Workers, StartParse(k)
    PROVE  \A j \in Workers : Alone(j)' /\ HandOK(j)'
<1>1. PICK F \in SUBSET {t \in Txs : Pending(t)} : toParse' = [toParse EXCEPT ![k] = F]
  BY DEF StartParse, OldestFirst
<1>2. /\ parseLock = NoParser /\ parseLock' = k /\ at' = [at EXCEPT ![k] = "next"]
      /\ UNCHANGED <<parsed, row, lost, late>>
  BY DEF StartParse, rawTx
<1>3. \A j \in Workers \ lost : at[j] = "idle" /\ toParse[j] = {} /\ ~InRow(j)
  BY <1>2, FreeMeansIdle
<1>4. Alone(k)' /\ HandOK(k)'
  BY <1>1, <1>2 DEF IngestTypeOK, Alone, HandOK, InRow, Pending
<1>5. ASSUME NEW j \in Workers, j # k PROVE Alone(j)' /\ HandOK(j)'
  <2>1. HandOK(j)
    BY DEF LInv
  <2> QED
    BY <1>1, <1>2, <1>3, <1>5, <2>1 DEF IngestTypeOK, Alone, HandOK, InRow
<1> QED
  BY <1>4, <1>5

\* A row gets its mark from a run that lost the lock, or from the row's own run.
LEMMA MarkedBy ==
    ASSUME IngestTypeOK, NEW k \in Workers, Parse(k) \/ Fail(k) \/ DropParseLock(k)
    PROVE  /\ late \subseteq late'
           /\ \A t \in Txs : parsed'[t] =>
                \/ parsed[t] \/ t \in late'
                \/ InRow(k) /\ t = row[k] /\ k \notin lost /\ at'[k] = "next"
                   /\ UNCHANGED <<toParse, lost>>
<1>1. CASE WriteRow(k)
  <2>1. /\ parsed' = [parsed EXCEPT ![row[k]] = @ \/ Settled(rowError[k])]
        /\ late' = IF k \in lost THEN late \cup {row[k]} ELSE late
        /\ at[k] = "row" /\ at'[k] = "next" /\ UNCHANGED <<toParse, lost>>
    BY <1>1 DEF WriteRow, IngestTypeOK, lock
  <2>2. \A t \in Txs : t # row[k] => parsed'[t] = parsed[t]
    BY <2>1 DEF IngestTypeOK
  <2> QED
    BY <2>1, <2>2 DEF InRow
<1>2. CASE ~WriteRow(k)
  BY <1>2 DEF Parse, ReadRow, EvaluateLeg, ReadRate, InsertLeg, EndParse, Fail, DropParseLock, rawTx
<1> QED
  BY <1>1, <1>2

\* The lock is with the worker that takes a step, or that worker has lost it and
\* the others keep what they have.
LEMMA ParseKeepsLock ==
    ASSUME IngestTypeOK, LInv, NEW k \in Workers, Parse(k) \/ Fail(k) \/ DropParseLock(k)
    PROVE  /\ \A j \in Workers : Alone(j)'
           /\ \A j \in Workers \ {k} : j \notin lost' => j \notin lost
           /\ k \notin lost /\ ~DropParseLock(k) => \A j \in Workers \ {k} : j \in lost \/ at[j] = "idle"
           /\ k \in lost /\ k \notin lost' => at'[k] = "idle"
<1>1. CASE DropParseLock(k)
  <2>1. parseLock = k /\ lost' = lost \cup {k} /\ UNCHANGED at
    BY <1>1 DEF DropParseLock, run
  <2> QED
    BY <1>1, <2>1 DEF LInv, Alone
<1>2. CASE EndParse(k) \/ Fail(k)
  <2>1. /\ parseLock' = IF parseLock = k THEN NoParser ELSE parseLock
        /\ lost' = lost \ {k} /\ at' = [at EXCEPT ![k] = "idle"] /\ at[k] # "idle"
    BY <1>2 DEF EndParse, Fail, Unlock
  <2>2. at'[k] = "idle" /\ \A j \in Workers \ {k} : at'[j] = at[j]
    BY <2>1 DEF IngestTypeOK
  <2> QED
    BY <2>1, <2>2 DEF LInv, Alone
<1>3. CASE Parse(k) /\ ~EndParse(k)
  <2>1. /\ UNCHANGED <<parseLock, lost>> /\ at[k] # "idle"
    BY <1>3 DEF Parse, ReadRow, EvaluateLeg, ReadRate, InsertLeg, WriteRow, lock
  <2>2. ~DropParseLock(k)
    BY <2>1, WorkerAssumption DEF DropParseLock
  <2>3. \A j \in Workers \ {k} : at'[j] = at[j]
    BY OthersKept
  <2> QED
    BY <2>1, <2>2, <2>3 DEF LInv, Alone
<1> QED
  BY <1>1, <1>2, <1>3

\* What the worker that runs has in hand stays unmarked until it marks it.
LEMMA ParseKeepsHand ==
    ASSUME IngestTypeOK, LInv, NEW k \in Workers, Parse(k) \/ Fail(k) \/ DropParseLock(k)
    PROVE  \A j \in Workers : HandOK(j)'
<1> USE DEF IngestTypeOK
<1>1. /\ late \subseteq late'
      /\ \A t \in Txs : parsed'[t] =>
            \/ parsed[t] \/ t \in late'
            \/ InRow(k) /\ t = row[k] /\ k \notin lost /\ at'[k] = "next"
               /\ UNCHANGED <<toParse, lost>>
  BY MarkedBy
<1>2. ASSUME NEW j \in Workers, j # k PROVE HandOK(j)'
  <2>1. UNCHANGED <<at[j], toParse[j], row[j]>> /\ HandOK(j)
    BY <1>2, OthersKept DEF LInv
  <2>2. /\ j \notin lost' => j \notin lost
        /\ k \notin lost /\ InRow(k) /\ at'[k] = "next" => j \in lost \/ at[j] = "idle"
    <3>1. InRow(k) /\ at'[k] = "next" => ~DropParseLock(k)
      BY DEF DropParseLock, run, InRow
    <3> QED
      BY <1>2, <3>1, ParseKeepsLock
  <2>3. toParse[j] \subseteq Txs /\ row[j] \in Txs
    OBVIOUS
  <2> HIDE DEF IngestTypeOK
  <2>4. ASSUME j \notin lost', NEW t \in Txs, t \in toParse[j] \/ (InRow(j) /\ t = row[j]), parsed'[t]
        PROVE  t \in late'
    <3>1. parsed[t] => t \in late
      BY <2>1, <2>2, <2>4 DEF HandOK
    <3>2. at[j] # "idle" /\ j \notin lost
      BY <2>1, <2>2, <2>4 DEF HandOK, InRow
    <3> QED
      BY <1>1, <2>2, <2>4, <3>1, <3>2
  <2> QED
    BY <2>1, <2>3, <2>4 DEF HandOK, InRow
<1>3. HandOK(k) /\ row[k] \in Txs /\ toParse[k] \subseteq Txs
  BY DEF LInv
<1>4. CASE ReadRow(k)
  <2>1. PICK t \in toParse[k] :
          /\ toParse' = [toParse EXCEPT ![k] = @ \ {t}]
          /\ at' = [at EXCEPT ![k] = "row"] /\ row' = [row EXCEPT ![k] = t]
          /\ UNCHANGED <<parsed, late, lost>>
    BY <1>4 DEF ReadRow, rawTx, lock
  <2>2. HandOK(k)'
    BY <1>3, <2>1 DEF HandOK, InRow
  <2> QED
    BY <1>2, <2>2
<1>5. CASE EvaluateLeg(k) \/ ReadRate(k) \/ InsertLeg(k)
  <2>1. InRow(k) /\ UNCHANGED <<parsed, late, toParse, row, lost>>
    BY <1>5 DEF EvaluateLeg, ReadRate, InsertLeg, rawTx, lock, InRow
  <2>2. InRow(k)'
    BY <1>5 DEF EvaluateLeg, ReadRate, InsertLeg, InRow
  <2>3. HandOK(k)'
    BY <1>3, <2>1, <2>2 DEF HandOK, InRow
  <2> QED
    BY <1>2, <2>3
<1>6. CASE WriteRow(k)
  <2>1. /\ InRow(k) /\ at'[k] = "next" /\ UNCHANGED <<toParse, lost>>
        /\ \A t \in Txs : t # row[k] => parsed'[t] = parsed[t]
    BY <1>6 DEF WriteRow, InRow, lock
  <2>2. HandOK(k)'
    BY <1>1, <1>3, <2>1 DEF HandOK, InRow
  <2> QED
    BY <1>2, <2>2
<1>7. CASE EndParse(k) \/ Fail(k)
  <2>1. at'[k] = "idle" /\ toParse'[k] = {}
    BY <1>7 DEF EndParse, Fail
  <2>2. HandOK(k)'
    BY <2>1 DEF HandOK, InRow
  <2> QED
    BY <1>2, <2>2
<1>8. CASE DropParseLock(k)
  <2>1. k \in lost' /\ UNCHANGED <<at, toParse, row>>
    BY <1>8 DEF DropParseLock, run
  <2>2. HandOK(k)'
    BY <1>3, <2>1 DEF HandOK, InRow
  <2> QED
    BY <1>2, <2>2
<1> QED
  BY <1>4, <1>5, <1>6, <1>7, <1>8 DEF Parse

\* What the wallets asked about are known to be holds for every worker that has
\* not lost the lock.
LEMMA WorkersKeepAsked ==
    ASSUME IngestTypeOK, LInv, NEW k \in Workers, CurrentOK(k),
           StartParse(k) \/ Parse(k) \/ Fail(k) \/ DropParseLock(k),
           UNCHANGED asked,
           \A w \in asked : status'[w] = "active" => status[w] = "active",
           NEW j \in Workers
    PROVE  AskedLegsOK(j)'
<1>1. AskedLegsOK(j) /\ asked \subseteq Wallets
  BY DEF LInv, IngestTypeOK
<1>2. CASE j # k
  <2>1. j \notin lost' => j \notin lost
    BY <1>2, ParseKeepsLock DEF StartParse
  <2> QED
    BY <1>1, <1>2, <2>1, OthersKept DEF AskedLegsOK
<1>3. CASE j = k /\ k \in lost /\ k \notin lost'
  <2>1. at'[k] = "idle"
    BY <1>3, ParseKeepsLock DEF StartParse
  <2> QED
    BY <1>3, <2>1 DEF AskedLegsOK, LegOK, InRow
<1>4. CASE j = k /\ ~(k \in lost /\ k \notin lost')
  BY <1>1, <1>4, WorkerKeepsLeg DEF AskedLegsOK
<1> QED
  BY <1>2, <1>3, <1>4

\* The UPDATE at the end of a row that was not marked: the mark and the error go
\* together, and a row without an error and without a trade has no swap of a wallet
\* that was asked about.  A row that was marked is one that a run without the lock
\* has written.
LEMMA WriteRowKeepsPromises ==
    ASSUME IngestTypeOK, LInv, NEW k \in Workers, WriteRow(k)
    PROVE  ParsedIsFinished' /\ RequeuedIsAttributed'
<1> DEFINE r == row[k]
<1>1. /\ at[k] = "row" /\ legs[k] = {} /\ UNCHANGED <<trades, status, asked>>
      /\ r \in Txs
      /\ parsed'[r] = (parsed[r] \/ Settled(rowError[k])) /\ rowErrorOf'[r] = rowError[k]
      /\ \A t \in Txs : t # r => parsed'[t] = parsed[t] /\ rowErrorOf'[t] = rowErrorOf[t]
      /\ late' = IF k \in lost THEN late \cup {r} ELSE late
  BY DEF WriteRow, IngestTypeOK, world
<1>2. late \subseteq late' /\ (r \notin late' => k \notin lost /\ ~parsed[r])
  BY <1>1 DEF LInv, HandOK, InRow
<1> HIDE DEF r
<1>3. ParsedIsFinished'
  BY <1>1, <1>2 DEF LInv, ParsedIsFinished, Settled
<1>4. k \notin lost =>
         \A w \in asked : status[w] = "active" /\ Tradeable(r, w) =>
            <<r, w>> \in trades \/ rowError[k] \in Requeueable
  BY <1>1 DEF r, LInv, AskedLegsOK, LegOK, InRow, Undecided
<1>5. RequeuedIsAttributed'
  <2>1. ASSUME NEW t \in Untracked' \ late', NEW w \in asked, status[w] = "active",
               Tradeable(t, w)
        PROVE  FALSE
    <3>1. t \in Txs /\ parsed'[t] /\ rowErrorOf'[t] = NoError /\ w \in Wallets
      BY DEF Untracked, IngestTypeOK
    <3>2. <<t, w>> \notin trades
      BY <1>1, <3>1 DEF Untracked
    <3>3. CASE t = r
      <4>1. rowError[k] = NoError /\ NoError \notin Requeueable
        BY <1>1, <3>1, <3>3, WorkerAssumption DEF Requeueable
      <4> QED
        BY <1>2, <1>4, <2>1, <3>2, <3>3, <4>1
    <3>4. CASE t # r
      <4>1. t \in Untracked \ late
        BY <1>1, <1>2, <3>1, <3>4 DEF Untracked
      <4> QED
        BY <2>1, <4>1 DEF LInv, RequeuedIsAttributed
    <3> QED
      BY <3>3, <3>4
  <2> QED
    BY <1>1, <2>1 DEF RequeuedIsAttributed, Tradeable
<1> QED
  BY <1>3, <1>5

\* The requeue comes when nobody runs but those who lost the lock, and remembers
\* the wallets only when it has left no row behind.
LEMMA RequeueKeepsPromises ==
    ASSUME IngestTypeOK, LInv, RequeueUntracked
    PROVE  LInv'
<1>1. PICK F : /\ parsed' = [t \in Txs |-> parsed[t] /\ t \notin F]
               /\ asked' = IF F = Untracked
                           THEN asked \cup {w \in Wallets : status[w] = "active"}
                           ELSE asked
  BY DEF RequeueUntracked
<1>2. parseLock = NoParser /\ UNCHANGED <<rowErrorOf, late, trades, status, parseLock, lost, run>>
  BY DEF RequeueUntracked, ParseLockIsFree, lock
<1>3. \A k \in Workers \ lost : at[k] = "idle" /\ toParse[k] = {} /\ ~InRow(k)
  BY <1>2, FreeMeansIdle
<1>4. AskedOK'
  BY <1>1, <1>2 DEF LInv, AskedOK
<1>5. ASSUME NEW k \in Workers PROVE Alone(k)' /\ HandOK(k)' /\ AskedLegsOK(k)'
  <2>1. HandOK(k) /\ UNCHANGED <<at, toParse, row, lost, late>>
    BY <1>2 DEF LInv, run
  <2> QED
    BY <1>3, <2>1 DEF Alone, HandOK, AskedLegsOK, LegOK, InRow
<1>6. ParsedIsFinished'
  BY <1>1, <1>2 DEF LInv, ParsedIsFinished
<1>7. RequeuedIsAttributed'
  <2>1. Untracked' \subseteq Untracked \ F
    BY <1>1, <1>2 DEF Untracked
  <2>2. CASE F = Untracked
    BY <2>1, <2>2 DEF RequeuedIsAttributed
  <2>3. CASE F # Untracked
    BY <1>1, <1>2, <2>1, <2>3 DEF LInv, RequeuedIsAttributed
  <2> QED
    BY <2>2, <2>3
<1> QED
  BY <1>4, <1>5, <1>6, <1>7 DEF LInv

\* Every step preserves the promises.
LEMMA StepKeepsPromises ==
    ASSUME IInv, LInv, [IngestNext]_ingestVars
    PROVE  LInv'
<1>1. IngestTypeOK /\ AskedOK /\ asked \subseteq Wallets
  BY DEF IInv, LInv, IngestTypeOK
<1>2. CASE RequeueUntracked
  BY <1>1, <1>2, RequeueKeepsPromises
<1>3. ASSUME NEW k \in Workers, StartParse(k) \/ Parse(k) \/ Fail(k) \/ DropParseLock(k),
             ~RequeueUntracked
      PROVE  LInv'
  <2>1. AskedOK' /\ UNCHANGED asked /\ \A w \in asked : status'[w] = "active" => status[w] = "active"
    BY <1>1, <1>3, AskedKept
  <2>2. \A j \in Workers : Alone(j)' /\ HandOK(j)'
    BY <1>1, <1>3, StartKeepsHand, ParseKeepsLock, ParseKeepsHand
  <2>3. \A j \in Workers : AskedLegsOK(j)'
    <3>1. CurrentOK(k)
      BY DEF IInv
    <3> QED
      BY <1>1, <1>3, <2>1, <3>1, WorkersKeepAsked
  <2>4. ParsedIsFinished' /\ RequeuedIsAttributed'
    <3>1. CASE WriteRow(k)
      BY <1>1, <3>1, WriteRowKeepsPromises
    <3>2. CASE ~WriteRow(k)
      <4>1. trades \subseteq trades' /\ UNCHANGED rawTx
        BY <1>3, <3>2 DEF Parse, StartParse, ReadRow, EvaluateLeg, ReadRate, InsertLeg,
                          EndParse, Fail, DropParseLock
      <4> QED
        BY <2>1, <4>1, AttributedKept DEF rawTx
    <3> QED
      BY <3>1, <3>2
  <2> QED
    BY <2>1, <2>2, <2>3, <2>4 DEF LInv
<1>4. ASSUME ~(\E k \in Workers : StartParse(k) \/ Parse(k) \/ Fail(k) \/ DropParseLock(k)),
             ~RequeueUntracked
      PROVE  LInv'
  <2>1. /\ UNCHANGED <<run, trades, lock, late>>
        /\ \A t \in Txs : parsed'[t] => parsed[t] /\ rowErrorOf'[t] = rowErrorOf[t]
    BY <1>4, WorldKeeps DEF IngestNext
  <2>2. AskedOK' /\ UNCHANGED asked /\ \A w \in asked : status'[w] = "active" => status[w] = "active"
    BY <1>1, <1>4, AskedKept
  <2>3. ParsedIsFinished' /\ RequeuedIsAttributed'
    BY <2>1, <2>2, AttributedKept
  <2>4. ASSUME NEW j \in Workers PROVE Alone(j)' /\ HandOK(j)' /\ AskedLegsOK(j)'
    <3>1. Alone(j) /\ HandOK(j) /\ AskedLegsOK(j) /\ toParse[j] \subseteq Txs /\ row[j] \in Txs
      BY <1>1 DEF LInv, IngestTypeOK
    <3>2. Alone(j)' /\ HandOK(j)'
      BY <2>1, <3>1 DEF run, lock, Alone, HandOK, InRow
    <3>3. AskedLegsOK(j)'
      BY <1>1, <2>1, <2>2, <3>1, WorkersKept DEF AskedLegsOK, lock
    <3> QED
      BY <3>2, <3>3
  <2> QED
    BY <2>2, <2>3, <2>4 DEF LInv
<1> QED
  BY <1>2, <1>3, <1>4

\* Empty tables promise nothing yet.
LEMMA PromisesInit == IngestInit => LInv
  BY DEF IngestInit, LInv, AskedOK, Alone, HandOK, AskedLegsOK, LegOK, InRow,
         ParsedIsFinished, RequeuedIsAttributed

\* No row that is marked parsed is left with an error that waits for something,
\* except by a run that goes on without its lock (parse-swap.ts:1747-1752).
THEOREM ParsedRowsAreFinished == IngestSpec => []ParsedIsFinished
<1>1. IInv /\ LInv /\ [IngestNext]_ingestVars => LInv'
  BY StepKeepsPromises
<1>2. LInv => ParsedIsFinished
  BY DEF LInv
<1> QED
  BY <1>1, <1>2, PromisesInit, Inductive, PTL DEF IngestSpec

\* A requeue that left no row to move has seen to it that no untracked row has a
\* swap of a wallet there was, except those a run settles that goes on without its
\* lock (scripts/requeue-untracked.ts:10-13).
THEOREM RequeueAttributes == IngestSpec => []RequeuedIsAttributed
<1>1. IInv /\ LInv /\ [IngestNext]_ingestVars => LInv'
  BY StepKeepsPromises
<1>2. LInv => RequeuedIsAttributed
  BY DEF LInv
<1> QED
  BY <1>1, <1>2, PromisesInit, Inductive, PTL DEF IngestSpec
=============================================================================
