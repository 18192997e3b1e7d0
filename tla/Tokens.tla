------------------------------- MODULE Tokens -------------------------------
(***************************************************************************)
(* The names and prices of tokens: refreshTokenMetadata takes the mints of *)
(* trades that have no symbol, those nobody has looked at first and the    *)
(* others by how long ago it was, and tokenMetadata asks DexScreener about *)
(* them in batches, and Helius about the ones DexScreener does not know.   *)
(*                                                                         *)
(* updated_at is a place in a queue, and the 24 hours are counted from it  *)
(* too: they have gone by for a first part of the queue.  A pair is what   *)
(* the code reads of it: a liquidity (1 clears the floor), whether its     *)
(* price is a decimal, whether it traded in a day and                      *)
(* whether it has a symbol; one that tryParsePair refuses is not "valid".  *)
(***************************************************************************)
EXTENDS SequencesExt, Integers

CONSTANTS
    Mints,
    RawPairs,      \* the pairs DexScreener may list for a mint
    RunLimit,      \* mints a run takes (TOKEN_METADATA_LIMIT)
    BatchSize      \* DEXSCREENER_BATCH_LIMIT

ASSUME TokenAssumption ==
    /\ IsFiniteSet(Mints)
    /\ RunLimit \in Nat \ {0} /\ BatchSize \in Nat \ {0}
    /\ RawPairs \subseteq [valid : BOOLEAN, liquidity : Nat, readable : BOOLEAN,
                           recent : BOOLEAN, named : BOOLEAN]

VARIABLES
    fresh,         \* mints traded and never examined, by their oldest trade
    stamped,       \* mints examined and still without a symbol, oldest updated_at first
    cooled,        \* how many of them, from the first, were examined 24 hours ago or more
    token,         \* the rows: whether there is a symbol, and price_state
    refresh,       \* the run, which holds the advisory lock
    passed         \* complete runs that could have taken a mint and did not

tokenVars == <<fresh, stamped, cooled, token, refresh, passed>>

NoRefresh == [step |-> "idle", left |-> <<>>, chunk |-> <<>>, could |-> {}, failed |-> FALSE]

TokensTypeOK ==
    /\ fresh \in Seq(Mints) /\ stamped \in Seq(Mints)
    /\ cooled \in 0 .. Len(stamped)
    /\ token \in [Mints -> [there : BOOLEAN, named : BOOLEAN, state : {"none", "unpriced", "stale", "priced"}]]
    /\ refresh.step \in {"idle", "running"} /\ refresh.failed \in BOOLEAN /\ refresh.could \subseteq Mints
    /\ refresh.left \in Seq(Mints) /\ refresh.chunk \in Seq(Mints)
    /\ passed \in [Mints -> Nat]

Prefix(s, n) == SubSeq(s, 1, IF Len(s) < n THEN Len(s) ELSE n)
Beyond(s, n) == SubSeq(s, n + 1, Len(s))
PlaceOf(s, m) == CHOOSE i \in DOMAIN s : s[i] = m
Without(s, m) == IF m \in ToSet(s) THEN RemoveAt(s, PlaceOf(s, m)) ELSE s

-----------------------------------------------------------------------------
(* A trade of a mint there was none of; its block may be older than others'. *)
TradeMint(m) ==
    /\ m \notin ToSet(fresh) \cup ToSet(stamped) /\ ~token[m].there
    /\ \E i \in 1 .. Len(fresh) + 1 : fresh' = InsertAt(fresh, i, m)
    /\ UNCHANGED <<stamped, cooled, token, refresh, passed>>

\* retryAfter has gone by for everything examined so far.
Cool ==
    /\ cooled # Len(stamped)
    /\ cooled' = Len(stamped)
    /\ UNCHANGED <<fresh, stamped, token, refresh, passed>>

Retried == Prefix(stamped, cooled)

\* Mutant: NULLS LAST.
QueueNullsLast == Retried \o fresh

\* ORDER BY updated_at ASC NULLS FIRST, first_seen.
Queue == fresh \o Retried

StartRefresh ==
    /\ refresh.step = "idle"
    /\ refresh' = [NoRefresh EXCEPT !.step = "running", !.left = Prefix(Queue, RunLimit),
                                    !.could = ToSet(Queue)]
    /\ UNCHANGED <<fresh, stamped, cooled, token, passed>>

Asking == refresh.step = "running" /\ refresh.chunk = <<>>

\* fetchDexscreenerPairs answers for a batch, or the whole batch is left alone.
AskChunk ==
    /\ Asking /\ refresh.left # <<>>
    /\ \/ refresh' = [refresh EXCEPT !.chunk = Prefix(refresh.left, BatchSize),
                                     !.left = Beyond(@, BatchSize)]
       \/ refresh' = [refresh EXCEPT !.left = Beyond(@, BatchSize), !.failed = TRUE]
    /\ UNCHANGED <<fresh, stamped, cooled, token, passed>>

\* tryParsePair: what it refuses is as good as not listed.
Parsed(raw) == {p \in raw : p.valid}

\* pickBestPair: one of the highest liquidity.
Best(pairs) == {p \in pairs : \A q \in pairs : q.liquidity <= p.liquidity}

\* deriveTokenUpdate: the floor first, then the price, then the last day.
PriceState(p) ==
    IF p.liquidity < 1 \/ ~p.readable THEN "unpriced"
    ELSE IF p.recent THEN "priced" ELSE "stale"

\* heliusAssetMetadata: a symbol or none, whatever the reason, and never a price.
HeliusAnswers == BOOLEAN

\* upsertToken: what is known of the name stays, the price is replaced.
Upsert(m, named, state) ==
    token' = [token EXCEPT ![m] = [there |-> TRUE, named |-> @.named \/ named, state |-> state]]

\* updated_at = now(): the back of the queue, or out of it with a symbol.
Moved(m, named) == stamped' = IF named THEN Without(stamped, m) ELSE Append(Without(stamped, m), m)

WriteToken ==
    /\ refresh.chunk # <<>>
    /\ LET m == Head(refresh.chunk)
       IN  /\ \E raw \in SUBSET RawPairs :
                 LET pairs == Parsed(raw)
                 IN  IF pairs = {}
                     THEN \E named \in HeliusAnswers :
                             Upsert(m, named, "unpriced") /\ Moved(m, token[m].named \/ named)
                     ELSE \E p \in Best(pairs) :
                             Upsert(m, p.named, PriceState(p)) /\ Moved(m, token[m].named \/ p.named)
           /\ fresh' = Without(fresh, m)
           /\ cooled' = IF m \in ToSet(Retried) THEN cooled - 1 ELSE cooled
           /\ passed' = [passed EXCEPT ![m] = 0]
           /\ refresh' = [refresh EXCEPT !.chunk = Tail(@), !.could = @ \ {m}]

EndRefresh ==
    /\ Asking /\ refresh.left = <<>>
    /\ passed' = [m \in Mints |-> IF m \in refresh.could /\ ~refresh.failed
                                  THEN passed[m] + 1 ELSE passed[m]]
    /\ refresh' = NoRefresh
    /\ UNCHANGED <<fresh, stamped, cooled, token>>

\* The process dies, or a statement fails, between two rows.
DropRefresh ==
    /\ refresh.step = "running"
    /\ refresh' = NoRefresh
    /\ UNCHANGED <<fresh, stamped, cooled, token, passed>>

TokensInit ==
    /\ fresh = <<>> /\ stamped = <<>> /\ cooled = 0
    /\ token = [m \in Mints |-> [there |-> FALSE, named |-> FALSE, state |-> "none"]]
    /\ refresh = NoRefresh
    /\ passed = [m \in Mints |-> 0]

TokensNext ==
    \/ \E m \in Mints : TradeMint(m)
    \/ Cool \/ StartRefresh \/ AskChunk \/ WriteToken \/ EndRefresh \/ DropRefresh

TokensSpec == TokensInit /\ [][TokensNext]_tokenVars

-----------------------------------------------------------------------------
(* Properties.                                                             *)

\* "Every mint needing metadata is therefore reached within ceil(N / limit) runs"
\* (refresh-token-metadata): no more complete runs than that go by a mint whose
\* turn it could be, whatever other mints are traded, retried or fail.
ReachedInTurn == \A m \in Mints : passed[m] * RunLimit < Cardinality(Mints)
=============================================================================
