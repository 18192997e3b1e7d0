----------------------------- MODULE Classifier -----------------------------
(***************************************************************************)
(* What a swap is: evaluateSwap of parse-swap.ts, for one wallet of one    *)
(* enhanced transaction.  Any field of the payload may be unreadable, and  *)
(* the question of the module is what becomes of a payload when a part of  *)
(* it is: "every classification in this file is monotone under dropped     *)
(* data, so no check anywhere can substitute for measuring the number".    *)
(*                                                                         *)
(* Amounts are integers with a scale, as in the code.  A throw of          *)
(* MalformedPayloadError is the outcome "malformed".                       *)
(***************************************************************************)
EXTENDS Integers, Sequences, FiniteSetsExt

CONSTANTS
    Payloads,         \* transactions, all of them readable
    Us, Others,       \* the wallet, and the other accounts
    Coins,            \* mints that are neither wrapped SOL nor a stablecoin
    SolUsd,           \* the rates of a minute, 0 for none
    Unread,           \* a value that is there and cannot be read
    AtaRent,          \* LARGEST_ATA_RENT_LAMPORTS
    DustDen,          \* DUST_MAX_TOKENS_DENOMINATOR
    LamportDecimals,
    MaxHidden         \* bound: parts that become unreadable

Stables == {"usdc", "usdt"}
SomeMint == Coins \cup Stables \cup {"wsol"}

Accounts == Others \cup {Us}
TokenChange == [owner : Accounts, mint : SomeMint, raw : Int, dec : Nat]
AccountEntry == [account : Accounts, native : Int, changes : Seq(TokenChange)]
EnhancedTx == [feePayer : Accounts, fee : Nat, header : {"read"}, entries : Seq(AccountEntry)]

ASSUME ClassifierAssumption ==
    /\ AtaRent \in Nat /\ DustDen \in Nat \ {0} /\ LamportDecimals \in Nat
    /\ SolUsd \subseteq Nat /\ MaxHidden \in Nat /\ Us \notin Others
    /\ Payloads \subseteq EnhancedTx

ASSUME UnreadAssumption ==
    /\ Unread \notin Int /\ Unread \notin Accounts \cup SomeMint /\ Unread # "read"
    /\ Unread \notin TokenChange /\ Unread \notin Seq(TokenChange)
    /\ Unread \notin AccountEntry /\ Unread \notin Seq(AccountEntry)

VARIABLES
    truth,            \* the transaction
    seen,             \* what the parser is given
    hidden,           \* parts that became unreadable on the way
    minuteRate        \* solUsdForMinute of its block

classifierVars == <<truth, seen, hidden, minuteRate>>

-----------------------------------------------------------------------------
(* What of the payload is the wallet's.                                    *)

Abs(x) == IF x < 0 THEN -x ELSE x

\* 10n ** BigInt(n).  (Not the operator ^, of which the provers know nothing.)
PowerOfTen[n \in Nat] == IF n = 0 THEN 1 ELSE 10 * PowerOfTen[n - 1]

\* What a loop adds up.
SumOver(g) == MapThenSumSet(LAMBDA x : g[x], DOMAIN g)

\* BigInt division truncates toward zero.
Truncated(a, b) == IF a < 0 THEN -((-a) \div b) ELSE a \div b

ReadableAmount(p) == {i \in DOMAIN p.entries : p.entries[i] # Unread}
OwnEntries(p) == {i \in ReadableAmount(p) : p.entries[i].account = Us}

\* The changes of an entry that are objects.
ChangesOf(e) == IF e.changes = Unread THEN {} ELSE {j \in DOMAIN e.changes : e.changes[j] # Unread}

OwnChanges(p) == UNION {{<<i, j>> : j \in {j \in ChangesOf(p.entries[i]) : p.entries[i].changes[j].owner = Us}}
                        : i \in ReadableAmount(p)}

At(p, x) == p.entries[x[1]].changes[x[2]]

\* Mutant: an unreadable owner is nobody's problem.
ObviouslyHides(e) == e = Unread

\* What may hide a change of ours: a container that cannot be read, or a change
\* of no readable owner whose amount is not known to be zero.
MayHide(e) ==
    \/ e = Unread
    \/ e.changes = Unread
    \/ \E j \in DOMAIN e.changes :
          \/ e.changes[j] = Unread
          \/ e.changes[j].owner = Unread /\ e.changes[j].raw # 0

Unattributable(p) == \E i \in DOMAIN p.entries : MayHide(p.entries[i])

\* On an entry of our own, every change must be an object and have an owner.
OwnIsUnreadable(p) ==
    \E i \in OwnEntries(p) : LET e == p.entries[i] IN
        \/ e.changes = Unread
        \/ \E j \in DOMAIN e.changes : e.changes[j] = Unread \/ e.changes[j].owner = Unread

\* balanceChangesFor throws.
ChangesMalformed(p) ==
    \/ OwnIsUnreadable(p)
    \/ \E x \in OwnChanges(p) : Unread \in {At(p, x).mint, At(p, x).raw, At(p, x).dec}
    \/ OwnChanges(p) # {} /\ Unattributable(p)

-----------------------------------------------------------------------------
(* The token side.                                                         *)

InMint(p, m) == {x \in OwnChanges(p) : At(p, x).mint = m}

\* The finest scale a mint is reported at, and the sum at that scale.
Scale(p, m) == Max({At(p, x).dec : x \in InMint(p, m)})
LegRaw(p, m) ==
    SumOver([x \in InMint(p, m) |-> At(p, x).raw * PowerOfTen[Scale(p, m) - At(p, x).dec]])

AllLegs(p) == {m \in SomeMint \ {"wsol"} : InMint(p, m) # {} /\ LegRaw(p, m) # 0}

\* At or below 1 / DustDen of a token, cross-multiplied.
IsDust(p, m) == Abs(LegRaw(p, m)) * DustDen <= PowerOfTen[Scale(p, m)]
Legs(p) == {m \in AllLegs(p) : ~IsDust(p, m)}

-----------------------------------------------------------------------------
(* The SOL side, in lamports.                                              *)

ToLamports(raw, dec) ==
    IF dec <= LamportDecimals THEN raw * PowerOfTen[LamportDecimals - dec]
                              ELSE Truncated(raw, PowerOfTen[dec - LamportDecimals])

WsolLamports(p) == SumOver([x \in InMint(p, "wsol") |-> ToLamports(At(p, x).raw, At(p, x).dec)])

\* Mutant: an entry of no readable account is not one of ours.
NativeOfOursMalformed(p) == \E i \in OwnEntries(p) : p.entries[i].native = Unread

\* Lamports that moved belong to somebody: an account that cannot be read is fatal
\* over them.
NativeMalformed(p) ==
    \/ \E i \in OwnEntries(p) : p.entries[i].native = Unread
    \/ \E i \in ReadableAmount(p) : p.entries[i].account = Unread /\ p.entries[i].native # 0

Native(p) == SumOver([i \in OwnEntries(p) |-> p.entries[i].native])

\* solSideFor: the fee is added back for who paid it.
SolMalformed(p) == p.feePayer = Unread \/ p.fee = Unread \/ NativeMalformed(p)
SolDelta(p) == Native(p) + (IF p.feePayer = Us THEN p.fee ELSE 0) + WsolLamports(p)

\* readableNativeFor: what is known to have moved.
NativeKnown(p) ==
    SumOver([i \in {i \in OwnEntries(p) : p.entries[i].native # Unread} |-> p.entries[i].native])

\* identifiableRentFor: the rent the payload states for the token accounts of our
\* legs.  Those of wrapped SOL move the lamports of the trade.
RentStatedBy(p, i) ==
    LET e == p.entries[i]
        ours == {j \in ChangesOf(e) : e.changes[j].owner = Us}
    IN  IF e.account = Us \/ ours = {} \/ e.native = Unread
           \/ \E j \in ours : e.changes[j].mint = "wsol"
        THEN 0 ELSE Abs(e.native)

IdentifiableRent(p) == SumOver([i \in ReadableAmount(p) |-> RentStatedBy(p, i)])
RentFloor(p) == AtaRent * Cardinality({x \in OwnChanges(p) : At(p, x).raw # 0})
RentBound(p) == Max({IdentifiableRent(p), RentFloor(p)})

StableLamports(p, m, usd) ==
    Truncated(LegRaw(p, m) * PowerOfTen[LamportDecimals], PowerOfTen[Scale(p, m)] * usd)

-----------------------------------------------------------------------------
(* evaluateSwap.                                                           *)

Says(outcome) == [outcome |-> outcome, side |-> "none", mint |-> "none",
                  raw |-> 0, dec |-> 0, sol |-> 0, fee |-> 0]

\* One token leg against a SOL side: settleTrade.
Settle(p, m, quote) ==
    LET sol == SolDelta(p) + quote
        raw == LegRaw(p, m)
    IN  IF SolMalformed(p) THEN Says("malformed")
        ELSE IF sol = 0 THEN Says("no_sol_leg")
        ELSE IF (raw > 0) = (sol > 0) THEN Says("sol_leg_wrong_direction")
        ELSE IF Abs(sol) <= RentBound(p) THEN Says("sol_leg_is_residue")
        ELSE [outcome |-> "trade", side |-> IF raw > 0 THEN "buy" ELSE "sell", mint |-> m,
              raw |-> Abs(raw), dec |-> Scale(p, m), sol |-> Abs(sol),
              fee |-> IF p.feePayer = Us THEN p.fee ELSE 0]

\* No token moved that we can read.  Beside a change that nobody can be given, a
\* SOL movement of ours is a trade whose token side was not readable.
WithoutLegs(p) ==
    IF AllLegs(p) # {} THEN Says("dust_only")
    ELSE IF Unattributable(p) /\ NativeKnown(p) + WsolLamports(p) # 0
            /\ (SolMalformed(p) \/ SolDelta(p) # 0)
         THEN Says("malformed") ELSE Says("no_token_leg")

\* A pair of legs is a swap when one is USDC, worth a lamport at the minute's rate.
WithTwoLegs(p, usd) ==
    IF Legs(p) \subseteq Stables THEN Says("stable_rotation")
    ELSE IF "usdc" \in Legs(p)
    THEN IF usd = 0 THEN Says("unsupported_quote_no_rate")
         ELSE IF StableLamports(p, "usdc", usd) = 0 THEN Says("unsupported_quote")
         ELSE Settle(p, CHOOSE m \in Legs(p) : m # "usdc", StableLamports(p, "usdc", usd))
    ELSE IF "usdt" \in Legs(p) THEN Says("unsupported_quote_unpriced_stable")
    ELSE Says("unsupported_quote_token_token")

WithOneLeg(p) ==
    IF Legs(p) \subseteq Stables THEN Says("stable_rotation")
    ELSE Settle(p, CHOOSE m \in Legs(p) : TRUE, 0)

EvaluateSwap(p, usd) ==
    IF p.entries = Unread \/ ChangesMalformed(p) THEN Says("malformed")
    ELSE LET n == Cardinality(Legs(p))
         IN  IF n = 0 THEN WithoutLegs(p)
             ELSE IF n = 1 THEN WithOneLeg(p)
             ELSE IF n = 2 THEN WithTwoLegs(p, usd)
             ELSE Says("unsupported_quote")

\* readTradeHeader: the signature, the block time and the slot are read only of a
\* payload that gives a trade, or may with a rate.
NeedsHeader(outcome) == outcome \in {"trade", "unsupported_quote_no_rate"}

\* The rate is looked up for a payload that needs one, as parsePending does.
Classify(p, usd) ==
    LET first == EvaluateSwap(p, 0)
    IN  IF NeedsHeader(first.outcome) /\ p.header = Unread THEN Says("malformed")
        ELSE IF first.outcome = "unsupported_quote_no_rate" /\ usd # 0 THEN EvaluateSwap(p, usd) ELSE first

\* What is recorded on the row; everything else is passed over in silence.
ParseErrorFor(outcome) ==
    IF outcome \in {"unsupported_quote", "unsupported_quote_no_rate", "unsupported_quote_unpriced_stable",
                    "unsupported_quote_token_token", "sol_leg_wrong_direction", "sol_leg_is_residue",
                    "malformed"}
    THEN outcome ELSE "none"

-----------------------------------------------------------------------------
(* A part becomes unreadable.                                              *)

HideSome(p) ==
    /\ hidden < MaxHidden
    /\ seen' = p /\ hidden' = hidden + 1
    /\ UNCHANGED <<truth, minuteRate>>

HideHeader ==
    \E f \in {"feePayer", "fee", "header", "entries"} : seen[f] # Unread /\ HideSome([seen EXCEPT ![f] = Unread])

HideEntry ==
    /\ seen.entries # Unread
    /\ \E i \in ReadableAmount(seen) :
          \/ HideSome([seen EXCEPT !.entries[i] = Unread])
          \/ \E f \in {"account", "changes"} :
                /\ seen.entries[i][f] # Unread
                /\ HideSome([seen EXCEPT !.entries[i][f] = Unread])

\* Lamports of an entry: apart, because they are what rent is read from.
HideNative ==
    /\ seen.entries # Unread
    /\ \E i \in ReadableAmount(seen) : /\ seen.entries[i].native # Unread
                                 /\ HideSome([seen EXCEPT !.entries[i].native = Unread])

HideChange ==
    /\ seen.entries # Unread
    /\ \E i \in ReadableAmount(seen) : \E j \in ChangesOf(seen.entries[i]) :
          \/ HideSome([seen EXCEPT !.entries[i].changes[j] = Unread])
          \/ \E f \in {"owner", "mint", "raw", "dec"} :
                /\ seen.entries[i].changes[j][f] # Unread
                /\ HideSome([seen EXCEPT !.entries[i].changes[j][f] = Unread])

ClassifierInit ==
    /\ truth \in Payloads /\ seen = truth /\ hidden = 0 /\ minuteRate \in SolUsd

ClassifierNext == HideHeader \/ HideEntry \/ HideNative \/ HideChange

ClassifierSpec == ClassifierInit /\ [][ClassifierNext]_classifierVars

-----------------------------------------------------------------------------
(* Properties.                                                             *)

SameTrade(t, u) ==
    /\ t.side = u.side /\ t.mint = u.mint /\ t.sol = u.sol /\ t.fee = u.fee
    /\ t.raw * PowerOfTen[u.dec] = u.raw * PowerOfTen[t.dec]

\* Only rent the payload stated stands between what was read and a trade.
RentWasStated ==
    /\ Classify(truth, minuteRate).outcome = "sol_leg_is_residue"
    /\ IdentifiableRent(seen) # IdentifiableRent(truth)

\* Nothing that can be read says that the wallet took part: "No unattributable change, or no native
\* movement, and the wallet is genuinely uninvolved".
Uninvolved(p) ==
    /\ OwnChanges(p) = {}
    /\ NativeKnown(p) = 0 \/ (~SolMalformed(p) /\ SolDelta(p) = 0)

\* Accounts as the chain has them: one that holds a token holds one, and the wallet's own holds none.
OneMintEach(p) ==
    \A x, y \in OwnChanges(p) :
       /\ p.entries[x[1]].account # Us
       /\ x[1] = y[1] => At(p, x).mint = At(p, y).mint

\* "The only safe response to data this parser cannot read is to refuse the row":
\* whatever parts of a transaction cannot be read, no trade comes of it that its
\* own numbers do not give, its rent set aside; a trade is refused, unless nothing
\* is left that says the wallet took part; and the loss of one part alone turns a
\* trade that moved lamports into a malformed row, never into one passed over.
UnreadIsRefused ==
    hidden > 0 =>
    LET was == Classify(truth, minuteRate)
        is == Classify(seen, minuteRate)
    IN  /\ is.outcome = "trade" => SameTrade(is, was) \/ RentWasStated
        /\ was.outcome = "trade" =>
              SameTrade(is, was) \/ ParseErrorFor(is.outcome) # "none" \/ Uninvolved(seen)
        /\ was.outcome = "trade" /\ hidden <= 1 /\ OneMintEach(truth) /\ Native(truth) # 0 =>
              SameTrade(is, was) \/ is.outcome = "malformed"

\* identifiableRentFor: "a term that can only ever raise the bound cannot fabricate a
\* trade by being 0".
UnstatedRentIsNoTrade ==
    Classify(seen, minuteRate).outcome = "trade" => Classify(truth, minuteRate).outcome = "trade"
=============================================================================
