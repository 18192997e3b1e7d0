------------------------------ MODULE Accounts ------------------------------
(***************************************************************************)
(* Registration, proofs of wallets, sessions, the profile's wallets and    *)
(* the admin's decisions: the handlers under app/api/registro, perfil,     *)
(* wallet and admin, with lib/roster.ts, wallets.ts, wallet-proof-store.ts *)
(* and session.ts.  A handler is a sequence of statements, each of them   *)
(* atomic by itself (createKol is one transaction); between two of them    *)
(* anything may happen, and the process may die.                           *)
(*                                                                         *)
(* A nonce is a row of wallet_proof_nonce and stands for the message that  *)
(* carries it; `signed' are those the holder of the wallet has signed.     *)
(* Visibility, chains and the limiter are left out.                        *)
(***************************************************************************)
EXTENDS Integers, FiniteSets

CONSTANTS
    Handles,       \* handles: slug and x_handle are unique
    Addresses,
    Nonces,
    Requests,
    Nobody,
    MaxAtOnce,     \* MAX_WALLETS of createKol
    MaxWallets,    \* MAX_WALLETS of the profile
    MaxStarts      \* bound: requests that start in a behaviour

ASSUME NobodyAssumption == Nobody \notin Handles \cup Addresses \cup Nonces
ASSUME AccountsBounds ==
    /\ MaxWallets \in Nat /\ MaxAtOnce \in 1 .. MaxWallets /\ MaxStarts \in Nat
    /\ IsFiniteSet(Requests) /\ IsFiniteSet(Addresses)

VARIABLES
    kol,           \* "absent", "pending" or "approved"
    code,          \* KOLs with a verification_code
    tweeted,       \* KOLs with tweet_verified_at
    wallet,        \* kol_wallet by address: unique, and never deleted
    nonce,         \* wallet_proof_nonce
    signed,
    login,         \* "none", "open" or "closed", by KOL
    request,       \* the handlers that run
    recorded,      \* entries of audit_log that say the KOL is approved
    starts

accountsVars == <<kol, code, tweeted, wallet, nonce, signed, login, request, recorded, starts>>

Acts == {"alta de perfil", "agregar wallet", "retirar wallet"}

NoWallet == [owner |-> Nobody, active |-> FALSE, verified |-> FALSE, vouched |-> FALSE]
NoNonce == [of |-> Nobody, act |-> "alta de perfil", state |-> "free"]
NoRequest == [op |-> "none", step |-> "free", kol |-> Nobody, addrs |-> {}, left |-> {}, status |-> "pending"]

AccountsTypeOK ==
    /\ kol \in [Handles -> {"absent", "pending", "approved"}]
    /\ code \subseteq Handles /\ tweeted \subseteq Handles
    /\ wallet \in [Addresses -> [owner : Handles \cup {Nobody}, active : BOOLEAN,
                                 verified : BOOLEAN, vouched : BOOLEAN]]
    /\ nonce \in [Nonces -> [of : Addresses \cup {Nobody}, act : Acts,
                             state : {"free", "issued", "used", "expired"}]]
    /\ signed \subseteq Nonces
    /\ login \in [Handles -> {"none", "open", "closed"}]
    /\ request \in [Requests -> [op : {"none", "register", "create", "approve", "tweet", "paste",
                                       "validate", "withdraw"},
                                 step : {"free", "burn", "create", "code", "session", "record", "approve",
                                         "mark", "find", "insert", "unverify", "signer", "retire", "dead"},
                                 kol : Handles \cup {Nobody}, addrs : SUBSET Addresses,
                                 left : SUBSET Nonces, status : {"pending", "approved"}]]
    /\ recorded \in [Handles -> 0 .. MaxStarts]
    /\ starts \in 0 .. MaxStarts

-----------------------------------------------------------------------------
(* Steps of a handler.                                                     *)

At(p, op, step) == request[p].op = op /\ request[p].step = step
Go(p, step) == request' = [request EXCEPT ![p].step = step]
Done(p) == request' = [request EXCEPT ![p] = NoRequest]

Start(p, r) ==
    /\ request[p].step = "free"
    /\ starts < MaxStarts
    /\ request' = [request EXCEPT ![p] = r]
    /\ starts' = starts + 1
    /\ UNCHANGED <<kol, code, tweeted, wallet, nonce, signed, login, recorded>>

\* The process dies after it has committed something that is not the end of its
\* work: that stays.  Anywhere else its death is a refusal, or no request at all.
Die(p) ==
    /\ request[p].step \in {"code", "session", "record", "unverify"}
    /\ Go(p, "dead")
    /\ UNCHANGED <<kol, code, tweeted, wallet, nonce, signed, login, recorded, starts>>

-----------------------------------------------------------------------------
(* Nonces: issueNonce, the wallet's holder, time, consumeNonce.            *)

\* Anybody may ask for one, for any wallet and any of the three acts.
IssueNonce(n, a, act) ==
    /\ nonce[n].state = "free"
    /\ nonce' = [nonce EXCEPT ![n] = [of |-> a, act |-> act, state |-> "issued"]]
    /\ UNCHANGED <<kol, code, tweeted, wallet, signed, login, request, recorded, starts>>

Sign(n) ==
    /\ nonce[n].state # "free" /\ n \notin signed
    /\ signed' = signed \cup {n}
    /\ UNCHANGED <<kol, code, tweeted, wallet, nonce, login, request, recorded, starts>>

ExpireNonce(n) ==
    /\ nonce[n].state = "issued"
    /\ nonce' = [nonce EXCEPT ![n].state = "expired"]
    /\ UNCHANGED <<kol, code, tweeted, wallet, signed, login, request, recorded, starts>>

\* verifyProof: the message of n, rebuilt for this wallet and act, is signed.
Proves(n, a, act) == n \in signed /\ nonce[n].of = a /\ nonce[n].act = act

\* kolFromSession.
SignedIn(k) == login[k] = "open"

\* consumeNonce: one UPDATE, of a row that is of this wallet and act and is not used.
Burns(n, a, act) == nonce[n].of = a /\ nonce[n].act = act /\ nonce[n].state = "issued"

\* One of the nonces a handler still has to burn; a refusal ends the request, and
\* those that were burnt before it stay so.
Burn(p, op, act, next) ==
    \E n \in request[p].left :
        /\ At(p, op, "burn")
        /\ IF \E a \in request[p].addrs : Burns(n, a, act)
           THEN /\ nonce' = [nonce EXCEPT ![n].state = "used"]
                /\ request' = [request EXCEPT ![p].left = @ \ {n},
                                              ![p].step = IF request[p].left = {n} THEN next ELSE "burn"]
           ELSE Done(p) /\ UNCHANGED nonce
        /\ UNCHANGED <<kol, code, tweeted, wallet, signed, login, recorded, starts>>

-----------------------------------------------------------------------------
(* POST /api/registro and POST /api/admin/kol.                             *)

\* Every proof is verified before a nonce is burnt.
Register(p) ==
    \E k \in Handles, A \in SUBSET Addresses, N \in SUBSET signed :
        /\ A # {} /\ Cardinality(N) = Cardinality(A)
        /\ \A a \in A : \E n \in N : Proves(n, a, "alta de perfil")
        /\ Start(p, [NoRequest EXCEPT !.op = "register", !.step = "burn", !.kol = k, !.addrs = A, !.left = N])

CreateByAdmin(p) ==
    \E k \in Handles, a \in Addresses, s \in {"pending", "approved"} :
        Start(p, [NoRequest EXCEPT !.op = "create", !.step = "create", !.kol = k, !.addrs = {a}, !.status = s])

\* createKol, one transaction that the unique indexes may refuse; its own limit
\* on wallets is looked at when the nonces are burnt.
CreateKol(p) ==
    LET r == request[p]
        refused == \/ Cardinality(r.addrs) > MaxAtOnce
                   \/ kol[r.kol] # "absent"
                   \/ \E a \in r.addrs : wallet[a].owner # Nobody
    IN  /\ r.op \in {"register", "create"} /\ r.step = "create"
        /\ IF refused
           THEN Done(p) /\ UNCHANGED <<kol, wallet>>
           ELSE /\ kol' = [kol EXCEPT ![r.kol] = r.status]
                /\ wallet' = [a \in Addresses |->
                      IF a \in r.addrs
                      THEN [owner |-> r.kol, active |-> TRUE, verified |-> TRUE, vouched |-> r.op = "create"]
                      ELSE wallet[a]]
                /\ Go(p, IF r.op = "register" THEN "code" ELSE "record")
        /\ UNCHANGED <<code, tweeted, nonce, signed, login, recorded, starts>>

GiveCode(p) ==
    /\ At(p, "register", "code")
    /\ code' = code \cup {request[p].kol}
    /\ Go(p, "session")
    /\ UNCHANGED <<kol, tweeted, wallet, nonce, signed, login, recorded, starts>>

OpenSession(p) ==
    /\ At(p, "register", "session")
    /\ login' = [login EXCEPT ![request[p].kol] = "open"]
    /\ Done(p)
    /\ UNCHANGED <<kol, code, tweeted, wallet, nonce, signed, recorded, starts>>

\* DELETE of the session, by its owner or the admin, or thirty days.
CloseSession(k) ==
    /\ login[k] = "open"
    /\ login' = [login EXCEPT ![k] = "closed"]
    /\ UNCHANGED <<kol, code, tweeted, wallet, nonce, signed, request, recorded, starts>>

-----------------------------------------------------------------------------
(* The admin's approval, and the tweet before it.                          *)

Approve(p) ==
    \E k \in Handles :
        /\ kol[k] = "pending"
        /\ Start(p, [NoRequest EXCEPT !.op = "approve", !.step = "approve", !.kol = k])

\* Mutant: the UPDATE does not ask for a pending row.
ApproveAgain(p) ==
    /\ At(p, "approve", "approve")
    /\ kol' = [kol EXCEPT ![request[p].kol] = "approved"]
    /\ Go(p, "record")
    /\ UNCHANGED <<code, tweeted, wallet, nonce, signed, login, recorded, starts>>

ApproveKol(p) ==
    LET k == request[p].kol
    IN  /\ At(p, "approve", "approve")
        /\ IF kol[k] = "pending"
           THEN kol' = [kol EXCEPT ![k] = "approved"] /\ Go(p, "record")
           ELSE Done(p) /\ UNCHANGED kol
        /\ UNCHANGED <<code, tweeted, wallet, nonce, signed, login, recorded, starts>>

\* audit(): an entry of its own transaction.
RecordDecision(p) ==
    LET r == request[p]
    IN  /\ r.op \in {"create", "approve"} /\ r.step = "record"
        /\ recorded' = IF r.op = "approve" \/ r.status = "approved"
                       THEN [recorded EXCEPT ![r.kol] = @ + 1] ELSE recorded
        /\ Done(p)
        /\ UNCHANGED <<kol, code, tweeted, wallet, nonce, signed, login, starts>>

\* POST /api/registro/tweet: the row is read, the tweet fetched, the row updated.
CheckTweet(p) ==
    \E k \in code :
        /\ kol[k] = "pending"
        /\ Start(p, [NoRequest EXCEPT !.op = "tweet", !.step = "mark", !.kol = k])

MarkTweet(p) ==
    /\ At(p, "tweet", "mark")
    /\ tweeted' = tweeted \cup {request[p].kol}
    /\ Done(p)
    /\ UNCHANGED <<kol, code, wallet, nonce, signed, login, recorded, starts>>

-----------------------------------------------------------------------------
(* POST /api/perfil/wallets, POST /api/perfil/validar.                     *)

Owned(k) == {a \in Addresses : wallet[a].owner = k /\ wallet[a].active}

\* Mutant: the wallets are not counted.
PasteUncounted(p) ==
    \E k \in Handles, a \in Addresses :
        /\ SignedIn(k)
        /\ Start(p, [NoRequest EXCEPT !.op = "paste", !.step = "find", !.kol = k, !.addrs = {a}])

\* The session, and readProfile with the number of wallets.
Paste(p) ==
    \E k \in Handles, a \in Addresses :
        /\ SignedIn(k)
        /\ Cardinality(Owned(k)) < MaxWallets
        /\ Start(p, [NoRequest EXCEPT !.op = "paste", !.step = "find", !.kol = k, !.addrs = {a}])

\* findWalletByAddress.
FindWallet(p) ==
    /\ At(p, "paste", "find")
    /\ IF \E a \in request[p].addrs : wallet[a].owner # Nobody THEN Done(p) ELSE Go(p, "insert")
    /\ UNCHANGED <<kol, code, tweeted, wallet, nonce, signed, login, recorded, starts>>

\* addWallet: the column's default says that the wallet is verified.
InsertWallet(p) ==
    /\ At(p, "paste", "insert")
    /\ \E a \in request[p].addrs :
          IF wallet[a].owner # Nobody
          THEN Done(p) /\ UNCHANGED wallet
          ELSE /\ wallet' = [wallet EXCEPT ![a] = [owner |-> request[p].kol, active |-> TRUE,
                                                  verified |-> TRUE, vouched |-> FALSE]]
               /\ Go(p, "unverify")
    /\ UNCHANGED <<kol, code, tweeted, nonce, signed, login, recorded, starts>>

Unverify(p) ==
    /\ At(p, "paste", "unverify")
    /\ wallet' = [a \in Addresses |-> IF a \in request[p].addrs
                                      THEN [wallet[a] EXCEPT !.verified = FALSE] ELSE wallet[a]]
    /\ Done(p)
    /\ UNCHANGED <<kol, code, tweeted, nonce, signed, login, recorded, starts>>

\* walletOf, and the address compared, before the nonce is burnt.
Validate(p) ==
    \E k \in Handles, n \in Nonces :
        \E a \in Owned(k) :
            /\ SignedIn(k)
            /\ ~wallet[a].verified
            /\ nonce[n].of = a
            /\ Start(p, [NoRequest EXCEPT !.op = "validate", !.step = "burn", !.kol = k,
                                     !.addrs = {a}, !.left = {n}])

\* Mutant: the proof is not verified once its nonce is spent.
MarkUnproved(p) ==
    /\ At(p, "validate", "mark")
    /\ wallet' = [a \in Addresses |-> IF a \in request[p].addrs
                                      THEN [wallet[a] EXCEPT !.verified = TRUE] ELSE wallet[a]]
    /\ Done(p)
    /\ UNCHANGED <<kol, code, tweeted, nonce, signed, login, recorded, starts>>

\* verifyProof, of a nonce that is spent by now, and the UPDATE.
MarkVerified(p) ==
    /\ At(p, "validate", "mark")
    /\ \E a \in request[p].addrs :
          wallet' = IF \E n \in Nonces : Proves(n, a, "agregar wallet") /\ nonce[n].state = "used"
                    THEN [wallet EXCEPT ![a].verified = TRUE] ELSE wallet
    /\ Done(p)
    /\ UNCHANGED <<kol, code, tweeted, nonce, signed, login, recorded, starts>>

-----------------------------------------------------------------------------
(* POST /api/wallet/retirar: withdrawWallet.                               *)

\* authorise verifies the signature first.
Withdraw(p) ==
    \E n \in Nonces, a \in Addresses :
        /\ Proves(n, a, "retirar wallet")
        /\ Start(p, [NoRequest EXCEPT !.op = "withdraw", !.step = "burn", !.addrs = {a}, !.left = {n}])

\* The signer is a wallet that is active, of a KOL who is approved.
FindSigner(p) ==
    /\ At(p, "withdraw", "signer")
    /\ \E a \in request[p].addrs :
          IF /\ wallet[a].active
             /\ wallet[a].owner # Nobody /\ kol[wallet[a].owner] = "approved"
          THEN Go(p, "retire") ELSE Done(p)
    /\ UNCHANGED <<kol, code, tweeted, wallet, nonce, signed, login, recorded, starts>>

Retire(p) ==
    /\ At(p, "withdraw", "retire")
    /\ wallet' = [a \in Addresses |-> IF a \in request[p].addrs
                                      THEN [wallet[a] EXCEPT !.active = FALSE] ELSE wallet[a]]
    /\ Done(p)
    /\ UNCHANGED <<kol, code, tweeted, nonce, signed, login, recorded, starts>>

AccountsInit ==
    /\ kol = [k \in Handles |-> "absent"]
    /\ code = {} /\ tweeted = {}
    /\ wallet = [a \in Addresses |-> NoWallet]
    /\ nonce = [n \in Nonces |-> NoNonce]
    /\ signed = {}
    /\ login = [k \in Handles |-> "none"]
    /\ request = [p \in Requests |-> NoRequest]
    /\ recorded = [k \in Handles |-> 0]
    /\ starts = 0

AccountsNext ==
    \/ \E n \in Nonces :
          \/ \E a \in Addresses, act \in Acts : IssueNonce(n, a, act)
          \/ Sign(n) \/ ExpireNonce(n)
    \/ \E k \in Handles : CloseSession(k)
    \/ \E p \in Requests :
          \/ Register(p) \/ Burn(p, "register", "alta de perfil", "create")
          \/ CreateByAdmin(p) \/ CreateKol(p) \/ GiveCode(p) \/ OpenSession(p)
          \/ Approve(p) \/ ApproveKol(p) \/ RecordDecision(p)
          \/ CheckTweet(p) \/ MarkTweet(p)
          \/ Paste(p) \/ FindWallet(p) \/ InsertWallet(p) \/ Unverify(p)
          \/ Validate(p) \/ Burn(p, "validate", "agregar wallet", "mark") \/ MarkVerified(p)
          \/ Withdraw(p) \/ Burn(p, "withdraw", "retirar wallet", "signer")
          \/ FindSigner(p) \/ Retire(p)
          \/ Die(p)

AccountsSpec == AccountsInit /\ [][AccountsNext]_accountsVars

-----------------------------------------------------------------------------
(* Properties.                                                             *)

\* A signature of its holder stands behind a wallet for these acts.
SignedFor(a, acts) ==
    \E n \in signed : nonce[n].of = a /\ nonce[n].act \in acts /\ nonce[n].state = "used"

\* A paste of a that has not finished, or never will.
HalfPasted(a) ==
    \E p \in Requests : /\ request[p].op = "paste" /\ a \in request[p].addrs
                        /\ request[p].step \in {"unverify", "dead"}

\* What the tables claim, somebody signed: a session is of a KOL one of whose
\* wallets was proved for a registration; a wallet that is called proved (column
\* comment of migrations/026) was, unless the admin vouched for it or a paste of
\* it is unfinished; a wallet that is withdrawn was signed away.
StandsOnASignature ==
    /\ \A k \in Handles : login[k] # "none" =>
          \E a \in Addresses : wallet[a].owner = k /\ SignedFor(a, {"alta de perfil"})
    /\ \A a \in Addresses : wallet[a].owner # Nobody =>
          /\ wallet[a].verified /\ ~wallet[a].vouched =>
                SignedFor(a, {"alta de perfil", "agregar wallet"}) \/ HalfPasted(a)
          /\ ~wallet[a].active => SignedFor(a, {"retirar wallet"})

\* Every decision is recorded once ("every mutation in audit_log", spec §9): two
\* admins who approve one KOL leave one entry, and only a death leaves none.
Unrecorded(k) ==
    {p \in Requests : /\ request[p].kol = k
                      /\ request[p].op = "approve" \/ (request[p].op = "create" /\ request[p].status = "approved")
                      /\ request[p].step \in {"record", "dead"}}
DecidedOnce ==
    \A k \in Handles :
        /\ kol[k] # "approved" => recorded[k] = 0
        /\ kol[k] = "approved" =>
              /\ recorded[k] <= 1
              /\ recorded[k] = 0 => Unrecorded(k) # {}

\* MAX_WALLETS is counted in one statement and the wallet added in another, so that
\* requests at once may pass it together, by one each and no more: what a KOL has
\* and is about to have stays below it by the first of them.
Pasting(k) == {p \in Requests : request[p].kol = k /\ (At(p, "paste", "find") \/ At(p, "paste", "insert"))}
WalletsAreBounded ==
    \A k \in Handles :
        Cardinality(Owned(k)) + Cardinality(Pasting(k)) <= MaxWallets + Cardinality(Requests) - 1
=============================================================================
