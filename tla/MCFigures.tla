------------------------------ MODULE MCFigures ------------------------------
(***************************************************************************)
(* What makes the figures, what shows them and the scripts around both,    *)
(* side by side: they share no variable, and a behaviour is of one of      *)
(* them.  Each keeps the instance of its own given below.                  *)
(***************************************************************************)
EXTENDS MCCostBasis, Prices, Feed, Classifier, MCReads, Screens, Operations

VARIABLE part      \* the component that runs

-----------------------------------------------------------------------------
(* Classifier: the fee paid by us or by the pool; SOL that moves by more   *)
(* or less than rent and fee; a token received or sent on an account of    *)
(* its own, opened or not; and something more: wrapped SOL, stablecoins,   *)
(* more or less of the token, dust, a second token, somebody else's.       *)

ChangeOf(o, m, r, d) == [owner |-> o, mint |-> m, raw |-> r, dec |-> d]
EntryOf(a, n, cs) == [account |-> a, native |-> n, changes |-> cs]

MCOwn == {EntryOf(Us, n, <<>>) : n \in {-7, -1, 3}}
MCToken == {EntryOf("ata", n, <<ChangeOf(Us, "A", r, 0)>>) : n \in {0, 5}, r \in {4, -4}}
MCMore == {EntryOf("ata2", 8, <<ChangeOf(Us, "wsol", 8, 1)>>),
           EntryOf("ata2", -6, <<ChangeOf(Us, "wsol", -6, 1)>>),
           EntryOf("ata2", 0, <<ChangeOf(Us, "usdc", 40, 1)>>),
           EntryOf("ata2", 0, <<ChangeOf(Us, "usdc", -20, 1)>>),
           EntryOf("ata2", 0, <<ChangeOf(Us, "A", 20, 1)>>),
           EntryOf("ata2", 0, <<ChangeOf(Us, "A", 0, 1)>>),
           EntryOf("ata2", 2, <<ChangeOf(Us, "B", 1, 1)>>),
           EntryOf("ata2", 0, <<ChangeOf(Us, "usdt", 2, 0)>>),
           EntryOf("ata2", 0, <<ChangeOf(Us, "B", -3, 0)>>),
           EntryOf("pool", 10, <<ChangeOf("pool", "A", -4, 0)>>)}

MCPayloads == {[feePayer |-> f, fee |-> 1, header |-> "read", entries |-> <<o, t, m>>] :
                   f \in {Us, "pool"}, o \in MCOwn, t \in MCToken, m \in MCMore}
              \cup {[feePayer |-> Us, fee |-> 3, header |-> "read",
                     entries |-> <<EntryOf(Us, 0, <<>>), t, EntryOf("pool", 10, <<>>)>>] : t \in MCToken}

-----------------------------------------------------------------------------
(* Registro: a wallet of both handshakes, one of EVM alone whose table     *)
(* says Solana too, and one that no table knows, with the address of       *)
(* another.                                                                *)

MCBrands == {"Phantom", "MetaMask", "Glow"}
MCHandshakes == [b \in MCBrands |-> CASE b = "Phantom" -> {"solana", "evm"}
                                      [] b = "MetaMask" -> {"evm"}
                                      [] b = "Glow" -> {"solana"}]
MCSupports == [b \in {"Phantom", "MetaMask"} |->
                   IF b = "Phantom" THEN {"solana", "ethereum", "robinhood"}
                                    ELSE {"solana", "ethereum", "robinhood", "bnb"}]
MCAddressOf == [p \in {<<"Phantom", "solana">>, <<"Phantom", "evm">>,
                       <<"MetaMask", "evm">>, <<"Glow", "solana">>} |->
                    IF p[2] = "solana" THEN "one" ELSE IF p[1] = "Phantom" THEN "two" ELSE "three"]
MCActiveChains == <<"solana", "robinhood", "bnb">>

MCSignedActions == {"crear cabal", "pedir entrar al cabal"}
MCReadActions == {"ver solicitudes"}

-----------------------------------------------------------------------------
(* Migrate: a branch without a migration of another that comes before its  *)
(* own, and what both become.                                              *)

MCCheckouts == {{1, 3}, {1, 2, 3}}

-----------------------------------------------------------------------------

Parts == {"cost", "prices", "feed", "classifier", "reads",
          "modal", "panel", "admin", "registro", "profile", "avatar",
          "suite", "guard", "migrate", "database"}

\* The components of more than one initial state, while another one runs.
FeedParked ==
    /\ inTable = {} /\ ownedBy = [p \in Places |-> CHOOSE k \in Owners : TRUE] /\ public = Owners
    /\ reader = [newest |-> Start0, tag |-> NoTag1, shows |-> {}, step |-> "waiting",
                 pages |-> 0, hidden |-> FALSE]
    /\ handed = {} /\ reach = Start0 /\ late = {} /\ answer = NoAnswer

ClassifierParked ==
    /\ truth = (CHOOSE p \in Payloads : TRUE) /\ seen = truth
    /\ hidden = 0 /\ minuteRate = (CHOOSE r \in SolUsd : TRUE)

ReadsParked ==
    /\ date = 3 /\ quote = -1 /\ writes = 0
    /\ recorded = {t \in Trades : t.at < MonthDays} /\ replayed = {} /\ posted = {}
    /\ approved = Roster /\ guild = [k \in Roster |-> NoGuild]
    /\ shows = [w \in Held |-> "private"]
    /\ ranking = Closed /\ detail = Closed /\ board = Closed

ProfileParked ==
    /\ view = FirstView /\ loads = <<>> /\ change = {} /\ mine = NobodyIn
    /\ signedIn = TRUE /\ wants = {}

\* Owners are interchangeable: the first trade may be anyone's.
MCInit ==
    /\ part \in Parts
    /\ Init /\ PricesInit /\ KolModalInit /\ CabalPanelInit /\ AdminInit /\ RegistroInit
    /\ AvatarInit /\ SuiteInit /\ GuardInit /\ ConnectionsInit
    /\ MigrateInit /\ (part # "migrate" => named = [f \in Flags |-> "production"])
    /\ IF part = "feed" THEN FeedInit /\ ownedBy[1] = CHOOSE k \in Owners : TRUE ELSE FeedParked
    /\ IF part = "classifier" THEN ClassifierInit ELSE ClassifierParked
    /\ IF part = "reads" THEN MCReadsInit ELSE ReadsParked
    /\ IF part = "profile" THEN ProfileInit ELSE ProfileParked

figureVars == <<vars, priceVars, feedVars, classifierVars, readsVars>>

MCNext ==
    \/ /\ part = "cost" /\ Next
       /\ UNCHANGED <<part, priceVars, feedVars, classifierVars, readsVars, screenVars, operationVars>>
    \/ /\ part = "prices" /\ PricesNext
       /\ UNCHANGED <<part, vars, feedVars, classifierVars, readsVars, screenVars, operationVars>>
    \/ /\ part = "feed" /\ FeedNext
       /\ UNCHANGED <<part, vars, priceVars, classifierVars, readsVars, screenVars, operationVars>>
    \/ /\ part = "classifier" /\ ClassifierNext
       /\ UNCHANGED <<part, vars, priceVars, feedVars, readsVars, screenVars, operationVars>>
    \/ /\ part = "reads" /\ ReadsNext
       /\ UNCHANGED <<part, vars, priceVars, feedVars, classifierVars, screenVars, operationVars>>
    \/ /\ part = "modal" /\ KolModalNext
       /\ UNCHANGED <<part, figureVars, operationVars, panelVars, adminVars, registroVars, profileVars, avatarVars>>
    \/ /\ part = "panel" /\ CabalPanelNext
       /\ UNCHANGED <<part, figureVars, operationVars, modalVars, adminVars, registroVars, profileVars, avatarVars>>
    \/ /\ part = "admin" /\ AdminNext
       /\ UNCHANGED <<part, figureVars, operationVars, modalVars, panelVars, registroVars, profileVars, avatarVars>>
    \/ /\ part = "registro" /\ RegistroNext
       /\ UNCHANGED <<part, figureVars, operationVars, modalVars, panelVars, adminVars, profileVars, avatarVars>>
    \/ /\ part = "profile" /\ ProfileNext
       /\ UNCHANGED <<part, figureVars, operationVars, modalVars, panelVars, adminVars, registroVars, avatarVars>>
    \/ /\ part = "avatar" /\ AvatarNext
       /\ UNCHANGED <<part, figureVars, operationVars, modalVars, panelVars, adminVars, registroVars, profileVars>>
    \/ /\ part = "suite" /\ SuiteNext
       /\ UNCHANGED <<part, figureVars, screenVars, guardVars, migrateVars, connectionVars>>
    \/ /\ part = "guard" /\ GuardNext
       /\ UNCHANGED <<part, figureVars, screenVars, suiteVars, migrateVars, connectionVars>>
    \/ /\ part = "migrate" /\ MigrateNext
       /\ UNCHANGED <<part, figureVars, screenVars, suiteVars, guardVars, connectionVars>>
    \/ /\ part = "database" /\ ConnectionsNext
       /\ UNCHANGED <<part, figureVars, screenVars, suiteVars, guardVars, migrateVars>>

MCSpec == MCInit /\ [][MCNext]_<<part, figureVars, screenVars, operationVars>>

-----------------------------------------------------------------------------

\* Every variable has its type.
FiguresTypesOK ==
    CASE part = "cost" -> TypeOK
      [] part = "prices" -> PricesTypeOK
      [] part = "feed" -> FeedTypeOK
      [] part = "reads" -> ReadsTypeOK
      [] part = "modal" -> KolModalTypeOK
      [] part = "panel" -> CabalPanelTypeOK
      [] part = "admin" -> AdminTypeOK
      [] part = "registro" -> RegistroTypeOK
      [] part = "profile" -> ProfileTypeOK
      [] part = "avatar" -> AvatarTypeOK
      [] part = "suite" -> SuiteTypeOK
      [] part = "guard" -> GuardTypeOK
      [] part = "migrate" -> MigrateTypeOK
      [] part = "database" -> ConnectionsTypeOK
      [] OTHER -> TRUE
=============================================================================
