------------------------------ MODULE Registro ------------------------------
(***************************************************************************)
(* The dialog of the registration: the list of wallets and the chains of   *)
(* one (WalletStep), the wallets proven so far (RegistroForm and           *)
(* AlmostDone), and the last step, the tweet.  Closing the dialog throws   *)
(* the form away, with what it was waiting for.                            *)
(*                                                                         *)
(* A wallet announces itself by two handshakes, one for Solana and one for *)
(* EVM; a choice is one of its handshakes, with the chain it signs for.    *)
(* What the server does with the proofs is modelled in Accounts: here it   *)
(* accepts them, refuses them before or after it spends their nonces, or   *)
(* its answer is lost.                                                     *)
(***************************************************************************)
EXTENDS Integers, Sequences, FiniteSets
LOCAL INSTANCE Functions

CONSTANTS
    Brands,        \* names of wallets
    Handshakes,    \* of each, the ones the extension answers: "solana", "evm"
    Supports,      \* WALLET_SUPPORT: the chains of each brand it knows
    FixedRows,     \* PRIMARY and SECONDARY
    AddressOf,     \* the address an extension gives, by brand and handshake
    ActiveChains,  \* activeChains(), in order
    MaxProven,     \* bound on the wallets proven
    MaxChecks      \* bound on the checks of the tweet at one time

ASSUME RegistroAssumption ==
    /\ FixedRows \subseteq Brands /\ DOMAIN Handshakes = Brands
    /\ DOMAIN Supports \subseteq Brands /\ MaxProven \in Nat /\ MaxChecks \in Nat
    /\ "solana" \in Range(ActiveChains)

VARIABLES
    installed,     \* external: extensions installed and unlocked
    form,          \* the state of the components, with the dialog's
    doing,         \* their calls that are on their way
    taken,         \* the server: addresses registered
    spent,         \* the server: nonces of the form's proofs that are spent
    verified       \* the server: the tweet was found

registroVars == <<installed, form, doing, taken, spent, verified>>

Answered0 == {AddressOf[p] : p \in DOMAIN AddressOf}
Chains0 == Range(ActiveChains)
NoChoice == "no choice"

BlankForm == [open |-> FALSE, found |-> {}, chosen |-> NoChoice, picking |-> FALSE,
              proven |-> <<>>, public |-> {}, error |-> FALSE, busy |-> FALSE, done |-> FALSE,
              tweet |-> "idle"]

RegistroTypeOK ==
    /\ installed \subseteq Brands
    /\ form.found \subseteq Brands /\ form.chosen \in Brands \cup {NoChoice}
    /\ Len(form.proven) <= MaxProven /\ form.public \subseteq 1 .. Len(form.proven)
    /\ \A i \in DOMAIN form.proven :
           form.proven[i].address \in Answered0 /\ form.proven[i].chain \in Chains0
    /\ form.tweet \in {"idle", "ok", "error"}
    /\ {form.open, form.picking, form.error, form.busy, form.done, verified} \subseteq BOOLEAN
    /\ taken \subseteq Answered0 /\ spent \subseteq Answered0

-----------------------------------------------------------------------------
(* wallet-choice.ts, wallet-support.ts and the rows of wallet-step.tsx.    *)

\* chains.find(isEvm).
FirstEvm == SelectSeq(ActiveChains, LAMBDA c : c # "solana")[1]

\* discoverChoices, grouped by name: the chains a brand can sign for here.
Announced(b) ==
    {"solana" : h \in Handshakes[b] \cap {"solana"}}
    \cup {FirstEvm : h \in {x \in Handshakes[b] : x = "evm" /\ \E c \in Chains0 : c # "solana"}}

\* Wallet Standard answers first.
FirstChoice(b) == IF "solana" \in Announced(b) THEN "solana" ELSE FirstEvm

SupportedChains(b) ==
    IF b \in DOMAIN Supports THEN Chains0 \cap Supports[b] ELSE Announced(b)

\* Mutant: what the table says, whatever was announced.
Promised(b) == SupportedChains(b)

Offerable(b) == SupportedChains(b) \cap Announced(b)

\* choices.find(c => c.chain === chain) ?? choices[0].
ChoiceFor(b, chain) == IF chain \in Announced(b) THEN chain ELSE FirstChoice(b)

-----------------------------------------------------------------------------
(* The form.                                                               *)

\* Mutant: nothing is disabled while a call is on its way.
RowsEnabled(f) == TRUE

\* disabled={busy}.
RowEnabled(f) == ~f.busy

\* connect: the list it looks the address up in is the one it was called with.
ConnectWith(f, b, chain, asked) ==
    /\ form' = [f EXCEPT !.picking = FALSE, !.chosen = IF f.picking THEN NoChoice ELSE @, !.error = FALSE, !.busy = TRUE]
    /\ doing' = doing \cup {[does |-> "connect", brand |-> b, chain |-> chain, asked |-> asked,
                             saw |-> {f.proven[i].address : i \in DOMAIN f.proven}]}
    /\ UNCHANGED <<installed, taken, spent, verified>>

OnForm(f) == form' = f /\ UNCHANGED <<installed, doing, taken, spent, verified>>

InWalletStep == form.open /\ ~form.done /\ (form.proven = <<>> \/ form.picking)

\* The find of WalletStep's effect, on its timers and on focus.
FindWallets == InWalletStep /\ OnForm([form EXCEPT !.found = installed])

\* A row of the fixed list, or one of the others at the end.
PressRow(b) ==
    /\ InWalletStep /\ form.chosen = NoChoice /\ RowEnabled(form)
    /\ b \in FixedRows \cup form.found
    /\ LET shown == IF b \in FixedRows THEN Offerable(b) ELSE SupportedChains(b) IN
       IF b \notin form.found THEN OnForm(form)       \* its page is opened
       ELSE IF Cardinality(shown) > 1 THEN OnForm([form EXCEPT !.chosen = b])
       ELSE \/ shown = {} /\ ConnectWith(form, b, FirstChoice(b), FirstChoice(b))
            \/ \E c \in shown : ConnectWith(form, b, ChoiceFor(b, c), ChoiceFor(b, c))

\* A row of the chains: those that are coming soon are disabled.
PressChain(c) ==
    /\ InWalletStep /\ form.chosen # NoChoice /\ RowEnabled(form)
    /\ c \in Offerable(form.chosen)
    /\ ConnectWith(form, form.chosen, ChoiceFor(form.chosen, c), c)

\* The chevron: to the list, or out of the picker.
GoBack ==
    /\ InWalletStep
    /\ \/ form.chosen # NoChoice /\ OnForm([form EXCEPT !.chosen = NoChoice])
       \/ form.chosen = NoChoice /\ form.picking /\ OnForm([form EXCEPT !.picking = FALSE])

\* openPicker, of "Conectar otra wallet".
AddAnother ==
    /\ form.open /\ ~form.done /\ form.proven # <<>> /\ ~form.picking /\ RowEnabled(form)
    /\ LET choices == {p \in installed \X Chains0 : p[2] \in Announced(p[1])} IN
       \/ choices = {} /\ OnForm([form EXCEPT !.error = TRUE])
       \/ \E p \in choices : choices = {p} /\ ConnectWith(form, p[1], p[2], p[2])
       \/ Cardinality(choices) > 1
          /\ OnForm([form EXCEPT !.error = FALSE, !.picking = TRUE, !.found = {}])

ToggleVisibility(i) ==
    /\ form.open /\ ~form.done /\ ~form.picking /\ i \in DOMAIN form.proven
    /\ OnForm([form EXCEPT !.public = IF i \in @ THEN @ \ {i} ELSE @ \cup {i}])

\* A refusal, a rejected signature, an address that is in the list.
ConnectFails(d) ==
    /\ d \in doing /\ d.does = "connect"
    /\ form' = [form EXCEPT !.error = TRUE, !.busy = FALSE]
    /\ doing' = doing \ {d} /\ UNCHANGED <<installed, taken, spent, verified>>

HandshakeOf(chain) == IF chain = "solana" THEN "solana" ELSE "evm"

\* The address, the nonce, the signature: the wallet joins the list.
ConnectSucceeds(d) ==
    /\ d \in doing /\ d.does = "connect"
    /\ LET address == AddressOf[<<d.brand, HandshakeOf(d.chain)>>] IN
       /\ address \notin d.saw /\ Len(form.proven) < MaxProven
       /\ form' = [form EXCEPT !.busy = FALSE,
                       !.proven = Append(@, [address |-> address, chain |-> d.chain, asked |-> d.asked]),
                       !.chosen = NoChoice]
    /\ doing' = doing \ {d} /\ UNCHANGED <<installed, taken, spent, verified>>

\* submit: every wallet with its proof, and whether it is public.
SubmitForm ==
    /\ form.open /\ ~form.done /\ form.proven # <<>> /\ ~form.picking /\ RowEnabled(form)
    /\ form' = [form EXCEPT !.error = FALSE, !.busy = TRUE]
    /\ doing' = doing \cup {[does |-> "submit", of |-> {form.proven[i].address : i \in DOMAIN form.proven}]}
    /\ UNCHANGED <<installed, taken, spent, verified>>

\* The server: all of it, or nothing but the nonces, or nothing.
Registered(d) ==
    d.of \cap (spent \cup taken) = {} /\ taken' = taken \cup d.of /\ spent' = spent \cup d.of
RefusedLate(d) == d.of \cap spent = {} /\ spent' = spent \cup d.of /\ UNCHANGED taken
RefusedEarly(d) == UNCHANGED <<taken, spent>>

SubmitEnds(d) ==
    /\ d \in doing /\ d.does = "submit"
    /\ \/ Registered(d) /\ form' = [form EXCEPT !.done = TRUE, !.busy = FALSE]
       \/ RefusedEarly(d) /\ form' = [form EXCEPT !.error = TRUE, !.busy = FALSE]
       \/ RefusedLate(d) /\ form' = [form EXCEPT !.error = TRUE, !.busy = FALSE]
       \* The answer is lost: there is no catch, only the finally.
       \/ (Registered(d) \/ RefusedLate(d) \/ RefusedEarly(d)) /\ form' = [form EXCEPT !.busy = FALSE]
    /\ doing' = doing \ {d} /\ UNCHANGED <<installed, verified>>

\* check: its button is not disabled while one is on its way.
CheckTweet ==
    /\ form.open /\ form.done
    /\ \E n \in 1 .. MaxChecks : doing' = doing \cup {[does |-> "check", n |-> n]}
    /\ UNCHANGED <<installed, form, taken, spent, verified>>

CheckEnds(d) ==
    /\ d \in doing /\ d.does = "check"
    /\ \/ verified' = TRUE /\ form' = [form EXCEPT !.tweet = "ok"]
       \/ UNCHANGED verified /\ form' = [form EXCEPT !.tweet = "error"]
       \/ verified' \in {verified, TRUE} /\ UNCHANGED form       \* the answer is lost
    /\ doing' = doing \ {d} /\ UNCHANGED <<installed, taken, spent>>

OpenDialog == ~form.open /\ OnForm([BlankForm EXCEPT !.open = TRUE])

\* The form is unmounted: what it sent may still be done, and nobody hears of it.
CloseDialog ==
    /\ form.open /\ form' = BlankForm
    /\ \/ UNCHANGED taken
       \/ \E d \in doing : d.does = "submit" /\ d.of \cap (spent \cup taken) = {} /\ taken' = taken \cup d.of
    /\ doing' = {} /\ spent' = {} /\ verified' = FALSE
    /\ UNCHANGED installed

\* External.
InstallExtension ==
    /\ \E b \in Brands \ installed : installed' = installed \cup {b}
    /\ UNCHANGED <<form, doing, taken, spent, verified>>

-----------------------------------------------------------------------------

RegistroInit ==
    /\ installed = {} /\ form = BlankForm /\ doing = {}
    /\ taken = {} /\ spent = {} /\ verified = FALSE

RegistroNext ==
    \/ OpenDialog \/ CloseDialog \/ InstallExtension \/ FindWallets \/ GoBack \/ AddAnother
    \/ \E b \in Brands : PressRow(b)
    \/ \E c \in Chains0 : PressChain(c)
    \/ \E i \in 1 .. MaxProven : ToggleVisibility(i)
    \/ SubmitForm \/ CheckTweet
    \/ \E d \in doing : ConnectFails(d) \/ ConnectSucceeds(d) \/ SubmitEnds(d) \/ CheckEnds(d)

RegistroSpec == RegistroInit /\ [][RegistroNext]_registroVars

-----------------------------------------------------------------------------

\* The list has no address twice, although it is looked up in the list of the moment the
\* wallet was chosen; the wallet signed for the chain whose row was pressed; the form says
\* that it is done only when the server registered every wallet of the list, and that the
\* tweet is verified only when it is.
RegistroIsSound ==
    /\ \A i, j \in DOMAIN form.proven : i # j => form.proven[i].address # form.proven[j].address
    /\ \A i \in DOMAIN form.proven : form.proven[i].chain = form.proven[i].asked
    /\ form.done => \A i \in DOMAIN form.proven : form.proven[i].address \in taken
    /\ form.tweet = "ok" => verified
=============================================================================
