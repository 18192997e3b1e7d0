----------------------------- MODULE CabalPanel -----------------------------
(***************************************************************************)
(* The page of the signed actions, /mi-cabal: connect a wallet, choose an  *)
(* action, and for each one ask for a nonce, sign, and send.  While a call *)
(* is on its way the buttons are disabled; the choice of the action, the   *)
(* field and Cancelar are not.                                             *)
(*                                                                         *)
(* A call is where its await stands.  What the server does with it is      *)
(* modelled in Accounts and Cabal: here it is accepted or refused.         *)
(***************************************************************************)
EXTENDS Integers, FiniteSets

CONSTANTS
    Extensions,    \* wallets the browser may announce, each with one address
    NoExtension,
    SignedActions, \* CABAL_ACTIONS: the actions that answer with a sentence
    ReadActions    \* READS: those that answer with data

WithdrawWallet == "retirar wallet"
FirstAction == "crear cabal"

ASSUME CabalPanelAssumption ==
    /\ NoExtension \notin Extensions
    /\ SignedActions \cap ReadActions = {} /\ FirstAction \in SignedActions
    /\ {WithdrawWallet, "nothing"} \cap (SignedActions \cup ReadActions) = {}

VARIABLES
    panel,         \* the state of the component
    calls          \* its calls that are on their way

panelVars == <<panel, calls>>

PanelActions == SignedActions \cup ReadActions

Nothing == "nothing"
Answers == PanelActions \cup {WithdrawWallet, Nothing}

CabalPanelTypeOK ==
    /\ panel \in [choices : SUBSET Extensions, connected : Extensions \cup {NoExtension},
                  action : PanelActions, subject : BOOLEAN, busy : BOOLEAN, error : BOOLEAN,
                  done : Answers, read : Answers, withdrawing : BOOLEAN]
    /\ calls \subseteq [does : Answers, wallet : Extensions, at : {"connect", "nonce", "sign", "send"}]

-----------------------------------------------------------------------------

\* fail.
Fail(p) == [p EXCEPT !.done = Nothing, !.read = Nothing, !.error = TRUE]

Cleared(p) == [p EXCEPT !.error = FALSE, !.done = Nothing, !.read = Nothing]

\* Mutant: the buttons are not disabled.
AlwaysEnabled(p) == TRUE

\* disabled={busy}.
ButtonsEnabled(p) == ~p.busy

\* setBusy(true), and the first await.
Begin(p, c) ==
    /\ panel' = [p EXCEPT !.busy = TRUE]
    /\ calls' = calls \cup {c}

\* connect.
ConnectExtension(w) ==
    Begin([panel EXCEPT !.choices = {}, !.error = FALSE], [does |-> Nothing, wallet |-> w, at |-> "connect"])

\* openPicker: what is installed now; one wallet connects straight through.
OpenChooser ==
    /\ panel.connected = NoExtension /\ ButtonsEnabled(panel)
    /\ \E found \in SUBSET Extensions :
        \/ found = {} /\ panel' = Fail(panel) /\ UNCHANGED calls
        \/ Cardinality(found) = 1 /\ \E w \in found : ConnectExtension(w)
        \/ /\ Cardinality(found) > 1
           /\ panel' = [panel EXCEPT !.error = FALSE, !.choices = found]
           /\ UNCHANGED calls

PickExtension == \E w \in panel.choices : ConnectExtension(w)

CancelChooser ==
    /\ panel.choices # {}
    /\ panel' = [panel EXCEPT !.choices = {}] /\ UNCHANGED calls

\* The radio: not disabled while a call is on its way.
ChooseAction(a) ==
    /\ panel.connected # NoExtension /\ a # panel.action
    /\ panel' = [Cleared(panel) EXCEPT !.action = a, !.subject = FALSE]
    /\ UNCHANGED calls

TypeSubject ==
    /\ panel.connected # NoExtension
    /\ \E typed \in BOOLEAN : panel' = [panel EXCEPT !.subject = typed]
    /\ UNCHANGED calls

ShowWarning ==
    /\ panel.connected # NoExtension /\ ~panel.withdrawing /\ ButtonsEnabled(panel)
    /\ panel' = [panel EXCEPT !.withdrawing = TRUE] /\ UNCHANGED calls

HideWarning ==
    /\ panel.connected # NoExtension /\ panel.withdrawing
    /\ panel' = [panel EXCEPT !.withdrawing = FALSE] /\ UNCHANGED calls

\* submit, of the action that is chosen now.
SubmitAction ==
    /\ panel.connected # NoExtension /\ ButtonsEnabled(panel) /\ panel.subject
    /\ Begin(Cleared(panel), [does |-> panel.action, wallet |-> panel.connected, at |-> "nonce"])

\* withdraw.
SubmitWithdrawal ==
    /\ panel.connected # NoExtension /\ ButtonsEnabled(panel) /\ panel.withdrawing
    /\ Begin(Cleared(panel), [does |-> WithdrawWallet, wallet |-> panel.connected, at |-> "nonce"])

Onwards(c) ==
    \/ c.at = "nonce" /\ calls' = (calls \ {c}) \cup {[c EXCEPT !.at = "sign"]}
    \/ c.at = "sign" /\ calls' = (calls \ {c}) \cup {[c EXCEPT !.at = "send"]}

\* The nonce was issued, or the wallet signed.
CallGoesOn(c) == c \in calls /\ Onwards(c) /\ UNCHANGED panel

\* What the last await leaves on the screen.
Settled(p, c) ==
    CASE c.does = WithdrawWallet ->
            [p EXCEPT !.withdrawing = FALSE, !.connected = NoExtension, !.done = WithdrawWallet]
      [] c.does \in ReadActions -> [p EXCEPT !.read = c.does]
      [] c.does \in SignedActions -> [p EXCEPT !.done = c.does, !.subject = FALSE]
      [] OTHER -> [p EXCEPT !.connected = c.wallet]

CallSucceeds(c) ==
    /\ c \in calls /\ c.at \in {"connect", "send"}
    /\ panel' = [Settled(panel, c) EXCEPT !.busy = FALSE]
    /\ calls' = calls \ {c}

\* A refusal, a rejected signature, no network: at any await.
CallFails(c) ==
    /\ c \in calls
    /\ panel' = [Fail(panel) EXCEPT !.busy = FALSE]
    /\ calls' = calls \ {c}

-----------------------------------------------------------------------------

CabalPanelInit ==
    /\ panel = [choices |-> {}, connected |-> NoExtension, action |-> FirstAction,
                subject |-> FALSE, busy |-> FALSE, error |-> FALSE, done |-> Nothing,
                read |-> Nothing, withdrawing |-> FALSE]
    /\ calls = {}

CabalPanelNext ==
    \/ OpenChooser \/ PickExtension \/ CancelChooser
    \/ \E a \in PanelActions : ChooseAction(a)
    \/ TypeSubject \/ ShowWarning \/ HideWarning \/ SubmitAction \/ SubmitWithdrawal
    \/ \E c \in calls : CallGoesOn(c) \/ CallSucceeds(c) \/ CallFails(c)

CabalPanelSpec == CabalPanelInit /\ [][CabalPanelNext]_panelVars

-----------------------------------------------------------------------------

Verdicts == {v \in {"error", "done", "read"} :
                 \/ v = "error" /\ panel.error
                 \/ v = "done" /\ panel.done # Nothing
                 \/ v = "read" /\ panel.read # Nothing}

\* The panel never shows two verdicts at once, whatever is pressed while a call is on its
\* way; at most one call is, and what is signed and sent is in the name of the wallet that
\* the panel shows as connected, to the end of the call.
PanelHasOneVerdict ==
    /\ Cardinality(Verdicts) <= 1
    /\ Cardinality(calls) <= 1 /\ panel.busy = (calls # {})
    /\ \A c \in calls : c.at # "connect" => c.wallet = panel.connected
=============================================================================
