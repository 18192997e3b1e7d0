---------------------------- MODULE ProfilePage ----------------------------
(***************************************************************************)
(* The profile of a signed-in KOL: the chip, which loads the profile, and  *)
(* the modal, which changes it and has the chip load it again without      *)
(* waiting for it.  Loads are answered with what the server has at some    *)
(* moment and delivered in any order, so that the screen may be behind the *)
(* server; changes say what they want, never "the opposite".  When the     *)
(* answer of a change is lost, the modal lets its owner press again while  *)
(* the server may still come to that change.                               *)
(*                                                                         *)
(* How a wallet is proven and pasted is modelled in Accounts.              *)
(***************************************************************************)
CONSTANTS
    OwnWallets,    \* the wallets the KOL has or may paste
    LoadIds,       \* bound: loads on their way at one time
    ChangeIds      \* bound: changes on their way at one time

ASSUME ProfileAssumption == LoadIds # {}

VARIABLES
    view,          \* the state of the chip and of its modal, its messages left out
    loads,         \* the loads on their way: by id, what the server answered
    change,        \* the changes on their way
    mine,          \* the server: the wallets, those public and those proven
    signedIn,      \* the server: the session is open
    wants          \* history: wallets asked to be shown and not hidden since

profileVars == <<view, loads, change, mine, signedIn, wants>>

Owned == [wallets : SUBSET OwnWallets, public : SUBSET OwnWallets, proven : SUBSET OwnWallets]
NobodyIn == [wallets |-> {}, public |-> {}, proven |-> {}]

\* Before the first load.
FirstView == [profile |-> FALSE, shown |-> NobodyIn, opened |-> FALSE, busy |-> FALSE,
              working |-> {}]

\* A load before and after the server answered it.
Asked0 == [at |-> "sent", ok |-> FALSE, profile |-> NobodyIn]

ProfileTypeOK ==
    /\ view \in [profile : BOOLEAN, shown : Owned, opened : BOOLEAN, busy : BOOLEAN,
                 working : SUBSET OwnWallets]
    /\ DOMAIN loads \subseteq LoadIds
    /\ \A i \in DOMAIN loads : loads[i] \in [at : {"sent", "answered"}, ok : BOOLEAN, profile : Owned]
    /\ change \subseteq [does : {"eye", "all", "paste", "prove", "pnl"}, to : BOOLEAN,
                      of : SUBSET OwnWallets, live : BOOLEAN, heard : BOOLEAN, id : ChangeIds]
    /\ mine \in Owned /\ signedIn \in BOOLEAN /\ wants \subseteq OwnWallets

-----------------------------------------------------------------------------
(* The routes under /api/perfil: each asks for the session first.          *)

\* Mutant: the eye turns what the server has.
TurnVisibility(m, c) ==
    [m EXCEPT !.public = (@ \cup (c.of \cap m.wallets)) \ (@ \cap c.of)]

\* PATCH {walletId, isPublic}.
SetVisible(m, c) ==
    [m EXCEPT !.public = IF c.to THEN @ \cup (c.of \cap m.wallets) ELSE @ \ c.of]

\* What a change does to the rows.
Applied(m, c) ==
    CASE c.does = "eye" -> SetVisible(m, c)
      [] c.does = "all" -> [m EXCEPT !.public = {}]
      [] c.does = "paste" -> [m EXCEPT !.wallets = @ \cup c.of]
      [] c.does = "prove" -> [m EXCEPT !.proven = @ \cup (c.of \cap m.wallets)]
      [] OTHER -> m

\* The wallets that a change shows, and those that it hides.
Shown(c) == IF c.does = "eye" /\ c.to THEN c.of ELSE {}
Hidden(c) == CASE c.does = "all" -> OwnWallets [] c.does = "eye" /\ ~c.to -> c.of [] OTHER -> {}

\* What is on its way to be shown while c is carried out, but for what the modal that
\* waits for c waits for too.
StillAsked(c) == UNION {Shown(d) : d \in {e \in change : ~(e.live /\ c.live)}}

ServerApplies(c) ==
    /\ signedIn
    /\ mine' = Applied(mine, c)
    /\ wants' = wants \ (Hidden(c) \ StillAsked(c))

ServerRefuses == UNCHANGED <<mine, wants>>

-----------------------------------------------------------------------------
(* The chip.                                                               *)

\* load: a fetch that nothing orders after the one before it.
SendLoad(i) == loads' = [j \in DOMAIN loads \cup {i} |-> IF j = i THEN Asked0 ELSE loads[j]]
FreeLoads == LoadIds \ DOMAIN loads
FirstLoad == CHOOSE i \in LoadIds : TRUE

AnswerLoad(i) ==
    /\ i \in DOMAIN loads /\ loads[i].at = "sent"
    /\ loads' = [loads EXCEPT ![i] = [at |-> "answered", ok |-> signedIn,
                                      profile |-> IF signedIn THEN mine ELSE NobodyIn]]
    /\ UNCHANGED <<view, change, mine, signedIn, wants>>

Forget(i) == loads' = [j \in DOMAIN loads \ {i} |-> loads[j]]

\* The modal goes: what it was waiting for is done, or not, without it.
Unmount == change' = {[c EXCEPT !.live = FALSE] : c \in change}

\* No session or no network: the chip goes back to Connect Wallet, and the modal with it.
SignedOutView == [FirstView EXCEPT !.opened = view.opened]

DeliverLoad(i) ==
    /\ i \in DOMAIN loads /\ Forget(i)
    /\ \/ /\ loads[i].at = "answered" /\ loads[i].ok
          /\ view' = [view EXCEPT !.profile = TRUE, !.shown = loads[i].profile]
          /\ UNCHANGED change
       \/ /\ ~loads[i].ok \/ loads[i].at = "sent"
          /\ view' = SignedOutView /\ Unmount
    /\ UNCHANGED <<mine, signedIn, wants>>

OpenProfile ==
    /\ view.profile /\ ~view.opened /\ view' = [view EXCEPT !.opened = TRUE]
    /\ UNCHANGED <<loads, change, mine, signedIn, wants>>

\* The modal is unmounted: the next one knows nothing of what is on its way.
CloseProfile ==
    /\ view.profile /\ view.opened
    /\ view' = [view EXCEPT !.opened = FALSE, !.busy = FALSE, !.working = {}]
    /\ Unmount
    /\ UNCHANGED <<loads, mine, signedIn, wants>>

\* leave: the session is closed and the page reloaded.
LeaveSession ==
    /\ view.profile /\ signedIn' = FALSE
    /\ view' = FirstView /\ change' = {} /\ UNCHANGED mine
    /\ loads' = [j \in {FirstLoad} |-> Asked0]
    /\ UNCHANGED wants

-----------------------------------------------------------------------------
(* The modal.                                                              *)

\* Mutant: the buttons are not disabled.
NeverDisabled(v) == TRUE

\* disabled={busy}.
Pressable(v) == ~v.busy

InModal == view.profile /\ view.opened

FreeChanges == ChangeIds \ {c.id : c \in change}

\* What is sent, by a modal that waits for the answer.
Sent(does, to, of) ==
    [does |-> does, to |-> to, of |-> of, live |-> TRUE, heard |-> TRUE,
     id |-> CHOOSE i \in FreeChanges : TRUE]

Call(c) ==
    /\ FreeChanges # {} /\ change' = change \cup {c}
    /\ view' = [view EXCEPT !.busy = TRUE]
    /\ wants' = wants \cup Shown(c)
    /\ UNCHANGED <<loads, mine, signedIn>>

\* onToggle: the opposite of what is shown.
PressEye(w) ==
    /\ InModal /\ Pressable(view) /\ w \in view.shown.wallets
    /\ Call(Sent("eye", w \notin view.shown.public, {w}))

PressHideAll ==
    /\ InModal /\ Pressable(view) /\ view.shown.wallets # {}
    /\ Call(Sent("all", FALSE, {}))

\* From the form, whose opening and checks are left out.
PressPaste(w) == InModal /\ Pressable(view) /\ Call(Sent("paste", FALSE, {w}))

PressPnl == InModal /\ Pressable(view) /\ Call(Sent("pnl", FALSE, {}))

\* validate: a state of the row's own, which the modal's buttons do not look at.
PressValidate(w) ==
    /\ InModal /\ Pressable(view) /\ FreeChanges # {}
    /\ w \in view.shown.wallets \ (view.shown.proven \cup view.working)
    /\ change' = change \cup {Sent("prove", FALSE, {w})}
    /\ view' = [view EXCEPT !.working = @ \cup {w}]
    /\ UNCHANGED <<loads, mine, signedIn, wants>>

\* The finally of call and of validate; the modal that asked may be gone.
Finished(c) ==
    IF ~c.live THEN view
    ELSE IF c.does = "prove" THEN [view EXCEPT !.working = @ \ c.of] ELSE [view EXCEPT !.busy = FALSE]

\* It succeeds, and the profile is loaded again: nobody waits for that.
ChangeSucceeds(c) ==
    /\ c \in change /\ c.heard /\ ServerApplies(c)
    /\ view' = Finished(c)
    /\ FreeLoads # {} /\ SendLoad(CHOOSE i \in FreeLoads : TRUE)
    /\ change' = change \ {c} /\ UNCHANGED signedIn

\* Refused: the profile is not loaded again.
ChangeFails(c) ==
    /\ c \in change /\ c.heard /\ ServerRefuses
    /\ view' = Finished(c)
    /\ change' = change \ {c} /\ UNCHANGED <<loads, signedIn>>

\* The fetch is rejected, or a gateway answers with an error: the buttons come back and
\* nothing is loaded again; the server has carried the change out, or comes to it later,
\* or never does.
LoseTrack(c) ==
    /\ c \in change /\ c.heard /\ view' = Finished(c)
    /\ \/ ServerApplies(c) /\ change' = change \ {c}
       \/ ServerRefuses /\ change' = (change \ {c}) \cup {[c EXCEPT !.live = FALSE, !.heard = FALSE]}
    /\ UNCHANGED <<loads, signedIn>>

LandsLate(c) ==
    /\ c \in change /\ ~c.heard /\ (ServerApplies(c) \/ ServerRefuses)
    /\ change' = change \ {c} /\ UNCHANGED <<view, loads, signedIn>>

-----------------------------------------------------------------------------

ProfileInit ==
    /\ view = FirstView
    /\ loads = [j \in {FirstLoad} |-> Asked0]
    /\ change = {} /\ signedIn = TRUE /\ wants = {}
    /\ \E w \in SUBSET OwnWallets : mine = [NobodyIn EXCEPT !.wallets = w, !.proven = w]

ProfileNext ==
    \/ \E i \in LoadIds : AnswerLoad(i) \/ DeliverLoad(i)
    \/ OpenProfile \/ CloseProfile \/ LeaveSession \/ PressHideAll \/ PressPnl
    \/ \E w \in OwnWallets : PressEye(w) \/ PressPaste(w) \/ PressValidate(w)
    \/ \E c \in change : ChangeSucceeds(c) \/ ChangeFails(c) \/ LoseTrack(c) \/ LandsLate(c)

ProfileSpec == ProfileInit /\ [][ProfileNext]_profileVars

-----------------------------------------------------------------------------

\* However far the screen is behind the server, a wallet is public only if its owner asked
\* for it to be shown and has not had it hidden since.  A hide reaches every wallet but those
\* whose showing is still on its way without the modal that asked (its answer was lost, or
\* it was closed): the server may come to that one after the hide.
PublicIsWanted == mine.public \subseteq wants
=============================================================================
