---------------------------- MODULE Screens ----------------------------
(***************************************************************************)
(* The pages, and the pictures on them, side by side: each is a component  *)
(* of its own and they share no variable, so that a step of one leaves the *)
(* others where they are.                                                  *)
(***************************************************************************)
EXTENDS Registro, KolModal, CabalPanel, AdminScreen, ProfilePage, Avatar

screenVars == <<modalVars, panelVars, adminVars, registroVars, profileVars, avatarVars>>

ScreensSpec ==
    /\ KolModalSpec
    /\ CabalPanelSpec
    /\ AdminSpec
    /\ RegistroSpec
    /\ ProfileSpec
    /\ AvatarSpec

-----------------------------------------------------------------------------

\* What the pages show is what was asked of them, whatever is pressed while an answer is
\* on its way: the modal shows the KOL, period and month that are open, the panel one
\* verdict, the administrator a roster with its own approvals, the form distinct wallets
\* with the signatures they were asked for, no wallet is published unasked, and an avatar
\* is no older than its kind allows.
ScreensShowWhatIsAsked ==
    /\ ModalShowsWhatIsAsked
    /\ PanelHasOneVerdict
    /\ AdminRosterIsItsOwn
    /\ RegistroIsSound
    /\ PublicIsWanted
    /\ AvatarIsOfNow
=============================================================================
