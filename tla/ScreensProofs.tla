---------------------------- MODULE ScreensProofs ----------------------------
(***************************************************************************)
(* Proofs about what stands around the server: the pages, and the scripts  *)
(* and the pool of connections.                                            *)
(*                                                                         *)
(* Of a page, the invariant that makes what it shows what was asked of it. *)
(* Its inductive invariant (KolOK, PanelOK, AdminOK, RegistroOK,           *)
(* ProfileOK, AvatarOK) says what a call that is on its way relies on.     *)
(* Those of the scripts and the pool are SuiteOK, GuardOK, MigratedOK and  *)
(* PoolIsOK.  Each is stated of the state as parameters, so that a step is *)
(* the same statement of other values, and has one lemma for each action.  *)
(***************************************************************************)
EXTENDS WellFoundedInduction, Screens, Operations, FiniteSetTheorems, TLAPS

\* A set of at most one member.
LEMMA AtMostOne ==
    ASSUME NEW S, \A x, y \in S : x = y
    PROVE  IsFiniteSet(S) /\ Cardinality(S) <= 1
<1>1. CASE S = {}
  BY <1>1, FS_EmptySet
<1>2. CASE S # {}
  <2>1. PICK x : x \in S
    BY <1>2
  <2>2. S = {x}
    BY <2>1
  <2>3. IsFiniteSet({x}) /\ Cardinality({x}) = 1
    BY FS_Singleton
  <2> QED
    BY <2>2, <2>3
<1> QED
  BY <1>1, <1>2

-----------------------------------------------------------------------------
(* KolModal.                                                               *)

KolDetail == [slug : Slugs \cup {NoSlug}, window : Periods, month : PagedMonths]
KolFetch == [slug : Slugs, period : Periods, month : PagedMonths, attempt : 0 .. MaxAttempts]
KolState ==
    [slug : Slugs \cup {NoSlug}, period : Periods, month : PagedMonths,
     attempt : 0 .. MaxAttempts, failure : {"none", "transient", "gone"}, detail : KolDetail]

\* What the modal m may hold while the fetches F are on their way and the server has
\* said 404 of the KOLs in T.
ModalOK(m, F, T) ==
    /\ m \in KolState
    /\ \A f \in F : f = Deps(m) /\ f.slug \in Slugs
    /\ m.slug = NoSlug => m.detail = NoDetail /\ m.failure = "none"
    /\ m.detail # NoDetail => m.detail.slug = m.slug /\ m.detail.window = m.period
    /\ F = {} /\ m.failure = "none" /\ m.detail # NoDetail /\ m.month # NoMonth =>
           m.detail.month = m.month
    /\ m.failure = "gone" => m.slug \in T

KolOK ==
    /\ ModalOK(modal, flying, told)
    /\ gone \subseteq told /\ told \subseteq Slugs /\ padron \subseteq Slugs

LEMMA KolWords ==
    /\ NoSlug \notin Slugs /\ NoMonth \in PagedMonths /\ 0 \in PagedMonths /\ 0 # NoMonth
    /\ NoDetail \in KolDetail /\ NoDetail.slug = NoSlug
  BY KolModalAssumption DEF PagedMonths, NoDetail, KolDetail

LEMMA KolInitOK == KolModalInit => KolOK
<1> SUFFICES ASSUME KolModalInit PROVE KolOK
  OBVIOUS
<1>1. modal \in KolState
  BY KolWords, KolModalAssumption DEF KolModalInit, KolState
<1> QED
  BY <1>1 DEF KolModalInit, KolOK, ModalOK

LEMMA BecomeOK ==
    ASSUME KolOK, NEW m \in KolState, Become(m), UNCHANGED <<padron, told>>, gone' \subseteq told,
           m.slug = NoSlug => m.detail = NoDetail /\ m.failure = "none",
           m.detail # NoDetail => m.detail.slug = m.slug /\ m.detail.window = m.period,
           m.failure = "gone" => m.slug \in told,
           m.detail = NoDetail \/ Deps(m) # Deps(modal) \/ m = modal
    PROVE  KolOK'
<1>1. PICK F : F = Refetch(m)
  OBVIOUS
<1>2. modal' = m /\ flying' = F
  BY <1>1 DEF Become
<1>3. m.slug = Deps(m).slug /\ m.slug \in Slugs \cup {NoSlug}
  BY DEF Deps, KolState
<1>4. \A f \in F : f = Deps(m) /\ f.slug \in Slugs
  BY <1>1, <1>3 DEF Refetch, KolOK, ModalOK
<1>5. F = {} /\ m.failure = "none" /\ m.detail # NoDetail /\ m.month # NoMonth =>
          m.detail.month = m.month
  BY <1>1 DEF Refetch, KolOK, ModalOK
<1>6. ModalOK(m, F, told)
  BY <1>4, <1>5 DEF ModalOK
<1> QED
  BY <1>2, <1>6 DEF KolOK

LEMMA OpenKolOK == ASSUME KolOK, NEW k \in Slugs, OpenKol(k) PROVE KolOK'
<1>1. PICK m : m = [modal EXCEPT !.slug = k, !.period = PagePeriod, !.month = NoMonth,
                                 !.detail = NoDetail, !.failure = "none"]
  OBVIOUS
<1>2. m \in KolState /\ m.slug = k /\ m.detail = NoDetail /\ m.failure = "none"
  BY <1>1, KolWords, KolModalAssumption DEF KolOK, ModalOK, KolState
<1>3. Become(m) /\ UNCHANGED <<padron, told>> /\ gone' \subseteq told
  BY <1>1 DEF OpenKol, KolOK
<1> QED
  BY <1>2, <1>3, KolWords, BecomeOK

LEMMA ChangePeriodOK == ASSUME KolOK, NEW p \in Periods, ChangePeriod(p) PROVE KolOK'
<1>1. PICK m : m = [modal EXCEPT !.period = p, !.detail = NoDetail, !.failure = "none"]
  OBVIOUS
<1>2. m \in KolState /\ m.detail = NoDetail /\ m.failure = "none"
  BY <1>1, KolWords DEF KolOK, ModalOK, KolState
<1>3. Become(m) /\ UNCHANGED <<padron, told>> /\ gone' \subseteq told
  BY <1>1 DEF ChangePeriod, KolOK
<1> QED
  BY <1>2, <1>3, BecomeOK

LEMMA ChangeMonthOK == ASSUME KolOK, NEW delta \in {-1, 1}, ChangeMonth(delta) PROVE KolOK'
<1>1. PICK x : x = modal.detail.month + delta
  OBVIOUS
<1>2. PICK m : m = [modal EXCEPT !.month = x]
  OBVIOUS
<1>3. x \in PagedMonths /\ modal.detail # NoDetail /\ modal \in KolState
  BY <1>1 DEF ChangeMonth, KolOK, ModalOK
<1>4. /\ m \in KolState /\ m.month = x /\ m.slug = modal.slug /\ m.detail = modal.detail
      /\ m.period = modal.period /\ m.failure = modal.failure
  BY <1>2, <1>3 DEF KolState
<1>5. Become(m) /\ UNCHANGED <<padron, told>> /\ gone' \subseteq told
  BY <1>1, <1>2 DEF ChangeMonth, KolOK
<1>6. Deps(m) # Deps(modal) \/ m = modal
  <2>1. CASE x = modal.month
    BY <2>1, <1>2, <1>3 DEF KolState
  <2>2. CASE x # modal.month
    BY <2>2, <1>4 DEF Deps
  <2> QED
    BY <2>1, <2>2
<1> QED
  BY <1>3, <1>4, <1>5, <1>6, BecomeOK DEF KolOK, ModalOK

LEMMA RetryFetchOK == ASSUME KolOK, RetryFetch PROVE KolOK'
<1>0. modal \in KolState /\ modal.attempt \in 0 .. MaxAttempts /\ modal.attempt < MaxAttempts
      /\ modal.slug # NoSlug
  BY DEF RetryFetch, KolOK, ModalOK, KolState
<1>1. PICK n : n = modal.attempt + 1
  OBVIOUS
<1>2. n \in 0 .. MaxAttempts /\ n # modal.attempt
  BY <1>0, <1>1, KolModalAssumption
<1>3. PICK m : m = [modal EXCEPT !.failure = "none", !.attempt = n]
  OBVIOUS
<1>4. /\ m \in KolState /\ m.attempt = n /\ m.slug = modal.slug /\ m.detail = modal.detail
      /\ m.period = modal.period /\ m.failure = "none"
  BY <1>0, <1>2, <1>3 DEF KolState
<1>5. Become(m) /\ UNCHANGED <<padron, told>> /\ gone' \subseteq told
  BY <1>1, <1>3 DEF RetryFetch, KolOK
<1>6. Deps(m) # Deps(modal)
  BY <1>2, <1>4 DEF Deps
<1> QED
  BY <1>0, <1>4, <1>5, <1>6, BecomeOK DEF KolOK, ModalOK

LEMMA CloseModalOK == ASSUME KolOK, CloseModal PROVE KolOK'
<1>1. PICK m : m = [modal EXCEPT !.slug = NoSlug, !.detail = NoDetail, !.failure = "none"]
  OBVIOUS
<1>2. m \in KolState /\ m.slug = NoSlug /\ m.detail = NoDetail /\ m.failure = "none"
  BY <1>1, KolWords DEF KolOK, ModalOK, KolState
<1>3. Become(m) /\ UNCHANGED <<padron, told>>
  BY <1>1 DEF CloseModal
<1>4. gone' \subseteq told
  BY DEF CloseModal, KolOK, ModalOK
<1> QED
  BY <1>2, <1>3, <1>4, BecomeOK

LEMMA FetchEndsOK == ASSUME KolOK, NEW f \in flying, FetchEnds(f) PROVE KolOK'
<1>0. /\ modal \in KolState /\ f = Deps(modal) /\ f.slug \in Slugs /\ flying' = {}
      /\ gone' = gone /\ padron' = padron
  BY DEF FetchEnds, KolOK, ModalOK
<1>1. f.slug = modal.slug /\ f.period = modal.period /\ f.month = modal.month
  BY <1>0 DEF Deps
<1>2. CASE FetchedOk(f)
  <2>1. PICK x : x = IF f.month = NoMonth THEN 0 ELSE f.month
    OBVIOUS
  <2>2. PICK d : d = [slug |-> f.slug, window |-> f.period, month |-> x]
    OBVIOUS
  <2>3. /\ d \in KolDetail /\ d.slug = modal.slug /\ d.window = modal.period
        /\ modal.month # NoMonth => d.month = modal.month
    BY <1>0, <1>1, <2>1, <2>2, KolWords DEF KolDetail, KolState
  <2>4. PICK m : m = [modal EXCEPT !.detail = d]
    OBVIOUS
  <2>5. /\ m \in KolState /\ m.detail = d /\ m.slug = modal.slug /\ m.period = modal.period
        /\ m.month = modal.month /\ m.failure = modal.failure
    BY <1>0, <2>3, <2>4 DEF KolState
  <2>6. ModalOK(m, {}, told)
    BY <1>0, <1>1, <2>3, <2>5, KolWords DEF ModalOK, KolOK
  <2>7. modal' = m /\ told' = told
    BY <1>2, <2>1, <2>2, <2>4 DEF FetchedOk
  <2> QED
    BY <1>0, <2>6, <2>7 DEF KolOK
<1>3. CASE FetchedMissing(f)
  <2>1. PICK m : m = [modal EXCEPT !.failure = "gone"]
    OBVIOUS
  <2>2. /\ m \in KolState /\ m.failure = "gone" /\ m.slug = modal.slug /\ m.period = modal.period
        /\ m.detail = modal.detail
    BY <1>0, <2>1 DEF KolState
  <2>3. ModalOK(m, {}, told \cup {f.slug})
    BY <1>0, <1>1, <2>2, KolWords DEF ModalOK, KolOK
  <2>4. modal' = m /\ told' = told \cup {f.slug}
    BY <1>3, <2>1 DEF FetchedMissing
  <2> QED
    BY <1>0, <2>3, <2>4 DEF KolOK
<1>4. CASE FetchFails
  <2>1. PICK m : m = [modal EXCEPT !.failure = "transient"]
    OBVIOUS
  <2>2. /\ m \in KolState /\ m.failure = "transient" /\ m.slug = modal.slug /\ m.period = modal.period
        /\ m.detail = modal.detail
    BY <1>0, <2>1 DEF KolState
  <2>3. ModalOK(m, {}, told)
    BY <1>0, <1>1, <2>2, KolWords DEF ModalOK, KolOK
  <2>4. modal' = m /\ told' = told
    BY <1>4, <2>1 DEF FetchFails
  <2> QED
    BY <1>0, <2>3, <2>4 DEF KolOK
<1> QED
  BY <1>2, <1>3, <1>4 DEF FetchEnds

LEMMA KolStepOK == KolOK /\ [KolModalNext]_modalVars => KolOK'
<1> SUFFICES ASSUME KolOK, [KolModalNext]_modalVars PROVE KolOK'
  OBVIOUS
<1>1. CASE UNCHANGED modalVars
  BY <1>1 DEF modalVars, KolOK
<1>2. ASSUME NEW k \in Slugs, RosterChanges(k) PROVE KolOK'
  BY <1>2 DEF RosterChanges, KolOK
<1> QED
  BY <1>1, <1>2, OpenKolOK, ChangePeriodOK, ChangeMonthOK, RetryFetchOK, CloseModalOK, FetchEndsOK
     DEF KolModalNext

LEMMA KolImplies == KolOK => KolModalTypeOK /\ ModalShowsWhatIsAsked
<1> SUFFICES ASSUME KolOK PROVE KolModalTypeOK /\ ModalShowsWhatIsAsked
  OBVIOUS
<1>1. ASSUME NEW f \in flying PROVE f \in KolFetch
  <2>1. f = Deps(modal) /\ f.slug \in Slugs /\ modal \in KolState
    BY DEF KolOK, ModalOK
  <2> QED
    BY <2>1 DEF Deps, KolState, KolFetch
<1> QED
  BY <1>1 DEF KolOK, ModalOK, KolState, KolDetail, KolFetch, KolModalTypeOK, ModalShowsWhatIsAsked

\* The modal of a KOL never shows the answer to an earlier question, and calls gone only
\* the KOLs that the server does not know.
THEOREM ModalSafe == KolModalSpec => []ModalShowsWhatIsAsked
<1>1. KolOK => ModalShowsWhatIsAsked
  BY KolImplies
<1> QED
  BY KolInitOK, KolStepOK, <1>1, PTL DEF KolModalSpec

-----------------------------------------------------------------------------
(* CabalPanel.                                                             *)

PanelType ==
    [choices : SUBSET Extensions, connected : Extensions \cup {NoExtension},
     action : PanelActions, subject : BOOLEAN, busy : BOOLEAN, error : BOOLEAN,
     done : Answers, read : Answers, withdrawing : BOOLEAN]

CallType == [does : Answers, wallet : Extensions, at : {"connect", "nonce", "sign", "send"}]

\* What a call under way relies on: that of a connection, that nothing is connected
\* yet; any other, that its wallet is, and that nothing has been said since it began.
CallOK(p, c) ==
    /\ p.busy
    /\ IF c.at = "connect" THEN c.does = Nothing /\ p.connected = NoExtension
       ELSE /\ c.does # Nothing /\ c.wallet = p.connected
            /\ ~p.error /\ p.done = Nothing /\ p.read = Nothing

PanelOK(p, cs) ==
    /\ p \in PanelType /\ cs \subseteq CallType
    /\ p.busy => cs # {}
    /\ \A c, d \in cs : c = d
    /\ \A c \in cs : CallOK(p, c)
    /\ p.choices # {} => ~p.busy /\ p.connected = NoExtension
    /\ p.error => p.done = Nothing /\ p.read = Nothing
    /\ p.done = Nothing \/ p.read = Nothing

LEMMA PanelWords ==
    /\ Nothing \in Answers /\ WithdrawWallet \in Answers /\ PanelActions \subseteq Answers
    /\ Nothing # WithdrawWallet /\ Nothing \notin PanelActions /\ WithdrawWallet \notin PanelActions
    /\ NoExtension \notin Extensions
  BY CabalPanelAssumption DEF Answers, Nothing, WithdrawWallet, PanelActions

\* A call begins where there is none.
LEMMA BeginOK ==
    ASSUME PanelOK(panel, calls), ~panel.busy, NEW p, p \in PanelType, NEW c \in CallType, Begin(p, c),
           p.choices = {}, CallOK([p EXCEPT !.busy = TRUE], c),
           p.error => p.done = Nothing /\ p.read = Nothing, p.done = Nothing \/ p.read = Nothing
    PROVE  PanelOK(panel, calls)'
<1>1. calls = {}
  BY DEF PanelOK, CallOK
<1>2. PICK q : q = [p EXCEPT !.busy = TRUE]
  OBVIOUS
<1>3. /\ q \in PanelType /\ q.busy /\ q.choices = {} /\ q.error = p.error /\ q.done = p.done /\ q.read = p.read
  BY <1>2 DEF PanelType
<1>4. panel' = q /\ calls' = {c}
  BY <1>1, <1>2 DEF Begin
<1>5. PanelOK(q, {c})
  BY <1>2, <1>3 DEF PanelOK
<1> QED
  BY <1>4, <1>5

LEMMA ConnectOK ==
    ASSUME PanelOK(panel, calls), ~panel.busy, panel.connected = NoExtension,
           NEW w \in Extensions, ConnectExtension(w)
    PROVE  PanelOK(panel, calls)'
<1>1. PICK p : p = [panel EXCEPT !.choices = {}, !.error = FALSE]
  OBVIOUS
<1>2. PICK c : c = [does |-> Nothing, wallet |-> w, at |-> "connect"]
  OBVIOUS
<1>3. Begin(p, c) /\ c \in CallType
  BY <1>1, <1>2, PanelWords DEF ConnectExtension, CallType
<1>4. /\ p \in PanelType /\ p.choices = {} /\ ~p.error /\ p.connected = NoExtension
      /\ p.done = panel.done /\ p.read = panel.read
  BY <1>1 DEF PanelOK, PanelType
<1>5. PICK q : q = [p EXCEPT !.busy = TRUE]
  OBVIOUS
<1>6. q.busy /\ q.connected = NoExtension
  BY <1>4, <1>5 DEF PanelType
<1>7. CallOK(q, c)
  BY <1>2, <1>6 DEF CallOK
<1> QED
  BY <1>3, <1>4, <1>5, <1>7, BeginOK DEF PanelOK

\* submit and withdraw.
LEMMA SubmitOK ==
    ASSUME PanelOK(panel, calls), ~panel.busy, panel.connected # NoExtension,
           NEW a \in Answers, a # Nothing,
           Begin(Cleared(panel), [does |-> a, wallet |-> panel.connected, at |-> "nonce"])
    PROVE  PanelOK(panel, calls)'
<1>1. PICK p : p = Cleared(panel)
  OBVIOUS
<1>2. PICK c : c = [does |-> a, wallet |-> panel.connected, at |-> "nonce"]
  OBVIOUS
<1>3. Begin(p, c) /\ c \in CallType
  BY <1>1, <1>2 DEF CallType, PanelOK, PanelType
<1>4. /\ p \in PanelType /\ ~p.error /\ p.done = Nothing /\ p.read = Nothing
      /\ p.connected = panel.connected /\ p.choices = panel.choices
  BY <1>1, PanelWords DEF PanelOK, PanelType, Cleared
<1>5. p.choices = {}
  BY <1>4 DEF PanelOK
<1>6. PICK q : q = [p EXCEPT !.busy = TRUE]
  OBVIOUS
<1>7. /\ q.busy /\ ~q.error /\ q.done = Nothing /\ q.read = Nothing /\ q.connected = panel.connected
  BY <1>4, <1>6 DEF PanelType
<1>8. CallOK(q, c)
  BY <1>2, <1>7 DEF CallOK
<1> QED
  BY <1>3, <1>4, <1>5, <1>6, <1>8, BeginOK

\* The fields that nobody relies on.
LEMMA FieldsOK ==
    ASSUME PanelOK(panel, calls), NEW q \in PanelType, panel' = q, calls' = calls,
           q.busy = panel.busy, q.connected = panel.connected,
           q.choices # {} => q.choices = panel.choices,
           \/ q.error = panel.error /\ q.done = panel.done /\ q.read = panel.read
           \/ ~q.error /\ q.done = Nothing /\ q.read = Nothing
    PROVE  PanelOK(panel, calls)'
<1>1. ASSUME NEW c \in calls PROVE CallOK(q, c)
  BY DEF PanelOK, CallOK
<1>2. PanelOK(q, calls)
  BY <1>1 DEF PanelOK
<1> QED
  BY <1>2

LEMMA ChooserOK == ASSUME PanelOK(panel, calls), OpenChooser PROVE PanelOK(panel, calls)'
<1>1. ~panel.busy /\ panel.connected = NoExtension /\ calls = {}
  BY DEF OpenChooser, ButtonsEnabled, PanelOK, CallOK
<1>2. PICK found \in SUBSET Extensions :
         \/ panel' = Fail(panel) /\ UNCHANGED calls
         \/ \E w \in found : ConnectExtension(w)
         \/ panel' = [panel EXCEPT !.error = FALSE, !.choices = found] /\ UNCHANGED calls
  BY DEF OpenChooser
<1>3. CASE panel' = Fail(panel) /\ UNCHANGED calls
  <2>1. PICK q : q = Fail(panel)
    OBVIOUS
  <2>2. /\ q \in PanelType /\ q.done = Nothing /\ q.read = Nothing /\ q.busy = panel.busy
        /\ q.connected = panel.connected
    BY <2>1, PanelWords DEF PanelOK, PanelType, Fail
  <2>3. PanelOK(q, {})
    BY <1>1, <2>2 DEF PanelOK
  <2> QED
    BY <1>1, <1>3, <2>1, <2>3
<1>4. CASE \E w \in found : ConnectExtension(w)
  BY <1>1, <1>4, ConnectOK
<1>5. CASE panel' = [panel EXCEPT !.error = FALSE, !.choices = found] /\ UNCHANGED calls
  <2>1. PICK q : q = [panel EXCEPT !.error = FALSE, !.choices = found]
    OBVIOUS
  <2>2. /\ q \in PanelType /\ ~q.error /\ q.done = panel.done /\ q.read = panel.read /\ q.busy = panel.busy
        /\ q.connected = panel.connected
    BY <2>1 DEF PanelOK, PanelType
  <2>3. PanelOK(q, {})
    BY <1>1, <2>2 DEF PanelOK
  <2> QED
    BY <1>1, <1>5, <2>1, <2>3
<1> QED
  BY <1>2, <1>3, <1>4, <1>5

LEMMA CallGoesOnOK ==
    ASSUME PanelOK(panel, calls), NEW c \in calls, CallGoesOn(c) PROVE PanelOK(panel, calls)'
<1>1. c \in CallType /\ CallOK(panel, c) /\ calls = {c}
  BY DEF PanelOK
<1>2. PICK at \in {"sign", "send"} : c.at # "connect" /\ calls' = (calls \ {c}) \cup {[c EXCEPT !.at = at]}
  BY DEF CallGoesOn, Onwards
<1>3. PICK d : d = [c EXCEPT !.at = at]
  OBVIOUS
<1>4. d \in CallType /\ d.at = at /\ d.does = c.does /\ d.wallet = c.wallet
  BY <1>1, <1>3 DEF CallType
<1>5. calls' = {d} /\ panel' = panel
  BY <1>1, <1>2, <1>3 DEF CallGoesOn
<1>6. CallOK(panel, d)
  BY <1>1, <1>2, <1>4 DEF CallOK
<1>7. PanelOK(panel, {d})
  BY <1>4, <1>6 DEF PanelOK
<1> QED
  BY <1>5, <1>7

\* A call that ends leaves one verdict, and nothing under way.
LEMMA EndedOK ==
    ASSUME PanelOK(panel, calls), NEW c \in calls, NEW q \in PanelType,
           panel' = q, calls' = calls \ {c}, ~q.busy,
           q.choices = panel.choices,
           q.error => q.done = Nothing /\ q.read = Nothing, q.done = Nothing \/ q.read = Nothing
    PROVE  PanelOK(panel, calls)'
<1>1. calls' = {} /\ q.choices = {}
  BY DEF PanelOK, CallOK
<1>2. PanelOK(q, {})
  BY <1>1 DEF PanelOK
<1> QED
  BY <1>1, <1>2

LEMMA CallFailsOK ==
    ASSUME PanelOK(panel, calls), NEW c \in calls, CallFails(c) PROVE PanelOK(panel, calls)'
<1>1. PICK q : q = [Fail(panel) EXCEPT !.busy = FALSE]
  OBVIOUS
<1>2. q \in PanelType /\ ~q.busy /\ q.choices = panel.choices /\ q.done = Nothing /\ q.read = Nothing
  BY <1>1, PanelWords DEF PanelOK, PanelType, Fail
<1> QED
  BY <1>1, <1>2, EndedOK DEF CallFails

LEMMA CallSucceedsOK ==
    ASSUME PanelOK(panel, calls), NEW c \in calls, CallSucceeds(c) PROVE PanelOK(panel, calls)'
<1>1. c \in CallType /\ CallOK(panel, c) /\ c.at \in {"connect", "send"} /\ panel \in PanelType
  BY DEF PanelOK, CallSucceeds
<1>2. PICK r : r = Settled(panel, c)
  OBVIOUS
<1>3. PICK q : q = [r EXCEPT !.busy = FALSE]
  OBVIOUS
<1>4. panel' = q /\ calls' = calls \ {c}
  BY <1>2, <1>3 DEF CallSucceeds
<1>5. /\ r \in PanelType /\ r.choices = panel.choices /\ r.error = panel.error
      /\ \/ c.at = "connect" /\ r.done = panel.done /\ r.read = panel.read
         \/ c.at # "connect" /\ (r.done = panel.done \/ r.read = panel.read)
  <2>1. CASE c.does = Nothing
    <3>1. r = [panel EXCEPT !.connected = c.wallet]
      BY <1>1, <1>2, <2>1, PanelWords DEF Settled, PanelActions, PanelType
    <3> QED
      BY <1>1, <3>1, <2>1, PanelWords DEF PanelType, CallOK, CallType
  <2>2. CASE c.does = WithdrawWallet
    <3>6. c.does \notin ReadActions /\ c.does \notin SignedActions
      BY <2>2, PanelWords DEF PanelActions
    <3>0. Settled(panel, c) = [panel EXCEPT !.withdrawing = FALSE, !.connected = NoExtension, !.done = WithdrawWallet]
      BY <2>2, <3>6 DEF Settled
    <3>1. r = [panel EXCEPT !.withdrawing = FALSE, !.connected = NoExtension, !.done = WithdrawWallet]
      BY <1>2, <3>0, Zenon
    <3>2. WithdrawWallet # Nothing /\ WithdrawWallet \in Answers
      BY PanelWords
    <3>3. c.at # "connect"
      BY <1>1, <2>2, <3>2 DEF CallOK
    <3>4. r \in PanelType
      BY <1>1, <3>1, <3>2 DEF PanelType
    <3>5. r.choices = panel.choices /\ r.error = panel.error /\ r.read = panel.read
      BY <1>1, <3>1 DEF PanelType
    <3> QED
      BY <3>3, <3>4, <3>5
  <2>3. CASE c.does \in ReadActions
    <3>0. c.does # WithdrawWallet /\ c.does \notin SignedActions
      BY <2>3, PanelWords, CabalPanelAssumption DEF PanelActions
    <3>9. Settled(panel, c) = [panel EXCEPT !.read = c.does]
      BY <2>3, <3>0 DEF Settled
    <3>1. r = [panel EXCEPT !.read = c.does]
      BY <1>2, <3>9, Zenon
    <3>2. c.does \in Answers /\ c.does # Nothing
      BY <2>3, PanelWords DEF PanelActions
    <3> QED
      BY <1>1, <3>1, <3>2 DEF PanelType, CallOK
  <2>4. CASE c.does \in SignedActions
    <3>1. c.does \notin ReadActions
      BY <2>4, CabalPanelAssumption
    <3>2. r = [panel EXCEPT !.done = c.does, !.subject = FALSE]
      BY <1>1, <1>2, <2>4, <3>1, PanelWords DEF Settled, PanelActions, PanelType
    <3> QED
      BY <1>1, <3>2, <2>4, PanelWords DEF PanelType, CallOK, PanelActions
  <2> QED
    BY <1>1, <2>1, <2>2, <2>3, <2>4 DEF CallType, Answers, PanelActions
<1>6. /\ q \in PanelType /\ ~q.busy /\ q.choices = panel.choices /\ q.error = panel.error
      /\ q.done = r.done /\ q.read = r.read
  BY <1>3, <1>5 DEF PanelType
<1>7. /\ q.error => q.done = Nothing /\ q.read = Nothing
      /\ q.done = Nothing \/ q.read = Nothing
  BY <1>1, <1>5, <1>6 DEF CallOK, PanelOK
<1> QED
  BY <1>4, <1>6, <1>7, EndedOK

LEMMA CabalPanelStepOK == PanelOK(panel, calls) /\ [CabalPanelNext]_panelVars => PanelOK(panel, calls)'
<1> SUFFICES ASSUME PanelOK(panel, calls), [CabalPanelNext]_panelVars PROVE PanelOK(panel, calls)'
  OBVIOUS
<1>0. panel \in PanelType
  BY DEF PanelOK
<1>1. CASE UNCHANGED panelVars
  BY <1>1 DEF panelVars
<1>2. CASE PickExtension
  BY <1>2, ConnectOK DEF PickExtension, PanelOK, PanelType
<1>3. CASE CancelChooser
  <2>1. PICK q : q = [panel EXCEPT !.choices = {}]
    OBVIOUS
  <2>2. /\ q \in PanelType /\ q.busy = panel.busy /\ q.connected = panel.connected /\ q.choices = {}
        /\ q.error = panel.error /\ q.done = panel.done /\ q.read = panel.read
    BY <1>0, <2>1 DEF PanelType
  <2> QED
    BY <1>3, <2>1, <2>2, FieldsOK DEF CancelChooser
<1>4. ASSUME NEW a \in PanelActions, ChooseAction(a) PROVE PanelOK(panel, calls)'
  <2>1. PICK q : q = [Cleared(panel) EXCEPT !.action = a, !.subject = FALSE]
    OBVIOUS
  <2>2. /\ q \in PanelType /\ q.busy = panel.busy /\ q.connected = panel.connected /\ q.choices = panel.choices
        /\ ~q.error /\ q.done = Nothing /\ q.read = Nothing
    BY <1>0, <2>1, PanelWords DEF PanelType, Cleared
  <2> QED
    BY <1>4, <2>1, <2>2, FieldsOK DEF ChooseAction
<1>5. CASE TypeSubject
  <2>1. PICK typed \in BOOLEAN : panel' = [panel EXCEPT !.subject = typed]
    BY <1>5 DEF TypeSubject
  <2>2. PICK q : q = [panel EXCEPT !.subject = typed]
    OBVIOUS
  <2>3. /\ q \in PanelType /\ q.busy = panel.busy /\ q.connected = panel.connected /\ q.choices = panel.choices
        /\ q.error = panel.error /\ q.done = panel.done /\ q.read = panel.read
    BY <1>0, <2>2 DEF PanelType
  <2> QED
    BY <1>5, <2>1, <2>2, <2>3, FieldsOK DEF TypeSubject
<1>6. CASE ShowWarning \/ HideWarning
  <2>1. PICK on \in BOOLEAN : panel' = [panel EXCEPT !.withdrawing = on] /\ calls' = calls
    BY <1>6 DEF ShowWarning, HideWarning
  <2>2. PICK q : q = [panel EXCEPT !.withdrawing = on]
    OBVIOUS
  <2>3. /\ q \in PanelType /\ q.busy = panel.busy /\ q.connected = panel.connected /\ q.choices = panel.choices
        /\ q.error = panel.error /\ q.done = panel.done /\ q.read = panel.read
    BY <1>0, <2>2 DEF PanelType
  <2> QED
    BY <2>1, <2>2, <2>3, FieldsOK
<1>7. CASE SubmitAction
  <2>1. panel.action \in PanelActions
    BY <1>0 DEF PanelType
  <2> QED
    BY <1>7, <2>1, SubmitOK, PanelWords DEF SubmitAction, ButtonsEnabled
<1>8. CASE SubmitWithdrawal
  BY <1>8, SubmitOK, PanelWords DEF SubmitWithdrawal, ButtonsEnabled
<1>9. ASSUME NEW c \in calls, CallGoesOn(c) \/ CallSucceeds(c) \/ CallFails(c) PROVE PanelOK(panel, calls)'
  BY <1>9, CallGoesOnOK, CallSucceedsOK, CallFailsOK
<1> QED
  BY <1>1, <1>2, <1>3, <1>4, <1>5, <1>6, <1>7, <1>8, <1>9, ChooserOK DEF CabalPanelNext

LEMMA CabalPanelInitOK == CabalPanelInit => PanelOK(panel, calls)
<1> SUFFICES ASSUME CabalPanelInit PROVE PanelOK(panel, calls)
  OBVIOUS
<1>1. panel \in PanelType
  BY PanelWords, CabalPanelAssumption DEF CabalPanelInit, PanelType, PanelActions
<1> QED
  BY <1>1 DEF CabalPanelInit, PanelOK, Nothing

LEMMA OneVerdict == PanelOK(panel, calls) => PanelHasOneVerdict
<1> SUFFICES ASSUME PanelOK(panel, calls) PROVE PanelHasOneVerdict
  OBVIOUS
<1>1. Cardinality(calls) <= 1
  BY AtMostOne DEF PanelOK
<1>2. Cardinality(Verdicts) <= 1
  <2>1. \A v, w \in Verdicts : v = w
    BY DEF Verdicts, PanelOK
  <2> QED
    BY <2>1, AtMostOne
<1>3. panel.busy = (calls # {})
  <2>1. panel.busy \in BOOLEAN
    BY DEF PanelOK, PanelType
  <2> QED
    BY <2>1 DEF PanelOK, CallOK
<1>4. \A c \in calls : c.at # "connect" => c.wallet = panel.connected
  BY DEF PanelOK, CallOK
<1> QED
  BY <1>1, <1>2, <1>3, <1>4, Zenon DEF PanelHasOneVerdict

\* The signed-actions panel (cabal-panel.tsx) shows one verdict, runs one call, and signs with the
\* wallet it shows, for any wallets and actions.
THEOREM OneVerdictAtATime == CabalPanelSpec => []PanelHasOneVerdict
  BY CabalPanelInitOK, CabalPanelStepOK, OneVerdict, PTL DEF CabalPanelSpec

-----------------------------------------------------------------------------
(* AdminScreen.                                                            *)

AdminState ==
    [token : BOOLEAN, busy : BOOLEAN, typed : BOOLEAN, message : BOOLEAN,
     loaded : BOOLEAN, rows : Roster0, listed : BOOLEAN, orphans : SUBSET OrphanCabals,
     reassign : OrphanCabals \cup {NoForm}, confirmed : BOOLEAN]
ReplyType ==
    [status : {"none", "ok", "refused"}, kols : Roster0, orphans : SUBSET OrphanCabals]
JobType ==
    [does : {"load", "create", "approve", "nominate"}, at : {"act", "roster", "cabals"},
     token : BOOLEAN, of : SUBSET (Applicants \cup OrphanCabals), reply : ReplyType]

\* The roster on the screen s offers nobody of S, the KOLs the page was told are approved.
RosterFresh(s, S) == s.loaded => s.rows.pending \cap S = {}

\* What a handler under way may find when it ends.
JobOK(j, s, S, cut) ==
    /\ j \in JobType
    /\ j.does \in {"create", "approve"} => j.of \subseteq Applicants
    /\ j.at = "act" /\ j.reply.status # "ok" => RosterFresh(s, S) \/ cut
    /\ j.at = "roster" /\ j.reply.status = "ok" => j.reply.kols.pending \cap S = {}
    /\ j.at = "cabals" => RosterFresh(s, S)

\* The page: the state s of the component with its handlers J.
PageOK(s, J, S, cut) ==
    /\ s \in AdminState /\ cut \in BOOLEAN
    /\ \A i, j \in J : i = j
    /\ J # {} => s.busy
    /\ J = {} => RosterFresh(s, S) \/ cut
    /\ \A j \in J : JobOK(j, s, S, cut)

ServerOK(k, S) ==
    /\ k \in Roster0 /\ S \subseteq k.approved /\ k.pending \cap k.approved = {}

AdminOK ==
    /\ PageOK(screen, jobs, settledHere, threw)
    /\ ServerOK(kolRows, settledHere)
    /\ orphaned \subseteq OrphanCabals

LEMMA Replies ==
    /\ NotLoaded \in Roster0 /\ NotLoaded.pending = {}
    /\ NoReply \in ReplyType /\ NoReply.status = "none"
    /\ Refusal \in ReplyType /\ Refusal.status = "refused"
<1>1. NotLoaded \in Roster0 /\ NotLoaded.pending = {}
  BY DEF NotLoaded, Roster0
<1>2. NoReply \in ReplyType /\ NoReply.status = "none"
  BY <1>1 DEF NoReply, ReplyType
<1>3. Refusal \in ReplyType /\ Refusal.status = "refused"
  BY <1>2 DEF Refusal, ReplyType
<1> QED
  BY <1>1, <1>2, <1>3

LEMMA AdminInitOK == AdminInit => AdminOK
<1> SUFFICES ASSUME AdminInit PROVE AdminOK
  OBVIOUS
<1>1. screen \in AdminState /\ ~screen.loaded
  BY Replies DEF AdminInit, AdminState
<1>2. kolRows \in Roster0 /\ kolRows.pending = {} /\ settledHere = {} /\ jobs = {}
  BY Replies DEF AdminInit
<1> QED
  BY <1>1, <1>2 DEF AdminInit, AdminOK, PageOK, ServerOK, RosterFresh

\* The server's answer to a handler.
LEMMA AnsweredOK ==
    ASSUME AdminOK, NEW j \in jobs, NEW r \in ReplyType, Answered(j, r),
           UNCHANGED <<screen, orphaned, threw>>, NEW k, NEW S, kolRows' = k, settledHere' = S,
           ServerOK(k, S),
           S = settledHere \/ (j.at = "act" /\ r.status = "ok"),
           j.reply.status = "none",
           j.at = "roster" /\ r.status = "ok" => r.kols.pending \cap S = {}
    PROVE  AdminOK'
<1>1. j \in JobType /\ jobs = {j} /\ JobOK(j, screen, settledHere, threw)
  BY DEF AdminOK, PageOK, JobOK
<1>2. PICK i : i = [j EXCEPT !.reply = r]
  OBVIOUS
<1>3. i \in JobType /\ i.reply = r /\ i.at = j.at /\ i.does = j.does /\ i.of = j.of
  BY <1>1, <1>2 DEF JobType
<1>4. jobs' = {i} /\ screen' = screen /\ threw' = threw /\ orphaned' = orphaned
  BY <1>1, <1>2 DEF Answered
<1>5. JobOK(i, screen, S, threw)
  BY <1>1, <1>3 DEF JobOK
<1>6. PageOK(screen, {i}, S, threw)
  BY <1>1, <1>5 DEF AdminOK, PageOK
<1> QED
  BY <1>4, <1>6 DEF AdminOK

LEMMA AnswerOK == ASSUME AdminOK, NEW j \in jobs, Answer0(j) PROVE AdminOK'
<1>0. /\ j \in JobType /\ JobOK(j, screen, settledHere, threw) /\ ServerOK(kolRows, settledHere)
      /\ j.reply.status = "none" /\ UNCHANGED <<screen, orphaned, threw>>
  BY DEF Answer0, AdminOK, PageOK, JobOK
<1>1. CASE AnswerRead(j)
  <2>1. PICK r : \/ j.at = "roster" /\ r = [NoReply EXCEPT !.status = "ok", !.kols = kolRows]
                 \/ j.at # "roster" /\ r = [NoReply EXCEPT !.status = "ok", !.orphans = orphaned]
    OBVIOUS
  <2>2. Answered(j, r)
    BY <1>1, <2>1 DEF AnswerRead
  <2>3. r \in ReplyType /\ (j.at = "roster" => r.kols = kolRows) /\ j.at # "act"
    BY <1>0, <1>1, <2>1, Replies DEF AnswerRead, ReplyType, ServerOK, AdminOK
  <2>4. j.at = "roster" => r.kols.pending \cap settledHere = {}
    BY <1>0, <2>3 DEF ServerOK
  <2> QED
    BY <1>0, <1>1, <2>2, <2>3, <2>4, AnsweredOK DEF AnswerRead
<1>2. \A r : (r = [NoReply EXCEPT !.status = "ok"]) => r \in ReplyType /\ r.status = "ok"
  BY Replies DEF ReplyType
<1>3. CASE AnswerCreate(j)
  <2>1. PICK k : k = [kolRows EXCEPT !.approved = @ \cup j.of]
    OBVIOUS
  <2>2. k \in Roster0 /\ k.approved = kolRows.approved \cup j.of /\ k.pending = kolRows.pending
    BY <1>0, <1>3, <2>1 DEF ServerOK, Roster0, AnswerCreate, JobOK
  <2>3. ServerOK(k, settledHere)
    BY <1>0, <1>3, <2>2 DEF ServerOK, AnswerCreate
  <2>4. PICK r \in ReplyType : Answered(j, r)
    BY <1>2, <1>3, Replies DEF AnswerCreate, AnswerOk, AnswerCutOff
  <2> QED
    BY <1>0, <1>3, <2>1, <2>3, <2>4, AnsweredOK DEF AnswerCreate
<1>4. CASE AnswerApprove(j)
  <2>1. PICK k : k = [pending |-> kolRows.pending \ j.of, approved |-> kolRows.approved \cup j.of]
    OBVIOUS
  <2>2. /\ k \in Roster0 /\ k.approved = kolRows.approved \cup j.of
        /\ k.pending = kolRows.pending \ j.of
    BY <1>0, <1>4, <2>1 DEF ServerOK, Roster0, AnswerApprove
  <2>3. PICK S, r : /\ settledHere' = S /\ r \in ReplyType /\ Answered(j, r) /\ S \subseteq settledHere \cup j.of
                    /\ S = settledHere \/ r.status = "ok"
    BY <1>2, <1>4, Replies DEF AnswerApprove, AnswerOk, AnswerCutOff
  <2>4. ServerOK(k, S)
    BY <1>0, <2>2, <2>3 DEF ServerOK
  <2>5. kolRows' = k /\ j.at = "act"
    BY <1>4, <2>1 DEF AnswerApprove
  <2> QED
    BY <1>0, <2>3, <2>4, <2>5, AnsweredOK
<1>5. CASE AnswerNominate(j)
  BY <1>0, <1>2, <1>5, AnsweredOK DEF AnswerNominate, AnswerOk
<1>6. CASE AnswerRefusal(j)
  BY <1>0, <1>6, Replies, AnsweredOK DEF AnswerRefusal
<1> QED
  BY <1>1, <1>3, <1>4, <1>5, <1>6 DEF Answer0

LEMMA ElsewhereOK == ASSUME AdminOK, Elsewhere PROVE AdminOK'
<1>0. ServerOK(kolRows, settledHere) /\ UNCHANGED <<screen, jobs, settledHere, threw>>
  BY DEF AdminOK, Elsewhere
<1>1. ASSUME NEW k \in Applicants \ (kolRows.pending \cup kolRows.approved),
             kolRows' = [kolRows EXCEPT !.pending = @ \cup {k}]
      PROVE  ServerOK(kolRows', settledHere)
  <2>1. PICK q : q = [kolRows EXCEPT !.pending = @ \cup {k}]
    OBVIOUS
  <2>2. q \in Roster0 /\ q.pending = kolRows.pending \cup {k} /\ q.approved = kolRows.approved
    BY <1>0, <2>1 DEF ServerOK, Roster0
  <2>3. ServerOK(q, settledHere)
    BY <1>0, <2>2 DEF ServerOK
  <2> QED
    BY <1>1, <2>1, <2>3
<1>2. ServerOK(kolRows', settledHere) /\ orphaned' \subseteq OrphanCabals
  BY <1>0, <1>1 DEF Elsewhere, AdminOK
<1> QED
  BY <1>0, <1>2 DEF AdminOK

LEMMA StartJobOK ==
    ASSUME AdminOK, NEW does \in {"load", "create", "approve", "nominate"}, NEW at \in {"act", "roster"},
           NEW of \in SUBSET (Applicants \cup OrphanCabals), StartJob(does, at, of),
           does \in {"create", "approve"} => of \subseteq Applicants
    PROVE  AdminOK'
<1>1. /\ jobs = {} /\ screen \in AdminState /\ (RosterFresh(screen, settledHere) \/ threw)
      /\ UNCHANGED <<kolRows, orphaned, settledHere, threw>>
  BY DEF AdminOK, PageOK, StartJob, NotBusy
<1>2. PICK s : s = [screen EXCEPT !.busy = TRUE]
  OBVIOUS
<1>3. s \in AdminState /\ s.busy /\ s.rows = screen.rows /\ s.loaded = screen.loaded
  BY <1>1, <1>2 DEF AdminState
<1>4. PICK j : j = [does |-> does, at |-> at, token |-> screen.token, of |-> of, reply |-> NoReply]
  OBVIOUS
<1>5. j \in JobType /\ j.at = at /\ j.at # "cabals" /\ j.reply.status = "none" /\ j.does = does /\ j.of = of
  BY <1>1, <1>4, Replies DEF JobType, AdminState
<1>6. RosterFresh(s, settledHere) \/ threw
  BY <1>1, <1>3 DEF RosterFresh
<1>7. JobOK(j, s, settledHere, threw)
  BY <1>5, <1>6 DEF JobOK
<1>8. PageOK(s, {j}, settledHere, threw)
  BY <1>3, <1>7 DEF PageOK, AdminOK
<1>9. screen' = s /\ jobs' = {j}
  BY <1>1, <1>2, <1>4 DEF StartJob
<1> QED
  BY <1>1, <1>8, <1>9 DEF AdminOK

\* Two states that differ only in the fields that nobody relies on.
SameSubject(s, t) == s.busy = t.busy /\ s.rows = t.rows /\ s.loaded = t.loaded

LEMMA EditOK == ASSUME AdminOK, Edit PROVE AdminOK'
<1>1. screen \in AdminState /\ UNCHANGED <<jobs, kolRows, orphaned, settledHere, threw>>
  BY DEF AdminOK, PageOK, Edit
<1>2. PICK s \in AdminState : screen' = s /\ SameSubject(s, screen)
  <2>1. ASSUME NEW right \in BOOLEAN, screen' = [screen EXCEPT !.token = right]
        PROVE  \E s \in AdminState : screen' = s /\ SameSubject(s, screen)
    <3>1. PICK s : s = [screen EXCEPT !.token = right]
      OBVIOUS
    <3>2. s \in AdminState /\ SameSubject(s, screen)
      BY <1>1, <3>1 DEF AdminState, SameSubject
    <3> QED
      BY <2>1, <3>1, <3>2
  <2>2. ASSUME NEW typed \in BOOLEAN, screen' = [screen EXCEPT !.typed = typed]
        PROVE  \E s \in AdminState : screen' = s /\ SameSubject(s, screen)
    <3>1. PICK s : s = [screen EXCEPT !.typed = typed]
      OBVIOUS
    <3>2. s \in AdminState /\ SameSubject(s, screen)
      BY <1>1, <3>1 DEF AdminState, SameSubject
    <3> QED
      BY <2>2, <3>1, <3>2
  <2>3. ASSUME NEW c \in OrphanCabals \cup {NoForm}, screen' = [screen EXCEPT !.reassign = c, !.confirmed = FALSE]
        PROVE  \E s \in AdminState : screen' = s /\ SameSubject(s, screen)
    <3>1. PICK s : s = [screen EXCEPT !.reassign = c, !.confirmed = FALSE]
      OBVIOUS
    <3>2. s \in AdminState /\ SameSubject(s, screen)
      BY <1>1, <3>1 DEF AdminState, SameSubject
    <3> QED
      BY <2>3, <3>1, <3>2
  <2>4. ASSUME screen' = [screen EXCEPT !.confirmed = ~@]
        PROVE  \E s \in AdminState : screen' = s /\ SameSubject(s, screen)
    <3>1. PICK yes \in BOOLEAN : yes = ~screen.confirmed
      OBVIOUS
    <3>2. PICK s : s = [screen EXCEPT !.confirmed = yes]
      OBVIOUS
    <3>3. s \in AdminState /\ SameSubject(s, screen)
      BY <1>1, <3>2 DEF AdminState, SameSubject
    <3>4. screen' = s
      BY <2>4, <3>1, <3>2
    <3> QED
      BY <3>3, <3>4
  <2>5. screen.orphans \subseteq OrphanCabals
    BY <1>1 DEF AdminState
  <2> QED
    BY <2>1, <2>2, <2>3, <2>4, <2>5 DEF Edit
<1>3. \A j \in jobs : JobOK(j, s, settledHere, threw)
  BY <1>2 DEF AdminOK, PageOK, JobOK, RosterFresh, SameSubject
<1>4. PageOK(s, jobs, settledHere, threw)
  BY <1>2, <1>3 DEF AdminOK, PageOK, RosterFresh, SameSubject
<1> QED
  BY <1>1, <1>2, <1>4 DEF AdminOK

\* A handler that ends.
LEMMA JobEndsOK ==
    ASSUME AdminOK, NEW j \in jobs, jobs' = jobs \ {j}, NEW s \in AdminState, screen' = s,
           UNCHANGED <<kolRows, orphaned, settledHere>>, NEW cut \in BOOLEAN, threw' = cut,
           RosterFresh(s, settledHere) \/ cut
    PROVE  AdminOK'
<1>1. jobs' = {}
  BY DEF AdminOK, PageOK
<1>2. PageOK(s, {}, settledHere, cut)
  BY DEF PageOK
<1> QED
  BY <1>1, <1>2 DEF AdminOK

\* A handler that goes on.
LEMMA GoesOnOK ==
    ASSUME AdminOK, NEW j \in jobs, NEW at \in {"roster", "cabals"}, GoesOn(j, at),
           NEW s \in AdminState, screen' = s, s.busy, UNCHANGED <<kolRows, orphaned, settledHere>>,
           NEW cut \in BOOLEAN, threw' = cut,
           at = "cabals" => RosterFresh(s, settledHere)
    PROVE  AdminOK'
<1>1. j \in JobType /\ jobs = {j} /\ JobOK(j, screen, settledHere, threw)
  BY DEF AdminOK, PageOK, JobOK
<1>2. PICK i : i = [j EXCEPT !.at = at, !.reply = NoReply]
  OBVIOUS
<1>3. i \in JobType /\ i.reply.status = "none" /\ i.at = at /\ i.does = j.does /\ i.of = j.of
  BY <1>1, <1>2, Replies DEF JobType
<1>4. JobOK(i, s, settledHere, cut)
  BY <1>1, <1>3 DEF JobOK
<1>5. PageOK(s, {i}, settledHere, cut)
  BY <1>4 DEF PageOK
<1>6. jobs' = {i}
  BY <1>1, <1>2 DEF GoesOn
<1> QED
  BY <1>5, <1>6 DEF AdminOK

LEMMA DeliverOK == ASSUME AdminOK, NEW j \in jobs, Deliver(j) PROVE AdminOK'
<1>0. /\ JobOK(j, screen, settledHere, threw) /\ j \in JobType /\ screen \in AdminState /\ threw \in BOOLEAN
      /\ screen.busy /\ UNCHANGED <<kolRows, orphaned, settledHere>>
  BY DEF AdminOK, PageOK, JobOK, Deliver
<1>1. CASE DeliverRefusal(j)
  <2>1. CASE j.at = "cabals"
    <3>1. PICK s : s = [screen EXCEPT !.listed = FALSE, !.orphans = {}, !.busy = FALSE]
      OBVIOUS
    <3>2. s \in AdminState /\ s.rows = screen.rows /\ s.loaded = screen.loaded
      BY <1>0, <3>1 DEF AdminState
    <3>3. RosterFresh(s, settledHere)
      BY <1>0, <2>1, <3>2 DEF RosterFresh, JobOK
    <3> QED
      BY <1>0, <1>1, <2>1, <3>1, <3>2, <3>3, JobEndsOK DEF DeliverRefusal
  <2>2. CASE j.at = "roster"
    <3>1. PICK s : s = [screen EXCEPT !.loaded = FALSE, !.rows = NotLoaded, !.message = TRUE, !.busy = FALSE]
      OBVIOUS
    <3>2. s \in AdminState /\ ~s.loaded
      BY <1>0, <3>1, Replies DEF AdminState
    <3>3. RosterFresh(s, settledHere)
      BY <3>2 DEF RosterFresh
    <3> QED
      BY <1>0, <1>1, <2>2, <3>1, <3>2, <3>3, JobEndsOK DEF DeliverRefusal
  <2>3. CASE j.at = "act"
    <3>1. PICK s : s = [screen EXCEPT !.message = TRUE, !.busy = FALSE]
      OBVIOUS
    <3>2. s \in AdminState /\ s.rows = screen.rows /\ s.loaded = screen.loaded
      BY <1>0, <3>1 DEF AdminState
    <3>3. RosterFresh(s, settledHere) \/ threw
      BY <1>0, <1>1, <2>3, <3>2 DEF RosterFresh, JobOK, DeliverRefusal
    <3> QED
      BY <1>0, <1>1, <2>3, <3>1, <3>2, <3>3, JobEndsOK DEF DeliverRefusal
  <2> QED
    BY <1>0, <2>1, <2>2, <2>3 DEF JobType
<1>2. CASE DeliverAct(j)
  <2>1. PICK nominee \in OrphanCabals \cup {NoForm} : nominee = IF j.does = "nominate" THEN NoForm ELSE screen.reassign
    BY <1>0 DEF AdminState
  <2>2. PICK s : s = [screen EXCEPT !.message = TRUE, !.typed = @ /\ j.does # "create", !.reassign = nominee,
                                    !.confirmed = @ /\ j.does # "nominate", !.busy = TRUE]
    OBVIOUS
  <2>3. s \in AdminState /\ s.busy
    BY <1>0, <2>2 DEF AdminState
  <2>4. screen' = s
    BY <1>0, <1>2, <2>1, <2>2 DEF DeliverAct, AdminState
  <2> QED
    BY <1>0, <1>2, <2>3, <2>4, GoesOnOK DEF DeliverAct, LoadsAgain
<1>3. CASE DeliverRoster(j)
  <2>1. PICK s : s = [screen EXCEPT !.loaded = TRUE, !.rows = j.reply.kols, !.message = FALSE]
    OBVIOUS
  <2>2. s \in AdminState /\ s.rows = j.reply.kols /\ s.busy
    BY <1>0, <2>1 DEF AdminState, JobType, ReplyType
  <2>3. RosterFresh(s, settledHere)
    BY <1>0, <1>3, <2>2 DEF RosterFresh, JobOK, DeliverRoster
  <2> QED
    BY <1>0, <1>3, <2>1, <2>2, <2>3, GoesOnOK DEF DeliverRoster
<1>4. CASE DeliverOrphans(j)
  <2>1. PICK s : s = [screen EXCEPT !.listed = TRUE, !.orphans = j.reply.orphans, !.busy = FALSE]
    OBVIOUS
  <2>2. s \in AdminState /\ s.rows = screen.rows /\ s.loaded = screen.loaded
    BY <1>0, <2>1 DEF AdminState, JobType, ReplyType
  <2>3. RosterFresh(s, settledHere)
    BY <1>0, <1>4, <2>2 DEF RosterFresh, JobOK, DeliverOrphans
  <2> QED
    BY <1>0, <1>4, <2>1, <2>2, <2>3, JobEndsOK DEF DeliverOrphans
<1>5. CASE DeliverNothing(j)
  <2>1. PICK s : s = [screen EXCEPT !.busy = FALSE]
    OBVIOUS
  <2>2. s \in AdminState
    BY <1>0, <2>1 DEF AdminState
  <2> QED
    BY <1>0, <1>5, <2>1, <2>2, JobEndsOK DEF DeliverNothing
<1> QED
  BY <1>1, <1>2, <1>3, <1>4, <1>5 DEF Deliver

LEMMA AdminStepOK == AdminOK /\ [AdminNext]_adminVars => AdminOK'
<1> SUFFICES ASSUME AdminOK, [AdminNext]_adminVars PROVE AdminOK'
  OBVIOUS
<1>1. CASE UNCHANGED adminVars
  BY <1>1 DEF adminVars, AdminOK
<1>2. CASE PressLoad
  BY <1>2, StartJobOK DEF PressLoad
<1>3. CASE PressNominate
  <2>1. screen.reassign \in OrphanCabals
    BY <1>3 DEF PressNominate, AdminOK, PageOK, AdminState
  <2> QED
    BY <1>3, <2>1, StartJobOK DEF PressNominate
<1>4. ASSUME NEW k \in Applicants, PressCreate(k) \/ PressApprove(k) PROVE AdminOK'
  BY <1>4, StartJobOK DEF PressCreate, PressApprove
<1> QED
  BY <1>1, <1>2, <1>3, <1>4, AnswerOK, DeliverOK, ElsewhereOK, EditOK DEF AdminNext

LEMMA AdminImplies == AdminOK => AdminTypeOK /\ AdminRosterIsItsOwn
<1> SUFFICES ASSUME AdminOK PROVE AdminTypeOK /\ AdminRosterIsItsOwn
  OBVIOUS
<1>1. jobs \subseteq JobType /\ settledHere \subseteq Applicants
  BY DEF AdminOK, PageOK, JobOK, ServerOK, Roster0
<1>2. AdminTypeOK
  BY <1>1 DEF AdminTypeOK, AdminOK, PageOK, AdminState, JobType, ReplyType, ServerOK
<1>3. Cardinality(jobs) <= 1
  BY AtMostOne DEF AdminOK, PageOK
<1>4. jobs = {} /\ ~threw /\ screen.loaded => screen.rows.pending \cap settledHere = {}
  BY DEF AdminOK, PageOK, RosterFresh
<1> QED
  BY <1>2, <1>3, <1>4, Zenon DEF AdminRosterIsItsOwn

\* The page /admin runs one handler, and once it is done, and unless the network cut it
\* off, offers for approval nobody it was told it approved; for any KOLs and cabals, and
\* whatever happens on the server between a request and its answer.
THEOREM AdminScreenSafe == AdminSpec => [](AdminTypeOK /\ AdminRosterIsItsOwn)
  BY AdminInitOK, AdminStepOK, AdminImplies, PTL DEF AdminSpec

-----------------------------------------------------------------------------
(* Registro.                                                               *)

\* What a handler may name: a chain of a row, and the address an extension gives for it.
RowChains == Chains0 \cup {"solana", FirstEvm}
GivenAddresses == {AddressOf[<<b, h>>] : b \in Brands, h \in {"solana", "evm"}}
ProofType == [address : GivenAddresses, chain : RowChains, asked : RowChains]

FormType ==
    [open : BOOLEAN, found : SUBSET Brands, chosen : Brands \cup {NoChoice}, picking : BOOLEAN,
     proven : Seq(ProofType), public : SUBSET Int, error : BOOLEAN, busy : BOOLEAN, done : BOOLEAN,
     tweet : {"idle", "ok", "error"}]

ProvenAddresses(f) == {f.proven[i].address : i \in DOMAIN f.proven}

\* A call under way: its list and its chain are the form's still.
DoingOK(d, f) ==
    /\ d.does \in {"connect", "submit", "check"}
    /\ d.does # "check" => f.busy /\ ~f.done
    /\ d.does = "connect" =>
           /\ d.brand \in Brands /\ d.chain \in RowChains /\ d.asked = d.chain
           /\ d.saw = ProvenAddresses(f)
    /\ d.does = "submit" => d.of = ProvenAddresses(f)

ListOK(s) ==
    /\ \A i, j \in DOMAIN s : i # j => s[i].address # s[j].address
    /\ \A i \in DOMAIN s : s[i].chain = s[i].asked

\* The form f, its calls D, the addresses T that are registered, and the tweet.
RegistrationOK(f, D, T, found) ==
    /\ f \in FormType
    /\ ListOK(f.proven)
    /\ f.done => ProvenAddresses(f) \subseteq T
    /\ f.tweet = "ok" => found
    /\ \A d \in D : DoingOK(d, f)
    /\ \A c, d \in D : c.does # "check" /\ d.does # "check" => c = d
    /\ f.open \/ D = {}

RegistroOK ==
    /\ RegistrationOK(form, doing, taken, verified)
    /\ installed \subseteq Brands /\ verified \in BOOLEAN

LEMMA BlankFormOK == BlankForm \in FormType /\ BlankForm.proven = <<>> /\ BlankForm.tweet = "idle" /\ ~BlankForm.done
  BY DEF BlankForm, FormType

LEMMA BlankOK == ASSUME NEW T, NEW found PROVE RegistrationOK(BlankForm, {}, T, found)
  BY BlankFormOK DEF RegistrationOK, ListOK, ProvenAddresses

\* The fields that nobody relies on.
SameList(f, g) ==
    /\ f.proven = g.proven /\ f.busy = g.busy /\ f.done = g.done /\ f.tweet = g.tweet
    /\ f.open = g.open

LEMMA SameListOK ==
    ASSUME NEW f \in FormType, NEW g, NEW D, NEW T, NEW found,
           RegistrationOK(g, D, T, found), SameList(f, g)
    PROVE  RegistrationOK(f, D, T, found)
<1>1. ProvenAddresses(f) = ProvenAddresses(g)
  BY DEF SameList, ProvenAddresses
<1>2. ASSUME NEW d \in D PROVE DoingOK(d, f)
  BY <1>1 DEF RegistrationOK, DoingOK, SameList
<1> QED
  BY <1>1, <1>2 DEF RegistrationOK, SameList

LEMMA OnFormOK ==
    ASSUME RegistroOK, NEW f \in FormType, OnForm(f), SameList(f, form) PROVE RegistroOK'
  BY SameListOK DEF RegistroOK, OnForm

LEMMA RowChainsOK ==
    ASSUME NEW b \in Brands
    PROVE  /\ Announced(b) \subseteq RowChains /\ SupportedChains(b) \subseteq RowChains
           /\ FirstChoice(b) \in RowChains
           /\ \A c \in RowChains : ChoiceFor(b, c) \in RowChains
           /\ \A c \in Offerable(b) : ChoiceFor(b, c) = c /\ c \in RowChains
<1>1. Announced(b) \subseteq {"solana", FirstEvm}
  BY DEF Announced
<1>2. Announced(b) \subseteq RowChains /\ FirstChoice(b) \in RowChains
  BY <1>1 DEF FirstChoice, RowChains
<1>3. SupportedChains(b) \subseteq RowChains
  BY <1>2 DEF SupportedChains, RowChains
<1>4. \A c \in RowChains : ChoiceFor(b, c) \in RowChains
  BY <1>2 DEF ChoiceFor
<1>5. \A c \in Offerable(b) : ChoiceFor(b, c) = c /\ c \in RowChains
  BY <1>3 DEF ChoiceFor, Offerable
<1> QED
  BY <1>2, <1>3, <1>4, <1>5

\* A connection begins when nothing else of the form's is on its way.
LEMMA ConnectWithOK ==
    ASSUME RegistroOK, form.open, ~form.busy, ~form.done, NEW b \in Brands, NEW c \in RowChains, ConnectWith(form, b, c, c)
    PROVE  RegistroOK'
<1>0. form \in FormType
  BY DEF RegistroOK, RegistrationOK
<1>1. PICK row \in Brands \cup {NoChoice} : row = IF form.picking THEN NoChoice ELSE form.chosen
  BY <1>0 DEF FormType
<1>2. PICK f : f = [form EXCEPT !.picking = FALSE, !.chosen = row, !.error = FALSE, !.busy = TRUE]
  OBVIOUS
<1>3. /\ f \in FormType /\ f.busy /\ ~f.done /\ f.proven = form.proven /\ f.tweet = form.tweet
      /\ f.open = form.open
  BY <1>0, <1>2 DEF FormType
<1>4. PICK d : d = [does |-> "connect", brand |-> b, chain |-> c, asked |-> c, saw |-> ProvenAddresses(form)]
  OBVIOUS
<1>5. ProvenAddresses(f) = ProvenAddresses(form)
  BY <1>3 DEF ProvenAddresses
<1>6. DoingOK(d, f)
  BY <1>3, <1>4, <1>5 DEF DoingOK
<1>7. ASSUME NEW e \in doing PROVE e.does = "check" /\ DoingOK(e, f)
  BY <1>7 DEF RegistroOK, RegistrationOK, DoingOK
<1>8. RegistrationOK(f, doing \cup {d}, taken, verified)
  BY <1>3, <1>5, <1>6, <1>7 DEF RegistroOK, RegistrationOK
<1>9. form' = f /\ doing' = doing \cup {d} /\ UNCHANGED <<installed, taken, spent, verified>>
  BY <1>0, <1>1, <1>2, <1>4 DEF ConnectWith, ProvenAddresses, FormType
<1> QED
  BY <1>8, <1>9 DEF RegistroOK

LEMMA FieldOK ==
    ASSUME RegistroOK, NEW f, OnForm(f),
           \/ \E seen \in SUBSET Brands : f = [form EXCEPT !.found = seen]
           \/ \E row \in Brands \cup {NoChoice} : f = [form EXCEPT !.chosen = row]
           \/ f = [form EXCEPT !.picking = FALSE]
           \/ f = [form EXCEPT !.error = TRUE]
           \/ f = [form EXCEPT !.error = FALSE, !.picking = TRUE, !.found = {}]
           \/ \E open \in SUBSET Int : f = [form EXCEPT !.public = open]
           \/ f = form
    PROVE  RegistroOK'
<1>1. form \in FormType
  BY DEF RegistroOK, RegistrationOK
<1>2. f \in FormType /\ SameList(f, form)
  BY <1>1 DEF FormType, SameList
<1> QED
  BY <1>2, OnFormOK

LEMMA PressRowOK == ASSUME RegistroOK, NEW b \in Brands, PressRow(b) PROVE RegistroOK'
<1>1. form.open /\ ~form.busy /\ ~form.done
  BY DEF PressRow, RowEnabled, InWalletStep
<1>2. PICK row : row \in {Offerable(b), SupportedChains(b)} /\
         \/ OnForm(form) \/ OnForm([form EXCEPT !.chosen = b])
         \/ ConnectWith(form, b, FirstChoice(b), FirstChoice(b))
         \/ \E c \in row : ConnectWith(form, b, ChoiceFor(b, c), ChoiceFor(b, c))
  BY DEF PressRow
<1>3. row \subseteq RowChains
  BY <1>2, RowChainsOK DEF Offerable
<1>4. CASE OnForm(form)
  BY <1>4, FieldOK
<1>5. CASE OnForm([form EXCEPT !.chosen = b])
  BY <1>5, FieldOK
<1>6. CASE ConnectWith(form, b, FirstChoice(b), FirstChoice(b))
  BY <1>1, <1>6, RowChainsOK, ConnectWithOK
<1>7. ASSUME NEW c \in row, ConnectWith(form, b, ChoiceFor(b, c), ChoiceFor(b, c)) PROVE RegistroOK'
  BY <1>1, <1>3, <1>7, RowChainsOK, ConnectWithOK
<1> QED
  BY <1>2, <1>4, <1>5, <1>6, <1>7

LEMMA PressChainOK == ASSUME RegistroOK, NEW c, PressChain(c) PROVE RegistroOK'
<1>1. /\ form.open /\ ~form.busy /\ ~form.done /\ form.chosen \in Brands /\ c \in Offerable(form.chosen)
      /\ ConnectWith(form, form.chosen, ChoiceFor(form.chosen, c), c)
  BY DEF PressChain, RowEnabled, InWalletStep, RegistroOK, RegistrationOK, FormType
<1>2. PICK b \in Brands : b = form.chosen
  BY <1>1
<1>3. ChoiceFor(b, c) = c /\ c \in RowChains
  BY <1>1, <1>2, RowChainsOK
<1> QED
  BY <1>1, <1>2, <1>3, ConnectWithOK

LEMMA AddAnotherOK == ASSUME RegistroOK, AddAnother PROVE RegistroOK'
<1>1. form.open /\ ~form.busy /\ ~form.done /\ installed \subseteq Brands
  BY DEF AddAnother, RowEnabled, RegistroOK
<1>2. PICK choices : choices = {p \in installed \X Chains0 : p[2] \in Announced(p[1])}
  OBVIOUS
<1>3. \/ OnForm([form EXCEPT !.error = TRUE])
      \/ \E p \in choices : ConnectWith(form, p[1], p[2], p[2])
      \/ OnForm([form EXCEPT !.error = FALSE, !.picking = TRUE, !.found = {}])
  BY <1>2 DEF AddAnother
<1>4. ASSUME NEW p \in choices, ConnectWith(form, p[1], p[2], p[2]) PROVE RegistroOK'
  <2>1. PICK b \in Brands, c \in RowChains : b = p[1] /\ c = p[2]
    BY <1>1, <1>2, <1>4 DEF RowChains
  <2> QED
    BY <1>1, <1>4, <2>1, ConnectWithOK
<1> QED
  BY <1>3, <1>4, FieldOK

\* A call of the form's that ends and leaves the list as it was.
LEMMA EndsOK ==
    ASSUME RegistroOK, NEW d \in doing, d.does # "check", doing' = doing \ {d},
           NEW f \in FormType, form' = f, f.proven = form.proven, f.tweet = form.tweet, f.open = form.open,
           taken \subseteq taken', f.done => ProvenAddresses(form) \subseteq taken',
           UNCHANGED <<installed, verified>>
    PROVE  RegistroOK'
<1>1. ProvenAddresses(f) = ProvenAddresses(form)
  BY DEF ProvenAddresses
<1>2. ASSUME NEW e \in doing \ {d} PROVE DoingOK(e, f) /\ e.does = "check"
  BY <1>2 DEF RegistroOK, RegistrationOK, DoingOK
<1>3. PICK T : T = taken'
  OBVIOUS
<1>4. RegistrationOK(f, doing \ {d}, T, verified)
  BY <1>1, <1>2, <1>3 DEF RegistroOK, RegistrationOK
<1> QED
  BY <1>3, <1>4 DEF RegistroOK

LEMMA ConnectFailsOK == ASSUME RegistroOK, NEW d \in doing, ConnectFails(d) PROVE RegistroOK'
<1>1. PICK f : f = [form EXCEPT !.error = TRUE, !.busy = FALSE]
  OBVIOUS
<1>2. form \in FormType /\ ~form.done
  BY DEF RegistroOK, RegistrationOK, DoingOK, ConnectFails
<1>3. f \in FormType /\ f.proven = form.proven /\ f.tweet = form.tweet /\ f.open = form.open /\ ~f.done
  BY <1>1, <1>2 DEF FormType
<1> QED
  BY <1>1, <1>3, EndsOK DEF ConnectFails

LEMMA ConnectSucceedsOK == ASSUME RegistroOK, NEW d \in doing, ConnectSucceeds(d) PROVE RegistroOK'
<1>1. form \in FormType /\ DoingOK(d, form) /\ d.does = "connect" /\ ~form.done /\ ListOK(form.proven)
  BY DEF RegistroOK, RegistrationOK, DoingOK, ConnectSucceeds
<1>2. PICK h \in {"solana", "evm"} : h = HandshakeOf(d.chain)
  BY DEF HandshakeOf
<1>3. PICK a : a = AddressOf[<<d.brand, h>>]
  OBVIOUS
<1>4. PICK e : e = [address |-> a, chain |-> d.chain, asked |-> d.asked]
  OBVIOUS
<1>5. e \in ProofType /\ e.address = a /\ e.chain = e.asked
  BY <1>1, <1>3, <1>4 DEF ProofType, GivenAddresses, DoingOK
<1>6. a \notin ProvenAddresses(form)
  BY <1>1, <1>2, <1>3 DEF ConnectSucceeds, DoingOK
<1>7. PICK s : s = Append(form.proven, e)
  OBVIOUS
<1>8. /\ s \in Seq(ProofType) /\ DOMAIN s = 1 .. Len(form.proven) + 1 /\ DOMAIN form.proven = 1 .. Len(form.proven)
      /\ Len(form.proven) \in Nat
      /\ \A i \in 1 .. Len(form.proven) : s[i] = form.proven[i]
      /\ s[Len(form.proven) + 1] = e
  BY <1>1, <1>5, <1>7 DEF FormType
<1>9. ListOK(s)
  <2>1. ASSUME NEW i \in DOMAIN s PROVE i \in DOMAIN form.proven \/ (s[i] = e /\ i = Len(form.proven) + 1)
    BY <1>8, <2>1
  <2>2. \A i \in DOMAIN form.proven : form.proven[i].address # e.address
    BY <1>5, <1>6 DEF ProvenAddresses
  <2> QED
    BY <1>1, <1>5, <1>8, <2>1, <2>2 DEF ListOK
<1>10. PICK f : f = [form EXCEPT !.busy = FALSE, !.proven = s, !.chosen = NoChoice]
  OBVIOUS
<1>11. f \in FormType /\ f.proven = s /\ f.tweet = form.tweet /\ f.open = form.open /\ ~f.done
  BY <1>1, <1>8, <1>10 DEF FormType
<1>12. ASSUME NEW c \in doing \ {d} PROVE DoingOK(c, f) /\ c.does = "check"
  BY <1>1, <1>12 DEF RegistroOK, RegistrationOK, DoingOK
<1>13. RegistrationOK(f, doing \ {d}, taken, verified)
  BY <1>9, <1>11, <1>12 DEF RegistroOK, RegistrationOK
<1>14. form' = f /\ doing' = doing \ {d} /\ UNCHANGED <<installed, taken, spent, verified>>
  BY <1>2, <1>3, <1>4, <1>7, <1>10 DEF ConnectSucceeds
<1> QED
  BY <1>13, <1>14 DEF RegistroOK

LEMMA SubmitFormOK == ASSUME RegistroOK, SubmitForm PROVE RegistroOK'
<1>0. form \in FormType /\ form.open /\ ~form.busy /\ ~form.done
  BY DEF RegistroOK, RegistrationOK, SubmitForm, RowEnabled
<1>1. PICK f : f = [form EXCEPT !.error = FALSE, !.busy = TRUE]
  OBVIOUS
<1>2. /\ f \in FormType /\ f.busy /\ ~f.done /\ f.proven = form.proven /\ f.tweet = form.tweet
      /\ f.open = form.open
  BY <1>0, <1>1 DEF FormType
<1>3. PICK d : d = [does |-> "submit", of |-> ProvenAddresses(form)]
  OBVIOUS
<1>4. ProvenAddresses(f) = ProvenAddresses(form)
  BY <1>2 DEF ProvenAddresses
<1>5. DoingOK(d, f)
  BY <1>2, <1>3, <1>4 DEF DoingOK
<1>6. ASSUME NEW e \in doing PROVE e.does = "check" /\ DoingOK(e, f)
  BY <1>0, <1>6 DEF RegistroOK, RegistrationOK, DoingOK
<1>7. RegistrationOK(f, doing \cup {d}, taken, verified)
  <2>1. ListOK(f.proven) /\ (f.tweet = "ok" => verified) /\ f.open
    BY <1>0, <1>2 DEF RegistroOK, RegistrationOK
  <2> QED
    BY <1>2, <1>5, <1>6, <2>1 DEF RegistrationOK
<1>8. form' = f /\ doing' = doing \cup {d} /\ UNCHANGED <<installed, taken, spent, verified>>
  BY <1>1, <1>3 DEF SubmitForm, ProvenAddresses
<1> QED
  BY <1>7, <1>8 DEF RegistroOK

LEMMA SubmitEndsOK == ASSUME RegistroOK, NEW d \in doing, SubmitEnds(d) PROVE RegistroOK'
<1>1. form \in FormType /\ DoingOK(d, form) /\ d.does = "submit" /\ ~form.done /\ d.of = ProvenAddresses(form)
  BY DEF RegistroOK, RegistrationOK, DoingOK, SubmitEnds
<1>2. PICK f : /\ form' = f /\ taken \subseteq taken'
               /\ \/ f = [form EXCEPT !.done = TRUE, !.busy = FALSE] /\ d.of \subseteq taken'
                  \/ f = [form EXCEPT !.error = TRUE, !.busy = FALSE]
                  \/ f = [form EXCEPT !.busy = FALSE]
  BY DEF SubmitEnds, Registered, RefusedEarly, RefusedLate
<1>3. f \in FormType /\ f.proven = form.proven /\ f.tweet = form.tweet /\ f.open = form.open
  BY <1>1, <1>2 DEF FormType
<1>4. f.done => d.of \subseteq taken'
  BY <1>1, <1>2 DEF FormType
<1> QED
  BY <1>1, <1>2, <1>3, <1>4, EndsOK DEF SubmitEnds

LEMMA CheckTweetOK == ASSUME RegistroOK, CheckTweet PROVE RegistroOK'
<1>1. PICK n \in 1 .. MaxChecks : doing' = doing \cup {[does |-> "check", n |-> n]}
  BY DEF CheckTweet
<1>2. PICK d : d = [does |-> "check", n |-> n]
  OBVIOUS
<1>3. d.does = "check" /\ DoingOK(d, form)
  BY <1>2 DEF DoingOK
<1>4. RegistrationOK(form, doing \cup {d}, taken, verified)
  BY <1>3 DEF RegistroOK, RegistrationOK, CheckTweet
<1> QED
  BY <1>1, <1>2, <1>4 DEF CheckTweet, RegistroOK

LEMMA CheckEndsOK == ASSUME RegistroOK, NEW d \in doing, CheckEnds(d) PROVE RegistroOK'
<1>0. form \in FormType /\ verified \in BOOLEAN /\ UNCHANGED <<installed, taken, spent>> /\ doing' = doing \ {d}
  BY DEF RegistroOK, RegistrationOK, CheckEnds
<1>1. PICK f, v : /\ form' = f /\ verified' = v /\ v \in BOOLEAN /\ (verified => v)
                  /\ \/ v /\ f = [form EXCEPT !.tweet = "ok"]
                     \/ f = [form EXCEPT !.tweet = "error"]
                     \/ f = form
  BY <1>0 DEF CheckEnds
<1>2. /\ f \in FormType /\ f.proven = form.proven /\ f.busy = form.busy /\ f.done = form.done
      /\ f.open = form.open
      /\ f.tweet = "ok" => v \/ form.tweet = "ok"
  BY <1>0, <1>1 DEF FormType
<1>3. ProvenAddresses(f) = ProvenAddresses(form)
  BY <1>2 DEF ProvenAddresses
<1>4. ASSUME NEW e \in doing \ {d} PROVE DoingOK(e, f)
  BY <1>2, <1>3 DEF RegistroOK, RegistrationOK, DoingOK
<1>5. RegistrationOK(f, doing \ {d}, taken, v)
  BY <1>1, <1>2, <1>3, <1>4 DEF RegistroOK, RegistrationOK
<1> QED
  BY <1>0, <1>1, <1>5 DEF RegistroOK

LEMMA RegistroInitOK == RegistroInit => RegistroOK
  BY BlankOK DEF RegistroInit, RegistroOK

LEMMA RegistroStepOK == RegistroOK /\ [RegistroNext]_registroVars => RegistroOK'
<1> SUFFICES ASSUME RegistroOK, [RegistroNext]_registroVars PROVE RegistroOK'
  OBVIOUS
<1>0. form \in FormType /\ installed \subseteq Brands
  BY DEF RegistroOK, RegistrationOK
<1>1. CASE UNCHANGED registroVars
  BY <1>1 DEF registroVars, RegistroOK
<1>2. CASE OpenDialog
  <2>1. PICK f : f = [BlankForm EXCEPT !.open = TRUE]
    OBVIOUS
  <2>2. f \in FormType /\ f.proven = <<>> /\ f.tweet = "idle" /\ ~f.done
    BY <2>1, BlankFormOK DEF FormType
  <2>3. doing = {}
    BY <1>2 DEF OpenDialog, RegistroOK, RegistrationOK
  <2>4. RegistrationOK(f, doing, taken, verified)
    BY <2>2, <2>3 DEF RegistrationOK, ListOK, ProvenAddresses
  <2> QED
    BY <1>2, <2>1, <2>4 DEF OpenDialog, OnForm, RegistroOK
<1>3. CASE CloseDialog
  <2>1. PICK T : T = taken'
    OBVIOUS
  <2>2. RegistrationOK(BlankForm, {}, T, FALSE)
    BY BlankOK
  <2> QED
    BY <1>3, <2>1, <2>2 DEF CloseDialog, RegistroOK
<1>4. CASE InstallExtension
  BY <1>4 DEF InstallExtension, RegistroOK
<1>5. CASE FindWallets
  BY <1>0, <1>5, FieldOK DEF FindWallets
<1>6. CASE GoBack
  BY <1>0, <1>6, FieldOK DEF GoBack
<1>7. ASSUME NEW i \in 1 .. MaxProven, ToggleVisibility(i) PROVE RegistroOK'
  <2>0. PICK s : s = IF i \in form.public THEN form.public \ {i} ELSE form.public \cup {i}
    OBVIOUS
  <2>1. s \in SUBSET Int
    BY <1>0, <2>0, RegistroAssumption DEF FormType
  <2>2. OnForm([form EXCEPT !.public = s])
    <3>1. OnForm([form EXCEPT !.public = IF i \in form.public THEN form.public \ {i} ELSE form.public \cup {i}])
      BY <1>7, Zenon DEF ToggleVisibility
    <3> QED
      BY <2>0, <3>1, Zenon
  <2> QED
    BY <2>1, <2>2, FieldOK
<1> QED
  BY <1>1, <1>2, <1>3, <1>4, <1>5, <1>6, <1>7, AddAnotherOK, PressRowOK, PressChainOK, SubmitFormOK,
     CheckTweetOK, ConnectFailsOK, ConnectSucceedsOK, SubmitEndsOK, CheckEndsOK
     DEF RegistroNext

LEMMA RegistroImplies == RegistroOK => RegistroIsSound
<1> SUFFICES ASSUME RegistroOK PROVE RegistroIsSound
  OBVIOUS
<1>1. \A i \in DOMAIN form.proven : form.proven[i].address \in ProvenAddresses(form)
  BY DEF ProvenAddresses
<1> QED
  BY <1>1 DEF RegistroOK, RegistrationOK, ListOK, RegistroIsSound

\* The dialog of the registration holds no address twice, each with a signature for the
\* chain whose row was pressed, and says it is done only when the server has them all; for
\* any extensions, addresses and chains.
THEOREM RegistroSafe == RegistroSpec => []RegistroIsSound
  BY RegistroInitOK, RegistroStepOK, RegistroImplies, PTL DEF RegistroSpec

-----------------------------------------------------------------------------
(* ProfilePage.                                                            *)

ViewType ==
    [profile : BOOLEAN, shown : Owned, opened : BOOLEAN, busy : BOOLEAN, working : SUBSET OwnWallets]
LoadType == [at : {"sent", "answered"}, ok : BOOLEAN, profile : Owned]
ChangeType ==
    [does : {"eye", "all", "paste", "prove", "pnl"}, to : BOOLEAN, of : SUBSET OwnWallets,
     live : BOOLEAN, heard : BOOLEAN, id : ChangeIds]

\* The modal v and its changes C: the modal waits for one of its own at most, and what
\* any of them will show is still wanted.
ChangesOK(v, C, m, wanted) ==
    /\ v \in ViewType /\ C \subseteq ChangeType /\ m \in Owned /\ wanted \subseteq OwnWallets
    /\ \A c \in C : c.live /\ c.does # "prove" => v.busy
    /\ \A c, d \in C : c.live /\ d.live /\ c.does # "prove" /\ d.does # "prove" => c = d
    /\ \A c \in C : Shown(c) \subseteq wanted
    /\ m.public \subseteq wanted

LoadsOK(L) == DOMAIN L \subseteq LoadIds /\ \A i \in DOMAIN L : L[i] \in LoadType

ProfileOK ==
    /\ ChangesOK(view, change, mine, wants)
    /\ LoadsOK(loads) /\ signedIn \in BOOLEAN

LEMMA ProfileWords ==
    /\ NobodyIn \in Owned /\ NobodyIn.public = {}
    /\ FirstView \in ViewType /\ Asked0 \in LoadType /\ FirstLoad \in LoadIds
<1>1. NobodyIn \in Owned /\ NobodyIn.public = {}
  BY DEF NobodyIn, Owned
<1>2. FirstView \in ViewType /\ Asked0 \in LoadType
  BY <1>1 DEF FirstView, ViewType, Asked0, LoadType
<1>3. FirstLoad \in LoadIds
  BY ProfileAssumption DEF FirstLoad
<1> QED
  BY <1>1, <1>2, <1>3

LEMMA OneLoadOK == LoadsOK([j \in {FirstLoad} |-> Asked0])
  BY ProfileWords DEF LoadsOK

LEMMA ProfileInitOK == ProfileInit => ProfileOK
<1> SUFFICES ASSUME ProfileInit PROVE ProfileOK
  OBVIOUS
<1>1. mine \in Owned /\ mine.public = {}
  <2>1. PICK w \in SUBSET OwnWallets : mine = [NobodyIn EXCEPT !.wallets = w, !.proven = w]
    BY DEF ProfileInit
  <2> QED
    BY <2>1, ProfileWords DEF Owned
<1> QED
  BY <1>1, ProfileWords, OneLoadOK DEF ProfileInit, ProfileOK, ChangesOK

\* The fields that nobody relies on.
LEMMA ViewFieldsOK ==
    ASSUME ProfileOK, NEW v \in ViewType, view' = v, v.busy = view.busy,
           UNCHANGED <<change, mine, wants, signedIn>>, LoadsOK(loads')
    PROVE  ProfileOK'
<1>1. ChangesOK(v, change, mine, wants)
  BY DEF ProfileOK, ChangesOK
<1> QED
  BY <1>1 DEF ProfileOK

\* The modal goes.
LEMMA UnmountOK ==
    ASSUME ProfileOK, NEW v \in ViewType, view' = v, Unmount,
           UNCHANGED <<mine, wants, signedIn>>, LoadsOK(loads')
    PROVE  ProfileOK'
<1>1. PICK C : C = {[c EXCEPT !.live = FALSE] : c \in change}
  OBVIOUS
<1>2. ChangesOK(view, change, mine, wants)
  BY DEF ProfileOK
<1>3. ASSUME NEW d \in C PROVE d \in ChangeType /\ ~d.live /\ Shown(d) \subseteq wants
  <2>1. PICK c \in change : d = [c EXCEPT !.live = FALSE]
    BY <1>1, <1>3
  <2>2. c \in ChangeType /\ Shown(c) \subseteq wants
    BY <1>2 DEF ChangesOK
  <2>3. d \in ChangeType /\ ~d.live /\ d.does = c.does /\ d.to = c.to /\ d.of = c.of
    BY <2>1, <2>2 DEF ChangeType
  <2> QED
    BY <2>2, <2>3 DEF Shown
<1>4. ChangesOK(v, C, mine, wants)
  BY <1>2, <1>3 DEF ChangesOK
<1> QED
  BY <1>1, <1>4 DEF ProfileOK, Unmount

LEMMA ForgetOK == ASSUME LoadsOK(loads), NEW i, Forget(i) PROVE LoadsOK(loads')
  BY DEF LoadsOK, Forget

LEMMA DeliverLoadOK == ASSUME ProfileOK, NEW i \in LoadIds, DeliverLoad(i) PROVE ProfileOK'
<1>1. /\ LoadsOK(loads') /\ i \in DOMAIN loads /\ UNCHANGED <<mine, signedIn, wants>>
      /\ view \in ViewType /\ loads[i] \in LoadType
  BY ForgetOK DEF DeliverLoad, ProfileOK, LoadsOK, ChangesOK
<1>2. CASE view' = [view EXCEPT !.profile = TRUE, !.shown = loads[i].profile] /\ UNCHANGED change
  <2>1. PICK p \in Owned : p = loads[i].profile
    BY <1>1 DEF LoadType
  <2>2. PICK v : v = [view EXCEPT !.profile = TRUE, !.shown = p]
    OBVIOUS
  <2>3. v \in ViewType /\ v.busy = view.busy
    BY <1>1, <2>2 DEF ViewType
  <2>4. view' = v
    BY <1>2, <2>1, <2>2
  <2> QED
    BY <1>1, <1>2, <2>3, <2>4, ViewFieldsOK
<1>3. CASE view' = SignedOutView /\ Unmount
  <2>1. PICK v : v = SignedOutView
    OBVIOUS
  <2>2. v \in ViewType
    BY <1>1, <2>1, ProfileWords DEF SignedOutView, ViewType
  <2> QED
    BY <1>1, <1>3, <2>1, <2>2, UnmountOK
<1> QED
  BY <1>2, <1>3 DEF DeliverLoad

LEMMA AnswerLoadOK == ASSUME ProfileOK, NEW i \in LoadIds, AnswerLoad(i) PROVE ProfileOK'
<1>1. PICK a : a = [at |-> "answered", ok |-> signedIn, profile |-> IF signedIn THEN mine ELSE NobodyIn]
  OBVIOUS
<1>2. a \in LoadType
  BY <1>1, ProfileWords DEF LoadType, ProfileOK, ChangesOK
<1>3. loads' = [loads EXCEPT ![i] = a]
  BY <1>1 DEF AnswerLoad
<1>4. LoadsOK(loads')
  BY <1>2, <1>3 DEF LoadsOK, ProfileOK
<1> QED
  BY <1>4 DEF AnswerLoad, ProfileOK

LEMMA LeaveSessionOK == ASSUME ProfileOK, LeaveSession PROVE ProfileOK'
<1>1. ChangesOK(FirstView, {}, mine, wants)
  BY ProfileWords DEF ProfileOK, ChangesOK
<1>2. LoadsOK(loads')
  BY OneLoadOK DEF LeaveSession
<1> QED
  BY <1>1, <1>2 DEF LeaveSession, ProfileOK

\* A change that begins when no other of the modal's own is on its way.
LEMMA ModalCallOK ==
    ASSUME ProfileOK, ~view.busy, NEW c \in ChangeType, c.live, Call(c) PROVE ProfileOK'
<1>1. PICK v : v = [view EXCEPT !.busy = TRUE]
  OBVIOUS
<1>2. v \in ViewType /\ v.busy
  BY <1>1 DEF ProfileOK, ChangesOK, ViewType
<1>3. PICK w : w = wants \cup Shown(c)
  OBVIOUS
<1>4. wants \subseteq w /\ w \subseteq OwnWallets /\ Shown(c) \subseteq w
  BY <1>3 DEF ProfileOK, ChangesOK, ChangeType, Shown
<1>5. ChangesOK(v, change \cup {c}, mine, w)
  BY <1>2, <1>4 DEF ProfileOK, ChangesOK
<1>6. view' = v /\ change' = change \cup {c} /\ wants' = w /\ UNCHANGED <<loads, mine, signedIn>>
  BY <1>1, <1>3 DEF Call
<1> QED
  BY <1>5, <1>6 DEF ProfileOK

\* What is sent has a number of its own.
LEMMA SentOK ==
    ASSUME NEW does \in {"eye", "all", "paste", "prove", "pnl"}, NEW to \in BOOLEAN,
           NEW of \in SUBSET OwnWallets, FreeChanges # {}
    PROVE  Sent(does, to, of) \in ChangeType /\ Sent(does, to, of).live /\ Sent(does, to, of).does = does
           /\ Sent(does, to, of).to = to
<1>1. PICK i : i = CHOOSE j \in FreeChanges : TRUE
  OBVIOUS
<1>2. i \in ChangeIds
  BY <1>1 DEF FreeChanges
<1> QED
  BY <1>1, <1>2 DEF Sent, ChangeType

LEMMA PressOK ==
    ASSUME ProfileOK,
           NEW does \in {"eye", "all", "paste", "pnl"}, NEW to \in BOOLEAN, NEW of \in SUBSET OwnWallets,
           Pressable(view), Call(Sent(does, to, of))
    PROVE  ProfileOK'
<1>1. PICK c : c = Sent(does, to, of)
  OBVIOUS
<1>2. c \in ChangeType /\ c.live
  BY <1>1, SentOK DEF Call
<1> QED
  BY <1>1, <1>2, ModalCallOK DEF Pressable

LEMMA PressValidateOK == ASSUME ProfileOK, NEW w \in OwnWallets, PressValidate(w) PROVE ProfileOK'
<1>1. PICK c : c = Sent("prove", FALSE, {w})
  OBVIOUS
<1>2. c \in ChangeType /\ c.live /\ c.does = "prove" /\ Shown(c) = {}
  <2>1. PICK to \in BOOLEAN, of \in SUBSET OwnWallets : to = FALSE /\ of = {w}
    OBVIOUS
  <2>2. FreeChanges # {}
    BY DEF PressValidate
  <2>3. c \in ChangeType /\ c.live /\ c.does = "prove"
    BY <1>1, <2>1, <2>2, SentOK
  <2> QED
    BY <2>3 DEF Shown
<1>3. PICK v : v = [view EXCEPT !.working = @ \cup {w}]
  OBVIOUS
<1>4. v \in ViewType /\ v.busy = view.busy
  BY <1>3 DEF ProfileOK, ChangesOK, ViewType
<1>5. ChangesOK(v, change \cup {c}, mine, wants)
  BY <1>2, <1>4 DEF ProfileOK, ChangesOK
<1> QED
  BY <1>1, <1>3, <1>5 DEF PressValidate, ProfileOK

\* What a change does to the rows.
LEMMA AppliedOK ==
    ASSUME NEW m \in Owned, NEW c \in ChangeType
    PROVE  Applied(m, c) \in Owned /\ Applied(m, c).public \subseteq (m.public \cup Shown(c)) \ Hidden(c)
<1>0. /\ c.does \in {"eye", "all", "paste", "prove", "pnl"} /\ c.of \subseteq OwnWallets /\ c.to \in BOOLEAN
      /\ m.public \subseteq OwnWallets
  BY DEF ChangeType, Owned
<1>1. CASE c.does = "eye"
  <2>1. PICK p : p = IF c.to THEN m.public \cup (c.of \cap m.wallets) ELSE m.public \ c.of
    OBVIOUS
  <2>2. Applied(m, c) = [m EXCEPT !.public = p]
    BY <1>1, <2>1 DEF Applied, SetVisible, Owned
  <2>3. p \subseteq OwnWallets
    BY <1>0, <2>1 DEF Owned
  <2>4. Applied(m, c) \in Owned /\ Applied(m, c).public = p
    BY <2>2, <2>3 DEF Owned
  <2> QED
    BY <1>0, <1>1, <2>1, <2>4 DEF Shown, Hidden
<1>2. CASE c.does = "all"
  <2>1. Applied(m, c) = [m EXCEPT !.public = {}]
    BY <1>2 DEF Applied
  <2> QED
    BY <1>0, <1>2, <2>1 DEF Owned, Shown, Hidden
<1>3. CASE c.does = "paste"
  <2>1. PICK x \in SUBSET OwnWallets : x = m.wallets \cup c.of
    BY <1>0 DEF Owned
  <2>2. Applied(m, c) = [m EXCEPT !.wallets = x]
    BY <1>3, <2>1 DEF Applied
  <2> QED
    BY <1>0, <1>3, <2>2 DEF Owned, Shown, Hidden
<1>4. CASE c.does = "prove"
  <2>1. PICK x \in SUBSET OwnWallets : x = m.proven \cup (c.of \cap m.wallets)
    BY <1>0 DEF Owned
  <2>2. Applied(m, c) = [m EXCEPT !.proven = x]
    BY <1>4, <2>1 DEF Applied
  <2> QED
    BY <1>0, <1>4, <2>2 DEF Owned, Shown, Hidden
<1>5. CASE c.does = "pnl"
  <2>1. Applied(m, c) = m
    BY <1>5 DEF Applied
  <2> QED
    BY <1>0, <1>5, <2>1 DEF Shown, Hidden
<1> QED
  BY <1>0, <1>1, <1>2, <1>3, <1>4, <1>5

\* The finally.
LEMMA FinishedOK ==
    ASSUME ProfileOK, NEW c \in change
    PROVE  /\ Finished(c) \in ViewType
           /\ \A d \in change \ {c} : d.live /\ d.does # "prove" => Finished(c).busy
<1>1. view \in ViewType /\ ChangesOK(view, change, mine, wants)
  BY DEF ProfileOK, ChangesOK
<1>2. CASE ~c.live
  <2>1. Finished(c) = view
    BY <1>2 DEF Finished
  <2> QED
    BY <1>1, <2>1 DEF ChangesOK
<1>3. CASE c.live /\ c.does = "prove"
  <2>1. Finished(c) = [view EXCEPT !.working = @ \ c.of]
    BY <1>3 DEF Finished
  <2>2. Finished(c) \in ViewType /\ Finished(c).busy = view.busy
    BY <1>1, <2>1 DEF ViewType
  <2> QED
    BY <1>1, <2>2 DEF ChangesOK
<1>4. CASE c.live /\ c.does # "prove"
  <2>1. Finished(c) = [view EXCEPT !.busy = FALSE]
    BY <1>4 DEF Finished
  <2>2. Finished(c) \in ViewType
    BY <1>1, <2>1 DEF ViewType
  <2>3. \A d \in change \ {c} : ~(d.live /\ d.does # "prove")
    BY <1>1, <1>4 DEF ChangesOK
  <2> QED
    BY <2>2, <2>3
<1> QED
  BY <1>2, <1>3, <1>4

\* Hiding leaves what the other changes show: the modal that waits for the hide waits for
\* no other change of its own.
LEMMA HiddenOK ==
    ASSUME ProfileOK, NEW c \in change, ServerApplies(c) \/ ServerRefuses
    PROVE  /\ mine' \in Owned /\ wants' \subseteq OwnWallets /\ mine'.public \subseteq wants'
           /\ \A d \in change \ {c} : Shown(d) \subseteq wants'
<1>1. /\ c \in ChangeType /\ mine \in Owned /\ mine.public \subseteq wants /\ Shown(c) \subseteq wants
      /\ wants \subseteq OwnWallets /\ \A d \in change : Shown(d) \subseteq wants
  BY DEF ProfileOK, ChangesOK
<1>2. CASE ServerRefuses
  BY <1>1, <1>2 DEF ServerRefuses
<1>3. CASE ServerApplies(c)
  <2>1. mine' = Applied(mine, c) /\ wants' = wants \ (Hidden(c) \ StillAsked(c))
    BY <1>3 DEF ServerApplies
  <2>2. Applied(mine, c) \in Owned /\ Applied(mine, c).public \subseteq (mine.public \cup Shown(c)) \ Hidden(c)
    BY <1>1, AppliedOK
  <2>3. ASSUME NEW d \in change \ {c} PROVE Shown(d) \subseteq wants \ (Hidden(c) \ StillAsked(c))
    <3>1. CASE ~(d.live /\ c.live)
      <4>1. Shown(d) \subseteq StillAsked(c)
        BY <3>1 DEF StillAsked
      <4> QED
        BY <1>1, <4>1
    <3>2. CASE d.live /\ c.live
      <4>1. c.does = "prove" \/ d.does = "prove"
        BY <2>3, <3>2 DEF ProfileOK, ChangesOK
      <4>2. Hidden(c) = {} \/ Shown(d) = {}
        BY <4>1 DEF Hidden, Shown
      <4> QED
        BY <1>1, <4>2
    <3> QED
      BY <3>1, <3>2
  <2> QED
    BY <1>1, <2>1, <2>2, <2>3
<1> QED
  BY <1>2, <1>3

\* A change that ends, done or not, or that is no longer waited for.
LEMMA ChangeEndsOK ==
    ASSUME ProfileOK, NEW c \in change, ServerApplies(c) \/ ServerRefuses,
           NEW v \in ViewType, view' = v, \A d \in change \ {c} : d.live /\ d.does # "prove" => v.busy,
           NEW D, D = {} \/ (D = {[c EXCEPT !.live = FALSE, !.heard = FALSE]} /\ ServerRefuses),
           change' = (change \ {c}) \cup D, UNCHANGED signedIn, LoadsOK(loads')
    PROVE  ProfileOK'
<1>0. c \in ChangeType /\ ChangesOK(view, change, mine, wants)
  BY DEF ProfileOK, ChangesOK
<1>1. PICK m, w : m = mine' /\ w = wants'
  OBVIOUS
<1>2. /\ m \in Owned /\ w \subseteq OwnWallets /\ m.public \subseteq w
      /\ \A d \in change \ {c} : Shown(d) \subseteq w
  BY <1>1, HiddenOK
<1>3. ASSUME NEW d \in D PROVE d \in ChangeType /\ ~d.live /\ Shown(d) \subseteq w
  <2>1. d = [c EXCEPT !.live = FALSE, !.heard = FALSE] /\ w = wants
    BY <1>1, <1>3 DEF ServerRefuses
  <2>2. d \in ChangeType /\ ~d.live /\ d.does = c.does /\ d.to = c.to /\ d.of = c.of
    BY <1>0, <2>1 DEF ChangeType
  <2>3. Shown(c) \subseteq wants
    BY <1>0 DEF ChangesOK
  <2> QED
    BY <2>1, <2>2, <2>3 DEF Shown
<1>4. PICK C : C = (change \ {c}) \cup D
  OBVIOUS
<1>5. ChangesOK(v, C, m, w)
  BY <1>0, <1>2, <1>3, <1>4 DEF ChangesOK
<1> QED
  BY <1>1, <1>4, <1>5 DEF ProfileOK

LEMMA SendLoadOK == ASSUME LoadsOK(loads), NEW i \in LoadIds, SendLoad(i) PROVE LoadsOK(loads')
  BY ProfileWords DEF LoadsOK, SendLoad

LEMMA ProfileStepOK == ProfileOK /\ [ProfileNext]_profileVars => ProfileOK'
<1> SUFFICES ASSUME ProfileOK, [ProfileNext]_profileVars PROVE ProfileOK'
  OBVIOUS
<1>0. view \in ViewType /\ LoadsOK(loads)
  BY DEF ProfileOK, ChangesOK
<1>1. CASE UNCHANGED profileVars
  BY <1>1 DEF profileVars, ProfileOK
<1>2. CASE OpenProfile
  <2>1. PICK v : v = [view EXCEPT !.opened = TRUE]
    OBVIOUS
  <2>2. v \in ViewType /\ v.busy = view.busy
    BY <1>0, <2>1 DEF ViewType
  <2> QED
    BY <1>0, <1>2, <2>1, <2>2, ViewFieldsOK DEF OpenProfile
<1>3. CASE CloseProfile
  <2>1. PICK v : v = [view EXCEPT !.opened = FALSE, !.busy = FALSE, !.working = {}]
    OBVIOUS
  <2>2. v \in ViewType
    BY <1>0, <2>1 DEF ViewType
  <2> QED
    BY <1>0, <1>3, <2>1, <2>2, UnmountOK DEF CloseProfile
<1>5. CASE PressHideAll
  <2>1. PICK to \in BOOLEAN, of \in SUBSET OwnWallets : to = FALSE /\ of = {}
    OBVIOUS
  <2> QED
    BY <1>5, <2>1, PressOK DEF PressHideAll
<1>6. CASE PressPnl
  <2>1. PICK to \in BOOLEAN, of \in SUBSET OwnWallets : to = FALSE /\ of = {}
    OBVIOUS
  <2> QED
    BY <1>6, <2>1, PressOK DEF PressPnl
<1>7. ASSUME NEW w \in OwnWallets, PressEye(w) PROVE ProfileOK'
  <2>1. PICK to \in BOOLEAN : to = (w \notin view.shown.public)
    OBVIOUS
  <2> QED
    BY <1>7, <2>1, PressOK DEF PressEye
<1>8. ASSUME NEW w \in OwnWallets, PressPaste(w) PROVE ProfileOK'
  BY <1>8, PressOK DEF PressPaste
<1>9. ASSUME NEW c \in change, ChangeSucceeds(c) PROVE ProfileOK'
  <2>1. (CHOOSE i \in FreeLoads : TRUE) \in LoadIds
    BY <1>9 DEF ChangeSucceeds, FreeLoads
  <2>2. LoadsOK(loads')
    BY <1>0, <1>9, <2>1, SendLoadOK DEF ChangeSucceeds
  <2>3. PICK v, D : v = Finished(c) /\ D = {}
    OBVIOUS
  <2>4. v \in ViewType /\ \A d \in change \ {c} : d.live /\ d.does # "prove" => v.busy
    BY <2>3, FinishedOK
  <2>5. /\ ServerApplies(c) \/ ServerRefuses
        /\ view' = v /\ change' = (change \ {c}) \cup D /\ UNCHANGED signedIn
    BY <1>9, <2>3 DEF ChangeSucceeds
  <2> QED
    BY <2>2, <2>3, <2>4, <2>5, ChangeEndsOK
<1>10. ASSUME NEW c \in change, ChangeFails(c) \/ LoseTrack(c) PROVE ProfileOK'
  <2>1. PICK v : v = Finished(c)
    OBVIOUS
  <2>2. v \in ViewType /\ \A d \in change \ {c} : d.live /\ d.does # "prove" => v.busy
    BY <2>1, FinishedOK
  <2>3. view' = v /\ UNCHANGED signedIn /\ LoadsOK(loads') /\ (ServerApplies(c) \/ ServerRefuses)
    BY <1>0, <1>10, <2>1 DEF ChangeFails, LoseTrack
  <2>4. PICK D : /\ D = {} \/ (D = {[c EXCEPT !.live = FALSE, !.heard = FALSE]} /\ ServerRefuses)
                 /\ change' = (change \ {c}) \cup D
    <3>1. change' = change \ {c} => change' = (change \ {c}) \cup {}
      OBVIOUS
    <3> QED
      BY <1>10, <3>1 DEF ChangeFails, LoseTrack
  <2> QED
    BY <2>2, <2>3, <2>4, ChangeEndsOK
<1>11. ASSUME NEW c \in change, LandsLate(c) PROVE ProfileOK'
  <2>1. PICK v, D : v = view /\ D = {}
    OBVIOUS
  <2>2. v \in ViewType /\ \A d \in change \ {c} : d.live /\ d.does # "prove" => v.busy
    BY <2>1 DEF ProfileOK, ChangesOK
  <2>3. /\ ServerApplies(c) \/ ServerRefuses
        /\ view' = v /\ change' = (change \ {c}) \cup D /\ UNCHANGED signedIn /\ LoadsOK(loads')
    BY <1>0, <1>11, <2>1 DEF LandsLate
  <2> QED
    BY <2>1, <2>2, <2>3, ChangeEndsOK
<1> QED
  BY <1>1, <1>2, <1>3, <1>5, <1>6, <1>7, <1>8, <1>9, <1>10, <1>11, DeliverLoadOK, AnswerLoadOK,
     LeaveSessionOK, PressValidateOK
     DEF ProfileNext

LEMMA ProfileImplies == ProfileOK => ProfileTypeOK /\ PublicIsWanted
  BY DEF ProfileOK, ChangesOK, LoadsOK, ProfileTypeOK, PublicIsWanted, ViewType, LoadType, ChangeType

\* However far the profile on the screen is behind the server and in whatever order its
\* loads are answered, what is public is what its owner asked to be shown.
THEOREM ProfilePageSafe == ProfileSpec => [](ProfileTypeOK /\ PublicIsWanted)
  BY ProfileInitOK, ProfileStepOK, ProfileImplies, PTL DEF ProfileSpec

-----------------------------------------------------------------------------
(* Avatar.                                                                 *)

EntryType == [kind : {"nothing", "image", "letter", "refusal"}, age : Ages]

\* What the cache has, e, was drawn no later than what it stands for was so: of a KOL who
\* was listed then, and the monogram of one who had no picture.
EntryOK(e, away, could) ==
    /\ e \in EntryType /\ e.kind # "refusal"
    /\ e.kind = "nothing" => e = NoEntry
    /\ e.kind = "letter" => could <= e.age
    /\ e.kind \in {"image", "letter"} => away <= e.age

ShownOK(s, away, could) ==
    /\ s \in {"nothing", "image", "letter", "refusal", "limited"}
    /\ s = "letter" => could <= LetterFresh + LetterStale
    /\ s \in {"image", "letter"} => away <= ImageFresh + ImageStale

AvatarOK ==
    /\ listed \in BOOLEAN /\ override \in {"none", "https", "other"} /\ picture \in [Upstreams -> BOOLEAN]
    /\ unlisted \in Ages /\ able \in Ages
    /\ listed => unlisted = 0
    /\ ReadAvatar # "image" => able = 0
    /\ EntryOK(edge, unlisted, able)
    /\ ShownOK(shown, unlisted, able)

LEMMA AvatarAges == /\ 0 \in Ages /\ \A n \in Ages : n \in Nat /\ n <= MaxAge
                    /\ \A n \in Nat : n <= MaxAge => n \in Ages
                    /\ NoEntry \in EntryType /\ NoEntry.kind = "nothing"
  BY LifetimesAssumption DEF Ages, NoEntry, EntryType

\* An entry in use is younger than the lifetimes of its kind.
LEMMA UsableAge ==
    ASSUME EntryOK(edge, unlisted, able), Usable
    PROVE  /\ edge.kind \in {"image", "letter"} /\ edge.age \in Nat
           /\ edge.age < ImageFresh + ImageStale
           /\ edge.kind = "letter" => edge.age < LetterFresh + LetterStale
<1>1. edge.kind \in {"image", "letter"} /\ edge.age \in Nat
  BY AvatarAges DEF EntryOK, EntryType, Usable
<1>2. CASE edge.kind = "image"
  <2>1. Lifetime(edge.kind) = <<ImageFresh, ImageStale>>
    BY <1>2 DEF Lifetime
  <2> QED
    BY <1>1, <1>2, <2>1 DEF Usable
<1>3. CASE edge.kind = "letter"
  <2>1. Lifetime(edge.kind) = <<LetterFresh, LetterStale>>
    BY <1>3 DEF Lifetime
  <2>2. edge.age < LetterFresh + LetterStale
    BY <2>1 DEF Usable
  <2> QED
    BY <1>1, <1>3, <2>2, LifetimesAssumption
<1> QED
  BY <1>1, <1>2, <1>3

\* What the route draws now may be kept.
LEMMA KeptOK == ASSUME AvatarOK PROVE EntryOK(Kept(ReadAvatar), unlisted, able)
<1>1. /\ ReadAvatar \in {"refusal", "image", "letter"} /\ (ReadAvatar # "refusal" => unlisted = 0)
      /\ (ReadAvatar = "letter" => able = 0)
  BY DEF AvatarOK, ReadAvatar
<1>2. CASE ReadAvatar = "refusal"
  <2>1. Kept(ReadAvatar) = NoEntry
    BY <1>2 DEF Kept, Lifetime
  <2> QED
    BY <2>1, AvatarAges DEF EntryOK
<1>3. CASE ReadAvatar \in {"image", "letter"}
  <2>1. Kept(ReadAvatar) \in {NoEntry, [kind |-> ReadAvatar, age |-> 0]}
    BY DEF Kept
  <2>2. EntryOK([kind |-> ReadAvatar, age |-> 0], unlisted, able)
    BY <1>1, <1>3, AvatarAges DEF EntryOK, EntryType
  <2>3. EntryOK(NoEntry, unlisted, able)
    BY AvatarAges DEF EntryOK
  <2> QED
    BY <2>1, <2>2, <2>3
<1> QED
  BY <1>1, <1>2, <1>3

LEMMA SameReading ==
    ASSUME UNCHANGED <<listed, override, picture>> PROVE ReadAvatar' = ReadAvatar
  BY DEF ReadAvatar, UpstreamFor

LEMMA NoEntryOK == \A away, could : EntryOK(NoEntry, away, could)
  BY AvatarAges DEF EntryOK

LEMMA FromEdgeOK == ASSUME AvatarOK, FromEdge PROVE AvatarOK'
<1>1. UNCHANGED <<listed, override, picture, unlisted, able>> /\ shown' = edge.kind /\ Usable
  BY DEF FromEdge
<1>2. EntryOK(edge, unlisted, able) /\ unlisted \in Nat /\ able \in Nat
  BY AvatarAges DEF AvatarOK
<1>3. ShownOK(edge.kind, unlisted, able)
  BY <1>1, <1>2, UsableAge, LifetimesAssumption DEF ShownOK, EntryOK
<1>4. PICK e : edge' = e /\ e \in {edge, NoEntry, Kept(ReadAvatar)}
  BY DEF FromEdge
<1>5. EntryOK(e, unlisted, able)
  BY <1>2, <1>4, KeptOK, NoEntryOK
<1> QED
  BY <1>1, <1>3, <1>4, <1>5, SameReading DEF AvatarOK

LEMMA FromOriginOK == ASSUME AvatarOK, FromOrigin PROVE AvatarOK'
<1>1. UNCHANGED <<listed, override, picture, unlisted, able>>
  BY DEF FromOrigin
<1>2. PICK e, s : edge' = e /\ e = Kept(ReadAvatar) /\ shown' = s /\ s = ReadAvatar
  BY DEF FromOrigin
<1>3. EntryOK(e, unlisted, able)
  BY <1>2, KeptOK
<1>4. ShownOK(s, unlisted, able)
  BY <1>2, LifetimesAssumption DEF AvatarOK, ShownOK, ReadAvatar
<1> QED
  BY <1>1, <1>2, <1>3, <1>4, SameReading DEF AvatarOK

LEMMA RefusedOK == ASSUME AvatarOK, Refused PROVE AvatarOK'
<1>1. PICK s \in {"limited", "refusal"} : shown' = s
  BY DEF Refused
<1>2. ShownOK(s, unlisted, able)
  BY <1>1 DEF ShownOK
<1> QED
  BY <1>1, <1>2, SameReading DEF AvatarOK, Refused

LEMMA NothingShownOK == ASSUME NEW away, NEW could PROVE ShownOK("nothing", away, could)
  BY DEF ShownOK

LEMMA OlderOK == ASSUME NEW n \in Ages PROVE Older(n) \in Ages /\ Older(n) <= n + 1
  BY LifetimesAssumption, AvatarAges DEF Older

LEMMA AvatarTickOK == ASSUME AvatarOK, AvatarTick PROVE AvatarOK'
<1>1. UNCHANGED <<listed, override, picture>> /\ shown' = "nothing" /\ edge \in EntryType
  BY DEF AvatarTick, AvatarOK, EntryOK
<1>2. PICK away, could, e :
         /\ unlisted' = away /\ away = IF listed THEN 0 ELSE Older(unlisted)
         /\ able' = could /\ could = IF ReadAvatar = "image" THEN Older(able) ELSE 0
         /\ edge' = e /\ e = IF Usable THEN [edge EXCEPT !.age = @ + 1] ELSE NoEntry
  BY DEF AvatarTick
<1>3. away \in Ages /\ could \in Ages /\ away <= unlisted + 1 /\ could <= able + 1
      /\ unlisted \in Nat /\ able \in Nat /\ away \in Nat /\ could \in Nat
  BY <1>2, OlderOK, AvatarAges DEF AvatarOK
<1>4. EntryOK(e, away, could)
  <2>1. CASE ~Usable
    BY <1>2, <2>1, NoEntryOK
  <2>2. CASE Usable
    <3>1. /\ edge.kind \in {"image", "letter"} /\ edge.age \in Nat /\ edge.age < ImageFresh + ImageStale
          /\ unlisted <= edge.age /\ (edge.kind = "letter" => able <= edge.age)
      BY <2>2, UsableAge DEF AvatarOK, EntryOK
    <3>2. PICK n : n = edge.age + 1
      OBVIOUS
    <3>3. n \in Ages /\ away <= n /\ (edge.kind = "letter" => could <= n)
      BY <1>3, <3>1, <3>2, LifetimesAssumption, AvatarAges
    <3>4. e = [edge EXCEPT !.age = n]
      BY <1>2, <2>2, <3>2
    <3>5. e \in EntryType /\ e.kind = edge.kind /\ e.age = n
      BY <1>1, <3>3, <3>4 DEF EntryType
    <3> QED
      BY <3>1, <3>3, <3>5 DEF EntryOK
  <2> QED
    BY <2>1, <2>2
<1>5. ShownOK("nothing", away, could)
  BY NothingShownOK
<1> QED
  BY <1>1, <1>2, <1>3, <1>4, <1>5, SameReading DEF AvatarOK

\* What is listed or drawn changes, and the time of it begins anew.
LEMMA AnewOK ==
    ASSUME AvatarOK, able' = 0, shown' = "nothing", UNCHANGED edge, unlisted' \in {unlisted, 0},
           listed' \in BOOLEAN, override' \in {"none", "https", "other"}, picture' \in [Upstreams -> BOOLEAN],
           listed' => unlisted' = 0
    PROVE  AvatarOK'
<1>1. PICK away : unlisted' = away /\ away \in {unlisted, 0}
  OBVIOUS
<1>2. unlisted \in Nat /\ able \in Nat /\ unlisted \in Ages /\ edge.age \in Nat /\ EntryOK(edge, unlisted, able)
  BY AvatarAges DEF AvatarOK, EntryOK, EntryType
<1>3. EntryOK(edge, away, 0)
  BY <1>1, <1>2 DEF EntryOK
<1>4. ShownOK("nothing", away, 0)
  BY NothingShownOK
<1> QED
  BY <1>1, <1>2, <1>3, <1>4, AvatarAges DEF AvatarOK

LEMMA AvatarListOK == ASSUME AvatarOK, List PROVE AvatarOK'
  BY AnewOK DEF List, AvatarOK

LEMMA UpstreamOK == ASSUME AvatarOK, Upstream PROVE AvatarOK'
  BY AnewOK DEF Upstream, AvatarOK

LEMMA AvatarInitOK == AvatarInit => AvatarOK
<1> SUFFICES ASSUME AvatarInit PROVE AvatarOK
  OBVIOUS
<1>1. EntryOK(NoEntry, 0, 0) /\ ShownOK("nothing", 0, 0)
  BY NoEntryOK, NothingShownOK
<1> QED
  BY <1>1, AvatarAges DEF AvatarInit, AvatarOK

LEMMA AvatarStepOK == AvatarOK /\ [AvatarNext]_avatarVars => AvatarOK'
<1>1. ASSUME AvatarOK, UNCHANGED avatarVars PROVE AvatarOK'
  BY <1>1, SameReading DEF avatarVars, AvatarOK
<1> QED
  BY <1>1, FromEdgeOK, FromOriginOK, RefusedOK, AvatarTickOK, AvatarListOK, UpstreamOK DEF AvatarNext

LEMMA AvatarImplies == AvatarOK => AvatarTypeOK /\ AvatarIsOfNow
  BY DEF AvatarOK, EntryOK, ShownOK, EntryType, AvatarTypeOK, AvatarIsOfNow

\* Whatever the cache at the edge does within the lifetimes it is told, a monogram, a
\* picture and a suspended KOL go away in time; for any lifetimes of which the monogram's
\* is the shorter.
THEOREM AvatarSafe == AvatarSpec => [](AvatarTypeOK /\ AvatarIsOfNow)
  BY AvatarInitOK, AvatarStepOK, AvatarImplies, PTL DEF AvatarSpec

-----------------------------------------------------------------------------
(* All of them.                                                            *)

\* Whatever is pressed while an answer is on its way, on any page, what is shown is what
\* was asked.
THEOREM ScreensSafe == ScreensSpec => []ScreensShowWhatIsAsked
  BY ModalSafe, OneVerdictAtATime, AdminScreenSafe, RegistroSafe, ProfilePageSafe, AvatarSafe, PTL
     DEF ScreensSpec, ScreensShowWhatIsAsked

-----------------------------------------------------------------------------
(* SuiteLock.                                                              *)

SuiteType == [step : Steps, at : 0 .. LastMoment, line : SUBSET Ticket, reused : BOOLEAN]
Names == [at : 0 .. LastMoment, id : Suites]

\* A ticket t of a run s that lives: it is the one the run has now.
TicketOK(t, s) ==
    \/ s.step = "dead"
    \/ t.at = s.at /\ s.step \in {"writing", "waiting", "looking", "turn", "opened"}

\* Whether the run s of id p should have its ticket in Q, and whether it has.
Expected(s) == s.step \in {"writing", "waiting", "looking", "turn"}
HasFile(p, s, Q) == \E t \in Q : t.id = p /\ t.at = s.at

\* The run s of id p among the runs S, with the tickets Q, of which those of H were seen
\* half written, at the moment m.
PlaceOK(p, s, S, Q, H, m) ==
    /\ s.at <= m /\ (s.step \in InLine => m - s.at <= Cap + Lag)
    /\ s.step \in {"looking", "turn", "opened"} => \A t \in s.line : t.id = p => t.at = s.at
    /\ s.step = "looking" => \A t \in s.line : t.whole \/ [at |-> t.at, id |-> t.id] \in H
    /\ s.step \in {"turn", "opened"} =>
          \A t \in s.line : t.whole /\ t.id # p =>
              \/ s.at < t.at \/ (s.at = t.at /\ p < t.id)
              \/ S[t.id].step = "dead"
              \/ m - t.at > 2 * Cap
    /\ Expected(s) => HasFile(p, s, Q) \/ [at |-> s.at, id |-> p] \in H

LineOK(S, Q, H, m) ==
    /\ S \in [Suites -> SuiteType] /\ Q \subseteq Ticket /\ H \subseteq Names /\ m \in 0 .. LastMoment
    /\ \A p \in Suites : PlaceOK(p, S[p], S, Q, H, m)
    /\ \A t \in Q : TicketOK(t, S[t.id])

SuiteOK == LineOK(suite, queue, seenHalf, moment)

\* The numbers in play.
LEMMA NumbersAre ==
    /\ \A p \in Suites : p \in Nat
    /\ \A t \in Ticket : t.at \in Nat /\ t.id \in Suites /\ t.id \in Nat /\ t.at \in 0 .. LastMoment
    /\ \A s \in SuiteType : s.at \in Nat /\ s.at \in 0 .. LastMoment /\ s.line \subseteq Ticket
    /\ Cap \in Nat /\ Lag \in Nat /\ Lag <= Cap /\ LastMoment \in Nat
<1>1. \A p \in Suites : p \in Nat
  BY SuitesAssumption
<1>2. \A t \in Ticket : t.at \in Nat /\ t.id \in Suites /\ t.at \in 0 .. LastMoment
  BY DEF Ticket
<1>3. \A s \in SuiteType : s.at \in Nat /\ s.at \in 0 .. LastMoment /\ s.line \subseteq Ticket
  BY DEF SuiteType
<1>4. Cap \in Nat /\ Lag \in Nat /\ Lag <= Cap /\ LastMoment \in Nat
  BY CapAssumption
<1> QED
  BY <1>1, <1>2, <1>3, <1>4

\* One run goes on as s, and the tickets of the others stay, but for those that were seen
\* half written.
LEMMA SuiteGoesOn ==
    ASSUME NEW S, NEW Q, NEW H, NEW m, LineOK(S, Q, H, m),
           NEW p \in Suites, NEW s \in SuiteType, S[p].step # "dead",
           NEW R, R \subseteq Ticket, NEW K, H \subseteq K, K \subseteq Names,
           \A t \in R : t.id # p => t \in Q,
           \A t \in R : t.id = p => TicketOK(t, s),
           PlaceOK(p, s, S, R, K, m),
           \A q \in Suites : q # p /\ Expected(S[q]) /\ HasFile(q, S[q], Q)
                                => HasFile(q, S[q], R) \/ [at |-> S[q].at, id |-> q] \in K
    PROVE  LineOK([S EXCEPT ![p] = s], R, K, m)
<1>1. PICK T : T = [S EXCEPT ![p] = s]
  OBVIOUS
<1>2. T \in [Suites -> SuiteType] /\ T[p] = s /\ \A q \in Suites : q # p => T[q] = S[q]
  BY <1>1 DEF LineOK
<1>3. \A q \in Suites : S[q].step = "dead" => T[q].step = "dead"
  BY <1>2
<1>4. ASSUME NEW q \in Suites, q # p PROVE PlaceOK(q, T[q], T, R, K, m)
  <2>1. T[q] = S[q] /\ PlaceOK(q, S[q], S, Q, H, m) /\ S[q] \in SuiteType
    BY <1>2, <1>4 DEF LineOK
  <2>2. ASSUME S[q].step \in {"turn", "opened"}, NEW t \in S[q].line, t.whole, t.id # q
        PROVE  S[q].at < t.at \/ (S[q].at = t.at /\ q < t.id) \/ T[t.id].step = "dead" \/ m - t.at > 2 * Cap
    <3>1. t.id \in Suites
      BY <2>1, <2>2, NumbersAre
    <3> QED
      BY <1>3, <2>1, <2>2, <3>1 DEF PlaceOK
  <2>3. S[q].step = "looking" => \A t \in S[q].line : t.whole \/ [at |-> t.at, id |-> t.id] \in K
    BY <2>1 DEF PlaceOK
  <2>4. Expected(S[q]) => HasFile(q, S[q], R) \/ [at |-> S[q].at, id |-> q] \in K
    BY <1>4, <2>1 DEF PlaceOK
  <2> QED
    BY <2>1, <2>2, <2>3, <2>4 DEF PlaceOK
<1>5. PlaceOK(p, T[p], T, R, K, m)
  <2>1. ASSUME s.step \in {"turn", "opened"}, NEW t \in s.line, t.whole, t.id # p
        PROVE  s.at < t.at \/ (s.at = t.at /\ p < t.id) \/ T[t.id].step = "dead" \/ m - t.at > 2 * Cap
    <3>1. t.id \in Suites
      BY <2>1, NumbersAre
    <3> QED
      BY <1>3, <2>1, <3>1 DEF PlaceOK
  <2> QED
    BY <1>2, <2>1 DEF PlaceOK
<1>6. ASSUME NEW t \in R PROVE TicketOK(t, T[t.id])
  <2>1. t.id \in Suites
    BY <1>6, NumbersAre
  <2> QED
    BY <1>2, <1>6, <2>1 DEF LineOK
<1>7. LineOK(T, R, K, m)
  BY <1>2, <1>4, <1>5, <1>6 DEF LineOK
<1> QED
  BY <1>1, <1>7

\* What is known of a run that lives, and of its tickets.
LEMMA SuiteIs ==
    ASSUME SuiteOK, NEW p \in Suites
    PROVE  /\ suite \in [Suites -> SuiteType] /\ suite[p] \in SuiteType
           /\ PlaceOK(p, suite[p], suite, queue, seenHalf, moment)
           /\ queue \subseteq Ticket /\ seenHalf \subseteq Names /\ moment \in 0 .. LastMoment
           /\ \A t \in queue : t.id \in Suites /\ TicketOK(t, suite[t.id])
           /\ \A t \in queue : t.id = p /\ suite[p].step # "dead" => t \in FileOf(p)
  BY NumbersAre DEF SuiteOK, LineOK, TicketOK, FileOf

\* The tickets but those of the run itself stay.
LEMMA OthersKeepFiles ==
    ASSUME SuiteOK, NEW p \in Suites, NEW R, \A t \in queue : t.id # p => t \in R
    PROVE  \A q \in Suites : q # p /\ Expected(suite[q]) /\ HasFile(q, suite[q], queue) => HasFile(q, suite[q], R)
  BY DEF HasFile

\* A run leaves the line, and none of its tickets stays.
LEMMA GoesAway ==
    ASSUME SuiteOK, NEW p \in Suites, suite[p].step # "dead", NEW R, R \subseteq queue \ FileOf(p),
           \A q \in Suites : q # p /\ Expected(suite[q]) /\ HasFile(q, suite[q], queue)
                                => HasFile(q, suite[q], R) \/ NameOf(q) \in seenHalf,
           NEW s \in SuiteType, s.step \in {"away", "holding"}, s.at \in {0, suite[p].at},
           suite' = [suite EXCEPT ![p] = s], queue' = R, UNCHANGED <<moment, seenHalf>>
    PROVE  SuiteOK'
<1>1. s.at <= moment
  <2>1. moment \in 0 .. LastMoment
    BY SuiteIs
  <2>2. suite[p].at <= moment
    BY SuiteIs DEF PlaceOK
  <2>3. 0 <= moment
    BY <2>1, NumbersAre
  <2> QED
    BY <2>2, <2>3
<1>2. PlaceOK(p, s, suite, R, seenHalf, moment)
  BY <1>1 DEF PlaceOK, InLine, Expected
<1>3. \A t \in R : t.id # p
  BY SuiteIs
<1>4. LineOK(suite, queue, seenHalf, moment) /\ R \subseteq Ticket /\ seenHalf \subseteq Names
  BY SuiteIs DEF SuiteOK
<1>5. \A t \in R : t.id # p => t \in queue
  OBVIOUS
<1>6. \A t \in R : t.id = p => TicketOK(t, s)
  BY <1>3
<1>7. \A q \in Suites : q # p /\ Expected(suite[q]) /\ HasFile(q, suite[q], queue)
                           => HasFile(q, suite[q], R) \/ [at |-> suite[q].at, id |-> q] \in seenHalf
  BY DEF NameOf
<1>8. LineOK([suite EXCEPT ![p] = s], R, seenHalf, moment)
  BY <1>2, <1>4, <1>5, <1>6, <1>7, SuiteGoesOn
<1> QED
  BY <1>8 DEF SuiteOK

LEMMA AwayIs == Away \in SuiteType /\ Away.step = "away" /\ Away.at = 0 /\ Away.line = {}
  BY CapAssumption DEF Away, SuiteType, Steps

\* A run goes on and the tickets stay.
LEMMA WalksOn ==
    ASSUME SuiteOK, NEW p \in Suites, suite[p].step # "dead", NEW s \in SuiteType,
           PlaceOK(p, s, suite, queue, seenHalf, moment),
           \A t \in queue : t.id = p => TicketOK(t, s),
           suite' = [suite EXCEPT ![p] = s], UNCHANGED <<moment, queue, seenHalf>>
    PROVE  SuiteOK'
<1>1. LineOK(suite, queue, seenHalf, moment) /\ queue \subseteq Ticket /\ seenHalf \subseteq Names
  BY SuiteIs DEF SuiteOK
<1>2. \A t \in queue : t.id # p => t \in queue
  OBVIOUS
<1>3. LineOK([suite EXCEPT ![p] = s], queue, seenHalf, moment)
  BY <1>1, <1>2, SuiteGoesOn
<1> QED
  BY <1>3 DEF SuiteOK

LEMMA AskOK == ASSUME SuiteOK, NEW p \in Suites, Ask(p) PROVE SuiteOK'
<1>1. PICK s : s = [Away EXCEPT !.step = "named", !.at = moment]
  OBVIOUS
<1>2. s \in SuiteType /\ s.step = "named" /\ s.at = moment /\ s.line = {}
  BY <1>1, SuiteIs, CapAssumption DEF Away, SuiteType, Steps
<1>3. PlaceOK(p, s, suite, queue, seenHalf, moment)
  BY <1>2, NumbersAre DEF PlaceOK, Expected
<1>4. \A t \in queue : t.id # p
  BY SuiteIs DEF Ask, TicketOK
<1>5. suite' = [suite EXCEPT ![p] = s]
  BY <1>1 DEF Ask
<1> QED
  BY <1>2, <1>3, <1>4, <1>5, WalksOn DEF Ask

\* A run enters another of its steps.
LEMMA WalkIs ==
    ASSUME SuiteOK, NEW p \in Suites, NEW step \in Steps, Walk(p, step)
    PROVE  \E s \in SuiteType :
              /\ suite' = [suite EXCEPT ![p] = s]
              /\ s.step = step /\ s.at = suite[p].at /\ s.line = suite[p].line
<1>1. PICK s : s = [suite[p] EXCEPT !.step = step]
  OBVIOUS
<1>2. s \in SuiteType /\ s.step = step /\ s.at = suite[p].at /\ s.line = suite[p].line
  BY <1>1, SuiteIs DEF SuiteType
<1> QED
  BY <1>1, <1>2 DEF Walk

\* A run goes on with tickets of its own that are written anew.
LEMMA WritesOn ==
    ASSUME SuiteOK, NEW p \in Suites, suite[p].step # "dead", NEW s \in SuiteType,
           NEW F, F \subseteq Ticket, \A t \in F : t.id = p /\ t.at = suite[p].at,
           s.at = suite[p].at, s.step \in {"writing", "waiting"},
           F # {} \/ NameOf(p) \in seenHalf,
           suite[p].step \in InLine,
           suite' = [suite EXCEPT ![p] = s], queue' = (queue \ FileOf(p)) \cup F, UNCHANGED <<moment, seenHalf>>
    PROVE  SuiteOK'
<1>1. PICK R : R = (queue \ FileOf(p)) \cup F
  OBVIOUS
<1>2. \A t \in R : t.id = p => t \in F
  BY <1>1, SuiteIs
<1>3. \A t \in R : t.id # p => t \in queue
  BY <1>1
<1>4. \A t \in R : t.id = p => TicketOK(t, s)
  BY <1>2 DEF TicketOK
<1>5. \A t \in queue : t.id # p => t \in R
  BY <1>1 DEF FileOf
<1>6. HasFile(p, s, R) \/ [at |-> s.at, id |-> p] \in seenHalf
  BY <1>1 DEF HasFile, NameOf
<1>7. PlaceOK(p, s, suite, R, seenHalf, moment)
  BY <1>6, SuiteIs DEF PlaceOK, InLine
<1>8. LineOK(suite, queue, seenHalf, moment) /\ R \subseteq Ticket /\ seenHalf \subseteq Names
  BY <1>1, SuiteIs DEF SuiteOK
<1>9. LineOK([suite EXCEPT ![p] = s], R, seenHalf, moment)
  BY <1>3, <1>4, <1>5, <1>7, <1>8, OthersKeepFiles, SuiteGoesOn
<1> QED
  BY <1>1, <1>9 DEF SuiteOK

LEMMA CreateOK == ASSUME SuiteOK, NEW p \in Suites, CreateTicket(p) PROVE SuiteOK'
<1>1. PICK s \in SuiteType : suite' = [suite EXCEPT ![p] = s] /\ s.step = "writing" /\ s.at = suite[p].at
  BY WalkIs DEF CreateTicket, Steps
<1>2. PICK F : F = {[at |-> suite[p].at, id |-> p, whole |-> FALSE]}
  OBVIOUS
<1>3. F \subseteq Ticket /\ F # {} /\ \A t \in F : t.id = p /\ t.at = suite[p].at
  BY <1>2, SuiteIs, NumbersAre DEF Ticket
<1>4. queue' = (queue \ FileOf(p)) \cup F
  BY <1>2 DEF CreateTicket
<1>5. suite[p].step # "dead" /\ suite[p].step \in InLine
  BY DEF CreateTicket, InLine
<1> QED
  BY <1>1, <1>3, <1>4, <1>5, WritesOn DEF CreateTicket

LEMMA FillOK == ASSUME SuiteOK, NEW p \in Suites, FillTicket(p) PROVE SuiteOK'
<1>1. PICK s \in SuiteType : suite' = [suite EXCEPT ![p] = s] /\ s.step = "waiting" /\ s.at = suite[p].at
  BY WalkIs DEF FillTicket, Steps
<1>2. PICK F : F = {[t EXCEPT !.whole = TRUE] : t \in FileOf(p)}
  OBVIOUS
<1>3. \A t \in FileOf(p) : t \in Ticket /\ t.id = p /\ t.at = suite[p].at
  BY SuiteIs DEF FileOf
<1>4. F \subseteq Ticket /\ \A t \in F : t.id = p /\ t.at = suite[p].at
  BY <1>2, <1>3 DEF Ticket
<1>5. F # {} \/ NameOf(p) \in seenHalf
  <2>1. CASE FileOf(p) = {}
    BY <2>1, SuiteIs DEF PlaceOK, Expected, FillTicket, HasFile, FileOf, NameOf
  <2>2. CASE FileOf(p) # {}
    BY <1>2, <2>2
  <2> QED
    BY <2>1, <2>2
<1>6. queue' = (queue \ FileOf(p)) \cup F
  BY <1>2 DEF FillTicket
<1>7. suite[p].step # "dead" /\ suite[p].step \in InLine
  BY DEF FillTicket, InLine
<1> QED
  BY <1>1, <1>4, <1>5, <1>6, <1>7, WritesOn DEF FillTicket

LEMMA LookOK == ASSUME SuiteOK, NEW p \in Suites, Look(p) PROVE SuiteOK'
<1>1. PICK s : s = [suite[p] EXCEPT !.step = "looking", !.line = queue]
  OBVIOUS
<1>2. s \in SuiteType /\ s.step = "looking" /\ s.at = suite[p].at /\ s.line = queue
  BY <1>1, SuiteIs DEF SuiteType, Steps
<1>3. suite' = [suite EXCEPT ![p] = s] /\ suite[p].step = "waiting" /\ UNCHANGED <<moment, queue>>
  BY <1>1, SuiteIs DEF Look, SuiteType
<1>4. PICK K : K = seenHalf \cup {[at |-> t.at, id |-> t.id] : t \in {u \in queue : ~u.whole}}
  OBVIOUS
<1>5. K \subseteq Names /\ seenHalf \subseteq K
  <2>1. \A t \in queue : [at |-> t.at, id |-> t.id] \in Names
    BY SuiteIs, NumbersAre DEF Names
  <2> QED
    BY <1>4, <2>1, SuiteIs
<1>6. \A t \in queue : t.whole \/ [at |-> t.at, id |-> t.id] \in K
  BY <1>4
<1>7. \A t \in queue : t.id = p => t.at = s.at
  BY <1>2, <1>3, SuiteIs DEF TicketOK
<1>8. PlaceOK(p, s, suite, queue, K, moment)
  BY <1>2, <1>3, <1>5, <1>6, <1>7, SuiteIs DEF PlaceOK, InLine, Expected, HasFile
<1>9. LineOK(suite, queue, seenHalf, moment) /\ queue \subseteq Ticket
  BY SuiteIs DEF SuiteOK
<1>10. \A t \in queue : t.id = p => TicketOK(t, s)
  BY <1>2, <1>7 DEF TicketOK
<1>11. \A t \in queue : t.id # p => t \in queue
  OBVIOUS
<1>12. LineOK([suite EXCEPT ![p] = s], queue, K, moment)
  BY <1>2, <1>3, <1>5, <1>8, <1>9, <1>10, <1>11, SuiteGoesOn
<1>13. seenHalf' = K
  BY <1>4 DEF Look
<1> QED
  BY <1>3, <1>12, <1>13 DEF SuiteOK

\* What a look sweeps away of those that live was seen half written.
LEMMA SweptIs ==
    ASSUME SuiteOK, NEW p \in Suites, suite[p].step = "looking", NEW q \in Suites, Expected(suite[q]),
           HasFile(q, suite[q], queue), NEW R,
           \A t \in queue : (~\E u \in suite[p].line : Rubbish(u) /\ u.at = t.at /\ u.id = t.id) => t \in R
    PROVE  HasFile(q, suite[q], R) \/ NameOf(q) \in seenHalf
<1>1. PICK t \in queue : t.id = q /\ t.at = suite[q].at
  BY DEF HasFile
<1>2. CASE t \in R
  BY <1>1, <1>2 DEF HasFile
<1>3. CASE t \notin R
  <2>1. PICK u \in suite[p].line : Rubbish(u) /\ u.at = suite[q].at /\ u.id = q
    BY <1>1, <1>3
  <2>2. moment - suite[q].at <= Cap + Lag
    BY SuiteIs DEF PlaceOK, Expected, InLine
  <2>3. moment \in Nat /\ suite[q].at \in Nat /\ Cap \in Nat /\ Lag \in Nat /\ Lag <= Cap
    BY SuiteIs, NumbersAre
  <2>4. ~(moment - suite[q].at > 2 * Cap)
    BY <2>2, <2>3
  <2>5. ~u.whole
    BY <2>1, <2>4 DEF Rubbish, Alive, Expected
  <2>6. [at |-> u.at, id |-> u.id] \in seenHalf
    BY <2>5, SuiteIs DEF PlaceOK
  <2> QED
    BY <2>1, <2>6 DEF NameOf
<1> QED
  BY <1>2, <1>3

LEMMA TurnOK == ASSUME SuiteOK, NEW p \in Suites, TakeTurn(p) PROVE SuiteOK'
<1> DEFINE rubbish == {t \in suite[p].line : Rubbish(t)}
           places == suite[p].line \ rubbish
           swept == {t \in queue : \E u \in rubbish : u.at = t.at /\ u.id = t.id}
           ours == \A t \in places : t.id # p => \E u \in places : u.id = p /\ Ahead(u, t)
<1>1. suite[p].step = "looking" /\ UNCHANGED <<moment, lockHolder, seenHalf>>
  BY DEF TakeTurn
<1>2. CASE ours /\ Walk(p, "turn") /\ queue' = queue \ swept
  <2>1. PICK s \in SuiteType :
           /\ suite' = [suite EXCEPT ![p] = s]
           /\ s.step = "turn" /\ s.at = suite[p].at /\ s.line = suite[p].line
    BY <1>2, WalkIs DEF Steps
  <2>2. PICK R : R = queue \ swept
    OBVIOUS
  <2>3. \A t \in queue : (~\E u \in suite[p].line : Rubbish(u) /\ u.at = t.at /\ u.id = t.id) => t \in R
    BY <2>2
  <2>4. \A q \in Suites : Expected(suite[q]) /\ HasFile(q, suite[q], queue)
                             => HasFile(q, suite[q], R) \/ NameOf(q) \in seenHalf
    BY <1>1, <2>3, SweptIs
  <2>5. ASSUME NEW t \in s.line, t.whole, t.id # p
        PROVE  s.at < t.at \/ (s.at = t.at /\ p < t.id) \/ suite[t.id].step = "dead" \/ moment - t.at > 2 * Cap
    <3>1. CASE Rubbish(t)
      BY <2>5, <3>1 DEF Rubbish, Alive
    <3>2. CASE ~Rubbish(t)
      <4>1. t \in places
        BY <2>1, <2>5, <3>2
      <4>2. PICK u \in places : u.id = p /\ Ahead(u, t)
        BY <1>2, <2>5, <4>1
      <4>3. u.at = suite[p].at
        BY <1>1, <4>2, SuiteIs DEF PlaceOK
      <4> QED
        BY <2>1, <4>2, <4>3 DEF Ahead
    <3> QED
      BY <3>1, <3>2
  <2>6. HasFile(p, s, R) \/ [at |-> s.at, id |-> p] \in seenHalf
    <3>1. Expected(suite[p])
      BY <1>1 DEF Expected
    <3>2. HasFile(p, suite[p], queue) \/ NameOf(p) \in seenHalf
      BY <3>1, SuiteIs DEF PlaceOK, NameOf
    <3>3. HasFile(p, suite[p], R) \/ NameOf(p) \in seenHalf
      BY <2>4, <3>1, <3>2
    <3> QED
      BY <2>1, <3>3 DEF HasFile, NameOf
  <2>7. PlaceOK(p, s, suite, R, seenHalf, moment)
    BY <1>1, <2>1, <2>5, <2>6, SuiteIs DEF PlaceOK, InLine
  <2>8. LineOK(suite, queue, seenHalf, moment) /\ R \subseteq Ticket /\ seenHalf \subseteq Names
    BY <2>2, SuiteIs DEF SuiteOK
  <2>9. R \subseteq queue
    BY <2>2
  <2>10. \A t \in R : t.id = p => TicketOK(t, s)
    BY <1>1, <2>1, <2>9, SuiteIs DEF TicketOK
  <2>11. \A t \in R : t.id # p => t \in queue
    BY <2>9
  <2>12. \A q \in Suites : q # p /\ Expected(suite[q]) /\ HasFile(q, suite[q], queue)
                              => HasFile(q, suite[q], R) \/ [at |-> suite[q].at, id |-> q] \in seenHalf
    BY <2>4 DEF NameOf
  <2>13. LineOK([suite EXCEPT ![p] = s], R, seenHalf, moment)
    <3> HIDE DEF rubbish, swept, places, ours
    <3> QED
      BY <1>1, <2>7, <2>8, <2>10, <2>11, <2>12, SuiteGoesOn
  <2>14. queue' = R
    BY <1>2, <2>2
  <2> QED
    BY <1>1, <2>1, <2>13, <2>14 DEF SuiteOK
<1>3. CASE suite' = [suite EXCEPT ![p] = Away] /\ queue' = queue \ (swept \cup FileOf(p))
  <2>1. PICK R : R = queue \ (swept \cup FileOf(p))
    OBVIOUS
  <2>2. PICK Z : Z = queue \ swept
    OBVIOUS
  <2>3. \A t \in queue : (~\E u \in suite[p].line : Rubbish(u) /\ u.at = t.at /\ u.id = t.id) => t \in Z
    BY <2>2
  <2>4. ASSUME NEW q \in Suites, q # p, Expected(suite[q]), HasFile(q, suite[q], queue)
        PROVE  HasFile(q, suite[q], R) \/ NameOf(q) \in seenHalf
    <3>1. HasFile(q, suite[q], Z) \/ NameOf(q) \in seenHalf
      BY <1>1, <2>3, <2>4, SweptIs
    <3>2. \A t \in Z : t.id = q => t \in R
      BY <2>1, <2>2, <2>4 DEF FileOf
    <3> QED
      BY <3>1, <3>2 DEF HasFile
  <2>5. R \subseteq queue \ FileOf(p)
    BY <2>1
  <2>6. queue' = R
    BY <1>3, <2>1
  <2> HIDE DEF rubbish, swept, places, ours
  <2> QED
    BY <1>1, <1>3, <2>4, <2>5, <2>6, AwayIs, GoesAway
<1>4. CASE suite' = [suite EXCEPT ![p].step = "waiting", ![p].line = {}] /\ queue' = queue \ swept
  <2>1. PICK s : s = [suite[p] EXCEPT !.step = "waiting", !.line = {}]
    OBVIOUS
  <2>2. s \in SuiteType /\ s.step = "waiting" /\ s.at = suite[p].at /\ s.line = {}
    BY <2>1, SuiteIs DEF SuiteType, Steps
  <2>3. suite' = [suite EXCEPT ![p] = s]
    BY <1>4, <2>1, SuiteIs DEF SuiteType
  <2>4. PICK R : R = queue \ swept
    OBVIOUS
  <2>5. \A t \in queue : (~\E u \in suite[p].line : Rubbish(u) /\ u.at = t.at /\ u.id = t.id) => t \in R
    BY <2>4
  <2>6. \A q \in Suites : Expected(suite[q]) /\ HasFile(q, suite[q], queue)
                             => HasFile(q, suite[q], R) \/ NameOf(q) \in seenHalf
    BY <1>1, <2>5, SweptIs
  <2>7. HasFile(p, s, R) \/ [at |-> s.at, id |-> p] \in seenHalf
    <3>1. Expected(suite[p])
      BY <1>1 DEF Expected
    <3>2. HasFile(p, suite[p], queue) \/ NameOf(p) \in seenHalf
      BY <3>1, SuiteIs DEF PlaceOK, NameOf
    <3>3. HasFile(p, suite[p], R) \/ NameOf(p) \in seenHalf
      BY <2>6, <3>1, <3>2
    <3> QED
      BY <2>2, <3>3 DEF HasFile, NameOf
  <2>8. PlaceOK(p, s, suite, R, seenHalf, moment)
    BY <1>1, <2>2, <2>7, SuiteIs DEF PlaceOK, InLine
  <2>9. R \subseteq queue /\ queue' = R
    BY <1>4, <2>4
  <2>10. LineOK(suite, queue, seenHalf, moment) /\ R \subseteq Ticket /\ seenHalf \subseteq Names
    BY <2>9, SuiteIs DEF SuiteOK
  <2>11. \A t \in R : t.id = p => TicketOK(t, s)
    BY <1>1, <2>2, <2>9, SuiteIs DEF TicketOK
  <2>12. \A t \in R : t.id # p => t \in queue
    BY <2>9
  <2>13. \A q \in Suites : q # p /\ Expected(suite[q]) /\ HasFile(q, suite[q], queue)
                              => HasFile(q, suite[q], R) \/ [at |-> suite[q].at, id |-> q] \in seenHalf
    BY <2>6 DEF NameOf
  <2>14. LineOK([suite EXCEPT ![p] = s], R, seenHalf, moment)
    <3> HIDE DEF rubbish, swept, places, ours
    <3> QED
      BY <1>1, <2>2, <2>8, <2>10, <2>11, <2>12, <2>13, SuiteGoesOn
  <2> QED
    BY <1>1, <2>3, <2>9, <2>14 DEF SuiteOK
<1> QED
  BY <1>2, <1>3, <1>4 DEF TakeTurn

LEMMA OpenOK == ASSUME SuiteOK, NEW p \in Suites, Open(p) PROVE SuiteOK'
<1>1. PICK s \in SuiteType :
         /\ suite' = [suite EXCEPT ![p] = s]
         /\ s.step = "opened" /\ s.at = suite[p].at /\ s.line = suite[p].line
  BY WalkIs DEF Open, Steps
<1>2. PlaceOK(p, s, suite, queue, seenHalf, moment)
  BY <1>1, SuiteIs DEF PlaceOK, InLine, Expected, Open
<1>3. \A t \in queue : t.id = p => TicketOK(t, s)
  BY <1>1, SuiteIs DEF TicketOK, Open
<1> QED
  BY <1>1, <1>2, <1>3, WalksOn DEF Open

\* A run tears up its ticket.
LEMMA TearsUp ==
    ASSUME SuiteOK, NEW p \in Suites, suite[p].step # "dead", TearUp(p), NEW s \in SuiteType,
           s.step \in {"away", "holding"}, s.at \in {0, suite[p].at},
           suite' = [suite EXCEPT ![p] = s], UNCHANGED <<moment, seenHalf>>
    PROVE  SuiteOK'
<1>1. PICK R : R = queue \ FileOf(p)
  OBVIOUS
<1>2. \A t \in queue : t.id # p => t \in R
  BY <1>1 DEF FileOf
<1>3. \A q \in Suites : q # p /\ Expected(suite[q]) /\ HasFile(q, suite[q], queue)
                           => HasFile(q, suite[q], R) \/ NameOf(q) \in seenHalf
  BY <1>2, OthersKeepFiles
<1>4. queue' = R /\ R \subseteq queue \ FileOf(p)
  BY <1>1 DEF TearUp
<1> QED
  BY <1>3, <1>4, GoesAway

LEMMA BusyOK == ASSUME SuiteOK, NEW p \in Suites, Busy(p) PROVE SuiteOK'
<1>1. CASE suite' = [suite EXCEPT ![p] = Away] /\ TearUp(p)
  BY <1>1, AwayIs, TearsUp DEF Busy
<1>2. CASE suite' = [suite EXCEPT ![p].step = "waiting", ![p].line = {}] /\ UNCHANGED queue
  <2>1. PICK s : s = [suite[p] EXCEPT !.step = "waiting", !.line = {}]
    OBVIOUS
  <2>2. s \in SuiteType /\ s.step = "waiting" /\ s.at = suite[p].at /\ s.line = {}
    BY <2>1, SuiteIs DEF SuiteType, Steps
  <2>3. suite' = [suite EXCEPT ![p] = s]
    BY <1>2, <2>1, SuiteIs DEF SuiteType
  <2>4. PlaceOK(p, s, suite, queue, seenHalf, moment)
    BY <2>2, SuiteIs DEF PlaceOK, InLine, Expected, HasFile, Busy
  <2>5. \A t \in queue : t.id = p => TicketOK(t, s)
    BY <2>2, SuiteIs DEF TicketOK, Busy
  <2> QED
    BY <1>2, <2>2, <2>3, <2>4, <2>5, WalksOn DEF Busy
<1> QED
  BY <1>1, <1>2 DEF Busy

LEMMA OpenFailsOK == ASSUME SuiteOK, NEW p \in Suites, OpenFails(p) PROVE SuiteOK'
  BY AwayIs, TearsUp DEF OpenFails

LEMMA LeaveOK == ASSUME SuiteOK, NEW p \in Suites, LeaveLine(p) PROVE SuiteOK'
<1>1. PICK s : s = [suite[p] EXCEPT !.step = "holding", !.line = {}]
  OBVIOUS
<1>2. s \in SuiteType /\ s.step = "holding" /\ s.at = suite[p].at
  BY <1>1, SuiteIs DEF SuiteType, Steps
<1>3. suite' = [suite EXCEPT ![p] = s]
  BY <1>1, SuiteIs DEF LeaveLine, SuiteType
<1> QED
  BY <1>2, <1>3, TearsUp DEF LeaveLine

\* Whoever holds the lock has no ticket any more.
LEMMA ReleaseOK == ASSUME SuiteOK, NEW p \in Suites, ReleaseSuite(p) PROVE SuiteOK'
<1>1. \A t \in queue : t.id # p
  BY SuiteIs DEF ReleaseSuite, TicketOK
<1>2. queue \subseteq queue \ FileOf(p)
  BY <1>1 DEF FileOf
<1> QED
  BY <1>2, AwayIs, GoesAway DEF ReleaseSuite

LEMMA KilledOK == ASSUME SuiteOK, NEW p \in Suites, Killed(p) PROVE SuiteOK'
<1>1. PICK again \in BOOLEAN : suite' = [suite EXCEPT ![p] = [Away EXCEPT !.step = "dead", !.reused = again]]
  BY DEF Killed
<1>2. PICK s : s = [Away EXCEPT !.step = "dead", !.reused = again]
  OBVIOUS
<1>3. s \in SuiteType /\ s.step = "dead" /\ s.at = 0 /\ 0 <= moment
  <2>1. 0 <= moment
    BY SuiteIs
  <2> QED
    BY <1>2, <2>1, AwayIs DEF SuiteType, Steps
<1>4. PlaceOK(p, s, suite, queue, seenHalf, moment)
  BY <1>3, SuiteIs DEF PlaceOK, InLine, Expected
<1>5. \A t \in queue : t.id = p => TicketOK(t, s)
  BY <1>3 DEF TicketOK
<1>6. suite' = [suite EXCEPT ![p] = s]
  BY <1>1, <1>2
<1> QED
  BY <1>3, <1>4, <1>5, <1>6, WalksOn DEF Killed

LEMMA PassOK == ASSUME SuiteOK, Pass PROVE SuiteOK'
<1>1. PICK m : m = moment + 1
  OBVIOUS
<1>2. moment \in 0 .. LastMoment /\ m \in 0 .. LastMoment /\ moment <= m
  BY <1>1, CapAssumption DEF SuiteOK, LineOK, Pass
<1>3. ASSUME NEW p \in Suites PROVE PlaceOK(p, suite[p], suite, queue, seenHalf, m)
  <2>1. PlaceOK(p, suite[p], suite, queue, seenHalf, moment) /\ suite[p].at \in Nat /\ suite[p].line \subseteq Ticket
    BY SuiteIs, NumbersAre
  <2>2. suite[p].at <= m /\ (suite[p].step \in InLine => m - suite[p].at <= Cap + Lag)
    BY <1>1, <1>2, <2>1 DEF PlaceOK, Pass
  <2>3. ASSUME NEW t \in suite[p].line, moment - t.at > 2 * Cap PROVE m - t.at > 2 * Cap
    <3>1. t.at \in Nat
      BY <2>1, NumbersAre
    <3> QED
      BY <1>1, <1>2, <2>3, <3>1, NumbersAre
  <2> QED
    BY <2>1, <2>2, <2>3 DEF PlaceOK
<1>4. LineOK(suite, queue, seenHalf, m)
  BY <1>2, <1>3 DEF SuiteOK, LineOK
<1> QED
  BY <1>1, <1>4 DEF SuiteOK, Pass

LEMMA SuiteBeginsOK == ASSUME SuiteInit PROVE SuiteOK
<1>1. \A p \in Suites : suite[p] = Away
  BY DEF SuiteInit
<1>2. \A p \in Suites : PlaceOK(p, Away, suite, queue, seenHalf, moment)
  BY AwayIs DEF SuiteInit, PlaceOK, InLine, Expected
<1> QED
  BY <1>1, <1>2, AwayIs, CapAssumption DEF SuiteInit, SuiteOK, LineOK

LEMMA SuiteStepOK == ASSUME SuiteOK, SuiteNext PROVE SuiteOK'
  BY PassOK, AskOK, CreateOK, FillOK, LookOK, TurnOK, OpenOK, BusyOK, OpenFailsOK, LeaveOK, ReleaseOK, KilledOK
     DEF SuiteNext

LEMMA TurnsAreOK == SuiteOK => TurnsAreKept
<1> SUFFICES ASSUME SuiteOK PROVE TurnsAreKept
  OBVIOUS
<1>1. ASSUME NEW p \in Suites, NEW q \in Suites, suite[p].step \in {"turn", "opened"}, Standing(q),
             NEW t \in suite[p].line, t.whole, t.at = suite[q].at, t.id = q,
             Ahead(NameOf(q), NameOf(p))
      PROVE  FALSE
  <2>1. /\ suite[p].at \in Nat /\ suite[q].at \in Nat /\ p \in Nat /\ q \in Nat /\ moment \in Nat
        /\ Cap \in Nat /\ Lag \in Nat /\ Lag <= Cap
    BY SuiteIs, NumbersAre
  <2>2. suite[q].at < suite[p].at \/ (suite[q].at = suite[p].at /\ q < p)
    BY <1>1 DEF Ahead, NameOf
  <2>3. t.id # p
    BY <1>1, <2>1, <2>2
  <2>4. suite[q].step # "dead" /\ moment - suite[q].at <= Cap + Lag
    BY <1>1, SuiteIs DEF Standing, PlaceOK, InLine
  <2>5. suite[p].at < t.at \/ (suite[p].at = t.at /\ p < t.id) \/ suite[t.id].step = "dead" \/ moment - t.at > 2 * Cap
    BY <1>1, <2>3, SuiteIs DEF PlaceOK
  <2> QED
    BY <1>1, <2>1, <2>2, <2>4, <2>5
<1>2. ASSUME NEW q \in Suites, Standing(q), FileOf(q) = {} PROVE NameOf(q) \in seenHalf
  BY <1>2, SuiteIs DEF Standing, Expected, PlaceOK, HasFile, FileOf, NameOf
<1> QED
  BY <1>1, <1>2 DEF TurnsAreKept

\* Nobody goes to the lock past a run that waits, and a run that waits is in line unless
\* its ticket was read half written.
THEOREM SuiteLockFair == SuiteSpec => []TurnsAreKept
<1>1. SuiteOK /\ UNCHANGED suiteVars => SuiteOK'
  BY DEF suiteVars, SuiteOK
<1> QED
  BY <1>1, SuiteBeginsOK, SuiteStepOK, TurnsAreOK, PTL DEF SuiteSpec

-----------------------------------------------------------------------------
(* QueueGuard.                                                             *)

DrainType == [step : {"off", "loop", "parse", "count", "record", "write"}, some : BOOLEAN,
              count : Depths, before : Depths \cup {NoDepth}]

\* What the runs D are doing, when last is the depth in the table: one of them is inside
\* the statement at most, and what it has read is what is there, or nothing is.
RunsOK(D, last) ==
    /\ D \in [Drains -> DrainType]
    /\ ~StatementsOverlap =>
          \A d \in Drains : D[d].step = "write" =>
              /\ last = NoDepth \/ D[d].before = last
              /\ \A e \in Drains : D[e].step = "write" => e = d

GuardOK ==
    /\ GuardTypeOK
    /\ RunsOK(drain, lastDepth)
    /\ lastDepth = NoDepth => low = NoDepth
    /\ GrowthIsTold

LEMMA DepthsAreNumbers == NoDepth \notin Depths /\ Depths \subseteq Nat
  BY DrainsAssumption, DepthAssumption DEF Depths

\* One run goes on and no depth is stored.
LEMMA RunOK ==
    ASSUME NEW last, NEW D, RunsOK(D, last), NEW d \in Drains, NEW r \in DrainType,
           r.step = "write" => StatementsOverlap \/ (r.before = last /\ \A e \in Drains : D[e].step # "write")
    PROVE  RunsOK([D EXCEPT ![d] = r], last)
<1>1. PICK E : E = [D EXCEPT ![d] = r]
  OBVIOUS
<1>2. E \in [Drains -> DrainType] /\ E[d] = r /\ \A e \in Drains : e # d => E[e] = D[e]
  BY <1>1 DEF RunsOK
<1>3. RunsOK(E, last)
  BY <1>2 DEF RunsOK
<1> QED
  BY <1>1, <1>3

LEMMA NoDrainOK == NoDrain \in DrainType /\ NoDrain.step = "off"
<1>1. 0 \in Depths
  BY DepthAssumption DEF Depths
<1> QED
  BY <1>1 DEF NoDrain, DrainType

\* A step of one run that stores no depth.
LEMMA PoolGoesOn ==
    ASSUME GuardOK, NEW d \in Drains, NEW r \in DrainType, drain' = [drain EXCEPT ![d] = r],
           r.step = "write" => StatementsOverlap \/ (r.before = lastDepth /\ \A e \in Drains : drain[e].step # "write"),
           depth' \in Depths, parseLock' \in Drains \cup {"delivery", Idling},
           UNCHANGED <<lastDepth, arrivals, low>>
    PROVE  GuardOK'
<1>1. PICK E : E = [drain EXCEPT ![d] = r]
  OBVIOUS
<1>2. RunsOK(E, lastDepth)
  BY <1>1, RunOK DEF GuardOK
<1>3. drain' = E /\ E \in [Drains -> DrainType]
  BY <1>1, <1>2 DEF RunsOK
<1>4. GuardTypeOK'
  BY <1>3 DEF GuardOK, GuardTypeOK, DrainType
<1> QED
  BY <1>2, <1>3, <1>4 DEF GuardOK, GrowthIsTold

\* The runs stay as they are, and so do the depths that are stored.
LEMMA RunsStay ==
    ASSUME GuardOK, depth' \in Depths, parseLock' \in Drains \cup {"delivery", Idling},
           arrivals' \in 0 .. MaxArrivals, UNCHANGED <<drain, lastDepth, low>>
    PROVE  GuardOK'
  BY DEF GuardOK, GuardTypeOK, GrowthIsTold

\* A run that only enters another step, but not the statement.
LEMMA EntersOK ==
    ASSUME GuardOK, NEW d \in Drains, NEW s \in {"loop", "parse", "count", "record"}, Enter(d, s),
           parseLock' \in Drains \cup {"delivery", Idling}, UNCHANGED <<depth, lastDepth, arrivals, low>>
    PROVE  GuardOK'
<1>1. drain[d] \in DrainType /\ depth \in Depths
  BY DEF GuardOK, GuardTypeOK, DrainType
<1>2. PICK r : r = [drain[d] EXCEPT !.step = s]
  OBVIOUS
<1>3. r \in DrainType /\ r.step # "write"
  BY <1>1, <1>2 DEF DrainType
<1>4. drain' = [drain EXCEPT ![d] = r]
  BY <1>2 DEF Enter
<1> QED
  BY <1>1, <1>3, <1>4, PoolGoesOn

LEMMA PoolEndsOK ==
    ASSUME GuardOK, NEW d \in Drains, Off(d), parseLock' \in Drains \cup {"delivery", Idling},
           UNCHANGED <<depth, lastDepth, arrivals, low>>
    PROVE  GuardOK'
<1>1. depth \in Depths
  BY DEF GuardOK, GuardTypeOK
<1> QED
  BY <1>1, NoDrainOK, PoolGoesOn DEF Off

LEMMA BatchOK == ASSUME GuardOK, NEW d \in Drains, EndBatch(d) PROVE GuardOK'
<1>1. PICK examined : examined = LeastOf(RowsABatch, depth)
  OBVIOUS
<1>2. PICK s : s = IF examined = 0 THEN "count" ELSE "loop"
  OBVIOUS
<1>3. drain[d] \in DrainType /\ depth \in Depths
  BY DEF GuardOK, GuardTypeOK, DrainType
<1>4. PICK r : r = [drain[d] EXCEPT !.step = s, !.some = TRUE]
  OBVIOUS
<1>5. r \in DrainType /\ r.step # "write"
  BY <1>2, <1>3, <1>4 DEF DrainType
<1>6. drain' = [drain EXCEPT ![d] = r]
  BY <1>1, <1>2, <1>3, <1>4 DEF EndBatch, DrainType, GuardOK, GuardTypeOK
<1>7. depth' \in Depths
  BY <1>1, <1>3, DepthAssumption DEF EndBatch, LeastOf, Depths
<1> QED
  BY <1>5, <1>6, <1>7, PoolGoesOn DEF EndBatch

LEMMA CountOK == ASSUME GuardOK, NEW d \in Drains, CountPending(d) PROVE GuardOK'
<1>1. drain[d] \in DrainType /\ depth \in Depths /\ drain \in [Drains -> DrainType]
  BY DEF GuardOK, GuardTypeOK, DrainType
<1>2. PICK r : r = [drain[d] EXCEPT !.step = "record", !.count = depth]
  OBVIOUS
<1>3. r \in DrainType /\ r.step # "write"
  BY <1>1, <1>2 DEF DrainType
<1>4. drain' = [drain EXCEPT ![d] = r]
  BY <1>1, <1>2 DEF CountPending, DrainType
<1>5. parseLock \in Drains \cup {"delivery", Idling}
  BY DEF GuardOK, GuardTypeOK
<1> QED
  BY <1>1, <1>3, <1>4, <1>5, PoolGoesOn DEF CountPending

LEMMA ReadsOK == ASSUME GuardOK, NEW d \in Drains, ReadPrevious(d) PROVE GuardOK'
<1>1. drain[d] \in DrainType /\ depth \in Depths /\ drain \in [Drains -> DrainType]
  BY DEF GuardOK, GuardTypeOK, DrainType
<1>2. PICK r : r = [drain[d] EXCEPT !.step = "write", !.before = lastDepth]
  OBVIOUS
<1>3. r \in DrainType /\ r.before = lastDepth
  BY <1>1, <1>2 DEF DrainType, GuardOK, GuardTypeOK
<1>4. drain' = [drain EXCEPT ![d] = r]
  BY <1>1, <1>2 DEF ReadPrevious, DrainType
<1>5. parseLock \in Drains \cup {"delivery", Idling}
  BY DEF GuardOK, GuardTypeOK
<1> QED
  BY <1>1, <1>3, <1>4, <1>5, PoolGoesOn DEF ReadPrevious

\* What is stored takes the place of what the run has read.
LEMMA RecordsOK == ASSUME GuardOK, NEW d \in Drains, RecordDepth(d) PROVE GuardOK'
<1>1. PICK r : r = drain[d]
  OBVIOUS
<1>2. /\ r \in DrainType /\ drain \in [Drains -> DrainType] /\ r.step = "write"
      /\ depth \in Depths /\ lastDepth \in Depths \cup {NoDepth} /\ low \in Depths \cup {NoDepth}
      /\ parseLock \in Drains \cup {"delivery", Idling} /\ arrivals \in 0 .. MaxArrivals
  BY <1>1 DEF GuardOK, GuardTypeOK, DrainType, RecordDepth
<1>3. PICK E : E = [drain EXCEPT ![d] = NoDrain]
  OBVIOUS
<1>4. E \in [Drains -> DrainType] /\ E[d].step = "off" /\ \A e \in Drains : e # d => E[e] = drain[e]
  BY <1>2, <1>3, NoDrainOK
<1>5. RunsOK(E, r.count)
  BY <1>1, <1>2, <1>4 DEF GuardOK, RunsOK
<1>6. /\ r.count \in Nat /\ r.count # NoDepth /\ r.count \in Depths
      /\ r.before \in Nat \/ r.before = NoDepth
      /\ low \in Nat \/ low = NoDepth
      /\ lastDepth \in Nat \/ lastDepth = NoDepth
  BY <1>2, DepthsAreNumbers DEF DrainType
<1>7. /\ lastDepth' = r.count
      /\ low' = IF r.before = NoDepth \/ low = NoDepth THEN r.count
                ELSE IF r.count > r.before THEN r.count ELSE LeastOf(low, r.count)
  BY <1>1 DEF RecordDepth, Judge
<1>8. low' \in Depths
  BY <1>2, <1>6, <1>7, DepthsAreNumbers DEF LeastOf
<1>9. ASSUME ~StatementsOverlap PROVE low' = r.count
  <2>1. CASE r.before = NoDepth \/ low = NoDepth
    BY <1>7, <2>1
  <2>2. CASE r.before # NoDepth /\ low # NoDepth
    <3>1. lastDepth # NoDepth
      BY <2>2 DEF GuardOK
    <3>2. lastDepth = r.before
      BY <1>1, <1>2, <1>9, <3>1 DEF GuardOK, RunsOK
    <3>3. lastDepth <= low
      BY <1>9, <3>1 DEF GuardOK, GrowthIsTold
    <3>4. lastDepth \in Nat /\ low \in Nat /\ r.before \in Nat
      BY <1>2, <2>2, <3>1, <3>2, DepthsAreNumbers
    <3> QED
      BY <1>6, <1>7, <2>2, <3>2, <3>3, <3>4 DEF LeastOf
  <2> QED
    BY <2>1, <2>2
<1>10. drain' = E /\ UNCHANGED <<depth, parseLock, arrivals>>
  BY <1>3 DEF RecordDepth, Off
<1>11. GuardTypeOK'
  BY <1>2, <1>4, <1>6, <1>7, <1>8, <1>10 DEF GuardTypeOK, DrainType
<1>12. GrowthIsTold'
  BY <1>6, <1>7, <1>8, <1>9, DepthsAreNumbers DEF GrowthIsTold
<1> QED
  BY <1>5, <1>6, <1>7, <1>10, <1>11, <1>12 DEF GuardOK

LEMMA UnusableOK == ASSUME GuardOK, Unusable PROVE GuardOK'
<1>1. drain \in [Drains -> DrainType]
  BY DEF GuardOK, GuardTypeOK, DrainType
<1>2. RunsOK(drain, NoDepth)
  BY DEF GuardOK, RunsOK
<1> QED
  BY <1>2 DEF GuardOK, GuardTypeOK, Unusable, GrowthIsTold

LEMMA BatchTakenOK == ASSUME GuardOK, NEW d \in Drains, TakeBatch(d) PROVE GuardOK'
<1>1. parseLock \in Drains \cup {"delivery", Idling}
  BY DEF GuardOK, GuardTypeOK
<1>2. CASE parseLock = Idling /\ parseLock' = d /\ Enter(d, "parse")
  BY <1>2, EntersOK DEF TakeBatch
<1>3. CASE UNCHANGED parseLock /\ Enter(d, "count")
  BY <1>1, <1>3, EntersOK DEF TakeBatch
<1>4. CASE UNCHANGED parseLock /\ Off(d)
  BY <1>1, <1>4, PoolEndsOK DEF TakeBatch
<1> QED
  BY <1>2, <1>3, <1>4 DEF TakeBatch

LEMMA GuardStepOK == ASSUME GuardOK, GuardNext PROVE GuardOK'
<1>1. /\ depth \in Depths /\ parseLock \in Drains \cup {"delivery", Idling}
      /\ arrivals \in 0 .. MaxArrivals
  BY DEF GuardOK, GuardTypeOK
<1>2. CASE RowArrives
  <2>1. depth' \in Depths /\ arrivals' \in 0 .. MaxArrivals
    BY <1>1, <1>2, DepthAssumption DEF RowArrives, Depths
  <2> QED
    BY <1>1, <1>2, <2>1, RunsStay DEF RowArrives
<1>3. CASE DeliveryDrains
  <2>1. depth' \in Depths /\ parseLock' \in Drains \cup {"delivery", Idling}
    BY <1>1, <1>3 DEF DeliveryDrains
  <2> QED
    BY <1>1, <1>3, <2>1, RunsStay DEF DeliveryDrains
<1>4. CASE Unusable
  BY <1>4, UnusableOK
<1>5. ASSUME NEW d \in Drains, StartDrain(d) PROVE GuardOK'
  BY <1>1, <1>5, EntersOK DEF StartDrain
<1>6. ASSUME NEW d \in Drains, BudgetIsSpent(d) PROVE GuardOK'
  BY <1>1, <1>6, EntersOK DEF BudgetIsSpent
<1>7. ASSUME NEW d \in Drains, DrainFails(d) PROVE GuardOK'
  BY <1>1, <1>7, PoolEndsOK DEF DrainFails
<1> QED
  BY <1>2, <1>3, <1>4, <1>5, <1>6, <1>7, BatchTakenOK, BatchOK, CountOK, ReadsOK, RecordsOK DEF GuardNext

LEMMA GuardBeginsOK == ASSUME GuardInit PROVE GuardOK
<1>1. 0 \in Depths /\ 0 \in 0 .. MaxArrivals
  BY DepthAssumption DEF Depths
<1> QED
  BY <1>1, NoDrainOK DEF GuardInit, GuardOK, GuardTypeOK, RunsOK, DrainType, GrowthIsTold

\* Of the depths that are stored none is above an earlier one unless a run was red in
\* between.
THEOREM GuardTellsGrowth == GuardSpec => []GrowthIsTold
<1>1. GuardOK /\ UNCHANGED guardVars => GuardOK'
  BY DEF guardVars, GuardOK, GuardTypeOK, GrowthIsTold
<1>2. GuardOK => GrowthIsTold
  BY DEF GuardOK
<1> QED
  BY <1>1, <1>2, GuardBeginsOK, GuardStepOK, PTL DEF GuardSpec

-----------------------------------------------------------------------------
(* Migrate.                                                                *)

MigrationType == [step : {"off", "read", "next", "sql", "row", "commit"}, flag : Flags,
                  files : Checkouts \cup {{}}, left : SUBSET Versions, sure : BOOLEAN]

\* What a run m that is at its files relies on, where the databases that the variables
\* name are N and know the versions L: what it has done with is known, and what it has in
\* hand is not.
MigrationOK(m, L, N) ==
    /\ m.step # "row"
    /\ m.step # "off" => m.files \in Checkouts
    /\ m.step \in {"next", "sql", "commit"} =>
          /\ m.left \subseteq m.files
          /\ m.files \ m.left \subseteq L[N[m.flag]]
    /\ m.step \in {"sql", "commit"} => m.left # {}
    /\ m.step = "commit" => Lowest(m.left) \notin L[N[m.flag]]

\* Whether m and n have the same version in hand, of the same database.
Collide(m, n, N) ==
    /\ m.step = "commit" /\ n.step = "commit"
    /\ N[m.flag] = N[n.flag] /\ Lowest(m.left) = Lowest(n.left)

AllMigrationsOK(M, L, N) ==
    /\ M \in [Runs -> MigrationType]
    /\ \A r \in Runs : MigrationOK(M[r], L, N)
    /\ \A r, q \in Runs : Collide(M[r], M[q], N) => r = q

\* The versions that a database knows, and how often their files were run.
EffectsOK(E, L) ==
    /\ L \in [Databases -> SUBSET Versions]
    /\ E \in [Databases \X Versions -> Nat]
    /\ \A d \in Databases, v \in Versions : E[<<d, v>>] = IF v \in L[d] THEN 1 ELSE 0

MigratedOK ==
    /\ MigrateTypeOK
    /\ AllMigrationsOK(migration, listedVersions, named)
    /\ EffectsOK(effects, listedVersions)
    /\ "production" \notin marked \cup emptied

LEMMA LowestIsOne ==
    ASSUME NEW S, S \subseteq Versions, S # {}
    PROVE  Lowest(S) \in S /\ \A u \in S : Lowest(S) <= u
<1>1. S \subseteq Nat
  BY CheckoutsAssumption DEF Versions
<1> DEFINE Below == OpToRel(<, Nat)
<1>2. IsWellFoundedOn(Below, Nat)
  BY NatLessThanWellFounded
<1>3. \A x, y \in Nat : y < x => <<y, x>> \in Below
  BY DEF OpToRel
<1> HIDE DEF Below
<1>4. PICK x \in S : \A y \in S : <<y, x>> \notin Below
  BY <1>1, <1>2, WFMin
<1>5. \A y \in S : x <= y
  <2> SUFFICES ASSUME NEW y \in S PROVE x <= y
    OBVIOUS
  <2>1. x \in Nat /\ y \in Nat /\ ~(y < x)
    BY <1>1, <1>3, <1>4
  <2> QED
    BY <2>1
<1> QED
  BY <1>5 DEF Lowest

\* A run goes on as m, and the databases know what they knew.
LEMMA MigrationGoesOn ==
    ASSUME MigratedOK, NEW r \in Runs, NEW m \in MigrationType, migration' = [migration EXCEPT ![r] = m],
           MigrationOK(m, listedVersions, named),
           \A q \in Runs : q # r => ~Collide(m, migration[q], named),
           began' \in 0 .. MaxMigrations, UNCHANGED <<named, listedVersions, effects, emptied>>,
           marked' \subseteq Databases, "production" \notin marked'
    PROVE  MigratedOK'
<1>1. PICK M : M = [migration EXCEPT ![r] = m]
  OBVIOUS
<1>2. /\ migration \in [Runs -> MigrationType]
      /\ M \in [Runs -> MigrationType] /\ M[r] = m /\ \A q \in Runs : q # r => M[q] = migration[q]
  BY <1>1 DEF MigratedOK, AllMigrationsOK
<1>3. \A q \in Runs : MigrationOK(M[q], listedVersions, named)
  BY <1>2 DEF MigratedOK, AllMigrationsOK
<1>4. ASSUME NEW p \in Runs, NEW q \in Runs, Collide(M[p], M[q], named) PROVE p = q
  <2>1. CASE p = r /\ q # r
    BY <1>2, <1>4, <2>1
  <2>2. CASE q = r /\ p # r
    <3>1. Collide(m, migration[p], named)
      BY <1>2, <1>4, <2>2 DEF Collide
    <3> QED
      BY <2>2, <3>1
  <2>3. CASE p # r /\ q # r
    BY <1>2, <1>4, <2>3 DEF MigratedOK, AllMigrationsOK
  <2> QED
    BY <2>1, <2>2, <2>3
<1>5. AllMigrationsOK(M, listedVersions, named)
  BY <1>2, <1>3, <1>4 DEF AllMigrationsOK
<1>6. migration' = M
  BY <1>1
<1>7. MigrateTypeOK'
  BY <1>2, <1>6 DEF MigratedOK, MigrateTypeOK, MigrationType
<1> QED
  BY <1>5, <1>6, <1>7 DEF MigratedOK

\* What is known of a run.
LEMMA MigrationIs ==
    ASSUME MigratedOK, NEW r \in Runs
    PROVE  /\ migration[r] \in MigrationType /\ MigrationOK(migration[r], listedVersions, named)
           /\ named \in [Flags -> Databases] /\ named["prod"] = "production"
           /\ listedVersions \in [Databases -> SUBSET Versions]
           /\ migration \in [Runs -> MigrationType] /\ Db(r) \in Databases
           /\ began \in 0 .. MaxMigrations /\ marked \subseteq Databases /\ "production" \notin marked
  BY DEF MigratedOK, MigrateTypeOK, AllMigrationsOK, MigrationType, Db

LEMMA NoMigrationOK ==
    /\ NoMigration \in MigrationType /\ NoMigration.step = "off"
    /\ \A L, N : MigrationOK(NoMigration, L, N)
    /\ \A m, N : ~Collide(NoMigration, m, N)
  BY DEF NoMigration, MigrationType, MigrationOK, Collide, Flags

LEMMA MigrationStartsOK ==
    ASSUME MigratedOK, NEW r \in Runs, NEW flag \in Flags, NEW files \in Checkouts, StartMigration(r, flag, files)
    PROVE  MigratedOK'
<1>1. PICK m : m = [NoMigration EXCEPT !.step = "read", !.flag = flag, !.files = files]
  OBVIOUS
<1>2. m \in MigrationType /\ m.step = "read" /\ m.files = files
  BY <1>1 DEF NoMigration, MigrationType
<1>3. MigrationOK(m, listedVersions, named) /\ \A n : ~Collide(m, n, named)
  BY <1>2 DEF MigrationOK, Collide
<1>4. migration' = [migration EXCEPT ![r] = m]
  BY <1>1 DEF StartMigration
<1>5. began' \in 0 .. MaxMigrations
  BY MigrationIs, CheckoutsAssumption DEF StartMigration
<1> QED
  BY <1>2, <1>3, <1>4, <1>5, MigrationIs, MigrationGoesOn DEF StartMigration

LEMMA AppliedReadOK == ASSUME MigratedOK, NEW r \in Runs, ReadApplied(r) PROVE MigratedOK'
<1>1. PICK m : m = [migration[r] EXCEPT !.step = "next", !.left = migration[r].files \ listedVersions[Db(r)]]
  OBVIOUS
<1>2. migration[r].files \subseteq Versions
  BY MigrationIs DEF MigrationType, Versions
<1>3. /\ m \in MigrationType /\ m.step = "next" /\ m.flag = migration[r].flag
      /\ m.files = migration[r].files /\ m.left = m.files \ listedVersions[Db(r)]
  BY <1>1, <1>2, MigrationIs DEF MigrationType
<1>4. m.files \ m.left \subseteq listedVersions[named[m.flag]]
  BY <1>3 DEF Db
<1>5. m.files \in Checkouts
  BY <1>3, MigrationIs DEF ReadApplied, MigrationOK
<1>6. MigrationOK(m, listedVersions, named) /\ \A n : ~Collide(m, n, named)
  BY <1>3, <1>4, <1>5 DEF MigrationOK, Collide
<1>7. migration' = [migration EXCEPT ![r] = m]
  BY <1>1, MigrationIs DEF ReadApplied, MigrationType
<1> QED
  BY <1>3, <1>6, <1>7, MigrationIs, MigrationGoesOn DEF ReadApplied

\* A run enters another of its steps.
LEMMA EntersStep ==
    ASSUME MigratedOK, NEW r \in Runs, NEW s \in {"sql", "commit"}, Step(r, s)
    PROVE  \E m \in MigrationType :
              /\ migration' = [migration EXCEPT ![r] = m] /\ m.step = s
              /\ m.flag = migration[r].flag /\ m.files = migration[r].files /\ m.left = migration[r].left
<1>1. PICK m : m = [migration[r] EXCEPT !.step = s]
  OBVIOUS
<1>2. /\ m \in MigrationType /\ m.step = s
      /\ m.flag = migration[r].flag /\ m.files = migration[r].files /\ m.left = migration[r].left
  BY <1>1, MigrationIs DEF MigrationType
<1>3. migration' = [migration EXCEPT ![r] = m]
  BY <1>1 DEF Step
<1> QED
  BY <1>2, <1>3

LEMMA FileRunsOK == ASSUME MigratedOK, NEW r \in Runs, RunFile(r) PROVE MigratedOK'
<1>1. PICK m \in MigrationType :
         /\ migration' = [migration EXCEPT ![r] = m] /\ m.step = "sql"
         /\ m.flag = migration[r].flag /\ m.files = migration[r].files /\ m.left = migration[r].left
  BY EntersStep DEF RunFile
<1>2. MigrationOK(m, listedVersions, named) /\ \A n : ~Collide(m, n, named)
  BY <1>1, MigrationIs DEF MigrationOK, Collide, RunFile
<1> QED
  BY <1>1, <1>2, MigrationIs, MigrationGoesOn DEF RunFile

\* The primary key: nobody else has the version in hand, nor has had.
LEMMA VersionInsertedOK == ASSUME MigratedOK, NEW r \in Runs, InsertVersion(r) PROVE MigratedOK'
<1>1. PICK m \in MigrationType :
         /\ migration' = [migration EXCEPT ![r] = m] /\ m.step = "commit"
         /\ m.flag = migration[r].flag /\ m.files = migration[r].files /\ m.left = migration[r].left
  BY EntersStep DEF InsertVersion
<1>2. /\ migration[r].step = "sql"
      /\ Lowest(m.left) \notin listedVersions[named[m.flag]]
      /\ \A q \in Runs : migration[q].step = "commit" /\ named[migration[q].flag] = named[m.flag]
                            => Lowest(migration[q].left) # Lowest(m.left)
  BY <1>1 DEF InsertVersion, Db
<1>3. MigrationOK(m, listedVersions, named)
  BY <1>1, <1>2, MigrationIs DEF MigrationOK
<1>4. \A q \in Runs : ~Collide(m, migration[q], named)
  BY <1>1, <1>2 DEF Collide
<1> QED
  BY <1>1, <1>3, <1>4, MigrationIs, MigrationGoesOn DEF InsertVersion

\* The file and its row are one transaction.
LEMMA FileCommitsOK == ASSUME MigratedOK, NEW r \in Runs, CommitFile(r) PROVE MigratedOK'
<1>1. PICK d, v : d = Db(r) /\ v = Lowest(migration[r].left)
  OBVIOUS
<1>2. /\ migration[r].step = "commit" /\ migration[r].left # {} /\ migration[r].left \subseteq migration[r].files
      /\ migration[r].files \ migration[r].left \subseteq listedVersions[d]
      /\ migration[r].left \subseteq Versions /\ v \notin listedVersions[d] /\ d \in Databases
      /\ d = named[migration[r].flag] /\ migration[r].files \in Checkouts
  BY <1>1, MigrationIs DEF CommitFile, MigrationOK, MigrationType, Db
<1>3. v \in migration[r].left /\ v \in Versions
  BY <1>1, <1>2, LowestIsOne
<1>4. PICK m : m = [migration[r] EXCEPT !.step = "next", !.left = migration[r].left \ {v}]
  OBVIOUS
<1>5. /\ m \in MigrationType /\ m.step = "next" /\ m.flag = migration[r].flag
      /\ m.files = migration[r].files /\ m.left = migration[r].left \ {v}
  BY <1>2, <1>4, MigrationIs DEF MigrationType
<1>6. PICK L : L = [listedVersions EXCEPT ![d] = listedVersions[d] \cup {v}]
  OBVIOUS
<1>7. /\ L \in [Databases -> SUBSET Versions] /\ L[d] = listedVersions[d] \cup {v}
      /\ \A e \in Databases : e # d => L[e] = listedVersions[e]
  BY <1>2, <1>3, <1>6, MigrationIs
<1>8. PICK E : E = [effects EXCEPT ![<<d, v>>] = effects[<<d, v>>] + 1]
  OBVIOUS
<1>9. /\ effects \in [Databases \X Versions -> Nat] /\ <<d, v>> \in Databases \X Versions
      /\ effects[<<d, v>>] = 0
  BY <1>2, <1>3 DEF MigratedOK, EffectsOK
<1>10. EffectsOK(E, L)
  <2>1. E \in [Databases \X Versions -> Nat]
    BY <1>8, <1>9
  <2>2. ASSUME NEW e \in Databases, NEW w \in Versions PROVE E[<<e, w>>] = IF w \in L[e] THEN 1 ELSE 0
    <3>1. <<e, w>> \in Databases \X Versions /\ effects[<<e, w>>] = IF w \in listedVersions[e] THEN 1 ELSE 0
      BY DEF MigratedOK, EffectsOK
    <3>2. CASE e = d /\ w = v
      BY <1>7, <1>8, <1>9, <3>2
    <3>3. CASE ~(e = d /\ w = v)
      <4>1. <<e, w>> # <<d, v>>
        BY <3>3
      <4>2. E[<<e, w>>] = effects[<<e, w>>]
        BY <1>8, <1>9, <3>1, <4>1
      <4>3. w \in L[e] <=> w \in listedVersions[e]
        BY <1>7, <3>3
      <4> QED
        BY <3>1, <4>2, <4>3
    <3> QED
      BY <3>2, <3>3
  <2> QED
    BY <1>7, <2>1, <2>2 DEF EffectsOK
<1>11. PICK M : M = [migration EXCEPT ![r] = m]
  OBVIOUS
<1>12. M \in [Runs -> MigrationType] /\ M[r] = m /\ \A q \in Runs : q # r => M[q] = migration[q]
  BY <1>5, <1>11, MigrationIs
<1>13. \A e \in Databases : listedVersions[e] \subseteq L[e]
  BY <1>7
<1>14. ASSUME NEW q \in Runs PROVE MigrationOK(M[q], L, named)
  <2>1. CASE q = r
    <3>1. m.files \ m.left \subseteq L[named[m.flag]]
      BY <1>2, <1>5, <1>7
    <3> QED
      BY <1>2, <1>5, <1>12, <2>1, <3>1 DEF MigrationOK
  <2>2. CASE q # r
    <3>1. M[q] = migration[q] /\ MigrationOK(migration[q], listedVersions, named) /\ migration[q] \in MigrationType
      BY <1>12, <2>2, MigrationIs
    <3>2. named[migration[q].flag] \in Databases
      BY <3>1, MigrationIs DEF MigrationType
    <3>3. ~Collide(migration[r], migration[q], named)
      BY <2>2 DEF MigratedOK, AllMigrationsOK
    <3>4. ASSUME migration[q].step = "commit" PROVE Lowest(migration[q].left) \notin L[named[migration[q].flag]]
      BY <1>1, <1>2, <1>7, <3>1, <3>2, <3>3, <3>4 DEF MigrationOK, Collide
    <3> QED
      BY <1>13, <3>1, <3>2, <3>4 DEF MigrationOK
  <2> QED
    BY <2>1, <2>2
<1>15. ASSUME NEW p \in Runs, NEW q \in Runs, Collide(M[p], M[q], named) PROVE p = q
  <2>1. p # r /\ q # r
    BY <1>5, <1>12, <1>15 DEF Collide
  <2>2. Collide(migration[p], migration[q], named)
    BY <1>12, <1>15, <2>1
  <2> QED
    BY <2>2 DEF MigratedOK, AllMigrationsOK
<1>16. AllMigrationsOK(M, L, named)
  BY <1>12, <1>14, <1>15 DEF AllMigrationsOK
<1>17. /\ migration' = M /\ listedVersions' = L /\ effects' = E
       /\ UNCHANGED <<named, marked, emptied, began>>
  BY <1>1, <1>4, <1>6, <1>8, <1>9, <1>11, MigrationIs DEF CommitFile, MigrationType
<1>18. MigrateTypeOK'
  BY <1>7, <1>10, <1>12, <1>17 DEF MigratedOK, MigrateTypeOK, MigrationType, EffectsOK
<1> QED
  BY <1>10, <1>16, <1>17, <1>18 DEF MigratedOK

LEMMA MigrationEndsOK == ASSUME MigratedOK, NEW r \in Runs, EndMigration(r) PROVE MigratedOK'
<1>1. marked' \subseteq Databases /\ "production" \notin marked'
  <2>1. CASE migration[r].flag = "test" /\ ~IsProduction("test")
    <3>1. Db(r) # "production"
      BY <2>1, MigrationIs DEF Db, IsProduction
    <3> QED
      BY <2>1, <3>1, MigrationIs DEF EndMigration
  <2>2. CASE ~(migration[r].flag = "test" /\ ~IsProduction("test"))
    BY <2>2, MigrationIs DEF EndMigration
  <2> QED
    BY <2>1, <2>2
<1> QED
  BY <1>1, MigrationIs, NoMigrationOK, MigrationGoesOn DEF EndMigration

LEMMA AbortOK == ASSUME MigratedOK, NEW r \in Runs, Abort(r) PROVE MigratedOK'
  BY MigrationIs, NoMigrationOK, MigrationGoesOn DEF Abort

\* A suite empties what --test has marked, and that is not production.
LEMMA TablesEmptiedOK == ASSUME MigratedOK, EmptyTables PROVE MigratedOK'
<1>1. named["test"] \in Databases /\ named["test"] # "production"
  BY DEF EmptyTables, HasMarker, MigratedOK, MigrateTypeOK
<1> QED
  BY <1>1 DEF EmptyTables, MigratedOK, MigrateTypeOK

LEMMA MigrateBeginsOK == ASSUME MigrateInit PROVE MigratedOK
<1>1. MigrateTypeOK
  BY CheckoutsAssumption, NoMigrationOK DEF MigrateInit, MigrateTypeOK, MigrationType
<1>2. AllMigrationsOK(migration, listedVersions, named)
  BY NoMigrationOK DEF MigrateInit, AllMigrationsOK
<1>3. EffectsOK(effects, listedVersions)
  <2>1. ASSUME NEW d \in Databases, NEW v \in Versions
        PROVE  effects[<<d, v>>] = 0 /\ listedVersions[d] = {}
    BY DEF MigrateInit
  <2> QED
    BY <1>1, <2>1 DEF EffectsOK, MigrateTypeOK
<1> QED
  BY <1>1, <1>2, <1>3 DEF MigrateInit, MigratedOK

LEMMA MigrateStepOK == ASSUME MigratedOK, MigrateNext PROVE MigratedOK'
  BY MigrationStartsOK, AppliedReadOK, FileRunsOK, VersionInsertedOK, FileCommitsOK, MigrationEndsOK,
     AbortOK, TablesEmptiedOK DEF MigrateNext

LEMMA MigratedIsApplied == MigratedOK => MigrationsAreApplied
<1> SUFFICES ASSUME MigratedOK PROVE MigrationsAreApplied
  OBVIOUS
<1>1. ASSUME NEW r \in Runs, migration[r].step \in {"sql", "commit"},
             NEW v \in migration[r].files, v < Lowest(migration[r].left)
      PROVE  v \in listedVersions[Db(r)]
  <2>1. /\ migration[r].left # {} /\ migration[r].left \subseteq Versions
        /\ migration[r].files \ migration[r].left \subseteq listedVersions[Db(r)]
    BY <1>1, MigrationIs DEF MigrationOK, MigrationType, Db
  <2>2. Lowest(migration[r].left) \in migration[r].left /\ \A u \in migration[r].left : Lowest(migration[r].left) <= u
    BY <2>1, LowestIsOne
  <2>3. Versions \subseteq Nat
    BY CheckoutsAssumption DEF Versions
  <2>4. ASSUME v \in migration[r].left PROVE FALSE
    <3>1. v \in Nat /\ Lowest(migration[r].left) \in Nat /\ Lowest(migration[r].left) <= v
      BY <2>1, <2>2, <2>3, <2>4
    <3> QED
      BY <1>1, <3>1
  <2> QED
    BY <2>1, <2>4
<1> QED
  BY <1>1 DEF MigratedOK, EffectsOK, MigrationsAreApplied

\* Of every checkout, with any number of runs at once: a file has run once where
\* schema_migrations says so and nowhere else, after all that are named before it, and
\* production is neither marked nor emptied.
THEOREM MigrateSafe == MigrateSpec => []MigrationsAreApplied
<1>1. MigratedOK /\ UNCHANGED migrateVars => MigratedOK'
  BY DEF migrateVars, MigratedOK, MigrateTypeOK
<1> QED
  BY <1>1, MigrateBeginsOK, MigrateStepOK, MigratedIsApplied, PTL DEF MigrateSpec

-----------------------------------------------------------------------------
(* Connections.                                                            *)

ClientType == [state : {"none", "idle", "lent"}, open : BOOLEAN, told : BOOLEAN,
               limited : BOOLEAN, running : BOOLEAN, lost : BOOLEAN]
CallerType == [step : {"off", "waiting", "set", "statement", "begin", "body",
                       "commit", "rollback", "release"}, broken : BOOLEAN]

\* Whoever has left the line has the client.
Served(call) == call.step \notin {"off", "waiting"}

\* The session k of the client that serves a call.
ServesOK(k, call) ==
    /\ k.state = "lent"
    /\ call.step \in {"set", "statement", "begin"} => ~k.open
    /\ call.step = "release" /\ ~call.broken => ~k.open

\* The client k and the calls C: one is served at most, and a transaction is open only
\* for one that is, and until it is ended or given up as broken.
PoolOK(k, C) ==
    /\ k \in ClientType /\ C \in [Callers -> CallerType]
    /\ \A c, d \in Callers : Served(C[c]) /\ Served(C[d]) => c = d
    /\ \A c \in Callers : Served(C[c]) => ServesOK(k, C[c])
    /\ k.open => ~k.lost /\ \E c \in Callers : Served(C[c])
    /\ k.told => k.limited

PoolIsOK == PoolOK(conn, caller)

LEMMA NoConnOK ==
    /\ NoConn \in ClientType /\ NoConn.state = "none" /\ ~NoConn.open /\ ~NoConn.told
    /\ NoCall \in CallerType /\ NoCall.step = "off" /\ ~Served(NoCall)
  BY DEF NoConn, ClientType, NoCall, CallerType, Served

\* A call that is served goes on, with the client as it has left it.
LEMMA ServedOK ==
    ASSUME PoolIsOK, NEW c \in Callers, Served(caller[c]),
           NEW call \in CallerType, Served(call), caller' = [caller EXCEPT ![c] = call],
           NEW k \in ClientType, conn' = k, ServesOK(k, call),
           k.open => ~k.lost, k.told => k.limited
    PROVE  PoolIsOK'
<1>1. PICK C : C = [caller EXCEPT ![c] = call]
  OBVIOUS
<1>2. C \in [Callers -> CallerType] /\ C[c] = call /\ \A d \in Callers : d # c => C[d] = caller[d]
  BY <1>1 DEF PoolIsOK, PoolOK
<1>3. \A d \in Callers : Served(C[d]) => d = c
  BY <1>2 DEF PoolIsOK, PoolOK
<1>4. PoolOK(k, C)
  BY <1>2, <1>3 DEF PoolOK
<1> QED
  BY <1>1, <1>4 DEF PoolIsOK

\* A call that has no client and gets none.
LEMMA UnservedOK ==
    ASSUME PoolIsOK, NEW c \in Callers, ~Served(caller[c]),
           NEW call \in CallerType, ~Served(call), caller' = [caller EXCEPT ![c] = call], UNCHANGED conn
    PROVE  PoolIsOK'
<1>1. PICK C : C = [caller EXCEPT ![c] = call]
  OBVIOUS
<1>2. C \in [Callers -> CallerType] /\ C[c] = call /\ \A d \in Callers : d # c => C[d] = caller[d]
  BY <1>1 DEF PoolIsOK, PoolOK
<1>3. \A d \in Callers : Served(C[d]) => d # c /\ C[d] = caller[d] /\ Served(caller[d])
  BY <1>2
<1>4. \A d \in Callers : Served(caller[d]) => Served(C[d])
  BY <1>2
<1>5. PoolOK(conn, C)
  BY <1>2, <1>3, <1>4 DEF PoolIsOK, PoolOK
<1> QED
  BY <1>1, <1>5 DEF PoolIsOK

\* Only the session changes, and not what the calls know of it.
LEMMA SessionOK ==
    ASSUME PoolIsOK, UNCHANGED caller, NEW k \in ClientType, conn' = k,
           k.open => conn.open /\ ~k.lost, k.told => k.limited,
           k.state = conn.state \/ (k.state = "none" /\ conn.state = "idle")
    PROVE  PoolIsOK'
<1>1. ASSUME NEW c \in Callers, Served(caller[c]) PROVE ServesOK(k, caller[c])
  BY <1>1 DEF PoolIsOK, PoolOK, ServesOK
<1>2. PoolOK(k, caller)
  BY <1>1 DEF PoolIsOK, PoolOK
<1> QED
  BY <1>2 DEF PoolIsOK

LEMMA ConnectsOK == ASSUME PoolIsOK, NEW c \in Callers, Connect(c) PROVE PoolIsOK'
<1>1. caller \in [Callers -> CallerType] /\ ~Served(caller[c])
  BY DEF PoolIsOK, PoolOK, Connect, Served
<1>2. PICK call : call = [caller[c] EXCEPT !.step = "waiting"]
  OBVIOUS
<1>3. call \in CallerType /\ ~Served(call)
  BY <1>1, <1>2 DEF CallerType, Served
<1>4. caller' = [caller EXCEPT ![c] = call] /\ UNCHANGED conn
  BY <1>2 DEF Connect
<1> QED
  BY <1>1, <1>3, <1>4, UnservedOK

LEMMA TimesOutOK == ASSUME PoolIsOK, NEW c \in Callers, ConnectTimesOut(c) PROVE PoolIsOK'
<1>1. ~Served(caller[c])
  BY DEF ConnectTimesOut, Served
<1> QED
  BY <1>1, NoConnOK, UnservedOK DEF ConnectTimesOut

\* Nobody is served while the client is not lent: whoever comes first gets it clean.
LEMMA LendOK == ASSUME PoolIsOK, Lend PROVE PoolIsOK'
<1>1. PICK client : client = IF conn.state = "none" THEN NoConn ELSE conn
  OBVIOUS
<1>2. /\ conn \in ClientType /\ caller \in [Callers -> CallerType] /\ conn.state # "lent"
      /\ \A c \in Callers : ~Served(caller[c])
  BY DEF PoolIsOK, PoolOK, Lend, ServesOK
<1>3. ~conn.open
  BY <1>2 DEF PoolIsOK, PoolOK
<1>4. client \in ClientType /\ ~client.open /\ (client.told => client.limited)
  BY <1>1, <1>2, <1>3, NoConnOK DEF PoolIsOK, PoolOK
<1>5. PICK k : k = [client EXCEPT !.state = "lent"]
  OBVIOUS
<1>6. k \in ClientType /\ k.state = "lent" /\ ~k.open /\ (k.told => k.limited)
  BY <1>4, <1>5 DEF ClientType
<1>7. PICK h, s : /\ s \in {"begin", "statement", "set"}
                  /\ caller' = [caller EXCEPT ![h].step = s] /\ conn' = k
  BY <1>1, <1>5 DEF Lend, FirstStep
<1>8. PICK C : C = [caller EXCEPT ![h].step = s]
  OBVIOUS
<1>9. /\ C \in [Callers -> CallerType]
      /\ \A d \in Callers : (d # h => C[d] = caller[d]) /\ (d = h => C[d].step = s)
  BY <1>2, <1>7, <1>8 DEF CallerType
<1>10. \A d \in Callers : Served(C[d]) => d = h /\ C[d].step = s
  BY <1>2, <1>9
<1>11. \A d \in Callers : Served(C[d]) => ServesOK(k, C[d])
  BY <1>6, <1>7, <1>10 DEF ServesOK
<1>12. PoolOK(k, C)
  BY <1>6, <1>9, <1>10, <1>11 DEF PoolOK
<1> QED
  BY <1>7, <1>8, <1>12 DEF PoolIsOK

LEMMA GivesBackOK == ASSUME PoolIsOK, NEW c \in Callers, Release(c) PROVE PoolIsOK'
<1>1. PICK k : k = GivenBack(c)
  OBVIOUS
<1>2. /\ conn \in ClientType /\ caller \in [Callers -> CallerType] /\ Served(caller[c]) /\ ServesOK(conn, caller[c])
      /\ \A d \in Callers : Served(caller[d]) => d = c
      /\ caller[c].step = "release"
  BY DEF PoolIsOK, PoolOK, Release, Served
<1>3. k \in ClientType /\ ~k.open /\ (k.told => k.limited)
  <2>1. CASE conn.lost \/ caller[c].broken
    BY <1>1, <2>1, NoConnOK DEF GivenBack
  <2>2. CASE ~conn.lost /\ ~caller[c].broken
    <3>1. k = [conn EXCEPT !.state = "idle"]
      BY <1>1, <2>2 DEF GivenBack
    <3>2. ~conn.open /\ (conn.told => conn.limited)
      BY <1>2, <2>2 DEF ServesOK, PoolIsOK, PoolOK
    <3> QED
      BY <1>2, <3>1, <3>2 DEF ClientType
  <2> QED
    BY <2>1, <2>2
<1>4. PICK C : C = [caller EXCEPT ![c] = NoCall]
  OBVIOUS
<1>5. C \in [Callers -> CallerType] /\ \A d \in Callers : ~Served(C[d])
  BY <1>2, <1>4, NoConnOK
<1>6. PoolOK(k, C)
  BY <1>3, <1>5 DEF PoolOK
<1>7. conn' = k /\ caller' = C
  BY <1>1, <1>4 DEF Release
<1> QED
  BY <1>6, <1>7 DEF PoolIsOK

LEMMA DropsOK == ASSUME PoolIsOK, Drop PROVE PoolIsOK'
<1>1. PICK k : k = IF conn.state = "idle" THEN NoConn ELSE [conn EXCEPT !.lost = TRUE, !.open = FALSE]
  OBVIOUS
<1>2. conn \in ClientType /\ (conn.told => conn.limited)
  BY DEF PoolIsOK, PoolOK
<1>3. /\ k \in ClientType /\ ~k.open /\ (k.told => k.limited)
      /\ k.state = conn.state \/ (k.state = "none" /\ conn.state = "idle")
  BY <1>1, <1>2, NoConnOK DEF ClientType
<1>4. conn' = k /\ UNCHANGED caller
  BY <1>1 DEF Drop
<1> QED
  BY <1>3, <1>4, SessionOK

LEMMA ServerEndsOK == ASSUME PoolIsOK, ServerEnds PROVE PoolIsOK'
<1>1. PICK k : k = [conn EXCEPT !.running = FALSE]
  OBVIOUS
<1>2. conn \in ClientType /\ (conn.told => conn.limited) /\ (conn.open => ~conn.lost)
  BY DEF PoolIsOK, PoolOK
<1>3. k \in ClientType /\ k.open = conn.open /\ k.told = conn.told /\ k.limited = conn.limited
      /\ k.lost = conn.lost /\ k.state = conn.state
  BY <1>1, <1>2 DEF ClientType
<1>4. conn' = k /\ UNCHANGED caller
  BY <1>1 DEF ServerEnds
<1> QED
  BY <1>2, <1>3, <1>4, SessionOK

\* What a statement leaves of the session: what it was to become, or, of one that failed,
\* that or what it was.
LEMMA StatementLeaves ==
    ASSUME conn \in ClientType, NEW effect \in ClientType, effect.state = conn.state, effect.lost = conn.lost
    PROVE  /\ Succeeds(effect) =>
                 conn' = effect /\ ~conn.lost
           /\ Fails(effect) => \E k \in ClientType :
                 /\ conn' = k /\ k.state = conn.state /\ k.lost = conn.lost
                 /\ \/ k = conn
                    \/ /\ ~conn.lost /\ k.open = effect.open /\ k.told = effect.told
                       /\ k.limited = effect.limited
<1>1. ASSUME Fails(effect)
      PROVE  \E k \in ClientType :
                 /\ conn' = k /\ k.state = conn.state /\ k.lost = conn.lost
                 /\ \/ k = conn
                    \/ /\ ~conn.lost /\ k.open = effect.open /\ k.told = effect.told
                       /\ k.limited = effect.limited
  <2>1. CASE UNCHANGED conn
    BY <2>1
  <2>2. CASE ~conn.lost /\ conn' = [effect EXCEPT !.running = TRUE]
    <3>1. PICK k : k = [effect EXCEPT !.running = TRUE]
      OBVIOUS
    <3>2. /\ k \in ClientType /\ k.state = conn.state /\ k.lost = conn.lost
          /\ k.open = effect.open /\ k.told = effect.told /\ k.limited = effect.limited
      BY <3>1 DEF ClientType
    <3> QED
      BY <2>2, <3>1, <3>2
  <2> QED
    BY <1>1, <2>1, <2>2 DEF Fails
<1> QED
  BY <1>1 DEF Succeeds

\* The call's next step.
LEMMA ThenOK ==
    ASSUME caller \in [Callers -> CallerType], NEW c \in Callers, NEW s, Then(c, s),
           s \in {"statement", "body", "commit", "rollback", "release"}
    PROVE  \E call \in CallerType : /\ call.step = s /\ call.broken = caller[c].broken /\ Served(call)
                                    /\ caller' = [caller EXCEPT ![c] = call]
<1>1. PICK call : call = [caller[c] EXCEPT !.step = s]
  OBVIOUS
<1>2. call \in CallerType /\ call.step = s /\ call.broken = caller[c].broken /\ Served(call)
  BY <1>1 DEF CallerType, Served
<1>3. caller' = [caller EXCEPT ![c] = call]
  BY <1>1 DEF Then
<1> QED
  BY <1>2, <1>3

LEMMA ServedFacts ==
    ASSUME PoolIsOK, NEW c \in Callers, Served(caller[c])
    PROVE  /\ conn \in ClientType /\ caller \in [Callers -> CallerType] /\ conn.state = "lent"
           /\ ServesOK(conn, caller[c]) /\ (conn.open => ~conn.lost) /\ (conn.told => conn.limited)
  BY DEF PoolIsOK, PoolOK, ServesOK

LEMMA SetTimeoutOK == ASSUME PoolIsOK, NEW c \in Callers, SetTimeout(c) PROVE PoolIsOK'
<1>1. Served(caller[c]) /\ caller[c].step = "set"
  BY DEF SetTimeout, Served
<1>2. /\ conn \in ClientType /\ caller \in [Callers -> CallerType] /\ conn.state = "lent"
      /\ ~conn.open /\ (conn.told => conn.limited)
  BY <1>1, ServedFacts DEF ServesOK
<1>3. PICK set : set = [conn EXCEPT !.limited = TRUE]
  OBVIOUS
<1>4. PICK all : all = [set EXCEPT !.told = TRUE]
  OBVIOUS
<1>5. /\ set \in ClientType /\ set.state = conn.state /\ set.lost = conn.lost /\ ~set.open /\ set.limited
  BY <1>2, <1>3 DEF ClientType
<1>6. /\ all \in ClientType /\ all.state = conn.state /\ all.lost = conn.lost /\ ~all.open /\ all.limited
  BY <1>4, <1>5 DEF ClientType
<1>7. CASE Succeeds(all) /\ Then(c, "statement")
  <2>1. PICK call \in CallerType : call.step = "statement" /\ Served(call) /\ caller' = [caller EXCEPT ![c] = call]
    BY <1>2, <1>7, ThenOK
  <2>2. conn' = all /\ ServesOK(all, call)
    BY <1>2, <1>6, <1>7, <2>1 DEF Succeeds, ServesOK
  <2> QED
    BY <1>1, <1>6, <2>1, <2>2, ServedOK
<1>8. CASE Fails(set) /\ Then(c, "release")
  <2>1. PICK call \in CallerType : call.step = "release" /\ Served(call) /\ caller' = [caller EXCEPT ![c] = call]
    BY <1>2, <1>8, ThenOK
  <2>2. PICK k \in ClientType : conn' = k /\ k.state = "lent" /\ ~k.open /\ (k.told => k.limited)
    BY <1>2, <1>5, <1>8, StatementLeaves
  <2>3. ServesOK(k, call)
    BY <2>1, <2>2 DEF ServesOK
  <2> QED
    BY <1>1, <2>1, <2>2, <2>3, ServedOK
<1> QED
  BY <1>3, <1>4, <1>7, <1>8 DEF SetTimeout

LEMMA StatementOK == ASSUME PoolIsOK, NEW c \in Callers, Statement(c) PROVE PoolIsOK'
<1>1. Served(caller[c]) /\ caller[c].step = "statement"
  BY DEF Statement, Served
<1>2. /\ conn \in ClientType /\ caller \in [Callers -> CallerType] /\ conn.state = "lent"
      /\ ~conn.open /\ (conn.told => conn.limited)
  BY <1>1, ServedFacts DEF ServesOK
<1>3. PICK call \in CallerType : call.step = "release" /\ Served(call) /\ caller' = [caller EXCEPT ![c] = call]
  BY <1>2, ThenOK DEF Statement
<1>4. PICK k \in ClientType : conn' = k /\ k.state = "lent" /\ ~k.open /\ (k.told => k.limited)
  BY <1>2, StatementLeaves DEF Statement
<1>5. ServesOK(k, call)
  BY <1>3, <1>4 DEF ServesOK
<1> QED
  BY <1>1, <1>3, <1>4, <1>5, ServedOK

LEMMA BeginWorkOK == ASSUME PoolIsOK, NEW c \in Callers, BeginWork(c) PROVE PoolIsOK'
<1>1. Served(caller[c]) /\ caller[c].step = "begin"
  BY DEF BeginWork, Served
<1>2. /\ conn \in ClientType /\ caller \in [Callers -> CallerType] /\ conn.state = "lent"
      /\ ~conn.open /\ (conn.told => conn.limited)
  BY <1>1, ServedFacts DEF ServesOK
<1>3. PICK begun : begun = [conn EXCEPT !.open = TRUE]
  OBVIOUS
<1>4. /\ begun \in ClientType /\ begun.state = conn.state /\ begun.lost = conn.lost
      /\ begun.told = conn.told /\ begun.limited = conn.limited
  BY <1>2, <1>3 DEF ClientType
<1>5. PICK s \in {"body", "rollback"} : (Succeeds(begun) \/ Fails(begun)) /\ Then(c, s)
  BY <1>3 DEF BeginWork
<1>6. PICK call \in CallerType : call.step = s /\ Served(call) /\ caller' = [caller EXCEPT ![c] = call]
  BY <1>2, <1>5, ThenOK
<1>7. PICK k \in ClientType : conn' = k /\ k.state = "lent" /\ (k.open => ~k.lost) /\ (k.told => k.limited)
  BY <1>2, <1>4, <1>5, StatementLeaves
<1>8. ServesOK(k, call)
  BY <1>5, <1>6, <1>7 DEF ServesOK
<1> QED
  BY <1>1, <1>6, <1>7, <1>8, ServedOK

LEMMA BodyOK == ASSUME PoolIsOK, NEW c \in Callers, Body(c) PROVE PoolIsOK'
<1>1. Served(caller[c])
  BY DEF Body, Served
<1>2. /\ conn \in ClientType /\ caller \in [Callers -> CallerType] /\ conn.state = "lent"
      /\ (conn.open => ~conn.lost) /\ (conn.told => conn.limited)
  BY <1>1, ServedFacts
<1>3. PICK s \in {"body", "commit", "rollback"} : (Succeeds(conn) \/ Fails(conn)) /\ Then(c, s)
  BY DEF Body
<1>4. PICK call \in CallerType : call.step = s /\ Served(call) /\ caller' = [caller EXCEPT ![c] = call]
  BY <1>2, <1>3, ThenOK
<1>5. PICK k \in ClientType : conn' = k /\ k.state = "lent" /\ (k.open => ~k.lost) /\ (k.told => k.limited)
  BY <1>2, <1>3, StatementLeaves
<1>6. ServesOK(k, call)
  BY <1>3, <1>4, <1>5 DEF ServesOK
<1> QED
  BY <1>1, <1>4, <1>5, <1>6, ServedOK

LEMMA CommitOK == ASSUME PoolIsOK, NEW c \in Callers, Commit(c) PROVE PoolIsOK'
<1>1. Served(caller[c])
  BY DEF Commit, Served
<1>2. /\ conn \in ClientType /\ caller \in [Callers -> CallerType] /\ conn.state = "lent"
      /\ (conn.open => ~conn.lost) /\ (conn.told => conn.limited)
  BY <1>1, ServedFacts
<1>3. PICK done : done = [conn EXCEPT !.open = FALSE]
  OBVIOUS
<1>4. /\ done \in ClientType /\ done.state = conn.state /\ done.lost = conn.lost /\ ~done.open
      /\ done.told = conn.told /\ done.limited = conn.limited
  BY <1>2, <1>3 DEF ClientType
<1>5. CASE Succeeds(done) /\ Then(c, "release")
  <2>1. PICK call \in CallerType : call.step = "release" /\ Served(call) /\ caller' = [caller EXCEPT ![c] = call]
    BY <1>2, <1>5, ThenOK
  <2>2. conn' = done /\ ServesOK(done, call)
    BY <1>2, <1>4, <1>5, <2>1 DEF Succeeds, ServesOK
  <2> QED
    BY <1>1, <1>2, <1>4, <2>1, <2>2, ServedOK
<1>6. CASE Fails(done) /\ Then(c, "rollback")
  <2>1. PICK call \in CallerType : call.step = "rollback" /\ Served(call) /\ caller' = [caller EXCEPT ![c] = call]
    BY <1>2, <1>6, ThenOK
  <2>2. PICK k \in ClientType : conn' = k /\ k.state = "lent" /\ (k.open => ~k.lost) /\ (k.told => k.limited)
    BY <1>2, <1>4, <1>6, StatementLeaves
  <2>3. ServesOK(k, call)
    BY <2>1, <2>2 DEF ServesOK
  <2> QED
    BY <1>1, <2>1, <2>2, <2>3, ServedOK
<1> QED
  BY <1>3, <1>5, <1>6 DEF Commit

LEMMA RollbackOK == ASSUME PoolIsOK, NEW c \in Callers, Rollback(c) PROVE PoolIsOK'
<1>1. Served(caller[c])
  BY DEF Rollback, Served
<1>2. /\ conn \in ClientType /\ caller \in [Callers -> CallerType] /\ conn.state = "lent"
      /\ (conn.open => ~conn.lost) /\ (conn.told => conn.limited)
  BY <1>1, ServedFacts
<1>3. PICK undone : undone = [conn EXCEPT !.open = FALSE]
  OBVIOUS
<1>4. /\ undone \in ClientType /\ undone.state = conn.state /\ undone.lost = conn.lost /\ ~undone.open
      /\ undone.told = conn.told /\ undone.limited = conn.limited
  BY <1>2, <1>3 DEF ClientType
<1>5. CASE Succeeds(undone) /\ Then(c, "release")
  <2>1. PICK call \in CallerType : call.step = "release" /\ Served(call) /\ caller' = [caller EXCEPT ![c] = call]
    BY <1>2, <1>5, ThenOK
  <2>2. conn' = undone /\ ServesOK(undone, call)
    BY <1>2, <1>4, <1>5, <2>1 DEF Succeeds, ServesOK
  <2> QED
    BY <1>1, <1>2, <1>4, <2>1, <2>2, ServedOK
<1>6. CASE Fails(undone) /\ caller' = [caller EXCEPT ![c].step = "release", ![c].broken = TRUE]
  <2>1. PICK call : call = [caller[c] EXCEPT !.step = "release", !.broken = TRUE]
    OBVIOUS
  <2>2. call \in CallerType /\ call.step = "release" /\ call.broken /\ Served(call)
    BY <1>2, <2>1 DEF CallerType, Served
  <2>3. caller' = [caller EXCEPT ![c] = call]
    BY <1>2, <1>6, <2>1
  <2>4. PICK k \in ClientType : conn' = k /\ k.state = "lent" /\ (k.open => ~k.lost) /\ (k.told => k.limited)
    BY <1>2, <1>4, <1>6, StatementLeaves
  <2>5. ServesOK(k, call)
    BY <2>2, <2>4 DEF ServesOK
  <2> QED
    BY <1>1, <2>2, <2>3, <2>4, <2>5, ServedOK
<1> QED
  BY <1>3, <1>5, <1>6 DEF Rollback

LEMMA PoolInitOK == ConnectionsInit => PoolIsOK
  BY NoConnOK DEF ConnectionsInit, PoolIsOK, PoolOK

LEMMA PoolStepOK == PoolIsOK /\ [ConnectionsNext]_connectionVars => PoolIsOK'
<1>1. ASSUME PoolIsOK, UNCHANGED connectionVars PROVE PoolIsOK'
  BY <1>1 DEF connectionVars, PoolIsOK
<1> QED
  BY <1>1, LendOK, DropsOK, ServerEndsOK, ConnectsOK, TimesOutOK, GivesBackOK, SetTimeoutOK, StatementOK,
     BeginWorkOK, BodyOK, CommitOK, RollbackOK
     DEF ConnectionsNext

LEMMA PoolImplies == PoolIsOK => ConnectionsAreClean
<1> SUFFICES ASSUME PoolIsOK PROVE ConnectionsAreClean
  OBVIOUS
<1>1. ASSUME conn.open PROVE \E c \in Callers : caller[c].step \in {"body", "commit", "rollback", "release"}
  BY <1>1 DEF PoolIsOK, PoolOK, ServesOK, Served, CallerType
<1>2. ASSUME NEW c \in Callers, caller[c].step \in {"set", "statement", "begin"} PROVE ~conn.open
  BY <1>2 DEF PoolIsOK, PoolOK, ServesOK, Served
<1>3. \A c, d \in Callers : HasClient(c) /\ HasClient(d) => c = d
  BY DEF PoolIsOK, PoolOK, Served, HasClient
<1>4. conn.told => conn.limited
  BY DEF PoolIsOK, PoolOK
<1> QED
  BY <1>1, <1>2, <1>3, <1>4 DEF ConnectionsAreClean

\* However calls fail, time out or lose their connection, and however many there are, a
\* client is lent with no transaction of another on it, to one call at a time.
THEOREM PoolIsClean == ConnectionsSpec => []ConnectionsAreClean
  BY PoolInitOK, PoolStepOK, PoolImplies, PTL DEF ConnectionsSpec

-----------------------------------------------------------------------------
(* All of them.                                                            *)

\* Whatever runs at once, and wherever it dies, suites keep their turns, growth is told, the
\* migrations listed are the ones applied, and connections are lent clean.
THEOREM OperationsSafe == OperationsSpec => []OperationsAreSound
  BY SuiteLockFair, GuardTellsGrowth, MigrateSafe, PoolIsClean, PTL DEF OperationsSpec, OperationsAreSound
=============================================================================
