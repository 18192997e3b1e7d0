------------------------------ MODULE KolModal ------------------------------
(***************************************************************************)
(* The modal of a KOL over the ranking: KolModalHost fetches the detail of *)
(* the KOL whose row was pressed, again when the period, the month or the  *)
(* attempt changes, and a KOL the server does not know leaves the list     *)
(* when the modal closes.                                                  *)
(*                                                                         *)
(* The server's current month is 0 and the others count from it.  The      *)
(* route answers with the window it was asked for, so the comparison of    *)
(* the two (body.window === period, both of the effect's own closure) is   *)
(* always true and is left out.                                            *)
(***************************************************************************)
EXTENDS Integers, FiniteSets

CONSTANTS
    Slugs,         \* KOLs with a row in the ranking
    NoSlug,
    Periods,       \* LEADERBOARD_WINDOWS
    PagePeriod,    \* the period of the page
    MonthsAway,        \* bound: months the calendar is paged away from the current one
    NoMonth,       \* null: the month the server considers current
    MaxAttempts    \* bound on retries

ASSUME KolModalAssumption ==
    /\ NoSlug \notin Slugs /\ PagePeriod \in Periods
    /\ MonthsAway \in Nat /\ MaxAttempts \in Nat /\ NoMonth \notin Int

VARIABLES
    modal,         \* the state of the component
    flying,        \* its fetches that were not aborted
    gone,          \* rows taken out of the list
    padron,        \* approved KOLs: what the server answers for
    told           \* history: KOLs the server said 404 of

modalVars == <<modal, flying, gone, padron, told>>

PagedMonths == (-MonthsAway .. MonthsAway) \cup {NoMonth}

NoDetail == [slug |-> NoSlug, window |-> PagePeriod, month |-> NoMonth]

KolModalTypeOK ==
    /\ modal \in [slug : Slugs \cup {NoSlug}, period : Periods, month : PagedMonths,
                  attempt : 0 .. MaxAttempts, failure : {"none", "transient", "gone"},
                  detail : [slug : Slugs \cup {NoSlug}, window : Periods, month : PagedMonths]]
    /\ flying \subseteq [slug : Slugs, period : Periods, month : PagedMonths, attempt : 0 .. MaxAttempts]
    /\ gone \subseteq Slugs /\ padron \subseteq Slugs /\ told \subseteq Slugs

-----------------------------------------------------------------------------

\* What the fetch effect depends on, and the fetch it starts.
Deps(m) == [slug |-> m.slug, period |-> m.period, month |-> m.month, attempt |-> m.attempt]

\* Mutant: the cleanup does not abort.
RefetchBeside(m) ==
    IF Deps(m) = Deps(modal) THEN flying
    ELSE IF m.slug = NoSlug THEN {}
    ELSE flying \cup {Deps(m)}

\* The effect: a change of its dependencies aborts its fetch and starts another.
Refetch(m) ==
    IF Deps(m) = Deps(modal) THEN flying
    ELSE IF m.slug = NoSlug THEN {}
    ELSE {Deps(m)}

Become(m) ==
    /\ modal' = m
    /\ flying' = Refetch(m)

\* The rows that are left: an open modal makes them inert.
OpenKol(k) ==
    /\ modal.slug = NoSlug /\ k \notin gone
    /\ Become([modal EXCEPT !.slug = k, !.period = PagePeriod, !.month = NoMonth,
                            !.detail = NoDetail, !.failure = "none"])
    /\ UNCHANGED <<gone, padron, told>>

\* The segments are part of the detail, the selected one included.
ChangePeriod(p) ==
    /\ modal.detail # NoDetail
    /\ Become([modal EXCEPT !.period = p, !.detail = NoDetail, !.failure = "none"])
    /\ UNCHANGED <<gone, padron, told>>

\* The arrows step from the month that is rendered, and nothing is cleared.
ChangeMonth(delta) ==
    /\ modal.detail # NoDetail /\ modal.detail.month + delta \in PagedMonths
    /\ Become([modal EXCEPT !.month = modal.detail.month + delta])
    /\ UNCHANGED <<gone, padron, told>>

\* Only a transient failure has a retry.
RetryFetch ==
    /\ modal.failure = "transient" /\ modal.attempt < MaxAttempts
    /\ Become([modal EXCEPT !.failure = "none", !.attempt = @ + 1])
    /\ UNCHANGED <<gone, padron, told>>

CloseModal ==
    /\ modal.slug # NoSlug
    /\ gone' = IF modal.failure = "gone" THEN gone \cup {modal.slug} ELSE gone
    /\ Become([modal EXCEPT !.slug = NoSlug, !.detail = NoDetail, !.failure = "none"])
    /\ UNCHANGED <<padron, told>>

FetchedOk(f) ==
    /\ f.slug \in padron
    /\ modal' = [modal EXCEPT !.detail = [slug |-> f.slug, window |-> f.period,
                                          month |-> IF f.month = NoMonth THEN 0 ELSE f.month]]
    /\ UNCHANGED told

\* loadFailure: a 404 is for good, everything else passes.
FetchedMissing(f) ==
    /\ f.slug \notin padron
    /\ modal' = [modal EXCEPT !.failure = "gone"]
    /\ told' = told \cup {f.slug}

FetchFails == modal' = [modal EXCEPT !.failure = "transient"] /\ UNCHANGED told

FetchEnds(f) ==
    /\ f \in flying /\ flying' = flying \ {f}
    /\ FetchedOk(f) \/ FetchedMissing(f) \/ FetchFails
    /\ UNCHANGED <<gone, padron>>

\* External: an administrator suspends a KOL, or approves it again.
RosterChanges(k) ==
    /\ padron' = IF k \in padron THEN padron \ {k} ELSE padron \cup {k}
    /\ UNCHANGED <<modal, flying, gone, told>>

-----------------------------------------------------------------------------

KolModalInit ==
    /\ modal = [slug |-> NoSlug, period |-> PagePeriod, month |-> NoMonth, attempt |-> 0,
                failure |-> "none", detail |-> NoDetail]
    /\ flying = {} /\ gone = {} /\ padron = Slugs /\ told = {}

KolModalNext ==
    \/ \E k \in Slugs : OpenKol(k) \/ RosterChanges(k)
    \/ \E p \in Periods : ChangePeriod(p)
    \/ \E delta \in {-1, 1} : ChangeMonth(delta)
    \/ RetryFetch \/ CloseModal
    \/ \E f \in flying : FetchEnds(f)

KolModalSpec == KolModalInit /\ [][KolModalNext]_modalVars

-----------------------------------------------------------------------------

\* The detail on the screen is of the KOL that is open and of the period that is
\* selected, and once nothing is on its way and nothing failed, of the month that was
\* chosen: no answer to an earlier question is ever shown.  A KOL is said to be gone, and
\* its row taken out, only if that is what the server said of that KOL.
ModalShowsWhatIsAsked ==
    /\ modal.detail # NoDetail =>
           modal.detail.slug = modal.slug /\ modal.detail.window = modal.period
    /\ flying = {} /\ modal.failure = "none" /\ modal.detail # NoDetail /\ modal.month # NoMonth =>
           modal.detail.month = modal.month
    /\ modal.failure = "gone" => modal.slug \in told
    /\ gone \subseteq told
=============================================================================
